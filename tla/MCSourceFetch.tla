---------------------------- MODULE MCSourceFetch ---------------------------
(* Recipes of every kind of source, and what may happen to each of them.     *)
EXTENDS SourceFetch

Recipe(k, names, modes, events) ==
    [kind |-> k, names |-> names, main |-> "main", pins |-> FALSE, patch |-> 0, adds |-> FALSE,
     alias |-> "none", faults |-> MaxFaults, modes |-> modes, events |-> events]
Patched(r) == [r EXCEPT !.patch = 1]
Adding(r) == [r EXCEPT !.patch = 1, !.adds = TRUE]
Pinning(r) == [r EXCEPT !.pins = TRUE]
Once(r) == [r EXCEPT !.faults = 1]
Aliased(r, at) == [r EXCEPT !.alias = at]

AllModes == {"check", "deps", "offline", "local"}
Faults == {"stop", "tear"}
Branches == {"main", "dev"}
Two == {"main", "other"}

MCSetups == {
    Once(Patched(Recipe("git", {"main"}, {"check"}, {"upstream", "patch"} \cup Faults))),
    Once(Patched(Recipe("git", {"main"}, {"check", "deps"}, {"patch", "drop", "tear"}))),
    Once(Patched(Recipe("git", {"main"}, {"check"}, {"upstream", "drop", "unfetch", "tear"}))),
    Once(Adding(Recipe("git", {"main"}, {"check"}, {"patch"} \cup Faults))),
    Adding(Recipe("git", {"main"}, {"check"}, {"upstream"})),
    Recipe("git", Branches, {"check"}, {"upstream", "branch"}),
    Recipe("git", Branches, AllModes, {"branch", "unfetch"} \cup Faults),
    Once(Patched(Recipe("git", Branches, {"check"}, {"branch", "patch", "stop"}))),
    Pinning(Recipe("git", {"main"}, {"check", "deps"}, {"upstream", "pin", "unpin"})),
    Once(Pinning(Recipe("git", {"main"}, {"check", "local"}, {"pin", "unpin", "stop"}))),
    Once(Pinning(Recipe("tar", {"main"}, {"check"}, {"upstream", "pin"} \cup Faults))),
    Once(Pinning(Patched(Recipe("tar", {"main"}, {"check"}, {"pin", "patch", "tear"})))),
    Once(Pinning(Recipe("tar", {"main"}, {"check", "deps"}, {"pin", "stop"}))),
    Pinning(Recipe("tar", {"main"}, {"check", "offline"}, {"pin", "unpin", "unfetch"})),
    Once(Pinning(Patched(Recipe("tar", {"main"}, {"check", "offline"}, {"patch", "tear"})))),
    Once(Pinning(Patched(Recipe("tar", {"main"}, {"check", "deps"}, {"patch", "drop", "stop"})))),
    Recipe("tar", {"main"}, {"check", "local"}, {"upstream", "lost", "unfetch"} \cup Faults),
    Recipe("workspace", {"main"}, {"check", "local"}, {"upstream", "unfetch"} \cup Faults),
    Recipe("workspace", Two, {"check", "offline", "deps"}, {"upstream"}),
    Once(Recipe("path", Two, AllModes, {"upstream", "unfetch"} \cup Faults)),
    Once(Recipe("remote", Two, {"check", "offline"}, {"upstream", "stop"})),
    Aliased(Recipe("git", {"main"}, {"check"}, {"upstream", "stop"}), "absent"),
    Aliased(Recipe("git", {"main"}, {"check"}, {}), "dir")}

\* What the code does not do: each violates EveryFetchDelivers, NothingIsLeft,
\* EveryAnswerIsWhole or EveryFetchRecovers of SourceFetch; README.md says which.
\* Those that a run checks hold of these as well, but for PathBackdated.
OfflinePatched == {Patched(Recipe("git", {"main"}, {"check", "offline"}, {"patch"}))}
OfflineTorn == {Pinning(Patched(Recipe("tar", {"main"}, {"check", "offline"}, {"stop"})))}
DepsPatched == {Patched(Recipe("git", {"main"}, {"check", "deps"}, {"patch"}))}
PatchDropped == {Patched(Recipe("git", {"main"}, {"check"}, {"upstream", "drop"}))}
PatchesAdd == {Adding(Recipe("git", {"main"}, {"check"}, {"patch"}))}
BranchStopped == {Patched(Recipe("git", Branches, {"check"}, {"branch", "stop"}))}
PatchReverted == {Patched(Recipe("git", {"main"}, {"check"}, {"patch", "stop"}))}
UnfetchTorn == {Recipe("git", {"main"}, {"check"}, {"unfetch", "tear"})}
WorkspaceReverted == {Recipe("workspace", Two, {"check"}, {"upstream", "tear"})}
WorkspaceRaced == {Recipe("workspace", Two, {"check"}, {"upstream"})}
PackageRaced == {Recipe("remote", Two, {"check"}, {"upstream"})}
PathStopped == {Recipe("path", Two, {"check"}, {"stop"})}
PathEdited == {Recipe("path", Two, {"check"}, {"upstream"})}
PathBackdated == {Recipe("path", {"main"}, {"check"}, {"upstream", "backdate"})}
ArchiveLost == {Recipe("tar", {"main"}, {"check"}, {"upstream", "lost", "stop"})}
=============================================================================
