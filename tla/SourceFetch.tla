----------------------------- MODULE SourceFetch ------------------------------
(***************************************************************************)
(* How `repo` brings the source of one recipe to disk: a git repository, an *)
(* archive, a part of this repository, a directory, or the packages a       *)
(* server has built.  A fetch compares what it finds with source_info.toml, *)
(* the record of the last one.  Upstream and the recipe change at any time, *)
(* and a fetch may be refused or killed at any step.                        *)
(***************************************************************************)
EXTENDS Naturals, FiniteSetsExt

CONSTANTS
    Setups,     \* the kinds of recipe and what happens to them, see below
    MaxVersion, MaxPatch, MaxFaults    \* bounds

\* kind    of the recipe's source
\* names   what is versioned apart: the branches, the files, the packages
\* main    the default branch, or the mandatory package
\* pins    a rev of a git source, or the blake3 of an archive, is given
\* patch   the version of its patches and script, 0 without
\* adds    they create files, besides changing those there are
\* alias   another recipe is same_as this one: what is at its source
\* modes   "check", "deps" (not checked), "offline", "local" (the rule)
\* events  what changes: "upstream", "pin", "unpin", "branch", "patch",
\*         "drop" (the patches), "lost" (the archive), "unfetch" (and clean),
\*         "backdate" (files changed under their old times), and the faults
\*         "stop" between two steps, "tear" within one
\* faults  how many of those
ASSUME FetchAssumption == \A s \in Setups :
    /\ s.kind \in {"git", "tar", "workspace", "path", "remote"}
    /\ s.main \in s.names /\ s.pins \in BOOLEAN /\ s.adds \in BOOLEAN /\ s.faults \in 0..MaxFaults
    /\ s.patch \in 0..MaxPatch
    /\ s.alias \in {"none", "absent", "link", "dir"}
    /\ s.modes \subseteq {"check", "deps", "offline", "local"}

VARIABLE setup      \* the one of this behaviour

Kind == setup.kind
Names == setup.names
Main == setup.main

VARIABLES
    upstream,   \* name |-> its version at the origin
    recipe,     \* branch, version (rev or blake3, 0 without) and patch it asks for
    source,     \* the source directory
    git,        \* of a repository: branch checked out, remotes/origin, and the
                \* patches whose new files are there, which git does not track
    tmp,        \* source.tmp
    archive,    \* source.tar and the source.tar.tmp of an interrupted wget
    newer,      \* a path source was modified after everything in source
    pair,       \* package |-> versions of its source toml and pkgar
    info,       \* source_info.toml
    alias,      \* the source and the source_info.toml of the other recipe
    pc, todo,   \* the step of the running fetch, and the names it still goes over
    fetch,      \* its mode, what it has read and found, and how the last one ended
    interrupted,    \* history: see below
    faults

origin == <<upstream, recipe>>
disk == <<source, git, tmp, archive, newer, pair, info, alias>>
process == <<pc, todo, fetch>>
history == <<interrupted, faults>>
vars == <<setup, origin, disk, process, history>>

All(version) == [n \in Names |-> version]
Versions == 1..MaxVersion
Mixed == MaxVersion + 1     \* an archive continued from an older one
Partly == MaxPatch + 1      \* patches that were applied in part

NoTree == [there |-> FALSE, whole |-> TRUE, content |-> All(0), patch |-> 0]
EmptyTree == [NoTree EXCEPT !.there = TRUE]
NoInfo == [state |-> "absent", source |-> All(0), patch |-> 0]
Info(ident, patch) == [state |-> "whole", source |-> ident, patch |-> patch]

Idle == [mode |-> "none", edits |-> "none", result |-> "none", info |-> NoInfo,
         asks |-> [branch |-> "default", version |-> 0, patch |-> 0], cached |-> TRUE,
         ident |-> All(0), renewed |-> FALSE, known |-> All(0), toml |-> 0]

\* What interrupted says, besides the record a fetch did not come to write; and
\* that the origin or the recipe changed while the source was brought.
Nothing == [NoInfo EXCEPT !.state = "none"]
Untold == NoInfo
Raced == [NoInfo EXCEPT !.state = "raced"]

Init ==
    /\ setup \in Setups
    /\ upstream = All(1)
    /\ recipe = [branch |-> "default", version |-> IF setup.pins THEN 1 ELSE 0, patch |-> setup.patch]
    /\ source = NoTree /\ tmp = NoTree /\ info = NoInfo
    /\ git = [branch |-> "none", refs |-> All(0), left |-> {}]
    /\ archive = [tar |-> 0, part |-> 0]
    /\ newer = TRUE
    /\ pair = [n \in Names |-> [toml |-> 0, pkgar |-> 0]]
    /\ alias = [source |-> setup.alias, info |-> NoInfo]
    /\ pc = "idle" /\ todo = {} /\ fetch = Idle /\ interrupted = Nothing /\ faults = 0

Goto(step) == pc' = step /\ UNCHANGED todo
GoOver(step) == pc' = step /\ todo' = Names

\* The source is brought anew (FetchResult: it is not cached).
Renews == fetch' = [fetch EXCEPT !.cached = FALSE]

----------------------------------------------------------------------------
\* The origin and the recipe: any version and any patches follow any others.
\* The commits of a repository are all there, upstream is where its branches are.

Happens(event) == event \in setup.events /\ UNCHANGED <<setup, pc, todo, faults>>

\* A fetch that runs has seen a change, or a return to what was before.
Disturbs(back) ==
    fetch' = IF pc = "idle" THEN Idle
             ELSE [fetch EXCEPT !.edits = IF back \/ @ = "back" THEN "back" ELSE "forward"]

\* What the recipe now asks for, and how it would be recorded.
WantedVersion == IF recipe.branch = "default" THEN upstream[Main] ELSE upstream[recipe.branch]
Wanted ==
    CASE Kind = "git" -> All(IF recipe.version = 0 THEN WantedVersion ELSE recipe.version)
      [] Kind = "tar" -> All(IF recipe.version = 0 THEN archive.tar ELSE recipe.version)
      [] OTHER -> upstream
IdentOfWanted == IF Kind = "path" \/ (Kind = "tar" /\ recipe.version = 0) THEN All(0) ELSE Wanted

\* History: what comes back is what the record says of a source that changed
\* while it was brought, or the toml of a package that did.
ComesBack ==
    \/ interrupted = Raced /\ info' = Info(IdentOfWanted, recipe.patch)'
    \/ Kind = "remote" /\ \E n \in Names :
          upstream'[n] # upstream[n] /\ upstream'[n] \in {pair[n].toml, fetch.toml} \ {pair[n].pkgar}
Remembers == interrupted' = IF ComesBack THEN Untold ELSE interrupted

edit_upstream(n) ==
    /\ Happens("upstream")
    /\ \E v \in Versions \ {upstream[n]} :
          upstream' = [upstream EXCEPT ![n] = v] /\ Disturbs(v < upstream[n])
    /\ newer' \in {TRUE} \cup IF "backdate" \in setup.events THEN {newer} ELSE {}
    /\ UNCHANGED <<recipe, source, git, tmp, archive, pair, info, alias>> /\ Remembers

edit_recipe ==
    /\ \/ Happens("pin")
          /\ \E v \in Versions \ {recipe.version} : recipe' = [recipe EXCEPT !.version = v]
       \/ Happens("unpin") /\ recipe.version # 0
          /\ recipe' = [recipe EXCEPT !.version = 0]
       \/ Happens("branch")
          /\ \E b \in Names : b # recipe.branch /\ recipe' = [recipe EXCEPT !.branch = b]
       \/ Happens("patch")
          /\ \E p \in (1..MaxPatch) \ {recipe.patch} : recipe' = [recipe EXCEPT !.patch = p]
       \/ Happens("drop") /\ recipe.patch # 0
          /\ recipe' = [recipe EXCEPT !.patch = 0]
    /\ Disturbs(recipe'.patch < recipe.patch) /\ UNCHANGED <<upstream, disk>> /\ Remembers

lose_archive ==
    /\ Happens("lost") /\ pc = "idle" /\ archive.tar # 0
    /\ archive' = [archive EXCEPT !.tar = 0]
    /\ Disturbs(FALSE) /\ UNCHANGED <<origin, source, git, tmp, newer, pair, info, alias, interrupted>>

\* handle_clean: target, with source_info.toml and the packages; when it is to
\* unfetch, then the source, and the archive without a blake3 or of all recipes.
handle_clean(step) ==
    /\ "unfetch" \in setup.events /\ pc = "idle" /\ (step = "unfetch" => Kind # "remote")
    /\ info' = NoInfo /\ pair' = [n \in Names |-> [toml |-> 0, pkgar |-> 0]]
    /\ fetch' = Idle /\ Goto(step)
    /\ UNCHANGED <<setup, origin, source, git, tmp, archive, newer, alias, history>>

unfetch_source ==
    /\ pc = "unfetch"
    /\ source' = NoTree
    /\ archive' \in {[archive EXCEPT !.tar = 0]} \cup IF recipe.version = 0 THEN {} ELSE {archive}
    /\ Goto("idle")
    /\ UNCHANGED <<setup, origin, git, tmp, newer, pair, info, alias, fetch, history>>

----------------------------------------------------------------------------
\* handle_fetch

Asks == fetch.asks
Checked == fetch.mode = "check"
Head == source.content[Main]        \* .git/HEAD: all of it is of one commit

\* Mutant: the patches of before will do.
InfoCurrentMutant(ident, patch) == fetch.info.state = "whole" /\ fetch.info.source = ident

\* is_updated, against the info that was read when the fetch began
InfoCurrent(ident, patch) == fetch.info = Info(ident, patch)

First(mode) ==
    IF mode = "local" /\ source.there THEN "local"
    ELSE CASE Kind = "git" -> IF mode = "offline" THEN "offline git" ELSE "git"
           [] Kind = "tar" -> IF mode = "offline" THEN "offline tar" ELSE "tar"
           [] Kind = "workspace" -> "snapshot"
           [] Kind = "path" -> "path"
           [] Kind = "remote" -> "package"

\* Offline, a directory is still fetched, and checked; without a source, the
\* local rule fetches as well.
Mode(mode) ==
    IF \/ mode = "local" /\ ~source.there
       \/ mode = "offline" /\ Kind \in {"workspace", "path"} THEN "check" ELSE mode

start(mode) ==
    /\ pc = "idle"
    /\ pc' = First(mode) /\ todo' = Names
    /\ fetch' = [Idle EXCEPT !.mode = Mode(mode), !.asks = recipe,
                             !.info = info, !.known = IF Kind = "remote" THEN upstream ELSE @]
    /\ UNCHANGED <<setup, origin, disk, history>>

\* A source that is kept as it is: its info says so.
PatchIdent == IF fetch.mode = "local" THEN 0 ELSE Asks.patch

local ==
    /\ pc = "local"
    /\ Goto("info") /\ UNCHANGED <<setup, origin, disk, fetch, history>>

Tracked == IF Asks.branch = "default" THEN Main ELSE Asks.branch

\* What is recorded at the end; what a fetch that renews is about to record.
Recorded ==
    IF fetch.mode = "local" \/ Kind = "path" THEN All(0)
    ELSE CASE Kind = "tar"    -> All(Asks.version)
           [] Kind = "remote" -> All(pair[Main].toml)
           [] OTHER           -> fetch.ident
Record == Info(Recorded, PatchIdent)

Aim ==
    IF Kind # "git" THEN Record
    ELSE IF pc \in {"patch", "head", "info"} THEN Info(source.content, PatchIdent)
    ELSE Info(All(IF Asks.version # 0 THEN Asks.version ELSE upstream[Tracked]), PatchIdent)

\* History, for the properties only.  A fetch compares records.  While it has
\* renewed the source and not written its own, the record is of the source
\* before: interrupted is then the record that was to follow, or Untold when it
\* would have been the same.  It is Untold also when no record can tell, for
\* what was brought changed on the way and changed back, when a directory
\* changed at all while it was copied, or when a mode that does not check
\* recorded what it did not bring.
Renewing == Kind # "remote" /\ (~fetch.cached \/ fetch.renewed)
Unseen ==
    \/ fetch.edits = "back" /\ Renewing
    \/ Kind = "path" /\ (pc = "unfetch" \/ (Renewing /\ fetch.edits # "none"))
Unchecked ==
    fetch.mode # "check" /\ IF Renewing THEN fetch.mode = "deps" /\ Kind = "tar" ELSE Record # fetch.info

Answers ==
    /\ pc' = "idle" /\ todo' = {}
    /\ fetch' = [Idle EXCEPT !.mode = fetch.mode, !.edits = fetch.edits, !.info = fetch.info, !.result = "ok"]
    /\ interrupted' = IF Unseen \/ Unchecked THEN Untold
                      ELSE IF ~Renewing THEN interrupted
                      ELSE IF fetch.edits = "none" THEN Nothing ELSE Raced

Ends ==
    /\ pc' = "idle" /\ todo' = {} /\ fetch' = Idle
    /\ interrupted' = IF Renewing THEN IF Kind = "path" \/ Aim = fetch.info THEN Untold ELSE Aim
                      ELSE IF Unseen THEN Untold ELSE interrupted

Fails == Ends /\ UNCHANGED <<setup, origin, disk, faults>>

----------------------------------------------------------------------------
\* A git repository

git_absent == pc = "git" /\ ~source.there /\ Goto("clean") /\ Renews
              /\ UNCHANGED <<setup, origin, disk, history>>

git_unchecked == pc = "git" /\ source.there /\ ~Checked /\ Goto("head")
                 /\ UNCHANGED <<setup, origin, disk, fetch, history>>

\* A rev is compared with HEAD, a branch with the one it tracks.
Pinned == Asks.version # 0 /\ git.branch = "none"
Tracking == Asks.version = 0 /\ git.branch = Tracked

git_outdated ==
    /\ pc = "git" /\ source.there /\ Checked
    /\ \/ ~InfoCurrent(source.content, PatchIdent)
       \/ ~Tracking /\ ~(Pinned /\ Asks.version = Head)
    /\ Goto("git fetch") /\ Renews /\ UNCHANGED <<setup, origin, disk, history>>

git_pinned ==
    /\ pc = "git" /\ source.there /\ Checked /\ InfoCurrent(source.content, PatchIdent)
    /\ Pinned /\ Asks.version = Head
    /\ Goto("head") /\ UNCHANGED <<setup, origin, disk, fetch, history>>

\* git_run_fetch brings the branches; then FETCH_HEAD is looked through for the
\* default branch, whichever is tracked.
git_tracked ==
    /\ pc = "git" /\ source.there /\ Checked /\ InfoCurrent(source.content, PatchIdent)
    /\ Tracking
    /\ git' = [git EXCEPT !.refs = upstream]
    /\ Goto("compare") /\ UNCHANGED <<setup, origin, source, tmp, archive, newer, pair, info, alias, fetch, history>>

UpToDateBranch == git.branch = Main /\ git.refs[Main] = Head

compare ==
    /\ pc = "compare"
    /\ \/ UpToDateBranch /\ Goto("head") /\ UNCHANGED fetch
       \/ ~UpToDateBranch /\ Goto("reset") /\ Renews
    /\ UNCHANGED <<setup, origin, disk, history>>

git_run_fetch ==
    /\ pc = "git fetch"
    /\ git' = [git EXCEPT !.refs = upstream]
    /\ Goto("reset") /\ UNCHANGED <<setup, origin, source, tmp, archive, newer, pair, info, alias, fetch, history>>

\* With patches, what git tracks is as committed again; new files stay.
reset ==
    /\ pc = "reset"
    /\ source' = IF Asks.patch # 0 THEN [source EXCEPT !.patch = 0, !.whole = TRUE] ELSE source
    /\ Goto("checkout") /\ UNCHANGED <<setup, origin, git, tmp, archive, newer, pair, info, alias, fetch, history>>

CheckedOut == IF Asks.version # 0 THEN Asks.version ELSE git.refs[Tracked]

\* The work tree keeps its modifications.
checkout ==
    /\ pc = "checkout"
    /\ source' = [source EXCEPT !.content = All(CheckedOut)]
    /\ git' = [git EXCEPT !.branch = IF Asks.version # 0 THEN "none" ELSE Tracked]
    /\ Goto("patch") /\ UNCHANGED <<setup, origin, tmp, archive, newer, pair, info, alias, fetch, history>>

\* git does not overwrite a file that is modified or that it does not track.
checkout_refused ==
    /\ pc = "checkout" /\ (source.patch # 0 \/ git.left # {}) /\ CheckedOut # Head
    /\ Fails

\* fetch_apply_patches; the identifier was computed before, from the recipe
\* that was read; a patch file that is gone since is an error.  What is applied
\* is not applied again, nor a file created where there is one.
fetch_apply_patches ==
    /\ pc \in {"patch", "offline patch"} /\ (Asks.patch # 0 => recipe.patch # 0)
    /\ pc = "patch" /\ Asks.patch # 0 => source.patch = 0 /\ recipe.patch \notin git.left
    /\ source' = IF Asks.patch = 0 THEN source ELSE [source EXCEPT !.patch = recipe.patch]
    /\ git' = IF Kind = "git" /\ setup.adds /\ Asks.patch # 0
              THEN [git EXCEPT !.left = @ \cup {recipe.patch}] ELSE git
    /\ Goto(IF Kind = "git" THEN "head" ELSE "info")
    /\ UNCHANGED <<setup, origin, tmp, archive, newer, pair, info, alias, fetch, history>>

patch_refused ==
    /\ pc = "patch" /\ Asks.patch # 0 /\ recipe.patch # 0 /\ (source.patch # 0 \/ git.left # {})
    /\ source' = [source EXCEPT !.patch = Partly] /\ Ends
    /\ UNCHANGED <<setup, origin, git, tmp, archive, newer, pair, info, alias, faults>>

patch_is_gone ==
    /\ pc \in {"patch", "offline patch", "patch tmp"} /\ Asks.patch # 0 /\ recipe.patch = 0
    /\ Fails

\* A repository of which an interrupted unfetch left a part may be none.
git_fails ==
    /\ pc \in {"git", "offline git", "git fetch", "reset", "checkout", "head"}
    /\ Kind = "git" /\ source.there /\ ~source.whole
    /\ Fails

\* Offline, the repository has to be there and is taken for what it is asked to be.
offline_git ==
    /\ pc = "offline git" /\ source.there
    /\ Goto("head") /\ UNCHANGED <<setup, origin, disk, fetch, history>>

head ==
    /\ pc = "head"
    /\ fetch' = [fetch EXCEPT !.ident = source.content]
    /\ Goto("info") /\ UNCHANGED <<setup, origin, disk, history>>

----------------------------------------------------------------------------
\* source.tmp, filled and renamed

clean ==
    /\ pc = "clean"
    /\ tmp' = EmptyTree
    /\ GoOver("fill") /\ UNCHANGED <<setup, origin, source, git, archive, newer, pair, info, alias, fetch, history>>

clone ==
    /\ pc = "fill" /\ Kind = "git"
    /\ tmp' = [tmp EXCEPT !.content = All(upstream[Tracked])]
    /\ git' = [branch |-> Tracked, refs |-> upstream, left |-> {}]
    /\ Goto("rename") /\ UNCHANGED <<setup, origin, source, archive, newer, pair, info, alias, fetch, history>>

fetch_extract_tar ==
    /\ pc = "fill" /\ Kind = "tar"
    /\ tmp' = [tmp EXCEPT !.content = All(archive.tar)]
    /\ Goto("patch tmp") /\ UNCHANGED <<setup, origin, source, git, archive, newer, pair, info, alias, fetch, history>>

patch_tmp ==
    /\ pc = "patch tmp" /\ (Asks.patch # 0 => recipe.patch # 0)
    /\ tmp' = [tmp EXCEPT !.patch = IF Asks.patch = 0 THEN 0 ELSE recipe.patch]
    /\ Goto("rename") /\ UNCHANGED <<setup, origin, source, git, archive, newer, pair, info, alias, fetch, history>>

\* The files of the snapshot are read again, one after the other.
materialize_file(n) ==
    /\ pc = "fill" /\ Kind = "workspace" /\ n \in todo
    /\ tmp' = [tmp EXCEPT !.content[n] = upstream[n]]
    /\ todo' = todo \ {n} /\ pc' = IF todo = {n} THEN "replace" ELSE pc
    /\ UNCHANGED <<setup, origin, source, git, archive, newer, pair, info, alias, fetch, history>>

remove_source ==
    /\ pc \in {"replace", "remove source"}
    /\ source' = NoTree
    /\ Goto(IF pc = "replace" THEN "rename" ELSE "clean")
    /\ UNCHANGED <<setup, origin, git, tmp, archive, newer, pair, info, alias, fetch, history>>

rename ==
    /\ pc = "rename"
    /\ source' = tmp /\ tmp' = NoTree
    /\ Goto(IF Kind = "git" THEN "git fetch" ELSE "info")
    /\ UNCHANGED <<setup, origin, git, archive, newer, pair, info, alias, fetch, history>>

----------------------------------------------------------------------------
\* A part of this repository: workspace_snapshot reads its files for their
\* identifier.

hash_file(n) ==
    /\ pc = "snapshot" /\ n \in todo
    /\ fetch' = [fetch EXCEPT !.ident[n] = upstream[n]]
    /\ todo' = todo \ {n} /\ pc' = IF todo = {n} THEN "workspace" ELSE pc
    /\ UNCHANGED <<setup, origin, disk, history>>

WorkspaceCached == source.there /\ InfoCurrent(fetch.ident, 0)

workspace ==
    /\ pc = "workspace"
    /\ \/ WorkspaceCached /\ Goto("info") /\ UNCHANGED fetch
       \/ ~WorkspaceCached /\ Goto("clean") /\ Renews
    /\ UNCHANGED <<setup, origin, disk, history>>

----------------------------------------------------------------------------
\* A directory: its files are copied over those in source when one of them was
\* modified after all of those.

\* modified_dir of the path against modified_dir of the source.
UpToDate == source.there /\ ~newer

path ==
    /\ pc = "path"
    /\ \/ UpToDate /\ Goto("info") /\ UNCHANGED fetch
       \/ ~UpToDate /\ GoOver("copy") /\ Renews
    /\ UNCHANGED <<setup, origin, disk, history>>

copy_file(n) ==
    /\ pc = "copy" /\ n \in todo
    /\ source' = [source EXCEPT !.there = TRUE, !.whole = @ \/ todo = {n}, !.content[n] = upstream[n]]
    /\ newer' = FALSE
    /\ todo' = todo \ {n} /\ pc' = IF todo = {n} THEN "info" ELSE pc
    /\ UNCHANGED <<setup, origin, git, tmp, archive, pair, info, alias, fetch, history>>

----------------------------------------------------------------------------
\* An archive

ArchiveIdent == All(Asks.version)

\* wget --continue goes on with what an interrupted one has left.
download_wget ==
    /\ pc = "tar" /\ archive.tar = 0
    /\ archive' = [tar |-> IF archive.part \in {0, upstream[Main]} THEN upstream[Main] ELSE Mixed, part |-> 0]
    /\ fetch' = [fetch EXCEPT !.renewed = TRUE]
    /\ Goto("verify") /\ UNCHANGED <<setup, origin, source, git, tmp, newer, pair, info, alias, history>>

archive_there ==
    /\ pc = "tar" /\ archive.tar # 0
    /\ Goto("verify") /\ UNCHANGED <<setup, origin, disk, fetch, history>>

\* Mutant: an archive that is there is not verified.
VerifiedMutant == ~Checked \/ Asks.version = 0 \/ archive.tar = Asks.version \/ ~fetch.renewed

Verified == ~Checked \/ Asks.version = 0 \/ archive.tar = Asks.version

verified ==
    /\ pc = "verify" /\ Verified
    /\ Goto("tar source") /\ UNCHANGED <<setup, origin, disk, fetch, history>>

verify_fails ==
    /\ pc = "verify" /\ ~Verified /\ fetch.renewed
    /\ Fails

\* Mutant: the archive that failed is kept.
download_againMutant == pc = "verify" /\ ~Verified /\ ~fetch.renewed /\ Fails

download_again ==
    /\ pc = "verify" /\ ~Verified /\ ~fetch.renewed
    /\ archive' = [archive EXCEPT !.tar = 0]
    /\ Goto("tar") /\ UNCHANGED <<setup, origin, source, git, tmp, newer, pair, info, alias, fetch, history>>

\* The source is of that archive, as the record says.
TarCached == source.there /\ ~fetch.renewed /\ InfoCurrent(ArchiveIdent, PatchIdent)

tar_source ==
    /\ pc = "tar source"
    /\ \/ TarCached /\ Goto("info") /\ UNCHANGED fetch
       \/ ~TarCached /\ Goto(IF source.there THEN "remove source" ELSE "clean") /\ Renews
    /\ UNCHANGED <<setup, origin, disk, history>>

\* Offline, the archive has to be there unless the source is; it is extracted
\* and patched in place.
offline_cached ==
    /\ pc = "offline tar" /\ source.there
    /\ Goto("info") /\ UNCHANGED <<setup, origin, disk, fetch, history>>

offline_tar ==
    /\ pc = "offline tar" /\ ~source.there
    /\ archive.tar # 0 /\ archive.tar = Asks.version
    /\ source' = [EmptyTree EXCEPT !.whole = FALSE]
    /\ Goto("offline extract") /\ Renews
    /\ UNCHANGED <<setup, origin, git, tmp, archive, newer, pair, info, alias, history>>

offline_extract ==
    /\ pc = "offline extract"
    /\ source' = [source EXCEPT !.content = All(archive.tar), !.whole = TRUE]
    /\ Goto("offline patch") /\ UNCHANGED <<setup, origin, git, tmp, archive, newer, pair, info, alias, fetch, history>>

offline_missing ==
    /\ \/ pc = "offline tar" /\ ~source.there /\ (archive.tar = 0 \/ archive.tar # Asks.version)
       \/ pc = "offline git" /\ ~source.there
    /\ Fails

----------------------------------------------------------------------------
\* fetch_remote: the packages a server has built, the mandatory one last.  The
\* list of the server is the one that was read when the fetch began.

Current == CHOOSE n \in todo : n = Main => todo = {Main}
PackageDone == todo' = todo \ {Current} /\ pc' = IF todo = {Current} THEN "info" ELSE "package"

package_offline ==
    /\ pc = "package" /\ fetch.mode = "offline"
    /\ pair[Current].toml # 0 /\ pair[Current].pkgar # 0
    /\ PackageDone /\ UNCHANGED <<setup, origin, disk, fetch, history>>

package_missing ==
    /\ pc = "package" /\ fetch.mode = "offline"
    /\ pair[Current].toml = 0 \/ pair[Current].pkgar = 0
    /\ Fails

package_cached ==
    /\ pc = "package" /\ fetch.mode # "offline"
    /\ pair[Current].toml = fetch.known[Current]
    /\ PackageDone /\ UNCHANGED <<setup, origin, disk, fetch, history>>

\* First the toml, by which a package is known, then the package.
package_outdated ==
    /\ pc = "package" /\ fetch.mode # "offline"
    /\ pair[Current].toml \notin {0, fetch.known[Current]}
    /\ pair' = [pair EXCEPT ![Current].toml = 0]
    /\ Goto("remove pkgar") /\ UNCHANGED <<setup, origin, source, git, tmp, archive, newer, info, alias, fetch, history>>

remove_pkgar ==
    /\ pc = "remove pkgar"
    /\ pair' = [pair EXCEPT ![Current].pkgar = 0]
    /\ Goto("package") /\ UNCHANGED <<setup, origin, source, git, tmp, archive, newer, info, alias, fetch, history>>

download_toml ==
    /\ pc = "package" /\ fetch.mode # "offline" /\ pair[Current].toml = 0
    /\ fetch' = [fetch EXCEPT !.toml = upstream[Current]]
    /\ Goto("download") /\ UNCHANGED <<setup, origin, disk, history>>

download_pkgar ==
    /\ pc = "download"
    /\ pair' = [pair EXCEPT ![Current].pkgar = upstream[Current]]
    /\ Goto("rename toml") /\ UNCHANGED <<setup, origin, source, git, tmp, archive, newer, info, alias, fetch, history>>

rename_toml ==
    /\ pc = "rename toml"
    /\ pair' = [pair EXCEPT ![Current].toml = fetch.toml]
    /\ PackageDone /\ UNCHANGED <<setup, origin, source, git, tmp, archive, newer, info, alias, fetch, history>>

----------------------------------------------------------------------------
\* The end of each: source_info.toml is written, and for a recipe that is
\* same_as this one the link and an info of its own.

fetch_apply_source_info ==
    /\ pc = "info"
    /\ info' = Record
    /\ IF alias.source = "none" THEN Answers ELSE Goto("symlink") /\ UNCHANGED <<fetch, interrupted>>
    /\ UNCHANGED <<setup, origin, source, git, tmp, archive, newer, pair, alias, faults>>

fetch_make_symlink ==
    /\ pc = "symlink" /\ alias.source # "dir"
    /\ alias' = [alias EXCEPT !.source = "link"]
    /\ Goto("alias info") /\ UNCHANGED <<setup, origin, source, git, tmp, archive, newer, pair, info, fetch, history>>

symlink_stands ==
    /\ pc = "symlink" /\ alias.source = "dir"
    /\ Fails

alias_info ==
    /\ pc = "alias info"
    /\ alias' = [alias EXCEPT !.info = Record]
    /\ Answers /\ UNCHANGED <<setup, origin, source, git, tmp, archive, newer, pair, info, faults>>

----------------------------------------------------------------------------
\* A command is refused or the process is killed before a step, or within one
\* that writes or deletes more than the file system does at once.

Fault(kind) == /\ kind \in setup.events /\ faults < setup.faults /\ faults' = faults + 1
               /\ Ends /\ UNCHANGED <<setup, origin, newer, pair, alias>>

stops == pc # "idle" /\ Fault("stop") /\ UNCHANGED <<source, git, tmp, archive, info>>

tear_in_removal ==
    /\ pc \in {"replace", "remove source", "unfetch"} /\ source.there
    /\ source' = [source EXCEPT !.whole = FALSE]
    /\ Fault("tear") /\ UNCHANGED <<git, tmp, archive, info>>

tear_in_patches ==
    /\ pc \in {"patch", "offline patch"} /\ Asks.patch # 0
    /\ source' = [source EXCEPT !.patch = Partly]
    /\ git' \in {git} \cup IF Kind = "git" /\ setup.adds
                           THEN {[git EXCEPT !.left = @ \cup {Partly}]} ELSE {}
    /\ Fault("tear") /\ UNCHANGED <<tmp, archive, info>>

tear_in_download ==
    /\ pc = "tar" /\ archive.tar = 0 /\ archive.part = 0
    /\ archive' = [archive EXCEPT !.part = upstream[Main]]
    /\ Fault("tear") /\ UNCHANGED <<source, git, tmp, info>>

tear_in_info ==
    /\ pc = "info"
    /\ info' = [NoInfo EXCEPT !.state = "torn"]
    /\ Fault("tear") /\ UNCHANGED <<source, git, tmp, archive>>

----------------------------------------------------------------------------
Changes == (\E n \in Names : edit_upstream(n)) \/ edit_recipe \/ lose_archive
           \/ \E step \in {"unfetch", "idle"} : handle_clean(step)

Git == git_absent \/ git_unchecked \/ git_outdated \/ git_pinned \/ git_tracked \/ compare
       \/ git_run_fetch \/ reset \/ checkout \/ checkout_refused \/ git_fails
       \/ offline_git \/ head \/ clone
Tree == clean \/ rename \/ remove_source \/ fetch_apply_patches \/ patch_refused \/ patch_is_gone
Workspace == workspace \/ \E n \in Names : hash_file(n) \/ materialize_file(n)
Directory == path \/ \E n \in Names : copy_file(n)
Archive == download_wget \/ archive_there \/ verified \/ verify_fails \/ download_again
           \/ tar_source \/ fetch_extract_tar \/ patch_tmp
           \/ offline_cached \/ offline_tar \/ offline_extract \/ offline_missing
Remote == package_offline \/ package_missing \/ package_cached \/ package_outdated \/ remove_pkgar
          \/ download_toml \/ download_pkgar \/ rename_toml
Closing == local \/ unfetch_source \/ fetch_apply_source_info \/ fetch_make_symlink
           \/ symlink_stands \/ alias_info
Step == Git \/ Tree \/ Workspace \/ Directory \/ Archive \/ Remote \/ Closing

Faulty == stops \/ tear_in_removal \/ tear_in_patches \/ tear_in_download \/ tear_in_info

Next == Changes \/ (\E mode \in setup.modes : start(mode)) \/ Step \/ Faulty

\* A fetch goes on by itself; and the recipe is fetched again and again.
Spec == Init /\ [][Next]_vars /\ WF_vars(Step) /\ SF_vars(start("check"))

----------------------------------------------------------------------------
Versioned == [Names -> 0..MaxVersion]
Trees == [there : BOOLEAN, whole : BOOLEAN, content : [Names -> 0..Mixed], patch : 0..Partly]
Infos == [state : {"absent", "torn", "whole"}, source : Versioned, patch : 0..MaxPatch]

TypeOK ==
    /\ upstream \in Versioned
    /\ source \in Trees /\ tmp \in Trees /\ info \in Infos /\ alias.info \in Infos
    /\ git.refs \in Versioned /\ git.left \subseteq 1..Partly
    /\ interrupted \in Infos \cup {Nothing, Raced}
    /\ archive \in [tar : 0..Mixed, part : 0..MaxVersion]
    /\ pair \in [Names -> [toml : 0..MaxVersion, pkgar : 0..MaxVersion]]
    /\ todo \subseteq Names

\* A fetch found the record to be current and brought nothing, although one that
\* was interrupted had begun to bring something else, or no record can tell.
Trusted == interrupted \notin {Nothing, Raced, info} /\ (Kind \in {"path", "remote"} \/ fetch.info = info)

\* Of a git repository, only patches make a fetch reset what is there.
AsCommitted == Kind = "git" /\ info.patch = 0

\* Nothing is answered while the source is there in part, be it of an archive
\* that was not extracted to its end, of a directory not deleted to its end or
\* of patches not applied to their end; but the local rule is about whatever is
\* there, and a fetch that does not check a git repository takes it for what it is.
AnswersAreWhole ==
    fetch.result = "ok" =>
        IF Kind = "remote" THEN \A n \in Names : pair[n].toml # 0 /\ pair[n].pkgar # 0
        ELSE \/ fetch.mode # "check"
             \/ Trusted
             \/ source.there /\ (AsCommitted \/ (source.whole /\ source.patch # Partly))

\* An archive that is kept as the source has the hash that was asked for
\* (fetch.rs: "The downloaded tar blake3 is not equal to blake3 in recipe.toml").
ExtractsWhatWasVerified ==
    pc = "patch tmp" /\ Checked /\ Asks.version # 0 => tmp.content = All(Asks.version)

\* The types, and: a fetch answers with all of a source or not at all, and
\* extracts no archive but the one the recipe names.
FetchConsistent == TypeOK /\ AnswersAreWhole /\ ExtractsWhatWasVerified

\* The source as it should be, but for dropped patches and deleted files of a
\* repository that is never reset.
Delivered ==
    /\ IF Kind = "remote"
       THEN /\ \A n \in Names : pair[n] = [toml |-> upstream[n], pkgar |-> upstream[n]]
            /\ info = Info(All(upstream[Main]), 0)
       ELSE /\ source.there /\ source.content = Wanted
            /\ AsCommitted \/ (source.whole /\ source.patch = recipe.patch)
            /\ info = Info(IdentOfWanted, recipe.patch)
    /\ alias.source # "none" => alias.source = "link" /\ alias.info = info

ChecksQuietly == fetch.result = "ok" /\ fetch.mode = "check" /\ fetch.edits = "none"

\* Whatever earlier fetches did and wherever they ended: a checked one that ends
\* well while nothing changes leaves the source the recipe asks for, with its
\* patches, and an info that says so; unless the record it trusts is of before an
\* interrupted fetch, and the recipe and its origin are back to what they were.
CheckedFetchDelivers == ChecksQuietly => Delivered \/ Trusted

\* The same without Trusted and AsCommitted: the setups at the end of
\* MCSourceFetch violate these, each for a reason of its own.
EveryAnswerIsWhole ==
    fetch.result = "ok" /\ fetch.mode = "check" => source.there /\ source.whole /\ source.patch # Partly
EveryFetchDelivers == ChecksQuietly => Delivered
NothingIsLeft == ChecksQuietly => source.patch = recipe.patch /\ git.left \subseteq {recipe.patch}

\* What the recipe asks for is there to be had.
Available ==
    /\ Kind = "tar" => recipe.version \in {0, upstream[Main]}
    /\ alias.source # "dir"

\* Nothing stands in the way of git: an unfetch that was interrupted, files that
\* patches have created, or changes of patches that were dropped.
Resettable ==
    Kind = "git" => source.whole /\ git.left = {} /\ (recipe.patch = 0 => source.patch = 0)

\* Every fetch ends, the retries of an archive that does not verify included;
\* and no failure stands for ever: fetched again and again, a recipe that asks
\* for what there is is delivered, once nothing changes under its fetches.
FetchRecovers ==
    /\ (pc # "idle") ~> (pc = "idle")
    /\ <>[](Available /\ Resettable /\ fetch.edits = "none") => []<>(fetch.result = "ok")
EveryFetchRecovers == <>[](Available /\ fetch.edits = "none") => []<>(fetch.result = "ok")
=============================================================================
