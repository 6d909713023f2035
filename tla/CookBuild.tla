------------------------------ MODULE CookBuild ------------------------------
(***************************************************************************)
(* What `repo cook` leaves on disk for one recipe: the directories its      *)
(* dependencies are installed in, the stage, the packages with their        *)
(* metadata, and their copies in the repository.  A cook decides from what  *)
(* earlier ones left whether there is anything to do; any of them may have  *)
(* failed or been killed between two of its steps.                          *)
(***************************************************************************)
EXTENDS Naturals, Sequences, Functions

CONSTANTS
    Setups,     \* the recipes and the ways they are cooked, see Setup
    MaxSource, MaxDependency, MaxFaults    \* bounds

\* kind        "local": built by a script; "remote": downloaded
\* roots       the dependency directories in their order: sysroot, toolchain
\* packages    the packages of the recipe in their order, the stage last
\* clean       the values of clean_target cooks are started with
\* as_deps     whether cooks are of the recipe itself, or of a dependency
\* faults      what may go wrong: "install", "script", "edit", and
\*             "kill" between two steps, "tear" in the middle of one
ASSUME CookBounds ==
    MaxSource \in Nat \ {0} /\ MaxDependency \in Nat \ {0} /\ MaxFaults \in Nat

\* Directories and packages have names of their own.
ASSUME CookAssumption == \A s \in Setups :
    /\ s.kind \in {"local", "remote"}
    /\ \A list \in {s.roots, s.packages} :
         list \in Seq(STRING) \ {<< >>} /\ IsInjective(list)
    /\ s.clean \subseteq BOOLEAN /\ s.as_deps \subseteq BOOLEAN
    /\ s.faults \subseteq {"install", "script", "edit", "kill", "tear"}

VARIABLE setup      \* the one of this behaviour

Kind == setup.kind
Roots == setup.roots
Packages == setup.packages
Faults == setup.faults
Root == Range(Roots)
Package == Range(Packages)

VARIABLES
    source,     \* version of the source and recipe.toml
    newer,      \* packages whose stage pkgar is older than the source
    dependency, \* root |-> version of the packages to install there
    dir,        \* root |-> what is in its directory
    aside,      \* roots whose tags are out of the way, in <root>.tags
    stage,      \* the stage directories
    auto_deps,  \* auto_deps.toml
    pkgar,      \* package |-> stage pkgar
    meta,       \* package |-> stage toml
    unpublished,\* packages whose stage toml is newer than the repository's
    repo,       \* package |-> pkgar and toml in the repository
    pc, todo,   \* the step of the running cook, and what it still goes over
    cook,       \* its options, what it knows and how the last one ended
    faults

world == <<source, newer, dependency>>
target == <<dir, aside, stage, auto_deps, pkgar, meta>>
published == <<unpublished, repo>>
process == <<pc, todo, cook>>
vars == <<world, target, published, process, faults>>

\* What an artifact was made from, and the state of a file on disk.
Nothing == [source |-> 0, deps |-> [r \in Root |-> 0]]
Absent == [state |-> "absent", of |-> Nothing]
Torn == [state |-> "torn", of |-> Nothing]
Whole(of) == [state |-> "whole", of |-> of]
Present(file) == file.state # "absent"

Empty == [place |-> "empty", version |-> 0, tags |-> 0]
NoDir == [Empty EXCEPT !.place = "absent"]

Init ==
    /\ setup \in Setups
    /\ source = 1 /\ newer = {}
    /\ dependency = [r \in Root |-> 1]
    /\ dir = [r \in Root |-> NoDir] /\ aside = {}
    /\ stage = Absent /\ auto_deps = Absent
    /\ pkgar = [p \in Package |-> Absent] /\ meta = [p \in Package |-> Absent]
    /\ unpublished = Package
    /\ repo = [p \in Package |-> [pkgar |-> Absent, meta |-> Absent]]
    /\ pc = "idle" /\ todo = << >>
    /\ cook = [clean |-> FALSE, is_deps |-> FALSE, fresh |-> {}, cached |-> FALSE,
               source |-> 0, result |-> "none"]
    /\ faults = 0

Goto(step, list) == pc' = step /\ todo' = list
Next_(step) == IF Len(todo) > 1 THEN Goto(pc, Tail(todo)) ELSE step
Fault(kind) == kind \in Faults /\ faults < MaxFaults /\ faults' = faults + 1

\* A step that returns an error ends the cook; nothing is published.
Fails == /\ Goto("idle", << >>)
         /\ cook' = [cook EXCEPT !.result = "failed"]

----------------------------------------------------------------------------
\* Between the cooks: the source is newer, a dependency is cooked again.

edit_source ==
    /\ source < MaxSource
    /\ pc = "idle" \/ "edit" \in Faults
    /\ source' = source + 1 /\ newer' = Package
    /\ UNCHANGED <<dependency, target, published, process, faults>>

update_dependency(r) ==
    /\ pc = "idle" /\ dependency[r] < MaxDependency
    /\ dependency' = [dependency EXCEPT ![r] = @ + 1]
    /\ UNCHANGED <<source, newer, target, published, process, faults>>

----------------------------------------------------------------------------
\* build

AllPackaged == \A p \in Package : Present(pkgar[p])

handle_cook(clean, is_deps) ==
    /\ pc = "idle"
    /\ cook' = [clean |-> clean, is_deps |-> is_deps, fresh |-> {}, source |-> source,
                cached |-> is_deps /\ AllPackaged /\ Present(auto_deps), result |-> "none"]
    /\ IF is_deps /\ AllPackaged /\ Present(auto_deps) THEN Goto("auto_deps", << >>)
       ELSE IF Kind = "remote" THEN Goto("remote", << >>) ELSE Goto("deps", Roots)
    /\ UNCHANGED <<world, target, published, faults>>

\* build_deps_dir: the tags name the packages that are installed, by hash.
Cached(r) == dir[r].tags = dependency[r]

deps_cached ==
    /\ pc = "deps" /\ LET r == Head(todo) IN
         /\ Cached(r)
         /\ cook' = [cook EXCEPT !.fresh = @ \cup {r}]
    /\ Next_(Goto("newer", << >>))
    /\ UNCHANGED <<world, target, published, faults>>

\* With clean_target the last cook deleted what the tags stand for: directories
\* that were found up to date are installed once more, the others kept.
Installing == pc = "deps" \/ (pc = "deps_again" /\ Head(todo) \in cook.fresh)

deps_kept ==
    /\ pc = "deps_again" /\ ~Installing
    /\ Next_(Goto("script", << >>))
    /\ UNCHANGED <<world, target, published, cook, faults>>

\* remove_all
deps_remove ==
    /\ Installing /\ LET r == Head(todo) IN
         /\ dir[r].tags # 0 /\ (Cached(r) => pc = "deps_again")
         /\ dir' = [dir EXCEPT ![r] = NoDir]
    /\ UNCHANGED <<world, aside, stage, auto_deps, pkgar, meta, published, process, faults>>

\* A temporary directory is filled and renamed; rename replaces an empty
\* directory but no other.
CanMove(r) == dir[r].place \in {"absent", "empty"}

deps_install ==
    /\ Installing /\ LET r == Head(todo) IN
         /\ dir[r].tags = 0 /\ CanMove(r)
         /\ dir' = [dir EXCEPT ![r] = [place |-> "full", version |-> dependency[r], tags |-> dependency[r]]]
    /\ Next_(IF pc = "deps" THEN Goto("newer", << >>) ELSE Goto("script", << >>))
    /\ UNCHANGED <<world, aside, stage, auto_deps, pkgar, meta, published, cook, faults>>

deps_stuck ==
    /\ Installing /\ LET r == Head(todo) IN
         dir[r].tags = 0 /\ ~CanMove(r)
    /\ Fails
    /\ UNCHANGED <<world, target, published, faults>>

\* A dependency's pkgar cannot be opened or extracted.
deps_fail ==
    /\ Installing /\ Fault("install") /\ Fails
    /\ UNCHANGED <<world, target, published>>

\* Mutant: the stage is rebuilt for a newer source only.
OutdatedMutant == FALSE

Outdated == cook.fresh # Root

\* build_is_source_newer compares with the newest stage pkgar of all.
SourceNewer == ~Present(auto_deps) \/ ~AllPackaged \/ newer = Package

newer_cached ==
    /\ pc = "newer" /\ ~Outdated /\ ~SourceNewer
    /\ cook' = [cook EXCEPT !.cached = TRUE]
    /\ Goto("auto_deps", << >>)
    /\ UNCHANGED <<world, target, published, faults>>

newer_rebuild ==
    /\ pc = "newer" /\ (Outdated \/ SourceNewer)
    /\ auto_deps' = Absent
    /\ Goto("stage_dirs", Packages)
    /\ UNCHANGED <<world, dir, aside, stage, pkgar, meta, published, cook, faults>>

\* Mutant: what the tags of an emptied directory say is believed.
AfterRemovalMutant == Goto("script", << >>)

AfterRemoval == IF cook.clean THEN Goto("deps_again", Roots) ELSE Goto("script", << >>)

\* remove_stage_dir, file after file.
remove_stage ==
    /\ pc = "stage_dirs" /\ Present(stage)
    /\ stage' = Absent
    /\ UNCHANGED <<world, dir, aside, auto_deps, pkgar, meta, published, process, faults>>

remove_pkgar ==
    /\ pc = "stage_dirs" /\ ~Present(stage) /\ LET p == Head(todo) IN
         /\ Present(pkgar[p])
         /\ pkgar' = [pkgar EXCEPT ![p] = Absent]
    /\ UNCHANGED <<world, dir, aside, stage, auto_deps, meta, published, process, faults>>

remove_meta ==
    /\ pc = "stage_dirs" /\ ~Present(stage) /\ LET p == Head(todo) IN
         /\ ~Present(pkgar[p])
         /\ meta' = [meta EXCEPT ![p] = Absent]
    /\ Next_(AfterRemoval)
    /\ UNCHANGED <<world, dir, aside, stage, auto_deps, pkgar, published, cook, faults>>

\* The script reads the source and the directories; stage.tmp becomes the
\* stage when it has ended well.
Installed == [r \in Root |-> IF dir[r].place = "full" THEN dir[r].version ELSE 0]

run_script ==
    /\ pc = "script"
    /\ stage' = Whole([source |-> source, deps |-> Installed])
    /\ IF cook.clean THEN Goto("tags_aside", Roots) ELSE Goto("auto_deps", << >>)
    /\ UNCHANGED <<world, dir, aside, auto_deps, pkgar, meta, published, cook, faults>>

script_fails ==
    /\ pc = "script" /\ Fault("script") /\ Fails
    /\ UNCHANGED <<world, target, published>>

\* clean_deps_dir
tags_aside ==
    /\ pc = "tags_aside" /\ LET r == Head(todo) IN
         /\ r \notin aside
         /\ aside' = aside \cup {r}
         /\ dir' = [dir EXCEPT ![r].tags = 0]
    /\ Goto("clean_dir", todo)
    /\ UNCHANGED <<world, stage, auto_deps, pkgar, meta, published, cook, faults>>

\* <root>.tags is still there from a cook that was killed.
tags_stuck ==
    /\ pc = "tags_aside" /\ Head(todo) \in aside
    /\ Fails
    /\ UNCHANGED <<world, target, published, faults>>

clean_dir ==
    /\ pc = "clean_dir"
    /\ dir' = [dir EXCEPT ![Head(todo)] = Empty]
    /\ Goto("tags_back", todo)
    /\ UNCHANGED <<world, aside, stage, auto_deps, pkgar, meta, published, cook, faults>>

\* Mutant: the tags are copied back, and their copy stays.
tags_backMutant ==
    /\ pc = "tags_back" /\ LET r == Head(todo) IN
         dir' = [dir EXCEPT ![r].tags = dependency[r]]
    /\ IF Len(todo) > 1 THEN Goto("tags_aside", Tail(todo)) ELSE Goto("auto_deps", << >>)
    /\ UNCHANGED <<world, aside, stage, auto_deps, pkgar, meta, published, cook, faults>>

tags_back ==
    /\ pc = "tags_back" /\ LET r == Head(todo) IN
         /\ dir' = [dir EXCEPT ![r].tags = dependency[r]]
         /\ aside' = aside \ {r}
    /\ IF Len(todo) > 1 THEN Goto("tags_aside", Tail(todo)) ELSE Goto("auto_deps", << >>)
    /\ UNCHANGED <<world, stage, auto_deps, pkgar, meta, published, cook, faults>>

\* build_remote: every package is compared with its own download, and all
\* are extracted when one is missing or older.

RemoteCached == Present(auto_deps) /\ AllPackaged /\ newer = {}

remote_cached ==
    /\ pc = "remote" /\ RemoteCached
    /\ cook' = [cook EXCEPT !.cached = TRUE]
    /\ Goto("auto_deps", << >>)
    /\ UNCHANGED <<world, target, published, faults>>

remote_extract ==
    /\ pc = "remote" /\ ~RemoteCached
    /\ stage' = Whole([source |-> source, deps |-> Nothing.deps])
    /\ Goto("remote_deps", << >>)
    /\ UNCHANGED <<world, dir, aside, auto_deps, pkgar, meta, published, cook, faults>>

remote_forget ==
    /\ pc = "remote_deps"
    /\ auto_deps' = Absent
    /\ Goto("auto_deps", << >>)
    /\ UNCHANGED <<world, dir, aside, stage, pkgar, meta, published, cook, faults>>

\* build_auto_deps, and the end of build_remote
write_auto_deps ==
    /\ pc = "auto_deps" /\ ~cook.cached
    /\ auto_deps' = Whole(stage.of)
    /\ Goto("pkgar", Packages)
    /\ UNCHANGED <<world, dir, aside, stage, pkgar, meta, published, cook, faults>>

read_auto_deps ==
    /\ pc = "auto_deps" /\ cook.cached /\ auto_deps.state = "whole"
    /\ Goto("pkgar", Packages)
    /\ UNCHANGED <<world, target, published, cook, faults>>

auto_deps_unreadable ==
    /\ pc = "auto_deps" /\ cook.cached /\ auto_deps.state = "torn"
    /\ Fails
    /\ UNCHANGED <<world, target, published, faults>>

----------------------------------------------------------------------------
\* package

\* What an earlier cook packaged is deleted unless this one found it up to date.
drop_pkgar ==
    /\ pc = "pkgar" /\ ~cook.cached /\ LET p == Head(todo) IN
         /\ Present(pkgar[p])
         /\ pkgar' = [pkgar EXCEPT ![p] = Absent]
    /\ Goto("drop_meta", todo)
    /\ UNCHANGED <<world, dir, aside, stage, auto_deps, meta, published, cook, faults>>

drop_meta ==
    /\ pc = "drop_meta"
    /\ meta' = [meta EXCEPT ![Head(todo)] = Absent]
    /\ Goto("create", todo)
    /\ UNCHANGED <<world, dir, aside, stage, auto_deps, pkgar, published, cook, faults>>

keep_pkgar ==
    /\ pc = "pkgar" /\ (cook.cached \/ ~Present(pkgar[Head(todo)]))
    /\ Goto(IF Present(pkgar[Head(todo)]) THEN "meta" ELSE "create", todo)
    /\ UNCHANGED <<world, target, published, cook, faults>>

create_pkgar ==
    /\ pc = "create" /\ Present(stage)
    /\ pkgar' = [pkgar EXCEPT ![Head(todo)] = stage]
    /\ newer' = newer \ {Head(todo)}
    /\ Goto("meta", todo)
    /\ UNCHANGED <<source, dependency, dir, aside, stage, auto_deps, meta, published, cook, faults>>

PackageDone == IF Len(todo) > 1 THEN Goto("pkgar", Tail(todo))
               ELSE IF cook.clean THEN Goto("clean_stage", << >>) ELSE Goto("publish", Packages)

keep_meta ==
    /\ pc = "meta" /\ Present(meta[Head(todo)])
    /\ PackageDone
    /\ UNCHANGED <<world, target, published, cook, faults>>

\* package_toml opens the pkgar for its hash and its sizes.
write_meta ==
    /\ pc = "meta" /\ LET p == Head(todo) IN
         /\ ~Present(meta[p]) /\ pkgar[p].state = "whole"
         /\ meta' = [meta EXCEPT ![p] = pkgar[p]]
         /\ unpublished' = unpublished \cup {p}
    /\ PackageDone
    /\ UNCHANGED <<world, dir, aside, stage, auto_deps, pkgar, repo, cook, faults>>

pkgar_unreadable ==
    /\ pc = "meta" /\ LET p == Head(todo) IN
         ~Present(meta[p]) /\ pkgar[p].state = "torn"
    /\ Fails
    /\ UNCHANGED <<world, target, published, faults>>

clean_stage ==
    /\ pc = "clean_stage"
    /\ stage' = Absent
    /\ Goto("publish", Packages)
    /\ UNCHANGED <<world, dir, aside, auto_deps, pkgar, meta, published, cook, faults>>

----------------------------------------------------------------------------
\* publish_packages

Published == IF Len(todo) > 1 THEN Goto("publish", Tail(todo)) /\ UNCHANGED cook
             ELSE Goto("idle", << >>) /\ cook' = [cook EXCEPT !.result = "done"]

\* The recipe is found by the toml of its last package, the stage itself; with
\* no recipe left there is nothing to publish: "Zero packages are passing".
Found == meta[Packages[Len(Packages)]].state = "whole"

recipe_left_out ==
    /\ pc = "publish" /\ ~Found
    /\ Fails
    /\ UNCHANGED <<world, target, published, faults>>

publish_pkgar ==
    /\ pc = "publish" /\ Found /\ LET p == Head(todo) IN
         /\ p \in unpublished
         /\ repo' = [repo EXCEPT ![p].pkgar = pkgar[p]]
    /\ Goto("publish_toml", todo)
    /\ UNCHANGED <<world, target, unpublished, cook, faults>>

publish_toml ==
    /\ pc = "publish_toml" /\ LET p == Head(todo) IN
         /\ repo' = [repo EXCEPT ![p].meta = meta[p]]
         /\ unpublished' = unpublished \ {p}
    /\ Published
    /\ UNCHANGED <<world, target, faults>>

nothing_to_publish ==
    /\ pc = "publish" /\ Found /\ Head(todo) \notin unpublished
    /\ Published
    /\ UNCHANGED <<world, target, published, faults>>

----------------------------------------------------------------------------
\* The process is killed before any step, or in the middle of one that writes
\* or deletes more than the file system does at once.

kill == /\ pc # "idle" /\ Fault("kill") /\ Fails
        /\ UNCHANGED <<world, target, published>>

torn(steps) == pc \in steps /\ Fault("tear") /\ Fails

tear_in_removal ==
    /\ torn({"deps", "deps_again", "clean_dir"}) /\ LET r == Head(todo) IN
         /\ pc = "clean_dir" \/ Installing
         /\ pc = "deps" => dir[r].tags # 0 /\ ~Cached(r)
         /\ pc = "deps_again" => dir[r].tags # 0
         /\ \E tags \in {0, dir[r].tags} :
              dir' = [dir EXCEPT ![r] = [place |-> "rest", version |-> 0, tags |-> tags]]
    /\ UNCHANGED <<world, aside, stage, auto_deps, pkgar, meta, published>>

tear_in_auto_deps ==
    /\ torn({"auto_deps"}) /\ ~cook.cached
    /\ auto_deps' = Torn
    /\ UNCHANGED <<world, dir, aside, stage, pkgar, meta, published>>

tear_in_pkgar ==
    /\ torn({"create"}) /\ Present(stage)
    /\ pkgar' = [pkgar EXCEPT ![Head(todo)] = Torn] /\ newer' = newer \ {Head(todo)}
    /\ UNCHANGED <<source, dependency, dir, aside, stage, auto_deps, meta, published>>

tear_in_meta ==
    /\ torn({"meta"}) /\ LET p == Head(todo) IN
         /\ ~Present(meta[p]) /\ pkgar[p].state = "whole"
         /\ meta' = [meta EXCEPT ![p] = Torn]
         /\ unpublished' = unpublished \cup {p}
    /\ UNCHANGED <<world, dir, aside, stage, auto_deps, pkgar, repo>>

tear_in_publish ==
    /\ torn({"publish", "publish_toml"}) /\ LET p == Head(todo) IN
         \/ /\ pc = "publish" /\ Found /\ p \in unpublished
            /\ repo' = [repo EXCEPT ![p].pkgar = Torn] /\ UNCHANGED unpublished
         \/ /\ pc = "publish_toml"
            /\ repo' = [repo EXCEPT ![p].meta = Torn] /\ unpublished' = unpublished \ {p}
    /\ UNCHANGED <<world, target>>

step ==
    \/ deps_cached \/ deps_kept \/ deps_remove \/ deps_install \/ deps_stuck
    \/ newer_cached \/ newer_rebuild \/ remove_stage \/ remove_pkgar \/ remove_meta
    \/ run_script \/ tags_aside \/ tags_stuck \/ clean_dir \/ tags_back
    \/ remote_cached \/ remote_extract \/ remote_forget
    \/ write_auto_deps \/ read_auto_deps \/ auto_deps_unreadable
    \/ drop_pkgar \/ drop_meta \/ keep_pkgar \/ create_pkgar \/ keep_meta \/ write_meta \/ pkgar_unreadable
    \/ clean_stage \/ recipe_left_out \/ publish_pkgar \/ publish_toml \/ nothing_to_publish

begin == \E clean \in setup.clean, is_deps \in setup.as_deps : handle_cook(clean, is_deps)

Next ==
    /\ \/ edit_source \/ \E r \in Root : update_dependency(r)
       \/ begin \/ step
       \/ deps_fail \/ script_fails
       \/ kill \/ tear_in_removal \/ tear_in_auto_deps \/ tear_in_pkgar \/ tear_in_meta \/ tear_in_publish
    /\ UNCHANGED setup

Spec == Init /\ [][Next]_<<vars, setup>>

\* Somebody goes on cooking; a started cook goes on.
FairSpec == Spec /\ WF_vars(begin) /\ WF_vars(step)

----------------------------------------------------------------------------
File == [state : {"absent", "torn", "whole"},
         of : [source : 0..MaxSource, deps : [Root -> 0..MaxDependency]]]
Directory == [place : {"absent", "empty", "rest", "full"},
              version : 0..MaxDependency, tags : 0..MaxDependency]
Cooking == [clean : BOOLEAN, is_deps : BOOLEAN, fresh : SUBSET Root, cached : BOOLEAN,
            source : 0..MaxSource, result : {"none", "failed", "done"}]

\* Every variable is of its type.
TypeOK ==
    /\ source \in 1..MaxSource /\ newer \subseteq Package
    /\ dependency \in [Root -> 1..MaxDependency]
    /\ dir \in [Root -> Directory]
    /\ aside \subseteq Root /\ stage \in File /\ auto_deps \in File
    /\ pkgar \in [Package -> File] /\ meta \in [Package -> File]
    /\ unpublished \subseteq Package
    /\ repo \in [Package -> [pkgar : File, meta : File]]
    /\ todo # << >> <=> pc \in {"deps", "stage_dirs", "deps_again", "tags_aside", "clean_dir", "tags_back",
                             "pkgar", "drop_meta", "create", "meta", "publish", "publish_toml"}
    /\ cook \in Cooking /\ faults \in 0..MaxFaults

\* A cook of the recipe itself that ends well leaves packages made from the
\* source it found or a later one ("Rebuild stage if deps or source is newer"),
\* whatever was killed or torn before, as long as nobody writes sources while
\* a script runs; a downloaded one if no cook was killed before another was torn,
\* for build_remote removes no metadata.
FreshPackages ==
    pc = "idle" /\ cook.result = "done" /\ ~cook.is_deps /\ "edit" \notin Faults
    /\ ~(Kind = "remote" /\ {"kill", "tear"} \subseteq Faults)
    => \A p \in Package : pkgar[p].state = "whole" /\ pkgar[p].of.source >= cook.source

\* The same of the dependencies, where nothing but scripts fails and every cook
\* has clean_target set or none has.
UsesDependencies == \A p \in Package : pkgar[p].of.deps = dependency

FreshDependencies ==
    [][/\ cook'.result = "done" /\ cook.result = "none" /\ ~cook.is_deps
       /\ Kind = "local" /\ Faults \subseteq {"script"} /\ setup.clean # BOOLEAN
       => UsesDependencies]_vars

\* The script never runs against directories that are not what their tags say:
\* emptied ones are installed once more, where every cook has clean_target set
\* or none has.
BuildsAgainstDependencies ==
    pc = "script" /\ setup.clean # BOOLEAN => Installed = dependency

\* The packages of one recipe are made from the same stage, and each is
\* described by its own metadata, in the target directory and in the
\* repository, whenever a cook has ended well: after kills as well where a
\* script builds the recipe, in whose stead build_remote removes no metadata.
Agreement ==
    \A p, q \in Package :
        /\ pkgar[p] = pkgar[q]
        /\ meta[p] = pkgar[p]
        /\ repo[p].meta = repo[p].pkgar
        /\ repo[p].pkgar = pkgar[p]

PackagesAgree ==
    /\ pc = "idle" /\ cook.result = "done"
    /\ "tear" \notin Faults /\ (Kind = "remote" => "kill" \notin Faults)
    => Agreement

\* The state is one of the program's, and BuildsAgainstDependencies, FreshPackages
\* and PackagesAgree.
CookConsistent == TypeOK /\ BuildsAgainstDependencies /\ FreshPackages /\ PackagesAgree

\* Whatever failed before, one of the next cooks ends well.
CookRecovers == Faults \subseteq {"script", "install"} => []<>(cook.result = "done")

----------------------------------------------------------------------------
\* What the code says of itself, and does not do.

\* "Rebuild stage if deps or source is newer" (cook_build.rs)
RebuildsForDependencies ==
    [][cook'.result = "done" /\ cook.result = "none" /\ ~cook.is_deps /\ Kind = "local"
       => UsesDependencies]_vars

RebuildsForSource ==
    pc = "idle" /\ cook.result = "done" /\ ~cook.is_deps => \A p \in Package : pkgar[p].of.source >= cook.source

\* "no matter what, these two caches are invalid" (cook_build.rs)
EmptiedIsInvalid == pc = "script" => Installed = dependency

\* "Rebuild package if stage is newer" (package.rs)
MetadataIsRebuilt == pc = "idle" /\ cook.result = "done" => Agreement

\* "Move sysroot.tmp to sysroot atomically" (cook_build.rs)
DirectoriesAreReplaced == pc \in {"deps", "deps_again"} /\ dir[Head(todo)].tags = 0 => CanMove(Head(todo))
=============================================================================
