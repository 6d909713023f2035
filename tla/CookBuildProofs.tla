--------------------------- MODULE CookBuildProofs ---------------------------
(***************************************************************************)
(* `repo cook` of one recipe, for every recipe with any number of roots and *)
(* packages, any number of cooks and any faults among them.                 *)
(*                                                                          *)
(* The inductive invariant follows a cook through its steps: what is        *)
(* removed before the script runs, what the stage is made of then, which    *)
(* packages are made of it, described and published already.  Between the   *)
(* cooks it says what the next one will conclude from what it finds: which  *)
(* files may be torn, that auto_deps.toml is there only with packages of    *)
(* one stage, and that tags never name what a directory does not hold.      *)
(***************************************************************************)
EXTENDS CookBuild, SequenceTheorems, TLAPS

----------------------------------------------------------------------------
(* The steps of a cook, and what it still goes over.                         *)

Left == Range(todo)
OverRoots == {"deps", "deps_again", "tags_aside", "clean_dir", "tags_back"}
Making == {"pkgar", "drop_meta", "create", "meta"}
Publishing == {"clean_stage", "publish", "publish_toml"}
OverPackages == {"stage_dirs", "publish", "publish_toml"} \cup Making
Plain == {"idle", "newer", "script", "remote", "remote_deps", "auto_deps", "clean_stage"}
Cleaning == {"tags_aside", "clean_dir", "tags_back"}

\* Which steps go over what, which kind of recipe and of cook they belong to;
\* and what a cook has found when it is past "newer" (build, build_remote).
Shape ==
    /\ setup \in Setups
    /\ pc \in OverRoots \cup OverPackages \cup Plain
    /\ pc \in OverRoots => todo \in Seq(Root) \ {<< >>} /\ IsInjective(todo)
    /\ pc \in OverPackages => todo \in Seq(Package) \ {<< >>} /\ IsInjective(todo)
    /\ pc \in Plain => todo = << >>
    /\ pc # "idle" => cook.clean \in setup.clean /\ cook.result = "none"
    /\ pc \in {"remote", "remote_deps"} => Kind = "remote"
    /\ pc \in OverRoots \cup {"newer", "stage_dirs", "script"} => Kind = "local"
    /\ pc \in Cleaning \cup {"deps_again"} => cook.clean
    /\ pc \notin Making \cup Publishing \cup {"idle", "auto_deps"} => ~cook.cached
    /\ pc \in Making \cup Publishing => Present(auto_deps)
    /\ pc # "idle" /\ cook.cached => Present(auto_deps) /\ AllPackaged

----------------------------------------------------------------------------
(* The directories.                                                          *)

\* The directory holds what is to be installed there.
Ready(r) == dir[r].place = "full" /\ dir[r].version = dependency[r]
\* Every cook has clean_target set, or none has.
Uniform == setup.clean # BOOLEAN

\* Tags name no later packages than there are.  Without clean_target they name
\* what the directory holds; with it, a directory is empty behind its tags until
\* it is installed once more (build_deps_dir, clean_deps_dir).
DirectoriesFit ==
    /\ \A r \in Root : dir[r].tags <= dependency[r]
    /\ TRUE \notin setup.clean => \A r \in Root : Cached(r) => Ready(r)
    /\ Uniform /\ pc = "deps" =>
         \A r \in Root : r \in Left \/ Ready(r) \/ (cook.clean /\ r \in cook.fresh)
    /\ Uniform /\ pc \in {"newer", "stage_dirs"} =>
         \A r \in Root : Ready(r) \/ (cook.clean /\ r \in cook.fresh)
    /\ Uniform /\ pc = "deps_again" => \A r \in Root : Ready(r) \/ r \in Left \cap cook.fresh
    /\ Uniform /\ pc = "script" => \A r \in Root : Ready(r)

----------------------------------------------------------------------------
(* What is in the target directory.                                          *)

\* newer_rebuild has deleted auto_deps.toml and the packages go, or have gone.
Bare(p) == ~Present(pkgar[p]) /\ ~Present(meta[p])
Removed == pc \in Cleaning \cup {"deps_again", "script"}
           \/ (pc = "auto_deps" /\ ~cook.cached /\ Kind = "local")

\* What is removed stays removed until the script has made the stage.
RemovedBefore ==
    /\ pc = "stage_dirs" \/ Removed => ~Present(auto_deps)
    /\ pc = "stage_dirs" => \A p \in Package : p \in Left \/ Bare(p)
    /\ Removed => \A p \in Package : Bare(p)
    /\ Kind = "local" /\ pc \in Making /\ ~cook.cached =>
         \A p \in Left : Bare(p) \/ (pc = "meta" /\ p = Head(todo))
    /\ Kind = "local" => pc # "drop_meta"

Untorn(file) == file.state # "torn"

\* Where no step is interrupted in its middle, no file is torn.
NothingTorn == "tear" \notin Faults =>
    /\ Untorn(stage) /\ Untorn(auto_deps)
    /\ \A p \in Package : Untorn(pkgar[p]) /\ Untorn(meta[p])

\* Nobody writes sources while a script runs.
NoEdit == "edit" \notin Faults

\* From the script to the packages the stage is whole, of the present source.
Staged == pc \in Cleaning \cup {"remote_deps", "auto_deps"} \cup Making /\ ~cook.cached

StageIsMade == Staged => stage.state = "whole" /\ (NoEdit => stage.of.source = source)

\* A metadata file describes the pkgar beside it: a local cook has deleted it
\* with the pkgar before, a download only if no cook was killed between the two.
Fits(p) == Present(meta[p]) =>
    pkgar[p].state = "whole" /\ (meta[p].state = "torn" \/ meta[p] = pkgar[p])
Ordered == IF Kind = "local" THEN Present(auto_deps) \/ Removed ELSE "kill" \notin Faults

MetadataFits ==
    /\ Ordered => \A p \in Package : Fits(p) \/ (pc = "drop_meta" /\ p = Head(todo))
    /\ pc \in {"drop_meta", "create"} => ~Present(pkgar[Head(todo)])

----------------------------------------------------------------------------
(* The age of the packages.                                                  *)

\* A package that is not older than the source is made from it; and while
\* auto_deps.toml is there, either all packages are older or none that is there
\* (build_is_source_newer compares with the newest).
NewerTells == NoEdit =>
    /\ pc # "idle" => cook.source = source
    /\ \A p \in Package : p \notin newer /\ pkgar[p].state = "whole" => pkgar[p].of.source = source
    /\ Kind = "local" /\ pc \in Making /\ ~cook.cached =>
         \A p \in Package : Present(pkgar[p]) => p \notin newer
    /\ Kind = "local" /\ Present(auto_deps) /\ newer # Package =>
         \A p \in Package : Present(pkgar[p]) => p \notin newer

\* The packages a cook is done with are there, and not older than the source if
\* it looked (a cook of a dependency does not).
Tracked == ~(Kind = "remote" /\ {"kill", "tear"} \subseteq Faults)
Checked == NoEdit /\ ~(cook.cached /\ cook.is_deps)
Made(p) == pkgar[p].state = "whole" /\ (Checked => p \notin newer)

PackagesAreMade ==
    /\ pc # "idle" /\ NoEdit /\ cook.cached /\ ~cook.is_deps => \A p \in Package : p \notin newer
    /\ pc = "meta" => Present(pkgar[Head(todo)]) /\ (Checked => Head(todo) \notin newer)
    /\ Tracked /\ pc \in Making => \A p \in Package : p \in Left \/ Made(p)
    /\ Tracked /\ pc \in Publishing => \A p \in Package : Made(p)

----------------------------------------------------------------------------
(* The packages, their metadata and the repository.                          *)

\* Nothing tears, nor is build_remote killed, which removes no metadata.
Orderly == "tear" \notin Faults /\ (Kind = "remote" => "kill" \notin Faults)
Same == \A p, q \in Package : Present(pkgar[p]) /\ Present(pkgar[q]) => pkgar[p] = pkgar[q]
Described(p) == pkgar[p].state = "whole" /\ meta[p] = pkgar[p]

\* The packages are of one stage: all that are there while auto_deps.toml is, and
\* those this cook is done with.
OneStage == Orderly =>
    /\ IF Kind = "local" THEN Present(auto_deps) \/ Removed => Same
       ELSE (pc \in Making /\ ~cook.cached) \/ Same
    /\ pc \in Making /\ ~cook.cached =>
         \A p \in Package : p \notin Left \/ (pc = "meta" /\ p = Head(todo)) => pkgar[p] = stage

\* Those have their own metadata.
AllDescribed == Orderly =>
    /\ pc \in Making => \A p \in Package : p \in Left \/ Described(p)
    /\ pc \in Publishing => \A p \in Package : Described(p)

\* What need not be published has been (publish_packages compares the times).
RepositoryFollows == Orderly =>
    /\ \A p \in Package : p \notin unpublished /\ Present(meta[p]) =>
         repo[p].pkgar = meta[p] /\ repo[p].meta = meta[p]
    /\ pc = "publish_toml" => repo[Head(todo)].pkgar = pkgar[Head(todo)]
    /\ pc \in {"publish", "publish_toml"} =>
         \A p \in Package : p \in Left \/ p \notin unpublished

----------------------------------------------------------------------------
(* The dependencies of the packages, where nothing but scripts fails.        *)

Calm == Kind = "local" /\ Faults \subseteq {"script"} /\ Uniform

\* The tags tell what the packages were built against; packages that a cook
\* found up to date are built against the present dependencies.
Matches(r) ==
    dir[r].tags = 0 \/ \A p \in Package : Present(pkgar[p]) => pkgar[p].of.deps[r] = dir[r].tags
Built == \A p \in Package : Present(pkgar[p]) => pkgar[p].of.deps = dependency

\* The tags of a directory are missing only while it is replaced or emptied; the
\* directories a cook found up to date stay so until the script runs.
TagsFit == Calm =>
    /\ \A r \in Root : dir[r].tags = 0 => CanMove(r) \/ (pc = "clean_dir" /\ r = Head(todo))
    /\ pc = "deps" => \A r \in Left : r \notin cook.fresh
    /\ pc \in {"deps", "newer"} => \A r \in cook.fresh : Cached(r)
    /\ pc = "deps" => \A r \in Root : r \in Left \/ Cached(r)
    /\ pc \in {"newer", "stage_dirs", "script"} => \A r \in Root : Cached(r)
    /\ pc = "deps_again" => \A r \in Root : Cached(r) \/ r \in Left \cap cook.fresh
    /\ pc \in Cleaning \/ (pc \in Making \cup Publishing \cup {"auto_deps"} /\ ~cook.cached) =>
         \A r \in Root : dir[r].tags \in {0, dependency[r]}

DependenciesFit == Calm =>
    /\ Staged => stage.of.deps = dependency
    /\ pc \in {"idle", "auto_deps"} \cup Making \cup Publishing => \A r \in Root : Matches(r)
    /\ pc = "deps" => \A r \in Left \cup cook.fresh : Matches(r)
    /\ pc = "newer" => \A r \in cook.fresh : Matches(r)
    /\ pc # "idle" /\ cook.cached /\ ~cook.is_deps => Built
    /\ pc \in Publishing /\ ~cook.is_deps => Built

----------------------------------------------------------------------------
(* Lists and what is gone over.                                              *)

Walk ==
    /\ Range(Roots) = Root /\ Range(Packages) = Package /\ Package # {}
    /\ Roots # << >> /\ Packages # << >>
    /\ pc \in OverRoots => todo # << >> /\ Left \subseteq Root /\ Head(todo) \in Root
    /\ pc \in OverPackages => todo # << >> /\ Left \subseteq Package /\ Head(todo) \in Package
    /\ todo # << >> =>
         /\ Head(todo) \in Left
         /\ Len(todo) > 1 => Tail(todo) # << >> /\ Range(Tail(todo)) = Left \ {Head(todo)}
         /\ ~(Len(todo) > 1) => Left = {Head(todo)}

Proper == TypeOK /\ Shape /\ Walk

\* What no step changes.
Fixed == /\ setup' = setup /\ Root' = Root /\ Package' = Package /\ Roots' = Roots
         /\ Packages' = Packages /\ Kind' = Kind /\ Faults' = Faults /\ File' = File
         /\ Directory' = Directory /\ Cooking' = Cooking

\* A list of distinct elements without its head.
LEMMA TailOfList ==
  ASSUME NEW S, NEW list \in Seq(S) \ {<< >>}, IsInjective(list)
  PROVE  /\ Head(list) \in Range(list) /\ Range(list) \subseteq S
         /\ Len(list) > 1 =>
              /\ Tail(list) \in Seq(S) \ {<< >>} /\ IsInjective(Tail(list))
              /\ Range(Tail(list)) = Range(list) \ {Head(list)}
         /\ ~(Len(list) > 1) => Range(list) = {Head(list)}
<1>1. /\ Len(list) \in Nat \ {0} /\ DOMAIN list = 1..Len(list) /\ Head(list) = list[1]
      /\ \A i \in 1..Len(list) : list[i] \in S
  BY LenProperties, ElementOfSeq, EmptySeq, HeadTailProperties
<1>2. CASE ~(Len(list) > 1)
  <2>1. DOMAIN list = {1}
    BY <1>1, <1>2
  <2> QED
    BY <1>1, <1>2, <2>1 DEF Range
<1>3. CASE Len(list) > 1
  <2>1. /\ Tail(list) \in Seq(S) /\ Len(Tail(list)) = Len(list) - 1
        /\ \A i \in 1..(Len(list) - 1) : Tail(list)[i] = list[i + 1]
    BY HeadTailProperties, <1>1
  <2>2. DOMAIN Tail(list) = 1..(Len(list) - 1)
    BY <2>1, LenProperties
  <2>3. Tail(list) # << >>
    <3>1. Len(Tail(list)) = Len(list) - 1 /\ Len(list) \in Nat
      BY <2>1, <1>1
    <3>2. Len(Tail(list)) # 0
      BY <3>1, <1>3
    <3>3. Tail(list) \in Seq(S)
      BY <2>1
    <3> QED
      BY <3>2, <3>3, EmptySeq
  <2>4. IsInjective(Tail(list))
    <3>1. \A i, j \in 1..Len(list) : list[i] = list[j] => i = j
      BY <1>1 DEF IsInjective
    <3>2. SUFFICES ASSUME NEW i \in 1..(Len(list) - 1), NEW j \in 1..(Len(list) - 1), Tail(list)[i] = Tail(list)[j]
                   PROVE  i = j
      BY <2>2 DEF IsInjective
    <3>3. list[i + 1] = list[j + 1] /\ i + 1 \in 1..Len(list) /\ j + 1 \in 1..Len(list)
      BY <3>2, <2>1, <1>1
    <3> QED
      BY <3>3, <3>1
  <2>5. ASSUME NEW x \in Range(Tail(list)) PROVE x \in Range(list) \ {Head(list)}
    <3>1. PICK i \in 1..(Len(list) - 1) : x = list[i + 1]
      BY <2>5, <2>1, <2>2 DEF Range
    <3> QED
      BY <3>1, <1>1 DEF Range, IsInjective
  <2>6. ASSUME NEW x \in Range(list) \ {Head(list)} PROVE x \in Range(Tail(list))
    <3>1. PICK i \in 1..Len(list) : x = list[i]
      BY <2>6, <1>1 DEF Range
    <3>2. i - 1 \in 1..(Len(list) - 1) /\ Tail(list)[i - 1] = x
      BY <3>1, <2>1, <2>6, <1>1
    <3> QED
      BY <3>2, <2>2 DEF Range
  <2>7. Head(list) \in Range(list) /\ Range(list) \subseteq S
    BY <1>1 DEF Range
  <2> QED
    BY <2>1, <2>3, <2>4, <2>5, <2>6, <2>7, <1>3
<1> QED
  BY <1>2, <1>3

\* What the constants are.
LEMMA SetupFacts ==
  ASSUME setup \in Setups
  PROVE  /\ Roots \in Seq(Root) \ {<< >>} /\ IsInjective(Roots)
         /\ Packages \in Seq(Package) \ {<< >>} /\ IsInjective(Packages)
         /\ Root # {} /\ Package # {} /\ Kind \in {"local", "remote"}
         /\ setup.clean \subseteq BOOLEAN
         /\ Faults \subseteq {"install", "script", "edit", "kill", "tear"}
<1>1. /\ setup.roots \in Seq(STRING) \ {<< >>} /\ IsInjective(setup.roots)
      /\ setup.packages \in Seq(STRING) \ {<< >>} /\ IsInjective(setup.packages)
  BY CookAssumption
<1>2. \A list \in Seq(STRING) \ {<< >>} : list \in Seq(Range(list)) /\ Range(list) # {}
  <2> TAKE list \in Seq(STRING) \ {<< >>}
  <2>1. Len(list) \in Nat \ {0} /\ DOMAIN list = 1..Len(list)
    BY LenProperties, EmptySeq
  <2>2. \A i \in 1..Len(list) : list[i] \in Range(list)
    BY <2>1 DEF Range
  <2>3. list \in Seq(Range(list))
    BY <2>1, <2>2
  <2>4. list[1] \in Range(list)
    BY <2>1, <2>2
  <2> QED
    BY <2>3, <2>4
<1> QED
  BY <1>1, <1>2, CookAssumption DEF Roots, Packages, Root, Package, Kind, Faults

LEMMA WalkHolds ==
  ASSUME Shape
  PROVE  Walk
<1>1. CASE todo = << >>
  <2>1. Left = {}
    BY <1>1, EmptySeq DEF Left, Range
  <2> QED
    BY <2>1, <1>1, SetupFacts DEF Walk, Shape, Root, Package
<1>2. CASE pc \in OverRoots
  <2>1. todo \in Seq(Root) \ {<< >>} /\ IsInjective(todo)
    BY <1>2 DEF Shape
  <2> QED
    BY <2>1, TailOfList, SetupFacts DEF Walk, Shape, Root, Package, Left,
       OverRoots, OverPackages, Making
<1>3. CASE pc \in OverPackages
  <2>1. todo \in Seq(Package) \ {<< >>} /\ IsInjective(todo)
    BY <1>3 DEF Shape
  <2> QED
    BY <2>1, TailOfList, SetupFacts DEF Walk, Shape, Root, Package, Left,
       OverRoots, OverPackages, Making
<1> QED
  BY <1>1, <1>2, <1>3 DEF Shape

LEMMA FixedHolds ==
  ASSUME setup' = setup
  PROVE  Fixed
BY DEF Fixed, File, Directory, Cooking, Root, Package, Roots, Packages, Kind, Faults

----------------------------------------------------------------------------
(* The steps.                                                                *)

\* The steps that end a cook and change nothing else: an error, or a kill.
Aborted ==
    /\ pc # "idle" /\ pc' = "idle" /\ todo' = << >>
    /\ cook' = [cook EXCEPT !.result = "failed"]
    /\ faults' \in 0..MaxFaults
    /\ source' = source /\ newer' = newer /\ dependency' = dependency
    /\ dir' = dir /\ aside' = aside /\ stage' = stage /\ auto_deps' = auto_deps
    /\ pkgar' = pkgar /\ meta' = meta /\ unpublished' = unpublished /\ repo' = repo
    /\ pc \in {"newer", "stage_dirs", "clean_dir", "tags_back", "remote", "remote_deps",
               "pkgar", "drop_meta", "create", "clean_stage"} => "kill" \in Faults
    /\ pc = "meta" => "kill" \in Faults \/ pkgar[Head(todo)].state = "torn"
    /\ pc = "deps" => \/ "kill" \in Faults \/ "install" \in Faults
                      \/ dir[Head(todo)].tags = 0 /\ ~CanMove(Head(todo))

Act ==
    \/ Aborted \/ edit_source \/ (\E r \in Root : update_dependency(r)) \/ begin
    \/ deps_cached \/ deps_kept \/ deps_remove \/ deps_install
    \/ newer_cached \/ newer_rebuild \/ remove_stage \/ remove_pkgar \/ remove_meta
    \/ run_script \/ tags_aside \/ clean_dir \/ tags_back
    \/ remote_cached \/ remote_extract \/ remote_forget
    \/ write_auto_deps \/ read_auto_deps
    \/ drop_pkgar \/ drop_meta \/ keep_pkgar \/ create_pkgar \/ keep_meta \/ write_meta
    \/ clean_stage \/ publish_pkgar \/ publish_toml \/ nothing_to_publish
    \/ tear_in_removal \/ tear_in_auto_deps \/ tear_in_pkgar \/ tear_in_meta \/ tear_in_publish

LEMMA ActHolds ==
  ASSUME TypeOK, Next
  PROVE  Act
<1>a. faults \in 0..MaxFaults
  BY DEF TypeOK
<1>1. faults \in 0..MaxFaults /\ (faults < MaxFaults => faults + 1 \in 0..MaxFaults)
  BY <1>a, CookBounds
<1>2. CASE deps_stuck \/ deps_fail
  BY <1>1, <1>2 DEF deps_stuck, deps_fail, Installing, Aborted, Act, Fails, Goto, Fault,
     world, target, published
<1>3. CASE tags_stuck \/ script_fails \/ auto_deps_unreadable
  BY <1>1, <1>3 DEF tags_stuck, script_fails, auto_deps_unreadable, Aborted, Act, Fails, Goto, Fault,
     world, target, published
<1>4. CASE pkgar_unreadable \/ recipe_left_out \/ kill
  BY <1>1, <1>4 DEF pkgar_unreadable, recipe_left_out, kill, Aborted, Act, Fails, Goto, Fault,
     world, target, published
<1> QED
  BY <1>2, <1>3, <1>4 DEF Next, step, Act

\* Files are files.
LEMMA FileFacts ==
  /\ Absent \in File /\ Torn \in File
  /\ Absent.state = "absent" /\ Torn.state = "torn"
  /\ \A s \in 0..MaxSource, d \in [Root -> 0..MaxDependency] :
       Whole([source |-> s, deps |-> d]) \in File
  /\ \A file \in File : Whole(file.of) \in File
  /\ \A of : Whole(of).state = "whole" /\ Whole(of).of = of
  /\ Nothing.deps \in [Root -> 0..MaxDependency]
  /\ \A file \in File : file.of.source \in 0..MaxSource
BY CookBounds DEF Absent, Torn, Whole, File, Nothing

\* Directories are directories.
LEMMA DirectoryFacts ==
  /\ NoDir \in Directory /\ Empty \in Directory
  /\ \A t \in 0..MaxDependency :
       /\ \A d \in Directory : [d EXCEPT !.tags = t] \in Directory
       /\ \A v \in 0..MaxDependency, place \in {"absent", "empty", "rest", "full"} :
            [place |-> place, version |-> v, tags |-> t] \in Directory
  /\ \A d \in Directory : d.tags \in 0..MaxDependency /\ d.version \in 0..MaxDependency
BY CookBounds DEF NoDir, Empty, Directory

\* What the script finds installed, and the versions there are.
LEMMA RangeFacts ==
  ASSUME TypeOK
  PROVE  /\ 0 \in 0..MaxDependency /\ 0 \in 0..MaxFaults
         /\ source \in 0..MaxSource /\ \A r \in Root : dependency[r] \in 0..MaxDependency
         /\ \A r \in Root : dependency[r] \in Nat \ {0} /\ dir[r] \in Directory
         /\ Installed \in [Root -> 0..MaxDependency]
<1>1. 0 \in 0..MaxDependency /\ 0 \in 0..MaxFaults
  BY CookBounds
<1>2. source \in 1..MaxSource /\ dependency \in [Root -> 1..MaxDependency] /\ dir \in [Root -> Directory]
  BY DEF TypeOK
<1>3. source \in 0..MaxSource
  BY <1>2, CookBounds
<1>4. ASSUME NEW r \in Root PROVE dependency[r] \in 0..MaxDependency /\ dependency[r] \in Nat \ {0}
  BY <1>2, CookBounds
<1>5. ASSUME NEW r \in Root PROVE dir[r] \in Directory /\ dir[r].version \in 0..MaxDependency
  BY <1>2, DirectoryFacts
<1> QED
  BY <1>1, <1>3, <1>4, <1>5 DEF Installed

\* One element is done: the next, or the step after the last.
LEMMA OnePasses ==
  ASSUME Proper, NEW s, NEW list, Next_(Goto(s, list)), todo # << >>
  PROVE  \/ pc' = pc /\ Left' = Left \ {Head(todo)}
         \/ pc' = s /\ todo' = list /\ Left = {Head(todo)}
BY DEF Next_, Goto, Proper, Walk, Left

\* A package is done: the next, or what follows the packages.
LEMMA PackagePasses ==
  ASSUME Proper, pc = "meta", PackageDone
  PROVE  /\ Head(todo) \in Package /\ Head(todo) \in Left
         /\ \/ pc' = "pkgar" /\ Left' = Left \ {Head(todo)}
            \/ pc' = "clean_stage" /\ Left = {Head(todo)}
            \/ pc' = "publish" /\ Left = {Head(todo)} /\ Left' = Package
BY DEF PackageDone, Goto, Proper, Walk, Left, OverPackages, Making

\* A package is published: the next, or the cook has ended well.
LEMMA PublishPasses ==
  ASSUME Proper, pc \in {"publish", "publish_toml"}, Published
  PROVE  /\ Head(todo) \in Package /\ Head(todo) \in Left
         /\ \/ pc' = "publish" /\ Left' = Left \ {Head(todo)} /\ cook' = cook
            \/ /\ pc' = "idle" /\ Left = {Head(todo)}
               /\ cook' = [cook EXCEPT !.result = "done"]
BY DEF Published, Goto, Proper, Walk, Left, OverPackages, Making

\* Where the steps that finish one element of the list go on.
LEMMA CachedPasses ==
  ASSUME Proper, deps_cached
  PROVE  /\ pc = "deps" /\ Head(todo) \in Root /\ Head(todo) \in Left /\ todo # << >>
         /\ \/ pc' = "deps" /\ todo' = Tail(todo) /\ Len(todo) > 1 /\ Left' = Left \ {Head(todo)}
               /\ todo' # << >>
            \/ pc' = "newer" /\ todo' = << >> /\ Left = {Head(todo)}
BY DEF deps_cached, Next_, Goto, Proper, Walk, Left, OverRoots

LEMMA KeptPasses ==
  ASSUME Proper, deps_kept
  PROVE  /\ pc = "deps_again" /\ Head(todo) \in Root /\ Head(todo) \in Left /\ todo # << >>
         /\ Head(todo) \notin cook.fresh
         /\ \/ pc' = "deps_again" /\ todo' = Tail(todo) /\ Len(todo) > 1 /\ Left' = Left \ {Head(todo)}
               /\ todo' # << >>
            \/ pc' = "script" /\ todo' = << >> /\ Left = {Head(todo)}
BY DEF deps_kept, Installing, Next_, Goto, Proper, Walk, Left, OverRoots

LEMMA RemovalPasses ==
  ASSUME Proper, remove_meta
  PROVE  /\ pc = "stage_dirs" /\ Head(todo) \in Package /\ Head(todo) \in Left /\ todo # << >>
         /\ \/ pc' = "stage_dirs" /\ todo' = Tail(todo) /\ Len(todo) > 1 /\ Left' = Left \ {Head(todo)}
               /\ todo' # << >>
            \/ pc' = "script" /\ todo' = << >> /\ Left = {Head(todo)} /\ ~cook.clean
            \/ pc' = "deps_again" /\ todo' = Roots /\ Left = {Head(todo)} /\ cook.clean /\ Left' = Root
               /\ todo' # << >>
BY DEF remove_meta, AfterRemoval, Next_, Goto, Proper, Walk, Left, OverPackages, Making

LEMMA MetaPasses ==
  ASSUME Proper, keep_meta \/ write_meta
  PROVE  /\ pc = "meta" /\ Head(todo) \in Package /\ Head(todo) \in Left /\ todo # << >>
         /\ \/ pc' = "pkgar" /\ todo' = Tail(todo) /\ Len(todo) > 1 /\ Left' = Left \ {Head(todo)}
               /\ todo' # << >>
            \/ pc' = "clean_stage" /\ todo' = << >> /\ Left = {Head(todo)}
            \/ pc' = "publish" /\ todo' = Packages /\ Left = {Head(todo)} /\ Left' = Package
               /\ todo' # << >>
BY DEF keep_meta, write_meta, PackageDone, Goto, Proper, Walk, Left, OverPackages, Making

LEMMA PublishedPasses ==
  ASSUME Proper, publish_toml \/ nothing_to_publish
  PROVE  /\ pc \in {"publish", "publish_toml"} /\ Head(todo) \in Package /\ Head(todo) \in Left
         /\ todo # << >>
         /\ \/ pc' = "publish" /\ todo' = Tail(todo) /\ Len(todo) > 1 /\ Left' = Left \ {Head(todo)}
               /\ todo' # << >> /\ cook' = cook
            \/ pc' = "idle" /\ todo' = << >> /\ Left = {Head(todo)}
               /\ cook' = [cook EXCEPT !.result = "done"]
BY DEF publish_toml, nothing_to_publish, Published, Goto, Proper, Walk, Left, OverPackages, Making

\* The types.
LEMMA TypeStep ==
  ASSUME Proper, Fixed, Act
  PROVE  TypeOK'
<1>1. CASE Aborted
  BY <1>1, FileFacts, DirectoryFacts, CookBounds DEF Aborted, Proper, TypeOK, Cooking, Walk,
     OverRoots, OverPackages, Making, Fixed, world, target, published, process
<1>2. CASE edit_source
  BY <1>2, FileFacts, DirectoryFacts, CookBounds DEF edit_source, Proper, TypeOK, Cooking, Walk,
     OverRoots, OverPackages, Making, Fixed, world, target, published, process
<1>3. CASE \E r \in Root : update_dependency(r)
  <2>1. PICK r \in Root : update_dependency(r)
    BY <1>3
  <2>2. dependency' \in [Root -> 1..MaxDependency]
    BY <2>1, CookBounds DEF update_dependency, Proper, TypeOK
  <2> QED
    BY <2>1, <2>2 DEF update_dependency, Fixed, target, published, process, Proper, TypeOK, Cooking
<1>4. CASE begin
  <2>1. PICK clean \in setup.clean, is_deps \in setup.as_deps : handle_cook(clean, is_deps)
    BY <1>4 DEF begin
  <2>2. clean \in BOOLEAN /\ is_deps \in BOOLEAN
    BY CookAssumption DEF Proper, Shape
  <2>3. (is_deps /\ AllPackaged /\ Present(auto_deps)) \in BOOLEAN /\ {} \in SUBSET Root
    OBVIOUS
  <2>4. cook' \in Cooking
    BY <2>1, <2>2, <2>3, RangeFacts DEF handle_cook, Proper, Cooking
  <2>5. (todo' # << >> <=> pc' = "deps") /\ pc' \in {"deps", "remote", "auto_deps"}
    BY <2>1 DEF handle_cook, Goto, Proper, Walk
  <2> QED
    BY <2>1, <2>4, <2>5 DEF handle_cook, Proper, TypeOK, Fixed, world, target, published
<1>5. CASE deps_cached
  BY <1>5, CachedPasses, FileFacts, DirectoryFacts, CookBounds DEF deps_cached, Proper, TypeOK,
     Cooking, OverRoots, OverPackages, Making, Fixed, world, target, published, process
<1>6. CASE deps_kept
  BY <1>6, KeptPasses, FileFacts, DirectoryFacts, CookBounds DEF deps_kept, Proper, TypeOK,
     Cooking, OverRoots, OverPackages, Making, Fixed, world, target, published, process
<1>7. CASE deps_remove
  BY <1>7, FileFacts, DirectoryFacts, CookBounds DEF deps_remove, Installing, NoDir, Empty,
     Proper, TypeOK, Cooking, Walk, OverRoots, OverPackages, Making, Fixed, world, target,
     published, process
<1>8. CASE deps_install
  <2>1. dir' \in [Root -> Directory]
    BY <1>8, DirectoryFacts, RangeFacts DEF deps_install, Installing, Next_, Goto, Proper,
       TypeOK, Walk, OverRoots, OverPackages, Making
  <2> QED
    BY <1>8, <2>1 DEF deps_install, Installing, Next_, Goto, Proper, TypeOK, Cooking, Walk,
       OverRoots, OverPackages, Making, Fixed, world, target, published, process
<1>9. CASE newer_cached
  BY <1>9, FileFacts, DirectoryFacts, CookBounds DEF newer_cached, Goto, Proper, TypeOK, Cooking,
     Walk, OverRoots, OverPackages, Making, Fixed, world, target, published, process
<1>10. CASE newer_rebuild
  BY <1>10, FileFacts, DirectoryFacts, CookBounds DEF newer_rebuild, Goto, Proper, TypeOK,
     Cooking, Walk, OverRoots, OverPackages, Making, Fixed, world, target, published, process
<1>11. CASE remove_stage
  BY <1>11, FileFacts, DirectoryFacts, CookBounds DEF remove_stage, Proper, TypeOK, Cooking,
     Walk, OverRoots, OverPackages, Making, Fixed, world, target, published, process
<1>12. CASE remove_pkgar
  BY <1>12, FileFacts, DirectoryFacts, CookBounds DEF remove_pkgar, Proper, TypeOK, Cooking,
     Walk, OverRoots, OverPackages, Making, Fixed, world, target, published, process
<1>13. CASE remove_meta
  BY <1>13, RemovalPasses, FileFacts, DirectoryFacts, CookBounds DEF remove_meta, Proper, TypeOK,
     Cooking, OverRoots, OverPackages, Making, Fixed, world, target, published, process
<1>14. CASE run_script
  <2>1. stage' \in File
    BY <1>14, FileFacts, RangeFacts DEF run_script, Proper
  <2> QED
    BY <1>14, <2>1 DEF run_script, Goto, Proper, TypeOK, Cooking, Walk, OverRoots, OverPackages,
       Making, Fixed, world, target, published, process
<1>15. CASE tags_aside
  <2>1. Head(todo) \in Root
    BY <1>15 DEF tags_aside, Proper, Walk, OverRoots
  <2>2. dir' \in [Root -> Directory]
    BY <1>15, <2>1, DirectoryFacts, RangeFacts DEF tags_aside, Proper, TypeOK
  <2> QED
    BY <1>15, <2>1, <2>2 DEF tags_aside, Goto, Proper, TypeOK, Cooking, Walk, OverRoots,
       OverPackages, Making, Fixed, world, target, published, process
<1>16. CASE clean_dir
  BY <1>16, FileFacts, DirectoryFacts, CookBounds DEF clean_dir, Empty, Goto, Proper, TypeOK,
     Cooking, Walk, OverRoots, OverPackages, Making, Fixed, world, target, published, process
<1>17. CASE tags_back
  <2>1. Head(todo) \in Root
    BY <1>17 DEF tags_back, Proper, Walk, OverRoots
  <2>2. dir' \in [Root -> Directory]
    BY <1>17, <2>1, DirectoryFacts, RangeFacts DEF tags_back, Proper, TypeOK
  <2> QED
    BY <1>17, <2>1, <2>2 DEF tags_back, Goto, Proper, TypeOK, Cooking, Walk, OverRoots,
       OverPackages, Making, Fixed, world, target, published, process
<1>18. CASE remote_cached
  BY <1>18, FileFacts, DirectoryFacts, CookBounds DEF remote_cached, Goto, Proper, TypeOK,
     Cooking, Walk, OverRoots, OverPackages, Making, Fixed, world, target, published, process
<1>19. CASE remote_extract
  <2>1. stage' \in File
    BY <1>19, FileFacts, RangeFacts DEF remote_extract, Proper
  <2> QED
    BY <1>19, <2>1 DEF remote_extract, Goto, Proper, TypeOK, Cooking, Walk, OverRoots,
       OverPackages, Making, Fixed, world, target, published, process
<1>20. CASE remote_forget
  BY <1>20, FileFacts, DirectoryFacts, CookBounds DEF remote_forget, Goto, Proper, TypeOK,
     Cooking, Walk, OverRoots, OverPackages, Making, Fixed, world, target, published, process
<1>21. CASE write_auto_deps
  BY <1>21, FileFacts, DirectoryFacts, CookBounds DEF write_auto_deps, Goto, Proper, TypeOK,
     Cooking, Walk, OverRoots, OverPackages, Making, Fixed, world, target, published, process
<1>22. CASE read_auto_deps
  BY <1>22, FileFacts, DirectoryFacts, CookBounds DEF read_auto_deps, Goto, Proper, TypeOK,
     Cooking, Walk, OverRoots, OverPackages, Making, Fixed, world, target, published, process
<1>23. CASE drop_pkgar
  BY <1>23, FileFacts, DirectoryFacts, CookBounds DEF drop_pkgar, Goto, Proper, TypeOK, Cooking,
     Walk, OverRoots, OverPackages, Making, Fixed, world, target, published, process
<1>24. CASE drop_meta
  BY <1>24, FileFacts, DirectoryFacts, CookBounds DEF drop_meta, Goto, Proper, TypeOK, Cooking,
     Walk, OverRoots, OverPackages, Making, Fixed, world, target, published, process
<1>25. CASE keep_pkgar
  BY <1>25, FileFacts, DirectoryFacts, CookBounds DEF keep_pkgar, Goto, Proper, TypeOK, Cooking,
     Walk, OverRoots, OverPackages, Making, Fixed, world, target, published, process
<1>26. CASE create_pkgar
  BY <1>26, FileFacts, DirectoryFacts, CookBounds DEF create_pkgar, Goto, Proper, TypeOK,
     Cooking, Walk, OverRoots, OverPackages, Making, Fixed, world, target, published, process
<1>27. CASE keep_meta
  BY <1>27, MetaPasses, FileFacts, DirectoryFacts, CookBounds DEF keep_meta, Proper, TypeOK,
     Cooking, OverRoots, OverPackages, Making, Fixed, world, target, published, process
<1>28. CASE write_meta
  BY <1>28, MetaPasses, FileFacts, DirectoryFacts, CookBounds DEF write_meta, Proper, TypeOK,
     Cooking, OverRoots, OverPackages, Making, Fixed, world, target, published, process
<1>29. CASE clean_stage
  BY <1>29, FileFacts, DirectoryFacts, CookBounds DEF clean_stage, Goto, Proper, TypeOK, Cooking,
     Walk, OverRoots, OverPackages, Making, Fixed, world, target, published, process
<1>30. CASE publish_pkgar
  <2>1. Head(todo) \in Package
    BY <1>30 DEF publish_pkgar, Goto, Proper, Walk, OverPackages, Making
  <2>2. repo' \in [Package -> [pkgar : File, meta : File]]
    BY <1>30, <2>1 DEF publish_pkgar, Proper, TypeOK
  <2> QED
    BY <1>30, <2>1, <2>2 DEF publish_pkgar, Goto, Proper, TypeOK, Cooking, Walk, OverRoots,
       OverPackages, Making, Fixed, world, target, published, process
<1>31. CASE publish_toml
  <2>1. /\ cook \in Cooking /\ (todo' # << >> <=> pc' = "publish")
        /\ pc' \in {"publish", "idle"} /\ (cook' = cook \/ cook' = [cook EXCEPT !.result = "done"])
    BY <1>31, PublishedPasses DEF Proper, TypeOK
  <2>2. cook' \in Cooking
    BY <2>1 DEF Cooking
  <2>3. /\ repo \in [Package -> [pkgar : File, meta : File]] /\ meta \in [Package -> File]
        /\ Head(todo) \in Package
    BY <1>31, PublishedPasses DEF Proper, TypeOK
  <2>4. repo' \in [Package -> [pkgar : File, meta : File]]
    BY <1>31, <2>3 DEF publish_toml
  <2> QED
    BY <1>31, <2>1, <2>2, <2>4 DEF publish_toml, Proper, TypeOK, Fixed, world, target
<1>32. CASE nothing_to_publish
  <2>1. /\ cook \in Cooking /\ (todo' # << >> <=> pc' = "publish")
        /\ pc' \in {"publish", "idle"} /\ (cook' = cook \/ cook' = [cook EXCEPT !.result = "done"])
    BY <1>32, PublishedPasses DEF Proper, TypeOK
  <2>2. cook' \in Cooking
    BY <2>1 DEF Cooking
  <2> QED
    BY <1>32, <2>1, <2>2 DEF nothing_to_publish, Proper, TypeOK, Fixed, world, target, published
<1>33. CASE tear_in_removal
  <2>1. /\ faults' \in 0..MaxFaults /\ cook' = [cook EXCEPT !.result = "failed"]
        /\ todo' = << >> /\ pc' = "idle"
    BY <1>33, CookBounds DEF tear_in_removal, torn, Fails, Goto, Fault, Installing, Proper, TypeOK
  <2>2. Head(todo) \in Root
    BY <1>33 DEF tear_in_removal, torn, Proper, Walk, OverRoots
  <2>3. PICK tags \in {0, dir[Head(todo)].tags} :
          dir' = [dir EXCEPT ![Head(todo)] = [place |-> "rest", version |-> 0, tags |-> tags]]
    BY <1>33 DEF tear_in_removal
  <2>4. [place |-> "rest", version |-> 0, tags |-> tags] \in Directory
    BY <1>33, <2>2, DirectoryFacts, RangeFacts DEF Proper
  <2>5. dir' \in [Root -> Directory]
    BY <1>33, <2>2, <2>3, <2>4 DEF Proper, TypeOK
  <2> QED
    BY <1>33, <2>1, <2>2, <2>3, <2>4, <2>5 DEF tear_in_removal, Proper, TypeOK, Cooking, Fixed,
       world, target, published
<1>34. CASE tear_in_auto_deps
  <2>1. /\ faults' \in 0..MaxFaults /\ cook' = [cook EXCEPT !.result = "failed"]
        /\ todo' = << >> /\ pc' = "idle"
    BY <1>34, CookBounds DEF tear_in_auto_deps, torn, Fails, Goto, Fault, Proper, TypeOK
  <2>2. auto_deps' \in File
    BY <1>34, FileFacts DEF tear_in_auto_deps
  <2> QED
    BY <1>34, <2>1, <2>2 DEF tear_in_auto_deps, Proper, TypeOK, Cooking, Fixed, world, target,
       published
<1>35. CASE tear_in_pkgar
  <2>1. /\ faults' \in 0..MaxFaults /\ cook' = [cook EXCEPT !.result = "failed"]
        /\ todo' = << >> /\ pc' = "idle"
    BY <1>35, CookBounds DEF tear_in_pkgar, torn, Fails, Goto, Fault, Proper, TypeOK
  <2>2. pkgar' \in [Package -> File] /\ newer' \subseteq Package
    BY <1>35, FileFacts DEF tear_in_pkgar, Proper, TypeOK
  <2> QED
    BY <1>35, <2>1, <2>2 DEF tear_in_pkgar, Proper, TypeOK, Cooking, Fixed, world, target, published
<1>36. CASE tear_in_meta
  <2>1. /\ faults' \in 0..MaxFaults /\ cook' = [cook EXCEPT !.result = "failed"]
        /\ todo' = << >> /\ pc' = "idle"
    BY <1>36, CookBounds DEF tear_in_meta, torn, Fails, Goto, Fault, Proper, TypeOK
  <2>2. Head(todo) \in Package
    BY <1>36 DEF tear_in_meta, torn, Proper, Walk, OverPackages, Making
  <2>3. meta' \in [Package -> File] /\ unpublished' \subseteq Package
    BY <1>36, <2>2, FileFacts DEF tear_in_meta, Proper, TypeOK
  <2> QED
    BY <1>36, <2>1, <2>2, <2>3 DEF tear_in_meta, Proper, TypeOK, Cooking, Fixed, world, target,
       published
<1>37. CASE tear_in_publish
  <2>1. /\ faults' \in 0..MaxFaults /\ cook' = [cook EXCEPT !.result = "failed"]
        /\ todo' = << >> /\ pc' = "idle"
    BY <1>37, CookBounds DEF tear_in_publish, torn, Fails, Goto, Fault, Proper, TypeOK
  <2>2. Head(todo) \in Package
    BY <1>37 DEF tear_in_publish, torn, Proper, Walk, OverPackages, Making
  <2>3. repo \in [Package -> [pkgar : File, meta : File]] /\ unpublished \subseteq Package /\ Torn \in File
    BY FileFacts DEF Proper, TypeOK
  <2>4. \/ repo' = [repo EXCEPT ![Head(todo)].pkgar = Torn] /\ unpublished' = unpublished
        \/ repo' = [repo EXCEPT ![Head(todo)].meta = Torn] /\ unpublished' = unpublished \ {Head(todo)}
    BY <1>37 DEF tear_in_publish
  <2>5. repo' \in [Package -> [pkgar : File, meta : File]] /\ unpublished' \subseteq Package
    BY <2>2, <2>3, <2>4
  <2> QED
    BY <1>37, <2>1, <2>5 DEF tear_in_publish, Proper, TypeOK, Cooking, Fixed, world, target,
       published
<1> QED
  BY <1>1, <1>2, <1>3, <1>4, <1>5, <1>6, <1>7, <1>8, <1>9, <1>10, <1>11, <1>12, <1>13, <1>14,
     <1>15, <1>16, <1>17, <1>18, <1>19, <1>20, <1>21, <1>22, <1>23, <1>24, <1>25, <1>26, <1>27,
     <1>28, <1>29, <1>30, <1>31, <1>32, <1>33, <1>34, <1>35, <1>36, <1>37 DEF Act

\* The rest of a list, once its head is done.
LEMMA TailFacts ==
  ASSUME Proper, Len(todo) > 1
  PROVE  /\ pc \in OverRoots => Tail(todo) \in Seq(Root) \ {<< >>} /\ IsInjective(Tail(todo))
         /\ pc \in OverPackages => Tail(todo) \in Seq(Package) \ {<< >>} /\ IsInjective(Tail(todo))
BY TailOfList DEF Proper, Shape

\* The step of the cook and what it still goes over.
LEMMA ShapeStep ==
  ASSUME Proper, Fixed, Act, TypeOK'
  PROVE  Shape'
<1>1. CASE Aborted
  BY <1>1, SetupFacts, TailFacts DEF Aborted, Proper, Shape, TypeOK, Cooking, Walk, OverRoots,
     OverPackages, Making, Publishing, Plain, Cleaning, Present, AllPackaged, Fixed, world,
     target, published, process
<1>2. CASE edit_source
  BY <1>2, SetupFacts, TailFacts DEF edit_source, Proper, Shape, TypeOK, Cooking, Walk,
     OverRoots, OverPackages, Making, Publishing, Plain, Cleaning, Present, AllPackaged, Fixed,
     world, target, published, process
<1>3. CASE \E r \in Root : update_dependency(r)
  <2>1. PICK r \in Root : update_dependency(r)
    BY <1>3
  <2> QED
    BY <2>1, SetupFacts, TailFacts DEF update_dependency, Fixed, world, target, published,
       process, Proper, Shape, TypeOK, Cooking, Walk, OverRoots, OverPackages, Making,
       Publishing, Plain, Cleaning, Present, AllPackaged
<1>4. CASE begin
  <2>1. PICK clean \in setup.clean, is_deps \in setup.as_deps : handle_cook(clean, is_deps)
    BY <1>4 DEF begin
  <2>2. /\ cook'.clean \in setup.clean /\ cook'.result = "none"
        /\ auto_deps' = auto_deps /\ pkgar' = pkgar
        /\ IF cook'.cached THEN pc' = "auto_deps" /\ todo' = << >> /\ Present(auto_deps) /\ AllPackaged
           ELSE \/ pc' = "remote" /\ todo' = << >> /\ Kind = "remote"
                \/ pc' = "deps" /\ todo' = Roots /\ Kind # "remote"
    BY <2>1 DEF handle_cook, Goto, target
  <2>3. setup' = setup /\ setup \in Setups
    BY DEF Proper, Shape, Fixed
  <2> QED
    BY <2>2, <2>3, SetupFacts DEF Shape, Fixed, OverRoots, OverPackages, Making, Publishing,
       Plain, Cleaning, Present, AllPackaged
<1>5. CASE deps_cached
  <2>1. /\ auto_deps' = auto_deps /\ (pkgar' = pkgar) /\ setup \in Setups
        /\ cook' = cook \/ pc' = "idle" \/ cook' = [cook EXCEPT !.fresh = cook.fresh \cup {Head(todo)}]
    BY <1>5, CachedPasses DEF deps_cached, Proper, Shape, target
  <2>2. \/ cook.clean = cook'.clean /\ cook.cached = cook'.cached /\ cook.result = cook'.result
        \/ pc' = "idle"
    BY <2>1 DEF Proper, TypeOK, Cooking
  <2>3. Len(todo) > 1 => Tail(todo) \in Seq(Root) \ {<< >>} /\ IsInjective(Tail(todo))
    BY <1>5, CachedPasses, TailFacts DEF OverRoots, OverPackages, Making
  <2> QED
    BY <1>5, <2>1, <2>2, <2>3, CachedPasses, SetupFacts DEF Proper, Shape, Fixed, OverRoots,
       OverPackages, Making, Publishing, Plain, Cleaning, Present, AllPackaged
<1>6. CASE deps_kept
  <2>1. /\ auto_deps' = auto_deps /\ (pkgar' = pkgar) /\ setup \in Setups
        /\ cook' = cook \/ pc' = "idle" \/ cook' = [cook EXCEPT !.fresh = cook.fresh \cup {Head(todo)}]
    BY <1>6, KeptPasses DEF deps_kept, Proper, Shape, target
  <2>2. \/ cook.clean = cook'.clean /\ cook.cached = cook'.cached /\ cook.result = cook'.result
        \/ pc' = "idle"
    BY <2>1 DEF Proper, TypeOK, Cooking
  <2>3. Len(todo) > 1 => Tail(todo) \in Seq(Root) \ {<< >>} /\ IsInjective(Tail(todo))
    BY <1>6, KeptPasses, TailFacts DEF OverRoots, OverPackages, Making
  <2> QED
    BY <1>6, <2>1, <2>2, <2>3, KeptPasses, SetupFacts DEF Proper, Shape, Fixed, OverRoots,
       OverPackages, Making, Publishing, Plain, Cleaning, Present, AllPackaged
<1>7. CASE deps_remove
  BY <1>7, SetupFacts, TailFacts DEF deps_remove, Installing, NoDir, Empty, Proper, Shape,
     TypeOK, Cooking, Walk, OverRoots, OverPackages, Making, Publishing, Plain, Cleaning,
     Present, AllPackaged, Fixed, world, target, published, process
<1>8. CASE deps_install
  BY <1>8, SetupFacts, TailFacts DEF deps_install, Installing, Next_, Goto, Proper, Shape,
     TypeOK, Cooking, Walk, OverRoots, OverPackages, Making, Publishing, Plain, Cleaning,
     Present, AllPackaged, Fixed, world, target, published, process
<1>9. CASE newer_cached
  BY <1>9, SetupFacts, TailFacts DEF newer_cached, Goto, SourceNewer, Proper, Shape, TypeOK,
     Cooking, Walk, OverRoots, OverPackages, Making, Publishing, Plain, Cleaning, Present,
     AllPackaged, Fixed, world, target, published, process
<1>10. CASE newer_rebuild
  BY <1>10, SetupFacts, TailFacts DEF newer_rebuild, Goto, Proper, Shape, TypeOK, Cooking, Walk,
     OverRoots, OverPackages, Making, Publishing, Plain, Cleaning, Present, AllPackaged, Fixed,
     world, target, published, process
<1>11. CASE remove_stage
  BY <1>11, SetupFacts, TailFacts DEF remove_stage, Proper, Shape, TypeOK, Cooking, Walk,
     OverRoots, OverPackages, Making, Publishing, Plain, Cleaning, Present, AllPackaged, Fixed,
     world, target, published, process
<1>12. CASE remove_pkgar
  BY <1>12, SetupFacts, TailFacts DEF remove_pkgar, Proper, Shape, TypeOK, Cooking, Walk,
     OverRoots, OverPackages, Making, Publishing, Plain, Cleaning, Present, AllPackaged, Fixed,
     world, target, published, process
<1>13. CASE remove_meta
  <2>1. /\ auto_deps' = auto_deps /\ (pkgar' = pkgar) /\ setup \in Setups
        /\ cook' = cook \/ pc' = "idle" \/ cook' = [cook EXCEPT !.fresh = cook.fresh \cup {Head(todo)}]
    BY <1>13, RemovalPasses DEF remove_meta, Proper, Shape, target
  <2>2. \/ cook.clean = cook'.clean /\ cook.cached = cook'.cached /\ cook.result = cook'.result
        \/ pc' = "idle"
    BY <2>1 DEF Proper, TypeOK, Cooking
  <2>3. Len(todo) > 1 => Tail(todo) \in Seq(Package) \ {<< >>} /\ IsInjective(Tail(todo))
    BY <1>13, RemovalPasses, TailFacts DEF OverRoots, OverPackages, Making
  <2> QED
    BY <1>13, <2>1, <2>2, <2>3, RemovalPasses, SetupFacts DEF Proper, Shape, Fixed, OverRoots,
       OverPackages, Making, Publishing, Plain, Cleaning, Present, AllPackaged
<1>14. CASE run_script
  BY <1>14, SetupFacts, TailFacts DEF run_script, Goto, Proper, Shape, TypeOK, Cooking, Walk,
     OverRoots, OverPackages, Making, Publishing, Plain, Cleaning, Present, AllPackaged, Fixed,
     world, target, published, process
<1>15. CASE tags_aside
  BY <1>15, SetupFacts, TailFacts DEF tags_aside, Goto, Proper, Shape, TypeOK, Cooking, Walk,
     OverRoots, OverPackages, Making, Publishing, Plain, Cleaning, Present, AllPackaged, Fixed,
     world, target, published, process
<1>16. CASE clean_dir
  BY <1>16, SetupFacts, TailFacts DEF clean_dir, Empty, Goto, Proper, Shape, TypeOK, Cooking,
     Walk, OverRoots, OverPackages, Making, Publishing, Plain, Cleaning, Present, AllPackaged,
     Fixed, world, target, published, process
<1>17. CASE tags_back
  BY <1>17, SetupFacts, TailFacts DEF tags_back, Goto, Proper, Shape, TypeOK, Cooking, Walk,
     OverRoots, OverPackages, Making, Publishing, Plain, Cleaning, Present, AllPackaged, Fixed,
     world, target, published, process
<1>18. CASE remote_cached
  BY <1>18, SetupFacts, TailFacts DEF remote_cached, Goto, RemoteCached, Proper, Shape, TypeOK,
     Cooking, Walk, OverRoots, OverPackages, Making, Publishing, Plain, Cleaning, Present,
     AllPackaged, Fixed, world, target, published, process
<1>19. CASE remote_extract
  BY <1>19, SetupFacts, TailFacts DEF remote_extract, Goto, Proper, Shape, TypeOK, Cooking, Walk,
     OverRoots, OverPackages, Making, Publishing, Plain, Cleaning, Present, AllPackaged, Fixed,
     world, target, published, process
<1>20. CASE remote_forget
  BY <1>20, SetupFacts, TailFacts DEF remote_forget, Goto, Proper, Shape, TypeOK, Cooking, Walk,
     OverRoots, OverPackages, Making, Publishing, Plain, Cleaning, Present, AllPackaged, Fixed,
     world, target, published, process
<1>21. CASE write_auto_deps
  BY <1>21, SetupFacts, TailFacts DEF write_auto_deps, Goto, Whole, Proper, Shape, TypeOK,
     Cooking, Walk, OverRoots, OverPackages, Making, Publishing, Plain, Cleaning, Present,
     AllPackaged, Fixed, world, target, published, process
<1>22. CASE read_auto_deps
  BY <1>22, SetupFacts, TailFacts DEF read_auto_deps, Goto, Proper, Shape, TypeOK, Cooking, Walk,
     OverRoots, OverPackages, Making, Publishing, Plain, Cleaning, Present, AllPackaged, Fixed,
     world, target, published, process
<1>23. CASE drop_pkgar
  BY <1>23, SetupFacts, TailFacts DEF drop_pkgar, Goto, Proper, Shape, TypeOK, Cooking, Walk,
     OverRoots, OverPackages, Making, Publishing, Plain, Cleaning, Present, AllPackaged, Fixed,
     world, target, published, process
<1>24. CASE drop_meta
  BY <1>24, SetupFacts, TailFacts DEF drop_meta, Goto, Proper, Shape, TypeOK, Cooking, Walk,
     OverRoots, OverPackages, Making, Publishing, Plain, Cleaning, Present, AllPackaged, Fixed,
     world, target, published, process
<1>25. CASE keep_pkgar
  BY <1>25, SetupFacts, TailFacts DEF keep_pkgar, Goto, Proper, Shape, TypeOK, Cooking, Walk,
     OverRoots, OverPackages, Making, Publishing, Plain, Cleaning, Present, AllPackaged, Fixed,
     world, target, published, process
<1>26. CASE create_pkgar
  BY <1>26, SetupFacts, TailFacts DEF create_pkgar, Goto, Proper, Shape, TypeOK, Cooking, Walk,
     OverRoots, OverPackages, Making, Publishing, Plain, Cleaning, Present, AllPackaged, Fixed,
     world, target, published, process
<1>27. CASE keep_meta
  <2>1. /\ auto_deps' = auto_deps /\ (pkgar' = pkgar) /\ setup \in Setups
        /\ cook' = cook \/ pc' = "idle" \/ cook' = [cook EXCEPT !.fresh = cook.fresh \cup {Head(todo)}]
    BY <1>27, MetaPasses DEF keep_meta, Proper, Shape, target
  <2>2. \/ cook.clean = cook'.clean /\ cook.cached = cook'.cached /\ cook.result = cook'.result
        \/ pc' = "idle"
    BY <2>1 DEF Proper, TypeOK, Cooking
  <2>3. Len(todo) > 1 => Tail(todo) \in Seq(Package) \ {<< >>} /\ IsInjective(Tail(todo))
    BY <1>27, MetaPasses, TailFacts DEF OverRoots, OverPackages, Making
  <2> QED
    BY <1>27, <2>1, <2>2, <2>3, MetaPasses, SetupFacts DEF Proper, Shape, Fixed, OverRoots,
       OverPackages, Making, Publishing, Plain, Cleaning, Present, AllPackaged
<1>28. CASE write_meta
  <2>1. /\ auto_deps' = auto_deps /\ (pkgar' = pkgar) /\ setup \in Setups
        /\ cook' = cook \/ pc' = "idle" \/ cook' = [cook EXCEPT !.fresh = cook.fresh \cup {Head(todo)}]
    BY <1>28, MetaPasses DEF write_meta, Proper, Shape, target
  <2>2. \/ cook.clean = cook'.clean /\ cook.cached = cook'.cached /\ cook.result = cook'.result
        \/ pc' = "idle"
    BY <2>1 DEF Proper, TypeOK, Cooking
  <2>3. Len(todo) > 1 => Tail(todo) \in Seq(Package) \ {<< >>} /\ IsInjective(Tail(todo))
    BY <1>28, MetaPasses, TailFacts DEF OverRoots, OverPackages, Making
  <2> QED
    BY <1>28, <2>1, <2>2, <2>3, MetaPasses, SetupFacts DEF Proper, Shape, Fixed, OverRoots,
       OverPackages, Making, Publishing, Plain, Cleaning, Present, AllPackaged
<1>29. CASE clean_stage
  BY <1>29, SetupFacts, TailFacts DEF clean_stage, Goto, Proper, Shape, TypeOK, Cooking, Walk,
     OverRoots, OverPackages, Making, Publishing, Plain, Cleaning, Present, AllPackaged, Fixed,
     world, target, published, process
<1>30. CASE publish_pkgar
  BY <1>30, SetupFacts, TailFacts DEF publish_pkgar, Goto, Proper, Shape, TypeOK, Cooking, Walk,
     OverRoots, OverPackages, Making, Publishing, Plain, Cleaning, Present, AllPackaged, Fixed,
     world, target, published, process
<1>31. CASE publish_toml
  <2>1. /\ auto_deps' = auto_deps /\ (pkgar' = pkgar) /\ setup \in Setups
        /\ cook' = cook \/ pc' = "idle" \/ cook' = [cook EXCEPT !.fresh = cook.fresh \cup {Head(todo)}]
    BY <1>31, PublishedPasses DEF publish_toml, Proper, Shape, target
  <2>2. \/ cook.clean = cook'.clean /\ cook.cached = cook'.cached /\ cook.result = cook'.result
        \/ pc' = "idle"
    BY <2>1 DEF Proper, TypeOK, Cooking
  <2>3. Len(todo) > 1 => Tail(todo) \in Seq(Package) \ {<< >>} /\ IsInjective(Tail(todo))
    BY <1>31, PublishedPasses, TailFacts DEF OverRoots, OverPackages, Making
  <2> QED
    BY <1>31, <2>1, <2>2, <2>3, PublishedPasses, SetupFacts DEF Proper, Shape, Fixed, OverRoots,
       OverPackages, Making, Publishing, Plain, Cleaning, Present, AllPackaged
<1>32. CASE nothing_to_publish
  <2>1. /\ auto_deps' = auto_deps /\ (pkgar' = pkgar) /\ setup \in Setups
        /\ cook' = cook \/ pc' = "idle" \/ cook' = [cook EXCEPT !.fresh = cook.fresh \cup {Head(todo)}]
    BY <1>32, PublishedPasses DEF nothing_to_publish, Proper, Shape, target
  <2>2. \/ cook.clean = cook'.clean /\ cook.cached = cook'.cached /\ cook.result = cook'.result
        \/ pc' = "idle"
    BY <2>1 DEF Proper, TypeOK, Cooking
  <2>3. Len(todo) > 1 => Tail(todo) \in Seq(Package) \ {<< >>} /\ IsInjective(Tail(todo))
    BY <1>32, PublishedPasses, TailFacts DEF OverRoots, OverPackages, Making
  <2> QED
    BY <1>32, <2>1, <2>2, <2>3, PublishedPasses, SetupFacts DEF Proper, Shape, Fixed, OverRoots,
       OverPackages, Making, Publishing, Plain, Cleaning, Present, AllPackaged
<1>33. CASE tear_in_removal
  BY <1>33, SetupFacts, TailFacts DEF tear_in_removal, torn, Fails, Goto, Fault, Installing,
     Proper, Shape, TypeOK, Cooking, Walk, OverRoots, OverPackages, Making, Publishing, Plain,
     Cleaning, Present, AllPackaged, Fixed, world, target, published, process
<1>34. CASE tear_in_auto_deps
  BY <1>34, SetupFacts, TailFacts DEF tear_in_auto_deps, torn, Fails, Goto, Fault, Proper, Shape,
     TypeOK, Cooking, Walk, OverRoots, OverPackages, Making, Publishing, Plain, Cleaning,
     Present, AllPackaged, Fixed, world, target, published, process
<1>35. CASE tear_in_pkgar
  BY <1>35, SetupFacts, TailFacts DEF tear_in_pkgar, torn, Fails, Goto, Fault, Proper, Shape,
     TypeOK, Cooking, Walk, OverRoots, OverPackages, Making, Publishing, Plain, Cleaning,
     Present, AllPackaged, Fixed, world, target, published, process
<1>36. CASE tear_in_meta
  BY <1>36, SetupFacts, TailFacts DEF tear_in_meta, torn, Fails, Goto, Fault, Proper, Shape,
     TypeOK, Cooking, Walk, OverRoots, OverPackages, Making, Publishing, Plain, Cleaning,
     Present, AllPackaged, Fixed, world, target, published, process
<1>37. CASE tear_in_publish
  BY <1>37, SetupFacts, TailFacts DEF tear_in_publish, torn, Fails, Goto, Fault, Proper, Shape,
     TypeOK, Cooking, Walk, OverRoots, OverPackages, Making, Publishing, Plain, Cleaning,
     Present, AllPackaged, Fixed, world, target, published, process
<1> QED
  BY <1>1, <1>2, <1>3, <1>4, <1>5, <1>6, <1>7, <1>8, <1>9, <1>10, <1>11, <1>12, <1>13, <1>14,
     <1>15, <1>16, <1>17, <1>18, <1>19, <1>20, <1>21, <1>22, <1>23, <1>24, <1>25, <1>26, <1>27,
     <1>28, <1>29, <1>30, <1>31, <1>32, <1>33, <1>34, <1>35, <1>36, <1>37 DEF Act

\* What the tags of the directories say.
LEMMA DirectoriesStep ==
  ASSUME Proper, Proper', Fixed, Act, DirectoriesFit
  PROVE  DirectoriesFit'
<1>1. CASE Aborted
  BY <1>1, RangeFacts, SetupFacts, DirectoryFacts DEF Aborted, Proper, Shape, Walk,
     DirectoriesFit, Ready, Uniform, Cached, Left, Cleaning, OverRoots, Fixed, world, target,
     published, process
<1>2. CASE edit_source
  BY <1>2, RangeFacts, SetupFacts, DirectoryFacts DEF edit_source, Proper, Shape, Walk,
     DirectoriesFit, Ready, Uniform, Cached, Left, Cleaning, OverRoots, Fixed, world, target,
     published, process
<1>3. CASE \E r \in Root : update_dependency(r)
  <2>1. PICK r \in Root : update_dependency(r)
    BY <1>3
  <2>2. /\ pc' = "idle" /\ dir' = dir /\ dependency'[r] = dependency[r] + 1
        /\ \A q \in Root : q # r => dependency'[q] = dependency[q]
    BY <2>1 DEF update_dependency, target, process, Proper, TypeOK
  <2>3. dir[r].tags <= dependency[r] /\ dir[r].tags \in Nat /\ dependency[r] \in Nat
    BY RangeFacts, DirectoryFacts DEF DirectoriesFit, Proper
  <2>4. dir[r].tags <= dependency'[r] /\ dir[r].tags # dependency'[r]
    BY <2>2, <2>3
  <2> QED
    BY <2>2, <2>4 DEF DirectoriesFit, Cached, Ready, Fixed
<1>4. CASE begin
  <2>1. PICK clean \in setup.clean, is_deps \in setup.as_deps : handle_cook(clean, is_deps)
    BY <1>4 DEF begin
  <2> QED
    BY <2>1, RangeFacts, SetupFacts, DirectoryFacts DEF handle_cook, Goto, Proper, Shape, Walk,
       DirectoriesFit, Ready, Uniform, Cached, Left, Cleaning, OverRoots, Fixed, world, target,
       published, process
<1>5. CASE deps_cached
  <2>1. /\ Head(todo) \in Root /\ Cached(Head(todo)) /\ pc = "deps" /\ cook.fresh \subseteq Root
        /\ cook'.fresh = cook.fresh \cup {Head(todo)} /\ cook'.clean = cook.clean
        /\ dir' = dir /\ dependency' = dependency
    BY <1>5 DEF deps_cached, Proper, TypeOK, Cooking, Walk, OverRoots, world, target
  <2>2. Uniform => Ready(Head(todo)) \/ cook.clean
    BY <2>1, SetupFacts DEF DirectoriesFit, Proper, Shape, Uniform
  <2>3. \A r \in Root : Ready(r)' <=> Ready(r)
    BY <2>1 DEF Ready
  <2>4. \/ pc' = "deps" /\ Left' = Left \ {Head(todo)}
        \/ pc' = "newer" /\ Left = {Head(todo)}
    BY <1>5, <2>1, OnePasses DEF deps_cached, Proper, Walk, OverRoots
  <2> QED
    BY <2>1, <2>2, <2>3, <2>4 DEF DirectoriesFit, Cached, Uniform, Fixed
<1>6. CASE deps_kept
  <2>1. /\ pc = "deps_again" /\ Head(todo) \in Root /\ Head(todo) \notin cook.fresh
        /\ dir' = dir /\ dependency' = dependency /\ cook' = cook
        /\ \/ pc' = "deps_again" /\ Left' = Left \ {Head(todo)}
           \/ pc' = "script" /\ Left = {Head(todo)}
    BY <1>6, KeptPasses DEF deps_kept, world, target
  <2>2. \A r \in Root : Ready(r)' <=> Ready(r)
    BY <2>1 DEF Ready
  <2> QED
    BY <2>1, <2>2 DEF DirectoriesFit, Cached, Uniform, Fixed
<1>7. CASE deps_remove
  <2>1. /\ Head(todo) \in Root /\ dir \in [Root -> Directory] /\ dependency' = dependency
        /\ cook' = cook /\ cook.fresh \subseteq Root
    BY <1>7 DEF deps_remove, Installing, NoDir, Empty, Proper, TypeOK, Cooking, Walk, OverRoots,
       world, process
  <2>2. \A r \in Root : r # Head(todo) => dir'[r] = dir[r]
    BY <1>7, <2>1 DEF deps_remove, Installing, NoDir, Empty
  <2>3. dir'[Head(todo)].tags = 0
    BY <1>7, <2>1, DirectoryFacts DEF deps_remove, Installing, NoDir, Empty, Directory, Empty, NoDir
  <2>4. dir'[Head(todo)].tags <= dependency[Head(todo)]
    BY <1>7, <2>1, <2>3, RangeFacts DEF deps_remove, Installing, NoDir, Empty, Proper
  <2>5. \A r \in Root : dir'[r].tags <= dependency[r]
    BY <2>2, <2>4 DEF DirectoriesFit
  <2>6. TRUE \notin setup.clean => \A r \in Root : Cached(r)' => Ready(r)'
    BY <1>7, <2>1, <2>2, <2>3, RangeFacts DEF deps_remove, Installing, NoDir, Empty, Proper,
       Shape, Cleaning, DirectoriesFit, Ready, Cached
  <2>7. Uniform => \A r \in Root : r # Head(todo) => (Ready(r)' <=> Ready(r))
    BY <2>1, <2>2 DEF Ready
  <2>8. /\ pc' = pc /\ Left' = Left /\ Head(todo) \in Left /\ pc \in {"deps", "deps_again"}
        /\ pc = "deps_again" => Head(todo) \in cook.fresh
    BY <1>7 DEF deps_remove, Installing, process, Proper, Walk, OverRoots, Left
  <2> QED
    BY <2>1, <2>5, <2>6, <2>7, <2>8 DEF DirectoriesFit, Uniform, Fixed
<1>8. CASE deps_install
  <2>1. /\ Head(todo) \in Root /\ dir \in [Root -> Directory] /\ dependency' = dependency
        /\ cook' = cook /\ cook.fresh \subseteq Root
    BY <1>8 DEF deps_install, Installing, Next_, Goto, Proper, TypeOK, Cooking, Walk, OverRoots,
       world, process
  <2>2. \A r \in Root : r # Head(todo) => dir'[r] = dir[r]
    BY <1>8, <2>1 DEF deps_install, Installing, Next_, Goto
  <2>3. /\ dir'[Head(todo)].tags = dependency[Head(todo)] /\ dir'[Head(todo)].place = "full"
        /\ dir'[Head(todo)].version = dependency[Head(todo)]
    BY <1>8, <2>1, DirectoryFacts DEF deps_install, Installing, Next_, Goto, Directory, Empty, NoDir
  <2>4. dir'[Head(todo)].tags <= dependency[Head(todo)]
    BY <1>8, <2>1, <2>3, RangeFacts DEF deps_install, Installing, Next_, Goto, Proper
  <2>5. \A r \in Root : dir'[r].tags <= dependency[r]
    BY <2>2, <2>4 DEF DirectoriesFit
  <2>6. TRUE \notin setup.clean => \A r \in Root : Cached(r)' => Ready(r)'
    BY <1>8, <2>1, <2>2, <2>3, RangeFacts DEF deps_install, Installing, Next_, Goto, Proper,
       Shape, Cleaning, DirectoriesFit, Ready, Cached
  <2>7. Uniform => \A r \in Root : r # Head(todo) => (Ready(r)' <=> Ready(r))
    BY <2>1, <2>2 DEF Ready
  <2>8. \/ pc' = pc /\ Left' = Left \ {Head(todo)} /\ pc \in {"deps", "deps_again"}
        \/ pc = "deps" /\ pc' = "newer" /\ Left = {Head(todo)}
        \/ pc = "deps_again" /\ pc' = "script" /\ Left = {Head(todo)}
    <3>1. CASE pc = "deps"
      BY <1>8, <3>1, OnePasses DEF deps_install, Proper, Walk, OverRoots
    <3>2. CASE pc = "deps_again"
      BY <1>8, <3>2, OnePasses DEF deps_install, Proper, Walk, OverRoots
    <3> QED
      BY <1>8, <3>1, <3>2 DEF deps_install, Installing
  <2>9. \A r \in Root : r = Head(todo) => Ready(r)'
    BY <2>1, <2>3 DEF Ready
  <2> QED
    BY <2>1, <2>5, <2>6, <2>7, <2>8, <2>9 DEF DirectoriesFit, Uniform, Fixed
<1>9. CASE newer_cached
  BY <1>9, RangeFacts, SetupFacts, DirectoryFacts DEF newer_cached, Goto, Proper, Shape, Walk,
     DirectoriesFit, Ready, Uniform, Cached, Left, Cleaning, OverRoots, Fixed, world, target,
     published, process
<1>10. CASE newer_rebuild
  BY <1>10, RangeFacts, SetupFacts, DirectoryFacts DEF newer_rebuild, Goto, Proper, Shape, Walk,
     DirectoriesFit, Ready, Uniform, Cached, Left, Cleaning, OverRoots, Fixed, world, target,
     published, process
<1>11. CASE remove_stage
  BY <1>11, RangeFacts, SetupFacts, DirectoryFacts DEF remove_stage, Proper, Shape, Walk,
     DirectoriesFit, Ready, Uniform, Cached, Left, Cleaning, OverRoots, Fixed, world, target,
     published, process
<1>12. CASE remove_pkgar
  BY <1>12, RangeFacts, SetupFacts, DirectoryFacts DEF remove_pkgar, Proper, Shape, Walk,
     DirectoriesFit, Ready, Uniform, Cached, Left, Cleaning, OverRoots, Fixed, world, target,
     published, process
<1>13. CASE remove_meta
  BY <1>13, RemovalPasses, RangeFacts, SetupFacts, DirectoryFacts DEF remove_meta, Proper, Shape,
     DirectoriesFit, Ready, Uniform, Cached, Cleaning, OverRoots, Fixed, world, target,
     published, process
<1>14. CASE run_script
  BY <1>14, RangeFacts, SetupFacts, DirectoryFacts DEF run_script, Goto, Proper, Shape, Walk,
     DirectoriesFit, Ready, Uniform, Cached, Left, Cleaning, OverRoots, Fixed, world, target,
     published, process
<1>15. CASE tags_aside
  <2>1. /\ Head(todo) \in Root /\ dir \in [Root -> Directory] /\ dependency' = dependency
        /\ TRUE \in setup.clean
        /\ pc' \in Cleaning \cup {"auto_deps"}
    BY <1>15 DEF tags_aside, Goto, Proper, Shape, Cleaning, TypeOK, Walk, OverRoots, world, process
  <2>2. \A r \in Root : r # Head(todo) => dir'[r] = dir[r]
    BY <1>15, <2>1 DEF tags_aside
  <2>3. dir'[Head(todo)].tags = 0
    BY <1>15, <2>1, DirectoryFacts DEF tags_aside, Directory, Empty, NoDir
  <2>4. dir'[Head(todo)].tags <= dependency[Head(todo)]
    BY <1>15, <2>1, <2>3, RangeFacts DEF tags_aside, Proper
  <2>5. \A r \in Root : dir'[r].tags <= dependency[r]
    BY <2>2, <2>4 DEF DirectoriesFit
  <2> QED
    BY <2>1, <2>5 DEF DirectoriesFit, Cleaning, Fixed
<1>16. CASE clean_dir
  <2>1. /\ Head(todo) \in Root /\ dir \in [Root -> Directory] /\ dependency' = dependency
        /\ TRUE \in setup.clean
        /\ pc' \in Cleaning \cup {"auto_deps"}
    BY <1>16 DEF clean_dir, Goto, Proper, Shape, Cleaning, TypeOK, Walk, OverRoots, world, process
  <2>2. \A r \in Root : r # Head(todo) => dir'[r] = dir[r]
    BY <1>16, <2>1 DEF clean_dir
  <2>3. dir'[Head(todo)].tags = 0
    BY <1>16, <2>1, DirectoryFacts DEF clean_dir, Directory, Empty, NoDir
  <2>4. dir'[Head(todo)].tags <= dependency[Head(todo)]
    BY <1>16, <2>1, <2>3, RangeFacts DEF clean_dir, Proper
  <2>5. \A r \in Root : dir'[r].tags <= dependency[r]
    BY <2>2, <2>4 DEF DirectoriesFit
  <2> QED
    BY <2>1, <2>5 DEF DirectoriesFit, Cleaning, Fixed
<1>17. CASE tags_back
  <2>1. /\ Head(todo) \in Root /\ dir \in [Root -> Directory] /\ dependency' = dependency
        /\ TRUE \in setup.clean
        /\ pc' \in Cleaning \cup {"auto_deps"}
    BY <1>17 DEF tags_back, Goto, Proper, Shape, Cleaning, TypeOK, Walk, OverRoots, world, process
  <2>2. \A r \in Root : r # Head(todo) => dir'[r] = dir[r]
    BY <1>17, <2>1 DEF tags_back
  <2>3. dir'[Head(todo)].tags = dependency[Head(todo)]
    BY <1>17, <2>1, DirectoryFacts DEF tags_back, Directory, Empty, NoDir
  <2>4. dir'[Head(todo)].tags <= dependency[Head(todo)]
    BY <1>17, <2>1, <2>3, RangeFacts DEF tags_back, Proper
  <2>5. \A r \in Root : dir'[r].tags <= dependency[r]
    BY <2>2, <2>4 DEF DirectoriesFit
  <2> QED
    BY <2>1, <2>5 DEF DirectoriesFit, Cleaning, Fixed
<1>18. CASE remote_cached
  BY <1>18, RangeFacts, SetupFacts, DirectoryFacts DEF remote_cached, Goto, Proper, Shape, Walk,
     DirectoriesFit, Ready, Uniform, Cached, Left, Cleaning, OverRoots, Fixed, world, target,
     published, process
<1>19. CASE remote_extract
  BY <1>19, RangeFacts, SetupFacts, DirectoryFacts DEF remote_extract, Goto, Proper, Shape, Walk,
     DirectoriesFit, Ready, Uniform, Cached, Left, Cleaning, OverRoots, Fixed, world, target,
     published, process
<1>20. CASE remote_forget
  BY <1>20, RangeFacts, SetupFacts, DirectoryFacts DEF remote_forget, Goto, Proper, Shape, Walk,
     DirectoriesFit, Ready, Uniform, Cached, Left, Cleaning, OverRoots, Fixed, world, target,
     published, process
<1>21. CASE write_auto_deps
  BY <1>21, RangeFacts, SetupFacts, DirectoryFacts DEF write_auto_deps, Goto, Proper, Shape,
     Walk, DirectoriesFit, Ready, Uniform, Cached, Left, Cleaning, OverRoots, Fixed, world,
     target, published, process
<1>22. CASE read_auto_deps
  BY <1>22, RangeFacts, SetupFacts, DirectoryFacts DEF read_auto_deps, Goto, Proper, Shape, Walk,
     DirectoriesFit, Ready, Uniform, Cached, Left, Cleaning, OverRoots, Fixed, world, target,
     published, process
<1>23. CASE drop_pkgar
  BY <1>23, RangeFacts, SetupFacts, DirectoryFacts DEF drop_pkgar, Goto, Proper, Shape, Walk,
     DirectoriesFit, Ready, Uniform, Cached, Left, Cleaning, OverRoots, Fixed, world, target,
     published, process
<1>24. CASE drop_meta
  BY <1>24, RangeFacts, SetupFacts, DirectoryFacts DEF drop_meta, Goto, Proper, Shape, Walk,
     DirectoriesFit, Ready, Uniform, Cached, Left, Cleaning, OverRoots, Fixed, world, target,
     published, process
<1>25. CASE keep_pkgar
  BY <1>25, RangeFacts, SetupFacts, DirectoryFacts DEF keep_pkgar, Goto, Proper, Shape, Walk,
     DirectoriesFit, Ready, Uniform, Cached, Left, Cleaning, OverRoots, Fixed, world, target,
     published, process
<1>26. CASE create_pkgar
  BY <1>26, RangeFacts, SetupFacts, DirectoryFacts DEF create_pkgar, Goto, Proper, Shape, Walk,
     DirectoriesFit, Ready, Uniform, Cached, Left, Cleaning, OverRoots, Fixed, world, target,
     published, process
<1>27. CASE keep_meta
  BY <1>27, MetaPasses, RangeFacts, SetupFacts, DirectoryFacts DEF keep_meta, Proper, Shape,
     DirectoriesFit, Ready, Uniform, Cached, Cleaning, OverRoots, Fixed, world, target,
     published, process
<1>28. CASE write_meta
  BY <1>28, MetaPasses, RangeFacts, SetupFacts, DirectoryFacts DEF write_meta, Proper, Shape,
     DirectoriesFit, Ready, Uniform, Cached, Cleaning, OverRoots, Fixed, world, target,
     published, process
<1>29. CASE clean_stage
  BY <1>29, RangeFacts, SetupFacts, DirectoryFacts DEF clean_stage, Goto, Proper, Shape, Walk,
     DirectoriesFit, Ready, Uniform, Cached, Left, Cleaning, OverRoots, Fixed, world, target,
     published, process
<1>30. CASE publish_pkgar
  BY <1>30, RangeFacts, SetupFacts, DirectoryFacts DEF publish_pkgar, Goto, Proper, Shape, Walk,
     DirectoriesFit, Ready, Uniform, Cached, Left, Cleaning, OverRoots, Fixed, world, target,
     published, process
<1>31. CASE publish_toml
  <2>1. /\ dir' = dir /\ dependency' = dependency /\ pc' \in {"publish", "idle"}
    BY <1>31, PublishedPasses DEF publish_toml, world, target
  <2>2. \A r \in Root : Ready(r)' <=> Ready(r)
    BY <2>1 DEF Ready
  <2> QED
    BY <2>1, <2>2 DEF DirectoriesFit, Cached, Uniform, Fixed
<1>32. CASE nothing_to_publish
  <2>1. /\ dir' = dir /\ dependency' = dependency /\ pc' \in {"publish", "idle"}
    BY <1>32, PublishedPasses DEF nothing_to_publish, world, target
  <2>2. \A r \in Root : Ready(r)' <=> Ready(r)
    BY <2>1 DEF Ready
  <2> QED
    BY <2>1, <2>2 DEF DirectoriesFit, Cached, Uniform, Fixed
<1>33. CASE tear_in_removal
  <2>1. Head(todo) \in Root /\ dir \in [Root -> Directory] /\ dependency' = dependency /\ pc' = "idle"
    BY <1>33 DEF tear_in_removal, torn, Fails, Goto, Proper, TypeOK, Walk, OverRoots, world
  <2>2. PICK tags \in {0, dir[Head(todo)].tags} :
          dir' = [dir EXCEPT ![Head(todo)] = [place |-> "rest", version |-> 0, tags |-> tags]]
    BY <1>33 DEF tear_in_removal
  <2>3. /\ dir'[Head(todo)].tags = tags
        /\ \A r \in Root : r # Head(todo) => dir'[r] = dir[r]
    BY <2>1, <2>2
  <2>4. tags <= dependency[Head(todo)] /\ dependency[Head(todo)] # 0
    BY <2>1, <2>2, RangeFacts DEF DirectoriesFit, Proper
  <2>5. TRUE \notin setup.clean => tags # dependency[Head(todo)]
    BY <1>33, <2>1, <2>2, <2>4 DEF tear_in_removal, torn, Installing, Cached, Proper, Shape,
       Cleaning
  <2> QED
    BY <2>1, <2>3, <2>4, <2>5 DEF DirectoriesFit, Cached, Ready, Fixed
<1>34. CASE tear_in_auto_deps
  BY <1>34, RangeFacts, SetupFacts, DirectoryFacts DEF tear_in_auto_deps, torn, Fails, Goto,
     Fault, Proper, Shape, Walk, DirectoriesFit, Ready, Uniform, Cached, Left, Cleaning,
     OverRoots, Fixed, world, target, published, process
<1>35. CASE tear_in_pkgar
  BY <1>35, RangeFacts, SetupFacts, DirectoryFacts DEF tear_in_pkgar, torn, Fails, Goto, Fault,
     Proper, Shape, Walk, DirectoriesFit, Ready, Uniform, Cached, Left, Cleaning, OverRoots,
     Fixed, world, target, published, process
<1>36. CASE tear_in_meta
  BY <1>36, RangeFacts, SetupFacts, DirectoryFacts DEF tear_in_meta, torn, Fails, Goto, Fault,
     Proper, Shape, Walk, DirectoriesFit, Ready, Uniform, Cached, Left, Cleaning, OverRoots,
     Fixed, world, target, published, process
<1>37. CASE tear_in_publish
  BY <1>37, RangeFacts, SetupFacts, DirectoryFacts DEF tear_in_publish, torn, Fails, Goto, Fault,
     Proper, Shape, Walk, DirectoriesFit, Ready, Uniform, Cached, Left, Cleaning, OverRoots,
     Fixed, world, target, published, process
<1> QED
  BY <1>1, <1>2, <1>3, <1>4, <1>5, <1>6, <1>7, <1>8, <1>9, <1>10, <1>11, <1>12, <1>13, <1>14,
     <1>15, <1>16, <1>17, <1>18, <1>19, <1>20, <1>21, <1>22, <1>23, <1>24, <1>25, <1>26, <1>27,
     <1>28, <1>29, <1>30, <1>31, <1>32, <1>33, <1>34, <1>35, <1>36, <1>37 DEF Act

\* What is removed stays removed until the script has made the stage.
LEMMA RemovedStep ==
  ASSUME Proper, Proper', Fixed, Act, TypeOK', RemovedBefore
  PROVE  RemovedBefore'
<1>1. CASE Aborted
  BY <1>1 DEF Aborted, Proper, Walk, Shape, Left, OverRoots, OverPackages, Making, Publishing,
     Plain, Cleaning, RemovedBefore, Bare, Removed, Present, Absent, Whole, Torn, TypeOK,
     Cooking, Fixed, world, target, published, process
<1>2. CASE edit_source
  BY <1>2 DEF edit_source, Proper, Walk, Shape, Left, OverRoots, OverPackages, Making,
     Publishing, Plain, Cleaning, RemovedBefore, Bare, Removed, Present, Absent, Whole, Torn,
     TypeOK, Cooking, Fixed, world, target, published, process
<1>3. CASE \E r \in Root : update_dependency(r)
  <2>1. PICK r \in Root : update_dependency(r)
    BY <1>3
  <2> QED
    BY <2>1 DEF update_dependency, Fixed, world, target, published, process, Proper, Walk, Shape,
       Left, OverRoots, OverPackages, Making, Publishing, Plain, Cleaning, RemovedBefore, Bare,
       Removed, Present, Absent, Whole, Torn, TypeOK, Cooking
<1>4. CASE begin
  <2>1. PICK clean \in setup.clean, is_deps \in setup.as_deps : handle_cook(clean, is_deps)
    BY <1>4 DEF begin
  <2> QED
    BY <2>1 DEF handle_cook, Goto, Proper, Walk, Shape, Left, OverRoots, OverPackages, Making,
       Publishing, Plain, Cleaning, RemovedBefore, Bare, Removed, Present, Absent, Whole, Torn,
       TypeOK, Cooking, Fixed, world, target, published, process
<1>5. CASE deps_cached
  BY <1>5, CachedPasses DEF deps_cached, Proper, Shape, OverRoots, OverPackages, Making,
     Publishing, Plain, Cleaning, RemovedBefore, Bare, Removed, Present, Absent, Whole, Torn,
     TypeOK, Cooking, Fixed, world, target, published, process
<1>6. CASE deps_kept
  BY <1>6, KeptPasses DEF deps_kept, Proper, Shape, OverRoots, OverPackages, Making, Publishing,
     Plain, Cleaning, RemovedBefore, Bare, Removed, Present, Absent, Whole, Torn, TypeOK,
     Cooking, Fixed, world, target, published, process
<1>7. CASE deps_remove
  BY <1>7 DEF deps_remove, Installing, NoDir, Empty, Proper, Walk, Shape, Left, OverRoots,
     OverPackages, Making, Publishing, Plain, Cleaning, RemovedBefore, Bare, Removed, Present,
     Absent, Whole, Torn, TypeOK, Cooking, Fixed, world, target, published, process
<1>8. CASE deps_install
  BY <1>8 DEF deps_install, Installing, Next_, Goto, Proper, Walk, Shape, Left, OverRoots,
     OverPackages, Making, Publishing, Plain, Cleaning, RemovedBefore, Bare, Removed, Present,
     Absent, Whole, Torn, TypeOK, Cooking, Fixed, world, target, published, process
<1>9. CASE newer_cached
  BY <1>9 DEF newer_cached, Goto, Proper, Walk, Shape, Left, OverRoots, OverPackages, Making,
     Publishing, Plain, Cleaning, RemovedBefore, Bare, Removed, Present, Absent, Whole, Torn,
     TypeOK, Cooking, Fixed, world, target, published, process
<1>10. CASE newer_rebuild
  BY <1>10 DEF newer_rebuild, Goto, Proper, Walk, Shape, Left, OverRoots, OverPackages, Making,
     Publishing, Plain, Cleaning, RemovedBefore, Bare, Removed, Present, Absent, Whole, Torn,
     TypeOK, Cooking, Fixed, world, target, published, process
<1>11. CASE remove_stage
  BY <1>11 DEF remove_stage, Proper, Walk, Shape, Left, OverRoots, OverPackages, Making,
     Publishing, Plain, Cleaning, RemovedBefore, Bare, Removed, Present, Absent, Whole, Torn,
     TypeOK, Cooking, Fixed, world, target, published, process
<1>12. CASE remove_pkgar
  BY <1>12 DEF remove_pkgar, Proper, Walk, Shape, Left, OverRoots, OverPackages, Making,
     Publishing, Plain, Cleaning, RemovedBefore, Bare, Removed, Present, Absent, Whole, Torn,
     TypeOK, Cooking, Fixed, world, target, published, process
<1>13. CASE remove_meta
  BY <1>13, RemovalPasses DEF remove_meta, Proper, Shape, OverRoots, OverPackages, Making,
     Publishing, Plain, Cleaning, RemovedBefore, Bare, Removed, Present, Absent, Whole, Torn,
     TypeOK, Cooking, Fixed, world, target, published, process
<1>14. CASE run_script
  BY <1>14 DEF run_script, Goto, Proper, Walk, Shape, Left, OverRoots, OverPackages, Making,
     Publishing, Plain, Cleaning, RemovedBefore, Bare, Removed, Present, Absent, Whole, Torn,
     TypeOK, Cooking, Fixed, world, target, published, process
<1>15. CASE tags_aside
  BY <1>15 DEF tags_aside, Goto, Proper, Walk, Shape, Left, OverRoots, OverPackages, Making,
     Publishing, Plain, Cleaning, RemovedBefore, Bare, Removed, Present, Absent, Whole, Torn,
     TypeOK, Cooking, Fixed, world, target, published, process
<1>16. CASE clean_dir
  BY <1>16 DEF clean_dir, Empty, Goto, Proper, Walk, Shape, Left, OverRoots, OverPackages,
     Making, Publishing, Plain, Cleaning, RemovedBefore, Bare, Removed, Present, Absent, Whole,
     Torn, TypeOK, Cooking, Fixed, world, target, published, process
<1>17. CASE tags_back
  BY <1>17 DEF tags_back, Goto, Proper, Walk, Shape, Left, OverRoots, OverPackages, Making,
     Publishing, Plain, Cleaning, RemovedBefore, Bare, Removed, Present, Absent, Whole, Torn,
     TypeOK, Cooking, Fixed, world, target, published, process
<1>18. CASE remote_cached
  BY <1>18 DEF remote_cached, Goto, Proper, Walk, Shape, Left, OverRoots, OverPackages, Making,
     Publishing, Plain, Cleaning, RemovedBefore, Bare, Removed, Present, Absent, Whole, Torn,
     TypeOK, Cooking, Fixed, world, target, published, process
<1>19. CASE remote_extract
  BY <1>19 DEF remote_extract, Goto, Proper, Walk, Shape, Left, OverRoots, OverPackages, Making,
     Publishing, Plain, Cleaning, RemovedBefore, Bare, Removed, Present, Absent, Whole, Torn,
     TypeOK, Cooking, Fixed, world, target, published, process
<1>20. CASE remote_forget
  BY <1>20 DEF remote_forget, Goto, Proper, Walk, Shape, Left, OverRoots, OverPackages, Making,
     Publishing, Plain, Cleaning, RemovedBefore, Bare, Removed, Present, Absent, Whole, Torn,
     TypeOK, Cooking, Fixed, world, target, published, process
<1>21. CASE write_auto_deps
  BY <1>21 DEF write_auto_deps, Goto, Proper, Walk, Shape, Left, OverRoots, OverPackages, Making,
     Publishing, Plain, Cleaning, RemovedBefore, Bare, Removed, Present, Absent, Whole, Torn,
     TypeOK, Cooking, Fixed, world, target, published, process
<1>22. CASE read_auto_deps
  BY <1>22 DEF read_auto_deps, Goto, Proper, Walk, Shape, Left, OverRoots, OverPackages, Making,
     Publishing, Plain, Cleaning, RemovedBefore, Bare, Removed, Present, Absent, Whole, Torn,
     TypeOK, Cooking, Fixed, world, target, published, process
<1>23. CASE drop_pkgar
  BY <1>23 DEF drop_pkgar, Goto, Proper, Walk, Shape, Left, OverRoots, OverPackages, Making,
     Publishing, Plain, Cleaning, RemovedBefore, Bare, Removed, Present, Absent, Whole, Torn,
     TypeOK, Cooking, Fixed, world, target, published, process
<1>24. CASE drop_meta
  BY <1>24 DEF drop_meta, Goto, Proper, Walk, Shape, Left, OverRoots, OverPackages, Making,
     Publishing, Plain, Cleaning, RemovedBefore, Bare, Removed, Present, Absent, Whole, Torn,
     TypeOK, Cooking, Fixed, world, target, published, process
<1>25. CASE keep_pkgar
  BY <1>25 DEF keep_pkgar, Goto, Proper, Walk, Shape, Left, OverRoots, OverPackages, Making,
     Publishing, Plain, Cleaning, RemovedBefore, Bare, Removed, Present, Absent, Whole, Torn,
     TypeOK, Cooking, Fixed, world, target, published, process
<1>26. CASE create_pkgar
  BY <1>26 DEF create_pkgar, Goto, Proper, Walk, Shape, Left, OverRoots, OverPackages, Making,
     Publishing, Plain, Cleaning, RemovedBefore, Bare, Removed, Present, Absent, Whole, Torn,
     TypeOK, Cooking, Fixed, world, target, published, process
<1>27. CASE keep_meta
  BY <1>27, MetaPasses DEF keep_meta, Proper, Shape, OverRoots, OverPackages, Making, Publishing,
     Plain, Cleaning, RemovedBefore, Bare, Removed, Present, Absent, Whole, Torn, TypeOK,
     Cooking, Fixed, world, target, published, process
<1>28. CASE write_meta
  BY <1>28, MetaPasses DEF write_meta, Proper, Shape, OverRoots, OverPackages, Making,
     Publishing, Plain, Cleaning, RemovedBefore, Bare, Removed, Present, Absent, Whole, Torn,
     TypeOK, Cooking, Fixed, world, target, published, process
<1>29. CASE clean_stage
  BY <1>29 DEF clean_stage, Goto, Proper, Walk, Shape, Left, OverRoots, OverPackages, Making,
     Publishing, Plain, Cleaning, RemovedBefore, Bare, Removed, Present, Absent, Whole, Torn,
     TypeOK, Cooking, Fixed, world, target, published, process
<1>30. CASE publish_pkgar
  BY <1>30 DEF publish_pkgar, Goto, Proper, Walk, Shape, Left, OverRoots, OverPackages, Making,
     Publishing, Plain, Cleaning, RemovedBefore, Bare, Removed, Present, Absent, Whole, Torn,
     TypeOK, Cooking, Fixed, world, target, published, process
<1>31. CASE publish_toml
  BY <1>31, PublishedPasses DEF publish_toml, Proper, Shape, OverRoots, OverPackages, Making,
     Publishing, Plain, Cleaning, RemovedBefore, Bare, Removed, Present, Absent, Whole, Torn,
     TypeOK, Cooking, Fixed, world, target, published, process
<1>32. CASE nothing_to_publish
  BY <1>32, PublishedPasses DEF nothing_to_publish, Proper, Shape, OverRoots, OverPackages,
     Making, Publishing, Plain, Cleaning, RemovedBefore, Bare, Removed, Present, Absent, Whole,
     Torn, TypeOK, Cooking, Fixed, world, target, published, process
<1>33. CASE tear_in_removal
  BY <1>33 DEF tear_in_removal, torn, Fails, Goto, Fault, Installing, Proper, Walk, Shape, Left,
     OverRoots, OverPackages, Making, Publishing, Plain, Cleaning, RemovedBefore, Bare, Removed,
     Present, Absent, Whole, Torn, TypeOK, Cooking, Fixed, world, target, published, process
<1>34. CASE tear_in_auto_deps
  BY <1>34 DEF tear_in_auto_deps, torn, Fails, Goto, Fault, Proper, Walk, Shape, Left, OverRoots,
     OverPackages, Making, Publishing, Plain, Cleaning, RemovedBefore, Bare, Removed, Present,
     Absent, Whole, Torn, TypeOK, Cooking, Fixed, world, target, published, process
<1>35. CASE tear_in_pkgar
  BY <1>35 DEF tear_in_pkgar, torn, Fails, Goto, Fault, Proper, Walk, Shape, Left, OverRoots,
     OverPackages, Making, Publishing, Plain, Cleaning, RemovedBefore, Bare, Removed, Present,
     Absent, Whole, Torn, TypeOK, Cooking, Fixed, world, target, published, process
<1>36. CASE tear_in_meta
  BY <1>36 DEF tear_in_meta, torn, Fails, Goto, Fault, Proper, Walk, Shape, Left, OverRoots,
     OverPackages, Making, Publishing, Plain, Cleaning, RemovedBefore, Bare, Removed, Present,
     Absent, Whole, Torn, TypeOK, Cooking, Fixed, world, target, published, process
<1>37. CASE tear_in_publish
  BY <1>37 DEF tear_in_publish, torn, Fails, Goto, Fault, Proper, Walk, Shape, Left, OverRoots,
     OverPackages, Making, Publishing, Plain, Cleaning, RemovedBefore, Bare, Removed, Present,
     Absent, Whole, Torn, TypeOK, Cooking, Fixed, world, target, published, process
<1> QED
  BY <1>1, <1>2, <1>3, <1>4, <1>5, <1>6, <1>7, <1>8, <1>9, <1>10, <1>11, <1>12, <1>13, <1>14,
     <1>15, <1>16, <1>17, <1>18, <1>19, <1>20, <1>21, <1>22, <1>23, <1>24, <1>25, <1>26, <1>27,
     <1>28, <1>29, <1>30, <1>31, <1>32, <1>33, <1>34, <1>35, <1>36, <1>37 DEF Act

\* Nothing is torn where nothing tears.
LEMMA UntornStep ==
  ASSUME Proper, Proper', Fixed, Act, NothingTorn, StageIsMade
  PROVE  NothingTorn'
<1>1. CASE Aborted
  BY <1>1 DEF Aborted, Proper, NothingTorn, Untorn, Shape, Making, Cleaning, Absent, Torn, Whole,
     StageIsMade, Staged, TypeOK, Walk, Fixed, world, target, published, process
<1>2. CASE edit_source
  BY <1>2 DEF edit_source, Proper, NothingTorn, Untorn, Shape, Making, Cleaning, Absent, Torn,
     Whole, StageIsMade, Staged, TypeOK, Walk, Fixed, world, target, published, process
<1>3. CASE \E r \in Root : update_dependency(r)
  <2>1. PICK r \in Root : update_dependency(r)
    BY <1>3
  <2> QED
    BY <2>1 DEF update_dependency, Fixed, world, target, published, process, Proper, NothingTorn,
       Untorn, Shape, Making, Cleaning, Absent, Torn, Whole, StageIsMade, Staged, TypeOK, Walk
<1>4. CASE begin
  <2>1. PICK clean \in setup.clean, is_deps \in setup.as_deps : handle_cook(clean, is_deps)
    BY <1>4 DEF begin
  <2> QED
    BY <2>1 DEF handle_cook, Goto, Proper, NothingTorn, Untorn, Shape, Making, Cleaning, Absent,
       Torn, Whole, StageIsMade, Staged, TypeOK, Walk, Fixed, world, target, published, process
<1>5. CASE deps_cached
  BY <1>5, CachedPasses DEF deps_cached, Proper, NothingTorn, Untorn, Shape, Making, Cleaning,
     Absent, Torn, Whole, StageIsMade, Staged, TypeOK, Fixed, world, target, published, process
<1>6. CASE deps_kept
  BY <1>6, KeptPasses DEF deps_kept, Proper, NothingTorn, Untorn, Shape, Making, Cleaning,
     Absent, Torn, Whole, StageIsMade, Staged, TypeOK, Fixed, world, target, published, process
<1>7. CASE deps_remove
  BY <1>7 DEF deps_remove, Installing, NoDir, Empty, Proper, NothingTorn, Untorn, Shape, Making,
     Cleaning, Absent, Torn, Whole, StageIsMade, Staged, TypeOK, Walk, Fixed, world, target,
     published, process
<1>8. CASE deps_install
  BY <1>8 DEF deps_install, Installing, Next_, Goto, Proper, NothingTorn, Untorn, Shape, Making,
     Cleaning, Absent, Torn, Whole, StageIsMade, Staged, TypeOK, Walk, Fixed, world, target,
     published, process
<1>9. CASE newer_cached
  BY <1>9 DEF newer_cached, Goto, Proper, NothingTorn, Untorn, Shape, Making, Cleaning, Absent,
     Torn, Whole, StageIsMade, Staged, TypeOK, Walk, Fixed, world, target, published, process
<1>10. CASE newer_rebuild
  BY <1>10 DEF newer_rebuild, Goto, Proper, NothingTorn, Untorn, Shape, Making, Cleaning, Absent,
     Torn, Whole, StageIsMade, Staged, TypeOK, Walk, Fixed, world, target, published, process
<1>11. CASE remove_stage
  BY <1>11 DEF remove_stage, Proper, NothingTorn, Untorn, Shape, Making, Cleaning, Absent, Torn,
     Whole, StageIsMade, Staged, TypeOK, Walk, Fixed, world, target, published, process
<1>12. CASE remove_pkgar
  BY <1>12 DEF remove_pkgar, Proper, NothingTorn, Untorn, Shape, Making, Cleaning, Absent, Torn,
     Whole, StageIsMade, Staged, TypeOK, Walk, Fixed, world, target, published, process
<1>13. CASE remove_meta
  BY <1>13, RemovalPasses DEF remove_meta, Proper, NothingTorn, Untorn, Shape, Making, Cleaning,
     Absent, Torn, Whole, StageIsMade, Staged, TypeOK, Fixed, world, target, published, process
<1>14. CASE run_script
  BY <1>14 DEF run_script, Goto, Proper, NothingTorn, Untorn, Shape, Making, Cleaning, Absent,
     Torn, Whole, StageIsMade, Staged, TypeOK, Walk, Fixed, world, target, published, process
<1>15. CASE tags_aside
  BY <1>15 DEF tags_aside, Goto, Proper, NothingTorn, Untorn, Shape, Making, Cleaning, Absent,
     Torn, Whole, StageIsMade, Staged, TypeOK, Walk, Fixed, world, target, published, process
<1>16. CASE clean_dir
  BY <1>16 DEF clean_dir, Empty, Goto, Proper, NothingTorn, Untorn, Shape, Making, Cleaning,
     Absent, Torn, Whole, StageIsMade, Staged, TypeOK, Walk, Fixed, world, target, published,
     process
<1>17. CASE tags_back
  BY <1>17 DEF tags_back, Goto, Proper, NothingTorn, Untorn, Shape, Making, Cleaning, Absent,
     Torn, Whole, StageIsMade, Staged, TypeOK, Walk, Fixed, world, target, published, process
<1>18. CASE remote_cached
  BY <1>18 DEF remote_cached, Goto, Proper, NothingTorn, Untorn, Shape, Making, Cleaning, Absent,
     Torn, Whole, StageIsMade, Staged, TypeOK, Walk, Fixed, world, target, published, process
<1>19. CASE remote_extract
  BY <1>19 DEF remote_extract, Goto, Proper, NothingTorn, Untorn, Shape, Making, Cleaning,
     Absent, Torn, Whole, StageIsMade, Staged, TypeOK, Walk, Fixed, world, target, published,
     process
<1>20. CASE remote_forget
  BY <1>20 DEF remote_forget, Goto, Proper, NothingTorn, Untorn, Shape, Making, Cleaning, Absent,
     Torn, Whole, StageIsMade, Staged, TypeOK, Walk, Fixed, world, target, published, process
<1>21. CASE write_auto_deps
  BY <1>21 DEF write_auto_deps, Goto, Proper, NothingTorn, Untorn, Shape, Making, Cleaning,
     Absent, Torn, Whole, StageIsMade, Staged, TypeOK, Walk, Fixed, world, target, published,
     process
<1>22. CASE read_auto_deps
  BY <1>22 DEF read_auto_deps, Goto, Proper, NothingTorn, Untorn, Shape, Making, Cleaning,
     Absent, Torn, Whole, StageIsMade, Staged, TypeOK, Walk, Fixed, world, target, published,
     process
<1>23. CASE drop_pkgar
  BY <1>23 DEF drop_pkgar, Goto, Proper, NothingTorn, Untorn, Shape, Making, Cleaning, Absent,
     Torn, Whole, StageIsMade, Staged, TypeOK, Walk, Fixed, world, target, published, process
<1>24. CASE drop_meta
  BY <1>24 DEF drop_meta, Goto, Proper, NothingTorn, Untorn, Shape, Making, Cleaning, Absent,
     Torn, Whole, StageIsMade, Staged, TypeOK, Walk, Fixed, world, target, published, process
<1>25. CASE keep_pkgar
  BY <1>25 DEF keep_pkgar, Goto, Proper, NothingTorn, Untorn, Shape, Making, Cleaning, Absent,
     Torn, Whole, StageIsMade, Staged, TypeOK, Walk, Fixed, world, target, published, process
<1>26. CASE create_pkgar
  BY <1>26 DEF create_pkgar, Goto, Proper, NothingTorn, Untorn, Shape, Making, Cleaning, Absent,
     Torn, Whole, StageIsMade, Staged, TypeOK, Walk, Fixed, world, target, published, process
<1>27. CASE keep_meta
  BY <1>27, MetaPasses DEF keep_meta, Proper, NothingTorn, Untorn, Shape, Making, Cleaning,
     Absent, Torn, Whole, StageIsMade, Staged, TypeOK, Fixed, world, target, published, process
<1>28. CASE write_meta
  BY <1>28, MetaPasses DEF write_meta, Proper, NothingTorn, Untorn, Shape, Making, Cleaning,
     Absent, Torn, Whole, StageIsMade, Staged, TypeOK, Fixed, world, target, published, process
<1>29. CASE clean_stage
  BY <1>29 DEF clean_stage, Goto, Proper, NothingTorn, Untorn, Shape, Making, Cleaning, Absent,
     Torn, Whole, StageIsMade, Staged, TypeOK, Walk, Fixed, world, target, published, process
<1>30. CASE publish_pkgar
  BY <1>30 DEF publish_pkgar, Goto, Proper, NothingTorn, Untorn, Shape, Making, Cleaning, Absent,
     Torn, Whole, StageIsMade, Staged, TypeOK, Walk, Fixed, world, target, published, process
<1>31. CASE publish_toml
  BY <1>31, PublishedPasses DEF publish_toml, Proper, NothingTorn, Untorn, Shape, Making,
     Cleaning, Absent, Torn, Whole, StageIsMade, Staged, TypeOK, Fixed, world, target, published,
     process
<1>32. CASE nothing_to_publish
  BY <1>32, PublishedPasses DEF nothing_to_publish, Proper, NothingTorn, Untorn, Shape, Making,
     Cleaning, Absent, Torn, Whole, StageIsMade, Staged, TypeOK, Fixed, world, target, published,
     process
<1>33. CASE tear_in_removal
  BY <1>33 DEF tear_in_removal, torn, Fails, Goto, Fault, Installing, Proper, NothingTorn,
     Untorn, Shape, Making, Cleaning, Absent, Torn, Whole, StageIsMade, Staged, TypeOK, Walk,
     Fixed, world, target, published, process
<1>34. CASE tear_in_auto_deps
  BY <1>34 DEF tear_in_auto_deps, torn, Fails, Goto, Fault, Proper, NothingTorn, Untorn, Shape,
     Making, Cleaning, Absent, Torn, Whole, StageIsMade, Staged, TypeOK, Walk, Fixed, world,
     target, published, process
<1>35. CASE tear_in_pkgar
  BY <1>35 DEF tear_in_pkgar, torn, Fails, Goto, Fault, Proper, NothingTorn, Untorn, Shape,
     Making, Cleaning, Absent, Torn, Whole, StageIsMade, Staged, TypeOK, Walk, Fixed, world,
     target, published, process
<1>36. CASE tear_in_meta
  BY <1>36 DEF tear_in_meta, torn, Fails, Goto, Fault, Proper, NothingTorn, Untorn, Shape,
     Making, Cleaning, Absent, Torn, Whole, StageIsMade, Staged, TypeOK, Walk, Fixed, world,
     target, published, process
<1>37. CASE tear_in_publish
  BY <1>37 DEF tear_in_publish, torn, Fails, Goto, Fault, Proper, NothingTorn, Untorn, Shape,
     Making, Cleaning, Absent, Torn, Whole, StageIsMade, Staged, TypeOK, Walk, Fixed, world,
     target, published, process
<1> QED
  BY <1>1, <1>2, <1>3, <1>4, <1>5, <1>6, <1>7, <1>8, <1>9, <1>10, <1>11, <1>12, <1>13, <1>14,
     <1>15, <1>16, <1>17, <1>18, <1>19, <1>20, <1>21, <1>22, <1>23, <1>24, <1>25, <1>26, <1>27,
     <1>28, <1>29, <1>30, <1>31, <1>32, <1>33, <1>34, <1>35, <1>36, <1>37 DEF Act

\* The stage is the one this cook has made.
LEMMA StageStep ==
  ASSUME Proper, Proper', Fixed, Act, StageIsMade
  PROVE  StageIsMade'
<1>1. CASE Aborted
  BY <1>1 DEF Aborted, Proper, Shape, StageIsMade, Staged, NoEdit, Making, Cleaning, Whole,
     Absent, TypeOK, Cooking, OverPackages, OverRoots, Plain, Publishing, Fixed, world, target,
     published, process
<1>2. CASE edit_source
  BY <1>2 DEF edit_source, Proper, Shape, StageIsMade, Staged, NoEdit, Making, Cleaning, Whole,
     Absent, TypeOK, Cooking, OverPackages, OverRoots, Plain, Publishing, Fixed, world, target,
     published, process
<1>3. CASE \E r \in Root : update_dependency(r)
  <2>1. PICK r \in Root : update_dependency(r)
    BY <1>3
  <2> QED
    BY <2>1 DEF update_dependency, Fixed, world, target, published, process, Proper, Shape,
       StageIsMade, Staged, NoEdit, Making, Cleaning, Whole, Absent, TypeOK, Cooking,
       OverPackages, OverRoots, Plain, Publishing
<1>4. CASE begin
  <2>1. PICK clean \in setup.clean, is_deps \in setup.as_deps : handle_cook(clean, is_deps)
    BY <1>4 DEF begin
  <2> QED
    BY <2>1 DEF handle_cook, Goto, Proper, Shape, StageIsMade, Staged, NoEdit, Making, Cleaning,
       Whole, Absent, TypeOK, Cooking, OverPackages, OverRoots, Plain, Publishing, Fixed, world,
       target, published, process
<1>5. CASE deps_cached
  BY <1>5, CachedPasses DEF deps_cached, Proper, Shape, StageIsMade, Staged, NoEdit, Making,
     Cleaning, Whole, Absent, TypeOK, Cooking, OverPackages, OverRoots, Plain, Publishing, Fixed,
     world, target, published, process
<1>6. CASE deps_kept
  BY <1>6, KeptPasses DEF deps_kept, Proper, Shape, StageIsMade, Staged, NoEdit, Making,
     Cleaning, Whole, Absent, TypeOK, Cooking, OverPackages, OverRoots, Plain, Publishing, Fixed,
     world, target, published, process
<1>7. CASE deps_remove
  BY <1>7 DEF deps_remove, Installing, NoDir, Empty, Proper, Shape, StageIsMade, Staged, NoEdit,
     Making, Cleaning, Whole, Absent, TypeOK, Cooking, OverPackages, OverRoots, Plain,
     Publishing, Fixed, world, target, published, process
<1>8. CASE deps_install
  BY <1>8 DEF deps_install, Installing, Next_, Goto, Proper, Shape, StageIsMade, Staged, NoEdit,
     Making, Cleaning, Whole, Absent, TypeOK, Cooking, OverPackages, OverRoots, Plain,
     Publishing, Fixed, world, target, published, process
<1>9. CASE newer_cached
  BY <1>9 DEF newer_cached, Goto, Proper, Shape, StageIsMade, Staged, NoEdit, Making, Cleaning,
     Whole, Absent, TypeOK, Cooking, OverPackages, OverRoots, Plain, Publishing, Fixed, world,
     target, published, process
<1>10. CASE newer_rebuild
  BY <1>10 DEF newer_rebuild, Goto, Proper, Shape, StageIsMade, Staged, NoEdit, Making, Cleaning,
     Whole, Absent, TypeOK, Cooking, OverPackages, OverRoots, Plain, Publishing, Fixed, world,
     target, published, process
<1>11. CASE remove_stage
  BY <1>11 DEF remove_stage, Proper, Shape, StageIsMade, Staged, NoEdit, Making, Cleaning, Whole,
     Absent, TypeOK, Cooking, OverPackages, OverRoots, Plain, Publishing, Fixed, world, target,
     published, process
<1>12. CASE remove_pkgar
  BY <1>12 DEF remove_pkgar, Proper, Shape, StageIsMade, Staged, NoEdit, Making, Cleaning, Whole,
     Absent, TypeOK, Cooking, OverPackages, OverRoots, Plain, Publishing, Fixed, world, target,
     published, process
<1>13. CASE remove_meta
  BY <1>13, RemovalPasses DEF remove_meta, Proper, Shape, StageIsMade, Staged, NoEdit, Making,
     Cleaning, Whole, Absent, TypeOK, Cooking, OverPackages, OverRoots, Plain, Publishing, Fixed,
     world, target, published, process
<1>14. CASE run_script
  BY <1>14 DEF run_script, Goto, Proper, Shape, StageIsMade, Staged, NoEdit, Making, Cleaning,
     Whole, Absent, TypeOK, Cooking, OverPackages, OverRoots, Plain, Publishing, Fixed, world,
     target, published, process
<1>15. CASE tags_aside
  BY <1>15 DEF tags_aside, Goto, Proper, Shape, StageIsMade, Staged, NoEdit, Making, Cleaning,
     Whole, Absent, TypeOK, Cooking, OverPackages, OverRoots, Plain, Publishing, Fixed, world,
     target, published, process
<1>16. CASE clean_dir
  BY <1>16 DEF clean_dir, Empty, Goto, Proper, Shape, StageIsMade, Staged, NoEdit, Making,
     Cleaning, Whole, Absent, TypeOK, Cooking, OverPackages, OverRoots, Plain, Publishing, Fixed,
     world, target, published, process
<1>17. CASE tags_back
  BY <1>17 DEF tags_back, Goto, Proper, Shape, StageIsMade, Staged, NoEdit, Making, Cleaning,
     Whole, Absent, TypeOK, Cooking, OverPackages, OverRoots, Plain, Publishing, Fixed, world,
     target, published, process
<1>18. CASE remote_cached
  BY <1>18 DEF remote_cached, Goto, Proper, Shape, StageIsMade, Staged, NoEdit, Making, Cleaning,
     Whole, Absent, TypeOK, Cooking, OverPackages, OverRoots, Plain, Publishing, Fixed, world,
     target, published, process
<1>19. CASE remote_extract
  BY <1>19 DEF remote_extract, Goto, Proper, Shape, StageIsMade, Staged, NoEdit, Making,
     Cleaning, Whole, Absent, TypeOK, Cooking, OverPackages, OverRoots, Plain, Publishing, Fixed,
     world, target, published, process
<1>20. CASE remote_forget
  BY <1>20 DEF remote_forget, Goto, Proper, Shape, StageIsMade, Staged, NoEdit, Making, Cleaning,
     Whole, Absent, TypeOK, Cooking, OverPackages, OverRoots, Plain, Publishing, Fixed, world,
     target, published, process
<1>21. CASE write_auto_deps
  BY <1>21 DEF write_auto_deps, Goto, Proper, Shape, StageIsMade, Staged, NoEdit, Making,
     Cleaning, Whole, Absent, TypeOK, Cooking, OverPackages, OverRoots, Plain, Publishing, Fixed,
     world, target, published, process
<1>22. CASE read_auto_deps
  BY <1>22 DEF read_auto_deps, Goto, Proper, Shape, StageIsMade, Staged, NoEdit, Making,
     Cleaning, Whole, Absent, TypeOK, Cooking, OverPackages, OverRoots, Plain, Publishing, Fixed,
     world, target, published, process
<1>23. CASE drop_pkgar
  BY <1>23 DEF drop_pkgar, Goto, Proper, Shape, StageIsMade, Staged, NoEdit, Making, Cleaning,
     Whole, Absent, TypeOK, Cooking, OverPackages, OverRoots, Plain, Publishing, Fixed, world,
     target, published, process
<1>24. CASE drop_meta
  BY <1>24 DEF drop_meta, Goto, Proper, Shape, StageIsMade, Staged, NoEdit, Making, Cleaning,
     Whole, Absent, TypeOK, Cooking, OverPackages, OverRoots, Plain, Publishing, Fixed, world,
     target, published, process
<1>25. CASE keep_pkgar
  BY <1>25 DEF keep_pkgar, Goto, Proper, Shape, StageIsMade, Staged, NoEdit, Making, Cleaning,
     Whole, Absent, TypeOK, Cooking, OverPackages, OverRoots, Plain, Publishing, Fixed, world,
     target, published, process
<1>26. CASE create_pkgar
  BY <1>26 DEF create_pkgar, Goto, Proper, Shape, StageIsMade, Staged, NoEdit, Making, Cleaning,
     Whole, Absent, TypeOK, Cooking, OverPackages, OverRoots, Plain, Publishing, Fixed, world,
     target, published, process
<1>27. CASE keep_meta
  BY <1>27, MetaPasses DEF keep_meta, Proper, Shape, StageIsMade, Staged, NoEdit, Making,
     Cleaning, Whole, Absent, TypeOK, Cooking, OverPackages, OverRoots, Plain, Publishing, Fixed,
     world, target, published, process
<1>28. CASE write_meta
  BY <1>28, MetaPasses DEF write_meta, Proper, Shape, StageIsMade, Staged, NoEdit, Making,
     Cleaning, Whole, Absent, TypeOK, Cooking, OverPackages, OverRoots, Plain, Publishing, Fixed,
     world, target, published, process
<1>29. CASE clean_stage
  BY <1>29 DEF clean_stage, Goto, Proper, Shape, StageIsMade, Staged, NoEdit, Making, Cleaning,
     Whole, Absent, TypeOK, Cooking, OverPackages, OverRoots, Plain, Publishing, Fixed, world,
     target, published, process
<1>30. CASE publish_pkgar
  BY <1>30 DEF publish_pkgar, Goto, Proper, Shape, StageIsMade, Staged, NoEdit, Making, Cleaning,
     Whole, Absent, TypeOK, Cooking, OverPackages, OverRoots, Plain, Publishing, Fixed, world,
     target, published, process
<1>31. CASE publish_toml
  BY <1>31, PublishedPasses DEF publish_toml, Proper, Shape, StageIsMade, Staged, NoEdit, Making,
     Cleaning, Whole, Absent, TypeOK, Cooking, OverPackages, OverRoots, Plain, Publishing, Fixed,
     world, target, published, process
<1>32. CASE nothing_to_publish
  BY <1>32, PublishedPasses DEF nothing_to_publish, Proper, Shape, StageIsMade, Staged, NoEdit,
     Making, Cleaning, Whole, Absent, TypeOK, Cooking, OverPackages, OverRoots, Plain,
     Publishing, Fixed, world, target, published, process
<1>33. CASE tear_in_removal
  BY <1>33 DEF tear_in_removal, torn, Fails, Goto, Fault, Installing, Proper, Shape, StageIsMade,
     Staged, NoEdit, Making, Cleaning, Whole, Absent, TypeOK, Cooking, OverPackages, OverRoots,
     Plain, Publishing, Fixed, world, target, published, process
<1>34. CASE tear_in_auto_deps
  BY <1>34 DEF tear_in_auto_deps, torn, Fails, Goto, Fault, Proper, Shape, StageIsMade, Staged,
     NoEdit, Making, Cleaning, Whole, Absent, TypeOK, Cooking, OverPackages, OverRoots, Plain,
     Publishing, Fixed, world, target, published, process
<1>35. CASE tear_in_pkgar
  BY <1>35 DEF tear_in_pkgar, torn, Fails, Goto, Fault, Proper, Shape, StageIsMade, Staged,
     NoEdit, Making, Cleaning, Whole, Absent, TypeOK, Cooking, OverPackages, OverRoots, Plain,
     Publishing, Fixed, world, target, published, process
<1>36. CASE tear_in_meta
  BY <1>36 DEF tear_in_meta, torn, Fails, Goto, Fault, Proper, Shape, StageIsMade, Staged,
     NoEdit, Making, Cleaning, Whole, Absent, TypeOK, Cooking, OverPackages, OverRoots, Plain,
     Publishing, Fixed, world, target, published, process
<1>37. CASE tear_in_publish
  BY <1>37 DEF tear_in_publish, torn, Fails, Goto, Fault, Proper, Shape, StageIsMade, Staged,
     NoEdit, Making, Cleaning, Whole, Absent, TypeOK, Cooking, OverPackages, OverRoots, Plain,
     Publishing, Fixed, world, target, published, process
<1> QED
  BY <1>1, <1>2, <1>3, <1>4, <1>5, <1>6, <1>7, <1>8, <1>9, <1>10, <1>11, <1>12, <1>13, <1>14,
     <1>15, <1>16, <1>17, <1>18, <1>19, <1>20, <1>21, <1>22, <1>23, <1>24, <1>25, <1>26, <1>27,
     <1>28, <1>29, <1>30, <1>31, <1>32, <1>33, <1>34, <1>35, <1>36, <1>37 DEF Act

\* A metadata file describes the pkgar beside it.
LEMMA MetadataStep ==
  ASSUME Proper, Proper', Fixed, Act, MetadataFits, RemovedBefore, RemovedBefore', StageIsMade
  PROVE  MetadataFits'
<1>1. CASE Aborted
  BY <1>1 DEF Aborted, RemovedBefore, Proper, Walk, Shape, Left, OverRoots, OverPackages, Making,
     Publishing, Plain, Cleaning, MetadataFits, Fits, Ordered, Removed, Bare, Present, Absent,
     Torn, Whole, TypeOK, Cooking, AllPackaged, Fixed, world, target, published, process
<1>2. CASE edit_source
  BY <1>2 DEF edit_source, Proper, Walk, Shape, Left, OverRoots, OverPackages, Making,
     Publishing, Plain, Cleaning, MetadataFits, Fits, Ordered, Removed, Bare, Present, Absent,
     Torn, Whole, TypeOK, Cooking, AllPackaged, Fixed, world, target, published, process
<1>3. CASE \E r \in Root : update_dependency(r)
  <2>1. PICK r \in Root : update_dependency(r)
    BY <1>3
  <2> QED
    BY <2>1 DEF update_dependency, Fixed, world, target, published, process, Proper, Walk, Shape,
       Left, OverRoots, OverPackages, Making, Publishing, Plain, Cleaning, MetadataFits, Fits,
       Ordered, Removed, Bare, Present, Absent, Torn, Whole, TypeOK, Cooking, AllPackaged
<1>4. CASE begin
  <2>1. PICK clean \in setup.clean, is_deps \in setup.as_deps : handle_cook(clean, is_deps)
    BY <1>4 DEF begin
  <2> QED
    BY <2>1 DEF handle_cook, Goto, Proper, Walk, Shape, Left, OverRoots, OverPackages, Making,
       Publishing, Plain, Cleaning, MetadataFits, Fits, Ordered, Removed, Bare, Present, Absent,
       Torn, Whole, TypeOK, Cooking, AllPackaged, Fixed, world, target, published, process
<1>5. CASE deps_cached
  BY <1>5, CachedPasses DEF deps_cached, Proper, Shape, OverRoots, OverPackages, Making,
     Publishing, Plain, Cleaning, MetadataFits, Fits, Ordered, Removed, Bare, Present, Absent,
     Torn, Whole, TypeOK, Cooking, AllPackaged, Fixed, world, target, published, process
<1>6. CASE deps_kept
  BY <1>6, KeptPasses DEF deps_kept, Proper, Shape, OverRoots, OverPackages, Making, Publishing,
     Plain, Cleaning, MetadataFits, Fits, Ordered, Removed, Bare, Present, Absent, Torn, Whole,
     TypeOK, Cooking, AllPackaged, Fixed, world, target, published, process
<1>7. CASE deps_remove
  BY <1>7 DEF deps_remove, Installing, NoDir, Empty, Proper, Walk, Shape, Left, OverRoots,
     OverPackages, Making, Publishing, Plain, Cleaning, MetadataFits, Fits, Ordered, Removed,
     Bare, Present, Absent, Torn, Whole, TypeOK, Cooking, AllPackaged, Fixed, world, target,
     published, process
<1>8. CASE deps_install
  BY <1>8 DEF deps_install, Installing, Next_, Goto, Proper, Walk, Shape, Left, OverRoots,
     OverPackages, Making, Publishing, Plain, Cleaning, MetadataFits, Fits, Ordered, Removed,
     Bare, Present, Absent, Torn, Whole, TypeOK, Cooking, AllPackaged, Fixed, world, target,
     published, process
<1>9. CASE newer_cached
  BY <1>9 DEF newer_cached, Goto, Proper, Walk, Shape, Left, OverRoots, OverPackages, Making,
     Publishing, Plain, Cleaning, MetadataFits, Fits, Ordered, Removed, Bare, Present, Absent,
     Torn, Whole, TypeOK, Cooking, AllPackaged, Fixed, world, target, published, process
<1>10. CASE newer_rebuild
  BY <1>10 DEF newer_rebuild, Goto, RemovedBefore, Proper, Walk, Shape, Left, OverRoots,
     OverPackages, Making, Publishing, Plain, Cleaning, MetadataFits, Fits, Ordered, Removed,
     Bare, Present, Absent, Torn, Whole, TypeOK, Cooking, AllPackaged, Fixed, world, target,
     published, process
<1>11. CASE remove_stage
  BY <1>11 DEF remove_stage, Proper, Walk, Shape, Left, OverRoots, OverPackages, Making,
     Publishing, Plain, Cleaning, MetadataFits, Fits, Ordered, Removed, Bare, Present, Absent,
     Torn, Whole, TypeOK, Cooking, AllPackaged, Fixed, world, target, published, process
<1>12. CASE remove_pkgar
  BY <1>12 DEF remove_pkgar, RemovedBefore, Proper, Walk, Shape, Left, OverRoots, OverPackages,
     Making, Publishing, Plain, Cleaning, MetadataFits, Fits, Ordered, Removed, Bare, Present,
     Absent, Torn, Whole, TypeOK, Cooking, AllPackaged, Fixed, world, target, published, process
<1>13. CASE remove_meta
  BY <1>13, RemovalPasses DEF remove_meta, RemovedBefore, Proper, Shape, OverRoots, OverPackages,
     Making, Publishing, Plain, Cleaning, MetadataFits, Fits, Ordered, Removed, Bare, Present,
     Absent, Torn, Whole, TypeOK, Cooking, AllPackaged, Fixed, world, target, published, process
<1>14. CASE run_script
  BY <1>14 DEF run_script, Goto, Proper, Walk, Shape, Left, OverRoots, OverPackages, Making,
     Publishing, Plain, Cleaning, MetadataFits, Fits, Ordered, Removed, Bare, Present, Absent,
     Torn, Whole, TypeOK, Cooking, AllPackaged, Fixed, world, target, published, process
<1>15. CASE tags_aside
  BY <1>15 DEF tags_aside, Goto, Proper, Walk, Shape, Left, OverRoots, OverPackages, Making,
     Publishing, Plain, Cleaning, MetadataFits, Fits, Ordered, Removed, Bare, Present, Absent,
     Torn, Whole, TypeOK, Cooking, AllPackaged, Fixed, world, target, published, process
<1>16. CASE clean_dir
  BY <1>16 DEF clean_dir, Empty, Goto, Proper, Walk, Shape, Left, OverRoots, OverPackages,
     Making, Publishing, Plain, Cleaning, MetadataFits, Fits, Ordered, Removed, Bare, Present,
     Absent, Torn, Whole, TypeOK, Cooking, AllPackaged, Fixed, world, target, published, process
<1>17. CASE tags_back
  BY <1>17 DEF tags_back, Goto, Proper, Walk, Shape, Left, OverRoots, OverPackages, Making,
     Publishing, Plain, Cleaning, MetadataFits, Fits, Ordered, Removed, Bare, Present, Absent,
     Torn, Whole, TypeOK, Cooking, AllPackaged, Fixed, world, target, published, process
<1>18. CASE remote_cached
  BY <1>18 DEF remote_cached, Goto, Proper, Walk, Shape, Left, OverRoots, OverPackages, Making,
     Publishing, Plain, Cleaning, MetadataFits, Fits, Ordered, Removed, Bare, Present, Absent,
     Torn, Whole, TypeOK, Cooking, AllPackaged, Fixed, world, target, published, process
<1>19. CASE remote_extract
  BY <1>19 DEF remote_extract, Goto, Proper, Walk, Shape, Left, OverRoots, OverPackages, Making,
     Publishing, Plain, Cleaning, MetadataFits, Fits, Ordered, Removed, Bare, Present, Absent,
     Torn, Whole, TypeOK, Cooking, AllPackaged, Fixed, world, target, published, process
<1>20. CASE remote_forget
  BY <1>20 DEF remote_forget, Goto, Proper, Walk, Shape, Left, OverRoots, OverPackages, Making,
     Publishing, Plain, Cleaning, MetadataFits, Fits, Ordered, Removed, Bare, Present, Absent,
     Torn, Whole, TypeOK, Cooking, AllPackaged, Fixed, world, target, published, process
<1>21. CASE write_auto_deps
  BY <1>21 DEF write_auto_deps, Goto, Proper, Walk, Shape, Left, OverRoots, OverPackages, Making,
     Publishing, Plain, Cleaning, MetadataFits, Fits, Ordered, Removed, Bare, Present, Absent,
     Torn, Whole, TypeOK, Cooking, AllPackaged, Fixed, world, target, published, process
<1>22. CASE read_auto_deps
  BY <1>22 DEF read_auto_deps, Goto, Proper, Walk, Shape, Left, OverRoots, OverPackages, Making,
     Publishing, Plain, Cleaning, MetadataFits, Fits, Ordered, Removed, Bare, Present, Absent,
     Torn, Whole, TypeOK, Cooking, AllPackaged, Fixed, world, target, published, process
<1>23. CASE drop_pkgar
  BY <1>23 DEF drop_pkgar, Goto, Proper, Walk, Shape, Left, OverRoots, OverPackages, Making,
     Publishing, Plain, Cleaning, MetadataFits, Fits, Ordered, Removed, Bare, Present, Absent,
     Torn, Whole, TypeOK, Cooking, AllPackaged, Fixed, world, target, published, process
<1>24. CASE drop_meta
  BY <1>24 DEF drop_meta, Goto, Proper, Walk, Shape, Left, OverRoots, OverPackages, Making,
     Publishing, Plain, Cleaning, MetadataFits, Fits, Ordered, Removed, Bare, Present, Absent,
     Torn, Whole, TypeOK, Cooking, AllPackaged, Fixed, world, target, published, process
<1>25. CASE keep_pkgar
  BY <1>25 DEF keep_pkgar, Goto, Proper, Walk, Shape, Left, OverRoots, OverPackages, Making,
     Publishing, Plain, Cleaning, MetadataFits, Fits, Ordered, Removed, Bare, Present, Absent,
     Torn, Whole, TypeOK, Cooking, AllPackaged, Fixed, world, target, published, process
<1>26. CASE create_pkgar
  BY <1>26 DEF create_pkgar, Goto, Proper, Walk, Shape, Left, OverRoots, OverPackages, Making,
     Publishing, Plain, Cleaning, MetadataFits, Fits, Ordered, Removed, Bare, Present, Absent,
     Torn, Whole, TypeOK, Cooking, AllPackaged, Fixed, world, target, published, process
<1>27. CASE keep_meta
  BY <1>27, MetaPasses DEF keep_meta, Proper, Shape, OverRoots, OverPackages, Making, Publishing,
     Plain, Cleaning, MetadataFits, Fits, Ordered, Removed, Bare, Present, Absent, Torn, Whole,
     TypeOK, Cooking, AllPackaged, Fixed, world, target, published, process
<1>28. CASE write_meta
  BY <1>28, MetaPasses DEF write_meta, Proper, Shape, OverRoots, OverPackages, Making,
     Publishing, Plain, Cleaning, MetadataFits, Fits, Ordered, Removed, Bare, Present, Absent,
     Torn, Whole, TypeOK, Cooking, AllPackaged, Fixed, world, target, published, process
<1>29. CASE clean_stage
  BY <1>29 DEF clean_stage, Goto, Proper, Walk, Shape, Left, OverRoots, OverPackages, Making,
     Publishing, Plain, Cleaning, MetadataFits, Fits, Ordered, Removed, Bare, Present, Absent,
     Torn, Whole, TypeOK, Cooking, AllPackaged, Fixed, world, target, published, process
<1>30. CASE publish_pkgar
  BY <1>30 DEF publish_pkgar, Goto, Proper, Walk, Shape, Left, OverRoots, OverPackages, Making,
     Publishing, Plain, Cleaning, MetadataFits, Fits, Ordered, Removed, Bare, Present, Absent,
     Torn, Whole, TypeOK, Cooking, AllPackaged, Fixed, world, target, published, process
<1>31. CASE publish_toml
  BY <1>31, PublishedPasses DEF publish_toml, Proper, Shape, OverRoots, OverPackages, Making,
     Publishing, Plain, Cleaning, MetadataFits, Fits, Ordered, Removed, Bare, Present, Absent,
     Torn, Whole, TypeOK, Cooking, AllPackaged, Fixed, world, target, published, process
<1>32. CASE nothing_to_publish
  BY <1>32, PublishedPasses DEF nothing_to_publish, Proper, Shape, OverRoots, OverPackages,
     Making, Publishing, Plain, Cleaning, MetadataFits, Fits, Ordered, Removed, Bare, Present,
     Absent, Torn, Whole, TypeOK, Cooking, AllPackaged, Fixed, world, target, published, process
<1>33. CASE tear_in_removal
  BY <1>33 DEF tear_in_removal, torn, Fails, Goto, Fault, Installing, Proper, Walk, Shape, Left,
     OverRoots, OverPackages, Making, Publishing, Plain, Cleaning, MetadataFits, Fits, Ordered,
     Removed, Bare, Present, Absent, Torn, Whole, TypeOK, Cooking, AllPackaged, Fixed, world,
     target, published, process
<1>34. CASE tear_in_auto_deps
  BY <1>34 DEF tear_in_auto_deps, torn, Fails, Goto, Fault, Proper, Walk, Shape, Left, OverRoots,
     OverPackages, Making, Publishing, Plain, Cleaning, MetadataFits, Fits, Ordered, Removed,
     Bare, Present, Absent, Torn, Whole, TypeOK, Cooking, AllPackaged, Fixed, world, target,
     published, process
<1>35. CASE tear_in_pkgar
  BY <1>35 DEF tear_in_pkgar, torn, Fails, Goto, Fault, Proper, Walk, Shape, Left, OverRoots,
     OverPackages, Making, Publishing, Plain, Cleaning, MetadataFits, Fits, Ordered, Removed,
     Bare, Present, Absent, Torn, Whole, TypeOK, Cooking, AllPackaged, Fixed, world, target,
     published, process
<1>36. CASE tear_in_meta
  BY <1>36 DEF tear_in_meta, torn, Fails, Goto, Fault, Proper, Walk, Shape, Left, OverRoots,
     OverPackages, Making, Publishing, Plain, Cleaning, MetadataFits, Fits, Ordered, Removed,
     Bare, Present, Absent, Torn, Whole, TypeOK, Cooking, AllPackaged, Fixed, world, target,
     published, process
<1>37. CASE tear_in_publish
  BY <1>37 DEF tear_in_publish, torn, Fails, Goto, Fault, Proper, Walk, Shape, Left, OverRoots,
     OverPackages, Making, Publishing, Plain, Cleaning, MetadataFits, Fits, Ordered, Removed,
     Bare, Present, Absent, Torn, Whole, TypeOK, Cooking, AllPackaged, Fixed, world, target,
     published, process
<1> QED
  BY <1>1, <1>2, <1>3, <1>4, <1>5, <1>6, <1>7, <1>8, <1>9, <1>10, <1>11, <1>12, <1>13, <1>14,
     <1>15, <1>16, <1>17, <1>18, <1>19, <1>20, <1>21, <1>22, <1>23, <1>24, <1>25, <1>26, <1>27,
     <1>28, <1>29, <1>30, <1>31, <1>32, <1>33, <1>34, <1>35, <1>36, <1>37 DEF Act

\* A pkgar is made only by a cook that did not find the recipe up to date.
LEMMA CreatesUncached ==
  ASSUME Proper, MetadataFits, pc \in {"drop_meta", "create"}
  PROVE  ~cook.cached /\ Head(todo) \in Package /\ ~Present(pkgar[Head(todo)])
BY DEF Proper, Walk, Shape, MetadataFits, AllPackaged, OverPackages, Making

\* What is known of the age of the packages.
LEMMA NewerStep ==
  ASSUME Proper, Proper', Fixed, Act, NewerTells, RemovedBefore, StageIsMade, MetadataFits
  PROVE  NewerTells'
<1>1. CASE Aborted
  BY <1>1 DEF Aborted, Proper, Walk, Shape, Left, OverRoots, OverPackages, Making, Publishing,
     Plain, Cleaning, NewerTells, NoEdit, Removed, RemovedBefore, Bare, Present, Absent, Torn,
     Whole, TypeOK, Cooking, Fixed, world, target, published, process
<1>2. CASE edit_source
  BY <1>2 DEF edit_source, Proper, Walk, Shape, Left, OverRoots, OverPackages, Making,
     Publishing, Plain, Cleaning, NewerTells, NoEdit, Removed, RemovedBefore, Bare, Present,
     Absent, Torn, Whole, TypeOK, Cooking, Fixed, world, target, published, process
<1>3. CASE \E r \in Root : update_dependency(r)
  <2>1. PICK r \in Root : update_dependency(r)
    BY <1>3
  <2> QED
    BY <2>1 DEF update_dependency, Fixed, world, target, published, process, Proper, Walk, Shape,
       Left, OverRoots, OverPackages, Making, Publishing, Plain, Cleaning, NewerTells, NoEdit,
       Removed, RemovedBefore, Bare, Present, Absent, Torn, Whole, TypeOK, Cooking
<1>4. CASE begin
  <2>1. PICK clean \in setup.clean, is_deps \in setup.as_deps : handle_cook(clean, is_deps)
    BY <1>4 DEF begin
  <2> QED
    BY <2>1 DEF handle_cook, Goto, Proper, Walk, Shape, Left, OverRoots, OverPackages, Making,
       Publishing, Plain, Cleaning, NewerTells, NoEdit, Removed, RemovedBefore, Bare, Present,
       Absent, Torn, Whole, TypeOK, Cooking, Fixed, world, target, published, process
<1>5. CASE deps_cached
  BY <1>5, CachedPasses DEF deps_cached, Proper, Shape, OverRoots, OverPackages, Making,
     Publishing, Plain, Cleaning, NewerTells, NoEdit, Removed, RemovedBefore, Bare, Present,
     Absent, Torn, Whole, TypeOK, Cooking, Fixed, world, target, published, process
<1>6. CASE deps_kept
  BY <1>6, KeptPasses DEF deps_kept, Proper, Shape, OverRoots, OverPackages, Making, Publishing,
     Plain, Cleaning, NewerTells, NoEdit, Removed, RemovedBefore, Bare, Present, Absent, Torn,
     Whole, TypeOK, Cooking, Fixed, world, target, published, process
<1>7. CASE deps_remove
  BY <1>7 DEF deps_remove, Installing, NoDir, Empty, Proper, Walk, Shape, Left, OverRoots,
     OverPackages, Making, Publishing, Plain, Cleaning, NewerTells, NoEdit, Removed,
     RemovedBefore, Bare, Present, Absent, Torn, Whole, TypeOK, Cooking, Fixed, world, target,
     published, process
<1>8. CASE deps_install
  BY <1>8 DEF deps_install, Installing, Next_, Goto, Proper, Walk, Shape, Left, OverRoots,
     OverPackages, Making, Publishing, Plain, Cleaning, NewerTells, NoEdit, Removed,
     RemovedBefore, Bare, Present, Absent, Torn, Whole, TypeOK, Cooking, Fixed, world, target,
     published, process
<1>9. CASE newer_cached
  BY <1>9 DEF newer_cached, Goto, Proper, Walk, Shape, Left, OverRoots, OverPackages, Making,
     Publishing, Plain, Cleaning, NewerTells, NoEdit, Removed, RemovedBefore, Bare, Present,
     Absent, Torn, Whole, TypeOK, Cooking, Fixed, world, target, published, process
<1>10. CASE newer_rebuild
  BY <1>10 DEF newer_rebuild, Goto, Proper, Walk, Shape, Left, OverRoots, OverPackages, Making,
     Publishing, Plain, Cleaning, NewerTells, NoEdit, Removed, RemovedBefore, Bare, Present,
     Absent, Torn, Whole, TypeOK, Cooking, Fixed, world, target, published, process
<1>11. CASE remove_stage
  BY <1>11 DEF remove_stage, Proper, Walk, Shape, Left, OverRoots, OverPackages, Making,
     Publishing, Plain, Cleaning, NewerTells, NoEdit, Removed, RemovedBefore, Bare, Present,
     Absent, Torn, Whole, TypeOK, Cooking, Fixed, world, target, published, process
<1>12. CASE remove_pkgar
  BY <1>12 DEF remove_pkgar, Proper, Walk, Shape, Left, OverRoots, OverPackages, Making,
     Publishing, Plain, Cleaning, NewerTells, NoEdit, Removed, RemovedBefore, Bare, Present,
     Absent, Torn, Whole, TypeOK, Cooking, Fixed, world, target, published, process
<1>13. CASE remove_meta
  BY <1>13, RemovalPasses DEF remove_meta, Proper, Shape, OverRoots, OverPackages, Making,
     Publishing, Plain, Cleaning, NewerTells, NoEdit, Removed, RemovedBefore, Bare, Present,
     Absent, Torn, Whole, TypeOK, Cooking, Fixed, world, target, published, process
<1>14. CASE run_script
  BY <1>14 DEF run_script, Goto, Proper, Walk, Shape, Left, OverRoots, OverPackages, Making,
     Publishing, Plain, Cleaning, NewerTells, NoEdit, Removed, RemovedBefore, Bare, Present,
     Absent, Torn, Whole, TypeOK, Cooking, Fixed, world, target, published, process
<1>15. CASE tags_aside
  BY <1>15 DEF tags_aside, Goto, Proper, Walk, Shape, Left, OverRoots, OverPackages, Making,
     Publishing, Plain, Cleaning, NewerTells, NoEdit, Removed, RemovedBefore, Bare, Present,
     Absent, Torn, Whole, TypeOK, Cooking, Fixed, world, target, published, process
<1>16. CASE clean_dir
  BY <1>16 DEF clean_dir, Empty, Goto, Proper, Walk, Shape, Left, OverRoots, OverPackages,
     Making, Publishing, Plain, Cleaning, NewerTells, NoEdit, Removed, RemovedBefore, Bare,
     Present, Absent, Torn, Whole, TypeOK, Cooking, Fixed, world, target, published, process
<1>17. CASE tags_back
  BY <1>17 DEF tags_back, Goto, Proper, Walk, Shape, Left, OverRoots, OverPackages, Making,
     Publishing, Plain, Cleaning, NewerTells, NoEdit, Removed, RemovedBefore, Bare, Present,
     Absent, Torn, Whole, TypeOK, Cooking, Fixed, world, target, published, process
<1>18. CASE remote_cached
  BY <1>18 DEF remote_cached, Goto, Proper, Walk, Shape, Left, OverRoots, OverPackages, Making,
     Publishing, Plain, Cleaning, NewerTells, NoEdit, Removed, RemovedBefore, Bare, Present,
     Absent, Torn, Whole, TypeOK, Cooking, Fixed, world, target, published, process
<1>19. CASE remote_extract
  BY <1>19 DEF remote_extract, Goto, Proper, Walk, Shape, Left, OverRoots, OverPackages, Making,
     Publishing, Plain, Cleaning, NewerTells, NoEdit, Removed, RemovedBefore, Bare, Present,
     Absent, Torn, Whole, TypeOK, Cooking, Fixed, world, target, published, process
<1>20. CASE remote_forget
  BY <1>20 DEF remote_forget, Goto, Proper, Walk, Shape, Left, OverRoots, OverPackages, Making,
     Publishing, Plain, Cleaning, NewerTells, NoEdit, Removed, RemovedBefore, Bare, Present,
     Absent, Torn, Whole, TypeOK, Cooking, Fixed, world, target, published, process
<1>21. CASE write_auto_deps
  BY <1>21 DEF write_auto_deps, Goto, Proper, Walk, Shape, Left, OverRoots, OverPackages, Making,
     Publishing, Plain, Cleaning, NewerTells, NoEdit, Removed, RemovedBefore, Bare, Present,
     Absent, Torn, Whole, TypeOK, Cooking, Fixed, world, target, published, process
<1>22. CASE read_auto_deps
  BY <1>22 DEF read_auto_deps, Goto, Proper, Walk, Shape, Left, OverRoots, OverPackages, Making,
     Publishing, Plain, Cleaning, NewerTells, NoEdit, Removed, RemovedBefore, Bare, Present,
     Absent, Torn, Whole, TypeOK, Cooking, Fixed, world, target, published, process
<1>23. CASE drop_pkgar
  BY <1>23 DEF drop_pkgar, Goto, Proper, Walk, Shape, Left, OverRoots, OverPackages, Making,
     Publishing, Plain, Cleaning, NewerTells, NoEdit, Removed, RemovedBefore, Bare, Present,
     Absent, Torn, Whole, TypeOK, Cooking, Fixed, world, target, published, process
<1>24. CASE drop_meta
  BY <1>24 DEF drop_meta, Goto, Proper, Walk, Shape, Left, OverRoots, OverPackages, Making,
     Publishing, Plain, Cleaning, NewerTells, NoEdit, Removed, RemovedBefore, Bare, Present,
     Absent, Torn, Whole, TypeOK, Cooking, Fixed, world, target, published, process
<1>25. CASE keep_pkgar
  BY <1>25 DEF keep_pkgar, Goto, Proper, Walk, Shape, Left, OverRoots, OverPackages, Making,
     Publishing, Plain, Cleaning, NewerTells, NoEdit, Removed, RemovedBefore, Bare, Present,
     Absent, Torn, Whole, TypeOK, Cooking, Fixed, world, target, published, process
<1>26. CASE create_pkgar
  <2>1. /\ pc = "create" /\ ~cook.cached /\ Head(todo) \in Package /\ Present(stage)
        /\ source' = source /\ auto_deps' = auto_deps /\ newer' = newer \ {Head(todo)}
        /\ pkgar' = [pkgar EXCEPT ![Head(todo)] = stage]
        /\ newer \subseteq Package /\ pkgar \in [Package -> File]
        /\ cook'.source = cook.source /\ pc' \in {"idle", "meta"}
    BY <1>26, CreatesUncached DEF create_pkgar, Goto, Proper, TypeOK, Cooking
  <2>2. NoEdit => stage.of.source = source
    BY <2>1 DEF StageIsMade, Staged, Making
  <2>3. \A p \in Package : p # Head(todo) => pkgar'[p] = pkgar[p]
    BY <2>1
  <2>4. pkgar'[Head(todo)] = stage
    BY <2>1
  <2> QED
    BY <2>1, <2>2, <2>3, <2>4 DEF NewerTells, NoEdit, Making, Present, Torn, Fixed
<1>27. CASE keep_meta
  BY <1>27, MetaPasses DEF keep_meta, Proper, Shape, OverRoots, OverPackages, Making, Publishing,
     Plain, Cleaning, NewerTells, NoEdit, Removed, RemovedBefore, Bare, Present, Absent, Torn,
     Whole, TypeOK, Cooking, Fixed, world, target, published, process
<1>28. CASE write_meta
  BY <1>28, MetaPasses DEF write_meta, Proper, Shape, OverRoots, OverPackages, Making,
     Publishing, Plain, Cleaning, NewerTells, NoEdit, Removed, RemovedBefore, Bare, Present,
     Absent, Torn, Whole, TypeOK, Cooking, Fixed, world, target, published, process
<1>29. CASE clean_stage
  BY <1>29 DEF clean_stage, Goto, Proper, Walk, Shape, Left, OverRoots, OverPackages, Making,
     Publishing, Plain, Cleaning, NewerTells, NoEdit, Removed, RemovedBefore, Bare, Present,
     Absent, Torn, Whole, TypeOK, Cooking, Fixed, world, target, published, process
<1>30. CASE publish_pkgar
  BY <1>30 DEF publish_pkgar, Goto, Proper, Walk, Shape, Left, OverRoots, OverPackages, Making,
     Publishing, Plain, Cleaning, NewerTells, NoEdit, Removed, RemovedBefore, Bare, Present,
     Absent, Torn, Whole, TypeOK, Cooking, Fixed, world, target, published, process
<1>31. CASE publish_toml
  BY <1>31, PublishedPasses DEF publish_toml, Proper, Shape, OverRoots, OverPackages, Making,
     Publishing, Plain, Cleaning, NewerTells, NoEdit, Removed, RemovedBefore, Bare, Present,
     Absent, Torn, Whole, TypeOK, Cooking, Fixed, world, target, published, process
<1>32. CASE nothing_to_publish
  BY <1>32, PublishedPasses DEF nothing_to_publish, Proper, Shape, OverRoots, OverPackages,
     Making, Publishing, Plain, Cleaning, NewerTells, NoEdit, Removed, RemovedBefore, Bare,
     Present, Absent, Torn, Whole, TypeOK, Cooking, Fixed, world, target, published, process
<1>33. CASE tear_in_removal
  BY <1>33 DEF tear_in_removal, torn, Fails, Goto, Fault, Installing, Proper, Walk, Shape, Left,
     OverRoots, OverPackages, Making, Publishing, Plain, Cleaning, NewerTells, NoEdit, Removed,
     RemovedBefore, Bare, Present, Absent, Torn, Whole, TypeOK, Cooking, Fixed, world, target,
     published, process
<1>34. CASE tear_in_auto_deps
  BY <1>34 DEF tear_in_auto_deps, torn, Fails, Goto, Fault, Proper, Walk, Shape, Left, OverRoots,
     OverPackages, Making, Publishing, Plain, Cleaning, NewerTells, NoEdit, Removed,
     RemovedBefore, Bare, Present, Absent, Torn, Whole, TypeOK, Cooking, Fixed, world, target,
     published, process
<1>35. CASE tear_in_pkgar
  <2>1. /\ pc = "create" /\ ~cook.cached /\ Head(todo) \in Package /\ Present(stage)
        /\ source' = source /\ auto_deps' = auto_deps /\ newer' = newer \ {Head(todo)}
        /\ pkgar' = [pkgar EXCEPT ![Head(todo)] = Torn]
        /\ newer \subseteq Package /\ pkgar \in [Package -> File]
        /\ cook'.source = cook.source /\ pc' \in {"idle", "meta"}
    BY <1>35, CreatesUncached DEF tear_in_pkgar, torn, Fails, Goto, Fault, Proper, TypeOK, Cooking
  <2>2. NoEdit => stage.of.source = source
    BY <2>1 DEF StageIsMade, Staged, Making
  <2>3. \A p \in Package : p # Head(todo) => pkgar'[p] = pkgar[p]
    BY <2>1
  <2>4. pkgar'[Head(todo)] = Torn
    BY <2>1
  <2> QED
    BY <2>1, <2>2, <2>3, <2>4 DEF NewerTells, NoEdit, Making, Present, Torn, Fixed
<1>36. CASE tear_in_meta
  BY <1>36 DEF tear_in_meta, torn, Fails, Goto, Fault, Proper, Walk, Shape, Left, OverRoots,
     OverPackages, Making, Publishing, Plain, Cleaning, NewerTells, NoEdit, Removed,
     RemovedBefore, Bare, Present, Absent, Torn, Whole, TypeOK, Cooking, Fixed, world, target,
     published, process
<1>37. CASE tear_in_publish
  BY <1>37 DEF tear_in_publish, torn, Fails, Goto, Fault, Proper, Walk, Shape, Left, OverRoots,
     OverPackages, Making, Publishing, Plain, Cleaning, NewerTells, NoEdit, Removed,
     RemovedBefore, Bare, Present, Absent, Torn, Whole, TypeOK, Cooking, Fixed, world, target,
     published, process
<1> QED
  BY <1>1, <1>2, <1>3, <1>4, <1>5, <1>6, <1>7, <1>8, <1>9, <1>10, <1>11, <1>12, <1>13, <1>14,
     <1>15, <1>16, <1>17, <1>18, <1>19, <1>20, <1>21, <1>22, <1>23, <1>24, <1>25, <1>26, <1>27,
     <1>28, <1>29, <1>30, <1>31, <1>32, <1>33, <1>34, <1>35, <1>36, <1>37 DEF Act

\* The packages are there, and younger than the source.
LEMMA PackagesStep ==
  ASSUME Proper, Proper', Fixed, Act, PackagesAreMade, NewerTells, MetadataFits, NothingTorn,
     StageIsMade, RemovedBefore
  PROVE  PackagesAreMade'
<1>1. CASE Aborted
  BY <1>1 DEF Aborted, Proper, Walk, Shape, Left, OverRoots, OverPackages, Making, Publishing,
     Plain, Cleaning, PackagesAreMade, Checked, Made, Tracked, NoEdit, Present, Absent, Torn,
     Whole, TypeOK, Cooking, Fixed, world, target, published, process
<1>2. CASE edit_source
  BY <1>2 DEF edit_source, Proper, Walk, Shape, Left, OverRoots, OverPackages, Making,
     Publishing, Plain, Cleaning, PackagesAreMade, Checked, Made, Tracked, NoEdit, Present,
     Absent, Torn, Whole, TypeOK, Cooking, Fixed, world, target, published, process
<1>3. CASE \E r \in Root : update_dependency(r)
  <2>1. PICK r \in Root : update_dependency(r)
    BY <1>3
  <2> QED
    BY <2>1 DEF update_dependency, Fixed, world, target, published, process, Proper, Walk, Shape,
       Left, OverRoots, OverPackages, Making, Publishing, Plain, Cleaning, PackagesAreMade,
       Checked, Made, Tracked, NoEdit, Present, Absent, Torn, Whole, TypeOK, Cooking
<1>4. CASE begin
  <2>1. PICK clean \in setup.clean, is_deps \in setup.as_deps : handle_cook(clean, is_deps)
    BY <1>4 DEF begin
  <2> QED
    BY <2>1 DEF handle_cook, Goto, Proper, Walk, Shape, Left, OverRoots, OverPackages, Making,
       Publishing, Plain, Cleaning, PackagesAreMade, Checked, Made, Tracked, NoEdit, Present,
       Absent, Torn, Whole, TypeOK, Cooking, Fixed, world, target, published, process
<1>5. CASE deps_cached
  BY <1>5, CachedPasses DEF deps_cached, Proper, Shape, OverRoots, OverPackages, Making,
     Publishing, Plain, Cleaning, PackagesAreMade, Checked, Made, Tracked, NoEdit, Present,
     Absent, Torn, Whole, TypeOK, Cooking, Fixed, world, target, published, process
<1>6. CASE deps_kept
  BY <1>6, KeptPasses DEF deps_kept, Proper, Shape, OverRoots, OverPackages, Making, Publishing,
     Plain, Cleaning, PackagesAreMade, Checked, Made, Tracked, NoEdit, Present, Absent, Torn,
     Whole, TypeOK, Cooking, Fixed, world, target, published, process
<1>7. CASE deps_remove
  BY <1>7 DEF deps_remove, Installing, NoDir, Empty, Proper, Walk, Shape, Left, OverRoots,
     OverPackages, Making, Publishing, Plain, Cleaning, PackagesAreMade, Checked, Made, Tracked,
     NoEdit, Present, Absent, Torn, Whole, TypeOK, Cooking, Fixed, world, target, published, process
<1>8. CASE deps_install
  BY <1>8 DEF deps_install, Installing, Next_, Goto, Proper, Walk, Shape, Left, OverRoots,
     OverPackages, Making, Publishing, Plain, Cleaning, PackagesAreMade, Checked, Made, Tracked,
     NoEdit, Present, Absent, Torn, Whole, TypeOK, Cooking, Fixed, world, target, published, process
<1>9. CASE newer_cached
  BY <1>9 DEF newer_cached, Goto, SourceNewer, NewerTells, AllPackaged, Proper, Walk, Shape,
     Left, OverRoots, OverPackages, Making, Publishing, Plain, Cleaning, PackagesAreMade,
     Checked, Made, Tracked, NoEdit, Present, Absent, Torn, Whole, TypeOK, Cooking, Fixed, world,
     target, published, process
<1>10. CASE newer_rebuild
  BY <1>10 DEF newer_rebuild, Goto, Proper, Walk, Shape, Left, OverRoots, OverPackages, Making,
     Publishing, Plain, Cleaning, PackagesAreMade, Checked, Made, Tracked, NoEdit, Present,
     Absent, Torn, Whole, TypeOK, Cooking, Fixed, world, target, published, process
<1>11. CASE remove_stage
  BY <1>11 DEF remove_stage, Proper, Walk, Shape, Left, OverRoots, OverPackages, Making,
     Publishing, Plain, Cleaning, PackagesAreMade, Checked, Made, Tracked, NoEdit, Present,
     Absent, Torn, Whole, TypeOK, Cooking, Fixed, world, target, published, process
<1>12. CASE remove_pkgar
  BY <1>12 DEF remove_pkgar, Proper, Walk, Shape, Left, OverRoots, OverPackages, Making,
     Publishing, Plain, Cleaning, PackagesAreMade, Checked, Made, Tracked, NoEdit, Present,
     Absent, Torn, Whole, TypeOK, Cooking, Fixed, world, target, published, process
<1>13. CASE remove_meta
  BY <1>13, RemovalPasses DEF remove_meta, Proper, Shape, OverRoots, OverPackages, Making,
     Publishing, Plain, Cleaning, PackagesAreMade, Checked, Made, Tracked, NoEdit, Present,
     Absent, Torn, Whole, TypeOK, Cooking, Fixed, world, target, published, process
<1>14. CASE run_script
  BY <1>14 DEF run_script, Goto, Proper, Walk, Shape, Left, OverRoots, OverPackages, Making,
     Publishing, Plain, Cleaning, PackagesAreMade, Checked, Made, Tracked, NoEdit, Present,
     Absent, Torn, Whole, TypeOK, Cooking, Fixed, world, target, published, process
<1>15. CASE tags_aside
  BY <1>15 DEF tags_aside, Goto, Proper, Walk, Shape, Left, OverRoots, OverPackages, Making,
     Publishing, Plain, Cleaning, PackagesAreMade, Checked, Made, Tracked, NoEdit, Present,
     Absent, Torn, Whole, TypeOK, Cooking, Fixed, world, target, published, process
<1>16. CASE clean_dir
  BY <1>16 DEF clean_dir, Empty, Goto, Proper, Walk, Shape, Left, OverRoots, OverPackages,
     Making, Publishing, Plain, Cleaning, PackagesAreMade, Checked, Made, Tracked, NoEdit,
     Present, Absent, Torn, Whole, TypeOK, Cooking, Fixed, world, target, published, process
<1>17. CASE tags_back
  BY <1>17 DEF tags_back, Goto, Proper, Walk, Shape, Left, OverRoots, OverPackages, Making,
     Publishing, Plain, Cleaning, PackagesAreMade, Checked, Made, Tracked, NoEdit, Present,
     Absent, Torn, Whole, TypeOK, Cooking, Fixed, world, target, published, process
<1>18. CASE remote_cached
  BY <1>18 DEF remote_cached, Goto, RemoteCached, NewerTells, AllPackaged, Proper, Walk, Shape,
     Left, OverRoots, OverPackages, Making, Publishing, Plain, Cleaning, PackagesAreMade,
     Checked, Made, Tracked, NoEdit, Present, Absent, Torn, Whole, TypeOK, Cooking, Fixed, world,
     target, published, process
<1>19. CASE remote_extract
  BY <1>19 DEF remote_extract, Goto, Proper, Walk, Shape, Left, OverRoots, OverPackages, Making,
     Publishing, Plain, Cleaning, PackagesAreMade, Checked, Made, Tracked, NoEdit, Present,
     Absent, Torn, Whole, TypeOK, Cooking, Fixed, world, target, published, process
<1>20. CASE remote_forget
  BY <1>20 DEF remote_forget, Goto, Proper, Walk, Shape, Left, OverRoots, OverPackages, Making,
     Publishing, Plain, Cleaning, PackagesAreMade, Checked, Made, Tracked, NoEdit, Present,
     Absent, Torn, Whole, TypeOK, Cooking, Fixed, world, target, published, process
<1>21. CASE write_auto_deps
  BY <1>21 DEF write_auto_deps, Goto, Proper, Walk, Shape, Left, OverRoots, OverPackages, Making,
     Publishing, Plain, Cleaning, PackagesAreMade, Checked, Made, Tracked, NoEdit, Present,
     Absent, Torn, Whole, TypeOK, Cooking, Fixed, world, target, published, process
<1>22. CASE read_auto_deps
  BY <1>22 DEF read_auto_deps, Goto, Proper, Walk, Shape, Left, OverRoots, OverPackages, Making,
     Publishing, Plain, Cleaning, PackagesAreMade, Checked, Made, Tracked, NoEdit, Present,
     Absent, Torn, Whole, TypeOK, Cooking, Fixed, world, target, published, process
<1>23. CASE drop_pkgar
  BY <1>23 DEF drop_pkgar, Goto, Proper, Walk, Shape, Left, OverRoots, OverPackages, Making,
     Publishing, Plain, Cleaning, PackagesAreMade, Checked, Made, Tracked, NoEdit, Present,
     Absent, Torn, Whole, TypeOK, Cooking, Fixed, world, target, published, process
<1>24. CASE drop_meta
  BY <1>24 DEF drop_meta, Goto, Proper, Walk, Shape, Left, OverRoots, OverPackages, Making,
     Publishing, Plain, Cleaning, PackagesAreMade, Checked, Made, Tracked, NoEdit, Present,
     Absent, Torn, Whole, TypeOK, Cooking, Fixed, world, target, published, process
<1>25. CASE keep_pkgar
  BY <1>25 DEF keep_pkgar, Goto, NewerTells, Proper, Walk, Shape, Left, OverRoots, OverPackages,
     Making, Publishing, Plain, Cleaning, PackagesAreMade, Checked, Made, Tracked, NoEdit,
     Present, Absent, Torn, Whole, TypeOK, Cooking, Fixed, world, target, published, process
<1>26. CASE create_pkgar
  BY <1>26 DEF create_pkgar, Goto, StageIsMade, Staged, Proper, Walk, Shape, Left, OverRoots,
     OverPackages, Making, Publishing, Plain, Cleaning, PackagesAreMade, Checked, Made, Tracked,
     NoEdit, Present, Absent, Torn, Whole, TypeOK, Cooking, Fixed, world, target, published, process
<1>27. CASE keep_meta
  <2>1. /\ pc = "meta" /\ Present(meta[Head(todo)]) /\ Head(todo) \in Package /\ pkgar' = pkgar
        /\ newer' = newer /\ cook' = cook
    BY <1>27 DEF keep_meta, Proper, Walk, OverPackages, Making, world, target
  <2>2. Present(pkgar[Head(todo)]) /\ (Checked => Head(todo) \notin newer)
    BY <2>1 DEF PackagesAreMade
  <2>3. Tracked => pkgar[Head(todo)].state = "whole"
    <3>1. CASE Ordered
      BY <2>1, <3>1 DEF MetadataFits, Fits
    <3>2. CASE ~Ordered
      <4>1. Kind = "remote" /\ "kill" \in Faults
        BY <2>1, <3>2, SetupFacts DEF Ordered, Proper, Shape, Making
      <4>2. Tracked => pkgar[Head(todo)].state # "torn"
        BY <2>1, <4>1 DEF Tracked, NothingTorn, Untorn
      <4>3. pkgar[Head(todo)].state \in {"absent", "torn", "whole"}
        BY <2>1 DEF Proper, TypeOK, File
      <4> QED
        BY <4>2, <4>3, <2>2 DEF Present
    <3> QED
      BY <3>1, <3>2
  <2>4. PackageDone
    BY <1>27 DEF keep_meta
  <2>5. \A p \in Package : Made(p)' <=> Made(p)
    BY <2>1 DEF Made, Checked, NoEdit, Fixed
  <2>6. Tracked => Made(Head(todo))
    BY <2>2, <2>3 DEF Made
  <2> QED
    BY <2>1, <2>4, <2>5, <2>6, PackagePasses DEF PackagesAreMade, Checked, Tracked, NoEdit,
       Making, Publishing, Fixed
<1>28. CASE write_meta
  BY <1>28, MetaPasses DEF write_meta, Proper, Shape, OverRoots, OverPackages, Making,
     Publishing, Plain, Cleaning, PackagesAreMade, Checked, Made, Tracked, NoEdit, Present,
     Absent, Torn, Whole, TypeOK, Cooking, Fixed, world, target, published, process
<1>29. CASE clean_stage
  BY <1>29 DEF clean_stage, Goto, Proper, Walk, Shape, Left, OverRoots, OverPackages, Making,
     Publishing, Plain, Cleaning, PackagesAreMade, Checked, Made, Tracked, NoEdit, Present,
     Absent, Torn, Whole, TypeOK, Cooking, Fixed, world, target, published, process
<1>30. CASE publish_pkgar
  BY <1>30 DEF publish_pkgar, Goto, Proper, Walk, Shape, Left, OverRoots, OverPackages, Making,
     Publishing, Plain, Cleaning, PackagesAreMade, Checked, Made, Tracked, NoEdit, Present,
     Absent, Torn, Whole, TypeOK, Cooking, Fixed, world, target, published, process
<1>31. CASE publish_toml
  BY <1>31, PublishedPasses DEF publish_toml, Proper, Shape, OverRoots, OverPackages, Making,
     Publishing, Plain, Cleaning, PackagesAreMade, Checked, Made, Tracked, NoEdit, Present,
     Absent, Torn, Whole, TypeOK, Cooking, Fixed, world, target, published, process
<1>32. CASE nothing_to_publish
  BY <1>32, PublishedPasses DEF nothing_to_publish, Proper, Shape, OverRoots, OverPackages,
     Making, Publishing, Plain, Cleaning, PackagesAreMade, Checked, Made, Tracked, NoEdit,
     Present, Absent, Torn, Whole, TypeOK, Cooking, Fixed, world, target, published, process
<1>33. CASE tear_in_removal
  BY <1>33 DEF tear_in_removal, torn, Fails, Goto, Fault, Installing, Proper, Walk, Shape, Left,
     OverRoots, OverPackages, Making, Publishing, Plain, Cleaning, PackagesAreMade, Checked,
     Made, Tracked, NoEdit, Present, Absent, Torn, Whole, TypeOK, Cooking, Fixed, world, target,
     published, process
<1>34. CASE tear_in_auto_deps
  BY <1>34 DEF tear_in_auto_deps, torn, Fails, Goto, Fault, Proper, Walk, Shape, Left, OverRoots,
     OverPackages, Making, Publishing, Plain, Cleaning, PackagesAreMade, Checked, Made, Tracked,
     NoEdit, Present, Absent, Torn, Whole, TypeOK, Cooking, Fixed, world, target, published, process
<1>35. CASE tear_in_pkgar
  BY <1>35 DEF tear_in_pkgar, torn, Fails, Goto, Fault, Proper, Walk, Shape, Left, OverRoots,
     OverPackages, Making, Publishing, Plain, Cleaning, PackagesAreMade, Checked, Made, Tracked,
     NoEdit, Present, Absent, Torn, Whole, TypeOK, Cooking, Fixed, world, target, published, process
<1>36. CASE tear_in_meta
  BY <1>36 DEF tear_in_meta, torn, Fails, Goto, Fault, Proper, Walk, Shape, Left, OverRoots,
     OverPackages, Making, Publishing, Plain, Cleaning, PackagesAreMade, Checked, Made, Tracked,
     NoEdit, Present, Absent, Torn, Whole, TypeOK, Cooking, Fixed, world, target, published, process
<1>37. CASE tear_in_publish
  BY <1>37 DEF tear_in_publish, torn, Fails, Goto, Fault, Proper, Walk, Shape, Left, OverRoots,
     OverPackages, Making, Publishing, Plain, Cleaning, PackagesAreMade, Checked, Made, Tracked,
     NoEdit, Present, Absent, Torn, Whole, TypeOK, Cooking, Fixed, world, target, published, process
<1> QED
  BY <1>1, <1>2, <1>3, <1>4, <1>5, <1>6, <1>7, <1>8, <1>9, <1>10, <1>11, <1>12, <1>13, <1>14,
     <1>15, <1>16, <1>17, <1>18, <1>19, <1>20, <1>21, <1>22, <1>23, <1>24, <1>25, <1>26, <1>27,
     <1>28, <1>29, <1>30, <1>31, <1>32, <1>33, <1>34, <1>35, <1>36, <1>37 DEF Act

\* The packages are made from one stage.
LEMMA OneStageStep ==
  ASSUME Proper, Proper', Fixed, Act, OneStage, RemovedBefore, MetadataFits, NothingTorn,
     StageIsMade
  PROVE  OneStage'
<1>1. CASE Aborted
  <2>1. pc \in Making /\ Kind = "remote" => ~Orderly
    <3>1. CASE pc = "meta"
      BY <1>1, <3>1 DEF Aborted, Proper, Walk, OverPackages, Making, NothingTorn, Untorn, Orderly
    <3> QED
      BY <1>1, <3>1 DEF Aborted, Making, Orderly
  <2>2. /\ pc' = "idle" /\ pkgar' = pkgar /\ auto_deps' = auto_deps
    BY <1>1 DEF Aborted
  <2>3. Same' <=> Same
    BY <2>2 DEF Same, Fixed
  <2>4. ~Removed' /\ pc' \notin Making /\ Orderly' = Orderly /\ Kind \in {"local", "remote"}
    BY <2>2, SetupFacts DEF Removed, Cleaning, Making, Orderly, Fixed, Proper, Shape
  <2> QED
    BY <2>1, <2>2, <2>3, <2>4 DEF OneStage, Fixed
<1>2. CASE edit_source
  BY <1>2 DEF edit_source, Proper, Walk, Shape, Left, OverRoots, OverPackages, Making,
     Publishing, Plain, Cleaning, OneStage, Orderly, Same, Removed, RemovedBefore, Bare, Present,
     Absent, Torn, Whole, TypeOK, Cooking, Fixed, world, target, published, process
<1>3. CASE \E r \in Root : update_dependency(r)
  <2>1. PICK r \in Root : update_dependency(r)
    BY <1>3
  <2> QED
    BY <2>1 DEF update_dependency, Fixed, world, target, published, process, Proper, Walk, Shape,
       Left, OverRoots, OverPackages, Making, Publishing, Plain, Cleaning, OneStage, Orderly,
       Same, Removed, RemovedBefore, Bare, Present, Absent, Torn, Whole, TypeOK, Cooking
<1>4. CASE begin
  <2>1. PICK clean \in setup.clean, is_deps \in setup.as_deps : handle_cook(clean, is_deps)
    BY <1>4 DEF begin
  <2> QED
    BY <2>1 DEF handle_cook, Goto, Proper, Walk, Shape, Left, OverRoots, OverPackages, Making,
       Publishing, Plain, Cleaning, OneStage, Orderly, Same, Removed, RemovedBefore, Bare,
       Present, Absent, Torn, Whole, TypeOK, Cooking, Fixed, world, target, published, process
<1>5. CASE deps_cached
  <2>1. /\ pkgar' = pkgar /\ auto_deps' = auto_deps
        /\ pc \in {"deps", "deps_again"} /\ pc' \in {"deps", "deps_again", "newer", "script"}
        /\ pc' \in {"deps_again", "script"} => pc = "deps_again"
    BY <1>5, CachedPasses DEF deps_cached, world, target
  <2>2. Same' <=> Same
    BY <2>1 DEF Same, Fixed, Present
  <2> QED
    BY <2>1, <2>2 DEF OneStage, Orderly, Removed, Cleaning, Making, Fixed
<1>6. CASE deps_kept
  <2>1. /\ pkgar' = pkgar /\ auto_deps' = auto_deps
        /\ pc \in {"deps", "deps_again"} /\ pc' \in {"deps", "deps_again", "newer", "script"}
        /\ pc' \in {"deps_again", "script"} => pc = "deps_again"
    BY <1>6, KeptPasses DEF deps_kept, world, target
  <2>2. Same' <=> Same
    BY <2>1 DEF Same, Fixed, Present
  <2> QED
    BY <2>1, <2>2 DEF OneStage, Orderly, Removed, Cleaning, Making, Fixed
<1>7. CASE deps_remove
  <2>1. /\ pkgar' = pkgar /\ auto_deps' = auto_deps
        /\ pc \in {"deps", "deps_again"} /\ pc' \in {"deps", "deps_again", "newer", "script"}
        /\ pc' \in {"deps_again", "script"} => pc = "deps_again"
    BY <1>7 DEF deps_remove, Installing, process
  <2>2. Same' <=> Same
    BY <2>1 DEF Same, Fixed, Present
  <2> QED
    BY <2>1, <2>2 DEF OneStage, Orderly, Removed, Cleaning, Making, Fixed
<1>8. CASE deps_install
  <2>1. /\ pkgar' = pkgar /\ auto_deps' = auto_deps
        /\ pc \in {"deps", "deps_again"} /\ pc' \in {"deps", "deps_again", "newer", "script"}
        /\ pc' \in {"deps_again", "script"} => pc = "deps_again"
    BY <1>8, OnePasses DEF deps_install, Installing, Next_, Goto
  <2>2. Same' <=> Same
    BY <2>1 DEF Same, Fixed, Present
  <2> QED
    BY <2>1, <2>2 DEF OneStage, Orderly, Removed, Cleaning, Making, Fixed
<1>9. CASE newer_cached
  BY <1>9 DEF newer_cached, Goto, Proper, Walk, Shape, Left, OverRoots, OverPackages, Making,
     Publishing, Plain, Cleaning, OneStage, Orderly, Same, Removed, RemovedBefore, Bare, Present,
     Absent, Torn, Whole, TypeOK, Cooking, Fixed, world, target, published, process
<1>10. CASE newer_rebuild
  BY <1>10 DEF newer_rebuild, Goto, Proper, Walk, Shape, Left, OverRoots, OverPackages, Making,
     Publishing, Plain, Cleaning, OneStage, Orderly, Same, Removed, RemovedBefore, Bare, Present,
     Absent, Torn, Whole, TypeOK, Cooking, Fixed, world, target, published, process
<1>11. CASE remove_stage
  BY <1>11 DEF remove_stage, Proper, Walk, Shape, Left, OverRoots, OverPackages, Making,
     Publishing, Plain, Cleaning, OneStage, Orderly, Same, Removed, RemovedBefore, Bare, Present,
     Absent, Torn, Whole, TypeOK, Cooking, Fixed, world, target, published, process
<1>12. CASE remove_pkgar
  BY <1>12 DEF remove_pkgar, Proper, Walk, Shape, Left, OverRoots, OverPackages, Making,
     Publishing, Plain, Cleaning, OneStage, Orderly, Same, Removed, RemovedBefore, Bare, Present,
     Absent, Torn, Whole, TypeOK, Cooking, Fixed, world, target, published, process
<1>13. CASE remove_meta
  BY <1>13, RemovalPasses DEF remove_meta, Proper, Shape, OverRoots, OverPackages, Making,
     Publishing, Plain, Cleaning, OneStage, Orderly, Same, Removed, RemovedBefore, Bare, Present,
     Absent, Torn, Whole, TypeOK, Cooking, Fixed, world, target, published, process
<1>14. CASE run_script
  BY <1>14 DEF run_script, Goto, Proper, Walk, Shape, Left, OverRoots, OverPackages, Making,
     Publishing, Plain, Cleaning, OneStage, Orderly, Same, Removed, RemovedBefore, Bare, Present,
     Absent, Torn, Whole, TypeOK, Cooking, Fixed, world, target, published, process
<1>15. CASE tags_aside
  BY <1>15 DEF tags_aside, Goto, Proper, Walk, Shape, Left, OverRoots, OverPackages, Making,
     Publishing, Plain, Cleaning, OneStage, Orderly, Same, Removed, RemovedBefore, Bare, Present,
     Absent, Torn, Whole, TypeOK, Cooking, Fixed, world, target, published, process
<1>16. CASE clean_dir
  BY <1>16 DEF clean_dir, Empty, Goto, Proper, Walk, Shape, Left, OverRoots, OverPackages,
     Making, Publishing, Plain, Cleaning, OneStage, Orderly, Same, Removed, RemovedBefore, Bare,
     Present, Absent, Torn, Whole, TypeOK, Cooking, Fixed, world, target, published, process
<1>17. CASE tags_back
  BY <1>17 DEF tags_back, Goto, Proper, Walk, Shape, Left, OverRoots, OverPackages, Making,
     Publishing, Plain, Cleaning, OneStage, Orderly, Same, Removed, RemovedBefore, Bare, Present,
     Absent, Torn, Whole, TypeOK, Cooking, Fixed, world, target, published, process
<1>18. CASE remote_cached
  BY <1>18 DEF remote_cached, Goto, Proper, Walk, Shape, Left, OverRoots, OverPackages, Making,
     Publishing, Plain, Cleaning, OneStage, Orderly, Same, Removed, RemovedBefore, Bare, Present,
     Absent, Torn, Whole, TypeOK, Cooking, Fixed, world, target, published, process
<1>19. CASE remote_extract
  BY <1>19 DEF remote_extract, Goto, Proper, Walk, Shape, Left, OverRoots, OverPackages, Making,
     Publishing, Plain, Cleaning, OneStage, Orderly, Same, Removed, RemovedBefore, Bare, Present,
     Absent, Torn, Whole, TypeOK, Cooking, Fixed, world, target, published, process
<1>20. CASE remote_forget
  BY <1>20 DEF remote_forget, Goto, Proper, Walk, Shape, Left, OverRoots, OverPackages, Making,
     Publishing, Plain, Cleaning, OneStage, Orderly, Same, Removed, RemovedBefore, Bare, Present,
     Absent, Torn, Whole, TypeOK, Cooking, Fixed, world, target, published, process
<1>21. CASE write_auto_deps
  BY <1>21 DEF write_auto_deps, Goto, Proper, Walk, Shape, Left, OverRoots, OverPackages, Making,
     Publishing, Plain, Cleaning, OneStage, Orderly, Same, Removed, RemovedBefore, Bare, Present,
     Absent, Torn, Whole, TypeOK, Cooking, Fixed, world, target, published, process
<1>22. CASE read_auto_deps
  BY <1>22 DEF read_auto_deps, Goto, Proper, Walk, Shape, Left, OverRoots, OverPackages, Making,
     Publishing, Plain, Cleaning, OneStage, Orderly, Same, Removed, RemovedBefore, Bare, Present,
     Absent, Torn, Whole, TypeOK, Cooking, Fixed, world, target, published, process
<1>23. CASE drop_pkgar
  BY <1>23 DEF drop_pkgar, Goto, Proper, Walk, Shape, Left, OverRoots, OverPackages, Making,
     Publishing, Plain, Cleaning, OneStage, Orderly, Same, Removed, RemovedBefore, Bare, Present,
     Absent, Torn, Whole, TypeOK, Cooking, Fixed, world, target, published, process
<1>24. CASE drop_meta
  BY <1>24 DEF drop_meta, Goto, Proper, Walk, Shape, Left, OverRoots, OverPackages, Making,
     Publishing, Plain, Cleaning, OneStage, Orderly, Same, Removed, RemovedBefore, Bare, Present,
     Absent, Torn, Whole, TypeOK, Cooking, Fixed, world, target, published, process
<1>25. CASE keep_pkgar
  BY <1>25 DEF keep_pkgar, Goto, Proper, Walk, Shape, Left, OverRoots, OverPackages, Making,
     Publishing, Plain, Cleaning, OneStage, Orderly, Same, Removed, RemovedBefore, Bare, Present,
     Absent, Torn, Whole, TypeOK, Cooking, Fixed, world, target, published, process
<1>26. CASE create_pkgar
  <2>1. /\ pc = "create" /\ ~cook.cached /\ Head(todo) \in Package
        /\ pkgar' = [pkgar EXCEPT ![Head(todo)] = stage] /\ pkgar \in [Package -> File]
        /\ pc' = "meta" /\ todo' = todo /\ cook' = cook /\ stage' = stage /\ auto_deps' = auto_deps
    BY <1>26, CreatesUncached DEF create_pkgar, Goto, Proper, TypeOK
  <2>2. \A p \in Package : p # Head(todo) => pkgar'[p] = pkgar[p]
    BY <2>1
  <2>3. pkgar'[Head(todo)] = stage
    BY <2>1
  <2>4. Left' = Left
    BY <2>1 DEF Left
  <2>5. Kind = "local" => \A p \in Left : ~Present(pkgar[p])
    BY <2>1 DEF RemovedBefore, Making, Bare
  <2>6. Orderly => \A p \in Package : p \notin Left \/ p = Head(todo) => pkgar'[p] = stage
    BY <2>1, <2>2, <2>3 DEF OneStage, Making
  <2>7. Orderly /\ Kind = "local" => \A p \in Package : Present(pkgar'[p]) => pkgar'[p] = stage
    BY <2>2, <2>3, <2>5, <2>6 DEF Present
  <2>8. Kind = "local" /\ Orderly => Same'
    BY <2>7 DEF Same, Fixed, Present
  <2> QED
    BY <2>1, <2>4, <2>6, <2>8 DEF OneStage, Orderly, Making, Fixed
<1>27. CASE keep_meta
  <2>1. /\ pc = "meta" /\ PackageDone /\ pkgar' = pkgar /\ cook' = cook /\ stage' = stage
        /\ auto_deps' = auto_deps
    BY <1>27 DEF keep_meta, world, target
  <2>2. ~cook.cached /\ Orderly => pkgar[Head(todo)] = stage
    BY <2>1, PackagePasses DEF OneStage, Making
  <2>3. Same' <=> Same
    BY <2>1 DEF Same, Fixed
  <2>4. \/ pc' = "pkgar" /\ Left' = Left \ {Head(todo)}
        \/ pc' \notin Making /\ Left = {Head(todo)}
    BY <2>1, PackagePasses DEF Making
  <2>5. ~Removed' /\ ~Removed
    BY <2>1, PackagePasses DEF Removed, Cleaning
  <2>6. Orderly /\ ~cook.cached /\ Left = {Head(todo)} => Same
    BY <2>1, <2>2 DEF OneStage, Making, Same
  <2>7. Orderly /\ ~cook.cached => \A p \in Package : p \notin Left \/ p = Head(todo) => pkgar[p] = stage
    BY <2>1, <2>2 DEF OneStage, Making
  <2> QED
    BY <2>1, <2>3, <2>4, <2>5, <2>6, <2>7 DEF OneStage, Orderly, Making, Fixed
<1>28. CASE write_meta
  <2>1. /\ pc = "meta" /\ PackageDone /\ pkgar' = pkgar /\ cook' = cook /\ stage' = stage
        /\ auto_deps' = auto_deps
    BY <1>28 DEF write_meta, world, target
  <2>2. ~cook.cached /\ Orderly => pkgar[Head(todo)] = stage
    BY <2>1, PackagePasses DEF OneStage, Making
  <2>3. Same' <=> Same
    BY <2>1 DEF Same, Fixed
  <2>4. \/ pc' = "pkgar" /\ Left' = Left \ {Head(todo)}
        \/ pc' \notin Making /\ Left = {Head(todo)}
    BY <2>1, PackagePasses DEF Making
  <2>5. ~Removed' /\ ~Removed
    BY <2>1, PackagePasses DEF Removed, Cleaning
  <2>6. Orderly /\ ~cook.cached /\ Left = {Head(todo)} => Same
    BY <2>1, <2>2 DEF OneStage, Making, Same
  <2>7. Orderly /\ ~cook.cached => \A p \in Package : p \notin Left \/ p = Head(todo) => pkgar[p] = stage
    BY <2>1, <2>2 DEF OneStage, Making
  <2> QED
    BY <2>1, <2>3, <2>4, <2>5, <2>6, <2>7 DEF OneStage, Orderly, Making, Fixed
<1>29. CASE clean_stage
  BY <1>29 DEF clean_stage, Goto, Proper, Walk, Shape, Left, OverRoots, OverPackages, Making,
     Publishing, Plain, Cleaning, OneStage, Orderly, Same, Removed, RemovedBefore, Bare, Present,
     Absent, Torn, Whole, TypeOK, Cooking, Fixed, world, target, published, process
<1>30. CASE publish_pkgar
  BY <1>30 DEF publish_pkgar, Goto, Proper, Walk, Shape, Left, OverRoots, OverPackages, Making,
     Publishing, Plain, Cleaning, OneStage, Orderly, Same, Removed, RemovedBefore, Bare, Present,
     Absent, Torn, Whole, TypeOK, Cooking, Fixed, world, target, published, process
<1>31. CASE publish_toml
  BY <1>31, PublishedPasses DEF publish_toml, Proper, Shape, OverRoots, OverPackages, Making,
     Publishing, Plain, Cleaning, OneStage, Orderly, Same, Removed, RemovedBefore, Bare, Present,
     Absent, Torn, Whole, TypeOK, Cooking, Fixed, world, target, published, process
<1>32. CASE nothing_to_publish
  BY <1>32, PublishedPasses DEF nothing_to_publish, Proper, Shape, OverRoots, OverPackages,
     Making, Publishing, Plain, Cleaning, OneStage, Orderly, Same, Removed, RemovedBefore, Bare,
     Present, Absent, Torn, Whole, TypeOK, Cooking, Fixed, world, target, published, process
<1>33. CASE tear_in_removal
  BY <1>33 DEF tear_in_removal, torn, Fails, Goto, Fault, Installing, Proper, Walk, Shape, Left,
     OverRoots, OverPackages, Making, Publishing, Plain, Cleaning, OneStage, Orderly, Same,
     Removed, RemovedBefore, Bare, Present, Absent, Torn, Whole, TypeOK, Cooking, Fixed, world,
     target, published, process
<1>34. CASE tear_in_auto_deps
  BY <1>34 DEF tear_in_auto_deps, torn, Fails, Goto, Fault, Proper, Walk, Shape, Left, OverRoots,
     OverPackages, Making, Publishing, Plain, Cleaning, OneStage, Orderly, Same, Removed,
     RemovedBefore, Bare, Present, Absent, Torn, Whole, TypeOK, Cooking, Fixed, world, target,
     published, process
<1>35. CASE tear_in_pkgar
  BY <1>35 DEF tear_in_pkgar, torn, Fails, Goto, Fault, Proper, Walk, Shape, Left, OverRoots,
     OverPackages, Making, Publishing, Plain, Cleaning, OneStage, Orderly, Same, Removed,
     RemovedBefore, Bare, Present, Absent, Torn, Whole, TypeOK, Cooking, Fixed, world, target,
     published, process
<1>36. CASE tear_in_meta
  BY <1>36 DEF tear_in_meta, torn, Fails, Goto, Fault, Proper, Walk, Shape, Left, OverRoots,
     OverPackages, Making, Publishing, Plain, Cleaning, OneStage, Orderly, Same, Removed,
     RemovedBefore, Bare, Present, Absent, Torn, Whole, TypeOK, Cooking, Fixed, world, target,
     published, process
<1>37. CASE tear_in_publish
  BY <1>37 DEF tear_in_publish, torn, Fails, Goto, Fault, Proper, Walk, Shape, Left, OverRoots,
     OverPackages, Making, Publishing, Plain, Cleaning, OneStage, Orderly, Same, Removed,
     RemovedBefore, Bare, Present, Absent, Torn, Whole, TypeOK, Cooking, Fixed, world, target,
     published, process
<1> QED
  BY <1>1, <1>2, <1>3, <1>4, <1>5, <1>6, <1>7, <1>8, <1>9, <1>10, <1>11, <1>12, <1>13, <1>14,
     <1>15, <1>16, <1>17, <1>18, <1>19, <1>20, <1>21, <1>22, <1>23, <1>24, <1>25, <1>26, <1>27,
     <1>28, <1>29, <1>30, <1>31, <1>32, <1>33, <1>34, <1>35, <1>36, <1>37 DEF Act

\* Each package has its own metadata.
LEMMA DescribedStep ==
  ASSUME Proper, Proper', Fixed, Act, AllDescribed, MetadataFits, NothingTorn, RemovedBefore,
     StageIsMade, PackagesAreMade
  PROVE  AllDescribed'
<1>1. CASE Aborted
  BY <1>1 DEF Aborted, Proper, Walk, Shape, Left, Making, Publishing, AllDescribed, Orderly,
     Described, Present, Absent, Torn, Whole, TypeOK, Fixed, world, target, published, process
<1>2. CASE edit_source
  BY <1>2 DEF edit_source, Proper, Walk, Shape, Left, Making, Publishing, AllDescribed, Orderly,
     Described, Present, Absent, Torn, Whole, TypeOK, Fixed, world, target, published, process
<1>3. CASE \E r \in Root : update_dependency(r)
  <2>1. PICK r \in Root : update_dependency(r)
    BY <1>3
  <2> QED
    BY <2>1 DEF update_dependency, Fixed, world, target, published, process, Proper, Walk, Shape,
       Left, Making, Publishing, AllDescribed, Orderly, Described, Present, Absent, Torn, Whole,
       TypeOK
<1>4. CASE begin
  <2>1. PICK clean \in setup.clean, is_deps \in setup.as_deps : handle_cook(clean, is_deps)
    BY <1>4 DEF begin
  <2> QED
    BY <2>1 DEF handle_cook, Goto, Proper, Walk, Shape, Left, Making, Publishing, AllDescribed,
       Orderly, Described, Present, Absent, Torn, Whole, TypeOK, Fixed, world, target, published,
       process
<1>5. CASE deps_cached
  BY <1>5, CachedPasses DEF deps_cached, Proper, Shape, Making, Publishing, AllDescribed,
     Orderly, Described, Present, Absent, Torn, Whole, TypeOK, Fixed, world, target, published,
     process
<1>6. CASE deps_kept
  BY <1>6, KeptPasses DEF deps_kept, Proper, Shape, Making, Publishing, AllDescribed, Orderly,
     Described, Present, Absent, Torn, Whole, TypeOK, Fixed, world, target, published, process
<1>7. CASE deps_remove
  BY <1>7 DEF deps_remove, Installing, NoDir, Empty, Proper, Walk, Shape, Left, Making,
     Publishing, AllDescribed, Orderly, Described, Present, Absent, Torn, Whole, TypeOK, Fixed,
     world, target, published, process
<1>8. CASE deps_install
  BY <1>8 DEF deps_install, Installing, Next_, Goto, Proper, Walk, Shape, Left, Making,
     Publishing, AllDescribed, Orderly, Described, Present, Absent, Torn, Whole, TypeOK, Fixed,
     world, target, published, process
<1>9. CASE newer_cached
  BY <1>9 DEF newer_cached, Goto, Proper, Walk, Shape, Left, Making, Publishing, AllDescribed,
     Orderly, Described, Present, Absent, Torn, Whole, TypeOK, Fixed, world, target, published,
     process
<1>10. CASE newer_rebuild
  BY <1>10 DEF newer_rebuild, Goto, Proper, Walk, Shape, Left, Making, Publishing, AllDescribed,
     Orderly, Described, Present, Absent, Torn, Whole, TypeOK, Fixed, world, target, published,
     process
<1>11. CASE remove_stage
  BY <1>11 DEF remove_stage, Proper, Walk, Shape, Left, Making, Publishing, AllDescribed,
     Orderly, Described, Present, Absent, Torn, Whole, TypeOK, Fixed, world, target, published,
     process
<1>12. CASE remove_pkgar
  BY <1>12 DEF remove_pkgar, Proper, Walk, Shape, Left, Making, Publishing, AllDescribed,
     Orderly, Described, Present, Absent, Torn, Whole, TypeOK, Fixed, world, target, published,
     process
<1>13. CASE remove_meta
  BY <1>13, RemovalPasses DEF remove_meta, Proper, Shape, Making, Publishing, AllDescribed,
     Orderly, Described, Present, Absent, Torn, Whole, TypeOK, Fixed, world, target, published,
     process
<1>14. CASE run_script
  BY <1>14 DEF run_script, Goto, Proper, Walk, Shape, Left, Making, Publishing, AllDescribed,
     Orderly, Described, Present, Absent, Torn, Whole, TypeOK, Fixed, world, target, published,
     process
<1>15. CASE tags_aside
  BY <1>15 DEF tags_aside, Goto, Proper, Walk, Shape, Left, Making, Publishing, AllDescribed,
     Orderly, Described, Present, Absent, Torn, Whole, TypeOK, Fixed, world, target, published,
     process
<1>16. CASE clean_dir
  BY <1>16 DEF clean_dir, Empty, Goto, Proper, Walk, Shape, Left, Making, Publishing,
     AllDescribed, Orderly, Described, Present, Absent, Torn, Whole, TypeOK, Fixed, world,
     target, published, process
<1>17. CASE tags_back
  BY <1>17 DEF tags_back, Goto, Proper, Walk, Shape, Left, Making, Publishing, AllDescribed,
     Orderly, Described, Present, Absent, Torn, Whole, TypeOK, Fixed, world, target, published,
     process
<1>18. CASE remote_cached
  BY <1>18 DEF remote_cached, Goto, Proper, Walk, Shape, Left, Making, Publishing, AllDescribed,
     Orderly, Described, Present, Absent, Torn, Whole, TypeOK, Fixed, world, target, published,
     process
<1>19. CASE remote_extract
  BY <1>19 DEF remote_extract, Goto, Proper, Walk, Shape, Left, Making, Publishing, AllDescribed,
     Orderly, Described, Present, Absent, Torn, Whole, TypeOK, Fixed, world, target, published,
     process
<1>20. CASE remote_forget
  BY <1>20 DEF remote_forget, Goto, Proper, Walk, Shape, Left, Making, Publishing, AllDescribed,
     Orderly, Described, Present, Absent, Torn, Whole, TypeOK, Fixed, world, target, published,
     process
<1>21. CASE write_auto_deps
  BY <1>21 DEF write_auto_deps, Goto, Proper, Walk, Shape, Left, Making, Publishing,
     AllDescribed, Orderly, Described, Present, Absent, Torn, Whole, TypeOK, Fixed, world,
     target, published, process
<1>22. CASE read_auto_deps
  BY <1>22 DEF read_auto_deps, Goto, Proper, Walk, Shape, Left, Making, Publishing, AllDescribed,
     Orderly, Described, Present, Absent, Torn, Whole, TypeOK, Fixed, world, target, published,
     process
<1>23. CASE drop_pkgar
  BY <1>23 DEF drop_pkgar, Goto, Proper, Walk, Shape, Left, Making, Publishing, AllDescribed,
     Orderly, Described, Present, Absent, Torn, Whole, TypeOK, Fixed, world, target, published,
     process
<1>24. CASE drop_meta
  BY <1>24 DEF drop_meta, Goto, Proper, Walk, Shape, Left, Making, Publishing, AllDescribed,
     Orderly, Described, Present, Absent, Torn, Whole, TypeOK, Fixed, world, target, published,
     process
<1>25. CASE keep_pkgar
  BY <1>25 DEF keep_pkgar, Goto, Proper, Walk, Shape, Left, Making, Publishing, AllDescribed,
     Orderly, Described, Present, Absent, Torn, Whole, TypeOK, Fixed, world, target, published,
     process
<1>26. CASE create_pkgar
  BY <1>26 DEF create_pkgar, Goto, Proper, Walk, Shape, Left, Making, Publishing, AllDescribed,
     Orderly, Described, Present, Absent, Torn, Whole, TypeOK, Fixed, world, target, published,
     process
<1>27. CASE keep_meta
  <2>1. /\ pc = "meta" /\ PackageDone /\ pkgar' = pkgar /\ meta' = meta /\ Present(meta[Head(todo)])
    BY <1>27 DEF keep_meta, target
  <2>2. Orderly => Described(Head(todo))
    <3>1. Orderly => Fits(Head(todo))
      BY <2>1, PackagePasses, SetupFacts DEF MetadataFits, Ordered, Orderly, Proper, Shape, Making
    <3>2. Orderly => meta[Head(todo)].state # "torn"
      BY <2>1, PackagePasses DEF NothingTorn, Untorn, Orderly
    <3> QED
      BY <2>1, <3>1, <3>2 DEF Fits, Described
  <2>3. \A p \in Package : Described(p) => Described(p)'
    BY <2>1 DEF Described
  <2>4. Described(Head(todo)) => \A p \in Package : p = Head(todo) => Described(p)'
    BY <2>1 DEF Described
  <2> QED
    BY <2>1, <2>2, <2>3, <2>4, PackagePasses DEF AllDescribed, Orderly, Making, Publishing, Fixed
<1>28. CASE write_meta
  <2>1. /\ pc = "meta" /\ PackageDone /\ pkgar' = pkgar /\ pkgar[Head(todo)].state = "whole"
        /\ meta' = [meta EXCEPT ![Head(todo)] = pkgar[Head(todo)]] /\ meta \in [Package -> File]
    BY <1>28 DEF write_meta, Proper, TypeOK
  <2>2. meta'[Head(todo)] = pkgar[Head(todo)]
    BY <2>1, PackagePasses
  <2>3. \A p \in Package : Described(p) => Described(p)'
    <3> SUFFICES ASSUME NEW p \in Package, Described(p) PROVE Described(p)'
      OBVIOUS
    <3> QED
      BY <2>1, <2>2 DEF Described
  <2>4. \A p \in Package : p = Head(todo) => Described(p)'
    BY <2>1, <2>2 DEF Described
  <2> QED
    BY <2>1, <2>2, <2>3, <2>4, PackagePasses DEF AllDescribed, Orderly, Making, Publishing, Fixed
<1>29. CASE clean_stage
  BY <1>29 DEF clean_stage, Goto, Proper, Walk, Shape, Left, Making, Publishing, AllDescribed,
     Orderly, Described, Present, Absent, Torn, Whole, TypeOK, Fixed, world, target, published,
     process
<1>30. CASE publish_pkgar
  BY <1>30 DEF publish_pkgar, Goto, Proper, Walk, Shape, Left, Making, Publishing, AllDescribed,
     Orderly, Described, Present, Absent, Torn, Whole, TypeOK, Fixed, world, target, published,
     process
<1>31. CASE publish_toml
  BY <1>31, PublishedPasses DEF publish_toml, Proper, Shape, Making, Publishing, AllDescribed,
     Orderly, Described, Present, Absent, Torn, Whole, TypeOK, Fixed, world, target, published,
     process
<1>32. CASE nothing_to_publish
  BY <1>32, PublishedPasses DEF nothing_to_publish, Proper, Shape, Making, Publishing,
     AllDescribed, Orderly, Described, Present, Absent, Torn, Whole, TypeOK, Fixed, world,
     target, published, process
<1>33. CASE tear_in_removal
  BY <1>33 DEF tear_in_removal, torn, Fails, Goto, Fault, Installing, Proper, Walk, Shape, Left,
     Making, Publishing, AllDescribed, Orderly, Described, Present, Absent, Torn, Whole, TypeOK,
     Fixed, world, target, published, process
<1>34. CASE tear_in_auto_deps
  BY <1>34 DEF tear_in_auto_deps, torn, Fails, Goto, Fault, Proper, Walk, Shape, Left, Making,
     Publishing, AllDescribed, Orderly, Described, Present, Absent, Torn, Whole, TypeOK, Fixed,
     world, target, published, process
<1>35. CASE tear_in_pkgar
  BY <1>35 DEF tear_in_pkgar, torn, Fails, Goto, Fault, Proper, Walk, Shape, Left, Making,
     Publishing, AllDescribed, Orderly, Described, Present, Absent, Torn, Whole, TypeOK, Fixed,
     world, target, published, process
<1>36. CASE tear_in_meta
  BY <1>36 DEF tear_in_meta, torn, Fails, Goto, Fault, Proper, Walk, Shape, Left, Making,
     Publishing, AllDescribed, Orderly, Described, Present, Absent, Torn, Whole, TypeOK, Fixed,
     world, target, published, process
<1>37. CASE tear_in_publish
  BY <1>37 DEF tear_in_publish, torn, Fails, Goto, Fault, Proper, Walk, Shape, Left, Making,
     Publishing, AllDescribed, Orderly, Described, Present, Absent, Torn, Whole, TypeOK, Fixed,
     world, target, published, process
<1> QED
  BY <1>1, <1>2, <1>3, <1>4, <1>5, <1>6, <1>7, <1>8, <1>9, <1>10, <1>11, <1>12, <1>13, <1>14,
     <1>15, <1>16, <1>17, <1>18, <1>19, <1>20, <1>21, <1>22, <1>23, <1>24, <1>25, <1>26, <1>27,
     <1>28, <1>29, <1>30, <1>31, <1>32, <1>33, <1>34, <1>35, <1>36, <1>37 DEF Act

\* The repository follows.
LEMMA RepositoryStep ==
  ASSUME Proper, Proper', Fixed, Act, AllDescribed, RepositoryFollows
  PROVE  RepositoryFollows'
<1>1. CASE Aborted
  BY <1>1 DEF Aborted, Proper, Walk, Shape, Left, OverPackages, Making, Publishing, AllDescribed,
     Orderly, Described, RepositoryFollows, Present, Absent, Torn, Whole, TypeOK, Fixed, world,
     target, published, process
<1>2. CASE edit_source
  BY <1>2 DEF edit_source, Proper, Walk, Shape, Left, OverPackages, Making, Publishing,
     AllDescribed, Orderly, Described, RepositoryFollows, Present, Absent, Torn, Whole, TypeOK,
     Fixed, world, target, published, process
<1>3. CASE \E r \in Root : update_dependency(r)
  <2>1. PICK r \in Root : update_dependency(r)
    BY <1>3
  <2> QED
    BY <2>1 DEF update_dependency, Fixed, world, target, published, process, Proper, Walk, Shape,
       Left, OverPackages, Making, Publishing, AllDescribed, Orderly, Described,
       RepositoryFollows, Present, Absent, Torn, Whole, TypeOK
<1>4. CASE begin
  <2>1. PICK clean \in setup.clean, is_deps \in setup.as_deps : handle_cook(clean, is_deps)
    BY <1>4 DEF begin
  <2> QED
    BY <2>1 DEF handle_cook, Goto, Proper, Walk, Shape, Left, OverPackages, Making, Publishing,
       AllDescribed, Orderly, Described, RepositoryFollows, Present, Absent, Torn, Whole, TypeOK,
       Fixed, world, target, published, process
<1>5. CASE deps_cached
  BY <1>5, CachedPasses DEF deps_cached, Proper, Shape, OverPackages, Making, Publishing,
     AllDescribed, Orderly, Described, RepositoryFollows, Present, Absent, Torn, Whole, TypeOK,
     Fixed, world, target, published, process
<1>6. CASE deps_kept
  BY <1>6, KeptPasses DEF deps_kept, Proper, Shape, OverPackages, Making, Publishing,
     AllDescribed, Orderly, Described, RepositoryFollows, Present, Absent, Torn, Whole, TypeOK,
     Fixed, world, target, published, process
<1>7. CASE deps_remove
  BY <1>7 DEF deps_remove, Installing, NoDir, Empty, Proper, Walk, Shape, Left, OverPackages,
     Making, Publishing, AllDescribed, Orderly, Described, RepositoryFollows, Present, Absent,
     Torn, Whole, TypeOK, Fixed, world, target, published, process
<1>8. CASE deps_install
  BY <1>8 DEF deps_install, Installing, Next_, Goto, Proper, Walk, Shape, Left, OverPackages,
     Making, Publishing, AllDescribed, Orderly, Described, RepositoryFollows, Present, Absent,
     Torn, Whole, TypeOK, Fixed, world, target, published, process
<1>9. CASE newer_cached
  BY <1>9 DEF newer_cached, Goto, Proper, Walk, Shape, Left, OverPackages, Making, Publishing,
     AllDescribed, Orderly, Described, RepositoryFollows, Present, Absent, Torn, Whole, TypeOK,
     Fixed, world, target, published, process
<1>10. CASE newer_rebuild
  BY <1>10 DEF newer_rebuild, Goto, Proper, Walk, Shape, Left, OverPackages, Making, Publishing,
     AllDescribed, Orderly, Described, RepositoryFollows, Present, Absent, Torn, Whole, TypeOK,
     Fixed, world, target, published, process
<1>11. CASE remove_stage
  BY <1>11 DEF remove_stage, Proper, Walk, Shape, Left, OverPackages, Making, Publishing,
     AllDescribed, Orderly, Described, RepositoryFollows, Present, Absent, Torn, Whole, TypeOK,
     Fixed, world, target, published, process
<1>12. CASE remove_pkgar
  BY <1>12 DEF remove_pkgar, Proper, Walk, Shape, Left, OverPackages, Making, Publishing,
     AllDescribed, Orderly, Described, RepositoryFollows, Present, Absent, Torn, Whole, TypeOK,
     Fixed, world, target, published, process
<1>13. CASE remove_meta
  BY <1>13, RemovalPasses DEF remove_meta, Proper, Shape, OverPackages, Making, Publishing,
     AllDescribed, Orderly, Described, RepositoryFollows, Present, Absent, Torn, Whole, TypeOK,
     Fixed, world, target, published, process
<1>14. CASE run_script
  BY <1>14 DEF run_script, Goto, Proper, Walk, Shape, Left, OverPackages, Making, Publishing,
     AllDescribed, Orderly, Described, RepositoryFollows, Present, Absent, Torn, Whole, TypeOK,
     Fixed, world, target, published, process
<1>15. CASE tags_aside
  BY <1>15 DEF tags_aside, Goto, Proper, Walk, Shape, Left, OverPackages, Making, Publishing,
     AllDescribed, Orderly, Described, RepositoryFollows, Present, Absent, Torn, Whole, TypeOK,
     Fixed, world, target, published, process
<1>16. CASE clean_dir
  BY <1>16 DEF clean_dir, Empty, Goto, Proper, Walk, Shape, Left, OverPackages, Making,
     Publishing, AllDescribed, Orderly, Described, RepositoryFollows, Present, Absent, Torn,
     Whole, TypeOK, Fixed, world, target, published, process
<1>17. CASE tags_back
  BY <1>17 DEF tags_back, Goto, Proper, Walk, Shape, Left, OverPackages, Making, Publishing,
     AllDescribed, Orderly, Described, RepositoryFollows, Present, Absent, Torn, Whole, TypeOK,
     Fixed, world, target, published, process
<1>18. CASE remote_cached
  BY <1>18 DEF remote_cached, Goto, Proper, Walk, Shape, Left, OverPackages, Making, Publishing,
     AllDescribed, Orderly, Described, RepositoryFollows, Present, Absent, Torn, Whole, TypeOK,
     Fixed, world, target, published, process
<1>19. CASE remote_extract
  BY <1>19 DEF remote_extract, Goto, Proper, Walk, Shape, Left, OverPackages, Making, Publishing,
     AllDescribed, Orderly, Described, RepositoryFollows, Present, Absent, Torn, Whole, TypeOK,
     Fixed, world, target, published, process
<1>20. CASE remote_forget
  BY <1>20 DEF remote_forget, Goto, Proper, Walk, Shape, Left, OverPackages, Making, Publishing,
     AllDescribed, Orderly, Described, RepositoryFollows, Present, Absent, Torn, Whole, TypeOK,
     Fixed, world, target, published, process
<1>21. CASE write_auto_deps
  BY <1>21 DEF write_auto_deps, Goto, Proper, Walk, Shape, Left, OverPackages, Making,
     Publishing, AllDescribed, Orderly, Described, RepositoryFollows, Present, Absent, Torn,
     Whole, TypeOK, Fixed, world, target, published, process
<1>22. CASE read_auto_deps
  BY <1>22 DEF read_auto_deps, Goto, Proper, Walk, Shape, Left, OverPackages, Making, Publishing,
     AllDescribed, Orderly, Described, RepositoryFollows, Present, Absent, Torn, Whole, TypeOK,
     Fixed, world, target, published, process
<1>23. CASE drop_pkgar
  BY <1>23 DEF drop_pkgar, Goto, Proper, Walk, Shape, Left, OverPackages, Making, Publishing,
     AllDescribed, Orderly, Described, RepositoryFollows, Present, Absent, Torn, Whole, TypeOK,
     Fixed, world, target, published, process
<1>24. CASE drop_meta
  BY <1>24 DEF drop_meta, Goto, Proper, Walk, Shape, Left, OverPackages, Making, Publishing,
     AllDescribed, Orderly, Described, RepositoryFollows, Present, Absent, Torn, Whole, TypeOK,
     Fixed, world, target, published, process
<1>25. CASE keep_pkgar
  BY <1>25 DEF keep_pkgar, Goto, Proper, Walk, Shape, Left, OverPackages, Making, Publishing,
     AllDescribed, Orderly, Described, RepositoryFollows, Present, Absent, Torn, Whole, TypeOK,
     Fixed, world, target, published, process
<1>26. CASE create_pkgar
  BY <1>26 DEF create_pkgar, Goto, Proper, Walk, Shape, Left, OverPackages, Making, Publishing,
     AllDescribed, Orderly, Described, RepositoryFollows, Present, Absent, Torn, Whole, TypeOK,
     Fixed, world, target, published, process
<1>27. CASE keep_meta
  BY <1>27, MetaPasses DEF keep_meta, Proper, Shape, OverPackages, Making, Publishing,
     AllDescribed, Orderly, Described, RepositoryFollows, Present, Absent, Torn, Whole, TypeOK,
     Fixed, world, target, published, process
<1>28. CASE write_meta
  BY <1>28, MetaPasses DEF write_meta, Proper, Shape, OverPackages, Making, Publishing,
     AllDescribed, Orderly, Described, RepositoryFollows, Present, Absent, Torn, Whole, TypeOK,
     Fixed, world, target, published, process
<1>29. CASE clean_stage
  BY <1>29 DEF clean_stage, Goto, Proper, Walk, Shape, Left, OverPackages, Making, Publishing,
     AllDescribed, Orderly, Described, RepositoryFollows, Present, Absent, Torn, Whole, TypeOK,
     Fixed, world, target, published, process
<1>30. CASE publish_pkgar
  BY <1>30 DEF publish_pkgar, Goto, Proper, Walk, Shape, Left, OverPackages, Making, Publishing,
     AllDescribed, Orderly, Described, RepositoryFollows, Present, Absent, Torn, Whole, TypeOK,
     Fixed, world, target, published, process
<1>31. CASE publish_toml
  <2>1. /\ pc = "publish_toml" /\ Published /\ meta' = meta /\ pkgar' = pkgar /\ Head(todo) \in Package
        /\ repo' = [repo EXCEPT ![Head(todo)].meta = meta[Head(todo)]]
        /\ unpublished' = unpublished \ {Head(todo)}
        /\ repo \in [Package -> [pkgar : File, meta : File]]
    BY <1>31, PublishPasses DEF publish_toml, Proper, TypeOK, target
  <2>2. /\ \A p \in Package : p # Head(todo) => repo'[p] = repo[p]
        /\ repo'[Head(todo)].meta = meta[Head(todo)] /\ repo'[Head(todo)].pkgar = repo[Head(todo)].pkgar
    BY <2>1
  <2>3. Orderly => repo[Head(todo)].pkgar = meta[Head(todo)]
    BY <2>1 DEF RepositoryFollows, AllDescribed, Described, Publishing
  <2> QED
    BY <2>1, <2>2, <2>3, PublishPasses DEF RepositoryFollows, Orderly, Fixed
<1>32. CASE nothing_to_publish
  BY <1>32, PublishedPasses DEF nothing_to_publish, Proper, Shape, OverPackages, Making,
     Publishing, AllDescribed, Orderly, Described, RepositoryFollows, Present, Absent, Torn,
     Whole, TypeOK, Fixed, world, target, published, process
<1>33. CASE tear_in_removal
  BY <1>33 DEF tear_in_removal, torn, Fails, Goto, Fault, Installing, Proper, Walk, Shape, Left,
     OverPackages, Making, Publishing, AllDescribed, Orderly, Described, RepositoryFollows,
     Present, Absent, Torn, Whole, TypeOK, Fixed, world, target, published, process
<1>34. CASE tear_in_auto_deps
  BY <1>34 DEF tear_in_auto_deps, torn, Fails, Goto, Fault, Proper, Walk, Shape, Left,
     OverPackages, Making, Publishing, AllDescribed, Orderly, Described, RepositoryFollows,
     Present, Absent, Torn, Whole, TypeOK, Fixed, world, target, published, process
<1>35. CASE tear_in_pkgar
  BY <1>35 DEF tear_in_pkgar, torn, Fails, Goto, Fault, Proper, Walk, Shape, Left, OverPackages,
     Making, Publishing, AllDescribed, Orderly, Described, RepositoryFollows, Present, Absent,
     Torn, Whole, TypeOK, Fixed, world, target, published, process
<1>36. CASE tear_in_meta
  BY <1>36 DEF tear_in_meta, torn, Fails, Goto, Fault, Proper, Walk, Shape, Left, OverPackages,
     Making, Publishing, AllDescribed, Orderly, Described, RepositoryFollows, Present, Absent,
     Torn, Whole, TypeOK, Fixed, world, target, published, process
<1>37. CASE tear_in_publish
  BY <1>37 DEF tear_in_publish, torn, Fails, Goto, Fault, Proper, Walk, Shape, Left,
     OverPackages, Making, Publishing, AllDescribed, Orderly, Described, RepositoryFollows,
     Present, Absent, Torn, Whole, TypeOK, Fixed, world, target, published, process
<1> QED
  BY <1>1, <1>2, <1>3, <1>4, <1>5, <1>6, <1>7, <1>8, <1>9, <1>10, <1>11, <1>12, <1>13, <1>14,
     <1>15, <1>16, <1>17, <1>18, <1>19, <1>20, <1>21, <1>22, <1>23, <1>24, <1>25, <1>26, <1>27,
     <1>28, <1>29, <1>30, <1>31, <1>32, <1>33, <1>34, <1>35, <1>36, <1>37 DEF Act

\* The tags of the directories, where nothing but scripts fails.
LEMMA TagsStep ==
  ASSUME Proper, Proper', Fixed, Act, TagsFit
  PROVE  TagsFit'
<1>1. CASE Aborted
  <2>1. /\ dir' = dir /\ dependency' = dependency
        /\ pc # "idle" /\ pc' = "idle" /\ (pc = "clean_dir" => "kill" \in Faults)
    BY <1>1 DEF Aborted
  <2>2. \A r \in Root : (Cached(r)' <=> Cached(r)) /\ (CanMove(r)' <=> CanMove(r))
    BY <2>1 DEF Cached, CanMove
  <2> QED
    BY <2>1, <2>2 DEF TagsFit, Calm, Uniform, Fixed, Cleaning, Making, Publishing
<1>2. CASE edit_source
  BY <1>2, RangeFacts, DirectoryFacts DEF edit_source, Proper, Walk, Shape, Left, OverRoots,
     Making, Publishing, Cleaning, TagsFit, Calm, Uniform, Cached, CanMove, TypeOK, Cooking,
     Fixed, world, target, published, process
<1>3. CASE \E r \in Root : update_dependency(r)
  <2>1. PICK r \in Root : update_dependency(r)
    BY <1>3
  <2> QED
    BY <2>1, RangeFacts, DirectoryFacts DEF update_dependency, Fixed, world, target, published,
       process, Proper, Walk, Shape, Left, OverRoots, Making, Publishing, Cleaning, TagsFit,
       Calm, Uniform, Cached, CanMove, TypeOK, Cooking
<1>4. CASE begin
  <2>0. PICK clean \in setup.clean, is_deps \in setup.as_deps : handle_cook(clean, is_deps)
    BY <1>4 DEF begin
  <2>1. /\ pc = "idle" /\ dir' = dir /\ dependency' = dependency /\ cook'.fresh = {}
        /\ pc' = "deps" => Left' = Root
        /\ pc' \in {"deps", "remote", "auto_deps"} /\ (pc' = "auto_deps" => cook'.cached)
    BY <2>0 DEF handle_cook, Goto, Left, Root, world, target
  <2>2. \A r \in Root : (Cached(r)' <=> Cached(r)) /\ (CanMove(r)' <=> CanMove(r))
    BY <2>1 DEF Cached, CanMove
  <2> QED
    BY <2>1, <2>2 DEF TagsFit, Calm, Uniform, Fixed, Cleaning, Making, Publishing
<1>5. CASE deps_cached
  <2>1. /\ dir' = dir /\ dependency' = dependency /\ Cached(Head(todo))
        /\ cook'.fresh = cook.fresh \cup {Head(todo)}
    BY <1>5 DEF deps_cached, Proper, TypeOK, Cooking, world, target
  <2>2. \A r \in Root : (Cached(r)' <=> Cached(r)) /\ (CanMove(r)' <=> CanMove(r))
    BY <2>1 DEF Cached, CanMove
  <2>3. Left \subseteq Root /\ cook.fresh \subseteq Root
    BY <1>5, CachedPasses DEF Proper, Walk, OverRoots, TypeOK, Cooking
  <2> QED
    BY <1>5, <2>1, <2>2, <2>3, CachedPasses DEF TagsFit, Calm, Uniform, Fixed, Cleaning, Making,
       Publishing
<1>6. CASE deps_kept
  <2>1. dir' = dir /\ dependency' = dependency /\ cook' = cook
    BY <1>6 DEF deps_kept, world, target
  <2>2. \A r \in Root : (Cached(r)' <=> Cached(r)) /\ (CanMove(r)' <=> CanMove(r))
    BY <2>1 DEF Cached, CanMove
  <2> QED
    BY <1>6, <2>1, <2>2, KeptPasses DEF TagsFit, Calm, Uniform, Fixed, Cleaning, Making, Publishing
<1>7. CASE deps_remove
  <2>1. /\ Head(todo) \in Root /\ dir \in [Root -> Directory] /\ dependency' = dependency
        /\ cook' = cook /\ cook.fresh \subseteq Root
    BY <1>7 DEF deps_remove, Installing, NoDir, Empty, Proper, TypeOK, Cooking, Walk, OverRoots,
       world, process
  <2>2. \A r \in Root : r # Head(todo) => dir'[r] = dir[r]
    BY <1>7, <2>1 DEF deps_remove, Installing, NoDir, Empty
  <2>3. dir'[Head(todo)].tags = 0 /\ dir'[Head(todo)].place = "absent"
    BY <1>7, <2>1, DirectoryFacts DEF deps_remove, Installing, NoDir, Empty, Directory, Empty, NoDir
  <2>4. pc \in {"deps", "deps_again"} /\ pc' = pc /\ todo' = todo /\ Left' = Left
    BY <1>7 DEF deps_remove, Installing, process, Left
  <2>5. \A r \in Root : r # Head(todo) => (Cached(r)' <=> Cached(r)) /\ (CanMove(r)' <=> CanMove(r))
    BY <2>1, <2>2 DEF Cached, CanMove
  <2>6. /\ Head(todo) \in Left /\ (pc = "deps_again" => Head(todo) \in cook.fresh)
        /\ \A r \in Root : r = Head(todo) => CanMove(r)'
        /\ pc = "deps" => ~Cached(Head(todo))
    BY <1>7, <2>1, <2>3, <2>4 DEF deps_remove, Installing, CanMove, Proper, Walk, OverRoots
  <2> QED
    BY <2>1, <2>2, <2>4, <2>5, <2>6 DEF TagsFit, Calm, Uniform, Fixed, Cleaning, Making, Publishing
<1>8. CASE deps_install
  <2>1. /\ Head(todo) \in Root /\ dir \in [Root -> Directory] /\ dependency' = dependency
        /\ cook' = cook /\ cook.fresh \subseteq Root
    BY <1>8 DEF deps_install, Installing, Next_, Goto, Proper, TypeOK, Cooking, Walk, OverRoots,
       world, process
  <2>2. \A r \in Root : r # Head(todo) => dir'[r] = dir[r]
    BY <1>8, <2>1 DEF deps_install, Installing, Next_, Goto
  <2>3. /\ dir'[Head(todo)].tags = dependency[Head(todo)] /\ dir'[Head(todo)].place = "full"
        /\ dir'[Head(todo)].version = dependency[Head(todo)]
    BY <1>8, <2>1, DirectoryFacts DEF deps_install, Installing, Next_, Goto, Directory, Empty, NoDir
  <2>4. \/ pc' = pc /\ Left' = Left \ {Head(todo)} /\ pc \in {"deps", "deps_again"}
        \/ pc = "deps" /\ pc' = "newer" /\ Left = {Head(todo)}
        \/ pc = "deps_again" /\ pc' = "script" /\ Left = {Head(todo)}
    <3>1. CASE pc = "deps"
      BY <1>8, <3>1, OnePasses DEF deps_install, Proper, Walk, OverRoots
    <3>2. CASE pc = "deps_again"
      BY <1>8, <3>2, OnePasses DEF deps_install, Proper, Walk, OverRoots
    <3> QED
      BY <1>8, <3>1, <3>2 DEF deps_install, Installing
  <2>5. \A r \in Root : r # Head(todo) => (Cached(r)' <=> Cached(r)) /\ (CanMove(r)' <=> CanMove(r))
    BY <2>1, <2>2 DEF Cached, CanMove
  <2>6. \A r \in Root : r = Head(todo) => Cached(r)' /\ dir'[r].tags # 0
    BY <2>1, <2>3, RangeFacts DEF Cached, Proper
  <2>7. Calm /\ pc = "deps" => Head(todo) \notin cook.fresh
    BY <2>4 DEF TagsFit, Proper, Walk, OverRoots
  <2> QED
    BY <2>1, <2>2, <2>4, <2>5, <2>6, <2>7 DEF TagsFit, Calm, Uniform, Fixed, Cleaning, Making,
       Publishing
<1>9. CASE newer_cached
  BY <1>9, RangeFacts, DirectoryFacts DEF newer_cached, Goto, Outdated, Proper, Walk, Shape,
     Left, OverRoots, Making, Publishing, Cleaning, TagsFit, Calm, Uniform, Cached, CanMove,
     TypeOK, Cooking, Fixed, world, target, published, process
<1>10. CASE newer_rebuild
  BY <1>10, RangeFacts, DirectoryFacts DEF newer_rebuild, Goto, Proper, Walk, Shape, Left,
     OverRoots, Making, Publishing, Cleaning, TagsFit, Calm, Uniform, Cached, CanMove, TypeOK,
     Cooking, Fixed, world, target, published, process
<1>11. CASE remove_stage
  BY <1>11, RangeFacts, DirectoryFacts DEF remove_stage, Proper, Walk, Shape, Left, OverRoots,
     Making, Publishing, Cleaning, TagsFit, Calm, Uniform, Cached, CanMove, TypeOK, Cooking,
     Fixed, world, target, published, process
<1>12. CASE remove_pkgar
  BY <1>12, RangeFacts, DirectoryFacts DEF remove_pkgar, Proper, Walk, Shape, Left, OverRoots,
     Making, Publishing, Cleaning, TagsFit, Calm, Uniform, Cached, CanMove, TypeOK, Cooking,
     Fixed, world, target, published, process
<1>13. CASE remove_meta
  <2>1. dir' = dir /\ dependency' = dependency /\ cook' = cook
    BY <1>13 DEF remove_meta, world, target
  <2>2. \A r \in Root : (Cached(r)' <=> Cached(r)) /\ (CanMove(r)' <=> CanMove(r))
    BY <2>1 DEF Cached, CanMove
  <2> QED
    BY <1>13, <2>1, <2>2, RemovalPasses DEF TagsFit, Calm, Uniform, Fixed, Cleaning, Making,
       Publishing
<1>14. CASE run_script
  BY <1>14, RangeFacts, DirectoryFacts DEF run_script, Goto, Proper, Walk, Shape, Left,
     OverRoots, Making, Publishing, Cleaning, TagsFit, Calm, Uniform, Cached, CanMove, TypeOK,
     Cooking, Fixed, world, target, published, process
<1>15. CASE tags_aside
  <2>1. /\ Head(todo) \in Root /\ dir \in [Root -> Directory] /\ dependency' = dependency
        /\ cook' = cook /\ cook.fresh \subseteq Root
    BY <1>15 DEF tags_aside, Goto, Proper, TypeOK, Cooking, Walk, OverRoots, world, process
  <2>2. \A r \in Root : r # Head(todo) => dir'[r] = dir[r]
    BY <1>15, <2>1 DEF tags_aside, Goto
  <2>3. dir'[Head(todo)].tags = 0
    BY <1>15, <2>1, DirectoryFacts DEF tags_aside, Goto, Directory, Empty, NoDir
  <2>4. pc = "tags_aside" /\ pc' = "clean_dir" /\ todo' = todo
    BY <1>15 DEF tags_aside, Goto
  <2>5. \A r \in Root : r # Head(todo) => (CanMove(r)' <=> CanMove(r))
    BY <2>1, <2>2 DEF CanMove
  <2> QED
    BY <2>1, <2>2, <2>3, <2>4, <2>5 DEF TagsFit, Calm, Uniform, Fixed, Cleaning
<1>16. CASE clean_dir
  BY <1>16, RangeFacts, DirectoryFacts DEF clean_dir, Empty, Goto, Proper, Walk, Shape, Left,
     OverRoots, Making, Publishing, Cleaning, TagsFit, Calm, Uniform, Cached, CanMove, TypeOK,
     Cooking, Fixed, world, target, published, process
<1>17. CASE tags_back
  <2>1. /\ Head(todo) \in Root /\ dir \in [Root -> Directory] /\ dependency' = dependency
        /\ cook' = cook /\ cook.fresh \subseteq Root
    BY <1>17 DEF tags_back, Goto, Proper, TypeOK, Cooking, Walk, OverRoots, world, process
  <2>2. \A r \in Root : r # Head(todo) => dir'[r] = dir[r]
    BY <1>17, <2>1 DEF tags_back, Goto
  <2>3. dir'[Head(todo)].tags = dependency[Head(todo)]
    BY <1>17, <2>1, DirectoryFacts DEF tags_back, Goto, Directory, Empty, NoDir
  <2>4. pc = "tags_back" /\ pc' \in {"tags_aside", "auto_deps"}
    BY <1>17 DEF tags_back, Goto
  <2>5. \A r \in Root : r # Head(todo) => (CanMove(r)' <=> CanMove(r))
    BY <2>1, <2>2 DEF CanMove
  <2>6. dir'[Head(todo)].tags # 0
    BY <2>1, <2>3, RangeFacts DEF Proper
  <2> QED
    BY <2>1, <2>2, <2>3, <2>4, <2>5, <2>6 DEF TagsFit, Calm, Uniform, Fixed, Cleaning
<1>18. CASE remote_cached
  BY <1>18, RangeFacts, DirectoryFacts DEF remote_cached, Goto, Proper, Walk, Shape, Left,
     OverRoots, Making, Publishing, Cleaning, TagsFit, Calm, Uniform, Cached, CanMove, TypeOK,
     Cooking, Fixed, world, target, published, process
<1>19. CASE remote_extract
  BY <1>19, RangeFacts, DirectoryFacts DEF remote_extract, Goto, Proper, Walk, Shape, Left,
     OverRoots, Making, Publishing, Cleaning, TagsFit, Calm, Uniform, Cached, CanMove, TypeOK,
     Cooking, Fixed, world, target, published, process
<1>20. CASE remote_forget
  BY <1>20, RangeFacts, DirectoryFacts DEF remote_forget, Goto, Proper, Walk, Shape, Left,
     OverRoots, Making, Publishing, Cleaning, TagsFit, Calm, Uniform, Cached, CanMove, TypeOK,
     Cooking, Fixed, world, target, published, process
<1>21. CASE write_auto_deps
  BY <1>21, RangeFacts, DirectoryFacts DEF write_auto_deps, Goto, Proper, Walk, Shape, Left,
     OverRoots, Making, Publishing, Cleaning, TagsFit, Calm, Uniform, Cached, CanMove, TypeOK,
     Cooking, Fixed, world, target, published, process
<1>22. CASE read_auto_deps
  BY <1>22, RangeFacts, DirectoryFacts DEF read_auto_deps, Goto, Proper, Walk, Shape, Left,
     OverRoots, Making, Publishing, Cleaning, TagsFit, Calm, Uniform, Cached, CanMove, TypeOK,
     Cooking, Fixed, world, target, published, process
<1>23. CASE drop_pkgar
  BY <1>23, RangeFacts, DirectoryFacts DEF drop_pkgar, Goto, Proper, Walk, Shape, Left,
     OverRoots, Making, Publishing, Cleaning, TagsFit, Calm, Uniform, Cached, CanMove, TypeOK,
     Cooking, Fixed, world, target, published, process
<1>24. CASE drop_meta
  BY <1>24, RangeFacts, DirectoryFacts DEF drop_meta, Goto, Proper, Walk, Shape, Left, OverRoots,
     Making, Publishing, Cleaning, TagsFit, Calm, Uniform, Cached, CanMove, TypeOK, Cooking,
     Fixed, world, target, published, process
<1>25. CASE keep_pkgar
  BY <1>25, RangeFacts, DirectoryFacts DEF keep_pkgar, Goto, Proper, Walk, Shape, Left,
     OverRoots, Making, Publishing, Cleaning, TagsFit, Calm, Uniform, Cached, CanMove, TypeOK,
     Cooking, Fixed, world, target, published, process
<1>26. CASE create_pkgar
  BY <1>26, RangeFacts, DirectoryFacts DEF create_pkgar, Goto, Proper, Walk, Shape, Left,
     OverRoots, Making, Publishing, Cleaning, TagsFit, Calm, Uniform, Cached, CanMove, TypeOK,
     Cooking, Fixed, world, target, published, process
<1>27. CASE keep_meta
  <2>1. dir' = dir /\ dependency' = dependency /\ cook' = cook
    BY <1>27 DEF keep_meta, world, target
  <2>2. \A r \in Root : (Cached(r)' <=> Cached(r)) /\ (CanMove(r)' <=> CanMove(r))
    BY <2>1 DEF Cached, CanMove
  <2> QED
    BY <1>27, <2>1, <2>2, MetaPasses DEF TagsFit, Calm, Uniform, Fixed, Cleaning, Making, Publishing
<1>28. CASE write_meta
  <2>1. dir' = dir /\ dependency' = dependency /\ cook' = cook
    BY <1>28 DEF write_meta, world, target
  <2>2. \A r \in Root : (Cached(r)' <=> Cached(r)) /\ (CanMove(r)' <=> CanMove(r))
    BY <2>1 DEF Cached, CanMove
  <2> QED
    BY <1>28, <2>1, <2>2, MetaPasses DEF TagsFit, Calm, Uniform, Fixed, Cleaning, Making, Publishing
<1>29. CASE clean_stage
  BY <1>29, RangeFacts, DirectoryFacts DEF clean_stage, Goto, Proper, Walk, Shape, Left,
     OverRoots, Making, Publishing, Cleaning, TagsFit, Calm, Uniform, Cached, CanMove, TypeOK,
     Cooking, Fixed, world, target, published, process
<1>30. CASE publish_pkgar
  BY <1>30, RangeFacts, DirectoryFacts DEF publish_pkgar, Goto, Proper, Walk, Shape, Left,
     OverRoots, Making, Publishing, Cleaning, TagsFit, Calm, Uniform, Cached, CanMove, TypeOK,
     Cooking, Fixed, world, target, published, process
<1>31. CASE publish_toml
  <2>1. dir' = dir /\ dependency' = dependency
    BY <1>31 DEF publish_toml, world, target
  <2>2. \A r \in Root : (Cached(r)' <=> Cached(r)) /\ (CanMove(r)' <=> CanMove(r))
    BY <2>1 DEF Cached, CanMove
  <2> QED
    BY <1>31, <2>1, <2>2, PublishedPasses DEF TagsFit, Calm, Uniform, Fixed, Cleaning, Making,
       Publishing
<1>32. CASE nothing_to_publish
  <2>1. dir' = dir /\ dependency' = dependency
    BY <1>32 DEF nothing_to_publish, world, target
  <2>2. \A r \in Root : (Cached(r)' <=> Cached(r)) /\ (CanMove(r)' <=> CanMove(r))
    BY <2>1 DEF Cached, CanMove
  <2> QED
    BY <1>32, <2>1, <2>2, PublishedPasses DEF TagsFit, Calm, Uniform, Fixed, Cleaning, Making,
       Publishing
<1>33. CASE tear_in_removal
  BY <1>33, RangeFacts, DirectoryFacts DEF tear_in_removal, torn, Fails, Goto, Fault, Installing,
     Proper, Walk, Shape, Left, OverRoots, Making, Publishing, Cleaning, TagsFit, Calm, Uniform,
     Cached, CanMove, TypeOK, Cooking, Fixed, world, target, published, process
<1>34. CASE tear_in_auto_deps
  BY <1>34, RangeFacts, DirectoryFacts DEF tear_in_auto_deps, torn, Fails, Goto, Fault, Proper,
     Walk, Shape, Left, OverRoots, Making, Publishing, Cleaning, TagsFit, Calm, Uniform, Cached,
     CanMove, TypeOK, Cooking, Fixed, world, target, published, process
<1>35. CASE tear_in_pkgar
  BY <1>35, RangeFacts, DirectoryFacts DEF tear_in_pkgar, torn, Fails, Goto, Fault, Proper, Walk,
     Shape, Left, OverRoots, Making, Publishing, Cleaning, TagsFit, Calm, Uniform, Cached,
     CanMove, TypeOK, Cooking, Fixed, world, target, published, process
<1>36. CASE tear_in_meta
  BY <1>36, RangeFacts, DirectoryFacts DEF tear_in_meta, torn, Fails, Goto, Fault, Proper, Walk,
     Shape, Left, OverRoots, Making, Publishing, Cleaning, TagsFit, Calm, Uniform, Cached,
     CanMove, TypeOK, Cooking, Fixed, world, target, published, process
<1>37. CASE tear_in_publish
  BY <1>37, RangeFacts, DirectoryFacts DEF tear_in_publish, torn, Fails, Goto, Fault, Proper,
     Walk, Shape, Left, OverRoots, Making, Publishing, Cleaning, TagsFit, Calm, Uniform, Cached,
     CanMove, TypeOK, Cooking, Fixed, world, target, published, process
<1> QED
  BY <1>1, <1>2, <1>3, <1>4, <1>5, <1>6, <1>7, <1>8, <1>9, <1>10, <1>11, <1>12, <1>13, <1>14,
     <1>15, <1>16, <1>17, <1>18, <1>19, <1>20, <1>21, <1>22, <1>23, <1>24, <1>25, <1>26, <1>27,
     <1>28, <1>29, <1>30, <1>31, <1>32, <1>33, <1>34, <1>35, <1>36, <1>37 DEF Act

\* What the packages were built against, where nothing but scripts fails.
LEMMA DependenciesStep ==
  ASSUME Proper, Proper', Fixed, Act, TagsFit, TagsFit', DependenciesFit, DirectoriesFit,
     RemovedBefore, MetadataFits, StageIsMade, OneStage, NothingTorn
  PROVE  DependenciesFit'
<1>1. CASE Aborted
  <2>1. /\ pc # "idle" /\ pc' = "idle" /\ dir' = dir /\ pkgar' = pkgar /\ dependency' = dependency
    BY <1>1 DEF Aborted
  <2>2. \A r \in Root : Matches(r)' <=> Matches(r)
    BY <2>1 DEF Matches, Fixed, Present
  <2>3. Removed => \A r \in Root : Matches(r)
    BY DEF Removed, RemovedBefore, Bare, Matches
  <2>4. Calm /\ pc = "deps" => FALSE
    BY <1>1 DEF Aborted, Calm, TagsFit, Proper, Walk, OverRoots
  <2>5. Calm => pc \notin {"newer", "stage_dirs", "remote", "remote_deps"}
    BY <1>1 DEF Aborted, Calm
  <2>6. Calm => \A r \in Root : Matches(r)
    BY <2>1, <2>3, <2>4, <2>5 DEF DependenciesFit, Removed, Cleaning, Making, Publishing, Proper,
       Shape,
       OverRoots, OverPackages, Plain
  <2> QED
    BY <2>1, <2>2, <2>6 DEF DependenciesFit, Calm, Uniform, Fixed, Staged, Cleaning, Making,
       Publishing
<1>2. CASE edit_source
  BY <1>2, RangeFacts, DirectoryFacts DEF edit_source, Proper, Walk, Shape, Left, OverRoots,
     Making, Publishing, Cleaning, DependenciesFit, Calm, Uniform, Staged, Matches, Built,
     Present, Absent, Whole, Torn, TypeOK, Cooking, Fixed, world, target, published, process
<1>3. CASE \E r \in Root : update_dependency(r)
  <2>1. PICK r \in Root : update_dependency(r)
    BY <1>3
  <2> QED
    BY <2>1, RangeFacts, DirectoryFacts DEF update_dependency, Fixed, world, target, published,
       process, Proper, Walk, Shape, Left, OverRoots, Making, Publishing, Cleaning,
       DependenciesFit, Calm, Uniform, Staged, Matches, Built, Present, Absent, Whole, Torn,
       TypeOK, Cooking
<1>4. CASE begin
  <2>1. PICK clean \in setup.clean, is_deps \in setup.as_deps : handle_cook(clean, is_deps)
    BY <1>4 DEF begin
  <2>2. /\ pc = "idle" /\ dir' = dir /\ pkgar' = pkgar /\ dependency' = dependency /\ cook'.fresh = {}
        /\ pc' = "deps" => Left' = Root
        /\ pc' \in {"deps", "remote", "auto_deps"} /\ (cook'.cached => cook'.is_deps)
        /\ pc' = "auto_deps" => cook'.cached
    BY <2>1 DEF handle_cook, Goto, Left, Root, world, target
  <2>3. \A r \in Root : Matches(r)' <=> Matches(r)
    BY <2>2 DEF Matches, Fixed, Present
  <2> QED
    BY <2>2, <2>3 DEF DependenciesFit, Calm, Uniform, Fixed, Staged, Cleaning, Making, Publishing
<1>5. CASE deps_cached
  <2>1. /\ Head(todo) \in Root /\ pc = "deps" /\ cook.fresh \subseteq Root /\ Head(todo) \in Left
        /\ cook'.fresh = cook.fresh \cup {Head(todo)} /\ cook'.cached = cook.cached
        /\ dir' = dir /\ pkgar' = pkgar /\ ~cook.cached
    BY <1>5 DEF deps_cached, Proper, TypeOK, Cooking, Walk, Shape, OverRoots, Making, Publishing,
       target
  <2>2. \A r \in Root : Matches(r)' <=> Matches(r)
    BY <2>1 DEF Matches, Fixed, Present
  <2>3. \/ pc' = "deps" /\ Left' = Left \ {Head(todo)}
        \/ pc' = "newer" /\ Left = {Head(todo)}
    BY <1>5, <2>1, OnePasses DEF deps_cached, Proper, Walk, OverRoots
  <2>4. Left \subseteq Root
    BY <2>1 DEF Proper, Walk, OverRoots
  <2> QED
    BY <2>1, <2>2, <2>3, <2>4 DEF DependenciesFit, Calm, Uniform, Fixed, Staged, Cleaning,
       Making, Publishing
<1>6. CASE deps_kept
  <2>1. /\ dir' = dir /\ pkgar' = pkgar /\ dependency' = dependency /\ cook' = cook
        /\ pc = "deps_again" /\ ~cook.cached /\ pc' \in {"deps_again", "script"}
    BY <1>6, KeptPasses DEF deps_kept, Proper, Shape, Making, Publishing, world, target
  <2> QED
    BY <2>1 DEF DependenciesFit, Calm, Uniform, Fixed, Staged, Cleaning, Making, Publishing
<1>7. CASE deps_remove
  <2>1. /\ Head(todo) \in Root /\ dir \in [Root -> Directory] /\ dependency' = dependency
        /\ cook' = cook /\ cook.fresh \subseteq Root
    BY <1>7 DEF deps_remove, Installing, NoDir, Empty, Proper, TypeOK, Cooking, Walk, OverRoots,
       world, process
  <2>2. \A r \in Root : r # Head(todo) => dir'[r] = dir[r]
    BY <1>7, <2>1 DEF deps_remove, Installing, NoDir, Empty
  <2>3. dir'[Head(todo)].tags = 0
    BY <1>7, <2>1, DirectoryFacts DEF deps_remove, Installing, NoDir, Empty, Directory, Empty, NoDir
  <2>4. /\ pc \in {"deps", "deps_again"} /\ pc' = pc /\ todo' = todo /\ Left' = Left
        /\ pkgar' = pkgar /\ ~cook.cached
    BY <1>7 DEF deps_remove, Installing, process, Left, Proper, Shape, Making, Publishing
  <2>5. \A r \in Root : r # Head(todo) => (Matches(r)' <=> Matches(r))
    BY <2>1, <2>2, <2>4 DEF Matches, Fixed, Present
  <2>6. \A r \in Root : r = Head(todo) => Matches(r)'
    BY <2>3 DEF Matches
  <2>7. pc = "deps" => Left \cup cook.fresh \subseteq Root
    BY <2>1, <2>4 DEF Proper, Walk, OverRoots
  <2> QED
    BY <2>1, <2>4, <2>5, <2>6, <2>7 DEF DependenciesFit, Calm, Uniform, Fixed, Staged, Cleaning,
       Making, Publishing
<1>8. CASE deps_install
  <2>1. /\ Head(todo) \in Root /\ dir \in [Root -> Directory] /\ dependency' = dependency
        /\ cook' = cook /\ cook.fresh \subseteq Root
    BY <1>8 DEF deps_install, Installing, Next_, Goto, Proper, TypeOK, Cooking, Walk, OverRoots,
       world, process
  <2>2. \A r \in Root : r # Head(todo) => dir'[r] = dir[r]
    BY <1>8, <2>1 DEF deps_install, Installing, Next_, Goto
  <2>3. /\ dir'[Head(todo)].tags = dependency[Head(todo)] /\ dir'[Head(todo)].place = "full"
        /\ dir'[Head(todo)].version = dependency[Head(todo)]
    BY <1>8, <2>1, DirectoryFacts DEF deps_install, Installing, Next_, Goto, Directory, Empty, NoDir
  <2>4. \/ pc' = pc /\ Left' = Left \ {Head(todo)} /\ pc \in {"deps", "deps_again"}
        \/ pc = "deps" /\ pc' = "newer" /\ Left = {Head(todo)}
        \/ pc = "deps_again" /\ pc' = "script" /\ Left = {Head(todo)}
    <3>1. CASE pc = "deps"
      BY <1>8, <3>1, OnePasses DEF deps_install, Proper, Walk, OverRoots
    <3>2. CASE pc = "deps_again"
      BY <1>8, <3>2, OnePasses DEF deps_install, Proper, Walk, OverRoots
    <3> QED
      BY <1>8, <3>1, <3>2 DEF deps_install, Installing
  <2>5. pkgar' = pkgar /\ pc \in {"deps", "deps_again"} /\ ~cook.cached
    BY <1>8, <2>4 DEF deps_install, Proper, Shape, Making, Publishing
  <2>6. \A r \in Root : r # Head(todo) => (Matches(r)' <=> Matches(r))
    BY <2>2, <2>5 DEF Matches, Fixed, Present
  <2>7. Calm /\ pc = "deps" => Head(todo) \notin cook.fresh
    BY <2>4 DEF TagsFit, Proper, Walk, OverRoots
  <2>8. Left \subseteq Root
    BY <2>5 DEF Proper, Walk, OverRoots
  <2> QED
    BY <2>1, <2>4, <2>5, <2>6, <2>7, <2>8 DEF DependenciesFit, Calm, Uniform, Fixed, Staged,
       Cleaning, Making, Publishing
<1>9. CASE newer_cached
  <2>1. /\ pc = "newer" /\ pc' = "auto_deps" /\ cook.fresh = Root /\ cook'.cached
        /\ dir' = dir /\ pkgar' = pkgar /\ dependency' = dependency /\ pkgar \in [Package -> File]
    BY <1>9 DEF newer_cached, Outdated, Goto, Proper, TypeOK, Cooking, world, target
  <2>2. \A r \in Root : Matches(r)' <=> Matches(r)
    BY <2>1 DEF Matches, Fixed, Present
  <2>3. Calm => \A r \in Root : Matches(r) /\ Cached(r)
    BY <2>1 DEF DependenciesFit, TagsFit
  <2>4. Calm => Built
    <3> SUFFICES ASSUME Calm, NEW p \in Package,
       Present(pkgar[p]) PROVE pkgar[p].of.deps = dependency
      BY DEF Built
    <3>1. \A r \in Root : pkgar[p].of.deps[r] = dependency[r]
      BY <2>3, RangeFacts DEF Matches, Cached, Proper
    <3>2. pkgar[p].of.deps \in [Root -> 0..MaxDependency]
      BY <2>1 DEF File
    <3>3. dependency \in [Root -> 1..MaxDependency]
      BY DEF Proper, TypeOK
    <3> QED
      BY <3>1, <3>2, <3>3
  <2>5. Built' <=> Built
    BY <2>1 DEF Built, Fixed, Present
  <2> QED
    BY <2>1, <2>2, <2>3, <2>4, <2>5 DEF DependenciesFit, Calm, Uniform, Fixed, Staged, Cleaning,
       Making, Publishing
<1>10. CASE newer_rebuild
  BY <1>10, RangeFacts, DirectoryFacts DEF newer_rebuild, Goto, Proper, Walk, Shape, Left,
     OverRoots, Making, Publishing, Cleaning, DependenciesFit, Calm, Uniform, Staged, Matches,
     Built, Present, Absent, Whole, Torn, TypeOK, Cooking, Fixed, world, target, published, process
<1>11. CASE remove_stage
  BY <1>11, RangeFacts, DirectoryFacts DEF remove_stage, Proper, Walk, Shape, Left, OverRoots,
     Making, Publishing, Cleaning, DependenciesFit, Calm, Uniform, Staged, Matches, Built,
     Present, Absent, Whole, Torn, TypeOK, Cooking, Fixed, world, target, published, process
<1>12. CASE remove_pkgar
  BY <1>12, RangeFacts, DirectoryFacts DEF remove_pkgar, Proper, Walk, Shape, Left, OverRoots,
     Making, Publishing, Cleaning, DependenciesFit, Calm, Uniform, Staged, Matches, Built,
     Present, Absent, Whole, Torn, TypeOK, Cooking, Fixed, world, target, published, process
<1>13. CASE remove_meta
  <2>1. /\ dir' = dir /\ pkgar' = pkgar /\ dependency' = dependency /\ cook' = cook
        /\ pc = "stage_dirs" /\ ~cook.cached /\ pc' \in {"stage_dirs", "script", "deps_again"}
    BY <1>13, RemovalPasses DEF remove_meta, Proper, Shape, Making, Publishing, world, target
  <2> QED
    BY <2>1 DEF DependenciesFit, Calm, Uniform, Fixed, Staged, Cleaning, Making, Publishing
<1>14. CASE run_script
  <2>1. /\ pc = "script" /\ pc' \in {"tags_aside", "auto_deps"} /\ stage'.of.deps = Installed
        /\ dir' = dir /\ pkgar' = pkgar /\ dependency' = dependency /\ cook' = cook /\ ~cook.cached
    BY <1>14, FileFacts DEF run_script, Goto, Proper, Shape, Making, Publishing, world, process
  <2>2. Calm => Installed = dependency
    <3>1. Calm => \A r \in Root : Ready(r)
      BY <2>1 DEF DirectoriesFit, Calm
    <3>2. dependency \in [Root -> 1..MaxDependency]
      BY DEF Proper, TypeOK
    <3> QED
      BY <3>1, <3>2 DEF Installed, Ready
  <2>3. \A r \in Root : Matches(r)'
    BY <2>1 DEF Removed, Cleaning, RemovedBefore, Bare, Matches, Fixed, Present
  <2> QED
    BY <2>1, <2>2, <2>3 DEF DependenciesFit, Calm, Uniform, Fixed, Staged, Cleaning, Making,
       Publishing
<1>15. CASE tags_aside
  BY <1>15, RangeFacts, DirectoryFacts DEF tags_aside, Goto, Proper, Walk, Shape, Left,
     OverRoots, Making, Publishing, Cleaning, DependenciesFit, Calm, Uniform, Staged, Matches,
     Built, Present, Absent, Whole, Torn, TypeOK, Cooking, Fixed, world, target, published, process
<1>16. CASE clean_dir
  BY <1>16, RangeFacts, DirectoryFacts DEF clean_dir, Empty, Goto, Proper, Walk, Shape, Left,
     OverRoots, Making, Publishing, Cleaning, DependenciesFit, Calm, Uniform, Staged, Matches,
     Built, Present, Absent, Whole, Torn, TypeOK, Cooking, Fixed, world, target, published, process
<1>17. CASE tags_back
  <2>1. /\ Head(todo) \in Root /\ dir \in [Root -> Directory] /\ dependency' = dependency
        /\ cook' = cook /\ cook.fresh \subseteq Root
    BY <1>17 DEF tags_back, Goto, Proper, TypeOK, Cooking, Walk, OverRoots, world, process
  <2>2. \A r \in Root : r # Head(todo) => dir'[r] = dir[r]
    BY <1>17, <2>1 DEF tags_back, Goto
  <2>3. dir'[Head(todo)].tags = dependency[Head(todo)]
    BY <1>17, <2>1, DirectoryFacts DEF tags_back, Goto, Directory, Empty, NoDir
  <2>4. /\ pc = "tags_back" /\ pc' \in {"tags_aside", "auto_deps"}
        /\ stage' = stage /\ pkgar' = pkgar
        /\ ~cook.cached
    BY <1>17 DEF tags_back, Goto, Proper, Shape, Making, Publishing
  <2>5. \A r \in Root : Matches(r)'
    BY <2>4 DEF Removed, Cleaning, RemovedBefore, Bare, Matches, Fixed, Present
  <2> QED
    BY <2>1, <2>4, <2>5 DEF DependenciesFit, Calm, Uniform, Fixed, Staged, Cleaning, Making,
       Publishing
<1>18. CASE remote_cached
  BY <1>18, RangeFacts, DirectoryFacts DEF remote_cached, Goto, Proper, Walk, Shape, Left,
     OverRoots, Making, Publishing, Cleaning, DependenciesFit, Calm, Uniform, Staged, Matches,
     Built, Present, Absent, Whole, Torn, TypeOK, Cooking, Fixed, world, target, published, process
<1>19. CASE remote_extract
  BY <1>19, RangeFacts, DirectoryFacts DEF remote_extract, Goto, Proper, Walk, Shape, Left,
     OverRoots, Making, Publishing, Cleaning, DependenciesFit, Calm, Uniform, Staged, Matches,
     Built, Present, Absent, Whole, Torn, TypeOK, Cooking, Fixed, world, target, published, process
<1>20. CASE remote_forget
  BY <1>20, RangeFacts, DirectoryFacts DEF remote_forget, Goto, Proper, Walk, Shape, Left,
     OverRoots, Making, Publishing, Cleaning, DependenciesFit, Calm, Uniform, Staged, Matches,
     Built, Present, Absent, Whole, Torn, TypeOK, Cooking, Fixed, world, target, published, process
<1>21. CASE write_auto_deps
  BY <1>21, RangeFacts, DirectoryFacts DEF write_auto_deps, Goto, Proper, Walk, Shape, Left,
     OverRoots, Making, Publishing, Cleaning, DependenciesFit, Calm, Uniform, Staged, Matches,
     Built, Present, Absent, Whole, Torn, TypeOK, Cooking, Fixed, world, target, published, process
<1>22. CASE read_auto_deps
  BY <1>22, RangeFacts, DirectoryFacts DEF read_auto_deps, Goto, Proper, Walk, Shape, Left,
     OverRoots, Making, Publishing, Cleaning, DependenciesFit, Calm, Uniform, Staged, Matches,
     Built, Present, Absent, Whole, Torn, TypeOK, Cooking, Fixed, world, target, published, process
<1>23. CASE drop_pkgar
  BY <1>23, RangeFacts, DirectoryFacts DEF drop_pkgar, Goto, Proper, Walk, Shape, Left,
     OverRoots, Making, Publishing, Cleaning, DependenciesFit, Calm, Uniform, Staged, Matches,
     Built, Present, Absent, Whole, Torn, TypeOK, Cooking, Fixed, world, target, published, process
<1>24. CASE drop_meta
  BY <1>24, RangeFacts, DirectoryFacts DEF drop_meta, Goto, Proper, Walk, Shape, Left, OverRoots,
     Making, Publishing, Cleaning, DependenciesFit, Calm, Uniform, Staged, Matches, Built,
     Present, Absent, Whole, Torn, TypeOK, Cooking, Fixed, world, target, published, process
<1>25. CASE keep_pkgar
  BY <1>25, RangeFacts, DirectoryFacts DEF keep_pkgar, Goto, Proper, Walk, Shape, Left,
     OverRoots, Making, Publishing, Cleaning, DependenciesFit, Calm, Uniform, Staged, Matches,
     Built, Present, Absent, Whole, Torn, TypeOK, Cooking, Fixed, world, target, published, process
<1>26. CASE create_pkgar
  <2>1. /\ pc = "create" /\ ~cook.cached /\ Head(todo) \in Package
        /\ pkgar' = [pkgar EXCEPT ![Head(todo)] = stage] /\ pkgar \in [Package -> File]
        /\ pc' = "meta" /\ cook' = cook /\ stage' = stage /\ dir' = dir /\ dependency' = dependency
    BY <1>26, CreatesUncached DEF create_pkgar, Goto, Proper, TypeOK
  <2>2. /\ pkgar'[Head(todo)] = stage
        /\ \A p \in Package : p # Head(todo) => pkgar'[p] = pkgar[p]
    BY <2>1
  <2>3. Calm => /\ stage.of.deps = dependency
                /\ \A r \in Root : dir[r].tags \in {0, dependency[r]} /\ Matches(r)
    BY <2>1 DEF DependenciesFit, TagsFit, Staged, Making, Publishing
  <2>4. Calm => \A r \in Root : Matches(r)'
    <3> SUFFICES ASSUME Calm, NEW r \in Root, dir[r].tags # 0, NEW p \in Package, Present(pkgar'[p])
                 PROVE  pkgar'[p].of.deps[r] = dir[r].tags
      BY <2>1 DEF Matches, Fixed, Present
    <3>1. CASE p = Head(todo)
      BY <3>1, <2>2, <2>3
    <3>2. CASE p # Head(todo)
      BY <3>2, <2>2, <2>3 DEF Matches
    <3> QED
      BY <3>1, <3>2
  <2> QED
    BY <2>1, <2>3, <2>4 DEF DependenciesFit, Calm, Uniform, Fixed, Staged, Cleaning, Making,
       Publishing
<1>27. CASE keep_meta
  <2>1. /\ pc = "meta" /\ PackageDone /\ pkgar' = pkgar /\ cook' = cook /\ stage' = stage
        /\ dir' = dir /\ dependency' = dependency
    BY <1>27 DEF keep_meta, world, target
  <2>2. \A r \in Root : Matches(r)' <=> Matches(r)
    BY <2>1 DEF Matches, Fixed, Present
  <2>3. Built' <=> Built
    BY <2>1 DEF Built, Fixed, Present
  <2>4. pc' \in {"pkgar", "clean_stage", "publish"} /\ (pc' # "pkgar" => Left = {Head(todo)})
    BY <2>1, PackagePasses
  <2>5. Calm => Orderly
    BY DEF Calm, Orderly
  <2>6. Calm /\ ~cook.cached /\ pc' # "pkgar" => Built
    BY <2>1, <2>4, <2>5, PackagePasses DEF OneStage, DependenciesFit, Staged, Making, Built
  <2> QED
    BY <2>1, <2>2, <2>3, <2>4, <2>6 DEF DependenciesFit, Calm, Uniform, Fixed, Staged, Cleaning,
       Making, Publishing
<1>28. CASE write_meta
  <2>1. /\ pc = "meta" /\ PackageDone /\ pkgar' = pkgar /\ cook' = cook /\ stage' = stage
        /\ dir' = dir /\ dependency' = dependency
    BY <1>28 DEF write_meta, world, target
  <2>2. \A r \in Root : Matches(r)' <=> Matches(r)
    BY <2>1 DEF Matches, Fixed, Present
  <2>3. Built' <=> Built
    BY <2>1 DEF Built, Fixed, Present
  <2>4. pc' \in {"pkgar", "clean_stage", "publish"} /\ (pc' # "pkgar" => Left = {Head(todo)})
    BY <2>1, PackagePasses
  <2>5. Calm => Orderly
    BY DEF Calm, Orderly
  <2>6. Calm /\ ~cook.cached /\ pc' # "pkgar" => Built
    BY <2>1, <2>4, <2>5, PackagePasses DEF OneStage, DependenciesFit, Staged, Making, Built
  <2> QED
    BY <2>1, <2>2, <2>3, <2>4, <2>6 DEF DependenciesFit, Calm, Uniform, Fixed, Staged, Cleaning,
       Making, Publishing
<1>29. CASE clean_stage
  BY <1>29, RangeFacts, DirectoryFacts DEF clean_stage, Goto, Proper, Walk, Shape, Left,
     OverRoots, Making, Publishing, Cleaning, DependenciesFit, Calm, Uniform, Staged, Matches,
     Built, Present, Absent, Whole, Torn, TypeOK, Cooking, Fixed, world, target, published, process
<1>30. CASE publish_pkgar
  BY <1>30, RangeFacts, DirectoryFacts DEF publish_pkgar, Goto, Proper, Walk, Shape, Left,
     OverRoots, Making, Publishing, Cleaning, DependenciesFit, Calm, Uniform, Staged, Matches,
     Built, Present, Absent, Whole, Torn, TypeOK, Cooking, Fixed, world, target, published, process
<1>31. CASE publish_toml
  <2>1. /\ dir' = dir /\ pkgar' = pkgar /\ dependency' = dependency
        /\ pc \in {"publish", "publish_toml"} /\ pc' \in {"publish", "idle"}
        /\ pc' = "publish" => cook' = cook
    BY <1>31, PublishedPasses DEF publish_toml, world, target
  <2>2. \A r \in Root : Matches(r)' <=> Matches(r)
    BY <2>1 DEF Matches, Fixed, Present
  <2>3. Built' <=> Built
    BY <2>1 DEF Built, Fixed, Present
  <2> QED
    BY <2>1, <2>2, <2>3 DEF DependenciesFit, Calm, Uniform, Fixed, Staged, Cleaning, Making,
       Publishing
<1>32. CASE nothing_to_publish
  <2>1. /\ dir' = dir /\ pkgar' = pkgar /\ dependency' = dependency
        /\ pc \in {"publish", "publish_toml"} /\ pc' \in {"publish", "idle"}
        /\ pc' = "publish" => cook' = cook
    BY <1>32, PublishedPasses DEF nothing_to_publish, world, target
  <2>2. \A r \in Root : Matches(r)' <=> Matches(r)
    BY <2>1 DEF Matches, Fixed, Present
  <2>3. Built' <=> Built
    BY <2>1 DEF Built, Fixed, Present
  <2> QED
    BY <2>1, <2>2, <2>3 DEF DependenciesFit, Calm, Uniform, Fixed, Staged, Cleaning, Making,
       Publishing
<1>33. CASE tear_in_removal
  BY <1>33, RangeFacts, DirectoryFacts DEF tear_in_removal, torn, Fails, Goto, Fault, Installing,
     Proper, Walk, Shape, Left, OverRoots, Making, Publishing, Cleaning, DependenciesFit, Calm,
     Uniform, Staged, Matches, Built, Present, Absent, Whole, Torn, TypeOK, Cooking, Fixed,
     world, target, published, process
<1>34. CASE tear_in_auto_deps
  BY <1>34, RangeFacts, DirectoryFacts DEF tear_in_auto_deps, torn, Fails, Goto, Fault, Proper,
     Walk, Shape, Left, OverRoots, Making, Publishing, Cleaning, DependenciesFit, Calm, Uniform,
     Staged, Matches, Built, Present, Absent, Whole, Torn, TypeOK, Cooking, Fixed, world, target,
     published, process
<1>35. CASE tear_in_pkgar
  BY <1>35, RangeFacts, DirectoryFacts DEF tear_in_pkgar, torn, Fails, Goto, Fault, Proper, Walk,
     Shape, Left, OverRoots, Making, Publishing, Cleaning, DependenciesFit, Calm, Uniform,
     Staged, Matches, Built, Present, Absent, Whole, Torn, TypeOK, Cooking, Fixed, world, target,
     published, process
<1>36. CASE tear_in_meta
  BY <1>36, RangeFacts, DirectoryFacts DEF tear_in_meta, torn, Fails, Goto, Fault, Proper, Walk,
     Shape, Left, OverRoots, Making, Publishing, Cleaning, DependenciesFit, Calm, Uniform,
     Staged, Matches, Built, Present, Absent, Whole, Torn, TypeOK, Cooking, Fixed, world, target,
     published, process
<1>37. CASE tear_in_publish
  BY <1>37, RangeFacts, DirectoryFacts DEF tear_in_publish, torn, Fails, Goto, Fault, Proper,
     Walk, Shape, Left, OverRoots, Making, Publishing, Cleaning, DependenciesFit, Calm, Uniform,
     Staged, Matches, Built, Present, Absent, Whole, Torn, TypeOK, Cooking, Fixed, world, target,
     published, process
<1> QED
  BY <1>1, <1>2, <1>3, <1>4, <1>5, <1>6, <1>7, <1>8, <1>9, <1>10, <1>11, <1>12, <1>13, <1>14,
     <1>15, <1>16, <1>17, <1>18, <1>19, <1>20, <1>21, <1>22, <1>23, <1>24, <1>25, <1>26, <1>27,
     <1>28, <1>29, <1>30, <1>31, <1>32, <1>33, <1>34, <1>35, <1>36, <1>37 DEF Act

\* A cook of the recipe that ends well leaves packages made from its source.
LEMMA FreshStep ==
  ASSUME Proper, Proper', Fixed, Act, FreshPackages, PackagesAreMade, NewerTells
  PROVE  FreshPackages'
<1>1. CASE Aborted
  BY <1>1 DEF Aborted, Proper, Shape, Making, Publishing, Cleaning, OverRoots, FreshPackages,
     TypeOK, Cooking, Fixed, world, target, published, process
<1>2. CASE edit_source
  BY <1>2 DEF edit_source, Proper, Shape, Making, Publishing, Cleaning, OverRoots, FreshPackages,
     TypeOK, Cooking, Fixed, world, target, published, process
<1>3. CASE \E r \in Root : update_dependency(r)
  <2>1. PICK r \in Root : update_dependency(r)
    BY <1>3
  <2> QED
    BY <2>1 DEF update_dependency, Fixed, world, target, published, process, Proper, Shape,
       Making, Publishing, Cleaning, OverRoots, FreshPackages, TypeOK, Cooking
<1>4. CASE begin
  <2>1. PICK clean \in setup.clean, is_deps \in setup.as_deps : handle_cook(clean, is_deps)
    BY <1>4 DEF begin
  <2> QED
    BY <2>1 DEF handle_cook, Goto, Proper, Shape, Making, Publishing, Cleaning, OverRoots,
       FreshPackages, TypeOK, Cooking, Fixed, world, target, published, process
<1>5. CASE deps_cached
  BY <1>5, CachedPasses DEF deps_cached, Proper, Shape, Making, Publishing, Cleaning, OverRoots,
     FreshPackages, TypeOK, Cooking, Fixed, world, target, published, process
<1>6. CASE deps_kept
  BY <1>6, KeptPasses DEF deps_kept, Proper, Shape, Making, Publishing, Cleaning, OverRoots,
     FreshPackages, TypeOK, Cooking, Fixed, world, target, published, process
<1>7. CASE deps_remove
  BY <1>7 DEF deps_remove, Installing, NoDir, Empty, Proper, Shape, Making, Publishing, Cleaning,
     OverRoots, FreshPackages, TypeOK, Cooking, Fixed, world, target, published, process
<1>8. CASE deps_install
  BY <1>8 DEF deps_install, Installing, Next_, Goto, Proper, Shape, Making, Publishing, Cleaning,
     OverRoots, FreshPackages, TypeOK, Cooking, Fixed, world, target, published, process
<1>9. CASE newer_cached
  BY <1>9 DEF newer_cached, Goto, Proper, Shape, Making, Publishing, Cleaning, OverRoots,
     FreshPackages, TypeOK, Cooking, Fixed, world, target, published, process
<1>10. CASE newer_rebuild
  BY <1>10 DEF newer_rebuild, Goto, Proper, Shape, Making, Publishing, Cleaning, OverRoots,
     FreshPackages, TypeOK, Cooking, Fixed, world, target, published, process
<1>11. CASE remove_stage
  BY <1>11 DEF remove_stage, Proper, Shape, Making, Publishing, Cleaning, OverRoots,
     FreshPackages, TypeOK, Cooking, Fixed, world, target, published, process
<1>12. CASE remove_pkgar
  BY <1>12 DEF remove_pkgar, Proper, Shape, Making, Publishing, Cleaning, OverRoots,
     FreshPackages, TypeOK, Cooking, Fixed, world, target, published, process
<1>13. CASE remove_meta
  BY <1>13, RemovalPasses DEF remove_meta, Proper, Shape, Making, Publishing, Cleaning,
     OverRoots, FreshPackages, TypeOK, Cooking, Fixed, world, target, published, process
<1>14. CASE run_script
  BY <1>14 DEF run_script, Goto, Proper, Shape, Making, Publishing, Cleaning, OverRoots,
     FreshPackages, TypeOK, Cooking, Fixed, world, target, published, process
<1>15. CASE tags_aside
  BY <1>15 DEF tags_aside, Goto, Proper, Shape, Making, Publishing, Cleaning, OverRoots,
     FreshPackages, TypeOK, Cooking, Fixed, world, target, published, process
<1>16. CASE clean_dir
  BY <1>16 DEF clean_dir, Empty, Goto, Proper, Shape, Making, Publishing, Cleaning, OverRoots,
     FreshPackages, TypeOK, Cooking, Fixed, world, target, published, process
<1>17. CASE tags_back
  BY <1>17 DEF tags_back, Goto, Proper, Shape, Making, Publishing, Cleaning, OverRoots,
     FreshPackages, TypeOK, Cooking, Fixed, world, target, published, process
<1>18. CASE remote_cached
  BY <1>18 DEF remote_cached, Goto, Proper, Shape, Making, Publishing, Cleaning, OverRoots,
     FreshPackages, TypeOK, Cooking, Fixed, world, target, published, process
<1>19. CASE remote_extract
  BY <1>19 DEF remote_extract, Goto, Proper, Shape, Making, Publishing, Cleaning, OverRoots,
     FreshPackages, TypeOK, Cooking, Fixed, world, target, published, process
<1>20. CASE remote_forget
  BY <1>20 DEF remote_forget, Goto, Proper, Shape, Making, Publishing, Cleaning, OverRoots,
     FreshPackages, TypeOK, Cooking, Fixed, world, target, published, process
<1>21. CASE write_auto_deps
  BY <1>21 DEF write_auto_deps, Goto, Proper, Shape, Making, Publishing, Cleaning, OverRoots,
     FreshPackages, TypeOK, Cooking, Fixed, world, target, published, process
<1>22. CASE read_auto_deps
  BY <1>22 DEF read_auto_deps, Goto, Proper, Shape, Making, Publishing, Cleaning, OverRoots,
     FreshPackages, TypeOK, Cooking, Fixed, world, target, published, process
<1>23. CASE drop_pkgar
  BY <1>23 DEF drop_pkgar, Goto, Proper, Shape, Making, Publishing, Cleaning, OverRoots,
     FreshPackages, TypeOK, Cooking, Fixed, world, target, published, process
<1>24. CASE drop_meta
  BY <1>24 DEF drop_meta, Goto, Proper, Shape, Making, Publishing, Cleaning, OverRoots,
     FreshPackages, TypeOK, Cooking, Fixed, world, target, published, process
<1>25. CASE keep_pkgar
  BY <1>25 DEF keep_pkgar, Goto, Proper, Shape, Making, Publishing, Cleaning, OverRoots,
     FreshPackages, TypeOK, Cooking, Fixed, world, target, published, process
<1>26. CASE create_pkgar
  BY <1>26 DEF create_pkgar, Goto, Proper, Shape, Making, Publishing, Cleaning, OverRoots,
     FreshPackages, TypeOK, Cooking, Fixed, world, target, published, process
<1>27. CASE keep_meta
  BY <1>27, MetaPasses DEF keep_meta, Proper, Shape, Making, Publishing, Cleaning, OverRoots,
     FreshPackages, TypeOK, Cooking, Fixed, world, target, published, process
<1>28. CASE write_meta
  BY <1>28, MetaPasses DEF write_meta, Proper, Shape, Making, Publishing, Cleaning, OverRoots,
     FreshPackages, TypeOK, Cooking, Fixed, world, target, published, process
<1>29. CASE clean_stage
  BY <1>29 DEF clean_stage, Goto, Proper, Shape, Making, Publishing, Cleaning, OverRoots,
     FreshPackages, TypeOK, Cooking, Fixed, world, target, published, process
<1>30. CASE publish_pkgar
  BY <1>30 DEF publish_pkgar, Goto, Proper, Shape, Making, Publishing, Cleaning, OverRoots,
     FreshPackages, TypeOK, Cooking, Fixed, world, target, published, process
<1>31. CASE publish_toml
  <2>1. /\ pc \in {"publish", "publish_toml"} /\ Published /\ pkgar' = pkgar /\ meta' = meta
    BY <1>31 DEF publish_toml, target
  <2>2. \/ pc' # "idle"
        \/ pc' = "idle" /\ Left = {Head(todo)} /\ cook' = [cook EXCEPT !.result = "done"]
    BY <2>1, PublishPasses
  <2>3. (cook'.is_deps = cook.is_deps /\ cook'.source = cook.source) \/ pc' # "idle"
    BY <2>2 DEF Proper, TypeOK, Cooking
  <2>4. Tracked /\ NoEdit => cook.source = source /\ \A p \in Package : Made(p)
    BY <2>1 DEF NewerTells, PackagesAreMade, Publishing
  <2>5. Tracked /\ NoEdit /\ ~cook.is_deps =>
          \A p \in Package : pkgar[p].state = "whole" /\ pkgar[p].of.source = source
    BY <2>4 DEF NewerTells, Made, Checked
  <2>6. source >= source
    BY DEF Proper, TypeOK
  <2> QED
    BY <2>1, <2>2, <2>3, <2>4, <2>5, <2>6 DEF FreshPackages, Tracked, NoEdit, Fixed
<1>32. CASE nothing_to_publish
  <2>1. /\ pc \in {"publish", "publish_toml"} /\ Published /\ pkgar' = pkgar /\ meta' = meta
    BY <1>32 DEF nothing_to_publish, target
  <2>2. \/ pc' # "idle"
        \/ pc' = "idle" /\ Left = {Head(todo)} /\ cook' = [cook EXCEPT !.result = "done"]
    BY <2>1, PublishPasses
  <2>3. (cook'.is_deps = cook.is_deps /\ cook'.source = cook.source) \/ pc' # "idle"
    BY <2>2 DEF Proper, TypeOK, Cooking
  <2>4. Tracked /\ NoEdit => cook.source = source /\ \A p \in Package : Made(p)
    BY <2>1 DEF NewerTells, PackagesAreMade, Publishing
  <2>5. Tracked /\ NoEdit /\ ~cook.is_deps =>
          \A p \in Package : pkgar[p].state = "whole" /\ pkgar[p].of.source = source
    BY <2>4 DEF NewerTells, Made, Checked
  <2>6. source >= source
    BY DEF Proper, TypeOK
  <2> QED
    BY <2>1, <2>2, <2>3, <2>4, <2>5, <2>6 DEF FreshPackages, Tracked, NoEdit, Fixed
<1>33. CASE tear_in_removal
  BY <1>33 DEF tear_in_removal, torn, Fails, Goto, Fault, Installing, Proper, Shape, Making,
     Publishing, Cleaning, OverRoots, FreshPackages, TypeOK, Cooking, Fixed, world, target,
     published, process
<1>34. CASE tear_in_auto_deps
  BY <1>34 DEF tear_in_auto_deps, torn, Fails, Goto, Fault, Proper, Shape, Making, Publishing,
     Cleaning, OverRoots, FreshPackages, TypeOK, Cooking, Fixed, world, target, published, process
<1>35. CASE tear_in_pkgar
  BY <1>35 DEF tear_in_pkgar, torn, Fails, Goto, Fault, Proper, Shape, Making, Publishing,
     Cleaning, OverRoots, FreshPackages, TypeOK, Cooking, Fixed, world, target, published, process
<1>36. CASE tear_in_meta
  BY <1>36 DEF tear_in_meta, torn, Fails, Goto, Fault, Proper, Shape, Making, Publishing,
     Cleaning, OverRoots, FreshPackages, TypeOK, Cooking, Fixed, world, target, published, process
<1>37. CASE tear_in_publish
  BY <1>37 DEF tear_in_publish, torn, Fails, Goto, Fault, Proper, Shape, Making, Publishing,
     Cleaning, OverRoots, FreshPackages, TypeOK, Cooking, Fixed, world, target, published, process
<1> QED
  BY <1>1, <1>2, <1>3, <1>4, <1>5, <1>6, <1>7, <1>8, <1>9, <1>10, <1>11, <1>12, <1>13, <1>14,
     <1>15, <1>16, <1>17, <1>18, <1>19, <1>20, <1>21, <1>22, <1>23, <1>24, <1>25, <1>26, <1>27,
     <1>28, <1>29, <1>30, <1>31, <1>32, <1>33, <1>34, <1>35, <1>36, <1>37 DEF Act

\* The packages agree when a cook has ended well.
LEMMA AgreementStep ==
  ASSUME Proper, Proper', Fixed, Act, PackagesAgree, AllDescribed, OneStage, RepositoryFollows,
     RepositoryFollows'
  PROVE  PackagesAgree'
<1>1. CASE Aborted
  BY <1>1 DEF Aborted, Proper, Shape, Making, Publishing, Cleaning, OverRoots, PackagesAgree,
     Agreement, TypeOK, Cooking, Fixed, world, target, published, process
<1>2. CASE edit_source
  BY <1>2 DEF edit_source, Proper, Shape, Making, Publishing, Cleaning, OverRoots, PackagesAgree,
     Agreement, TypeOK, Cooking, Fixed, world, target, published, process
<1>3. CASE \E r \in Root : update_dependency(r)
  <2>1. PICK r \in Root : update_dependency(r)
    BY <1>3
  <2> QED
    BY <2>1 DEF update_dependency, Fixed, world, target, published, process, Proper, Shape,
       Making, Publishing, Cleaning, OverRoots, PackagesAgree, Agreement, TypeOK, Cooking
<1>4. CASE begin
  <2>1. PICK clean \in setup.clean, is_deps \in setup.as_deps : handle_cook(clean, is_deps)
    BY <1>4 DEF begin
  <2> QED
    BY <2>1 DEF handle_cook, Goto, Proper, Shape, Making, Publishing, Cleaning, OverRoots,
       PackagesAgree, Agreement, TypeOK, Cooking, Fixed, world, target, published, process
<1>5. CASE deps_cached
  BY <1>5, CachedPasses DEF deps_cached, Proper, Shape, Making, Publishing, Cleaning, OverRoots,
     PackagesAgree, Agreement, TypeOK, Cooking, Fixed, world, target, published, process
<1>6. CASE deps_kept
  BY <1>6, KeptPasses DEF deps_kept, Proper, Shape, Making, Publishing, Cleaning, OverRoots,
     PackagesAgree, Agreement, TypeOK, Cooking, Fixed, world, target, published, process
<1>7. CASE deps_remove
  BY <1>7 DEF deps_remove, Installing, NoDir, Empty, Proper, Shape, Making, Publishing, Cleaning,
     OverRoots, PackagesAgree, Agreement, TypeOK, Cooking, Fixed, world, target, published, process
<1>8. CASE deps_install
  BY <1>8 DEF deps_install, Installing, Next_, Goto, Proper, Shape, Making, Publishing, Cleaning,
     OverRoots, PackagesAgree, Agreement, TypeOK, Cooking, Fixed, world, target, published, process
<1>9. CASE newer_cached
  BY <1>9 DEF newer_cached, Goto, Proper, Shape, Making, Publishing, Cleaning, OverRoots,
     PackagesAgree, Agreement, TypeOK, Cooking, Fixed, world, target, published, process
<1>10. CASE newer_rebuild
  BY <1>10 DEF newer_rebuild, Goto, Proper, Shape, Making, Publishing, Cleaning, OverRoots,
     PackagesAgree, Agreement, TypeOK, Cooking, Fixed, world, target, published, process
<1>11. CASE remove_stage
  BY <1>11 DEF remove_stage, Proper, Shape, Making, Publishing, Cleaning, OverRoots,
     PackagesAgree, Agreement, TypeOK, Cooking, Fixed, world, target, published, process
<1>12. CASE remove_pkgar
  BY <1>12 DEF remove_pkgar, Proper, Shape, Making, Publishing, Cleaning, OverRoots,
     PackagesAgree, Agreement, TypeOK, Cooking, Fixed, world, target, published, process
<1>13. CASE remove_meta
  BY <1>13, RemovalPasses DEF remove_meta, Proper, Shape, Making, Publishing, Cleaning,
     OverRoots, PackagesAgree, Agreement, TypeOK, Cooking, Fixed, world, target, published, process
<1>14. CASE run_script
  BY <1>14 DEF run_script, Goto, Proper, Shape, Making, Publishing, Cleaning, OverRoots,
     PackagesAgree, Agreement, TypeOK, Cooking, Fixed, world, target, published, process
<1>15. CASE tags_aside
  BY <1>15 DEF tags_aside, Goto, Proper, Shape, Making, Publishing, Cleaning, OverRoots,
     PackagesAgree, Agreement, TypeOK, Cooking, Fixed, world, target, published, process
<1>16. CASE clean_dir
  BY <1>16 DEF clean_dir, Empty, Goto, Proper, Shape, Making, Publishing, Cleaning, OverRoots,
     PackagesAgree, Agreement, TypeOK, Cooking, Fixed, world, target, published, process
<1>17. CASE tags_back
  BY <1>17 DEF tags_back, Goto, Proper, Shape, Making, Publishing, Cleaning, OverRoots,
     PackagesAgree, Agreement, TypeOK, Cooking, Fixed, world, target, published, process
<1>18. CASE remote_cached
  BY <1>18 DEF remote_cached, Goto, Proper, Shape, Making, Publishing, Cleaning, OverRoots,
     PackagesAgree, Agreement, TypeOK, Cooking, Fixed, world, target, published, process
<1>19. CASE remote_extract
  BY <1>19 DEF remote_extract, Goto, Proper, Shape, Making, Publishing, Cleaning, OverRoots,
     PackagesAgree, Agreement, TypeOK, Cooking, Fixed, world, target, published, process
<1>20. CASE remote_forget
  BY <1>20 DEF remote_forget, Goto, Proper, Shape, Making, Publishing, Cleaning, OverRoots,
     PackagesAgree, Agreement, TypeOK, Cooking, Fixed, world, target, published, process
<1>21. CASE write_auto_deps
  BY <1>21 DEF write_auto_deps, Goto, Proper, Shape, Making, Publishing, Cleaning, OverRoots,
     PackagesAgree, Agreement, TypeOK, Cooking, Fixed, world, target, published, process
<1>22. CASE read_auto_deps
  BY <1>22 DEF read_auto_deps, Goto, Proper, Shape, Making, Publishing, Cleaning, OverRoots,
     PackagesAgree, Agreement, TypeOK, Cooking, Fixed, world, target, published, process
<1>23. CASE drop_pkgar
  BY <1>23 DEF drop_pkgar, Goto, Proper, Shape, Making, Publishing, Cleaning, OverRoots,
     PackagesAgree, Agreement, TypeOK, Cooking, Fixed, world, target, published, process
<1>24. CASE drop_meta
  BY <1>24 DEF drop_meta, Goto, Proper, Shape, Making, Publishing, Cleaning, OverRoots,
     PackagesAgree, Agreement, TypeOK, Cooking, Fixed, world, target, published, process
<1>25. CASE keep_pkgar
  BY <1>25 DEF keep_pkgar, Goto, Proper, Shape, Making, Publishing, Cleaning, OverRoots,
     PackagesAgree, Agreement, TypeOK, Cooking, Fixed, world, target, published, process
<1>26. CASE create_pkgar
  BY <1>26 DEF create_pkgar, Goto, Proper, Shape, Making, Publishing, Cleaning, OverRoots,
     PackagesAgree, Agreement, TypeOK, Cooking, Fixed, world, target, published, process
<1>27. CASE keep_meta
  BY <1>27, MetaPasses DEF keep_meta, Proper, Shape, Making, Publishing, Cleaning, OverRoots,
     PackagesAgree, Agreement, TypeOK, Cooking, Fixed, world, target, published, process
<1>28. CASE write_meta
  BY <1>28, MetaPasses DEF write_meta, Proper, Shape, Making, Publishing, Cleaning, OverRoots,
     PackagesAgree, Agreement, TypeOK, Cooking, Fixed, world, target, published, process
<1>29. CASE clean_stage
  BY <1>29 DEF clean_stage, Goto, Proper, Shape, Making, Publishing, Cleaning, OverRoots,
     PackagesAgree, Agreement, TypeOK, Cooking, Fixed, world, target, published, process
<1>30. CASE publish_pkgar
  BY <1>30 DEF publish_pkgar, Goto, Proper, Shape, Making, Publishing, Cleaning, OverRoots,
     PackagesAgree, Agreement, TypeOK, Cooking, Fixed, world, target, published, process
<1>31. CASE publish_toml
  <2>1. /\ pc \in {"publish", "publish_toml"} /\ Published /\ pkgar' = pkgar /\ meta' = meta
    BY <1>31 DEF publish_toml, target
  <2>2. \/ pc' # "idle"
        \/ pc' = "idle" /\ Left = {Head(todo)} /\ cook' = [cook EXCEPT !.result = "done"]
    BY <2>1, PublishPasses
  <2>3. Orderly => \A p \in Package : Described(p)
    BY <2>1 DEF AllDescribed, Publishing
  <2>4. Orderly => \A p, q \in Package : pkgar[p] = pkgar[q]
    <3>1. Orderly => Same
      BY <2>1, SetupFacts DEF OneStage, Proper, Shape, Making, Publishing
    <3> QED
      BY <2>3, <3>1 DEF Same, Described, Present
  <2>5. Orderly => \A p \in Package : p \in Left \/ p \notin unpublished
    BY <2>1 DEF RepositoryFollows
  <2>6. Orderly /\ pc' = "idle" => \A p \in Package : p \notin unpublished'
    BY <1>31, <2>2, <2>5 DEF publish_toml, published
  <2>7. Orderly /\ pc' = "idle" =>
          \A p \in Package : repo'[p].pkgar = pkgar[p] /\ repo'[p].meta = pkgar[p]
    BY <2>1, <2>3, <2>6 DEF RepositoryFollows, Described, Present, Orderly, Fixed
  <2> QED
    BY <2>1, <2>3, <2>4, <2>7 DEF PackagesAgree, Agreement, Described, Orderly, Fixed
<1>32. CASE nothing_to_publish
  <2>1. /\ pc \in {"publish", "publish_toml"} /\ Published /\ pkgar' = pkgar /\ meta' = meta
    BY <1>32 DEF nothing_to_publish, target
  <2>2. \/ pc' # "idle"
        \/ pc' = "idle" /\ Left = {Head(todo)} /\ cook' = [cook EXCEPT !.result = "done"]
    BY <2>1, PublishPasses
  <2>3. Orderly => \A p \in Package : Described(p)
    BY <2>1 DEF AllDescribed, Publishing
  <2>4. Orderly => \A p, q \in Package : pkgar[p] = pkgar[q]
    <3>1. Orderly => Same
      BY <2>1, SetupFacts DEF OneStage, Proper, Shape, Making, Publishing
    <3> QED
      BY <2>3, <3>1 DEF Same, Described, Present
  <2>5. Orderly => \A p \in Package : p \in Left \/ p \notin unpublished
    BY <2>1 DEF RepositoryFollows
  <2>6. Orderly /\ pc' = "idle" => \A p \in Package : p \notin unpublished'
    BY <1>32, <2>2, <2>5 DEF nothing_to_publish, published
  <2>7. Orderly /\ pc' = "idle" =>
          \A p \in Package : repo'[p].pkgar = pkgar[p] /\ repo'[p].meta = pkgar[p]
    BY <2>1, <2>3, <2>6 DEF RepositoryFollows, Described, Present, Orderly, Fixed
  <2> QED
    BY <2>1, <2>3, <2>4, <2>7 DEF PackagesAgree, Agreement, Described, Orderly, Fixed
<1>33. CASE tear_in_removal
  BY <1>33 DEF tear_in_removal, torn, Fails, Goto, Fault, Installing, Proper, Shape, Making,
     Publishing, Cleaning, OverRoots, PackagesAgree, Agreement, TypeOK, Cooking, Fixed, world,
     target, published, process
<1>34. CASE tear_in_auto_deps
  BY <1>34 DEF tear_in_auto_deps, torn, Fails, Goto, Fault, Proper, Shape, Making, Publishing,
     Cleaning, OverRoots, PackagesAgree, Agreement, TypeOK, Cooking, Fixed, world, target,
     published, process
<1>35. CASE tear_in_pkgar
  BY <1>35 DEF tear_in_pkgar, torn, Fails, Goto, Fault, Proper, Shape, Making, Publishing,
     Cleaning, OverRoots, PackagesAgree, Agreement, TypeOK, Cooking, Fixed, world, target,
     published, process
<1>36. CASE tear_in_meta
  BY <1>36 DEF tear_in_meta, torn, Fails, Goto, Fault, Proper, Shape, Making, Publishing,
     Cleaning, OverRoots, PackagesAgree, Agreement, TypeOK, Cooking, Fixed, world, target,
     published, process
<1>37. CASE tear_in_publish
  BY <1>37 DEF tear_in_publish, torn, Fails, Goto, Fault, Proper, Shape, Making, Publishing,
     Cleaning, OverRoots, PackagesAgree, Agreement, TypeOK, Cooking, Fixed, world, target,
     published, process
<1> QED
  BY <1>1, <1>2, <1>3, <1>4, <1>5, <1>6, <1>7, <1>8, <1>9, <1>10, <1>11, <1>12, <1>13, <1>14,
     <1>15, <1>16, <1>17, <1>18, <1>19, <1>20, <1>21, <1>22, <1>23, <1>24, <1>25, <1>26, <1>27,
     <1>28, <1>29, <1>30, <1>31, <1>32, <1>33, <1>34, <1>35, <1>36, <1>37 DEF Act

\* A cook that ends well leaves packages built against the dependencies.
LEMMA BuiltStep ==
  ASSUME Proper, Proper', Fixed, Act, PackagesAreMade, DependenciesFit
  PROVE  cook'.result = "done" /\ cook.result = "none" /\ ~cook.is_deps
         /\ Kind = "local" /\ Faults \subseteq {"script"} /\ setup.clean # BOOLEAN
         => UsesDependencies
<1>1. CASE Aborted
  BY <1>1 DEF Aborted, Proper, TypeOK, Cooking, Fixed, world, target, published, process
<1>2. CASE edit_source
  BY <1>2 DEF edit_source, Proper, TypeOK, Cooking, Fixed, world, target, published, process
<1>3. CASE \E r \in Root : update_dependency(r)
  <2>1. PICK r \in Root : update_dependency(r)
    BY <1>3
  <2> QED
    BY <2>1 DEF update_dependency, Fixed, world, target, published, process, Proper, TypeOK, Cooking
<1>4. CASE begin
  <2>1. PICK clean \in setup.clean, is_deps \in setup.as_deps : handle_cook(clean, is_deps)
    BY <1>4 DEF begin
  <2> QED
    BY <2>1 DEF handle_cook, Goto, Proper, TypeOK, Cooking, Fixed, world, target, published, process
<1>5. CASE deps_cached
  BY <1>5, CachedPasses DEF deps_cached, Proper, TypeOK, Cooking, Fixed, world, target,
     published, process
<1>6. CASE deps_kept
  BY <1>6, KeptPasses DEF deps_kept, Proper, TypeOK, Cooking, Fixed, world, target, published,
     process
<1>7. CASE deps_remove
  BY <1>7 DEF deps_remove, Installing, NoDir, Empty, Proper, TypeOK, Cooking, Fixed, world,
     target, published, process
<1>8. CASE deps_install
  BY <1>8 DEF deps_install, Installing, Next_, Goto, Proper, TypeOK, Cooking, Fixed, world,
     target, published, process
<1>9. CASE newer_cached
  BY <1>9 DEF newer_cached, Goto, Proper, TypeOK, Cooking, Fixed, world, target, published, process
<1>10. CASE newer_rebuild
  BY <1>10 DEF newer_rebuild, Goto, Proper, TypeOK, Cooking, Fixed, world, target, published,
     process
<1>11. CASE remove_stage
  BY <1>11 DEF remove_stage, Proper, TypeOK, Cooking, Fixed, world, target, published, process
<1>12. CASE remove_pkgar
  BY <1>12 DEF remove_pkgar, Proper, TypeOK, Cooking, Fixed, world, target, published, process
<1>13. CASE remove_meta
  BY <1>13, RemovalPasses DEF remove_meta, Proper, TypeOK, Cooking, Fixed, world, target,
     published, process
<1>14. CASE run_script
  BY <1>14 DEF run_script, Goto, Proper, TypeOK, Cooking, Fixed, world, target, published, process
<1>15. CASE tags_aside
  BY <1>15 DEF tags_aside, Goto, Proper, TypeOK, Cooking, Fixed, world, target, published, process
<1>16. CASE clean_dir
  BY <1>16 DEF clean_dir, Empty, Goto, Proper, TypeOK, Cooking, Fixed, world, target, published,
     process
<1>17. CASE tags_back
  BY <1>17 DEF tags_back, Goto, Proper, TypeOK, Cooking, Fixed, world, target, published, process
<1>18. CASE remote_cached
  BY <1>18 DEF remote_cached, Goto, Proper, TypeOK, Cooking, Fixed, world, target, published,
     process
<1>19. CASE remote_extract
  BY <1>19 DEF remote_extract, Goto, Proper, TypeOK, Cooking, Fixed, world, target, published,
     process
<1>20. CASE remote_forget
  BY <1>20 DEF remote_forget, Goto, Proper, TypeOK, Cooking, Fixed, world, target, published,
     process
<1>21. CASE write_auto_deps
  BY <1>21 DEF write_auto_deps, Goto, Proper, TypeOK, Cooking, Fixed, world, target, published,
     process
<1>22. CASE read_auto_deps
  BY <1>22 DEF read_auto_deps, Goto, Proper, TypeOK, Cooking, Fixed, world, target, published,
     process
<1>23. CASE drop_pkgar
  BY <1>23 DEF drop_pkgar, Goto, Proper, TypeOK, Cooking, Fixed, world, target, published, process
<1>24. CASE drop_meta
  BY <1>24 DEF drop_meta, Goto, Proper, TypeOK, Cooking, Fixed, world, target, published, process
<1>25. CASE keep_pkgar
  BY <1>25 DEF keep_pkgar, Goto, Proper, TypeOK, Cooking, Fixed, world, target, published, process
<1>26. CASE create_pkgar
  BY <1>26 DEF create_pkgar, Goto, Proper, TypeOK, Cooking, Fixed, world, target, published, process
<1>27. CASE keep_meta
  BY <1>27, MetaPasses DEF keep_meta, Proper, TypeOK, Cooking, Fixed, world, target, published,
     process
<1>28. CASE write_meta
  BY <1>28, MetaPasses DEF write_meta, Proper, TypeOK, Cooking, Fixed, world, target, published,
     process
<1>29. CASE clean_stage
  BY <1>29 DEF clean_stage, Goto, Proper, TypeOK, Cooking, Fixed, world, target, published, process
<1>30. CASE publish_pkgar
  BY <1>30 DEF publish_pkgar, Goto, Proper, TypeOK, Cooking, Fixed, world, target, published,
     process
<1>31. CASE publish_toml
  <2>1. pc \in {"publish", "publish_toml"}
    BY <1>31 DEF publish_toml
  <2>2. ASSUME Calm, ~cook.is_deps, NEW p \in Package PROVE pkgar[p].of.deps = dependency
    <3>1. Made(p)
      BY <2>1, <2>2 DEF PackagesAreMade, Tracked, Calm, Publishing
    <3> QED
      BY <2>1, <2>2, <3>1 DEF DependenciesFit, Built, Made, Present, Publishing
  <2> QED
    BY <2>2 DEF Calm, Uniform, UsesDependencies
<1>32. CASE nothing_to_publish
  <2>1. pc \in {"publish", "publish_toml"}
    BY <1>32 DEF nothing_to_publish
  <2>2. ASSUME Calm, ~cook.is_deps, NEW p \in Package PROVE pkgar[p].of.deps = dependency
    <3>1. Made(p)
      BY <2>1, <2>2 DEF PackagesAreMade, Tracked, Calm, Publishing
    <3> QED
      BY <2>1, <2>2, <3>1 DEF DependenciesFit, Built, Made, Present, Publishing
  <2> QED
    BY <2>2 DEF Calm, Uniform, UsesDependencies
<1>33. CASE tear_in_removal
  BY <1>33 DEF tear_in_removal, torn, Fails, Goto, Fault, Installing, Proper, TypeOK, Cooking,
     Fixed, world, target, published, process
<1>34. CASE tear_in_auto_deps
  BY <1>34 DEF tear_in_auto_deps, torn, Fails, Goto, Fault, Proper, TypeOK, Cooking, Fixed,
     world, target, published, process
<1>35. CASE tear_in_pkgar
  BY <1>35 DEF tear_in_pkgar, torn, Fails, Goto, Fault, Proper, TypeOK, Cooking, Fixed, world,
     target, published, process
<1>36. CASE tear_in_meta
  BY <1>36 DEF tear_in_meta, torn, Fails, Goto, Fault, Proper, TypeOK, Cooking, Fixed, world,
     target, published, process
<1>37. CASE tear_in_publish
  BY <1>37 DEF tear_in_publish, torn, Fails, Goto, Fault, Proper, TypeOK, Cooking, Fixed, world,
     target, published, process
<1> QED
  BY <1>1, <1>2, <1>3, <1>4, <1>5, <1>6, <1>7, <1>8, <1>9, <1>10, <1>11, <1>12, <1>13, <1>14,
     <1>15, <1>16, <1>17, <1>18, <1>19, <1>20, <1>21, <1>22, <1>23, <1>24, <1>25, <1>26, <1>27,
     <1>28, <1>29, <1>30, <1>31, <1>32, <1>33, <1>34, <1>35, <1>36, <1>37 DEF Act

----------------------------------------------------------------------------
(* The theorems.                                                             *)

\* All of it: every conjunct needs the ones before it.
IInv ==
    /\ TypeOK /\ Shape /\ DirectoriesFit
    /\ RemovedBefore /\ NothingTorn /\ StageIsMade /\ MetadataFits
    /\ NewerTells /\ PackagesAreMade /\ FreshPackages
    /\ OneStage /\ AllDescribed /\ RepositoryFollows /\ PackagesAgree
    /\ TagsFit /\ DependenciesFit

\* Nothing has been cooked: nothing is there, and nothing is up to date.
LEMMA InitTypes ==
  ASSUME Init
  PROVE  TypeOK /\ Shape
<1>1. setup \in Setups /\ 1 \in 1..MaxSource /\ 1 \in 1..MaxDependency /\ 0 \in 0..MaxFaults
      /\ 0 \in 0..MaxSource
  BY CookBounds DEF Init
<1>2. TypeOK
  BY <1>1, FileFacts, DirectoryFacts DEF Init, TypeOK, Cooking
<1>3. Shape
  BY <1>1 DEF Init, Shape, OverRoots, OverPackages, Making, Publishing, Plain, Cleaning
<1> QED
  BY <1>2, <1>3

\* The initial state satisfies the invariant.
LEMMA InitHolds ==
  ASSUME Init
  PROVE  IInv
<1>1. TypeOK /\ Shape
  BY InitTypes
<1>2. pc = "idle" /\ cook.result = "none"
  BY DEF Init
<1>3. \A r \in Root : dir[r].tags = 0 /\ dir[r].place = "absent" /\ dependency[r] = 1
  BY DEF Init, NoDir, Empty
<1>4. \A p \in Package : pkgar[p] = Absent /\ meta[p] = Absent
  BY DEF Init
<1>5. stage = Absent /\ auto_deps = Absent /\ newer = {} /\ unpublished = Package /\ Absent.state = "absent"
  BY FileFacts DEF Init
<1>6. DirectoriesFit
  <2>1. \A r \in Root : dir[r].tags <= dependency[r] /\ ~Cached(r)
    BY <1>3, 0 <= 1, 0 # 1 DEF Cached
  <2> QED
    BY <1>2, <2>1 DEF DirectoriesFit
<1>7. RemovedBefore /\ NothingTorn
  BY <1>2, <1>4, <1>5 DEF RemovedBefore, Removed, Cleaning, Making, Bare, Present, NothingTorn,
     Untorn
<1>8. StageIsMade /\ MetadataFits
  BY <1>2, <1>4, <1>5 DEF StageIsMade, Staged, Cleaning, Making, MetadataFits, Fits, Present
<1>9. NewerTells /\ PackagesAreMade /\ FreshPackages
  BY <1>2, <1>4, <1>5 DEF NewerTells, Present, Making, PackagesAreMade, Publishing, FreshPackages
<1>10. OneStage /\ AllDescribed /\ RepositoryFollows /\ PackagesAgree
  BY <1>2, <1>4, <1>5 DEF OneStage, Same, Present, Making, AllDescribed, Publishing,
     RepositoryFollows, PackagesAgree
<1>11. TagsFit /\ DependenciesFit
  BY <1>2, <1>3, <1>4, <1>5 DEF TagsFit, CanMove, Cleaning, Making, Publishing, DependenciesFit,
     Staged, Matches, Present
<1> QED
  BY <1>1, <1>6, <1>7, <1>8, <1>9, <1>10, <1>11 DEF IInv

\* What is gone over, after a step.
LEMMA WalkNext == Shape' => Walk'
<1>1. Shape => Walk
  BY WalkHolds
<1> QED
  BY <1>1, PTL

\* Every step keeps the invariant.
LEMMA StepHolds ==
  ASSUME IInv, Next
  PROVE  IInv'
<1>1. Fixed
  BY FixedHolds DEF Next
<1>2. Proper /\ Act
  BY WalkHolds, ActHolds DEF IInv, Proper
<1>3. TypeOK'
  BY <1>1, <1>2, TypeStep
<1>4. Shape'
  BY <1>1, <1>2, <1>3, ShapeStep
<1>5. Walk'
  BY <1>4, WalkNext
<1>6. Proper'
  BY <1>3, <1>4, <1>5 DEF Proper
<1>7. DirectoriesFit'
  BY <1>1, <1>2, <1>6, DirectoriesStep DEF IInv
<1>8. RemovedBefore'
  BY <1>1, <1>2, <1>3, <1>6, RemovedStep DEF IInv
<1>9. NothingTorn' /\ StageIsMade'
  BY <1>1, <1>2, <1>6, UntornStep, StageStep DEF IInv
<1>10. MetadataFits'
  BY <1>1, <1>2, <1>6, <1>8, MetadataStep DEF IInv
<1>11. NewerTells' /\ PackagesAreMade'
  BY <1>1, <1>2, <1>6, NewerStep, PackagesStep DEF IInv
<1>12. OneStage' /\ AllDescribed' /\ RepositoryFollows'
  BY <1>1, <1>2, <1>6, OneStageStep, DescribedStep, RepositoryStep DEF IInv
<1>13. TagsFit'
  BY <1>1, <1>2, <1>6, TagsStep DEF IInv
<1>14. DependenciesFit'
  BY <1>1, <1>2, <1>6, <1>13, DependenciesStep DEF IInv
<1>15. FreshPackages' /\ PackagesAgree'
  BY <1>1, <1>2, <1>6, <1>12, FreshStep, AgreementStep DEF IInv
<1> QED
  BY <1>3, <1>4, <1>7, <1>8, <1>9, <1>10, <1>11, <1>12, <1>13, <1>14, <1>15 DEF IInv

\* A stuttering step keeps the invariant.
LEMMA StutterHolds ==
  ASSUME IInv, UNCHANGED <<vars, setup>>
  PROVE  IInv'
<1>1. /\ source' = source /\ newer' = newer /\ dependency' = dependency
      /\ dir' = dir /\ aside' = aside /\ stage' = stage /\ auto_deps' = auto_deps
      /\ pkgar' = pkgar /\ meta' = meta /\ unpublished' = unpublished /\ repo' = repo
      /\ pc' = pc /\ todo' = todo /\ cook' = cook /\ faults' = faults /\ setup' = setup
  BY DEF vars, world, target, published, process
<1>2. Fixed
  BY <1>1, FixedHolds
<1>3. TypeOK'
  BY <1>1, <1>2 DEF IInv, Fixed, TypeOK
<1>4. Shape'
  BY <1>1, <1>2 DEF IInv, Fixed, Shape, AllPackaged, Present
<1>5. DirectoriesFit'
  BY <1>1, <1>2 DEF IInv, Fixed, DirectoriesFit, Ready, Uniform, Cached, Left
<1>6. RemovedBefore'
  BY <1>1, <1>2 DEF IInv, Fixed, RemovedBefore, Removed, Bare, Present, Left
<1>7. NothingTorn'
  BY <1>1, <1>2 DEF IInv, Fixed, NothingTorn, Untorn
<1>8. StageIsMade'
  BY <1>1, <1>2 DEF IInv, Fixed, StageIsMade, Staged, NoEdit
<1>9. MetadataFits'
  BY <1>1, <1>2 DEF IInv, Fixed, MetadataFits, Ordered, Fits, Removed, Present
<1>10. NewerTells'
  BY <1>1, <1>2 DEF IInv, Fixed, NewerTells, NoEdit, Present
<1>11. PackagesAreMade'
  BY <1>1, <1>2 DEF IInv, Fixed, PackagesAreMade, NoEdit, Checked, Tracked, Made, Left, Present
<1>12. FreshPackages'
  BY <1>1, <1>2 DEF IInv, Fixed, FreshPackages
<1>13. OneStage'
  BY <1>1, <1>2 DEF IInv, Fixed, OneStage, Orderly, Same, Removed, Present, Left
<1>14. AllDescribed'
  BY <1>1, <1>2 DEF IInv, Fixed, AllDescribed, Orderly, Described, Left
<1>15. RepositoryFollows'
  BY <1>1, <1>2 DEF IInv, Fixed, RepositoryFollows, Orderly, Present, Left
<1>16. PackagesAgree'
  BY <1>1, <1>2 DEF IInv, Fixed, PackagesAgree, Agreement
<1>17. TagsFit'
  BY <1>1, <1>2 DEF IInv, Fixed, TagsFit, Calm, Uniform, CanMove, Left, Cached
<1>18. DependenciesFit'
  BY <1>1, <1>2 DEF IInv, Fixed, DependenciesFit, Calm, Uniform, Staged, Matches, Left, Built,
     Present
<1> QED
  BY <1>3, <1>4, <1>5, <1>6, <1>7, <1>8, <1>9, <1>10, <1>11, <1>12, <1>13, <1>14, <1>15, <1>16,
     <1>17, <1>18 DEF IInv

\* The inductive invariant: what a cook and the cooks before it have left behind,
\* step by step (cook_build.rs, package.rs, repo_builder.rs).
THEOREM Invariance == Spec => []IInv
<1>1. Init => IInv
  BY InitHolds
<1>2. IInv /\ [Next]_<<vars, setup>> => IInv'
  BY StepHolds, StutterHolds
<1> QED
  BY <1>1, <1>2, PTL DEF Spec

\* The type invariant: whatever is cooked, killed, torn and published, every
\* variable keeps its type.
THEOREM TypeCorrect == Spec => []TypeOK
<1>1. IInv => TypeOK
  BY DEF IInv
<1> QED
  BY <1>1, Invariance, PTL

\* The script runs against directories that hold what their tags say; a cook that
\* ends well leaves packages made from its source, and packages, metadata and
\* repository that agree (build, package, publish_packages).
THEOREM CookIsConsistent == Spec => []CookConsistent
<1>1. ASSUME IInv
      PROVE  BuildsAgainstDependencies
  <2>1. ASSUME pc = "script", setup.clean # BOOLEAN, NEW r \in Root
        PROVE  dir[r].place = "full" /\ dir[r].version = dependency[r]
    BY <1>1, <2>1 DEF IInv, DirectoriesFit, Uniform, Ready
  <2>2. dependency \in [Root -> 1..MaxDependency]
    BY <1>1 DEF IInv, TypeOK
  <2> QED
    BY <2>1, <2>2 DEF BuildsAgainstDependencies, Installed
<1>2. IInv => CookConsistent
  BY <1>1 DEF IInv, CookConsistent
<1> QED
  BY <1>2, Invariance, PTL

\* A cook of the recipe itself that ends well leaves packages built against the
\* present dependencies, after any number of failed scripts ("Rebuild stage if
\* deps or source is newer", build).
THEOREM DependenciesAreFresh == Spec => FreshDependencies
<1> DEFINE Ends == cook'.result = "done" /\ cook.result = "none" /\ ~cook.is_deps
           Step == Ends /\ Kind = "local" /\ Faults \subseteq {"script"} /\ setup.clean # BOOLEAN
                   => UsesDependencies
<1>1. ASSUME IInv, IInv', Next
      PROVE  Step
  <2>1. Fixed /\ Proper /\ Proper' /\ Act
    BY <1>1, FixedHolds, WalkHolds, WalkNext, ActHolds DEF IInv, Proper, Next
  <2> QED
    BY <1>1, <2>1, BuiltStep DEF IInv
<1>2. ASSUME UNCHANGED <<vars, setup>>
      PROVE  ~Ends
  BY <1>2 DEF vars, process
<1>3. IInv /\ IInv' /\ [Next]_<<vars, setup>> => [Step]_vars
  BY <1>1, <1>2
<1> QED
  BY <1>3, Invariance, PTL DEF Spec, FreshDependencies

=============================================================================
