---------------------------- MODULE ModuleProgram ---------------------------
(* A program of several source files, from the request to its end: discovery *)
(* of every statically imported module, the phases of the analysis, and the  *)
(* execution of the modules, dependencies first (flash-runtime/src/module.rs *)
(* and script.rs).                                                           *)
(*                                                                           *)
(* What a module says is given: its top-level statements, its size, and the  *)
(* fault a phase that is not modelled in detail finds in it.  A stop of the  *)
(* analysis (the caller's predicate, or the work budget that every poll      *)
(* charges) may come between any two steps.                                  *)
EXTENDS Naturals, Sequences, FiniteSets, SequencesExt

CONSTANTS
    Setups      \* the programs, their limits and what may interfere

Root == 1
Nowhere == 0    \* a path that does not resolve, or an unknown standard module
Standard == 100 \* a compiled standard module, which has no source

VARIABLES
    setup,
    at,         \* the phase of load, then of the execution
    \* discover_module, one frame for each call that has not returned
    stack, attempted, edges, known, sources, retained, issues,
    \* AnalysisControl
    requested, exceeded, used,
    \* the phases after discovery
    entry,      \* how many modules the current phase has done
    analysed,   \* how many modules each ended phase has done
    pipeline,   \* what the pipeline analysis found
    report,
    \* execute_module_program
    queue, executed, completed, jobs, caller, result

discovery == <<stack, attempted, edges, known, sources, retained, issues>>
phases == <<entry, analysed, pipeline>>
execution == <<queue, executed, completed, jobs, caller, result>>
vars == <<setup, at, discovery, requested, exceeded, used, phases, report, execution>>

-----------------------------------------------------------------------------
(* What the source of a module says. *)

Source(m) == setup.source[m]
Local == DOMAIN setup.source
Positions(m, kind) == {i \in DOMAIN Source(m).statements : Source(m).statements[i].kind = kind}
At(m, i) == Source(m).statements[i]
\* The import statements of m, in source order, by their positions.
Imports(m) ==
    SelectSeq([i \in DOMAIN Source(m).statements |-> i],
              LAMBDA i : At(m, i).kind \in {"import", "alias"})

\* The modules reached from those in S along the edges E.
RECURSIVE Reach(_, _)
Reach(E, S) ==
    LET next == S \cup {e.target : e \in {d \in E : d.importer \in S}}
    IN IF next = S THEN S ELSE Reach(E, next)

-----------------------------------------------------------------------------
(* AnalysisControl and its budget. *)

\* is_cancelled: the predicate, or a limit that was exceeded before.
is_cancelled == requested \/ exceeded # "none"

Within(kind, value) == value <= setup.limits[kind]
\* charge and observe, when nothing was exceeded before.
Charge(kind, amount) ==
    IF Within(kind, used[kind] + amount)
    THEN used' = [used EXCEPT ![kind] = @ + amount] /\ UNCHANGED exceeded
    ELSE exceeded' = kind /\ UNCHANGED used

\* Mutant: a source that does not fit is cut.
read_limitMutant == setup.limits.bytes - used.bytes
\* How many bytes load_bounded may return: one more than are left, so that a
\* source that does not fit is told from one that just does.
read_limit == setup.limits.bytes - used.bytes + 1
BytesRead(m) == IF Source(m).bytes <= read_limit THEN Source(m).bytes ELSE read_limit

-----------------------------------------------------------------------------
(* ModuleProgramLoader::discover_module. *)

Call(m, depth) == [module |-> m, depth |-> depth, next |-> 0]
Top == Last(stack)
return == stack' = Front(stack)
Issue(kind, m, x) == <<kind, m, x>>
report_issue(kind, m) == issues' = issues \cup {Issue(kind, m, Top.next)}

\* A module is attempted once; what cannot be read or parsed is an issue of
\* its own, and the caller goes on with its other imports.
discover_module ==
    /\ at = "discover" /\ stack # <<>> /\ Top.next = 0
    /\ LET m == Top.module
           now == [used EXCEPT !.modules = IF @ < Cardinality(known) THEN Cardinality(known) ELSE @,
                               !.depth = IF @ < Top.depth THEN Top.depth ELSE @]
           register == sources' = Append(sources, [module |-> m, bytes |-> BytesRead(m)])
           retain == retained' = Append(retained, m)
       IN IF is_cancelled \/ m \in attempted
          THEN return /\ UNCHANGED <<attempted, sources, retained, issues, exceeded, used>>
          ELSE /\ attempted' = attempted \cup {m}
               /\ IF \E k \in {"modules", "depth"} : ~Within(k, now[k])
                  THEN   /\ exceeded' = IF Within("modules", now.modules) THEN "depth" ELSE "modules"
                         /\ return /\ UNCHANGED <<sources, retained, issues, used>>
                  ELSE IF Source(m).fault = "read"
                  THEN   /\ report_issue("read", m) /\ used' = now
                         /\ return /\ UNCHANGED <<sources, retained, exceeded>>
                  ELSE IF ~Within("bytes", used.bytes + BytesRead(m))
                  THEN   /\ exceeded' = "bytes" /\ used' = now
                         /\ return /\ UNCHANGED <<sources, retained, issues>>
                  ELSE   /\ used' = [now EXCEPT !.bytes = @ + BytesRead(m)]
                         /\ UNCHANGED exceeded
                         /\ CASE Source(m).fault = "utf8" ->
                                   report_issue("utf8", m) /\ return /\ UNCHANGED <<sources, retained>>
                              [] Source(m).fault = "syntax" ->
                                   report_issue("syntax", m) /\ return /\ retain /\ UNCHANGED sources
                              [] OTHER ->
                                   /\ register /\ retain /\ UNCHANGED issues
                                   /\ stack' = [stack EXCEPT ![Len(stack)].next = 1]
    /\ UNCHANGED <<setup, at, edges, known, requested, phases, report, execution>>

\* ModuleGraph::add_import refuses an edge that would close a cycle.
closes_cycle(importer, target) == importer \in Reach(edges, {target})

\* The next import of the module on top: resolve it, add its edge, and discover
\* its target.
next_import ==
    /\ at = "discover" /\ stack # <<>> /\ Top.next > 0
    /\ LET m == Top.module
           order == Imports(m)
           position == order[Top.next]
           target == At(m, position).target
           after == [stack EXCEPT ![Len(stack)].next = @ + 1]
           modules == Cardinality(known \cup {target})
       IN IF is_cancelled \/ Top.next > Len(order)
          THEN return /\ UNCHANGED <<edges, known, issues, exceeded, used>>
          ELSE CASE target = Nowhere ->
                      /\ report_issue("resolution", m) /\ stack' = after
                      /\ UNCHANGED <<edges, known, exceeded, used>>
                 [] closes_cycle(m, target) ->
                      /\ report_issue("cycle", m) /\ stack' = after
                      /\ UNCHANGED <<edges, known, exceeded, used>>
                 [] OTHER ->
                      /\ edges' = edges \cup {[importer |-> m, position |-> position, target |-> target]}
                      /\ known' = known \cup {target}
                      /\ UNCHANGED issues
                      /\ IF Within("modules", modules) /\ Within("depth", Top.depth + 1)
                         THEN /\ used' = [used EXCEPT !.modules = IF @ < modules THEN modules ELSE @,
                                                      !.depth = IF @ <= Top.depth THEN Top.depth + 1 ELSE @]
                              /\ stack' = IF target = Standard THEN after
                                          ELSE Append(after, Call(target, Top.depth + 1))
                              /\ UNCHANGED exceeded
                         ELSE /\ exceeded' = IF Within("modules", modules) THEN "depth" ELSE "modules"
                              /\ return /\ UNCHANGED used
    /\ UNCHANGED <<setup, at, attempted, sources, retained, requested, phases, report, execution>>

-----------------------------------------------------------------------------
(* The tables of the alias and name phases, and what each phase refuses. *)

Loaded == {sources[i].module : i \in DOMAIN sources}
HasEdge(m, i) == \E e \in edges : e.importer = m /\ e.position = i

\* top_level_declared_identifiers.
Locals(m) == {At(m, i).name : i \in Positions(m, "let")}

\* An alias is refused when its name is taken by a declaration or an earlier alias.
AliasConflicts(m) ==
    {i \in Positions(m, "alias") :
        \/ At(m, i).name \in Locals(m)
        \/ \E j \in Positions(m, "alias") : j < i /\ At(m, j).name = At(m, i).name}
Aliases(m) == Positions(m, "alias") \ AliasConflicts(m)
AliasNames(m) == {At(m, i).name : i \in Aliases(m)}

\* What m exports, as <<statement, place in its list>>, and the entries that
\* name something a second time.
Exported(m) ==
    UNION {{<<i, k>> : k \in DOMAIN At(m, i).names} : i \in Positions(m, "export")}
ExportName(m, x) == At(m, x[1]).names[x[2]]
Earlier(x, y) == x[1] < y[1] \/ (x[1] = y[1] /\ x[2] < y[2])
Repeated(m) ==
    {x \in Exported(m) : \E y \in Exported(m) : Earlier(y, x) /\ ExportName(m, y) = ExportName(m, x)}
ExportNames(m) == {ExportName(m, x) : x \in Exported(m)}

AliasExports(m) == ExportNames(m) \cap AliasNames(m)
Exports(m) == ExportNames(m) \cap Locals(m)
Poisoned(m) == ExportNames(m) \ (Locals(m) \cup AliasNames(m))

\* What m imports by name, as <<statement, place in its list>>.
Named(m) ==
    UNION {{<<i, k>> : k \in DOMAIN At(m, i).names} : i \in Positions(m, "import")}
ImportTarget(m, x) == At(m, x[1]).target
ImportName(m, x) == At(m, x[1]).names[x[2]]
Available(m, x) == ImportName(m, x) \in Exports(ImportTarget(m, x))
\* An available name conflicts with a declaration or an earlier import that was taken.
ImportConflict(m, x) ==
    \/ ImportName(m, x) \in Locals(m)
    \/ \E y \in Named(m) : Earlier(y, x) /\ Available(m, y) /\ ImportName(m, y) = ImportName(m, x)
NamedImports(m) == {x \in Named(m) : Available(m, x) /\ ~ImportConflict(m, x)}

\* ModuleAliasRegistry::analyze.
AliasErrors(m) ==
    {Issue("alias", m, i) : i \in AliasConflicts(m)}
    \cup {Issue("alias_export", m, x) : x \in {y \in Repeated(m) : ExportName(m, y) \in AliasNames(m)}}

\* ModuleNameRegistry::analyze. An import of a name whose export is itself
\* refused is not reported a second time.
NameErrors(m) ==
    {Issue("unknown_export", m, x) : x \in {y \in Exported(m) : ExportName(m, y) \in Poisoned(m)}}
    \cup {Issue("duplicate_export", m, x) : x \in {y \in Repeated(m) : ExportName(m, y) \in Locals(m)}}
    \cup {Issue("unavailable", m, x) :
             x \in {y \in Named(m) : ~Available(m, y) /\ ImportName(m, y) \notin Poisoned(ImportTarget(m, y))}}
    \cup {Issue("import_conflict", m, x) : x \in {y \in Named(m) : Available(m, y) /\ ImportConflict(m, y)}}
    \cup {Issue("reference", m, 0) : f \in {Source(m).fault} \cap {"reference"}}

FaultErrors(kind, m) == {Issue(kind, m, 0) : f \in {Source(m).fault} \cap {kind}}

\* The expects of the two phases: an alias or a named import without its edge,
\* and an imported module without a name table.
Panics(phase) ==
    \E m \in Loaded :
        \/ phase = "aliases" /\ \E i \in Aliases(m) : ~HasEdge(m, i)
        \/ phase = "names" /\ \E x \in Named(m) : ~HasEdge(m, x[1]) \/ ImportTarget(m, x) \notin Loaded

-----------------------------------------------------------------------------
(* ModuleProgramLoader::analyze_internal. *)

NoReport == [outcome |-> "none", issues |-> {}, program |-> FALSE]
stopped_outcome == [NoReport EXCEPT !.outcome = IF exceeded = "none" THEN "cancelled" ELSE "exceeded"]
Complete(found, program) == [outcome |-> "complete", issues |-> found, program |-> program]
reports(r) == at' = "reported" /\ report' = r /\ UNCHANGED <<entry, pipeline>>
proceed(phase) == at' = phase /\ entry' = 0 /\ UNCHANGED <<report, pipeline>>

resolve_root ==
    /\ at = "root"
    /\ CASE is_cancelled -> reports(stopped_outcome) /\ UNCHANGED <<stack, known>>
         [] ~is_cancelled /\ ~setup.resolves ->
              reports(Complete({Issue("resolution", Root, 0)}, FALSE)) /\ UNCHANGED <<stack, known>>
         [] OTHER -> /\ stack' = <<Call(Root, 1)>> /\ known' = {Root}
                     /\ proceed("discover")
    /\ UNCHANGED <<setup, attempted, edges, sources, retained, issues, requested, exceeded, used,
                   analysed, execution>>

\* Discovery is over when its first call has returned.
discovered ==
    /\ at = "discover" /\ stack = <<>>
    /\ IF is_cancelled THEN reports(stopped_outcome) ELSE proceed("pipelines")
    /\ UNCHANGED <<setup, discovery, requested, exceeded, used, analysed, execution>>

\* The pipeline analysis, of every module that was parsed, when the caller gave
\* its commands. A deprecated command is a warning and no error.
analyze_pipelines ==
    /\ at = "pipelines" /\ ~is_cancelled /\ setup.commands /\ entry < Len(retained)
    /\ LET m == retained[entry + 1]
           found == {"pipeline", "warning"} \cap {Source(m).fault}
       IN pipeline' = pipeline \cup {Issue(f, m, 0) : f \in found}
    /\ entry' = entry + 1
    /\ UNCHANGED <<setup, at, discovery, requested, exceeded, used, analysed, report, execution>>

\* What was discovered is reported before any name is looked at.
pipelines_analyzed ==
    /\ at = "pipelines"
    /\ is_cancelled \/ ~setup.commands \/ entry = Len(retained)
    /\ IF is_cancelled THEN reports(stopped_outcome) /\ UNCHANGED <<exceeded, used>>
       ELSE /\ Charge("diagnostics", Cardinality(issues) + Cardinality(pipeline))
            /\ CASE exceeded' # "none" -> reports([NoReport EXCEPT !.outcome = "exceeded"])
                 [] exceeded' = "none" /\ issues # {} -> reports(Complete(issues \cup pipeline, FALSE))
                 [] OTHER -> proceed("aliases")
    /\ UNCHANGED <<setup, discovery, requested, analysed, execution>>

Phases == {"aliases", "names", "types", "effects"}
Errors(phase) ==
    UNION {CASE phase = "aliases" -> AliasErrors(m)
             [] phase = "names" -> NameErrors(m)
             [] phase = "types" -> FaultErrors("signature", m)
             [] phase = "effects" -> {} : m \in Loaded}
HasError(found) == \E i \in found : i[1] # "warning"

\* A phase polls before each module, and answers with what it has when it finds
\* itself stopped.
analyze_module ==
    /\ at \in Phases /\ ~is_cancelled /\ entry < Len(sources)
    /\ entry' = entry + 1
    /\ UNCHANGED <<setup, at, discovery, requested, exceeded, used, analysed, pipeline, report, execution>>

\* After each phase comes a poll; its errors end the analysis, and errors of the
\* pipelines end it before the effects are analysed.
phase_ends ==
    /\ at \in Phases
    /\ is_cancelled \/ entry = Len(sources)
    /\ analysed' = [analysed EXCEPT ![at] = entry]
    /\ IF is_cancelled THEN reports(stopped_outcome) /\ UNCHANGED <<exceeded, used>>
       ELSE LET found == Errors(at)
            IN CASE Panics(at) -> reports([NoReport EXCEPT !.outcome = "panic"]) /\ UNCHANGED <<exceeded, used>>
                 [] ~Panics(at) /\ found # {} ->
                      /\ Charge("diagnostics", Cardinality(found))
                      /\ reports(IF exceeded' # "none" THEN [NoReport EXCEPT !.outcome = "exceeded"]
                                 ELSE Complete(found \cup pipeline, FALSE))
                 [] OTHER ->
                      /\ UNCHANGED <<exceeded, used>>
                      /\ CASE at = "aliases" -> proceed("names")
                           [] at = "names" -> proceed("types")
                           [] at = "types" /\ HasError(pipeline) -> reports(Complete(pipeline, FALSE))
                           [] at = "types" /\ ~HasError(pipeline) -> proceed("effects")
                           [] at = "effects" -> reports(Complete(pipeline, TRUE))
    /\ UNCHANGED <<setup, discovery, requested, execution>>

-----------------------------------------------------------------------------
(* Execution: script.rs, execute_module_program_outcome_with_limits. *)

\* The dependencies whose values m uses: its named imports in source order,
\* then its aliases in the order of their names.
NamedTargets(m) ==
    LET order == SetToSortSeq(NamedImports(m), Earlier)
    IN [i \in DOMAIN order |-> ImportTarget(m, order[i])]
AliasTargets(m) ==
    LET order == SetToSortSeq(Aliases(m), LAMBDA i, j : At(m, i).name < At(m, j).name)
    IN [i \in DOMAIN order |-> At(m, order[i]).target]

\* A depth-first visit of some modules that appends each to a list after its
\* dependencies, with or without aliases.
RECURSIVE Visit(_, _, _)
Visit(aliases, list, modules) ==
    CASE modules = <<>> -> list
      [] modules # <<>> /\ Head(modules) \in ToSet(list) \cup {Standard} ->
           Visit(aliases, list, Tail(modules))
      [] OTHER ->
           LET m == Head(modules)
               dependencies == NamedTargets(m) \o (IF aliases THEN AliasTargets(m) ELSE <<>>)
           IN Visit(aliases, Append(Visit(aliases, list, dependencies), m), Tail(modules))

\* Mutant: only named imports are dependencies.
module_initialization_orderMutant == Visit(FALSE, <<>>, <<Root>>)
module_initialization_order == Visit(TRUE, <<>>, <<Root>>)
\* ModuleEffectRegistry::transitive of the root: whose effects it lists.
transitive == Visit(FALSE, <<>>, <<Root>>)

\* What is declared in the scope of m before its first statement.
RECURSIVE Qualified(_, _)
Qualified(prefix, m) ==
    (IF m \in completed THEN {Append(prefix, n) : n \in Exports(m)} ELSE {})
    \cup UNION {Qualified(Append(prefix, At(m, i).name), At(m, i).target) :
                  i \in {j \in IF m = Standard THEN {} ELSE Aliases(m) : At(m, j).name \in AliasExports(m)}}
\* The expects of the seeding: an import without a value, or a name twice.
Seeds(m) ==
    /\ \A x \in NamedImports(m) :
         ImportTarget(m, x) \in completed /\ ImportName(m, x) \in Exports(ImportTarget(m, x))
    /\ \A x, y \in NamedImports(m) : ImportName(m, x) = ImportName(m, y) => x = y
    /\ \A i, j \in Aliases(m) :
         i # j => Qualified(<<At(m, i).name>>, At(m, i).target)
                  \cap Qualified(<<At(m, j).name>>, At(m, j).target) = {}

execute ==
    /\ at = "reported" /\ report.program
    /\ at' = "execute"
    /\ queue' = module_initialization_order
    /\ UNCHANGED <<setup, discovery, requested, exceeded, used, phases, report,
                   executed, completed, jobs, caller, result>>

\* submit_module_source of the next module: all modules share the session's
\* state and its jobs, and anything but a normal end stops the program.
submit_module(outcome, started) ==
    /\ at = "execute" /\ queue # <<>>
    /\ LET m == Head(queue)
       IN IF ~Seeds(m)
          THEN /\ at' = "ended" /\ result' = [primary |-> "panic", status |-> "none"]
               /\ UNCHANGED <<queue, executed, completed, jobs>>
          ELSE /\ executed' = Append(executed, m)
               /\ jobs' = jobs \o started
               /\ IF outcome = "continued"
                  THEN /\ completed' = completed \cup {m} /\ queue' = Tail(queue)
                       /\ at' = IF queue' = <<>> THEN "finish" ELSE at
                       /\ result' = [primary |-> "continued", status |-> "none"]
                  ELSE /\ UNCHANGED completed /\ queue' = <<>>
                       /\ at' = "finish"
                       /\ result' = [primary |-> outcome, status |-> "none"]
    /\ UNCHANGED <<setup, discovery, requested, exceeded, used, phases, report, caller>>

\* finish_script_session_outcome: every route joins the jobs; the environment
\* (what the executed modules left) reaches the caller when the program continued to its end or asked to exit,
\* and the first failing job decides its status.
finish_script_session_outcome ==
    /\ at = "finish" /\ at' = "ended"
    /\ jobs' = <<>>
    /\ LET failures == SelectSeq(jobs, LAMBDA j : j = "fails")
           completes == result.primary \in {"continued", "exit"}
       IN /\ result' = [primary |-> IF completes THEN "completed" ELSE result.primary,
                        status |-> CASE ~completes -> "none"
                                     [] completes /\ failures # <<>> -> "job"
                                     [] OTHER -> IF result.primary = "exit" THEN "exit" ELSE "foreground"]
          /\ caller' = IF completes THEN executed ELSE caller
    /\ UNCHANGED <<setup, discovery, requested, exceeded, used, phases, report,
                   queue, executed, completed>>

-----------------------------------------------------------------------------
(* The callers of the analysis, and its budget. *)

Analysing == at \notin {"reported", "execute", "finish", "ended"}

cancel ==
    /\ "cancel" \in setup.stops /\ Analysing /\ ~requested
    /\ requested' = TRUE
    /\ UNCHANGED <<setup, at, discovery, exceeded, used, phases, report, execution>>

\* The work units are used up. They are charged at every poll, also where a
\* phase that is one step here polls many times.
exhaust ==
    /\ "work" \in setup.stops /\ Analysing /\ ~is_cancelled
    /\ exceeded' = "work"
    /\ UNCHANGED <<setup, at, discovery, requested, used, phases, report, execution>>

Init ==
    /\ setup \in Setups
    /\ at = "root"
    /\ stack = <<>> /\ attempted = {} /\ edges = {} /\ known = {}
    /\ sources = <<>> /\ retained = <<>> /\ issues = {}
    /\ requested = FALSE /\ exceeded = "none"
    /\ used = [bytes |-> 0, modules |-> 0, depth |-> 0, diagnostics |-> 0]
    /\ entry = 0 /\ analysed = [p \in Phases |-> 0] /\ pipeline = {} /\ report = NoReport
    /\ queue = <<>> /\ executed = <<>> /\ completed = {} /\ jobs = <<>>
    /\ caller = <<>> /\ result = [primary |-> "none", status |-> "none"]

Analyse ==
    \/ resolve_root \/ discover_module \/ next_import \/ discovered
    \/ analyze_pipelines \/ pipelines_analyzed \/ analyze_module \/ phase_ends
Execute ==
    \/ execute
    \/ \E outcome \in setup.ends, started \in setup.starts : submit_module(outcome, started)
    \/ finish_script_session_outcome
Step == Analyse \/ Execute
\* The program has ended, or there is none.
over == (at = "ended" \/ (at = "reported" /\ ~report.program)) /\ UNCHANGED vars
Next == Step \/ cancel \/ exhaust \/ over

Spec == Init /\ [][Next]_vars

-----------------------------------------------------------------------------
(* What the program is, read off the sources themselves. *)

Statically ==
    UNION {{[importer |-> m, target |-> At(m, i).target] :
               i \in Positions(m, "import") \cup Positions(m, "alias")} : m \in Local}
Reached == Reach(Statically, {Root})
Sourced == Reached \ {Nowhere, Standard}

\* Nothing m declares, imports, names or exports is there twice, and all it
\* imports and exports exists.
NamesAreRight(m) ==
    LET imported == {ImportName(m, x) : x \in Named(m)}
        aliases == {At(m, i).name : i \in Positions(m, "alias")}
    IN /\ imported \cap Locals(m) = {} /\ aliases \cap Locals(m) = {}
       /\ Cardinality(imported) = Cardinality(Named(m))
       /\ Cardinality(aliases) = Cardinality(Positions(m, "alias"))
       /\ ExportNames(m) \subseteq Locals(m) \cup aliases
       /\ Cardinality(ExportNames(m)) = Cardinality(Exported(m))
       /\ \A x \in Named(m) :
            LET t == ImportTarget(m, x) IN ImportName(m, x) \in Locals(t) \cap ExportNames(t)

Right ==
    /\ setup.resolves /\ Nowhere \notin Reached
    /\ \A e \in Statically : e.importer \in Sourced => e.importer \notin Reach(Statically, {e.target})
    /\ \A m \in Sourced :
         /\ Source(m).fault \in {"none", "warning"} \cup (IF setup.commands THEN {} ELSE {"pipeline"})
         /\ NamesAreRight(m)

\* There is a chain of n imports from the root.
RECURSIVE After(_)
After(n) ==
    IF n = 0 THEN {Root} ELSE {e.target : e \in {d \in Statically : d.importer \in After(n - 1)}}
Bytes == FoldLeft(LAMBDA n, m : n + Source(m).bytes, 0, SetToSeq(Sourced))
TooMuch(kind) ==
    CASE kind = "bytes" -> Bytes > setup.limits.bytes
      [] kind = "modules" -> Cardinality(Reached) > setup.limits.modules
      [] kind = "depth" -> After(setup.limits.depth) # {}
      [] kind = "work" -> "work" \in setup.stops
      [] OTHER -> TRUE

-----------------------------------------------------------------------------
(* Properties. *)

TypeOK ==
    /\ at \in {"root", "discover", "pipelines", "reported", "execute", "finish", "ended"} \cup Phases
    /\ attempted \subseteq Local /\ known \subseteq Local \cup {Standard}
    /\ \A i \in DOMAIN stack : stack[i].module \in Local /\ stack[i].next <= Len(Imports(stack[i].module)) + 1
    /\ requested \in BOOLEAN
    /\ report.outcome \in {"none", "complete", "cancelled", "exceeded", "panic"}
    /\ completed \subseteq ToSet(executed) /\ ToSet(queue) \cap ToSet(executed) = {}

\* The static analysis promises the execution what the execution takes for
\* granted (its expects): every module starts once, after everything whose
\* values it is seeded with has ended normally, and load-only imports stay
\* dormant (script.rs, module_initialization_order; "named dependencies
\* initialize before their importers"). In language 1 the effects announced for
\* the root are those of the modules that run, in their order (module.rs,
\* "effects in once-only named-dependency initialization order").
Uses ==
    {[importer |-> m, target |-> At(m, i).target] :
        <<m, i>> \in UNION {{<<n, j>> : j \in Positions(n, "alias") \cup {x[1] : x \in Named(n)}} : n \in Local}}
RunsInOrder ==
    LET used_by_root == Reach(Uses, {Root}) \ {Standard}
    IN executed # <<>> \/ result.primary # "none" =>
       /\ result.primary # "panic"
       /\ Cardinality(ToSet(executed)) = Len(executed)
       /\ ToSet(executed) \subseteq used_by_root
       /\ \A i \in DOMAIN executed : \A e \in Uses :
            e.importer = executed[i] /\ e.target # Standard =>
                e.target \in completed /\ \E j \in 1..(i - 1) : executed[j] = e.target
       /\ setup.language = 1 => IsPrefix(executed, transitive)
       /\ result = [primary |-> "completed", status |-> "foreground"] => ToSet(executed) = used_by_root
       /\ caller # <<>> => caller = executed /\ result.primary = "completed" /\ jobs = <<>>
ProgramConsistent == TypeOK /\ RunsInOrder

\* An analysis that ends answers whether the program is right, having seen all
\* of it: a program is built from every reachable source, read whole, with
\* every import as an edge, and every phase has done every module; without a
\* program there is an issue to show; a limit is named only when the program
\* exceeds it; nobody is told of a cancellation that was not asked for
\* (module.rs, analyze_internal, discover_module and the expects of the phases).
AnalysisIsRight ==
    /\ report.outcome # "panic"
    /\ report.outcome = "complete" => (report.program <=> Right)
    /\ report.program =>
         /\ Loaded = Sourced /\ Len(sources) = Cardinality(Sourced)
         /\ \A i \in DOMAIN sources : sources[i].bytes = Source(sources[i].module).bytes
         /\ {[importer |-> e.importer, target |-> e.target] : e \in edges}
                = {e \in Statically : e.importer \in Sourced}
         /\ \A p \in Phases : analysed[p] = Len(sources)
         /\ Bytes <= setup.limits.bytes /\ Cardinality(Reached) <= setup.limits.modules
    /\ report.outcome = "complete" /\ ~report.program => HasError(report.issues)
    /\ report.outcome = "exceeded" => exceeded # "none" /\ TooMuch(exceeded)
    /\ report.outcome = "cancelled" => requested

\* A limit on the depth of the graph holds of every program that is built.
\* Refuted with the setups Shallow of the instance: the depth of a module is
\* that of its first visit.
DepthIsBounded == report.program => After(setup.limits.depth) = {}

\* The announced effects are those of the execution in every language. Refuted
\* with the setups Aliased: the summary does not follow aliases.
EffectsAreAnnounced == executed # <<>> => IsPrefix(executed, transitive)

=============================================================================
