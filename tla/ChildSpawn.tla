----------------------------- MODULE ChildSpawn -----------------------------
(***************************************************************************)
(* One PosixPlatform::spawn and the child it answers with: the shell clones *)
(* the requested descriptors, forks, and learns from std's exec report      *)
(* whether the program started; the child resets its signals, moves to its  *)
(* group, installs its descriptors and executes.  Between the fork and the  *)
(* report the two run side by side, each on a descriptor table of its own.  *)
(* Afterwards the shell waits for the child and may terminate it.           *)
(***************************************************************************)
EXTENDS Naturals, Functions, FiniteSetsExt, SequencesExt

CONSTANTS
    Files,      \* what the shell has open beyond its standard streams
    Redirections,   \* what requests may name: [mapped, closed |-> sets of descriptors]
    LastFd,     \* the highest descriptor of a table, a bound
    Faults      \* what may fail: "clone", "chdir", "group", "exec"

Standard == 0..2

ASSUME SpawnAssumption ==
    /\ \A r \in Redirections : r.mapped \cup r.closed \subseteq 0..LastFd
    /\ LastFd \in Nat
    /\ Faults \subseteq {"clone", "chdir", "group", "exec"}

VARIABLES
    request,    \* the SpawnRequest
    shell,      \* where spawn stands, then what it answered
    shellFds,   \* the shell's table: open descriptor |-> file
    todo,       \* targets whose endpoint is not cloned yet
    clones,     \* target |-> the clone made for it
    reserved,   \* clones that only keep a target's number occupied
    child,      \* where the child stands
    childFds,   \* the child's table
    inherited,  \* descriptors of the child that survive exec
    group,      \* the child's process group
    signals,    \* the child's job-control dispositions
    report,     \* what arrived on the exec report, or on the file in its place
    completed,  \* PosixChild.completed is set
    struck      \* whom Child::kill has signalled

shellVars == <<request, shell, shellFds, todo, clones, reserved>>
childVars == <<child, childFds, inherited, group, signals, report>>
handleVars == <<completed, struck>>
vars == <<shellVars, childVars, handleVars>>

Streams == [fd \in Standard |-> <<"stdin", "stdout", "stderr">>[fd + 1]]

\* with_descriptors and with_closed_descriptors: no target twice, none both
\* mapped and closed.
RequestsFor(named) ==
    {r \in [map : UNION {[T -> Files] : T \in SUBSET named.mapped},
            close : SUBSET named.closed,
            group : {"Inherit", "New", "Join"}] :
        DOMAIN r.map \cap r.close = {}}
Requests == UNION {RequestsFor(named) : named \in Redirections}

ActionTargets == DOMAIN request.map \cup request.close

\* F_DUPFD_CLOEXEC as std calls it never answers a standard descriptor.
FreeFrom(first, table) == (first..LastFd) \ DOMAIN table
LowestFree(table) == Min(FreeFrom(3, table))

Holding(table, fd, file) == table @@ (fd :> file)
EndpointFd(file) == CHOOSE fd \in DOMAIN shellFds : shellFds[fd] = file

Init ==
    /\ request \in Requests
    /\ \E place \in Injection(Files, 3..6) :
         shellFds = Streams @@ [fd \in Range(place) |-> CHOOSE f \in Files : place[f] = fd]
    /\ shell = "cloning"
    /\ todo = SetToSortSeq(DOMAIN request.map, <)
    /\ clones = << >> /\ reserved = {}
    /\ child = "none" /\ childFds = << >> /\ inherited = Standard
    /\ group = "shell" /\ signals = "ignored"
    /\ report = [text |-> "none", on |-> "none"]
    /\ completed = FALSE /\ struck = {}

----------------------------------------------------------------------------
\* The shell, up to the fork.

clone_standard ==
    /\ shell = "cloning" /\ todo # << >> /\ Head(todo) \in Standard
    /\ LET fd == LowestFree(shellFds) IN
         /\ shellFds' = Holding(shellFds, fd, request.map[Head(todo)])
         /\ clones' = clones @@ (Head(todo) :> fd)
    /\ todo' = Tail(todo)
    /\ UNCHANGED <<request, shell, reserved, childVars, handleVars>>

\* Mutant: a clone may have the number of a target.
clone_anywhereMutant ==
    /\ shell = "cloning" /\ todo # << >> /\ Head(todo) \notin Standard
    /\ LET fd == LowestFree(shellFds) IN
         /\ shellFds' = Holding(shellFds, fd, request.map[Head(todo)])
         /\ clones' = clones @@ (Head(todo) :> fd)
    /\ todo' = Tail(todo)
    /\ UNCHANGED <<request, shell, reserved, childVars, handleVars>>

\* clone_avoiding_targets: a clone that has the number of a target is kept
\* open until spawn returns and another is made.
clone_extra ==
    /\ shell = "cloning" /\ todo # << >> /\ Head(todo) \notin Standard
    /\ LET fd == LowestFree(shellFds) IN
         /\ shellFds' = Holding(shellFds, fd, request.map[Head(todo)])
         /\ \/ /\ fd \in ActionTargets
               /\ reserved' = reserved \cup {fd}
               /\ UNCHANGED <<clones, todo>>
            \/ /\ fd \notin ActionTargets
               /\ clones' = clones @@ (Head(todo) :> fd)
               /\ todo' = Tail(todo)
               /\ UNCHANGED reserved
    /\ UNCHANGED <<request, shell, childVars, handleVars>>

\* What the shell drops when spawn returns: the clones and the reservations.
Temporary == Range(clones) \cup reserved \cup {fd \in DOMAIN shellFds : shellFds[fd] = "report reader"}
Released == [fd \in DOMAIN shellFds \ Temporary |-> shellFds[fd]]

clone_fails ==
    /\ "clone" \in Faults /\ shell = "cloning" /\ todo # << >>
    /\ shell' = "failed" /\ shellFds' = Released
    /\ clones' = << >> /\ reserved' = {}
    /\ UNCHANGED <<request, todo, childVars, handleVars>>

\* std::process::Command::spawn with pre_exec hooks: a close-on-exec pipe on
\* the two lowest free descriptors, then fork.  The shell keeps the reader,
\* the child the writer.
fork ==
    /\ shell = "cloning" /\ todo = << >>
    /\ LET reader == Min(FreeFrom(0, shellFds))
           writer == Min(FreeFrom(0, shellFds) \ {reader})
       IN /\ childFds' = Holding(shellFds, writer, "report")
          /\ shellFds' = Holding(shellFds, reader, "report reader")
          /\ report' = [text |-> "none", on |-> writer]
    /\ shell' = "waiting" /\ child' = "stdio"
    /\ UNCHANGED <<request, todo, clones, reserved, inherited, group, signals, handleVars>>

----------------------------------------------------------------------------
\* The child, from the fork to its program.

\* A child that cannot go on writes its error to the number it remembers for
\* the report and exits; std aborts it if that number is closed.
reports(outcome) ==
    /\ child' = outcome
    /\ report' = [text |-> "error",
                  on |-> IF report.on \in DOMAIN childFds THEN childFds[report.on] ELSE "nothing"]
    /\ childFds' = << >>
    /\ UNCHANGED <<shellVars, inherited, group, signals, handleVars>>

child_stdio ==
    /\ child = "stdio"
    /\ childFds' = [fd \in DOMAIN childFds |->
                      IF fd \in Standard \cap DOMAIN clones THEN childFds[clones[fd]] ELSE childFds[fd]]
    /\ child' = "chdir"
    /\ UNCHANGED <<shellVars, inherited, group, signals, report, handleVars>>

child_chdir ==
    /\ child = "chdir" /\ child' = "dispositions"
    /\ UNCHANGED <<shellVars, childFds, inherited, group, signals, report, handleVars>>

chdir_fails == "chdir" \in Faults /\ child = "chdir" /\ reports("exited")

child_signal_dispositions ==
    /\ child = "dispositions" /\ child' = "group"
    /\ signals' = "default"
    /\ UNCHANGED <<shellVars, childFds, inherited, group, report, handleVars>>

\* Mutant: the child relies on the shell's setpgid.
child_process_groupMutant ==
    /\ child = "group" /\ child' = "descriptors"
    /\ UNCHANGED <<shellVars, childFds, inherited, group, signals, report, handleVars>>

\* setpgid(0, 0) or setpgid(0, group); no hook is installed for Inherit.
child_process_group ==
    /\ child = "group" /\ child' = "descriptors"
    /\ group' = IF request.group = "Inherit" THEN group ELSE request.group
    /\ UNCHANGED <<shellVars, childFds, inherited, signals, report, handleVars>>

\* The group to join is gone once its last member was reaped.
group_fails ==
    /\ "group" \in Faults /\ child = "group" /\ request.group = "Join"
    /\ reports("exited")

\* dup2 for every mapping in its order, then close; a dup2 leaves its target
\* open across exec unless it is its own source.
Extra == DOMAIN clones \ Standard
Dup2(table, target) == (target :> table[clones[target]]) @@ table

child_descriptors ==
    /\ child = "descriptors" /\ child' = "exec"
    /\ LET mapped == FoldLeft(Dup2, childFds, SetToSortSeq(Extra, <)) IN
         childFds' = [fd \in DOMAIN mapped \ request.close |-> mapped[fd]]
    /\ inherited' = (inherited \cup {t \in Extra : clones[t] # t}) \ request.close
    /\ UNCHANGED <<shellVars, group, signals, report, handleVars>>

\* exec closes whatever is close-on-exec, the report among it.
child_exec ==
    /\ child = "exec" /\ child' = "running"
    /\ childFds' = [fd \in inherited \cap DOMAIN childFds |-> childFds[fd]]
    /\ UNCHANGED <<shellVars, inherited, group, signals, report, handleVars>>

exec_fails == "exec" \in Faults /\ child = "exec" /\ reports("exited")

child_exits ==
    /\ child = "running" /\ child' = "exited" /\ childFds' = << >>
    /\ UNCHANGED <<shellVars, inherited, group, signals, report, handleVars>>

\* A keyboard signal for the child's group, while its handling is the default.
child_is_interrupted ==
    /\ child \notin {"none", "exited", "reaped"} /\ signals = "default"
    /\ child' = "exited" /\ childFds' = << >>
    /\ UNCHANGED <<shellVars, inherited, group, signals, report, handleVars>>

----------------------------------------------------------------------------
\* The shell, from the report on.

WriterOpen == "report" \in Range(childFds)
ErrorArrived == report.text = "error" /\ report.on = "report"

\* An error on the report: std waits for the child and answers the error.
spawn_fails ==
    /\ shell = "waiting" /\ ErrorArrived /\ child = "exited"
    /\ shell' = "failed" /\ shellFds' = Released
    /\ clones' = << >> /\ reserved' = {}
    /\ child' = "reaped"
    /\ UNCHANGED <<request, todo, childFds, inherited, group, signals, report, handleVars>>

\* The report ends without an error: the child is taken to have executed.
\* adopt repeats setpgid, which does nothing once the child has executed.
spawn_returns ==
    /\ shell = "waiting" /\ ~WriterOpen /\ ~ErrorArrived
    /\ shell' = "spawned" /\ shellFds' = Released
    /\ clones' = << >> /\ reserved' = {}
    /\ group' = IF child \in {"running", "exited"} \/ request.group = "Inherit"
                THEN group ELSE request.group
    /\ UNCHANGED <<request, todo, child, childFds, inherited, signals, report, handleVars>>

\* PosixChild::wait and the transition waits: the only reader of the status.
observe ==
    /\ shell = "spawned" /\ ~completed /\ child = "exited"
    /\ child' = "reaped" /\ completed' = TRUE
    /\ UNCHANGED <<shellVars, childFds, inherited, group, signals, report, struck>>

\* PosixChild::terminate; a reaped pid belongs to whoever the host gives it to.
terminate ==
    /\ shell = "spawned"
    /\ IF completed THEN UNCHANGED <<struck, child, childFds>>
       ELSE /\ struck' = struck \cup {IF child = "reaped" THEN "stranger" ELSE "child"}
            /\ child' = IF child = "reaped" THEN child ELSE "exited"
            /\ childFds' = << >>
    /\ UNCHANGED <<shellVars, inherited, group, signals, report, completed>>

Next ==
    \/ clone_standard \/ clone_extra \/ clone_fails \/ fork
    \/ child_stdio \/ child_chdir \/ chdir_fails \/ child_signal_dispositions
    \/ child_process_group \/ group_fails \/ child_descriptors
    \/ child_exec \/ exec_fails \/ child_exits \/ child_is_interrupted
    \/ spawn_fails \/ spawn_returns \/ observe \/ terminate

Spec == Init /\ [][Next]_vars

----------------------------------------------------------------------------
\* Every variable is of its type.
TypeOK ==
    /\ request \in Requests
    /\ shell \in {"cloning", "waiting", "spawned", "failed"}
    /\ DOMAIN shellFds \subseteq 0..LastFd /\ DOMAIN childFds \subseteq 0..LastFd
    /\ \A t \in DOMAIN clones \ Standard : clones[t] \notin ActionTargets
    /\ DOMAIN clones \subseteq DOMAIN request.map /\ reserved \subseteq ActionTargets
    /\ child \in {"none", "stdio", "chdir", "dispositions", "group", "descriptors", "exec",
                  "running", "exited", "reaped"}
    /\ inherited \subseteq Standard \cup UNION {named.mapped : named \in Redirections}
    /\ group \in {"shell", "New", "Join"} /\ signals \in {"ignored", "default"}
    /\ completed \in BOOLEAN /\ struck \subseteq {"child", "stranger"}

\* The program finds the descriptors of the request, all of them and nothing
\* else of the shell's, whatever numbers the endpoints and their clones had
\* (StageDescriptorMap asks for a simultaneous assignment, the hook runs dup2
\* one after another).
ProgramSeesTheRequest ==
    child = "running" =>
        LET wanted == request.map @@ Streams IN
        childFds = [fd \in DOMAIN wanted \ request.close |-> wanted[fd]]

\* A program never runs outside the group of its job, nor does the shell go on
\* as if it were there before it is (the group is what a terminal hand-over, a
\* signal or the next stage's Join name).
GroupIsFormed ==
    child = "running" \/ (shell = "spawned" /\ child \notin {"exited", "reaped"}) =>
        group = IF request.group = "Inherit" THEN "shell" ELSE request.group

\* terminate never signals a process the adapter has already reaped.
StrangersAreSafe == "stranger" \notin struck

\* A child that could not become the requested program is a failed spawn, not
\* a process with a status of its own, where what a request names beyond the
\* standard descriptors is an initial run of numbers: the clones and their
\* reservations then keep std's exec report off all of them.  The supervisor of
\* a background chain, with its capsule on 3 and its completion on 4, is one.
InitialRun(fds) == \A fd \in fds : 3..fd \subseteq fds

FailuresAreReported ==
    report.text = "error" /\ InitialRun(ActionTargets \ Standard) => shell # "spawned"

\* The state is one of the program's, GroupIsFormed, StrangersAreSafe and FailuresAreReported.
SpawnConsistent == TypeOK /\ GroupIsFormed /\ StrangersAreSafe /\ FailuresAreReported

\* "Resolution and spawn failures did not complete as child processes, so Flash
\* reports them as runtime errors" (scripting.md), whatever a request names.
NoManufacturedStatus == report.text = "error" => shell # "spawned"
=============================================================================
