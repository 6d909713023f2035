--------------------------- MODULE StageProcesses ---------------------------
(***************************************************************************)
(* The external stages of one pipeline as the operating system runs them:  *)
(* child processes in one process group, and the pipes between them.  All  *)
(* of it is external to the shell, which only sees wait statuses, end of   *)
(* file and broken pipes.                                                  *)
(*                                                                         *)
(* Edge e is the pipe from stage e to stage e + 1; the edge of the last    *)
(* stage is a capture pipe.  A byte is a token: a pipe is how many it      *)
(* holds.  A pipe has a reader (a writer) as long as the shell or a living *)
(* child holds its reading (writing) end.                                  *)
(***************************************************************************)
EXTENDS Naturals

CONSTANTS MaxStages,            \* bound: how many stages a pipeline has
          Capacity,             \* what a pipe holds
          AutomaticResumeLimit, \* AUTOMATIC_RESUME_LIMIT
          Setups                \* the pipelines

\* stages       how many stages the pipeline has
\* edges        its pipes
\* redirected   the stages whose standard output is redirected to a file
\* max_writes   bound: what a child writes to its pipe
\* max_stops    bound: how often the terminal stops the group
\* faults       the operations that may fail
ASSUME StageAssumption ==
  /\ MaxStages \in Nat /\ Capacity \in Nat \ {0} /\ AutomaticResumeLimit \in Nat
  /\ \A s \in Setups :
       /\ s.stages \in 1..MaxStages
       /\ s.edges \subseteq 1..s.stages /\ s.redirected \subseteq 1..s.stages
       /\ s.max_writes \in Nat /\ s.max_stops \in Nat

VARIABLE setup      \* the one of this behaviour

Stages   == setup.stages
Stage    == 1..Stages
Edges    == setup.edges
Fault(f) == f \in setup.faults

Status   == {"ok", "failed", "killed"}
Endpoint == Edges \X {"r", "w"}

VARIABLES child,   \* each stage's process
          news,    \* the children with a transition nobody waited for
          reaped,  \* the children whose exit was waited
          pipe,    \* what each pipe holds
          held,    \* the endpoints the shell holds
          wrote,   \* what each child wrote so far
          stops    \* group stops so far

processVars == <<child, news, reaped, pipe, wrote, stops>>
osVars      == <<processVars, held>>

ProcessTypeOK ==
  /\ child \in [Stage -> {"absent", "running", "stopped"} \cup Status]
  /\ news \subseteq Stage
  /\ reaped \subseteq Stage
  /\ pipe \in [Edges -> 0..Capacity]
  /\ held \subseteq Endpoint
  /\ wrote \in [Stage -> 0..setup.max_writes]
  /\ stops \in 0..setup.max_stops

ProcessInit ==
  /\ setup \in Setups
  /\ child = [i \in Stage |-> "absent"]
  /\ news = {}
  /\ reaped = {}
  /\ pipe = [e \in Edges |-> 0]
  /\ held = {}
  /\ wrote = [i \in Stage |-> 0]
  /\ stops = 0

Alive(i)  == child[i] \in {"running", "stopped"}
Piped(i)  == i \in Edges \ setup.redirected
HasReader(e) == <<e, "r">> \in held \/ (e + 1 \in Stage /\ Alive(e + 1))
HasWriter(e) == <<e, "w">> \in held \/ (Piped(e) /\ Alive(e))
AtEnd(e)     == pipe[e] = 0 /\ ~HasWriter(e)

-----------------------------------------------------------------------------
Exits(i, st) ==
  /\ child' = [child EXCEPT ![i] = st]
  /\ news' = news \cup {i}
  /\ UNCHANGED <<reaped, pipe, wrote, stops>>

WantsToWrite(i) == child[i] = "running" /\ Piped(i) /\ wrote[i] < setup.max_writes

ChildWrites(i) ==
  /\ WantsToWrite(i)
  /\ HasReader(i)
  /\ pipe[i] < Capacity
  /\ pipe' = [pipe EXCEPT ![i] = @ + 1]
  /\ wrote' = [wrote EXCEPT ![i] = @ + 1]
  /\ UNCHANGED <<child, news, reaped, stops>>

\* A write to a pipe without a reader ends the child.
ChildBreaks(i) ==
  /\ WantsToWrite(i)
  /\ ~HasReader(i)
  /\ Exits(i, "killed")

ChildReads(i) ==
  /\ child[i] = "running"
  /\ i - 1 \in Edges
  /\ pipe[i - 1] > 0
  /\ pipe' = [pipe EXCEPT ![i - 1] = @ - 1]
  /\ UNCHANGED <<child, news, reaped, wrote, stops>>

\* A child may exit at any time.
ChildExits(i, st) ==
  /\ child[i] = "running"
  /\ Exits(i, st)

\* A terminal stop reaches every running member of the group at once.
GroupStops ==
  /\ stops < setup.max_stops
  /\ \E i \in Stage : child[i] = "running"
  /\ stops' = stops + 1
  /\ child' = [i \in Stage |-> IF child[i] = "running" THEN "stopped" ELSE child[i]]
  /\ news' = news \cup {i \in Stage : child[i] = "running"}
  /\ UNCHANGED <<reaped, pipe, wrote>>

ProcessNext ==
  \/ \E i \in Stage :
       \/ ChildWrites(i) \/ ChildBreaks(i) \/ ChildReads(i)
       \/ \E st \in {"ok", "failed"} : ChildExits(i, st)
  \/ GroupStops

\* What a well-behaved child does by itself: it writes what it has, and only
\* then is it bound to read its input to the end and to exit.  A child that
\* wants to write to a full pipe does nothing else.
WellBehaved(i) ==
  \/ ChildWrites(i)
  \/ ChildBreaks(i)
  \/ /\ ~WantsToWrite(i)
     /\ \/ ChildReads(i)
        \/ /\ i - 1 \in Edges => AtEnd(i - 1)
           /\ \E st \in {"ok", "failed"} : ChildExits(i, st)

-----------------------------------------------------------------------------
(* What the shell does to the children. *)
Spawn(i) ==
  /\ child' = [child EXCEPT ![i] = "running"]
  /\ UNCHANGED <<news, reaped, pipe, wrote, stops>>

ContinueGroup ==
  /\ child' = [i \in Stage |-> IF child[i] = "stopped" THEN "running" ELSE child[i]]
  /\ news' = news \cup {i \in Stage : child[i] = "stopped"}
  /\ UNCHANGED <<reaped, pipe, wrote, stops>>

\* `terminate` on each of a set of children, then `wait` on each.
TerminateAndReap(set) ==
  LET started == {i \in set : child[i] # "absent"}
  IN  /\ child' = [i \in Stage |-> IF i \in set /\ Alive(i) THEN "killed" ELSE child[i]]
      /\ reaped' = reaped \cup started
      /\ news' = news \ started
      /\ UNCHANGED <<pipe, wrote, stops>>

\* `wait_for_transition` returns what child i last did.
Observe(i) ==
  /\ i \in news
  /\ news' = news \ {i}
  /\ reaped' = IF child[i] \in Status THEN reaped \cup {i} ELSE reaped
  /\ UNCHANGED <<child, pipe, wrote, stops>>
=============================================================================
