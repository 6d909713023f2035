---------------------------- MODULE JobObservers ----------------------------
(***************************************************************************)
(* The children of the session's jobs and the observer threads that report *)
(* them (flash-runtime/src/background.rs, ordinary targets: one observer   *)
(* per child).                                                             *)
(*                                                                         *)
(* The operating system is external.  What the shell relies on is the      *)
(* POSIX wait status: a child's *latest* transition, reported at most once *)
(* (waitpid with WUNTRACED | WCONTINUED).  A stop that is continued before *)
(* anybody waits is reported as a continuation only, and the other way     *)
(* round; a child leaves its process group when its exit is waited.        *)
(***************************************************************************)
EXTENDS JobLifecycle, Naturals, Sequences

CONSTANTS JobId,   \* job identities, allocated from 1 upwards
          Ok,      \* the successful status
          Setups   \* what may happen in a session

\* max_stops            bound: stops per child that this shell did not ask for
\* strangers            does anybody else continue or kill its stopped children?
\* observers_may_fail   may a blocking wait fail?
ASSUME JobAssumption ==
  /\ JobId \subseteq Nat \ {0}
  /\ Process \subseteq Nat \ {0}
  /\ Ok \in Status /\ Status # {Ok}
  /\ \A s \in Setups :
       s.max_stops \in Nat /\ s.strangers \in BOOLEAN /\ s.observers_may_fail \in BOOLEAN

VARIABLE setup     \* the one of this behaviour

Failed == "Failed"      \* ChildObservation::Failed
Idle   == "Idle"        \* an observer blocked in its wait
Done   == "Done"        \* an observer whose thread has returned

ASSUME ObserverStatesDistinct ==
  {Failed, Idle, Done} \cap MemberState = {}

VARIABLES proc,        \* the children, as the kernel knows them
          unreported,  \* does a child have a transition nobody waited for?
          stops,       \* stops so far (bounding only)
          observer,    \* each observer: Idle, holding an observation, or Done
          events       \* the coordinator's observation channel

kernelVars == <<proc, unreported, stops>>
childVars  == <<kernelVars, observer, events>>

Observation == MemberState \cup {Failed}
Event == [job : JobId, process : Process, seen : Observation]

ChildTypeOK ==
  /\ proc \in [JobId -> [Process -> MemberState \cup {Absent}]]
  /\ unreported \in [JobId -> [Process -> BOOLEAN]]
  /\ stops \in [JobId -> [Process -> 0..setup.max_stops]]
  /\ observer \in [JobId -> [Process -> Observation \cup {Idle, Done}]]
  /\ events \in Seq(Event)

ChildInit ==
  /\ setup \in Setups
  /\ proc = [j \in JobId |-> [p \in Process |-> Absent]]
  /\ unreported = [j \in JobId |-> [p \in Process |-> FALSE]]
  /\ stops = [j \in JobId |-> [p \in Process |-> 0]]
  /\ observer = [j \in JobId |-> [p \in Process |-> Idle]]
  /\ events = <<>>

-----------------------------------------------------------------------------
(* The kernel. *)
Killed == CHOOSE st \in Status : st # Ok      \* the status of a killed child

Transition(j, p, to) ==
  /\ proc' = [proc EXCEPT ![j][p] = to]
  /\ unreported' = [unreported EXCEPT ![j][p] = TRUE]

ChildExits(j, p, st) ==
  /\ proc[j][p] = Running
  /\ Transition(j, p, st)
  /\ UNCHANGED <<stops, observer, events>>

\* A terminal key, a tty read from the background, or the child itself.
ChildStops(j, p, sig) ==
  /\ proc[j][p] = Running
  /\ stops[j][p] < setup.max_stops
  /\ Transition(j, p, sig)
  /\ stops' = [stops EXCEPT ![j][p] = @ + 1]
  /\ UNCHANGED <<observer, events>>

\* Someone other than this shell continues or kills a stopped child.
ChildContinuedElsewhere(j, p) ==
  /\ setup.strangers
  /\ proc[j][p] \in Signal
  /\ Transition(j, p, Running)
  /\ UNCHANGED <<stops, observer, events>>

ChildKilledElsewhere(j, p) ==
  /\ setup.strangers
  /\ proc[j][p] \in Signal
  /\ Transition(j, p, Killed)
  /\ UNCHANGED <<stops, observer, events>>

\* kill(-pgid) fails with ESRCH once every member has been waited.
Waited(j, p)  == proc[j][p] \in Status /\ ~unreported[j][p]
GroupExists(j) == \E p \in Process : proc[j][p] # Absent /\ ~Waited(j, p)

\* What a delivered group signal does at once.  Hang-up, interrupt and
\* terminate do nothing here: a running child reacts by exiting or not, which
\* ChildExits covers, and a stopped one cannot react.
SignalGroup(j, affected, to) ==
  /\ proc' = [proc EXCEPT ![j] = [p \in Process |-> IF @[p] \in affected THEN to ELSE @[p]]]
  /\ unreported' = [unreported EXCEPT
                      ![j] = [p \in Process |-> @[p] \/ proc[j][p] \in affected]]

ContinueGroup(j) == SignalGroup(j, Signal, Running) /\ UNCHANGED stops
KillGroup(j)     == SignalGroup(j, Signal \cup {Running}, Killed) /\ UNCHANGED stops
StopGroup(j)     == (\E sig \in Signal : SignalGroup(j, {Running}, sig)) /\ UNCHANGED stops

\* Spawned and handed to their observers: the members of job j.
SpawnGroup(j, members) ==
  /\ proc' = [proc EXCEPT ![j] = [p \in Process |-> IF p \in members THEN Running ELSE Absent]]
  /\ UNCHANGED <<unreported, stops, observer, events>>

-----------------------------------------------------------------------------
(* One observer thread. *)

\* `wait_for_transition` returns: the transition is consumed in the kernel,
\* and not yet in the channel.
ObserverWaits(j, p) ==
  /\ observer[j][p] = Idle
  /\ unreported[j][p]
  /\ observer' = [observer EXCEPT ![j][p] = proc[j][p]]
  /\ unreported' = [unreported EXCEPT ![j][p] = FALSE]
  /\ UNCHANGED <<proc, stops, events>>

\* Mutant: the observer returns after any observation, not only a terminal one.
ObserverSendsMutant(j, p) ==
  /\ observer[j][p] \in Observation
  /\ events' = Append(events, [job |-> j, process |-> p, seen |-> observer[j][p]])
  /\ observer' = [observer EXCEPT ![j][p] = Done]
  /\ UNCHANGED kernelVars

ObserverSends(j, p) ==
  /\ observer[j][p] \in Observation
  /\ events' = Append(events, [job |-> j, process |-> p, seen |-> observer[j][p]])
  /\ observer' = [observer EXCEPT
                    ![j][p] = IF @ \in Status \cup {Failed} THEN Done ELSE Idle]
  /\ UNCHANGED kernelVars

\* `wait_for_transition` fails: the observer terminates the child and waits
\* once more.  That wait recovers a status, or it fails too and the child is
\* left to others, waited or not.
ObserverWaitFails(j, p) ==
  /\ setup.observers_may_fail
  /\ observer[j][p] = Idle
  /\ proc[j][p] # Absent
  /\ LET status == IF proc[j][p] \in Status THEN proc[j][p] ELSE Killed
     IN  /\ proc' = [proc EXCEPT ![j][p] = status]
         /\ \/ /\ observer' = [observer EXCEPT ![j][p] = status]
               /\ unreported' = [unreported EXCEPT ![j][p] = FALSE]
            \/ /\ observer' = [observer EXCEPT ![j][p] = Failed]
               /\ \E left \in BOOLEAN : unreported' = [unreported EXCEPT ![j][p] = left]
  /\ UNCHANGED <<stops, events>>

ChildNext ==
  \E j \in JobId, p \in Process :
    \/ \E st \in Status : ChildExits(j, p, st)
    \/ \E sig \in Signal : ChildStops(j, p, sig)
    \/ ChildContinuedElsewhere(j, p)
    \/ ChildKilledElsewhere(j, p)
    \/ ObserverWaits(j, p)
    \/ ObserverSends(j, p)
    \/ ObserverWaitFails(j, p)
=============================================================================
