---------------------------- MODULE JobLifecycle ----------------------------
(***************************************************************************)
(* The pure lifecycle of one shell job (flash-runtime/src/job.rs): the     *)
(* record `Job`, the conditions under which each of its methods succeeds   *)
(* (`Can...`), and the record each of them leaves behind.  A method whose  *)
(* condition is false returns a JobTransitionError and leaves the job as   *)
(* it was.                                                                 *)
(*                                                                         *)
(* A member's latest observation (`JobMemberState`) is Running, the signal *)
(* it stopped under, or the status it completed with; Absent marks a       *)
(* process that is not a key of the `members` map.                         *)
(***************************************************************************)
CONSTANTS Process,    \* platform process identities
          Signal,     \* stop signal numbers
          Status      \* terminal language statuses

Running == "Running"
Absent  == "Absent"
NoPlacement == "None"

ASSUME MemberStatesDistinct ==
  /\ Signal \cap Status = {}
  /\ {Running, Absent} \cap (Signal \cup Status) = {}

Placement   == {"Foreground", "Background"}
Published   == {"Foreground", "Background", "Stopped"}
Acknowledged == {"Completed", "Notified", "Reaped"}
JobState    == {"Planned", "Starting"} \cup Published \cup Acknowledged
MemberState == {Running} \cup Signal \cup Status

\* `resume` is the payload of JobState::Stopped { resume }.
Job == [state     : JobState,
        resume    : Placement \cup {NoPlacement},
        placement : Placement \cup {NoPlacement},
        members   : [Process -> MemberState \cup {Absent}],
        notice    : BOOLEAN]

NewJob == [state     |-> "Planned",
           resume    |-> NoPlacement,
           placement |-> NoPlacement,
           members   |-> [p \in Process |-> Absent],
           notice    |-> FALSE]

-----------------------------------------------------------------------------
Members(j)        == {p \in Process : j.members[p] # Absent}
AllCompleted(j)   == \A p \in Members(j) : j.members[p] \in Status
AllLiveStopped(j) == \A p \in Members(j) : j.members[p] \in Signal \cup Status

\* Mutant: a member's observation re-announces a stop that was acknowledged.
ReconcileMutant(j) ==
  CASE j.state = "Starting" -> j
    [] j.state # "Starting" /\ AllCompleted(j) ->
         [j EXCEPT !.state = "Completed", !.resume = NoPlacement, !.notice = TRUE]
    [] j.state # "Starting" /\ ~AllCompleted(j) /\ AllLiveStopped(j) ->
         [j EXCEPT !.state = "Stopped", !.resume = j.placement, !.notice = TRUE]
    [] OTHER -> [j EXCEPT !.state = j.placement, !.resume = NoPlacement]

\* Fold the member observations into the aggregate state.
Reconcile(j) ==
  CASE j.state = "Starting" -> j
    [] j.state # "Starting" /\ AllCompleted(j) ->
         [j EXCEPT !.state = "Completed", !.resume = NoPlacement,
                   !.notice = @ \/ j.state # "Completed"]
    [] j.state # "Starting" /\ ~AllCompleted(j) /\ AllLiveStopped(j) ->
         [j EXCEPT !.state = "Stopped", !.resume = j.placement,
                   !.notice = @ \/ j.state # "Stopped"]
    [] OTHER -> [j EXCEPT !.state = j.placement, !.resume = NoPlacement]

-----------------------------------------------------------------------------
(* Startup. *)
CanBeginStarting(j) == j.state = "Planned"
BeginStarting(j)    == [j EXCEPT !.state = "Starting"]

CanAddProcess(j, p) == j.state = "Starting" /\ j.members[p] = Absent
AddProcess(j, p)    == [j EXCEPT !.members[p] = Running]

CanFinishStarting(j)   == j.state = "Starting" /\ Members(j) # {}
FinishStarting(j, plc) ==
  Reconcile([j EXCEPT !.placement = plc, !.state = plc])

CanAbortStarting(j) == j.state = "Starting"
AbortStarting(j)    ==
  [j EXCEPT !.state = "Reaped", !.members = [p \in Process |-> Absent]]

-----------------------------------------------------------------------------
(* Observations of one member. *)
CanObserve(j, p) ==
  /\ j.state \in {"Starting"} \cup Published
  /\ j.members[p] \in {Running} \cup Signal

ObserveStopped(j, p, sig)  == Reconcile([j EXCEPT !.members[p] = sig])
ObserveCompleted(j, p, st) == Reconcile([j EXCEPT !.members[p] = st])
ObserveContinued(j, p) ==
  Reconcile([j EXCEPT !.members[p] = Running,
                      !.placement  = IF j.state = "Stopped" THEN j.resume ELSE @,
                      !.notice     = FALSE])

-----------------------------------------------------------------------------
(* Placement, continuation and acknowledgement. *)
CanMoveTo(j)   == j.state \in Placement
MoveTo(j, plc) == [j EXCEPT !.placement = plc, !.state = plc]

CanContinueIn(j)   == j.state = "Stopped"
ContinueInMutant(j, plc) ==
  [j EXCEPT !.placement = plc, !.state = plc, !.resume = NoPlacement, !.notice = FALSE]
ContinueIn(j, plc) ==
  [j EXCEPT !.members = [p \in Process |-> IF @[p] \in Signal THEN Running ELSE @[p]],
            !.placement = plc, !.state = plc, !.resume = NoPlacement,
            !.notice = FALSE]

CanAcknowledgeStopped(j) == j.state = "Stopped" /\ j.notice
AcknowledgeStopped(j)    == [j EXCEPT !.notice = FALSE]

CanMarkNotified(j) == j.state = "Completed"
MarkNotified(j)    == [j EXCEPT !.state = "Notified", !.notice = FALSE]

CanMarkReaped(j) == j.state = "Notified"
MarkReaped(j)    == [j EXCEPT !.state = "Reaped"]

-----------------------------------------------------------------------------
(* What every job record satisfies between two calls. *)

\* The aggregate says exactly what the members say.
AggregateAgreesIn(j) ==
  /\ j.state \in {"Completed", "Notified"} => AllCompleted(j)
  /\ j.state = "Stopped" => AllLiveStopped(j) /\ ~AllCompleted(j)
  /\ j.state \in Placement => ~AllLiveStopped(j)
  /\ j.state \in Published \cup {"Completed", "Notified"} => Members(j) # {}

\* A notice is pending only for a stop or a completion; an unacknowledged
\* completion always has one.
NoticeMatchesIn(j) ==
  /\ j.notice => j.state \in {"Stopped", "Completed"}
  /\ j.state = "Completed" => j.notice

\* `Stopped { resume }` is the retained placement, and a published job has one.
ResumeIsPlacementIn(j) ==
  /\ j.resume = IF j.state = "Stopped" THEN j.placement ELSE NoPlacement
  /\ j.state \in Published => j.placement \in Placement
  /\ j.state \in Placement => j.state = j.placement

JobOK(j) == /\ j \in Job
            /\ AggregateAgreesIn(j)
            /\ NoticeMatchesIn(j)
            /\ ResumeIsPlacementIn(j)
=============================================================================
