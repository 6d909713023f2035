----------------------------- MODULE JobMachine -----------------------------
(***************************************************************************)
(* One job record under every sequence of calls its owner may make: each   *)
(* public method of `Job` is an action.  A call that returns an error      *)
(* changes nothing and is not a step.                                      *)
(***************************************************************************)
EXTENDS JobLifecycle

VARIABLE record

RecordInit == record = NewJob

BeginStartingStep == CanBeginStarting(record) /\ record' = BeginStarting(record)
AddProcessStep(p) == CanAddProcess(record, p) /\ record' = AddProcess(record, p)
FinishStartingStep(plc) ==
  CanFinishStarting(record) /\ record' = FinishStarting(record, plc)
AbortStartingStep == CanAbortStarting(record) /\ record' = AbortStarting(record)
ObserveStoppedStep(p, sig) ==
  CanObserve(record, p) /\ record' = ObserveStopped(record, p, sig)
ObserveContinuedStep(p) == CanObserve(record, p) /\ record' = ObserveContinued(record, p)
ObserveCompletedStep(p, st) ==
  CanObserve(record, p) /\ record' = ObserveCompleted(record, p, st)
MoveToStep(plc) == CanMoveTo(record) /\ record' = MoveTo(record, plc)
ContinueInStep(plc) == CanContinueIn(record) /\ record' = ContinueIn(record, plc)
AcknowledgeStoppedStep ==
  CanAcknowledgeStopped(record) /\ record' = AcknowledgeStopped(record)
MarkNotifiedStep == CanMarkNotified(record) /\ record' = MarkNotified(record)
MarkReapedStep == CanMarkReaped(record) /\ record' = MarkReaped(record)

RecordNext ==
  \/ BeginStartingStep
  \/ \E p \in Process : AddProcessStep(p)
  \/ \E plc \in Placement : FinishStartingStep(plc)
  \/ AbortStartingStep
  \/ \E p \in Process, sig \in Signal : ObserveStoppedStep(p, sig)
  \/ \E p \in Process : ObserveContinuedStep(p)
  \/ \E p \in Process, st \in Status : ObserveCompletedStep(p, st)
  \/ \E plc \in Placement : MoveToStep(plc)
  \/ \E plc \in Placement : ContinueInStep(plc)
  \/ AcknowledgeStoppedStep
  \/ MarkNotifiedStep
  \/ MarkReapedStep

RecordSpec == RecordInit /\ [][RecordNext]_record

-----------------------------------------------------------------------------
\* The job record has the shape of the Rust struct.
RecordTypeOK == record \in Job

\* A published aggregate says exactly what its members say: Completed and
\* later states mean every member is terminal, Stopped means no member runs
\* and one is stopped, and a running state means some member runs
\* (`reconcile`, and `continue_in`, which sets the state without it).
AggregateAgrees == AggregateAgreesIn(record)

\* A notice is pending only for a stop or a completion, and a completion that
\* nobody acknowledged always has one (`reconcile`, `mark_notified`).
NoticeMatchesState == NoticeMatchesIn(record)

\* A stopped job resumes where it last ran: `Stopped { resume }` and the
\* retained placement never disagree, and a published job has a placement.
ResumeIsPlacement == ResumeIsPlacementIn(record)

\* The four together: no sequence of calls leaves a record whose aggregate,
\* notice, placement and members tell different stories.
RecordConsistent == JobOK(record)

\* A member's terminal status is final: no later stop, continuation, group
\* continuation or second completion overwrites it (ProcessAlreadyCompleted,
\* and `continue_in`, which touches only stopped members); only the cleanup
\* of an unpublished startup forgets it.
TerminalStatusFinal ==
  [][\A p \in Process :
       record.members[p] \in Status =>
         \/ record'.members[p] = record.members[p]
         \/ record.state = "Starting" /\ record'.state = "Reaped"]_record

-----------------------------------------------------------------------------
\* The job seen without its members.
PhaseOf(j) == IF j.state \in Placement THEN "Live" ELSE j.state

Promise == INSTANCE JobPromise WITH phase <- PhaseOf(record), owed <- record.notice

\* Every method call is a step of the member-less job, or invisible in it.
ImplementsPromise == Promise!PSpec
=============================================================================
