------------------------ MODULE BackgroundJobsProofs ------------------------
(***************************************************************************)
(* What is proved of the job table for any number of jobs, children and    *)
(* signals: every record stays consistent, the exit path's memory of a     *)
(* continue it sent never outlives the stop it answered, and the terminal  *)
(* belongs to a job only while the session waits for that very job.  And   *)
(* of the whole table: its parts agree in every state, it converges to     *)
(* what the kernel knows, and the end of a session leaves nothing behind.  *)
(***************************************************************************)
EXTENDS BackgroundJobs, JobMachine, WellFoundedInduction, FiniteSetTheorems, SequenceTheorems, TLAPS

-----------------------------------------------------------------------------
(***************************************************************************)
(* One job record: every method of `Job` takes a consistent record to a    *)
(* consistent one, whatever the processes, signals and statuses are.       *)
(***************************************************************************)

\* Reconciling a published job whose members just changed restores the
\* agreement of its aggregate, notice and resume placement (`reconcile`).
LEMMA ReconcileOK ==
  ASSUME NEW j \in Job, j.state \in Published, j.placement \in Placement,
         Members(j) # {}, j.notice => AllLiveStopped(j)
  PROVE  /\ JobOK(Reconcile(j))
         /\ Reconcile(j).members = j.members
         /\ Reconcile(j).placement = j.placement
         /\ Reconcile(j).state \in Published \cup {"Completed"}
<1> DEFINE r == Reconcile(j)
<1> USE DEF Job, JobState, Published, Acknowledged, Placement
<1>1. CASE AllCompleted(j)
  <2>1. r = [j EXCEPT !.state = "Completed", !.resume = NoPlacement, !.notice = TRUE]
    BY <1>1 DEF Reconcile
  <2>2. r \in Job /\ r.members = j.members /\ r.placement = j.placement /\ r.state = "Completed"
        /\ r.notice /\ r.resume = NoPlacement
    BY <2>1 DEF NoPlacement
  <2>3. AllCompleted(r) /\ Members(r) # {}
    BY <1>1, <2>2 DEF AllCompleted, Members
  <2> QED
    BY <2>2, <2>3 DEF JobOK, AggregateAgreesIn, NoticeMatchesIn, ResumeIsPlacementIn
<1>2. CASE ~AllCompleted(j) /\ AllLiveStopped(j)
  <2>1. r = [j EXCEPT !.state = "Stopped", !.resume = j.placement,
                      !.notice = j.notice \/ j.state # "Stopped"]
    BY <1>2 DEF Reconcile
  <2>2. r \in Job /\ r.members = j.members /\ r.placement = j.placement /\ r.state = "Stopped"
        /\ r.resume = j.placement
    BY <2>1
  <2>3. AllLiveStopped(r) /\ ~AllCompleted(r) /\ Members(r) # {}
    BY <1>2, <2>2 DEF AllCompleted, AllLiveStopped, Members
  <2> QED
    BY <2>2, <2>3 DEF JobOK, AggregateAgreesIn, NoticeMatchesIn, ResumeIsPlacementIn
<1>3. CASE ~AllLiveStopped(j)
  <2>0. ~AllCompleted(j)
    BY <1>3 DEF AllCompleted, AllLiveStopped
  <2>1. r = [j EXCEPT !.state = j.placement, !.resume = NoPlacement]
    BY <1>3, <2>0 DEF Reconcile
  <2>2. r \in Job /\ r.members = j.members /\ r.placement = j.placement /\ r.state = j.placement
        /\ r.resume = NoPlacement /\ ~r.notice
    BY <1>3, <2>1
  <2>3. ~AllLiveStopped(r) /\ Members(r) # {}
    BY <1>3, <2>2 DEF AllLiveStopped, Members
  <2> QED
    BY <2>2, <2>3 DEF JobOK, AggregateAgreesIn, NoticeMatchesIn, ResumeIsPlacementIn
<1> QED
  BY <1>1, <1>2, <1>3

\* The three outcomes of reconciling a published job, and the notice each one
\* leaves (`reconcile`): a stop raises one only if the job was not stopped.
LEMMA ReconcileOutcome ==
  ASSUME NEW j \in Job, j.state \in Published, j.placement \in Placement
  PROVE  \/ Reconcile(j).state = "Completed" /\ Reconcile(j).notice = TRUE
         \/ /\ Reconcile(j).state = "Stopped" /\ AllLiveStopped(j)
            /\ Reconcile(j).notice = IF j.state = "Stopped" THEN j.notice ELSE TRUE
         \/ Reconcile(j).state = j.placement /\ Reconcile(j).notice = j.notice
<1> USE DEF Job, Published
<1>1. CASE AllCompleted(j)
  <2>1. Reconcile(j) = [j EXCEPT !.state = "Completed", !.resume = NoPlacement, !.notice = TRUE]
    BY <1>1 DEF Reconcile
  <2> QED
    BY <2>1
<1>2. CASE ~AllCompleted(j) /\ AllLiveStopped(j) /\ j.state = "Stopped"
  <2>1. Reconcile(j) = [j EXCEPT !.state = "Stopped", !.resume = j.placement, !.notice = j.notice]
    BY <1>2 DEF Reconcile
  <2> QED
    BY <1>2, <2>1
<1>3. CASE ~AllCompleted(j) /\ AllLiveStopped(j) /\ j.state # "Stopped"
  <2>1. Reconcile(j) = [j EXCEPT !.state = "Stopped", !.resume = j.placement, !.notice = TRUE]
    BY <1>3 DEF Reconcile
  <2> QED
    BY <1>3, <2>1
<1>4. CASE ~AllLiveStopped(j)
  <2>0. ~AllCompleted(j)
    BY <1>4 DEF AllCompleted, AllLiveStopped
  <2>1. Reconcile(j) = [j EXCEPT !.state = j.placement, !.resume = NoPlacement]
    BY <1>4, <2>0 DEF Reconcile
  <2> QED
    BY <2>1
<1> QED
  BY <1>1, <1>2, <1>3, <1>4

-----------------------------------------------------------------------------
\* A new record is consistent (`Job::new`).
LEMMA NewJobOK == JobOK(NewJob)
  BY DEF NewJob, JobOK, Job, JobState, Published, Acknowledged, Placement, NoPlacement,
         AggregateAgreesIn, NoticeMatchesIn, ResumeIsPlacementIn

\* Startup (`begin_starting`, `add_process`, `abort_starting_after_cleanup`)
\* keeps the record consistent: nothing is published yet.
LEMMA StartupOK ==
  ASSUME NEW j, JobOK(j)
  PROVE  /\ CanBeginStarting(j) => JobOK(BeginStarting(j))
         /\ \A p \in Process : CanAddProcess(j, p) => JobOK(AddProcess(j, p))
         /\ CanAbortStarting(j) => JobOK(AbortStarting(j))
<1> USE DEF JobOK, Job, JobState, Published, Acknowledged, Placement, NoPlacement,
            AggregateAgreesIn, NoticeMatchesIn, ResumeIsPlacementIn
<1>1. CanBeginStarting(j) => JobOK(BeginStarting(j))
  BY DEF CanBeginStarting, BeginStarting
<1>2. ASSUME NEW p \in Process, CanAddProcess(j, p)  PROVE JobOK(AddProcess(j, p))
  BY <1>2 DEF CanAddProcess, AddProcess, MemberState
<1>3. CanAbortStarting(j) => JobOK(AbortStarting(j))
  BY DEF CanAbortStarting, AbortStarting
<1> QED
  BY <1>1, <1>2, <1>3

\* Publication reconciles what was observed during startup, so a job whose
\* members all finished first is published as Completed (`finish_starting`).
LEMMA FinishStartingOK ==
  ASSUME NEW j, JobOK(j), NEW plc \in Placement, CanFinishStarting(j)
  PROVE  JobOK(FinishStarting(j, plc))
<1> DEFINE k == [j EXCEPT !.placement = plc, !.state = plc]
<1>1. j \in Job /\ j.state = "Starting" /\ ~j.notice /\ Members(j) # {}
  BY DEF CanFinishStarting, JobOK, NoticeMatchesIn, Job
<1>2. k \in Job /\ k.state \in Published /\ k.placement \in Placement /\ ~k.notice
      /\ k.members = j.members
  BY <1>1 DEF Job, JobState, Published, Placement
<1>3. Members(k) # {}
  BY <1>1, <1>2 DEF Members
<1> QED
  BY <1>2, <1>3, ReconcileOK DEF FinishStarting

\* What one member's observation does to a record: while the job starts, only
\* that member changes; afterwards the record is reconciled.  The lemma covers
\* stops and completions, which leave a pending notice alone.
LEMMA ObserveOK ==
  ASSUME NEW j, JobOK(j), NEW p \in Process, CanObserve(j, p),
         NEW m \in Signal \cup Status
  PROVE  JobOK(Reconcile([j EXCEPT !.members[p] = m]))
<1> DEFINE k == [j EXCEPT !.members[p] = m]
<1>1. /\ k \in Job /\ k.state = j.state /\ k.placement = j.placement
      /\ k.notice = j.notice /\ k.resume = j.resume
      /\ k.members = [j.members EXCEPT ![p] = m]
  BY DEF JobOK, Job, MemberState
<1>2. p \in Members(k)
  BY <1>1, MemberStatesDistinct DEF Members, Job, JobOK
<1>3. CASE j.state = "Starting"
  <2>1. Reconcile(k) = k
    BY <1>1, <1>3 DEF Reconcile
  <2> QED
    BY <1>1, <1>3, <2>1
    DEF JobOK, AggregateAgreesIn, NoticeMatchesIn, ResumeIsPlacementIn, Published, Placement
<1>4. CASE j.state \in Published
  <2>1. k.placement \in Placement
    BY <1>1, <1>4 DEF JobOK, ResumeIsPlacementIn
  <2>2. ASSUME k.notice PROVE AllLiveStopped(k)
    <3>1. AllLiveStopped(j)
      BY <1>1, <1>4, <2>2 DEF JobOK, NoticeMatchesIn, AggregateAgreesIn, Published
    <3> QED
      BY <1>1, <3>1 DEF AllLiveStopped, Members, JobOK, Job
  <2> QED
    BY <1>1, <1>2, <1>4, <2>1, <2>2, ReconcileOK
<1> QED
  BY <1>3, <1>4 DEF CanObserve

\* A continuation withdraws a pending stop notice (`observe_continued`).
LEMMA ObserveContinuedOK ==
  ASSUME NEW j, JobOK(j), NEW p \in Process, CanObserve(j, p)
  PROVE  JobOK(ObserveContinued(j, p))
<1> DEFINE k == [j EXCEPT !.members[p] = Running,
                      !.placement  = IF j.state = "Stopped" THEN j.resume ELSE j.placement,
                      !.notice     = FALSE]
<1>0. j.state = "Stopped" => j.resume = j.placement
  BY DEF JobOK, ResumeIsPlacementIn
<1>1. /\ k \in Job /\ k.state = j.state /\ k.placement = j.placement
      /\ ~k.notice /\ k.resume = j.resume
      /\ k.members = [j.members EXCEPT ![p] = Running]
  BY <1>0 DEF JobOK, Job, MemberState
<1>2. p \in Members(k)
  BY <1>1 DEF Members, Running, Absent, Job, JobOK
<1>3. CASE j.state = "Starting"
  <2>1. Reconcile(k) = k
    BY <1>1, <1>3 DEF Reconcile
  <2> QED
    BY <1>1, <1>3, <2>1
    DEF JobOK, AggregateAgreesIn, NoticeMatchesIn, ResumeIsPlacementIn, Published, Placement,
        ObserveContinued
<1>4. CASE j.state \in Published
  <2>1. k.placement \in Placement
    BY <1>1, <1>4 DEF JobOK, ResumeIsPlacementIn
  <2> QED
    BY <1>1, <1>2, <1>4, <2>1, ReconcileOK DEF ObserveContinued
<1> QED
  BY <1>3, <1>4 DEF CanObserve

\* Moving a running job and continuing a stopped one keep the record
\* consistent although neither reconciles (`move_to`, `continue_in`).
LEMMA PlacementOK ==
  ASSUME NEW j, JobOK(j), NEW plc \in Placement
  PROVE  /\ CanMoveTo(j) => JobOK(MoveTo(j, plc))
         /\ CanContinueIn(j) => JobOK(ContinueIn(j, plc))
<1>1. ASSUME CanMoveTo(j) PROVE JobOK(MoveTo(j, plc))
  BY <1>1 DEF CanMoveTo, MoveTo, JobOK, Job, JobState, Published, Acknowledged, Placement,
              AggregateAgreesIn, NoticeMatchesIn, ResumeIsPlacementIn, AllLiveStopped, Members,
              NoPlacement
<1>2. ASSUME CanContinueIn(j) PROVE JobOK(ContinueIn(j, plc))
  <2> DEFINE k == ContinueIn(j, plc)
  <2>1. /\ k \in Job /\ k.state = plc /\ k.placement = plc
        /\ k.resume = NoPlacement /\ ~k.notice
        /\ k.members = [q \in Process |-> IF j.members[q] \in Signal THEN Running ELSE j.members[q]]
    BY <1>2 DEF CanContinueIn, ContinueIn, JobOK, Job, JobState, Published, Placement, MemberState
  <2>2. PICK q \in Members(j) : j.members[q] \in Signal
    BY <1>2 DEF CanContinueIn, JobOK, AggregateAgreesIn, AllLiveStopped, AllCompleted
  <2>3. q \in Members(k) /\ k.members[q] = Running
    BY <2>1, <2>2 DEF Members, Running, Absent
  <2>4. ~AllLiveStopped(k) /\ Members(k) # {}
    BY <2>3, MemberStatesDistinct DEF AllLiveStopped
  <2> QED
    BY <2>1, <2>4 DEF JobOK, AggregateAgreesIn, NoticeMatchesIn, ResumeIsPlacementIn,
                      Published, Placement, NoPlacement
<1> QED
  BY <1>1, <1>2

\* Acknowledgement (`acknowledge_stopped_notice`, `mark_notified`,
\* `mark_reaped`) keeps the record consistent.
LEMMA AcknowledgeOK ==
  ASSUME NEW j, JobOK(j)
  PROVE  /\ CanAcknowledgeStopped(j) => JobOK(AcknowledgeStopped(j))
         /\ CanMarkNotified(j) => JobOK(MarkNotified(j))
         /\ CanMarkReaped(j) => JobOK(MarkReaped(j))
<1> USE DEF JobOK, Job, JobState, Published, Acknowledged, Placement, AllCompleted, AllLiveStopped,
            Members, AggregateAgreesIn, NoticeMatchesIn, ResumeIsPlacementIn, NoPlacement
<1>1. CanAcknowledgeStopped(j) => JobOK(AcknowledgeStopped(j))
  BY DEF CanAcknowledgeStopped, AcknowledgeStopped
<1>2. CanMarkNotified(j) => JobOK(MarkNotified(j))
  BY DEF CanMarkNotified, MarkNotified
<1>3. CanMarkReaped(j) => JobOK(MarkReaped(j))
  BY DEF CanMarkReaped, MarkReaped
<1> QED
  BY <1>1, <1>2, <1>3

-----------------------------------------------------------------------------
(***************************************************************************)
(* JobMachine: JobOK is inductive, and from it follow the invariants, the  *)
(* finality of terminal statuses and the refinement of JobPromise.         *)
(***************************************************************************)

\* The inductive invariant: no sequence of calls, in any order, leaves an
\* inconsistent job record.
THEOREM JobConsistent == RecordSpec => []RecordConsistent
<1> USE DEF RecordConsistent
<1>1. RecordInit => RecordConsistent
  BY NewJobOK DEF RecordInit
<1>2. RecordConsistent /\ [RecordNext]_record => RecordConsistent'
  <2> SUFFICES ASSUME JobOK(record), [RecordNext]_record PROVE JobOK(record')
    OBVIOUS
  <2>1. CASE BeginStartingStep
    BY <2>1, StartupOK DEF BeginStartingStep
  <2>2. ASSUME NEW p \in Process, AddProcessStep(p) PROVE JobOK(record')
    BY <2>2, StartupOK DEF AddProcessStep
  <2>3. ASSUME NEW plc \in Placement, FinishStartingStep(plc) PROVE JobOK(record')
    BY <2>3, FinishStartingOK DEF FinishStartingStep
  <2>4. CASE AbortStartingStep
    BY <2>4, StartupOK DEF AbortStartingStep
  <2>5. ASSUME NEW p \in Process, NEW sig \in Signal, ObserveStoppedStep(p, sig) PROVE JobOK(record')
    BY <2>5, ObserveOK DEF ObserveStoppedStep, ObserveStopped
  <2>6. ASSUME NEW p \in Process, ObserveContinuedStep(p) PROVE JobOK(record')
    BY <2>6, ObserveContinuedOK DEF ObserveContinuedStep
  <2>7. ASSUME NEW p \in Process, NEW st \in Status, ObserveCompletedStep(p, st) PROVE JobOK(record')
    BY <2>7, ObserveOK DEF ObserveCompletedStep, ObserveCompleted
  <2>8. ASSUME NEW plc \in Placement, MoveToStep(plc) PROVE JobOK(record')
    BY <2>8, PlacementOK DEF MoveToStep
  <2>9. ASSUME NEW plc \in Placement, ContinueInStep(plc) PROVE JobOK(record')
    BY <2>9, PlacementOK DEF ContinueInStep
  <2>10. CASE AcknowledgeStoppedStep
    BY <2>10, AcknowledgeOK DEF AcknowledgeStoppedStep
  <2>11. CASE MarkNotifiedStep
    BY <2>11, AcknowledgeOK DEF MarkNotifiedStep
  <2>12. CASE MarkReapedStep
    BY <2>12, AcknowledgeOK DEF MarkReapedStep
  <2>13. CASE UNCHANGED record
    BY <2>13
  <2> QED
    BY <2>1, <2>2, <2>3, <2>4, <2>5, <2>6, <2>7, <2>8, <2>9, <2>10, <2>11, <2>12, <2>13 DEF RecordNext
<1> QED
  BY <1>1, <1>2, PTL DEF RecordSpec

\* The type invariant: whatever methods are called in whatever order, the job
\* record keeps the shape of the Rust struct.
THEOREM RecordTyped == RecordSpec => []RecordTypeOK
<1>1. RecordConsistent => RecordTypeOK
  BY DEF RecordConsistent, JobOK, RecordTypeOK
<1> QED
  BY <1>1, JobConsistent, PTL

\* The published aggregate never contradicts the members (`reconcile`,
\* `continue_in`).
THEOREM AggregateCorrect == RecordSpec => []AggregateAgrees
<1>1. RecordConsistent => AggregateAgrees
  BY DEF RecordConsistent, JobOK, AggregateAgrees
<1> QED
  BY <1>1, JobConsistent, PTL

\* A pending notice always belongs to the state it announces, and no
\* completion is left unannounced (`reconcile`, `mark_notified`).
THEOREM NoticeCorrect == RecordSpec => []NoticeMatchesState
<1>1. RecordConsistent => NoticeMatchesState
  BY DEF RecordConsistent, JobOK, NoticeMatchesState
<1> QED
  BY <1>1, JobConsistent, PTL

\* A stopped job resumes where it last ran (`Stopped { resume }`).
THEOREM ResumeCorrect == RecordSpec => []ResumeIsPlacement
<1>1. RecordConsistent => ResumeIsPlacement
  BY DEF RecordConsistent, JobOK, ResumeIsPlacement
<1> QED
  BY <1>1, JobConsistent, PTL

-----------------------------------------------------------------------------
\* Reconciliation never touches the members.
LEMMA ReconcileMembers ==
  ASSUME NEW j \in Job
  PROVE  Reconcile(j).members = j.members
  BY DEF Reconcile, Job

\* A terminal status is final: only the cleanup of an unpublished startup
\* forgets it (ProcessAlreadyCompleted, `continue_in`,
\* `abort_starting_after_cleanup`).
THEOREM TerminalFinal == RecordSpec => TerminalStatusFinal
<1> DEFINE Kept == \A p \in Process :
                     record.members[p] \in Status =>
                       \/ record'.members[p] = record.members[p]
                       \/ record.state = "Starting" /\ record'.state = "Reaped"
<1>1. RecordConsistent /\ [RecordNext]_record => [Kept]_record
  <2> SUFFICES ASSUME JobOK(record), RecordNext, NEW q \in Process, record.members[q] \in Status
               PROVE  \/ record'.members[q] = record.members[q]
                      \/ record.state = "Starting" /\ record'.state = "Reaped"
    BY DEF Kept, RecordConsistent
  <2>0. record \in Job
    BY DEF JobOK
  <2>1. CASE BeginStartingStep
    BY <2>0, <2>1 DEF BeginStartingStep, BeginStarting, Job
  <2>2. ASSUME NEW p \in Process, AddProcessStep(p) PROVE record'.members[q] = record.members[q]
    BY <2>0, <2>2, MemberStatesDistinct DEF AddProcessStep, CanAddProcess, AddProcess, Job
  <2>3. ASSUME NEW plc \in Placement, FinishStartingStep(plc) PROVE record'.members[q] = record.members[q]
    <3>1. [record EXCEPT !.placement = plc, !.state = plc] \in Job
      BY <2>0 DEF Job, JobState, Published, Placement
    <3> QED
      BY <2>0, <2>3, <3>1, ReconcileMembers DEF FinishStartingStep, FinishStarting, Job
  <2>4. CASE AbortStartingStep
    BY <2>0, <2>4 DEF AbortStartingStep, CanAbortStarting, AbortStarting, Job
  <2>5. ASSUME NEW p \in Process, NEW m \in Signal \cup Status, CanObserve(record, p),
               record' = Reconcile([record EXCEPT !.members[p] = m])
        PROVE  record'.members[q] = record.members[q]
    <3>1. [record EXCEPT !.members[p] = m] \in Job
      BY <2>0 DEF Job, MemberState
    <3>2. p # q
      BY <2>5, MemberStatesDistinct DEF CanObserve
    <3> QED
      BY <2>0, <2>5, <3>1, <3>2, ReconcileMembers DEF Job
  <2>6. ASSUME NEW p \in Process, ObserveContinuedStep(p) PROVE record'.members[q] = record.members[q]
    <3> DEFINE k == [record EXCEPT !.members[p] = Running,
                        !.placement  = IF record.state = "Stopped" THEN record.resume ELSE record.placement,
                        !.notice     = FALSE]
    <3>1. k \in Job /\ k.members = [record.members EXCEPT ![p] = Running]
      BY <2>0 DEF Job, MemberState
    <3>2. p # q
      BY <2>6, MemberStatesDistinct DEF ObserveContinuedStep, CanObserve
    <3>3. record' = Reconcile(k)
      BY <2>6 DEF ObserveContinuedStep, ObserveContinued
    <3>4. record'.members = k.members
      BY <3>1, <3>3, ReconcileMembers
    <3> QED
      BY <2>0, <3>1, <3>2, <3>4 DEF Job
  <2>8. ASSUME NEW plc \in Placement, MoveToStep(plc) PROVE record'.members[q] = record.members[q]
    BY <2>0, <2>8 DEF MoveToStep, MoveTo, Job
  <2>9. ASSUME NEW plc \in Placement, ContinueInStep(plc) PROVE record'.members[q] = record.members[q]
    BY <2>0, <2>9, MemberStatesDistinct DEF ContinueInStep, ContinueIn, Job
  <2>10. CASE AcknowledgeStoppedStep
    BY <2>0, <2>10 DEF AcknowledgeStoppedStep, AcknowledgeStopped, Job
  <2>11. CASE MarkNotifiedStep
    BY <2>0, <2>11 DEF MarkNotifiedStep, MarkNotified, Job
  <2>12. CASE MarkReapedStep
    BY <2>0, <2>12 DEF MarkReapedStep, MarkReaped, Job
  <2> QED
    BY <2>1, <2>2, <2>3, <2>4, <2>5, <2>6, <2>8, <2>9, <2>10, <2>11, <2>12
    DEF RecordNext, ObserveStoppedStep, ObserveStopped, ObserveCompletedStep, ObserveCompleted
<1> QED
  BY <1>1, JobConsistent, PTL DEF RecordSpec, TerminalStatusFinal

-----------------------------------------------------------------------------
\* The job implements the member-less promise: it starts planned, and every
\* method call is one of the promised moves or invisible (all of job.rs).
THEOREM RecordRefinement == RecordSpec => ImplementsPromise
<1> USE DEF PhaseOf
<1>1. RecordInit => Promise!PInit
  BY DEF RecordInit, NewJob, Promise!PInit, Placement
<1>2. RecordConsistent /\ RecordConsistent' /\ [RecordNext]_record => [Promise!PNext]_(Promise!pvars)
  <2> SUFFICES ASSUME JobOK(record), JobOK(record'), [RecordNext]_record
               PROVE  Promise!PNext \/ UNCHANGED Promise!pvars
    BY DEF RecordConsistent
  <2>0. record \in Job /\ record' \in Job /\ NoticeMatchesIn(record) /\ NoticeMatchesIn(record')
    BY DEF JobOK
  <2> USE DEF Promise!PNext, Promise!pvars, Promise!Move, Job, JobState, Published, Acknowledged,
              Placement, NoticeMatchesIn
  <2>1. CASE BeginStartingStep
    BY <2>0, <2>1 DEF BeginStartingStep, BeginStarting, CanBeginStarting, Promise!Begin
  <2>2. ASSUME NEW p \in Process, AddProcessStep(p) PROVE UNCHANGED Promise!pvars
    BY <2>0, <2>2 DEF AddProcessStep, AddProcess, CanAddProcess
  <2>3. CASE AbortStartingStep
    BY <2>0, <2>3 DEF AbortStartingStep, CanAbortStarting, AbortStarting, Promise!Abort
  <2>4. CASE AcknowledgeStoppedStep
    BY <2>0, <2>4 DEF AcknowledgeStoppedStep, CanAcknowledgeStopped, AcknowledgeStopped,
                      Promise!AckStop
  <2>5. CASE MarkNotifiedStep
    BY <2>0, <2>5 DEF MarkNotifiedStep, CanMarkNotified, MarkNotified, Promise!Notify
  <2>6. CASE MarkReapedStep
    BY <2>0, <2>6 DEF MarkReapedStep, CanMarkReaped, MarkReaped, Promise!Reap
  <2>7. ASSUME NEW plc \in Placement, MoveToStep(plc) PROVE UNCHANGED Promise!pvars
    BY <2>0, <2>7 DEF MoveToStep, CanMoveTo, MoveTo
  <2>8. ASSUME NEW plc \in Placement, ContinueInStep(plc) PROVE Promise!Run
    BY <2>0, <2>8 DEF ContinueInStep, CanContinueIn, ContinueIn, Promise!Run
  <2>9. ASSUME NEW plc \in Placement, FinishStartingStep(plc)
        PROVE  Promise!Run \/ Promise!Stop \/ Promise!Complete
    <3> DEFINE k == [record EXCEPT !.placement = plc, !.state = plc]
    <3>1. k \in Job /\ k.state = plc /\ k.placement = plc /\ k.notice = FALSE
          /\ record.state = "Starting" /\ record' = Reconcile(k)
      BY <2>0, <2>9 DEF FinishStartingStep, CanFinishStarting, FinishStarting
    <3>2. \/ record'.state = "Completed" /\ record'.notice = TRUE
          \/ record'.state = "Stopped" /\ record'.notice = TRUE
          \/ record'.state = plc /\ record'.notice = FALSE
      BY <3>1, ReconcileOutcome
    <3> QED
      BY <3>1, <3>2 DEF Promise!Run, Promise!Stop, Promise!Complete
  <2>10. ASSUME NEW p \in Process, NEW m \in Signal \cup Status, CanObserve(record, p),
                record' = Reconcile([record EXCEPT !.members[p] = m])
         PROVE  Promise!Stop \/ Promise!Complete \/ UNCHANGED Promise!pvars
    <3> DEFINE k == [record EXCEPT !.members[p] = m]
    <3>1. k \in Job /\ k.state = record.state /\ k.placement = record.placement /\ k.notice = record.notice
          /\ k.members = [record.members EXCEPT ![p] = m]
      BY <2>0 DEF MemberState
    <3>2. CASE record.state = "Starting"
      BY <2>10, <3>1, <3>2 DEF Reconcile
    <3>3. CASE record.state \in Published
      <4>1. k.placement \in Placement /\ (record.state \in Placement => record.state = record.placement)
            /\ (record.state # "Stopped" => record.notice = FALSE)
        BY <2>0, <3>1, <3>3 DEF JobOK, ResumeIsPlacementIn
      <4>2. record.state = "Stopped" => AllLiveStopped(k)
        BY <2>0, <3>1 DEF JobOK, AggregateAgreesIn, AllLiveStopped, Members
      <4>3. ~AllLiveStopped(k) => record'.state = record.placement /\ record'.notice = record.notice
        <5>1. ~AllLiveStopped(k) => ~AllCompleted(k)
          BY DEF AllLiveStopped, AllCompleted
        <5>2. ~AllLiveStopped(k) => record' = [k EXCEPT !.state = k.placement, !.resume = NoPlacement]
          BY <2>10, <3>1, <3>3, <5>1 DEF Reconcile
        <5> QED
          BY <3>1, <5>2
      <4>4. CASE ~AllLiveStopped(k)
        BY <3>1, <3>3, <4>1, <4>2, <4>3, <4>4
      <4>5. CASE AllLiveStopped(k)
        <5>1. \/ record'.state = "Completed" /\ record'.notice = TRUE
              \/ record'.state = "Stopped"
                 /\ record'.notice = IF record.state = "Stopped" THEN record.notice ELSE TRUE
          <6>1. record' = [k EXCEPT !.state = "Completed", !.resume = NoPlacement, !.notice = TRUE]
                \/ record' = [k EXCEPT !.state = "Stopped", !.resume = k.placement,
                                    !.notice = IF k.state = "Stopped" THEN k.notice ELSE TRUE]
            BY <2>10, <3>1, <3>3, <4>5 DEF Reconcile
          <6> QED
            BY <3>1, <6>1
        <5> QED
          BY <3>1, <3>3, <4>1, <5>1 DEF Promise!Stop, Promise!Complete
      <4> QED
        BY <4>4, <4>5
    <3> QED
      BY <2>10, <3>2, <3>3 DEF CanObserve
  <2>11. ASSUME NEW p \in Process, ObserveContinuedStep(p)
         PROVE  Promise!Run \/ UNCHANGED Promise!pvars
    <3> DEFINE k == [record EXCEPT !.members[p] = Running,
                        !.placement  = IF record.state = "Stopped" THEN record.resume ELSE record.placement,
                        !.notice     = FALSE]
    <3>0. record.state = "Stopped" => record.resume = record.placement
      BY DEF JobOK, ResumeIsPlacementIn
    <3>1. k \in Job /\ k.state = record.state /\ k.placement = record.placement /\ k.notice = FALSE
          /\ k.members[p] = Running /\ record' = Reconcile(k)
      BY <2>0, <2>11, <3>0, ZenonT(30) DEF ObserveContinuedStep, ObserveContinued, MemberState
    <3>2. ~AllLiveStopped(k) /\ ~AllCompleted(k)
      BY <3>1, MemberStatesDistinct DEF AllLiveStopped, AllCompleted, Members, Running, Absent
    <3>3. CASE record.state = "Starting"
      BY <2>0, <3>1, <3>3 DEF Reconcile
    <3>4. CASE record.state \in Published
      <4>1. record' = [k EXCEPT !.state = k.placement, !.resume = NoPlacement]
        BY <3>1, <3>2, <3>4 DEF Reconcile
      <4>2. record'.state = record.placement /\ record'.notice = FALSE
        BY <3>1, <4>1
      <4>3. record.placement \in Placement /\ (record.state # "Stopped" => record.notice = FALSE)
        BY <2>0, <3>4 DEF JobOK, ResumeIsPlacementIn
      <4> QED
        BY <3>4, <4>2, <4>3 DEF Promise!Run
    <3> QED
      BY <2>11, <3>3, <3>4 DEF ObserveContinuedStep, CanObserve
  <2>12. CASE UNCHANGED record
    BY <2>12
  <2> QED
    BY <2>1, <2>2, <2>3, <2>4, <2>5, <2>6, <2>7, <2>8, <2>9, <2>10, <2>11, <2>12
    DEF RecordNext, ObserveStoppedStep, ObserveStopped, ObserveCompletedStep, ObserveCompleted
<1> QED
  BY <1>1, <1>2, JobConsistent, PTL DEF RecordSpec, ImplementsPromise, Promise!PSpec

-----------------------------------------------------------------------------
(***************************************************************************)
(* The job table.                                                          *)
(***************************************************************************)

\* What the table says of one job agrees with its lifecycle record.
RecordInv(k) ==
  /\ JobOK(job[k])
  /\ k >= next_job => job[k].state = "Planned"
  /\ completion[k] # None => job[k].state \in {"Completed", "Reaped"}
  /\ resume_requested[k] => job[k].state \in {"Stopped", "Completed", "Reaped"}

TableInv ==
  /\ setup \in Setups
  /\ events \in Seq(Event)
  /\ next_job \in Nat \ {0}
  /\ job \in [JobId -> Job]
  /\ DOMAIN completion = JobId
  /\ resume_requested \in [JobId -> BOOLEAN]
  /\ \A k \in JobId : RecordInv(k)

SessionFields ==
  {"at", "job", "previous", "signal", "selected", "index", "stopped", "resumes", "todo", "hanging"}

\* Where the session thread is about to continue a job, the job is stopped: it
\* looked before, and nobody else writes the table in between.
StaysStopped(k) == k \in JobId => job[k].state = "Stopped"

SessionInv ==
  /\ DOMAIN session = SessionFields
  /\ session.at = "fgContinue" => StaysStopped(session.job)
  /\ session.at = "signalContinue" => session.signal # "Continue"
  /\ session.at = "signalDeliver" /\ session.signal = "Continue"
       /\ ~observation_failed[session.job] => StaysStopped(session.job)
  /\ session.at = "waitDeliver" => StaysStopped(session.selected[session.index])
  /\ session.at \in {"resuming", "hangResuming"} =>
       session.todo \subseteq {k \in JobId : job[k].state = "Stopped"}

IInv == TableInv /\ SessionInv /\ TerminalReturned

-----------------------------------------------------------------------------
\* A stopped job that hears of another stop or completion of a member stays
\* stopped or completes; it never runs again by that (`reconcile`).
LEMMA StoppedStays ==
  ASSUME NEW j, JobOK(j), j.state = "Stopped", NEW p \in Process, CanObserve(j, p),
         NEW m \in Signal \cup Status
  PROVE  Reconcile([j EXCEPT !.members[p] = m]).state \in {"Stopped", "Completed"}
<1> DEFINE k == [j EXCEPT !.members[p] = m]
<1>1. k \in Job /\ k.state = "Stopped" /\ k.members = [j.members EXCEPT ![p] = m]
  BY DEF JobOK, Job, MemberState
<1>2. AllLiveStopped(k)
  BY <1>1 DEF AllLiveStopped, Members, JobOK, AggregateAgreesIn, Job
<1>3. CASE AllCompleted(k)
  <2>1. Reconcile(k) = [k EXCEPT !.state = "Completed", !.resume = NoPlacement, !.notice = TRUE]
    BY <1>1, <1>3 DEF Reconcile
  <2> QED
    BY <1>1, <2>1 DEF Job
<1>4. CASE ~AllCompleted(k)
  <2>1. Reconcile(k) = [k EXCEPT !.state = "Stopped", !.resume = k.placement, !.notice = k.notice]
    <3>1. k.notice \in BOOLEAN
      BY <1>1 DEF Job
    <3> QED
      BY <1>1, <1>2, <1>4, <3>1 DEF Reconcile, Job
  <2> QED
    BY <1>1, <2>1 DEF Job
<1> QED
  BY <1>3, <1>4

\* An accepted observation keeps the record consistent (`apply_observation`).
LEMMA AcceptedOK ==
  ASSUME NEW j, JobOK(j), NEW p \in Process, CanObserve(j, p), NEW seen \in MemberState
  PROVE  /\ JobOK(Observe(j, p, seen))
         /\ j.state = "Stopped" /\ seen # Running =>
              Observe(j, p, seen).state \in {"Stopped", "Completed"}
<1>1. CASE seen \in Signal
  <2>1. Observe(j, p, seen) = Reconcile([j EXCEPT !.members[p] = seen])
    BY <1>1, MemberStatesDistinct DEF Observe, ObserveStopped
  <2> QED
    BY <1>1, <2>1, ObserveOK, StoppedStays
<1>2. CASE seen \in Status
  <2>1. Observe(j, p, seen) = Reconcile([j EXCEPT !.members[p] = seen])
    BY <1>2, MemberStatesDistinct DEF Observe, ObserveCompleted
  <2> QED
    BY <1>2, <2>1, ObserveOK, StoppedStays
<1>3. CASE seen = Running
  <2>1. Observe(j, p, seen) = ObserveContinued(j, p)
    BY <1>3, MemberStatesDistinct DEF Observe
  <2> QED
    BY <1>3, <2>1, ObserveContinuedOK
<1> QED
  BY <1>1, <1>2, <1>3 DEF MemberState

\* Applying one observation from the channel keeps the table consistent
\* (`receive`, `apply_observation`).
LEMMA ReceiveKeepsTable ==
  ASSUME TableInv, receive, UNCHANGED <<next_job, setup>>
  PROVE  TableInv'
<1> DEFINE e == Head(events)
           j == e.job
           accepted == e.seen # Failed /\ CanObserve(job[j], e.process)
           new == IF accepted THEN Observe(job[j], e.process, e.seen) ELSE job[j]
<1>1. e \in Event /\ events' \in Seq(Event)
  BY DEF TableInv, receive
<1>2. j \in JobId /\ e.process \in Process /\ e.seen \in Observation
  BY <1>1 DEF Event
<1>3. JobOK(job[j]) /\ RecordInv(j)
  BY <1>2 DEF TableInv, RecordInv
<1>4. accepted => e.seen \in MemberState /\ job[j].state \in {"Starting"} \cup Published
  BY <1>2 DEF Observation, CanObserve
<1>5. JobOK(new) /\ new \in Job
  BY <1>2, <1>3, <1>4, AcceptedOK DEF JobOK
<1>6. /\ job' = [job EXCEPT ![j] = new]
      /\ completion' = [completion EXCEPT
           ![j] = IF job[j].state # "Completed" /\ new.state = "Completed"
                    THEN AggregateStatus(new) ELSE @]
      /\ resume_requested' = [resume_requested EXCEPT
           ![j] = @ /\ ~ResumeSettled(e.seen, accepted,
                                      job[j].state # "Stopped" /\ new.state = "Stopped")]
  BY DEF receive, apply_observation
<1>7. /\ job' \in [JobId -> Job] /\ DOMAIN completion' = JobId
      /\ resume_requested' \in [JobId -> BOOLEAN]
  BY <1>2, <1>5, <1>6 DEF TableInv
<1>8. job[j].state = "Planned" => new = job[j]
  BY <1>4 DEF Published
<1>9. completion'[j] # None => new.state \in {"Completed", "Reaped"}
  <2>1. completion[j] # None => new = job[j] /\ job[j].state \in {"Completed", "Reaped"}
    BY <1>3, <1>4 DEF RecordInv, Published
  <2> QED
    BY <1>2, <1>6, <2>1 DEF TableInv
<1>10. resume_requested'[j] => new.state \in {"Stopped", "Completed", "Reaped"}
  <2> SUFFICES ASSUME resume_requested'[j]
               PROVE  new.state \in {"Stopped", "Completed", "Reaped"}
    OBVIOUS
  <2>1. resume_requested[j] /\ ~(accepted /\ e.seen = Running)
    BY <1>2, <1>6 DEF TableInv, ResumeSettled
  <2>2. job[j].state \in {"Stopped", "Completed", "Reaped"}
    BY <1>3, <2>1 DEF RecordInv
  <2>3. CASE accepted
    BY <1>2, <1>3, <1>4, <2>1, <2>2, <2>3, AcceptedOK DEF Published
  <2>4. CASE ~accepted
    BY <2>2, <2>4
  <2> QED
    BY <2>3, <2>4
<1>11. job'[j] = new /\ next_job' = next_job /\ setup' = setup
  BY <1>2, <1>6 DEF TableInv
<1>12. ASSUME NEW k \in JobId, k # j
       PROVE  job'[k] = job[k] /\ completion'[k] = completion[k]
              /\ resume_requested'[k] = resume_requested[k]
  BY <1>6, <1>12 DEF TableInv
<1> HIDE DEF new, accepted, j, e
<1>13. ASSUME NEW k \in JobId  PROVE RecordInv(k)'
  <2>1. CASE k = j
    BY <1>3, <1>5, <1>8, <1>9, <1>10, <1>11, <2>1 DEF RecordInv
  <2>2. CASE k # j
    BY <1>11, <1>12, <2>2 DEF RecordInv, TableInv
  <2> QED
    BY <2>1, <2>2
<1> QED
  BY <1>1, <1>7, <1>11, <1>13 DEF TableInv

\* Replacing the record of one job by a consistent one, with the flag of that
\* job as it was or cleared, keeps the table consistent.
LEMMA ReplaceKeepsTable ==
  ASSUME TableInv, NEW j \in JobId, NEW new, JobOK(new),
         job' = [job EXCEPT ![j] = new],
         new.state = "Planned" \/ j < next_job,
         completion[j] # None => new.state \in {"Completed", "Reaped"},
         resume_requested'[j] => new.state \in {"Stopped", "Completed", "Reaped"},
         resume_requested' \in [JobId -> BOOLEAN],
         \A k \in JobId : k # j => resume_requested'[k] = resume_requested[k],
         UNCHANGED <<events, completion, next_job, setup>>
  PROVE  TableInv'
<1>0. next_job \in Nat /\ JobId \subseteq Nat
  BY JobAssumption DEF TableInv
<1>1. job' \in [JobId -> Job] /\ job'[j] = new
  BY DEF TableInv, JobOK
<1>2. \A k \in JobId : k # j => job'[k] = job[k]
  BY DEF TableInv
<1>3. ASSUME NEW k \in JobId  PROVE RecordInv(k)'
  <2>1. CASE k = j
    BY <1>0, <1>1, <2>1 DEF RecordInv
  <2>2. CASE k # j
    BY <1>2, <2>2 DEF RecordInv, TableInv
  <2> QED
    BY <2>1, <2>2
<1> QED
  BY <1>1, <1>3 DEF TableInv

\* A job whose record is not Planned has been allocated.
LEMMA Allocated ==
  ASSUME TableInv, NEW j \in JobId, job[j].state # "Planned"
  PROVE  j < next_job
<1>1. j \in Nat /\ next_job \in Nat
  BY JobAssumption DEF TableInv
<1> QED
  BY <1>1 DEF TableInv, RecordInv

\* A delivered continue keeps the table consistent (`continue_in` after the
\* signal).
LEMMA ContinueKeepsTable ==
  ASSUME TableInv, NEW j, StaysStopped(j), NEW placement \in Placement,
         continue_job(j, placement), UNCHANGED <<next_job, setup>>
  PROVE  TableInv'
<1>1. /\ job' = [job EXCEPT ![j] = ContinueIn(job[j], placement)]
      /\ resume_requested' = [resume_requested EXCEPT ![j] = FALSE]
      /\ UNCHANGED <<events, completion, next_job, setup>>
  BY DEF continue_job
<1>2. CASE j \in JobId
  <2>1. job[j].state = "Stopped" /\ JobOK(job[j])
    BY <1>2 DEF StaysStopped, TableInv, RecordInv
  <2>2. JobOK(ContinueIn(job[j], placement))
    BY <2>1, PlacementOK DEF CanContinueIn
  <2>3. j < next_job
    BY <1>2, <2>1, Allocated
  <2>4. completion[j] = None
    BY <1>2, <2>1 DEF TableInv, RecordInv
  <2>5. resume_requested' \in [JobId -> BOOLEAN] /\ ~resume_requested'[j]
        /\ \A k \in JobId : k # j => resume_requested'[k] = resume_requested[k]
    BY <1>1, <1>2 DEF TableInv
  <2> QED
    BY <1>1, <1>2, <2>2, <2>3, <2>4, <2>5, ReplaceKeepsTable
<1>3. CASE j \notin JobId
  <2>1. job' = job /\ resume_requested' = resume_requested
    BY <1>1, <1>3 DEF TableInv
  <2> QED
    BY <1>1, <2>1 DEF TableInv, RecordInv
<1> QED
  BY <1>2, <1>3

\* A step that touches neither the records nor the channel nor the flags keeps
\* the table consistent.
LEMMA UnchangedKeepsTable ==
  ASSUME TableInv, UNCHANGED <<events, job, completion, resume_requested, next_job, setup>>
  PROVE  TableInv'
BY DEF TableInv, RecordInv

\* Consuming waited completions forgets completed records only
\* (`consume_waited_completion`).
LEMMA ConsumeKeepsTable ==
  ASSUME TableInv, NEW js, consume_waited_completion(js),
         \A k \in js \cap JobId : completion[k] # None,
         UNCHANGED <<events, completion, resume_requested, next_job, setup>>
  PROVE  TableInv'
<1>1. job' = [k \in JobId |-> IF k \in js THEN MarkReaped(MarkNotified(job[k])) ELSE job[k]]
  BY DEF consume_waited_completion
<1>2. ASSUME NEW k \in JobId, k \in js
      PROVE  job'[k] \in Job /\ job'[k].state = "Reaped" /\ JobOK(job'[k])
  <2> DEFINE old == job[k]
             new == MarkReaped(MarkNotified(old))
  <2>1. old.state \in {"Completed", "Reaped"} /\ JobOK(old)
    BY <1>2 DEF TableInv, RecordInv
  <2>2. new = [old EXCEPT !.state = "Reaped", !.notice = FALSE]
    BY <2>1 DEF MarkReaped, MarkNotified, JobOK, Job
  <2>3. new \in Job /\ new.state = "Reaped" /\ ~new.notice /\ new.resume = old.resume
    BY <2>1, <2>2 DEF JobOK, Job, JobState, Published, Acknowledged, Placement
  <2>4. new.resume = NoPlacement
    BY <2>1, <2>3 DEF JobOK, ResumeIsPlacementIn
  <2>5. JobOK(new)
    BY <2>3, <2>4 DEF JobOK, AggregateAgreesIn, NoticeMatchesIn, ResumeIsPlacementIn,
                      Published, Placement
  <2> QED
    BY <1>1, <2>3, <2>5, <1>2
<1>3. ASSUME NEW k \in JobId, k \notin js  PROVE job'[k] = job[k]
  BY <1>1, <1>3
<1>4. job' \in [JobId -> Job]
  BY <1>1, <1>2, <1>3 DEF TableInv
<1>5. ASSUME NEW k \in JobId  PROVE RecordInv(k)'
  <2>1. CASE k \in js
    <3>1. job[k].state # "Planned"
      BY <2>1, <1>5 DEF TableInv, RecordInv
    <3>2. ~(k >= next_job)
      BY <3>1, <1>5 DEF TableInv, RecordInv
    <3> QED
      BY <1>2, <2>1, <3>2 DEF RecordInv
  <2>2. CASE k \notin js
    BY <1>3, <2>2 DEF RecordInv, TableInv
  <2> QED
    BY <2>1, <2>2
<1> QED
  BY <1>4, <1>5 DEF TableInv

\* A published job with at least one member is consistent (`publish`, after
\* `begin_starting` and one `add_process` per child).
LEMMA PublishKeepsTable ==
  ASSUME TableInv, NEW members \in (SUBSET Process) \ {{}}, NEW placement \in Placement,
         next_job \in JobId, publish(next_job, members, placement), next_job' = next_job + 1,
         UNCHANGED <<events, completion, resume_requested, setup>>
  PROVE  TableInv'
<1> DEFINE starting == [BeginStarting(NewJob) EXCEPT
              !.members = [p \in Process |-> IF p \in members THEN Running ELSE Absent]]
           new == FinishStarting(starting, placement)
<1>1. /\ starting \in Job /\ starting.state = "Starting" /\ ~starting.notice
      /\ starting.resume = NoPlacement
      /\ starting.members = [p \in Process |-> IF p \in members THEN Running ELSE Absent]
  BY DEF BeginStarting, NewJob, Job, JobState, NoPlacement, MemberState
<1>2. Members(starting) # {}
  <2>1. PICK p \in Process : p \in members
    OBVIOUS
  <2>2. p \in Members(starting)
    BY <1>1, <2>1 DEF Members, Running, Absent
  <2> QED
    BY <2>2
<1>3. JobOK(starting)
  BY <1>1 DEF JobOK, AggregateAgreesIn, NoticeMatchesIn, ResumeIsPlacementIn, Published, Placement
<1>4. JobOK(new)
  BY <1>1, <1>2, <1>3, FinishStartingOK DEF CanFinishStarting
<1>5. job' = [job EXCEPT ![next_job] = new]
  BY DEF publish
<1> HIDE DEF new
<1>6. next_job \in Nat /\ JobId \subseteq Nat
  BY JobAssumption DEF TableInv
<1>7. job[next_job].state = "Planned"
  BY <1>6 DEF TableInv, RecordInv
<1>8. completion[next_job] = None /\ ~resume_requested[next_job]
  BY <1>7 DEF TableInv, RecordInv
<1>9. job' \in [JobId -> Job] /\ job'[next_job] = new
      /\ \A k \in JobId : k # next_job => job'[k] = job[k]
  BY <1>4, <1>5 DEF TableInv, JobOK
<1>10. ASSUME NEW k \in JobId  PROVE RecordInv(k)'
  <2>1. CASE k = next_job
    BY <1>4, <1>6, <1>8, <1>9, <2>1 DEF RecordInv
  <2>2. CASE k # next_job
    BY <1>6, <1>9, <2>2 DEF RecordInv, TableInv
  <2> QED
    BY <2>1, <2>2
<1>11. next_job' \in Nat \ {0}
  BY <1>6
<1> QED
  BY <1>9, <1>10, <1>11 DEF TableInv

\* What an acknowledged notice does to its record is consistent
\* (`acknowledge_stopped_notice`, `mark_notified`, `mark_reaped`).
LEMMA AcknowledgeKeepsTable ==
  ASSUME TableInv, NEW j, NEW kind, job' = [job EXCEPT ![j] = Acknowledge(job[j], kind)],
         UNCHANGED <<events, completion, resume_requested, next_job, setup>>
  PROVE  TableInv'
<1> DEFINE old == job[j]
           new == Acknowledge(old, kind)
<1>1. CASE j \notin JobId
  BY <1>1, UnchangedKeepsTable DEF TableInv
<1>2. CASE j \in JobId
  <2>1. JobOK(old) /\ RecordInv(j)
    BY <1>2 DEF TableInv, RecordInv
  <2>2. CASE kind = "Stopped" /\ CanAcknowledgeStopped(old)
    <3>1. new = AcknowledgeStopped(old)
      BY <2>2 DEF Acknowledge
    <3>2. JobOK(new) /\ new.state = "Stopped" /\ old.state = "Stopped"
      BY <2>1, <2>2, <3>1, AcknowledgeOK DEF AcknowledgeStopped, CanAcknowledgeStopped, JobOK, Job
    <3>3. j < next_job
      BY <1>2, <3>2, Allocated
    <3> HIDE DEF new
    <3>4. job' = [job EXCEPT ![j] = new]
      BY DEF new
    <3> QED
      BY <1>2, <2>1, <3>2, <3>3, <3>4, ReplaceKeepsTable DEF RecordInv, TableInv
  <2>3. CASE kind = "Completed" /\ CanMarkNotified(old)
    <3>1. new = MarkReaped(MarkNotified(old))
      BY <2>3 DEF Acknowledge
    <3>2. JobOK(MarkNotified(old)) /\ CanMarkReaped(MarkNotified(old))
      BY <2>1, <2>3, AcknowledgeOK DEF CanMarkReaped, MarkNotified, JobOK, Job
    <3>3. JobOK(new) /\ new.state = "Reaped" /\ old.state = "Completed"
      BY <2>3, <3>1, <3>2, AcknowledgeOK DEF MarkReaped, CanMarkNotified, JobOK, Job
    <3>4. j < next_job
      BY <1>2, <3>3, Allocated
    <3> HIDE DEF new
    <3>5. job' = [job EXCEPT ![j] = new]
      BY DEF new
    <3> QED
      BY <1>2, <2>1, <3>3, <3>4, <3>5, ReplaceKeepsTable DEF RecordInv, TableInv
  <2>4. CASE /\ ~(kind = "Stopped" /\ CanAcknowledgeStopped(old))
             /\ ~(kind = "Completed" /\ CanMarkNotified(old))
    <3>1. new = old
      BY <2>4 DEF Acknowledge
    <3>2. job' = job
      BY <3>1 DEF TableInv
    <3> QED
      BY <3>2, UnchangedKeepsTable
  <2> QED
    BY <2>2, <2>3, <2>4
<1> QED
  BY <1>1, <1>2

\* The least of a nonempty set of job identities is one of them.
LEMMA LeastIsMember ==
  ASSUME NEW S \in SUBSET JobId, S # {}
  PROVE  Least(S) \in S
<1> DEFINE less == {ss \in Nat \X Nat : ss[1] < ss[2]}
<1>1. S \subseteq Nat
  BY JobAssumption
<1>2. IsWellFoundedOn(less, Nat)
  BY NatLessThanWellFounded DEF OpToRel
<1> HIDE DEF less
<1>3. PICK x \in S : \A y \in S : <<y, x>> \notin less
  BY <1>1, <1>2, WFMin
<1>4. ASSUME NEW y \in S  PROVE x <= y
  <2>1. x \in Nat /\ y \in Nat /\ <<y, x>> \in Nat \X Nat
    BY <1>1
  <2>2. ~(y < x)
    <3>1. <<y, x>>[1] = y /\ <<y, x>>[2] = x
      OBVIOUS
    <3> QED
      BY <1>3, <2>1, <3>1 DEF less
  <2> QED
    BY <2>1, <2>2
<1> QED
  BY <1>4 DEF Least

-----------------------------------------------------------------------------
\* Each operation of the session thread keeps the whole invariant.

\* The shape of the session thread at its prompt.
LEMMA AtPromptShape == AtPrompt.at = "prompt" /\ DOMAIN AtPrompt = SessionFields
BY DEF AtPrompt, SessionFields

\* An operation that is over, with the terminal back, promises nothing more.
LEMMA AtPromptOK ==
  ASSUME session' = AtPrompt, TerminalHome'
  PROVE  SessionInv' /\ TerminalReturned'
BY AtPromptShape DEF SessionInv, TerminalReturned, TerminalHome

\* A job enters the foreground, and the guard remembers that the terminal was home.
LEMMA EnterOK ==
  ASSUME TerminalHome, NEW j, NEW label \in {"fgContinue", "fgWait"}, enter_foreground(label, j)
  PROVE  /\ TerminalReturned' /\ DOMAIN session' = SessionFields
         /\ session'.at = label /\ session'.job = j
<1>1. tty' = [owner |-> j, refused |-> tty.refused]
  BY DEF enter_foreground
<1>2. /\ session'.at = label /\ session'.job = j /\ session'.previous = tty.owner
      /\ DOMAIN session' = SessionFields
  BY DEF enter_foreground, AtPrompt, SessionFields
<1> QED
  BY <1>1, <1>2 DEF TerminalReturned, TerminalHome

\* So the guard brings it home, or it is refused to (`restore`).
LEMMA RestoreOK ==
  ASSUME TerminalReturned, session.at \in {"fgContinue", "fgWait"}, restore
  PROVE  TerminalHome'
BY DEF TerminalReturned, TerminalHome, restore

\* At the points that say nothing of any job the thread may receive, or go on
\* to another such point, while the shell owns the terminal.
Plain == {"prompt", "drain", "done", "waitCheck", "hangUp"} \cup Draining

LEMMA PlainOK ==
  ASSUME IInv, session.at \in Plain, session'.at \in Plain, DOMAIN session' = SessionFields,
         tty' = tty
  PROVE  SessionInv' /\ TerminalReturned'
BY DEF IInv, Plain, Draining, SessionInv, TerminalReturned, TerminalHome

\* The children and their observers only ever add an observation (`observe`
\* threads of background.rs).
LEMMA ChildrenKeep ==
  ASSUME IInv, Children, UNCHANGED setup
  PROVE  IInv'
<1>1. events' \in Seq(Event)
  <2>1. CASE UNCHANGED events
    BY <2>1 DEF IInv, TableInv
  <2>2. CASE \E j \in JobId, p \in Process : ObserverSends(j, p)
    <3>1. PICK j \in JobId, p \in Process : ObserverSends(j, p)
      BY <2>2
    <3>2. [job |-> j, process |-> p, seen |-> observer[j][p]] \in Event
      BY <3>1 DEF ObserverSends, Event
    <3> QED
      BY <3>1, <3>2 DEF ObserverSends, IInv, TableInv
  <2> QED
    BY <2>1, <2>2 DEF Children, ChildNext, ChildExits, ChildStops, ChildContinuedElsewhere,
                      ChildKilledElsewhere, ObserverWaits, ObserverWaitFails
<1>2. UNCHANGED <<job, completion, observation_failed, resume_requested, next_job, tty, session>>
  BY DEF Children, tableVars
<1>3. TableInv'
  BY <1>1, <1>2 DEF IInv, TableInv, RecordInv
<1>4. SessionInv' /\ TerminalReturned'
  BY <1>2 DEF IInv, SessionInv, TerminalReturned, TerminalHome, StaysStopped
<1> QED
  BY <1>3, <1>4 DEF IInv

\* Draining the channel and showing notices (`apply_pending_observations`,
\* `next_notice`, `acknowledge`).
LEMMA DrainKeeps ==
  ASSUME IInv, apply_pending_observations \/ Showing, UNCHANGED setup
  PROVE  IInv'
<1>1. session' = session /\ tty' = tty /\ next_job' = next_job /\ session.at \in Plain
  BY DEF apply_pending_observations, Showing, next_notice, acknowledge, ShowsNotices, Plain
<1>2. SessionInv' /\ TerminalReturned'
  BY <1>1, PlainOK DEF IInv, SessionInv
<1>3. CASE receive
  BY <1>1, <1>2, <1>3, ReceiveKeepsTable DEF IInv
<1>4. CASE acknowledge
  <2>1. PICK n : n = Head(notices)
    OBVIOUS
  <2>2. job' = [job EXCEPT ![n.job] = Acknowledge(job[n.job], n.kind)]
    BY <1>4, <2>1 DEF acknowledge
  <2>3. UNCHANGED <<events, completion, resume_requested, next_job, setup>>
    BY <1>4 DEF acknowledge, childVars
  <2> QED
    BY <1>2, <2>2, <2>3, AcknowledgeKeepsTable DEF IInv
<1> QED
  BY <1>3, <1>4 DEF apply_pending_observations, Showing, next_notice

\* What the user asks for at the prompt: starting pipelines, beginning an
\* operation, and the two ends of a session.
LEMMA AskedKeeps ==
  ASSUME IInv, Asked, UNCHANGED setup
  PROVE  IInv'
<1>0. session.at = "prompt" /\ DOMAIN session = SessionFields /\ TerminalHome
  BY DEF IInv, SessionInv, TerminalReturned, Asked, start, start_foreground, start_fails,
         begin_operation, join_background_jobs, hang_up_background_jobs
<1>a. next_job \in Nat \ {0} /\ setup \in Setups
  BY DEF IInv, TableInv
<1>1. CASE start
  <2>1. PICK members \in setup.pipelines :
          SpawnGroup(next_job, members) /\ publish(next_job, members, "Background")
    BY <1>1 DEF start
  <2>2. next_job \in JobId /\ members \in (SUBSET Process) \ {{}}
    BY <1>1, <1>a, <2>1, TableAssumption DEF start
  <2>3. UNCHANGED <<events, completion, resume_requested, tty, session>> /\ next_job' = next_job + 1
    BY <1>1, <2>1 DEF start, SpawnGroup
  <2>4. TableInv'
    BY <2>1, <2>2, <2>3, PublishKeepsTable DEF IInv, Placement
  <2> QED
    BY <1>0, <2>3, <2>4, PlainOK DEF IInv, Plain
<1>2. CASE start_foreground
  <2>1. PICK members \in setup.pipelines :
          SpawnGroup(next_job, members) /\ publish(next_job, members, "Foreground")
    BY <1>2 DEF start_foreground
  <2>2. next_job \in JobId /\ members \in (SUBSET Process) \ {{}}
    BY <1>2, <1>a, <2>1, TableAssumption DEF start_foreground
  <2>3. UNCHANGED <<events, completion, resume_requested>> /\ next_job' = next_job + 1
    BY <1>2, <2>1 DEF start_foreground, SpawnGroup
  <2>4. TableInv'
    BY <2>1, <2>2, <2>3, PublishKeepsTable DEF IInv, Placement
  <2>5. enter_foreground("fgWait", next_job)
    BY <1>2 DEF start_foreground
  <2>6. SessionInv' /\ TerminalReturned'
    BY <1>0, <2>5, EnterOK DEF SessionInv
  <2> QED
    BY <2>4, <2>6 DEF IInv
<1>3. CASE start_fails
  <2>1. UNCHANGED <<events, job, completion, resume_requested, tty, session>>
        /\ next_job' = next_job + 1
    BY <1>3 DEF start_fails, childVars, tableVars
  <2>2. ASSUME NEW k \in JobId  PROVE RecordInv(k)'
    <3>1. k \in Nat
      BY JobAssumption
    <3>2. k >= next_job + 1 => k >= next_job
      BY <1>a, <3>1
    <3> QED
      BY <2>1, <3>2 DEF IInv, TableInv, RecordInv
  <2>3. TableInv'
    BY <1>a, <2>1, <2>2 DEF IInv, TableInv
  <2> QED
    BY <1>0, <2>1, <2>3, PlainOK DEF IInv, Plain
<1>4. CASE begin_operation
  <2>1. UNCHANGED <<events, job, completion, resume_requested, next_job, tty>>
        /\ session' = [session EXCEPT !.at = "pending"]
    BY <1>4 DEF begin_operation, childVars, tableVars, Goto
  <2>2. TableInv'
    BY <2>1, UnchangedKeepsTable DEF IInv
  <2>3. session'.at \in Plain /\ session.at \in Plain /\ DOMAIN session' = SessionFields
    BY <1>0, <2>1 DEF Plain, Draining, SessionFields
  <2> QED
    BY <2>1, <2>2, <2>3, PlainOK DEF IInv
<1>5. CASE join_background_jobs \/ hang_up_background_jobs
  <2>1. UNCHANGED <<events, job, completion, resume_requested, next_job, tty>>
    BY <1>5 DEF join_background_jobs, hang_up_background_jobs, childVars, tableVars
  <2>2. /\ DOMAIN session' = SessionFields
        /\ session'.at \in {"resuming", "hangResuming"}
        /\ session'.todo = Unanswered
    BY <1>0, <1>5 DEF join_background_jobs, hang_up_background_jobs, SessionFields
  <2>3. Unanswered \subseteq {k \in JobId : job'[k].state = "Stopped"}
    BY <2>1 DEF Unanswered, IsStopped
  <2>4. SessionInv' /\ TerminalReturned'
    BY <1>0, <2>1, <2>2, <2>3 DEF SessionInv, TerminalReturned, TerminalHome
  <2> QED
    BY <2>1, <2>4, UnchangedKeepsTable DEF IInv
<1> QED
  BY <1>1, <1>2, <1>3, <1>4, <1>5 DEF Asked

\* `fg` and the wait for a foreground job.
LEMMA ForegroundKeeps ==
  ASSUME IInv, UNCHANGED setup,
         \/ \E j \in Known : foreground_job(j)
         \/ foreground_continue \/ wait_for_foreground
  PROVE  IInv'
<1>0. TableInv /\ DOMAIN session = SessionFields
  BY DEF IInv, SessionInv
<1>1. ASSUME NEW j \in Known, foreground_job(j)  PROVE IInv'
  <2>1. /\ j \in JobId /\ completion[j] = None /\ job[j].state \in {"Stopped", "Background"}
        /\ session.at = "pending" /\ TerminalHome
        /\ UNCHANGED <<events, completion, resume_requested, next_job, setup>>
    BY <1>1 DEF foreground_job, Foregroundable, records, childVars, Drained, IInv, TerminalReturned, TerminalHome
  <2>2. CASE IsStopped(j)
    <3>1. enter_foreground("fgContinue", j) /\ job' = job
      BY <1>1, <2>2 DEF foreground_job
    <3>2. /\ TerminalReturned' /\ session'.at = "fgContinue" /\ session'.job = j
          /\ DOMAIN session' = SessionFields
      BY <2>1, <3>1, EnterOK
    <3>3. SessionInv'
      BY <2>1, <2>2, <3>1, <3>2 DEF SessionInv, StaysStopped, IsStopped
    <3> QED
      BY <1>0, <2>1, <3>1, <3>2, <3>3, UnchangedKeepsTable DEF IInv
  <2>3. CASE ~IsStopped(j)
    <3>1. /\ enter_foreground("fgWait", j)
          /\ job' = [job EXCEPT ![j] = MoveTo(job[j], "Foreground")]
      BY <1>1, <2>3 DEF foreground_job
    <3>2. job[j].state = "Background" /\ JobOK(job[j]) /\ ~resume_requested[j]
      BY <1>0, <2>1, <2>3 DEF IsStopped, TableInv, RecordInv
    <3>3. JobOK(MoveTo(job[j], "Foreground"))
      BY <3>2, PlacementOK DEF CanMoveTo, Placement
    <3>4. j < next_job
      BY <1>0, <2>1, <3>2, Allocated
    <3>5. TableInv'
      BY <1>0, <2>1, <3>1, <3>2, <3>3, <3>4, ReplaceKeepsTable DEF TableInv
    <3>6. SessionInv' /\ TerminalReturned'
      BY <2>1, <3>1, EnterOK DEF SessionInv
    <3> QED
      BY <3>5, <3>6 DEF IInv
  <2> QED
    BY <2>2, <2>3
<1>2. CASE foreground_continue
  <2>1. session.at = "fgContinue" /\ StaysStopped(session.job) /\ TerminalReturned
    BY <1>2 DEF foreground_continue, IInv, SessionInv, TerminalReturned, TerminalHome
  <2>2. CASE continue_job(session.job, "Foreground") /\ Goto("fgWait") /\ UNCHANGED <<next_job, tty>>
    <3>1. TableInv'
      BY <1>0, <2>1, <2>2, ContinueKeepsTable DEF Placement
    <3>2. SessionInv' /\ TerminalReturned'
      BY <1>0, <2>1, <2>2 DEF Goto, SessionInv, TerminalReturned, TerminalHome, SessionFields
    <3> QED
      BY <3>1, <3>2 DEF IInv
  <2>3. CASE restore /\ Finish /\ UNCHANGED <<childVars, tableVars, next_job>>
    BY <1>0, <2>1, <2>3, UnchangedKeepsTable, RestoreOK, AtPromptOK DEF IInv, Finish, childVars, tableVars
  <2> QED
    BY <1>2, <2>2, <2>3 DEF foreground_continue
<1>3. CASE wait_for_foreground
  <2>1. session.at = "fgWait"
    BY <1>3 DEF wait_for_foreground, IInv, TerminalReturned, TerminalHome
  <2>2. CASE receive /\ UNCHANGED <<next_job, tty, session>>
    <3>1. SessionInv'
      BY <1>0, <2>1, <2>2 DEF SessionInv
    <3>2. TerminalReturned'
      BY <2>2 DEF IInv, TerminalReturned, TerminalHome
    <3> QED
      BY <1>0, <2>2, <3>1, <3>2, ReceiveKeepsTable DEF IInv
  <2>3. CASE restore /\ Finish /\ UNCHANGED <<childVars, tableVars, next_job>>
    BY <1>0, <2>1, <2>3, UnchangedKeepsTable, RestoreOK, AtPromptOK DEF IInv, Finish, childVars, tableVars
  <2>4. CASE /\ completion[session.job] # None /\ consume_waited_completion({session.job})
             /\ restore /\ Finish
             /\ UNCHANGED <<childVars, completion, resume_requested, next_job>>
    <3>1. TableInv'
      BY <1>0, <2>4, ConsumeKeepsTable DEF childVars
    <3> QED
      BY <2>1, <2>4, <3>1, RestoreOK, AtPromptOK DEF IInv, Finish
  <2> QED
    BY <1>3, <2>2, <2>3, <2>4 DEF wait_for_foreground
<1> QED
  BY <1>1, <1>2, <1>3

\* `signal_job`: the guard is checked when the channel is empty, the signals
\* follow in steps of their own.
LEMMA SignalKeeps ==
  ASSUME IInv, UNCHANGED setup,
         \/ \E j \in Known, signal \in Signals, policy \in {"Reject", "Deliver"} :
              signal_job(j, signal, policy)
         \/ signal_continue \/ signal_deliver
  PROVE  IInv'
<1>0. TableInv /\ DOMAIN session = SessionFields
  BY DEF IInv, SessionInv
<1>1. ASSUME NEW j \in Known, NEW signal \in Signals, NEW policy \in {"Reject", "Deliver"},
             signal_job(j, signal, policy)
      PROVE  IInv'
  <2>1. session.at = "pending" /\ TerminalHome /\ TerminalHome'
    BY <1>1 DEF signal_job, Drained, IInv, TerminalReturned, TerminalHome
  <2>2. UNCHANGED <<events, job, completion, observation_failed, resume_requested, next_job, setup>>
    BY <1>1 DEF signal_job, childVars, tableVars
  <2> DEFINE stopped == ~observation_failed[j] /\ IsStopped(j)
             label == IF stopped /\ signal = "Terminate" THEN "signalContinue" ELSE "signalDeliver"
  <2>3. /\ signal = "Continue" /\ ~observation_failed[j] => stopped
        /\ session' = [AtPrompt EXCEPT !.at = label, !.job = j, !.signal = signal]
    BY <1>1 DEF signal_job
  <2>4. /\ DOMAIN session' = SessionFields /\ session'.at = label /\ session'.job = j
        /\ session'.signal = signal
    BY <2>3 DEF AtPrompt, SessionFields
  <2>5. SessionInv' /\ TerminalReturned'
    BY <2>1, <2>2, <2>3, <2>4 DEF SessionInv, TerminalReturned, TerminalHome, StaysStopped, IsStopped
  <2> QED
    BY <1>0, <2>2, <2>5, UnchangedKeepsTable DEF IInv
<1>2. CASE signal_continue
  <2>1. /\ session.at = "signalContinue" /\ session.signal # "Continue"
        /\ TerminalHome /\ TerminalHome'
    BY <1>2 DEF signal_continue, IInv, SessionInv, TerminalReturned, TerminalHome
  <2>2. UNCHANGED <<events, job, completion, observation_failed, resume_requested, next_job, setup>>
    BY <1>2 DEF signal_continue, tableVars
  <2>3. CASE Goto("signalDeliver")
    <3>1. SessionInv' /\ TerminalReturned'
      BY <1>0, <2>1, <2>3 DEF Goto, SessionInv, TerminalReturned, SessionFields
    <3> QED
      BY <1>0, <2>2, <3>1, UnchangedKeepsTable DEF IInv
  <2>4. CASE Finish
    BY <1>0, <2>1, <2>2, <2>4, UnchangedKeepsTable, AtPromptOK DEF IInv, Finish
  <2> QED
    BY <1>2, <2>3, <2>4 DEF signal_continue
<1>3. CASE signal_deliver
  <2>1. session.at = "signalDeliver" /\ TerminalHome' /\ session' = AtPrompt /\ next_job' = next_job
    BY <1>3 DEF signal_deliver, IInv, TerminalReturned, TerminalHome, Finish
  <2>2. CASE UNCHANGED <<events, tableVars>>
    BY <1>0, <2>1, <2>2, UnchangedKeepsTable, AtPromptOK DEF IInv, tableVars
  <2>3. CASE /\ session.signal = "Continue" /\ ~observation_failed[session.job]
             /\ continue_job(session.job, "Background")
    <3>1. StaysStopped(session.job)
      BY <2>1, <2>3 DEF IInv, SessionInv
    <3> QED
      BY <1>0, <2>1, <2>3, <3>1, ContinueKeepsTable, AtPromptOK DEF IInv, Placement
  <2> QED
    BY <1>3, <2>2, <2>3 DEF signal_deliver, childVars
<1> QED
  BY <1>1, <1>2, <1>3

\* `wait_for_jobs` and its automatic resumes.
LEMMA WaitKeeps ==
  ASSUME IInv, UNCHANGED setup,
         \/ \E written \in Targets : wait_for_jobs(written)
         \/ resume_wait_target \/ wait_signal \/ wait_deliver \/ wait_check
  PROVE  IInv'
<1>0. TableInv /\ DOMAIN session = SessionFields
  BY DEF IInv, SessionInv
<1>1. ASSUME UNCHANGED <<childVars, tableVars, next_job, tty>>, session.at \in Plain,
             DOMAIN session' = SessionFields, session'.at \in Plain
      PROVE  IInv'
  <2>1. TableInv'
    BY <1>0, <1>1, UnchangedKeepsTable DEF childVars, tableVars
  <2> QED
    BY <1>1, <2>1, PlainOK DEF IInv
<1>2. ASSUME NEW written \in Targets, wait_for_jobs(written)  PROVE IInv'
  <2>1. session.at \in Plain /\ UNCHANGED <<childVars, tableVars, next_job, tty>>
    BY <1>2, ZenonT(60) DEF wait_for_jobs, Drained, Plain, Draining
  <2>2. PICK selected :
          session' = [AtPrompt EXCEPT !.at = "waitResume", !.selected = selected, !.index = 1]
    BY <1>2 DEF wait_for_jobs
  <2>3. session'.at \in Plain /\ DOMAIN session' = SessionFields
    BY <2>2 DEF AtPrompt, Plain, Draining, SessionFields
  <2> QED
    BY <1>1, <2>1, <2>3, SMTT(40)
<1>3. NextTarget \/ Finish => session'.at \in Plain /\ DOMAIN session' = SessionFields
  <2>1. CASE Finish
    BY <2>1, AtPromptShape DEF Finish, Plain
  <2>2. CASE NextTarget
    <3>1. session'.at \in {"waitCheck", "waitResume"} /\ DOMAIN session' = SessionFields
      BY <1>0, <2>2, ZenonT(60) DEF NextTarget, SessionFields
    <3> QED
      BY <3>1 DEF Plain, Draining
  <2> QED
    BY <2>1, <2>2
<1>4. CASE resume_wait_target
  <2>1. session.at \in Plain /\ UNCHANGED <<childVars, tableVars, next_job, tty>>
    BY <1>4 DEF resume_wait_target, Drained, Plain, Draining
  <2>2. \/ NextTarget \/ Finish
        \/ \E members : session' = [session EXCEPT !.at = "waitSignal", !.stopped = members]
    BY <1>4 DEF resume_wait_target
  <2>3. session'.at \in Plain /\ DOMAIN session' = SessionFields
    BY <1>0, <1>3, <2>2 DEF Plain, Draining, SessionFields
  <2> QED
    BY <1>1, <2>1, <2>3
<1>5. CASE wait_signal
  <2>1. session.at = "waitSignal" /\ UNCHANGED <<childVars, tableVars, next_job, tty>>
    BY <1>5 DEF wait_signal, Drained
  <2>2. CASE NextTarget \/ Finish
    BY <1>1, <1>3, <2>1, <2>2 DEF Plain, Draining
  <2>3. CASE IsStopped(session.selected[session.index]) /\ Goto("waitDeliver")
    <3>1. TableInv'
      BY <1>0, <2>1, UnchangedKeepsTable DEF childVars, tableVars
    <3>2. /\ session' = [session EXCEPT !.at = "waitDeliver"] /\ job' = job
          /\ TerminalHome /\ TerminalHome'
      BY <2>1, <2>3 DEF Goto, tableVars, IInv, TerminalReturned, TerminalHome
    <3>3. SessionInv' /\ TerminalReturned'
      BY <1>0, <2>3, <3>2
      DEF SessionInv, TerminalReturned, TerminalHome, SessionFields, StaysStopped, IsStopped
    <3> QED
      BY <3>1, <3>3 DEF IInv
  <2> QED
    BY <1>5, <2>2, <2>3 DEF wait_signal
<1>6. CASE wait_deliver
  <2> DEFINE j == session.selected[session.index]
  <2>1. /\ session.at = "waitDeliver" /\ StaysStopped(j) /\ TerminalHome
        /\ UNCHANGED <<next_job, tty>> /\ TerminalHome'
    BY <1>6 DEF wait_deliver, IInv, SessionInv, TerminalReturned, TerminalHome
  <2>2. CASE /\ continue_job(j, "Background")
             /\ \E label \in {"waitCheck", "waitResume"} : \E next, counted :
                  session' = [session EXCEPT !.at = label, !.index = next,
                                             !.stopped = {}, !.resumes = counted]
    <3>1. TableInv'
      BY <1>0, <2>1, <2>2, ContinueKeepsTable DEF Placement
    <3>2. session'.at \in {"waitCheck", "waitResume"} /\ DOMAIN session' = SessionFields
      BY <1>0, <2>2 DEF SessionFields
    <3>3. SessionInv' /\ TerminalReturned'
      BY <2>1, <3>2 DEF SessionInv, TerminalReturned, TerminalHome
    <3> QED
      BY <3>1, <3>3 DEF IInv
  <2>3. CASE Finish /\ UNCHANGED <<childVars, tableVars>>
    BY <1>0, <2>1, <2>3, UnchangedKeepsTable, AtPromptOK, SMTT(40) DEF IInv, Finish, childVars, tableVars
  <2> QED
    BY <1>6, <2>2, <2>3, ZenonT(60) DEF wait_deliver
<1>7. CASE wait_check
  <2>1. session.at = "waitCheck" /\ UNCHANGED <<next_job, tty>> /\ TerminalHome /\ TerminalHome'
    BY <1>7 DEF wait_check, IInv, TerminalReturned, TerminalHome
  <2>2. CASE /\ \A i \in DOMAIN session.selected : completion[session.selected[i]] # None
             /\ consume_waited_completion(Selected) /\ Finish
             /\ UNCHANGED <<childVars, completion, resume_requested>>
    <3>1. \A k \in Selected : completion[k] # None
      BY <2>2 DEF Selected
    <3>2. TableInv'
      BY <1>0, <2>1, <2>2, <3>1, ConsumeKeepsTable DEF childVars
    <3> QED
      BY <2>1, <2>2, <3>2, AtPromptOK DEF IInv, Finish
  <2>3. CASE Finish /\ UNCHANGED <<childVars, tableVars>>
    BY <1>0, <2>1, <2>3, UnchangedKeepsTable, AtPromptOK DEF IInv, Finish, childVars, tableVars
  <2>4. CASE receive /\ session' = [session EXCEPT !.at = "waitResume", !.index = 1]
    <3>1. session.at \in Plain /\ session'.at \in Plain /\ DOMAIN session' = SessionFields
      BY <1>0, <2>1, <2>4 DEF Plain, Draining, SessionFields
    <3> QED
      BY <1>0, <2>1, <2>4, <3>1, ReceiveKeepsTable, PlainOK DEF IInv
  <2> QED
    BY <1>7, <2>2, <2>3, <2>4, ZenonT(60) DEF wait_check
<1> QED
  BY <1>2, <1>4, <1>5, <1>6, <1>7

\* The end of a session: resuming stopped jobs, hanging up, waiting and
\* draining what is left.
LEMMA ExitKeeps ==
  ASSUME IInv, UNCHANGED setup,
         \/ resume_stopped \/ hang_up_all \/ hang_up_next \/ wait_for_quiescence
         \/ drain_notices \/ end_operation
  PROVE  IInv'
<1>0. TableInv /\ DOMAIN session = SessionFields
  BY DEF IInv, SessionInv
<1>1. CASE resume_stopped
  <2> DEFINE j == Least(session.todo)
  <2>1. /\ session.at \in {"resuming", "hangResuming"} /\ session.todo # {}
        /\ session.todo \subseteq {k \in JobId : job[k].state = "Stopped"}
        /\ TerminalHome /\ TerminalHome'
    BY <1>1 DEF resume_stopped, IInv, SessionInv, TerminalReturned, TerminalHome
  <2>2. j \in JobId /\ job[j].state = "Stopped"
    BY <2>1, LeastIsMember
  <2>3. /\ resume_requested' = [resume_requested EXCEPT ![j] = TRUE]
        /\ session' = [session EXCEPT !.todo = @ \ {j}]
        /\ UNCHANGED <<events, job, completion, next_job>>
    BY <1>1 DEF resume_stopped
  <2> HIDE DEF j
  <2>4. /\ resume_requested' \in [JobId -> BOOLEAN]
        /\ \A k \in JobId : k # j => resume_requested'[k] = resume_requested[k]
    BY <1>0, <2>2, <2>3 DEF TableInv
  <2>5. ASSUME NEW k \in JobId  PROVE RecordInv(k)'
    <3>1. CASE k = j
      BY <1>0, <2>2, <2>3, <3>1 DEF TableInv, RecordInv
    <3>2. CASE k # j
      BY <1>0, <2>3, <2>4, <3>2 DEF TableInv, RecordInv
    <3> QED
      BY <3>1, <3>2
  <2>6. TableInv'
    BY <1>0, <2>3, <2>4, <2>5 DEF TableInv
  <2>7. /\ DOMAIN session' = SessionFields /\ session'.at = session.at
        /\ session'.todo \subseteq session.todo
    BY <1>0, <2>3 DEF SessionFields
  <2>8. SessionInv' /\ TerminalReturned'
    BY <2>1, <2>3, <2>7 DEF SessionInv, TerminalReturned, TerminalHome
  <2> QED
    BY <2>6, <2>8 DEF IInv
<1>2. CASE hang_up_all \/ drain_notices \/ end_operation
  <2>1. /\ UNCHANGED <<childVars, tableVars, next_job, tty>> /\ TerminalHome
        /\ session'.at \in {"hangUp", "done", "prompt"} /\ DOMAIN session' = SessionFields
    <3>1. CASE hang_up_all
      BY <1>0, <3>1 DEF hang_up_all, SessionFields, IInv, TerminalReturned, TerminalHome
    <3>2. CASE drain_notices
      BY <1>0, <3>2 DEF drain_notices, Drained, Goto, SessionFields, IInv, TerminalReturned, TerminalHome
    <3>3. CASE end_operation
      BY <3>3, AtPromptShape DEF end_operation, Drained, Finish, IInv, TerminalReturned, TerminalHome
    <3> QED
      BY <1>2, <3>1, <3>2, <3>3
  <2>2. SessionInv' /\ TerminalReturned'
    BY <2>1 DEF SessionInv, TerminalReturned, TerminalHome
  <2> QED
    BY <1>0, <2>1, <2>2, UnchangedKeepsTable DEF IInv, childVars, tableVars
<1>3. CASE hang_up_next
  <2>1. /\ session.at = "hangUp" /\ TerminalHome
        /\ UNCHANGED <<events, job, completion, resume_requested, next_job, tty>>
    BY <1>3 DEF hang_up_next, IInv, TerminalReturned, TerminalHome
  <2>2. \/ /\ session' = [session EXCEPT !.at = "resuming", !.todo = Unanswered]
        \/ \E j : session' = [session EXCEPT !.todo = @ \ {j}]
    BY <1>3 DEF hang_up_next
  <2>3. Unanswered \subseteq {k \in JobId : job'[k].state = "Stopped"}
    BY <2>1 DEF Unanswered, IsStopped
  <2>4. /\ DOMAIN session' = SessionFields
        /\ \/ session'.at = "resuming" /\ session'.todo = Unanswered
           \/ session'.at = "hangUp"
    BY <1>0, <2>1, <2>2 DEF SessionFields
  <2>5. SessionInv' /\ TerminalReturned'
    BY <2>1, <2>3, <2>4 DEF SessionInv, TerminalReturned, TerminalHome
  <2> QED
    BY <1>0, <2>1, <2>5, UnchangedKeepsTable DEF IInv
<1>4. CASE wait_for_quiescence
  <2>1. session.at = "resuming" /\ TerminalHome /\ UNCHANGED <<next_job, tty>>
    BY <1>4 DEF wait_for_quiescence, IInv, TerminalReturned, TerminalHome
  <2>2. CASE receive /\ session' = [session EXCEPT !.todo = Unanswered']
    <3>1. TableInv'
      BY <1>0, <2>1, <2>2, ReceiveKeepsTable
    <3>2. Unanswered' \subseteq {k \in JobId : job'[k].state = "Stopped"}
      BY DEF Unanswered, IsStopped
    <3>3. /\ DOMAIN session' = SessionFields /\ session'.at = "resuming"
          /\ session'.todo = Unanswered'
      BY <1>0, <2>1, <2>2 DEF SessionFields
    <3>4. SessionInv' /\ TerminalReturned'
      BY <2>1, <3>2, <3>3 DEF SessionInv, TerminalReturned, TerminalHome
    <3> QED
      BY <3>1, <3>4 DEF IInv
  <2>3. CASE Goto("drain") /\ UNCHANGED <<childVars, tableVars>>
    <3>1. session'.at = "drain" /\ DOMAIN session' = SessionFields
      BY <1>0, <2>3 DEF Goto, SessionFields
    <3>2. SessionInv' /\ TerminalReturned'
      BY <2>1, <3>1 DEF SessionInv, TerminalReturned, TerminalHome
    <3> QED
      BY <1>0, <2>1, <2>3, <3>2, UnchangedKeepsTable DEF IInv, childVars, tableVars
  <2> QED
    BY <1>4, <2>2, <2>3 DEF wait_for_quiescence
<1> QED
  BY <1>1, <1>2, <1>3, <1>4

-----------------------------------------------------------------------------
(* The theorems. *)

\* The invariant holds in a new session.
LEMMA InitIInv == Init => IInv
<1> SUFFICES ASSUME Init PROVE IInv
  OBVIOUS
<1>1. \A k \in JobId : job[k] = NewJob /\ completion[k] = None /\ resume_requested[k] = FALSE
  BY DEF Init
<1>2. ASSUME NEW k \in JobId  PROVE RecordInv(k)
  BY <1>1, NewJobOK DEF RecordInv, NewJob
<1>3. NewJob \in Job
  BY NewJobOK DEF JobOK
<1>4. TableInv
  BY <1>2, <1>3 DEF Init, ChildInit, TableInv
<1>5. session = AtPrompt /\ TerminalHome
  BY DEF Init, TerminalHome
<1>6. SessionInv /\ TerminalReturned
  BY <1>5, AtPromptShape DEF SessionInv, TerminalReturned, TerminalHome
<1> QED
  BY <1>4, <1>6 DEF IInv

\* Every step of the children, the observers and the session thread keeps it.
LEMMA NextIInv == IInv /\ [Next]_<<vars, setup>> => IInv'
<1> SUFFICES ASSUME IInv, [Next]_<<vars, setup>> PROVE IInv'
  OBVIOUS
<1>1. CASE UNCHANGED <<vars, setup>>
  BY <1>1 DEF vars, childVars, tableVars, IInv, TableInv, RecordInv, SessionInv,
              TerminalReturned, TerminalHome, StaysStopped
<1>2. CASE Next
  <2>0. UNCHANGED setup
    BY <1>2 DEF Next
  <2>1. CASE Asked
    BY <2>0, <2>1, AskedKeeps
  <2>2. CASE Showing
    BY <2>0, <2>2, DrainKeeps
  <2>3. CASE Children
    BY <2>0, <2>3, ChildrenKeep
  <2>4. CASE ended
    BY <1>1, <2>0, <2>4 DEF ended
  <2>5. CASE Working
    <3>1. CASE apply_pending_observations
      BY <2>0, <3>1, DrainKeeps
    <3>2. CASE foreground_continue \/ wait_for_foreground
      BY <2>0, <3>2, ForegroundKeeps
    <3>3. CASE signal_continue \/ signal_deliver
      BY <2>0, <3>3, SignalKeeps
    <3>4. CASE resume_wait_target \/ wait_signal \/ wait_deliver \/ wait_check
      BY <2>0, <3>4, WaitKeeps
    <3>5. CASE \/ resume_stopped \/ hang_up_all \/ hang_up_next \/ wait_for_quiescence
               \/ drain_notices \/ end_operation
      BY <2>0, <3>5, ExitKeeps
    <3>6. CASE execute_job_builtin
      <4>1. CASE \E j \in Known : foreground_job(j)
        BY <2>0, <4>1, ForegroundKeeps
      <4>2. CASE \E j \in Known : signal_job(j, "Continue", "Reject")
        BY <2>0, <4>2, SignalKeeps DEF Signals
      <4>3. CASE \E j \in Known, signal \in Signals \cap setup.commands :
                   signal_job(j, signal, "Deliver")
        BY <2>0, <4>3, SignalKeeps
      <4>4. CASE \E written \in Targets : wait_for_jobs(written)
        BY <2>0, <4>4, WaitKeeps
      <4> QED
        BY <3>6, <4>1, <4>2, <4>3, <4>4 DEF execute_job_builtin
    <3> QED
      BY <2>5, <3>1, <3>2, <3>3, <3>4, <3>5, <3>6 DEF Working
  <2> QED
    BY <1>2, <2>1, <2>2, <2>3, <2>4, <2>5 DEF Next
<1> QED
  BY <1>1, <1>2

\* The inductive invariant holds of every session.
THEOREM TableInvariant == Spec => []IInv
  BY InitIInv, NextIInv, PTL DEF Spec

\* The terminal belongs to a job only while the session waits for that job in
\* the foreground: fg and a foreground start give it back on every way out,
\* unless the host has refused a restoration.
THEOREM TerminalAlwaysReturned == Spec => []TerminalReturned
<1>1. IInv => TerminalReturned
  BY DEF IInv
<1> QED
  BY <1>1, TableInvariant, PTL

\* The exit path's memory of a continue it sent (`resume_requested`) does not
\* outlive the stop it answered: no running job carries it.
THEOREM ResumeAnswers == Spec => []ResumeAnswersThisStop
<1>1. IInv => ResumeAnswersThisStop
  BY DEF IInv, TableInv, RecordInv, ResumeAnswersThisStop, records, Published
<1> QED
  BY <1>1, TableInvariant, PTL

-----------------------------------------------------------------------------
(* The whole table: sets of naturals in order, and what a queue retains. *)

\* A nonempty set of naturals has a least element.
LEMMA LeastOf ==
  ASSUME NEW S \in SUBSET Nat, S # {}
  PROVE  Least(S) \in S /\ \A y \in S : Least(S) <= y
<1> DEFINE less == {pair \in Nat \X Nat : pair[1] < pair[2]}
<1>1. IsWellFoundedOn(less, Nat)
  BY NatLessThanWellFounded, Zenon DEF OpToRel
<1>2. PICK x \in S : \A y \in S : <<y, x>> \notin less
  <2> HIDE DEF less
  <2> QED
    BY <1>1, WFMin
<1>3. ASSUME NEW y \in S  PROVE x <= y
  <2>1. <<y, x>> \in Nat \X Nat /\ <<y, x>>[1] = y /\ <<y, x>>[2] = x
    OBVIOUS
  <2>2. ~(y < x)
    BY <1>2, <2>1
  <2> QED
    BY <2>2
<1> QED
  BY <1>3 DEF Least

Enumerates(s, S) ==
  /\ s \in [1..Cardinality(S) -> S]
  /\ \A a, b \in 1..Cardinality(S) : a < b => s[a] < s[b]

\* A finite set of naturals can be written in increasing order: otherwise take
\* a smallest one that cannot, and put its least element in front of the rest.
LEMMA OrderExists ==
  ASSUME NEW S \in SUBSET Nat, IsFiniteSet(S)
  PROVE  \E s : Enumerates(s, S)
<1> DEFINE bad == {n \in Nat : \E T \in SUBSET Nat : IsFiniteSet(T) /\ Cardinality(T) = n
                                                      /\ \A s : ~Enumerates(s, T)}
<1>1. ASSUME bad # {}  PROVE FALSE
  <2> DEFINE n == Least(bad)
  <2>1. n \in bad /\ \A m \in bad : n <= m
    BY <1>1, LeastOf
  <2>2. PICK T \in SUBSET Nat : IsFiniteSet(T) /\ Cardinality(T) = n /\ \A s : ~Enumerates(s, T)
    BY <2>1
  <2>3. n \in Nat
    BY <2>1
  <2>4. CASE n = 0
    <3>1. [i \in 1..0 |-> i] \in [1..0 -> T] /\ Cardinality(T) = 0
      BY <2>2, <2>4
    <3>2. Enumerates([i \in 1..0 |-> i], T)
      BY <3>1 DEF Enumerates
    <3> QED
      BY <2>2, <3>2
  <2>5. CASE n > 0
    <3> DEFINE x == Least(T)
               R == T \ {x}
    <3>1. T # {}
      BY <2>2, <2>5, FS_EmptySet
    <3>2. x \in T /\ (\A y \in T : x <= y) /\ x \in Nat
      BY <3>1, LeastOf
    <3>3. IsFiniteSet(R) /\ Cardinality(R) = n - 1 /\ R \in SUBSET Nat
      BY <2>2, <3>2, FS_RemoveElement
    <3>4. n - 1 \in Nat /\ ~(n <= n - 1)
      BY <2>3, <2>5
    <3>5. n - 1 \notin bad
      BY <2>1, <3>4
    <3>6. PICK r : Enumerates(r, R)
      BY <3>3, <3>4, <3>5
    <3> DEFINE s == [i \in 1..n |-> IF i = 1 THEN x ELSE r[i - 1]]
    <3>7. r \in [1..(n - 1) -> R] /\ \A a, b \in 1..(n - 1) : a < b => r[a] < r[b]
      BY <3>3, <3>6 DEF Enumerates
    <3>8. \A y \in R : x < y /\ y \in Nat
      BY <3>2
    <3> HIDE DEF x, R, n
    <3>9. s \in [1..n -> T]
      <4>1. ASSUME NEW i \in 1..n  PROVE s[i] \in T
        <5>1. i # 1 => i - 1 \in 1..(n - 1)
          BY <2>3
        <5> QED
          BY <3>2, <3>7, <5>1 DEF R
      <4> QED
        BY <4>1
    <3>10. ASSUME NEW a \in 1..n, NEW b \in 1..n, a < b  PROVE s[a] < s[b]
      <4>1. b # 1 /\ b - 1 \in 1..(n - 1) /\ (a # 1 => a - 1 \in 1..(n - 1) /\ a - 1 < b - 1)
        BY <2>3, <3>10
      <4> QED
        BY <3>7, <3>8, <4>1
    <3>11. Enumerates(s, T)
      BY <2>2, <3>9, <3>10 DEF Enumerates
    <3> QED
      BY <2>2, <3>11
  <2> QED
    BY <2>3, <2>4, <2>5
<1>2. Cardinality(S) \in Nat
  BY FS_CardinalityType
<1> QED
  BY <1>1, <1>2

\* What `InOrder` returns: every element once, in increasing order.
LEMMA InOrderOf ==
  ASSUME NEW S \in SUBSET Nat, IsFiniteSet(S)
  PROVE  /\ Cardinality(S) \in Nat
         /\ InOrder(S) \in [1..Cardinality(S) -> S]
         /\ \A a, b \in 1..Cardinality(S) : a < b => InOrder(S)[a] < InOrder(S)[b]
         /\ \A x \in S : \E a \in 1..Cardinality(S) : InOrder(S)[a] = x
<1> DEFINE n == Cardinality(S)
           s == InOrder(S)
<1>1. n \in Nat
  BY FS_CardinalityType
<1>2. s \in [1..n -> S] /\ \A a, b \in 1..n : a < b => s[a] < s[b]
  BY OrderExists DEF InOrder, Enumerates
<1> HIDE DEF n, s
<1>3. ASSUME NEW a \in 1..n, NEW b \in 1..n, s[a] = s[b]  PROVE a = b
  <2>1. s[a] \in Nat /\ s[b] \in Nat
    BY <1>2
  <2>2. ~(a < b) /\ ~(b < a)
    BY <1>2, <1>3, <2>1
  <2> QED
    BY <1>1, <2>2
<1>4. s \in Injection(1..n, S)
  BY <1>2, <1>3 DEF Injection, IsInjective
<1>5. Cardinality(1..n) = n
  BY <1>1, FS_Interval
<1>6. s \in Surjection(1..n, S)
  BY <1>4, <1>5, FS_Injection DEF n
<1>7. \A x \in S : \E a \in 1..n : s[a] = x
  BY <1>6 DEF Surjection
<1> QED
  BY <1>1, <1>2, <1>7 DEF n, s

\* What is left of a queue are the retained notices, in their order.
LEMMA RetainedOf ==
  ASSUME NEW queue \in Seq(Notice), NEW places \in SUBSET DOMAIN queue
  PROVE  LET rest == Retained(queue, places)
         IN  /\ rest \in Seq(Notice)
             /\ \E order \in [DOMAIN rest -> places] :
                  /\ \A a, b \in DOMAIN rest : a < b => order[a] < order[b]
                  /\ \A x \in places : \E a \in DOMAIN rest : order[a] = x
                  /\ \A a \in DOMAIN rest : rest[a] = queue[order[a]]
<1> DEFINE rest == Retained(queue, places)
           order == InOrder(places)
           n == Cardinality(places)
<1>1. DOMAIN queue = 1..Len(queue) /\ Len(queue) \in Nat
  OBVIOUS
<1>2. IsFiniteSet(places) /\ places \in SUBSET Nat
  <2>1. IsFiniteSet(1..Len(queue))
    BY <1>1, FS_Interval
  <2> QED
    BY <1>1, <2>1, FS_Subset
<1>3. /\ n \in Nat /\ order \in [1..n -> places]
      /\ \A a, b \in 1..n : a < b => order[a] < order[b]
      /\ \A x \in places : \E a \in 1..n : order[a] = x
  BY <1>2, InOrderOf
<1>4. DOMAIN order = 1..n /\ rest = [a \in 1..n |-> queue[order[a]]]
  BY <1>3 DEF Retained
<1> HIDE DEF n, order
<1>5. \A a \in 1..n : queue[order[a]] \in Notice
  BY <1>1, <1>3
<1>6. rest \in Seq(Notice) /\ DOMAIN rest = 1..n
  BY <1>3, <1>4, <1>5
<1> HIDE DEF rest
<1>7. order \in [DOMAIN rest -> places]
  BY <1>3, <1>6
<1>8. \A a \in DOMAIN rest : rest[a] = queue[order[a]]
  BY <1>4, <1>6
<1>9. /\ \A a, b \in DOMAIN rest : a < b => order[a] < order[b]
      /\ \A x \in places : \E a \in DOMAIN rest : order[a] = x
  BY <1>3, <1>6
<1>10. \E f \in [DOMAIN rest -> places] :
          /\ \A a, b \in DOMAIN rest : a < b => f[a] < f[b]
          /\ \A x \in places : \E a \in DOMAIN rest : f[a] = x
          /\ \A a \in DOMAIN rest : rest[a] = queue[f[a]]
  BY <1>7, <1>8, <1>9
<1> QED
  BY <1>6, <1>10 DEF rest

-----------------------------------------------------------------------------
(* The notice queue. *)

\* Where a queue has notices of these kinds for job j.
Of(queue, j, kinds) == {i \in DOMAIN queue : queue[i].job = j /\ queue[i].kind \in kinds}

\* The notices of job j say what its record r says: at most one of each state,
\* the completion last, and nothing of a job that is not in the table.
NoticesFor(queue, j, r) ==
  /\ \A kind \in {"Stopped", "Completed"} : \A a, b \in Of(queue, j, {kind}) : a = b
  /\ Of(queue, j, {"Stopped"}) # {} <=> r.state = "Stopped" /\ r.notice
  /\ Of(queue, j, {"Completed"}) # {} <=> r.state = "Completed"
  /\ \A a \in Of(queue, j, {"Completed"}), b \in Of(queue, j, NoticeKind) : b <= a
  /\ r.state \in {"Planned", "Reaped"} => Of(queue, j, NoticeKind) = {}

\* The order in which a queue retains notices keeps what is said of each kind.
LEMMA OfRetained ==
  ASSUME NEW queue \in Seq(Notice), NEW places \in SUBSET DOMAIN queue, NEW j
  PROVE  LET rest == Retained(queue, places)
         IN  /\ rest \in Seq(Notice)
             /\ \A kinds : Of(rest, j, kinds) # {} <=> Of(queue, j, kinds) \cap places # {}
             /\ \A kinds : (\A a, b \in Of(queue, j, kinds) : a = b) =>
                              \A a, b \in Of(rest, j, kinds) : a = b
             /\ \A these, those :
                  (\A a \in Of(queue, j, these), b \in Of(queue, j, those) : b <= a) =>
                    \A a \in Of(rest, j, these), b \in Of(rest, j, those) : b <= a
<1> DEFINE rest == Retained(queue, places)
<1>1. rest \in Seq(Notice)
  BY RetainedOf
<1>2. PICK order \in [DOMAIN rest -> places] :
        /\ \A a, b \in DOMAIN rest : a < b => order[a] < order[b]
        /\ \A x \in places : \E a \in DOMAIN rest : order[a] = x
        /\ \A a \in DOMAIN rest : rest[a] = queue[order[a]]
  BY RetainedOf
<1> HIDE DEF rest
<1>3. DOMAIN queue \subseteq Nat /\ DOMAIN rest \subseteq Nat
  BY <1>1
<1>4. ASSUME NEW kinds, NEW a \in Of(rest, j, kinds)
      PROVE  order[a] \in Of(queue, j, kinds) \cap places
  BY <1>2 DEF Of
<1>5. ASSUME NEW kinds, NEW x \in Of(queue, j, kinds) \cap places
      PROVE  \E a \in Of(rest, j, kinds) : order[a] = x
  BY <1>2 DEF Of
<1>6. ASSUME NEW kinds  PROVE Of(rest, j, kinds) # {} <=> Of(queue, j, kinds) \cap places # {}
  BY <1>4, <1>5
<1>7. ASSUME NEW a \in DOMAIN rest, NEW b \in DOMAIN rest
      PROVE  /\ order[a] = order[b] => a = b
             /\ order[b] <= order[a] => b <= a
             /\ order[a] \in Nat /\ order[b] \in Nat
  <2>1. order[a] \in Nat /\ order[b] \in Nat /\ a \in Nat /\ b \in Nat
    BY <1>2, <1>3
  <2>2. (a < b => order[a] < order[b]) /\ (b < a => order[b] < order[a])
    BY <1>2
  <2> QED
    BY <2>1, <2>2
<1>8. ASSUME NEW kinds, \A a, b \in Of(queue, j, kinds) : a = b,
             NEW a \in Of(rest, j, kinds), NEW b \in Of(rest, j, kinds)
      PROVE  a = b
  <2>1. order[a] = order[b]
    BY <1>4, <1>8
  <2> QED
    BY <1>7, <2>1 DEF Of
<1>9. ASSUME NEW these, NEW those,
             \A a \in Of(queue, j, these), b \in Of(queue, j, those) : b <= a,
             NEW a \in Of(rest, j, these), NEW b \in Of(rest, j, those)
      PROVE  b <= a
  <2>1. order[b] <= order[a]
    BY <1>4, <1>9
  <2> QED
    BY <1>7, <2>1 DEF Of
<1> QED
  BY <1>1, <1>6, <1>8, <1>9 DEF rest

\* What a notice at the end, and one taken from the front, do to these places.
LEMMA OfAppended ==
  ASSUME NEW queue \in Seq(Notice), NEW n \in Notice, NEW j
  PROVE  /\ Append(queue, n) \in Seq(Notice)
         /\ \A kinds : Of(Append(queue, n), j, kinds) =
              Of(queue, j, kinds) \cup (IF n.job = j /\ n.kind \in kinds THEN {Len(queue) + 1} ELSE {})
<1>1. /\ Append(queue, n) \in Seq(Notice) /\ DOMAIN queue = 1..Len(queue) /\ Len(queue) \in Nat
      /\ DOMAIN Append(queue, n) = 1..(Len(queue) + 1)
      /\ \A i \in 1..Len(queue) : Append(queue, n)[i] = queue[i]
      /\ Append(queue, n)[Len(queue) + 1] = n
  OBVIOUS
<1>2. ASSUME NEW kinds
      PROVE  Of(Append(queue, n), j, kinds) =
              Of(queue, j, kinds) \cup (IF n.job = j /\ n.kind \in kinds THEN {Len(queue) + 1} ELSE {})
  <2>1. 1..(Len(queue) + 1) = 1..Len(queue) \cup {Len(queue) + 1}
    BY <1>1
  <2> QED
    BY <1>1, <2>1 DEF Of
<1> QED
  BY <1>1, <1>2

\* The places of a queue without its head are those of the queue, one earlier.
LEMMA OfTail ==
  ASSUME NEW queue \in Seq(Notice), queue # <<>>, NEW j
  PROVE  /\ Tail(queue) \in Seq(Notice) /\ Head(queue) \in Notice
         /\ 1 \in DOMAIN queue /\ queue[1] = Head(queue)
         /\ \A kinds : \A i \in Of(Tail(queue), j, kinds) : i \in Nat /\ i + 1 \in Of(queue, j, kinds)
         /\ \A kinds : \A i \in Of(queue, j, kinds) : i # 1 => i - 1 \in Of(Tail(queue), j, kinds)
<1>1. /\ Tail(queue) \in Seq(Notice) /\ DOMAIN queue = 1..Len(queue) /\ Len(queue) \in Nat \ {0}
      /\ DOMAIN Tail(queue) = 1..(Len(queue) - 1) /\ Head(queue) = queue[1]
      /\ \A i \in 1..(Len(queue) - 1) : Tail(queue)[i] = queue[i + 1]
  OBVIOUS
<1>2. ASSUME NEW kinds, NEW i \in Of(Tail(queue), j, kinds)
      PROVE  i \in Nat /\ i + 1 \in Of(queue, j, kinds)
  BY <1>1 DEF Of
<1>3. ASSUME NEW kinds, NEW i \in Of(queue, j, kinds), i # 1
      PROVE  i - 1 \in Of(Tail(queue), j, kinds)
  <2>1. i - 1 \in 1..(Len(queue) - 1) /\ (i - 1) + 1 = i
    BY <1>1, <1>3 DEF Of
  <2> QED
    BY <1>1, <2>1 DEF Of
<1>4. 1 \in DOMAIN queue /\ Head(queue) \in Notice
  BY <1>1
<1> QED
  BY <1>1, <1>2, <1>3, <1>4

\* Is a stop of the job still to be shown?
Stop(r) == r.state = "Stopped" /\ r.notice

\* A record whose notices need not change.
LEMMA NoticesSame ==
  ASSUME NEW queue, NEW j, NEW r, NEW s, NoticesFor(queue, j, r),
         Stop(s) <=> Stop(r), s.state = "Completed" <=> r.state = "Completed",
         s.state \in {"Planned", "Reaped"} => r.state \in {"Planned", "Reaped"}
  PROVE  NoticesFor(queue, j, s)
BY DEF NoticesFor, Stop

\* Notices are dropped (`retain`), and none of job j.
LEMMA NoticesKept ==
  ASSUME NEW queue \in Seq(Notice), NEW places \in SUBSET DOMAIN queue, NEW j, NEW r,
         NoticesFor(queue, j, r), Of(queue, j, NoticeKind) \subseteq places
  PROVE  NoticesFor(Retained(queue, places), j, r)
<1> DEFINE rest == Retained(queue, places)
<1>1. ASSUME NEW kinds \in SUBSET NoticeKind
      PROVE  Of(rest, j, kinds) # {} <=> Of(queue, j, kinds) # {}
  <2>1. Of(queue, j, kinds) \cap places = Of(queue, j, kinds)
    BY DEF Of
  <2> QED
    BY <2>1, OfRetained
<1>2. ASSUME NEW kind \in {"Stopped", "Completed"}
      PROVE  \A a, b \in Of(rest, j, {kind}) : a = b
  <2>1. \A a, b \in Of(queue, j, {kind}) : a = b
    BY DEF NoticesFor
  <2> QED
    BY <2>1, OfRetained
<1>3. \A a \in Of(rest, j, {"Completed"}), b \in Of(rest, j, NoticeKind) : b <= a
  <2>1. \A a \in Of(queue, j, {"Completed"}), b \in Of(queue, j, NoticeKind) : b <= a
    BY DEF NoticesFor
  <2> QED
    BY <2>1, OfRetained
<1>4. {"Stopped"} \subseteq NoticeKind /\ {"Completed"} \subseteq NoticeKind
  BY DEF NoticeKind
<1> HIDE DEF rest
<1>5. NoticesFor(rest, j, r)
  BY <1>1, <1>2, <1>3, <1>4 DEF NoticesFor
<1> QED
  BY <1>5 DEF rest

\* Notices of another job come and go.
LEMMA NoticesBeside ==
  ASSUME NEW queue \in Seq(Notice), NEW j, NEW r, NoticesFor(queue, j, r)
  PROVE  /\ \A n \in Notice : n.job # j => NoticesFor(Append(queue, n), j, r)
         /\ queue # <<>> /\ Head(queue).job # j => NoticesFor(Tail(queue), j, r)
<1>1. ASSUME NEW n \in Notice, n.job # j  PROVE NoticesFor(Append(queue, n), j, r)
  <2>1. ASSUME NEW kinds  PROVE Of(Append(queue, n), j, kinds) = Of(queue, j, kinds)
    <3>1. Of(Append(queue, n), j, kinds) =
            Of(queue, j, kinds) \cup (IF n.job = j /\ n.kind \in kinds THEN {Len(queue) + 1} ELSE {})
      BY OfAppended
    <3> QED
      BY <1>1, <3>1
  <2> QED
    BY <2>1 DEF NoticesFor
<1>2. ASSUME queue # <<>>, Head(queue).job # j  PROVE NoticesFor(Tail(queue), j, r)
  <2>1. \A kinds : 1 \notin Of(queue, j, kinds)
    BY <1>2, OfTail DEF Of
  <2>2. \A kinds : Of(Tail(queue), j, kinds) # {} <=> Of(queue, j, kinds) # {}
    BY <1>2, <2>1, OfTail
  <2>3. \A kinds : \A a \in Of(Tail(queue), j, kinds) : a \in Nat /\ a + 1 \in Of(queue, j, kinds)
    BY <1>2, OfTail
  <2>4. \A a, b \in Nat : (a + 1 = b + 1 => a = b) /\ (b + 1 <= a + 1 => b <= a)
    OBVIOUS
  <2>5. \A kind \in {"Stopped", "Completed"} : \A a, b \in Of(Tail(queue), j, {kind}) : a = b
    BY <2>3, <2>4, ZenonT(60) DEF NoticesFor
  <2>6. \A a \in Of(Tail(queue), j, {"Completed"}), b \in Of(Tail(queue), j, NoticeKind) : b <= a
    BY <2>3, <2>4 DEF NoticesFor
  <2> QED
    BY <2>2, <2>5, <2>6 DEF NoticesFor
<1> QED
  BY <1>1, <1>2

\* A notice that tells of no state change joins the queue of a running job, or of
\* a stopped one as long as it stays stopped.
LEMMA NoticesTold ==
  ASSUME NEW queue \in Seq(Notice), NEW j \in JobId, NEW kind \in {"Started", "ObservationFailed"},
         NEW r, NEW s, NoticesFor(queue, j, r), r.state # "Completed",
         s.state \in Published, Stop(s) <=> Stop(r)
  PROVE  NoticesFor(Append(queue, [job |-> j, kind |-> kind]), j, s)
<1> DEFINE n == [job |-> j, kind |-> kind]
           more == Append(queue, n)
<1>1. n \in Notice /\ n.job = j /\ n.kind = kind
  BY DEF Notice, NoticeKind
<1>2. ASSUME NEW kinds \in {{"Stopped"}, {"Completed"}}
      PROVE  Of(more, j, kinds) = Of(queue, j, kinds)
  <2>1. n.kind \notin kinds
    BY <1>1
  <2>2. Of(more, j, kinds) =
          Of(queue, j, kinds) \cup (IF n.job = j /\ n.kind \in kinds THEN {Len(queue) + 1} ELSE {})
    BY <1>1, OfAppended
  <2> QED
    BY <2>1, <2>2
<1>3. Of(more, j, {"Stopped"}) = Of(queue, j, {"Stopped"})
      /\ Of(more, j, {"Completed"}) = Of(queue, j, {"Completed"})
  BY <1>2
<1>4. Of(queue, j, {"Completed"}) = {}
  BY DEF NoticesFor
<1> HIDE DEF more
<1> QED
  BY <1>3, <1>4 DEF NoticesFor, Stop, Published, more

\* What is left without the notices of some kinds.
LEMMA OfWithout ==
  ASSUME NEW queue \in Seq(Notice), NEW j, NEW kinds \in SUBSET NoticeKind
  PROVE  /\ Without(queue, j, kinds) \in Seq(Notice)
         /\ Of(Without(queue, j, kinds), j, kinds) = {}
         /\ \A k, r : k # j /\ NoticesFor(queue, k, r) => NoticesFor(Without(queue, j, kinds), k, r)
<1> DEFINE places == {i \in DOMAIN queue : queue[i].job # j \/ queue[i].kind \notin kinds}
<1>1. Without(queue, j, kinds) = Retained(queue, places)
  BY DEF Without
<1>2. places \in SUBSET DOMAIN queue /\ Of(queue, j, kinds) \cap places = {}
  BY DEF Of
<1>3. \A k : k # j => Of(queue, k, NoticeKind) \subseteq places
  BY DEF Of
<1> HIDE DEF places
<1>4. Retained(queue, places) \in Seq(Notice)
  BY <1>2, OfRetained
<1>5. Of(Retained(queue, places), j, kinds) = {}
  BY <1>2, OfRetained
<1>6. ASSUME NEW k, NEW r, k # j, NoticesFor(queue, k, r)
      PROVE  NoticesFor(Retained(queue, places), k, r)
  BY <1>2, <1>3, <1>6, NoticesKept
<1> QED
  BY <1>1, <1>4, <1>5, <1>6

\* A continued job has no Stopped notice.
LEMMA NoticesContinued ==
  ASSUME NEW queue \in Seq(Notice), NEW j, NEW r, NEW s, NoticesFor(queue, j, r),
         r.state # "Completed", s.state \in Placement
  PROVE  NoticesFor(Without(queue, j, {"Stopped"}), j, s)
<1> DEFINE rest == Without(queue, j, {"Stopped"})
           places == {i \in DOMAIN queue : queue[i].job # j \/ queue[i].kind \notin {"Stopped"}}
<1>1. Of(rest, j, {"Stopped"}) = {}
  BY OfWithout DEF NoticeKind
<1>2. rest = Retained(queue, places) /\ places \in SUBSET DOMAIN queue
  BY DEF Without
<1>3. Of(queue, j, {"Completed"}) = {}
  BY DEF NoticesFor
<1> HIDE DEF rest, places
<1>4. Of(rest, j, {"Completed"}) = {}
  BY <1>2, <1>3, OfRetained
<1> QED
  BY <1>1, <1>4 DEF NoticesFor, Placement, rest

\* A new state replaces what was announced before (`queue_notice`).
LEMMA NoticesAnnounced ==
  ASSUME NEW queue \in Seq(Notice), NEW j \in JobId, NEW kind \in {"Stopped", "Completed"},
         NEW r, NEW s, NoticesFor(queue, j, r), s.state = kind, s.notice
  PROVE  NoticesFor(Append(Without(queue, j, {"Stopped", "Completed"}), [job |-> j, kind |-> kind]),
                    j, s)
<1> DEFINE rest == Without(queue, j, {"Stopped", "Completed"})
           n == [job |-> j, kind |-> kind]
           more == Append(rest, n)
<1>1. n \in Notice /\ n.job = j /\ n.kind = kind
  BY DEF Notice, NoticeKind
<1>2. rest \in Seq(Notice) /\ Of(rest, j, {"Stopped", "Completed"}) = {}
  BY OfWithout DEF NoticeKind
<1> HIDE DEF rest, n
<1>3. Of(rest, j, {"Stopped"}) = {} /\ Of(rest, j, {"Completed"}) = {}
  BY <1>2 DEF Of
<1>4. ASSUME NEW kinds
      PROVE  Of(more, j, kinds) = Of(rest, j, kinds) \cup (IF kind \in kinds THEN {Len(rest) + 1} ELSE {})
  <2>1. Of(more, j, kinds) =
          Of(rest, j, kinds) \cup (IF n.job = j /\ n.kind \in kinds THEN {Len(rest) + 1} ELSE {})
    BY <1>1, <1>2, OfAppended
  <2> QED
    BY <1>1, <2>1
<1> HIDE DEF more
<1>5. Of(more, j, {kind}) = {Len(rest) + 1}
      /\ \A other \in {"Stopped", "Completed"} : other # kind => Of(more, j, {other}) = {}
  BY <1>3, <1>4
<1>6. \A b \in Of(more, j, NoticeKind) : b <= Len(rest) + 1
  <2>1. DOMAIN rest = 1..Len(rest) /\ Len(rest) \in Nat
    BY <1>2
  <2>2. \A b \in Of(rest, j, NoticeKind) : b \in 1..Len(rest)
    BY <2>1 DEF Of
  <2> QED
    BY <1>4, <2>1, <2>2
<1>u. \A one \in {"Stopped", "Completed"} : \A a, b \in Of(more, j, {one}) : a = b
  <2>1. ASSUME NEW one \in {"Stopped", "Completed"}, NEW a \in Of(more, j, {one}),
               NEW b \in Of(more, j, {one})
        PROVE  a = b
    <3>1. CASE one = kind
      <4>1. a \in {Len(rest) + 1} /\ b \in {Len(rest) + 1}
        BY <1>5, <2>1, <3>1
      <4> QED
        BY <4>1
    <3>2. CASE one # kind
      <4>1. a \in {}
        BY <1>5, <2>1, <3>2
      <4> QED
        BY <4>1
    <3> QED
      BY <3>1, <3>2
  <2> QED
    BY <2>1
<1>7. NoticesFor(more, j, s)
  <2>1. CASE kind = "Stopped"
    <3>1. Of(more, j, {"Stopped"}) = {Len(rest) + 1} /\ Of(more, j, {"Completed"}) = {}
      BY <1>5, <2>1
    <3> QED
      BY <1>u, <2>1, <3>1 DEF NoticesFor
  <2>2. CASE kind = "Completed"
    <3>1. Of(more, j, {"Completed"}) = {Len(rest) + 1} /\ Of(more, j, {"Stopped"}) = {}
      BY <1>5, <2>2
    <3>2. \A a \in Of(more, j, {"Completed"}), b \in Of(more, j, NoticeKind) : b <= a
      BY <1>6, <3>1
    <3>3. Of(more, j, {"Completed"}) # {}
      BY <3>1
    <3> HIDE DEF Of
    <3> QED
      BY <1>u, <2>2, <3>1, <3>2, <3>3 DEF NoticesFor
  <2> QED
    BY <2>1, <2>2
<1> QED
  BY <1>7 DEF more, rest, n

\* Nothing is left of a job whose notices are all dropped.
LEMMA NoticesDropped ==
  ASSUME NEW queue, NEW j, NEW s, Of(queue, j, NoticeKind) = {}, s.state = "Reaped"
  PROVE  NoticesFor(queue, j, s)
<1>1. \A kinds \in SUBSET NoticeKind : Of(queue, j, kinds) = {}
  BY DEF Of
<1>2. {"Stopped"} \in SUBSET NoticeKind /\ {"Completed"} \in SUBSET NoticeKind
  BY DEF NoticeKind
<1> QED
  BY <1>1, <1>2 DEF NoticesFor

\* The notice at the front is shown, and acknowledged in the record (`acknowledge`).
LEMMA NoticesShown ==
  ASSUME NEW queue \in Seq(Notice), queue # <<>>, NEW j, NEW r \in Job, Head(queue).job = j,
         NoticesFor(queue, j, r)
  PROVE  NoticesFor(Tail(queue), j, Acknowledge(r, Head(queue).kind))
<1> DEFINE n == Head(queue)
           rest == Tail(queue)
<1>1. /\ rest \in Seq(Notice) /\ n \in Notice /\ 1 \in DOMAIN queue /\ queue[1] = n
      /\ \A kinds : \A i \in Of(rest, j, kinds) : i \in Nat /\ i + 1 \in Of(queue, j, kinds)
      /\ \A kinds : \A i \in Of(queue, j, kinds) : i # 1 => i - 1 \in Of(rest, j, kinds)
  BY OfTail
<1> HIDE DEF n, rest
<1>2. n.kind \in NoticeKind /\ \A kinds : n.kind \in kinds => 1 \in Of(queue, j, kinds)
  BY <1>1 DEF Notice, Of, n
<1>3. \A a, b \in Nat : (a + 1 = b + 1 => a = b) /\ (b + 1 <= a + 1 => b <= a)
  OBVIOUS
<1>4. \A kind \in {"Stopped", "Completed"} : \A a, b \in Of(rest, j, {kind}) : a = b
  <2>1. ASSUME NEW kind \in {"Stopped", "Completed"}, NEW a \in Of(rest, j, {kind}),
               NEW b \in Of(rest, j, {kind})
        PROVE  a = b
    <3>1. a \in Nat /\ b \in Nat /\ a + 1 \in Of(queue, j, {kind}) /\ b + 1 \in Of(queue, j, {kind})
      BY <1>1
    <3>2. a + 1 = b + 1
      BY <3>1 DEF NoticesFor
    <3> QED
      BY <3>1, <3>2
  <2> QED
    BY <2>1
<1>5. \A a \in Of(rest, j, {"Completed"}), b \in Of(rest, j, NoticeKind) : b <= a
  BY <1>1, <1>3 DEF NoticesFor
<1>6. \A kinds : n.kind \notin kinds => (Of(rest, j, kinds) # {} <=> Of(queue, j, kinds) # {})
  <2>1. \A kinds : n.kind \notin kinds => 1 \notin Of(queue, j, kinds)
    BY <1>1 DEF Of
  <2> QED
    BY <1>1, <2>1
<1>7. \A kinds : \A i \in Of(rest, j, kinds) : i + 1 # 1 /\ i \in Nat
  <2>1. DOMAIN rest \subseteq Nat \ {0}
    BY <1>1
  <2> QED
    BY <2>1 DEF Of
<1>8. CASE n.kind = "Stopped"
  <2>1. Of(queue, j, {"Stopped"}) # {} /\ \A a \in Of(queue, j, {"Stopped"}) : a = 1
    BY <1>2, <1>8 DEF NoticesFor
  <2>2. Of(rest, j, {"Stopped"}) = {}
    BY <1>1, <1>7, <2>1
  <2>3. r.state = "Stopped" /\ r.notice
    BY <2>1 DEF NoticesFor
  <2>4. Acknowledge(r, n.kind) = AcknowledgeStopped(r)
    BY <1>8, <2>3 DEF Acknowledge, CanAcknowledgeStopped
  <2>5. Acknowledge(r, n.kind).state = "Stopped" /\ ~Acknowledge(r, n.kind).notice
    BY <2>3, <2>4 DEF AcknowledgeStopped, Job
  <2>6. Of(rest, j, {"Completed"}) # {} <=> Of(queue, j, {"Completed"}) # {}
    BY <1>6, <1>8
  <2>7. Of(queue, j, {"Completed"}) = {}
    BY <2>3 DEF NoticesFor
  <2> HIDE DEF Acknowledge
  <2>8. NoticesFor(rest, j, Acknowledge(r, n.kind))
    BY <1>4, <1>5, <2>2, <2>5, <2>6, <2>7 DEF NoticesFor
  <2> QED
    BY <2>8 DEF n, rest
<1>9. CASE n.kind = "Completed"
  <2>1. /\ Of(queue, j, {"Completed"}) # {} /\ 1 \in Of(queue, j, {"Completed"})
        /\ \A b \in Of(queue, j, NoticeKind) : b <= 1
    BY <1>2, <1>9 DEF NoticesFor
  <2>2. Of(rest, j, NoticeKind) = {}
    <3>1. ASSUME NEW i \in Of(rest, j, NoticeKind)  PROVE FALSE
      <4>1. i \in Nat /\ i + 1 # 1 /\ i + 1 <= 1
        BY <1>1, <1>7, <2>1
      <4> QED
        BY <4>1
    <3> QED
      BY <3>1
  <2>3. r.state = "Completed"
    BY <2>1 DEF NoticesFor
  <2>4. Acknowledge(r, n.kind) = MarkReaped(MarkNotified(r))
    BY <1>9, <2>3 DEF Acknowledge, CanMarkNotified
  <2>5. Acknowledge(r, n.kind).state = "Reaped"
    BY <2>4 DEF MarkReaped, MarkNotified, Job
  <2>6. NoticesFor(rest, j, Acknowledge(r, n.kind))
    BY <2>2, <2>5, NoticesDropped
  <2> QED
    BY <2>6 DEF n, rest
<1>10. CASE n.kind \notin {"Stopped", "Completed"}
  <2>1. Acknowledge(r, n.kind) = r
    BY <1>10 DEF Acknowledge
  <2>2. /\ Of(rest, j, {"Stopped"}) # {} <=> Of(queue, j, {"Stopped"}) # {}
        /\ Of(rest, j, {"Completed"}) # {} <=> Of(queue, j, {"Completed"}) # {}
    BY <1>6, <1>10
  <2>3. r.state \in {"Planned", "Reaped"} => Of(rest, j, NoticeKind) = {}
    BY <1>1 DEF NoticesFor
  <2>4. NoticesFor(rest, j, r)
    BY <1>4, <1>5, <2>2, <2>3 DEF NoticesFor
  <2> QED
    BY <2>1, <2>4 DEF n, rest
<1> QED
  BY <1>8, <1>9, <1>10

-----------------------------------------------------------------------------
(* The records. *)

\* What an accepted observation makes of a published record.
LEMMA Observed ==
  ASSUME NEW j, JobOK(j), NEW p \in Process, CanObserve(j, p), j.state \in Published,
         NEW seen \in MemberState
  PROVE  LET new == Observe(j, p, seen)
         IN  /\ JobOK(new)
             /\ new.members = [j.members EXCEPT ![p] = seen]
             /\ new.state \in Published \cup {"Completed"}
             /\ new.state = "Completed" => new.notice /\ AllCompleted(new)
             /\ seen = Running => new.state \in Placement
             /\ seen # Running /\ j.state = "Stopped" => new.state \in {"Stopped", "Completed"}
             /\ new.state = "Stopped" => (new.notice <=> j.state # "Stopped" \/ j.notice)
<1> DEFINE new == Observe(j, p, seen)
<1>1. JobOK(new) /\ (seen # Running /\ j.state = "Stopped" => new.state \in {"Stopped", "Completed"})
  BY AcceptedOK
<1>2. j \in Job /\ j.placement \in Placement /\ (j.notice => AllLiveStopped(j))
      /\ (j.state = "Stopped" => j.resume = j.placement)
  BY DEF JobOK, NoticeMatchesIn, AggregateAgreesIn, ResumeIsPlacementIn, Published, Placement, Job
<1>3. new.members = [j.members EXCEPT ![p] = seen] /\ new.state \in Published \cup {"Completed"}
      /\ (new.state = "Stopped" /\ seen # Running => (new.notice <=> j.state # "Stopped" \/ j.notice))
  <2>1. CASE seen = Running
    <3> DEFINE k == [j EXCEPT !.members[p] = Running,
                              !.placement = IF j.state = "Stopped" THEN j.resume ELSE j.placement,
                              !.notice = FALSE]
    <3>1. new = Reconcile(k)
      BY <2>1, MemberStatesDistinct DEF Observe, ObserveContinued
    <3>2. /\ k \in Job /\ k.state = j.state /\ k.placement \in Placement /\ k.notice = FALSE
          /\ k.members = [j.members EXCEPT ![p] = Running]
      BY <1>2 DEF Job, MemberState
    <3>3. p \in Members(k)
      BY <3>2 DEF Members, Running, Absent, Job
    <3> HIDE DEF k, new
    <3> QED
      BY <2>1, <3>1, <3>2, <3>3, ReconcileOK
  <2>2. CASE seen \in Signal \cup Status
    <3> DEFINE k == [j EXCEPT !.members[p] = seen]
    <3>1. new = Reconcile(k)
      BY <2>2, MemberStatesDistinct DEF Observe, ObserveStopped, ObserveCompleted
    <3>2. /\ k \in Job /\ k.state = j.state /\ k.placement \in Placement /\ k.notice = j.notice
          /\ k.members = [j.members EXCEPT ![p] = seen]
      BY <1>2 DEF Job, MemberState
    <3>3. p \in Members(k)
      BY <2>2, <3>2, MemberStatesDistinct DEF Members, Job
    <3>4. k.notice => AllLiveStopped(k)
      BY <1>2, <2>2, <3>2 DEF AllLiveStopped, Members, Job
    <3>5. k.notice \in BOOLEAN
      BY <3>2 DEF Job
    <3> HIDE DEF k, new
    <3>6. Reconcile(k).members = k.members /\ Reconcile(k).state \in Published \cup {"Completed"}
      BY <3>2, <3>3, <3>4, ReconcileOK
    <3>7. Reconcile(k).state = "Stopped" =>
            Reconcile(k).notice = IF k.state = "Stopped" THEN k.notice ELSE TRUE
      BY <3>2, ReconcileOutcome DEF Placement
    <3> QED
      BY <3>1, <3>2, <3>5, <3>6, <3>7
  <2> QED
    BY <2>1, <2>2 DEF MemberState
<1> HIDE DEF new
<1>4. new.state = "Completed" => new.notice /\ AllCompleted(new)
  BY <1>1 DEF JobOK, NoticeMatchesIn, AggregateAgreesIn
<1>5. seen = Running => new.state \in Placement
  <2> SUFFICES ASSUME seen = Running PROVE new.state \in Placement
    OBVIOUS
  <2>1. new.members[p] = Running
    BY <1>2, <1>3 DEF Job
  <2>2. ~AllLiveStopped(new) /\ ~AllCompleted(new)
    BY <2>1, MemberStatesDistinct DEF AllLiveStopped, AllCompleted, Members, Running, Absent
  <2> QED
    BY <1>1, <1>3, <2>2 DEF JobOK, AggregateAgreesIn, Published, Placement
<1>6. seen = Running => new.state # "Stopped"
  BY <1>5 DEF Placement
<1> QED
  BY <1>1, <1>3, <1>4, <1>5, <1>6 DEF new

\* The status of a completed pipeline (`aggregate_statuses`).
Agrees(status, j) ==
  status = Ok <=> \A p \in Members(j) :
                    setup.pipefail \/ (\A q \in Members(j) : q <= p) => j.members[p] = Ok

\* A finite nonempty set of naturals has a greatest element.
LEMMA GreatestOf ==
  ASSUME NEW S \in SUBSET Nat, IsFiniteSet(S), S # {}
  PROVE  \E x \in S : \A y \in S : y <= x
<1> DEFINE n == Cardinality(S)
           s == InOrder(S)
<1>1. /\ n \in Nat /\ s \in [1..n -> S] /\ \A a, b \in 1..n : a < b => s[a] < s[b]
      /\ \A x \in S : \E a \in 1..n : s[a] = x
  BY InOrderOf
<1>2. n # 0
  BY FS_EmptySet
<1> HIDE DEF n, s
<1>3. n \in 1..n /\ s[n] \in S
  BY <1>1, <1>2
<1>4. ASSUME NEW y \in S  PROVE y <= s[n]
  <2>1. PICK a \in 1..n : s[a] = y
    BY <1>1
  <2>2. a = n \/ a < n
    BY <1>1, <2>1
  <2>3. a < n => s[a] < s[n]
    BY <1>1, <1>3
  <2>4. s[a] \in Nat /\ s[n] \in Nat
    BY <1>1, <1>3
  <2> QED
    BY <2>1, <2>2, <2>3, <2>4
<1> QED
  BY <1>3, <1>4

\* `aggregate_statuses` computes a status, successful when the members that count are.
LEMMA AggregateOf ==
  ASSUME NEW j \in Job, IsFiniteSet(Members(j)), Members(j) # {}, AllCompleted(j)
  PROVE  AggregateStatus(j) \in Status /\ Agrees(AggregateStatus(j), j)
<1> DEFINE failing == {p \in Members(j) : j.members[p] # Ok}
           Last(S) == CHOOSE p \in S : \A q \in S : q <= p
<1>1. Members(j) \in SUBSET Nat /\ Members(j) \subseteq Process
  BY JobAssumption DEF Members
<1>2. ASSUME NEW S \in SUBSET Members(j), S # {}
      PROVE  Last(S) \in S /\ \A q \in S : q <= Last(S)
  <2>1. IsFiniteSet(S) /\ S \in SUBSET Nat
    BY <1>1, FS_Subset
  <2>2. \E x \in S : \A y \in S : y <= x
    BY <1>2, <2>1, GreatestOf
  <2> QED
    BY <2>2
<1>3. AggregateStatus(j) =
        j.members[IF setup.pipefail /\ failing # {} THEN Last(failing) ELSE Last(Members(j))]
  BY DEF AggregateStatus
<1>4. Last(Members(j)) \in Members(j) /\ \A q \in Members(j) : q <= Last(Members(j))
  BY <1>2
<1>5. failing # {} => Last(failing) \in failing
  BY <1>2
<1> HIDE DEF Last
<1>6. AggregateStatus(j) \in Status
  BY <1>3, <1>4, <1>5 DEF AllCompleted
<1>7. \A p \in Members(j) : (\A q \in Members(j) : q <= p) => p = Last(Members(j))
  <2>1. ASSUME NEW p \in Members(j), \A q \in Members(j) : q <= p  PROVE p = Last(Members(j))
    <3>1. p \in Nat /\ Last(Members(j)) \in Nat /\ Last(Members(j)) <= p /\ p <= Last(Members(j))
      BY <1>1, <1>4, <2>1
    <3> QED
      BY <3>1
  <2> QED
    BY <2>1
<1>8. ASSUME setup.pipefail  PROVE Agrees(AggregateStatus(j), j)
  <2>1. CASE failing = {}
    <3>1. AggregateStatus(j) = j.members[Last(Members(j))]
      BY <1>3, <2>1
    <3>2. \A p \in Members(j) : j.members[p] = Ok
      BY <2>1
    <3> HIDE DEF failing
    <3> QED
      BY <1>4, <3>1, <3>2 DEF Agrees
  <2>2. CASE failing # {}
    <3>1. AggregateStatus(j) = j.members[Last(failing)] /\ Last(failing) \in failing
      BY <1>3, <1>5, <1>8, <2>2
    <3>2. AggregateStatus(j) # Ok /\ \E p \in Members(j) : j.members[p] # Ok
      BY <3>1
    <3> QED
      BY <1>8, <3>2 DEF Agrees
  <2> QED
    BY <2>1, <2>2
<1>9. ASSUME ~setup.pipefail  PROVE Agrees(AggregateStatus(j), j)
  <2>1. AggregateStatus(j) = j.members[Last(Members(j))]
    BY <1>3, <1>9
  <2> QED
    BY <1>4, <1>7, <1>9, <2>1 DEF Agrees
<1> QED
  BY <1>6, <1>8, <1>9

-----------------------------------------------------------------------------
(* One child, its observer, and what of it is still in the channel. *)

From(queue, j, p) == {i \in DOMAIN queue : queue[i].job = j /\ queue[i].process = p}

Terminal == Status \cup {Failed}

\* How the table's member m, the kernel's child c with its unreported flag u, the
\* observer o and the channel hang together, for child p of job j; `lost` says
\* that the job's record is quarantined.  A status is reported once and last, and
\* what has been reported last is what the kernel knows unless u is set.
Linked(m, c, o, u, lost, queue, j, p) ==
  LET at == From(queue, j, p)
  IN  /\ m = Absent <=> c = Absent
      /\ c = Absent => ~u /\ o = Idle /\ at = {}
      /\ m \in Status => c = m /\ ~u /\ o = Done /\ at = {}
      /\ o \in Terminal \cup {Done} => c \in Status
      /\ o \in Status => o = c /\ ~u
      /\ \A i \in at : queue[i].seen \in Terminal => o = Done /\ \A k \in at : k <= i
      /\ \A i \in at : queue[i].seen \in Status => queue[i].seen = c /\ ~u
      /\ ~u /\ o \in Observation => o \in {c, Failed}
      /\ ~u /\ o \notin Observation =>
           \A i \in at : (\A k \in at : k <= i) => queue[i].seen \in {c, Failed}
      /\ ~u /\ o \in {Idle, Done} /\ at = {} /\ ~lost => m = c

\* What a queue holds of one child after one more observation was sent.
LEMMA FromAppended ==
  ASSUME NEW queue \in Seq(Event), NEW e \in Event, NEW j, NEW p
  PROVE  /\ Append(queue, e) \in Seq(Event)
         /\ e.job = j /\ e.process = p =>
              From(Append(queue, e), j, p) = From(queue, j, p) \cup {Len(queue) + 1}
         /\ ~(e.job = j /\ e.process = p) => From(Append(queue, e), j, p) = From(queue, j, p)
         /\ From(queue, j, p) \subseteq 1..Len(queue)
<1>1. /\ Append(queue, e) \in Seq(Event) /\ DOMAIN queue = 1..Len(queue) /\ Len(queue) \in Nat
      /\ DOMAIN Append(queue, e) = 1..(Len(queue) + 1)
      /\ \A i \in 1..Len(queue) : Append(queue, e)[i] = queue[i]
      /\ Append(queue, e)[Len(queue) + 1] = e
  OBVIOUS
<1>2. 1..(Len(queue) + 1) = 1..Len(queue) \cup {Len(queue) + 1}
  BY <1>1
<1> QED
  BY <1>1, <1>2 DEF From

\* What a queue holds of one child after its head was received.
LEMMA FromTail ==
  ASSUME NEW queue \in Seq(Event), queue # <<>>, NEW j, NEW p
  PROVE  /\ Tail(queue) \in Seq(Event) /\ Head(queue) \in Event /\ queue[1] = Head(queue)
         /\ 1 \in From(queue, j, p) <=> Head(queue).job = j /\ Head(queue).process = p
         /\ \A i \in From(queue, j, p) : i \in Nat \ {0}
         /\ \A i \in From(Tail(queue), j, p) : i \in Nat \ {0} /\ i + 1 \in From(queue, j, p)
         /\ \A i \in From(queue, j, p) : i # 1 => i - 1 \in From(Tail(queue), j, p)
<1>1. /\ Tail(queue) \in Seq(Event) /\ DOMAIN queue = 1..Len(queue) /\ Len(queue) \in Nat \ {0}
      /\ DOMAIN Tail(queue) = 1..(Len(queue) - 1) /\ Head(queue) = queue[1]
      /\ \A i \in 1..(Len(queue) - 1) : Tail(queue)[i] = queue[i + 1]
  OBVIOUS
<1>2. ASSUME NEW i \in From(Tail(queue), j, p)
      PROVE  i \in Nat \ {0} /\ i + 1 \in From(queue, j, p)
  BY <1>1 DEF From
<1>3. ASSUME NEW i \in From(queue, j, p), i # 1  PROVE i - 1 \in From(Tail(queue), j, p)
  <2>1. i - 1 \in 1..(Len(queue) - 1) /\ (i - 1) + 1 = i
    BY <1>1, <1>3 DEF From
  <2> QED
    BY <1>1, <2>1 DEF From
<1>4. Head(queue) \in Event /\ (\A i \in From(queue, j, p) : i \in Nat \ {0})
      /\ (1 \in From(queue, j, p) <=> Head(queue).job = j /\ Head(queue).process = p)
  BY <1>1 DEF From
<1> QED
  BY <1>1, <1>2, <1>3, <1>4

\* The rest of the channel, for a child the received observation is not about.
LEMMA LinkedPassed ==
  ASSUME NEW queue \in Seq(Event), queue # <<>>, NEW j, NEW p,
         ~(Head(queue).job = j /\ Head(queue).process = p),
         NEW m, NEW c, NEW o, NEW u, NEW lost, Linked(m, c, o, u, lost, queue, j, p)
  PROVE  Linked(m, c, o, u, lost, Tail(queue), j, p)
<1> DEFINE rest == Tail(queue)
           at == From(queue, j, p)
           left == From(rest, j, p)
<1>0. \A i \in left : rest[i] = queue[i + 1]
  <2>1. /\ DOMAIN Tail(queue) = 1..(Len(queue) - 1)
        /\ \A i \in 1..(Len(queue) - 1) : Tail(queue)[i] = queue[i + 1]
    OBVIOUS
  <2> QED
    BY <2>1 DEF From
<1>1. /\ \A i \in at : i \in Nat \ {0} /\ i # 1 /\ i - 1 \in left
      /\ \A i \in left : i \in Nat \ {0} /\ i + 1 \in at
  BY FromTail
<1>2. left = {} <=> at = {}
  BY <1>1
<1>3. \A i, k \in left : (k + 1 <= i + 1 <=> k <= i)
  <2> HIDE DEF left, at
  <2>1. ASSUME NEW i \in left, NEW k \in left
        PROVE  k + 1 <= i + 1 <=> k <= i
    <3>1. i \in Nat /\ k \in Nat
      BY <1>1
    <3> QED
      BY <3>1
  <2> QED
    BY <2>1
<1>4. ASSUME NEW i \in left, \A k \in left : k <= i  PROVE \A k \in at : k <= i + 1
  <2>1. ASSUME NEW k \in at  PROVE k <= i + 1
    <3>1. k \in Nat /\ i \in Nat /\ k - 1 \in left /\ k - 1 <= i
      BY <1>1, <1>4
    <3> QED
      BY <3>1
  <2> QED
    BY <2>1
<1> HIDE DEF rest, at, left
<1>5. /\ \A i \in left : rest[i].seen \in Terminal => o = Done /\ \A k \in left : k <= i
      /\ \A i \in left : rest[i].seen \in Status => rest[i].seen = c /\ ~u
  BY <1>0, <1>1, <1>3 DEF Linked, at
<1>6. ~u /\ o \notin Observation =>
        \A i \in left : (\A k \in left : k <= i) => rest[i].seen \in {c, Failed}
  BY <1>0, <1>1, <1>4 DEF Linked, at
<1> QED
  BY <1>2, <1>5, <1>6 DEF Linked, at, left, rest

\* The child the received observation is about: its member had not completed,
\* and takes the observed state, or its record is quarantined.
LEMMA LinkedReceived ==
  ASSUME NEW queue \in Seq(Event), queue # <<>>, NEW j, NEW p,
         Head(queue).job = j, Head(queue).process = p,
         NEW m, NEW c, NEW o, NEW u, NEW lost, Linked(m, c, o, u, lost, queue, j, p)
  PROVE  LET seen == Head(queue).seen
         IN  /\ m \notin Status \cup {Absent}
             /\ seen # Failed => Linked(seen, c, o, u, lost, Tail(queue), j, p)
             /\ seen = Failed => Linked(m, c, o, u, TRUE, Tail(queue), j, p)
<1> DEFINE rest == Tail(queue)
           at == From(queue, j, p)
           left == From(rest, j, p)
           seen == Head(queue).seen
<1>0. \A i \in left : rest[i] = queue[i + 1]
  <2>1. /\ DOMAIN Tail(queue) = 1..(Len(queue) - 1)
        /\ \A i \in 1..(Len(queue) - 1) : Tail(queue)[i] = queue[i + 1]
    OBVIOUS
  <2> QED
    BY <2>1 DEF From
<1>1. /\ 1 \in at /\ queue[1].seen = seen /\ seen \in Observation
      /\ \A i \in at : i \in Nat \ {0} /\ (i # 1 => i - 1 \in left)
      /\ \A i \in left : i \in Nat \ {0} /\ i + 1 \in at
  BY FromTail, ZenonT(60) DEF Event
<1>2. \A i, k \in left : (k + 1 <= i + 1 <=> k <= i) /\ ~(i + 1 <= 1)
  BY <1>1
<1>3. ASSUME NEW i \in left, \A k \in left : k <= i  PROVE \A k \in at : k <= i + 1
  <2>1. ASSUME NEW k \in at  PROVE k <= i + 1
    <3>1. k \in Nat /\ i \in Nat /\ (k = 1 \/ (k - 1 \in left /\ k - 1 <= i))
      BY <1>1, <1>3
    <3> QED
      BY <3>1
  <2> QED
    BY <2>1
<1>4. ASSUME left = {}  PROVE \A k \in at : k <= 1
  <2>1. \A k \in at : k = 1
    BY <1>1, <1>4
  <2> QED
    BY <2>1
<1> HIDE DEF rest, at, left, seen
<1>5. m \notin Status \cup {Absent} /\ c # Absent
  BY <1>1 DEF Linked, at
<1>6. /\ \A i \in left : rest[i].seen \in Terminal => o = Done /\ \A k \in left : k <= i
      /\ \A i \in left : rest[i].seen \in Status => rest[i].seen = c /\ ~u
  BY <1>0, <1>1, <1>2 DEF Linked, at
<1>7. ~u /\ o \notin Observation =>
        \A i \in left : (\A k \in left : k <= i) => rest[i].seen \in {c, Failed}
  BY <1>0, <1>1, <1>3 DEF Linked, at
<1>8. seen \in Terminal => o = Done /\ left = {}
  <2>1. seen \in Terminal => o = Done /\ \A k \in at : k <= 1
    BY <1>1 DEF Linked, at
  <2> QED
    BY <1>1, <1>2, <2>1
<1>9. seen \in Status => seen = c /\ ~u
  BY <1>1 DEF Linked, at
<1>10. ~u /\ o \in {Idle, Done} /\ left = {} => seen \in {c, Failed}
  <2>1. {Idle, Done} \cap Observation = {}
    BY ObserverStatesDistinct DEF Observation, Idle, Done, Failed
  <2> QED
    BY <1>1, <1>4, <2>1 DEF Linked, at
<1>11. seen # Absent /\ Failed \notin Status
  BY <1>1, MemberStatesDistinct, ObserverStatesDistinct
  DEF Observation, MemberState, Failed, Absent, Running
<1>12. /\ o \in Terminal \cup {Done} => c \in Status
       /\ o \in Status => o = c /\ ~u
       /\ ~u /\ o \in Observation => o \in {c, Failed}
  BY DEF Linked
<1>13. ASSUME seen # Failed  PROVE Linked(seen, c, o, u, lost, rest, j, p)
  BY <1>5, <1>6, <1>7, <1>8, <1>9, <1>10, <1>11, <1>12, <1>13 DEF Linked, left, Terminal
<1>14. ASSUME seen = Failed  PROVE Linked(m, c, o, u, TRUE, rest, j, p)
  BY <1>5, <1>6, <1>7, <1>12, <1>14 DEF Linked, left
<1> QED
  BY <1>5, <1>13, <1>14 DEF seen, rest

\* An observer sends what it holds; a status or a failure is its last word.
LEMMA LinkedSent ==
  ASSUME NEW queue \in Seq(Event), NEW j \in JobId, NEW p \in Process,
         NEW m, NEW c, NEW o \in Observation, NEW u, NEW lost, Linked(m, c, o, u, lost, queue, j, p)
  PROVE  Linked(m, c, IF o \in Status \cup {Failed} THEN Done ELSE Idle, u, lost,
                Append(queue, [job |-> j, process |-> p, seen |-> o]), j, p)
<1> DEFINE e == [job |-> j, process |-> p, seen |-> o]
           more == Append(queue, e)
           at == From(queue, j, p)
           now == From(more, j, p)
           n == Len(queue) + 1
           o2 == IF o \in Status \cup {Failed} THEN Done ELSE Idle
<1>1. e \in Event /\ e.job = j /\ e.process = p /\ e.seen = o
  BY DEF Event
<1> HIDE DEF e
<1>2. /\ now = at \cup {n} /\ more[n] = e /\ n \in Nat
      /\ \A i \in at : i \in Nat /\ i <= n /\ i # n /\ more[i] = queue[i]
  <2>1. /\ From(Append(queue, e), j, p) = From(queue, j, p) \cup {Len(queue) + 1}
        /\ From(queue, j, p) \subseteq 1..Len(queue)
    BY <1>1, FromAppended, SMTT(40)
  <2>2. /\ Append(queue, e)[Len(queue) + 1] = e /\ Len(queue) \in Nat
        /\ \A i \in 1..Len(queue) : Append(queue, e)[i] = queue[i]
    BY <1>1
  <2>3. \A i \in 1..Len(queue) : i \in Nat /\ i <= n /\ i # n
    BY <2>2
  <2>4. \A i \in at : i \in 1..Len(queue)
    BY <2>1
  <2> HIDE DEF at, more
  <2>5. \A i \in at : i \in Nat /\ i <= n /\ i # n /\ more[i] = queue[i]
    BY <2>2, <2>3, <2>4 DEF more
  <2>6. now = at \cup {n} /\ more[n] = e /\ n \in Nat
    BY <2>1, <2>2 DEF at, more
  <2> QED
    BY <2>5, <2>6
<1>3. o \notin {Idle, Done} /\ Idle # Done /\ {Idle, Done} \cap Observation = {}
      /\ Failed \notin Status /\ {Idle, Done} \cap Terminal = {}
  BY ObserverStatesDistinct DEF Observation, Idle, Done, Failed, MemberState, Terminal
<1> HIDE DEF at, now, n, more
<1>4. \A k \in now : k <= n
  BY <1>2
<1>5. /\ m = Absent <=> c = Absent
      /\ c # Absent /\ m \notin Status
      /\ o \in Terminal => c \in Status
      /\ o \in Status => o = c /\ ~u
      /\ \A i \in at : queue[i].seen \notin Terminal
  BY <1>3 DEF Linked, at
<1>6. ~u => o \in {c, Failed}
  BY DEF Linked
<1>7. \A i \in now : more[i].seen \in Terminal => i = n /\ o \in Terminal
  BY <1>1, <1>2, <1>5
<1>8. o2 \in Terminal \cup {Done} => o2 = Done /\ o \in Terminal
  BY <1>3 DEF Terminal
<1>9. \A i \in now : more[i].seen \in Terminal => o2 = Done /\ \A k \in now : k <= i
  BY <1>4, <1>7 DEF Terminal
<1>10. \A i \in now : more[i].seen \in Status => more[i].seen = c /\ ~u
  BY <1>1, <1>2, <1>5, <1>7 DEF Terminal
<1>11. \A i \in now : (\A k \in now : k <= i) => i = n
  <2>1. ASSUME NEW i \in now, \A k \in now : k <= i  PROVE i = n
    <3>1. n <= i /\ i <= n /\ i \in Nat /\ n \in Nat
      BY <1>2, <1>4, <2>1
    <3> QED
      BY <3>1
  <2> QED
    BY <2>1
<1>12. ~u => \A i \in now : (\A k \in now : k <= i) => more[i].seen \in {c, Failed}
  BY <1>1, <1>2, <1>6, <1>11
<1>13. now # {} /\ o2 \notin Observation /\ o2 \notin Status
  BY <1>2, <1>3 DEF Observation, MemberState
<1> HIDE DEF o2
<1>14. Linked(m, c, o2, u, lost, more, j, p)
  BY <1>5, <1>8, <1>9, <1>10, <1>12, <1>13 DEF Linked, now
<1> QED
  BY <1>14 DEF o2, more, e

\* What others send.
LEMMA LinkedBeside ==
  ASSUME NEW queue \in Seq(Event), NEW e \in Event, NEW j, NEW p, ~(e.job = j /\ e.process = p),
         NEW m, NEW c, NEW o, NEW u, NEW lost, Linked(m, c, o, u, lost, queue, j, p)
  PROVE  Linked(m, c, o, u, lost, Append(queue, e), j, p)
<1> DEFINE more == Append(queue, e)
           at == From(queue, j, p)
<1>1. From(more, j, p) = at /\ \A i \in at : more[i] = queue[i]
  <2>1. From(Append(queue, e), j, p) = at /\ at \subseteq 1..Len(queue)
    BY FromAppended
  <2>2. \A i \in 1..Len(queue) : Append(queue, e)[i] = queue[i]
    OBVIOUS
  <2> QED
    BY <2>1, <2>2
<1> HIDE DEF more, at
<1>2. Linked(m, c, o, u, lost, more, j, p)
  BY <1>1 DEF Linked, at
<1> QED
  BY <1>2 DEF more

\* A child's state changes, and nobody has waited for it yet.
LEMMA LinkedMoved ==
  ASSUME NEW queue, NEW j, NEW p, NEW m, NEW c \in {Running} \cup Signal, NEW o, NEW u, NEW lost,
         NEW d \in MemberState, Linked(m, c, o, u, lost, queue, j, p)
  PROVE  /\ Linked(m, d, o, TRUE, lost, queue, j, p)
         /\ m \in {Running} \cup Signal => \A n \in {Running} \cup Signal :
              Linked(n, d, o, TRUE, lost, queue, j, p)
<1>1. c # Absent /\ c \notin Status /\ d # Absent
  BY MemberStatesDistinct DEF MemberState, Running, Absent
<1>2. /\ o \notin Terminal \cup {Done} /\ m # Absent /\ m \notin Status
      /\ \A i \in From(queue, j, p) : queue[i].seen \notin Terminal
  BY <1>1 DEF Linked
<1>3. \A n \in {Running} \cup Signal : n # Absent /\ n \notin Status
  BY MemberStatesDistinct DEF Running, Absent
<1> QED
  BY <1>1, <1>2, <1>3 DEF Linked, Terminal

\* An observer's wait returns.
LEMMA LinkedWaited ==
  ASSUME NEW queue, NEW j, NEW p, NEW m, NEW c \in MemberState, NEW u, NEW lost,
         Linked(m, c, Idle, u, lost, queue, j, p)
  PROVE  /\ Linked(m, c, c, FALSE, lost, queue, j, p)
         /\ \A d \in Status : Linked(m, d, d, FALSE, lost, queue, j, p)
         /\ \A d \in Status : Linked(m, d, Failed, FALSE, lost, queue, j, p)
         /\ \A d \in Status : Linked(m, d, Failed, TRUE, lost, queue, j, p)
<1>0. /\ {Failed, Idle, Done} \cap MemberState = {} /\ Idle # Done /\ Failed # Done
      /\ Idle # Failed
  BY ObserverStatesDistinct DEF Failed, Idle, Done
<1>1. c # Absent /\ \A d \in Status : d # Absent
  BY MemberStatesDistinct DEF MemberState, Running, Absent
<1>2. /\ m # Absent /\ m \notin Status
      /\ \A i \in From(queue, j, p) : queue[i].seen \notin Terminal
  BY <1>0, <1>1 DEF Linked
<1>3. \A d \in MemberState : d \in Observation /\ d # Idle /\ d # Done /\ d # Failed
  BY <1>0 DEF Observation
<1>4. Failed \in Observation /\ Failed \notin Status /\ Failed \notin {Idle, Done}
  BY <1>0 DEF Observation, MemberState
<1>5. Status \subseteq MemberState
  BY DEF MemberState
<1>6. ASSUME NEW d \in Status \cup {c}  PROVE Linked(m, d, d, FALSE, lost, queue, j, p)
  BY <1>1, <1>2, <1>3, <1>5 DEF Linked, Terminal
<1>7. ASSUME NEW d \in Status
      PROVE  /\ Linked(m, d, Failed, FALSE, lost, queue, j, p)
             /\ Linked(m, d, Failed, TRUE, lost, queue, j, p)
  BY <1>1, <1>2, <1>4 DEF Linked, Terminal
<1> QED
  BY <1>6, <1>7

\* A quarantined record promises no more than before.
LEMMA LinkedLost ==
  ASSUME NEW queue, NEW j, NEW p, NEW m, NEW c, NEW o, NEW u, NEW lost,
         Linked(m, c, o, u, lost, queue, j, p)
  PROVE  Linked(m, c, o, u, TRUE, queue, j, p)
BY DEF Linked

-----------------------------------------------------------------------------
(* The invariant. *)

Child(j, p) == Linked(job[j].members[p], proc[j][p], observer[j][p], unreported[j][p],
                      observation_failed[j], events, j, p)

\* What the lifecycle of a published job leaves, and the status that goes with it.
Recorded(r, status) ==
  /\ r.state \in {"Planned", "Completed", "Reaped"} \cup Published
  /\ r.state = "Planned" => Members(r) = {}
  /\ r.state \in {"Completed", "Reaped"} => AllCompleted(r)
  /\ status # None <=> r.state \in {"Completed", "Reaped"}
  /\ IsFiniteSet(Members(r))
  /\ r.state = "Completed" => Agrees(status, r)

QueueInv == notices \in Seq(Notice) /\ \A j \in JobId : NoticesFor(notices, j, job[j])

RecordsInv ==
  /\ completion \in [JobId -> Status \cup {None}]
  /\ \A j \in JobId : Recorded(job[j], completion[j])

ChildrenInv ==
  /\ ChildTypeOK
  /\ observation_failed \in [JobId -> BOOLEAN]
  /\ \A j \in JobId, p \in Process : Child(j, p)

-----------------------------------------------------------------------------
(* The children and their observers. *)

\* One child's step leaves the others as they are.
LEMMA OneChildSteps ==
  ASSUME ChildrenInv, UNCHANGED <<job, observation_failed, setup, events>>,
         NEW j \in JobId, NEW p \in Process,
         NEW c \in MemberState \cup {Absent}, NEW o \in Observation \cup {Idle, Done},
         NEW u \in BOOLEAN,
         proc' = [proc EXCEPT ![j][p] = c],
         observer' = [observer EXCEPT ![j][p] = o],
         unreported' = [unreported EXCEPT ![j][p] = u],
         stops' \in [JobId -> [Process -> 0..setup.max_stops]],
         Linked(job[j].members[p], c, o, u, observation_failed[j], events, j, p)
  PROVE  ChildrenInv'
<1>1. ChildTypeOK'
  BY DEF ChildrenInv, ChildTypeOK
<1>2. ASSUME NEW k \in JobId, NEW q \in Process  PROVE Child(k, q)'
  <2>1. CASE k = j /\ q = p
    <3>1. proc'[k][q] = c /\ observer'[k][q] = o /\ unreported'[k][q] = u
      BY <2>1 DEF ChildrenInv, ChildTypeOK
    <3> QED
      BY <2>1, <3>1 DEF Child
  <2>2. CASE ~(k = j /\ q = p)
    <3>1. /\ proc'[k][q] = proc[k][q] /\ observer'[k][q] = observer[k][q]
          /\ unreported'[k][q] = unreported[k][q]
      BY <2>2 DEF ChildrenInv, ChildTypeOK
    <3> QED
      BY <3>1 DEF Child, ChildrenInv
  <2> QED
    BY <2>1, <2>2
<1> QED
  BY <1>1, <1>2 DEF ChildrenInv

\* A killed child has a status.
LEMMA KilledIsStatus == Killed \in Status
<1>1. \E st \in Status : st # Ok
  BY JobAssumption
<1> QED
  BY <1>1 DEF Killed

\* A child moves in the kernel.
LEMMA TransitionKeeps ==
  ASSUME ChildrenInv, UNCHANGED <<job, observation_failed, setup, events, observer>>,
         NEW j \in JobId, NEW p \in Process, proc[j][p] \in {Running} \cup Signal,
         NEW to \in MemberState, Transition(j, p, to),
         stops' \in [JobId -> [Process -> 0..setup.max_stops]]
  PROVE  ChildrenInv'
<1> DEFINE m == job[j].members[p]
           c == proc[j][p]
           o == observer[j][p]
           u == unreported[j][p]
           lost == observation_failed[j]
<1>1. Linked(m, c, o, u, lost, events, j, p)
  BY DEF ChildrenInv, Child
<1>2. observer' = [observer EXCEPT ![j][p] = o] /\ o \in Observation \cup {Idle, Done}
  BY DEF ChildrenInv, ChildTypeOK
<1>3. proc' = [proc EXCEPT ![j][p] = to] /\ unreported' = [unreported EXCEPT ![j][p] = TRUE]
  BY DEF Transition
<1>4. c \in {Running} \cup Signal
  OBVIOUS
<1> HIDE DEF m, c, o, u, lost
<1>5. Linked(m, to, o, TRUE, lost, events, j, p)
  BY <1>1, <1>4, LinkedMoved
<1> QED
  BY <1>2, <1>3, <1>5, OneChildSteps DEF m, lost

\* Every step of a child and of its observer keeps them linked to the table.
LEMMA ChildrenStep ==
  ASSUME TableInv, ChildrenInv, ChildNext, UNCHANGED <<job, observation_failed, setup>>
  PROVE  ChildrenInv'
<1>0. PICK j \in JobId, p \in Process :
        \/ \E st \in Status : ChildExits(j, p, st)
        \/ \E sig \in Signal : ChildStops(j, p, sig)
        \/ ChildContinuedElsewhere(j, p)
        \/ ChildKilledElsewhere(j, p)
        \/ ObserverWaits(j, p)
        \/ ObserverSends(j, p)
        \/ ObserverWaitFails(j, p)
  BY DEF ChildNext
<1>t. /\ proc \in [JobId -> [Process -> MemberState \cup {Absent}]]
      /\ unreported \in [JobId -> [Process -> BOOLEAN]]
      /\ stops \in [JobId -> [Process -> 0..setup.max_stops]]
      /\ observer \in [JobId -> [Process -> Observation \cup {Idle, Done}]]
      /\ events \in Seq(Event) /\ setup.max_stops \in Nat
  BY JobAssumption DEF ChildrenInv, ChildTypeOK, TableInv
<1> DEFINE m == job[j].members[p]
           c == proc[j][p]
           o == observer[j][p]
           u == unreported[j][p]
           lost == observation_failed[j]
<1>l. Linked(m, c, o, u, lost, events, j, p)
  BY DEF ChildrenInv, Child
<1>1. ASSUME NEW st \in Status, ChildExits(j, p, st)  PROVE ChildrenInv'
  BY <1>t, <1>1, TransitionKeeps DEF ChildExits, MemberState
<1>2. ASSUME NEW sig \in Signal, ChildStops(j, p, sig)  PROVE ChildrenInv'
  <2>1. stops' \in [JobId -> [Process -> 0..setup.max_stops]]
    BY <1>t, <1>2 DEF ChildStops
  <2> QED
    BY <1>2, <2>1, TransitionKeeps DEF ChildStops, MemberState
<1>3. CASE ChildContinuedElsewhere(j, p)
  BY <1>t, <1>3, TransitionKeeps DEF ChildContinuedElsewhere, MemberState
<1>4. CASE ChildKilledElsewhere(j, p)
  BY <1>t, <1>4, TransitionKeeps, KilledIsStatus DEF ChildKilledElsewhere, MemberState
<1>5. CASE ObserverWaits(j, p)
  <2>1. /\ o = Idle /\ u /\ observer' = [observer EXCEPT ![j][p] = c]
        /\ unreported' = [unreported EXCEPT ![j][p] = FALSE]
        /\ stops' = stops /\ events' = events
    BY <1>5 DEF ObserverWaits
  <2>2. proc' = [proc EXCEPT ![j][p] = c]
    BY <1>5, <1>t DEF ObserverWaits
  <2>3. c \in MemberState
    BY <1>l, <1>t, <2>1 DEF Linked
  <2>4. Linked(m, c, c, FALSE, lost, events, j, p)
    <3> HIDE DEF m, c, u, lost
    <3> QED
      BY <1>l, <2>1, <2>3, LinkedWaited
  <2> QED
    BY <1>t, <2>1, <2>2, <2>3, <2>4, OneChildSteps DEF Observation
<1>6. CASE ObserverSends(j, p)
  <2> DEFINE e == [job |-> j, process |-> p, seen |-> o]
             o2 == IF o \in Status \cup {Failed} THEN Done ELSE Idle
  <2>1. /\ o \in Observation /\ events' = Append(events, e)
        /\ observer' = [observer EXCEPT ![j][p] = o2]
        /\ UNCHANGED <<proc, unreported, stops>>
    BY <1>6 DEF ObserverSends, kernelVars
  <2>2. e \in Event /\ e.job = j /\ e.process = p
    BY <2>1 DEF Event
  <2>3. ChildTypeOK'
    <3>1. events' \in Seq(Event)
      BY <1>t, <2>1, <2>2
    <3>2. o2 \in Observation \cup {Idle, Done}
      OBVIOUS
    <3>3. observer' \in [JobId -> [Process -> Observation \cup {Idle, Done}]]
      BY <1>t, <2>1, <3>2
    <3> QED
      BY <1>t, <2>1, <3>1, <3>3 DEF ChildTypeOK
  <2>4. ASSUME NEW k \in JobId, NEW q \in Process  PROVE Child(k, q)'
    <3>1. CASE k = j /\ q = p
      <4>1. observer'[j][p] = o2
        BY <1>t, <2>1
      <4>2. Linked(m, c, o2, u, lost, events', j, p)
        <5>1. Linked(m, c, o2, u, lost, Append(events, e), j, p)
          <6> HIDE DEF m, c, u, lost, o
          <6> QED
            BY <1>l, <1>t, <2>1, LinkedSent
        <5> QED
          BY <2>1, <5>1
      <4> QED
        BY <2>1, <3>1, <4>1, <4>2 DEF Child
    <3>2. CASE ~(k = j /\ q = p)
      <4>1. observer'[k][q] = observer[k][q]
        BY <1>t, <2>1, <3>2
      <4> HIDE DEF e
      <4>2. Child(k, q)
        BY DEF ChildrenInv
      <4>3. Linked(job[k].members[q], proc[k][q], observer[k][q], unreported[k][q],
                   observation_failed[k], Append(events, e), k, q)
        BY <1>t, <2>2, <3>2, <4>2, LinkedBeside DEF Child
      <4> QED
        BY <2>1, <4>1, <4>3 DEF Child
    <3> QED
      BY <3>1, <3>2
  <2> QED
    BY <2>3, <2>4 DEF ChildrenInv
<1>7. CASE ObserverWaitFails(j, p)
  <2> DEFINE status == IF c \in Status THEN c ELSE Killed
  <2>1. /\ o = Idle /\ c \in MemberState /\ stops' = stops /\ events' = events
        /\ proc' = [proc EXCEPT ![j][p] = status]
    BY <1>7, <1>t DEF ObserverWaitFails
  <2>2. status \in Status
    BY KilledIsStatus
  <2> HIDE DEF status
  <2>3. /\ Linked(m, status, status, FALSE, lost, events, j, p)
        /\ Linked(m, status, Failed, FALSE, lost, events, j, p)
        /\ Linked(m, status, Failed, TRUE, lost, events, j, p)
    <3>1. Linked(m, c, Idle, u, lost, events, j, p) /\ c \in MemberState
      BY <1>l, <2>1
    <3> HIDE DEF m, c, u, lost, o
    <3>2. Linked(m, status, status, FALSE, lost, events, j, p)
      BY <2>2, <3>1, LinkedWaited
    <3>3. /\ Linked(m, status, Failed, FALSE, lost, events, j, p)
          /\ Linked(m, status, Failed, TRUE, lost, events, j, p)
      BY <2>2, <3>1, LinkedWaited
    <3> QED
      BY <3>2, <3>3
  <2>4. status \in MemberState \cup {Absent} /\ status \in Observation /\ Failed \in Observation
    BY <2>2 DEF MemberState, Observation
  <2>5. CASE /\ observer' = [observer EXCEPT ![j][p] = status]
             /\ unreported' = [unreported EXCEPT ![j][p] = FALSE]
    BY <1>t, <2>1, <2>3, <2>4, <2>5, OneChildSteps
  <2>6. CASE /\ observer' = [observer EXCEPT ![j][p] = Failed]
             /\ \/ unreported' = [unreported EXCEPT ![j][p] = FALSE]
                \/ unreported' = [unreported EXCEPT ![j][p] = TRUE]
    <3>1. CASE unreported' = [unreported EXCEPT ![j][p] = FALSE]
      BY <1>t, <2>1, <2>3, <2>4, <2>6, <3>1, OneChildSteps
    <3>2. CASE unreported' = [unreported EXCEPT ![j][p] = TRUE]
      BY <1>t, <2>1, <2>3, <2>4, <2>6, <3>2, OneChildSteps
    <3> QED
      BY <2>6, <3>1, <3>2
  <2>7. \/ /\ observer' = [observer EXCEPT ![j][p] = status]
           /\ unreported' = [unreported EXCEPT ![j][p] = FALSE]
        \/ /\ observer' = [observer EXCEPT ![j][p] = Failed]
           /\ \/ unreported' = [unreported EXCEPT ![j][p] = FALSE]
              \/ unreported' = [unreported EXCEPT ![j][p] = TRUE]
    BY <1>7 DEF ObserverWaitFails, status
  <2> QED
    BY <2>5, <2>6, <2>7
<1> QED
  BY <1>0, <1>1, <1>2, <1>3, <1>4, <1>5, <1>6, <1>7

\* A member is continued in the table; its child was not stopped any more, so
\* something is still on its way.
LEMMA LinkedContinued ==
  ASSUME NEW queue, NEW j, NEW p, NEW m \in Signal, NEW c, c \notin Signal, NEW o, NEW u, NEW lost,
         Linked(m, c, o, u, lost, queue, j, p)
  PROVE  Linked(Running, c, o, u, lost, queue, j, p)
<1>1. m # Absent /\ m # c /\ Running # Absent /\ Running \notin Status
  BY MemberStatesDistinct DEF Running, Absent
<1> QED
  BY <1>1 DEF Linked

\* A group signal, and what the table makes of it.
LEMMA GroupKeeps ==
  ASSUME ChildrenInv, UNCHANGED <<observation_failed, setup, events, observer, stops>>,
         NEW j, NEW affected \in SUBSET ({Running} \cup Signal), NEW to \in MemberState,
         SignalGroup(j, affected, to),
         \/ job' = job
         \/ /\ affected = Signal
            /\ \A k \in JobId, q \in Process :
                 job'[k].members[q] = IF k = j /\ job[k].members[q] \in Signal
                                        THEN Running ELSE job[k].members[q]
  PROVE  ChildrenInv'
<1>t. /\ proc \in [JobId -> [Process -> MemberState \cup {Absent}]]
      /\ unreported \in [JobId -> [Process -> BOOLEAN]]
  BY DEF ChildrenInv, ChildTypeOK
<1>1. /\ proc' = [proc EXCEPT ![j] = [p \in Process |-> IF proc[j][p] \in affected THEN to
                                                         ELSE proc[j][p]]]
      /\ unreported' = [unreported EXCEPT ![j] = [p \in Process |->
                           unreported[j][p] \/ proc[j][p] \in affected]]
  BY DEF SignalGroup
<1>2. /\ proc' \in [JobId -> [Process -> MemberState \cup {Absent}]]
      /\ unreported' \in [JobId -> [Process -> BOOLEAN]]
  BY <1>t, <1>1
<1>3. ChildTypeOK'
  BY <1>2 DEF ChildTypeOK, ChildrenInv
<1>4. ASSUME NEW k \in JobId, NEW q \in Process  PROVE Child(k, q)'
  <2> DEFINE m == job[k].members[q]
             c == proc[k][q]
             o == observer[k][q]
             u == unreported[k][q]
             lost == observation_failed[k]
  <2>1. Linked(m, c, o, u, lost, events, k, q)
    BY DEF ChildrenInv, Child
  <2>2. UNCHANGED <<observer, observation_failed, events>>
    OBVIOUS
  <2>3. CASE k = j /\ c \in affected
    <3>1. proc'[k][q] = to /\ unreported'[k][q] = TRUE /\ c \in {Running} \cup Signal
      BY <1>t, <1>1, <2>3
    <3>2. m \in MemberState \cup {Absent} => m \in {Running} \cup Signal
      <4>1. c # Absent /\ c \notin Status
        BY <3>1, MemberStatesDistinct DEF Running, Absent
      <4> QED
        BY <2>1, <4>1 DEF Linked, MemberState
    <3>3. job'[k].members[q] = m \/ (m \in Signal /\ job'[k].members[q] = Running)
      OBVIOUS
    <3> HIDE DEF m, c, o, u, lost
    <3>4. Linked(m, to, o, TRUE, lost, events, k, q)
      BY <2>1, <3>1, LinkedMoved
    <3>5. m \in Signal => Linked(Running, to, o, TRUE, lost, events, k, q)
      BY <2>1, <3>1, LinkedMoved
    <3> QED
      BY <2>2, <3>1, <3>3, <3>4, <3>5 DEF Child, o, lost
  <2>4. CASE ~(k = j /\ c \in affected)
    <3>1. proc'[k][q] = c /\ (unreported'[k][q] <=> u) /\ u \in BOOLEAN /\ unreported'[k][q] \in BOOLEAN
      <4>1. CASE k = j
        <5>1. c \notin affected /\ proc'[k][q] = (IF proc[j][q] \in affected THEN to ELSE proc[j][q])
              /\ unreported'[k][q] = (unreported[j][q] \/ proc[j][q] \in affected)
          BY <1>t, <1>1, <2>4, <4>1
        <5> QED
          BY <1>t, <1>2, <4>1, <5>1
      <4>2. CASE k # j
        BY <1>t, <1>1, <1>2, <4>2
      <4> QED
        BY <4>1, <4>2
    <3>2. unreported'[k][q] = u
      BY <3>1
    <3>3. job'[k].members[q] = m \/ (m \in Signal /\ c \notin Signal /\ job'[k].members[q] = Running)
      BY <2>4
    <3> HIDE DEF m, c, o, u, lost
    <3>4. m \in Signal /\ c \notin Signal => Linked(Running, c, o, u, lost, events, k, q)
      BY <2>1, LinkedContinued
    <3> QED
      BY <2>1, <2>2, <3>1, <3>2, <3>3, <3>4 DEF Child, o, lost
  <2> QED
    BY <2>3, <2>4
<1> QED
  BY <1>3, <1>4 DEF ChildrenInv

-----------------------------------------------------------------------------
(* Receiving an observation. *)

\* The observation at the front is about a published job and a member that has
\* not completed, so the table accepts it.
LEMMA HeadAccepted ==
  ASSUME TableInv, RecordsInv, ChildrenInv, events # <<>>
  PROVE  LET e == Head(events)
         IN  /\ e \in Event /\ e.job \in JobId /\ e.process \in Process /\ e.seen \in Observation
             /\ job[e.job].members[e.process] \in {Running} \cup Signal
             /\ job[e.job].state \in Published /\ e.job \in records
             /\ CanObserve(job[e.job], e.process)
<1> DEFINE e == Head(events)
           j == e.job
           p == e.process
<1>1. e \in Event /\ j \in JobId /\ p \in Process /\ e.seen \in Observation
  <2>1. e \in Event
    BY DEF TableInv
  <2> QED
    BY <2>1 DEF Event
<1>2. job[j].members[p] \notin Status \cup {Absent}
  <2>1. Child(j, p)
    BY <1>1 DEF ChildrenInv
  <2> QED
    BY <2>1, LinkedReceived DEF TableInv, Child
<1>3. job[j] \in Job
  BY <1>1 DEF TableInv
<1>4. job[j].members[p] \in {Running} \cup Signal
  BY <1>1, <1>2, <1>3 DEF Job, MemberState
<1>5. p \in Members(job[j])
  BY <1>1, <1>2 DEF Members
<1>6. job[j].state \in Published
  <2>1. Recorded(job[j], completion[j])
    BY <1>1 DEF RecordsInv
  <2> QED
    BY <1>2, <1>5, <2>1 DEF Recorded, AllCompleted
<1> QED
  BY <1>1, <1>4, <1>6 DEF CanObserve, records

\* The channel and the children after it.
LEMMA ReceiveChildren ==
  ASSUME TableInv, RecordsInv, ChildrenInv, receive, UNCHANGED setup
  PROVE  ChildrenInv'
<1> DEFINE e == Head(events)
           j == e.job
           p == e.process
<1>1. /\ e \in Event /\ j \in JobId /\ p \in Process /\ e.seen \in Observation
      /\ job[j].state \in Published /\ j \in records /\ CanObserve(job[j], p)
      /\ events # <<>> /\ events' = Tail(events) /\ events \in Seq(Event)
      /\ UNCHANGED <<proc, unreported, stops, observer>>
  BY HeadAccepted DEF receive, kernelVars, TableInv
<1>2. /\ job' = [job EXCEPT ![j] = IF e.seen # Failed THEN Observe(job[j], p, e.seen) ELSE job[j]]
      /\ observation_failed' = [observation_failed EXCEPT
           ![j] = observation_failed[j] \/ (e.seen = Failed /\ ~observation_failed[j])]
  BY <1>1 DEF receive, apply_observation
<1>3. JobOK(job[j])
  BY <1>1 DEF TableInv, RecordInv
<1>4. e.seen # Failed => e.seen \in MemberState
  BY <1>1 DEF Observation
<1>5. observation_failed' \in [JobId -> BOOLEAN]
  BY <1>1, <1>2 DEF ChildrenInv
<1>6. ChildTypeOK'
  BY <1>1 DEF ChildrenInv, ChildTypeOK
<1> HIDE DEF e, j, p
<1>7. ASSUME NEW k \in JobId, NEW q \in Process  PROVE Child(k, q)'
  <2> DEFINE m == job[k].members[q]
             c == proc[k][q]
             o == observer[k][q]
             u == unreported[k][q]
             lost == observation_failed[k]
  <2>1. Linked(m, c, o, u, lost, events, k, q)
    BY DEF ChildrenInv, Child
  <2>2. UNCHANGED <<proc, unreported, observer>>
    BY <1>1
  <2>3. CASE k = j /\ q = p
    <3>1. Head(events).job = k /\ Head(events).process = q
      BY <2>3 DEF e, j, p
    <3>2. CASE e.seen # Failed
      <4>1. Observe(job[j], p, e.seen).members = [job[j].members EXCEPT ![p] = e.seen]
        BY <1>1, <1>3, <1>4, <3>2, Observed
      <4>2. job'[k].members[q] = e.seen
        BY <1>1, <1>2, <1>3, <2>3, <3>2, <4>1 DEF TableInv, JobOK, Job
      <4>3. observation_failed'[k] = lost
        BY <1>1, <1>2, <2>3, <3>2 DEF ChildrenInv
      <4> HIDE DEF m, c, o, u, lost
      <4>4. Linked(e.seen, c, o, u, lost, events', k, q)
        BY <1>1, <2>1, <3>1, <3>2, LinkedReceived DEF e
      <4> QED
        BY <2>2, <4>2, <4>3, <4>4 DEF Child, c, o, u
    <3>3. CASE e.seen = Failed
      <4>1. job'[k].members[q] = m
        BY <1>1, <1>2, <2>3, <3>3 DEF TableInv
      <4>2. observation_failed'[k] = TRUE
        BY <1>1, <1>2, <2>3, <3>3 DEF ChildrenInv
      <4> HIDE DEF m, c, o, u, lost
      <4>3. Linked(m, c, o, u, TRUE, events', k, q)
        BY <1>1, <2>1, <3>1, <3>3, LinkedReceived DEF e
      <4> QED
        BY <2>2, <4>1, <4>2, <4>3 DEF Child, c, o, u
    <3> QED
      BY <3>2, <3>3
  <2>4. CASE ~(k = j /\ q = p)
    <3>1. ~(Head(events).job = k /\ Head(events).process = q)
      BY <2>4 DEF e, j, p
    <3>2. job'[k].members[q] = m
      <4>1. CASE e.seen # Failed /\ k = j
        <5>1. Observe(job[j], p, e.seen).members = [job[j].members EXCEPT ![p] = e.seen]
          BY <1>1, <1>3, <1>4, <4>1, Observed
        <5> QED
          BY <1>1, <1>2, <1>3, <2>4, <4>1, <5>1 DEF TableInv, JobOK, Job
      <4>2. CASE e.seen = Failed \/ k # j
        BY <1>1, <1>2, <4>2 DEF TableInv
      <4> QED
        BY <4>1, <4>2
    <3>3. observation_failed'[k] = lost \/ observation_failed'[k] = TRUE
      BY <1>1, <1>2 DEF ChildrenInv
    <3> HIDE DEF m, c, o, u, lost
    <3>4. Linked(m, c, o, u, lost, events', k, q)
      BY <1>1, <2>1, <3>1, LinkedPassed
    <3>5. Linked(m, c, o, u, TRUE, events', k, q)
      BY <3>4, LinkedLost
    <3> QED
      BY <2>2, <3>2, <3>3, <3>4, <3>5 DEF Child, c, o, u
  <2> QED
    BY <2>3, <2>4
<1> QED
  BY <1>5, <1>6, <1>7 DEF ChildrenInv

\* A record says the same after a step, whatever else the step changes.
LEMMA RecordedNext ==
  ASSUME UNCHANGED setup, NEW j, Recorded(job'[j], completion'[j])
  PROVE  Recorded(job[j], completion[j])'
BY DEF Recorded, Agrees

\* What an accepted observation does to the table.
LEMMA ReceiveTable ==
  ASSUME TableInv, QueueInv, RecordsInv, ChildrenInv, receive, UNCHANGED setup
  PROVE  /\ QueueInv' /\ RecordsInv'
         /\ \A k \in JobId :
              /\ k \in records' => k \in records
              /\ completion'[k] # completion[k] => completion[k] = None
              /\ observation_failed[k] => observation_failed'[k]
              /\ Live(k)' => Live(k)
<1> DEFINE e == Head(events)
           j == e.job
           p == e.process
           seen == e.seen
           old == job[j]
           new == IF seen # Failed THEN Observe(old, p, seen) ELSE old
<1>1. /\ j \in JobId /\ p \in Process /\ seen \in Observation
      /\ old.state \in Published /\ j \in records /\ CanObserve(old, p)
  BY HeadAccepted DEF receive
<1>2. /\ job' = [job EXCEPT ![j] = new]
      /\ completion' = [completion EXCEPT
           ![j] = IF new.state = "Completed" THEN AggregateStatus(new) ELSE completion[j]]
      /\ observation_failed' = [observation_failed EXCEPT
           ![j] = observation_failed[j] \/ (seen = Failed /\ ~observation_failed[j])]
  <2>1. old.state # "Completed"
    BY <1>1 DEF Published
  <2> QED
    BY <1>1, <2>1 DEF receive, apply_observation
<1>3. notices' =
        CASE new.state = "Completed"                          -> queue_notice(j, "Completed")
          [] old.state # "Stopped" /\ new.state = "Stopped"   -> queue_notice(j, "Stopped")
          [] seen = Failed /\ ~observation_failed[j]          -> queue_notice(j, "ObservationFailed")
          [] seen = Running                                   -> Without(notices, j, {"Stopped"})
          [] OTHER                                            -> notices
  <2>1. old.state # "Completed"
    BY <1>1 DEF Published
  <2>2. seen = Running => seen # Failed
    BY ObserverStatesDistinct DEF Failed, MemberState
  <2> QED
    BY <1>1, <2>1, <2>2, Zenon DEF receive, apply_observation
<1>4. JobOK(old) /\ old \in Job /\ notices \in Seq(Notice) /\ NoticesFor(notices, j, old)
      /\ Recorded(old, completion[j]) /\ completion[j] = None
  <2>1. JobOK(old) /\ notices \in Seq(Notice) /\ NoticesFor(notices, j, old)
        /\ Recorded(old, completion[j])
    BY <1>1 DEF TableInv, RecordInv, QueueInv, RecordsInv
  <2> QED
    BY <1>1, <2>1 DEF JobOK, Recorded, Published
<1>5. seen # Failed => seen \in MemberState
  BY <1>1 DEF Observation
<1>6. /\ JobOK(new) /\ new.state \in Published \cup {"Completed"}
      /\ new.state = "Completed" => new.notice /\ AllCompleted(new)
      /\ seen = Running => new.state \in Placement
      /\ seen # Running /\ old.state = "Stopped" => new.state \in {"Stopped", "Completed"}
      /\ new.state = "Stopped" => (new.notice <=> old.state # "Stopped" \/ old.notice)
      /\ Members(new) = Members(old)
  <2>1. CASE seen # Failed
    <3>1. new = Observe(old, p, seen)
      BY <2>1
    <3> HIDE DEF new, old, seen
    <3>2. /\ JobOK(new) /\ new.members = [old.members EXCEPT ![p] = seen]
          /\ new.state \in Published \cup {"Completed"}
          /\ new.state = "Completed" => new.notice /\ AllCompleted(new)
          /\ seen = Running => new.state \in Placement
          /\ seen # Running /\ old.state = "Stopped" => new.state \in {"Stopped", "Completed"}
          /\ new.state = "Stopped" => (new.notice <=> old.state # "Stopped" \/ old.notice)
      BY <1>1, <1>4, <1>5, <2>1, <3>1, Observed
    <3>3. Members(new) = Members(old)
      <4>1. seen # Absent /\ old.members[p] # Absent
        BY <1>1, <1>5, <2>1, MemberStatesDistinct DEF MemberState, CanObserve, Running, Absent
      <4> QED
        BY <1>1, <1>4, <3>2, <4>1 DEF Members, Job
    <3> QED
      BY <3>2, <3>3
  <2>2. CASE seen = Failed
    <3>1. new = old
      BY <2>2
    <3>2. seen # Running
      BY <2>2, ObserverStatesDistinct DEF Failed, MemberState
    <3>3. old.state # "Completed"
      BY <1>1 DEF Published
    <3> HIDE DEF new, old, seen
    <3> QED
      BY <1>1, <1>4, <3>1, <3>2, <3>3
  <2> QED
    BY <2>1, <2>2
<1> HIDE DEF new, old, seen, p, j, e
<1>7. \A k \in JobId : k # j => /\ job'[k] = job[k] /\ completion'[k] = completion[k]
                                /\ observation_failed'[k] = observation_failed[k]
  BY <1>1, <1>2 DEF TableInv, RecordsInv, ChildrenInv
<1>8. job'[j] = new /\ job[j] = old
  BY <1>1, <1>2 DEF TableInv, old
<1>9. Recorded(new, completion'[j]) /\ completion'[j] \in Status \cup {None}
  <2>1. /\ completion'[j] = IF new.state = "Completed" THEN AggregateStatus(new) ELSE completion[j]
        /\ IsFiniteSet(Members(new)) /\ Members(new) # {}
    BY <1>1, <1>2, <1>4, <1>6 DEF RecordsInv, Recorded, JobOK, AggregateAgreesIn
  <2>2. CASE new.state = "Completed"
    <3>1. AggregateStatus(new) \in Status /\ Agrees(AggregateStatus(new), new)
      BY <1>6, <2>1, <2>2, AggregateOf DEF JobOK
    <3>2. None \notin Status /\ completion'[j] = AggregateStatus(new)
      BY <2>1, <2>2, TableAssumption
    <3> QED
      BY <1>6, <2>1, <2>2, <3>1, <3>2 DEF Recorded
  <2>3. CASE new.state # "Completed"
    <3>1. new.state \in Published /\ completion'[j] = None
      BY <1>4, <1>6, <2>1, <2>3
    <3> QED
      BY <2>1, <3>1 DEF Recorded, Published
  <2> QED
    BY <2>2, <2>3
<1>10. ASSUME NEW k \in JobId  PROVE Recorded(job[k], completion[k])'
  <2>1. Recorded(job'[k], completion'[k])
    BY <1>7, <1>8, <1>9 DEF RecordsInv
  <2> QED
    BY <2>1, RecordedNext
<1>11. RecordsInv'
  BY <1>1, <1>2, <1>9, <1>10 DEF RecordsInv
<1>12. QueueInv'
  <2>1. ASSUME NEW kind \in {"Stopped", "Completed"}, new.state = kind, new.notice,
               notices' = queue_notice(j, kind)
        PROVE  QueueInv'
    <3> DEFINE rest == Without(notices, j, {"Stopped", "Completed"})
               n == [job |-> j, kind |-> kind]
    <3>1. notices' = Append(rest, n) /\ n \in Notice /\ n.job = j
      BY <1>1, <2>1 DEF queue_notice, Notice, NoticeKind
    <3>2. NoticesFor(Append(rest, n), j, new)
      BY <1>1, <1>4, <2>1, NoticesAnnounced
    <3>3. rest \in Seq(Notice)
      BY <1>4, OfWithout DEF NoticeKind
    <3>4. ASSUME NEW k \in JobId, k # j  PROVE NoticesFor(Append(rest, n), k, job[k])
      <4>1. NoticesFor(rest, k, job[k])
        BY <1>4, <3>4, OfWithout DEF QueueInv, NoticeKind
      <4> HIDE DEF rest, n
      <4> QED
        BY <3>1, <3>3, <3>4, <4>1, NoticesBeside
    <3>5. Append(rest, n) \in Seq(Notice)
      BY <3>1, <3>3
    <3> HIDE DEF rest, n
    <3> QED
      BY <1>7, <1>8, <3>1, <3>2, <3>4, <3>5 DEF QueueInv
  <2>0. seen = Failed => new = old /\ seen # Running /\ old.state \in Published
    BY <1>1, ObserverStatesDistinct DEF new, Failed, MemberState
  <2>2. CASE new.state = "Completed"
    <3>1. seen # Failed /\ seen # Running
      BY <1>6, <2>0, <2>2 DEF Published, Placement
    <3>2. notices' = queue_notice(j, "Completed")
      BY <1>3, <2>2, <3>1
    <3> QED
      BY <1>6, <2>1, <2>2, <3>2
  <2>3. CASE old.state # "Stopped" /\ new.state = "Stopped"
    <3>1. seen # Failed /\ seen # Running
      BY <1>6, <2>0, <2>3 DEF Placement
    <3>2. notices' = queue_notice(j, "Stopped")
      BY <1>3, <2>3, <3>1
    <3> QED
      BY <1>6, <2>1, <2>3, <3>2
  <2>4. CASE seen = Failed
    <3>1. new = old /\ old.state # "Completed" /\ new.state # "Completed"
          /\ ~(old.state # "Stopped" /\ new.state = "Stopped") /\ seen # Running
      BY <1>1, <2>4, ObserverStatesDistinct DEF new, Published, Failed, MemberState
    <3>2. CASE ~observation_failed[j]
      <4> DEFINE n == [job |-> j, kind |-> "ObservationFailed"]
      <4>1. notices' = Append(notices, n) /\ n \in Notice /\ n.job = j
        <5>1. notices' = queue_notice(j, "ObservationFailed")
          BY <1>3, <2>4, <3>1, <3>2
        <5> QED
          BY <1>1, <5>1 DEF queue_notice, Notice, NoticeKind
      <4>2. NoticesFor(Append(notices, n), j, new)
        BY <1>1, <1>4, <3>1, NoticesTold
      <4>3. \A k \in JobId : k # j => NoticesFor(Append(notices, n), k, job[k])
        BY <1>4, <4>1, NoticesBeside DEF QueueInv
      <4>4. Append(notices, n) \in Seq(Notice)
        BY <1>4, <4>1
      <4> HIDE DEF n
      <4> QED
        BY <1>7, <1>8, <4>1, <4>2, <4>3, <4>4 DEF QueueInv
    <3>3. CASE observation_failed[j]
      <4>1. notices' = notices
        BY <1>3, <2>4, <3>1, <3>3
      <4> QED
        BY <1>4, <1>7, <1>8, <3>1, <4>1 DEF QueueInv
    <3> QED
      BY <3>2, <3>3
  <2>5. CASE seen = Running
    <3>1. new.state \in Placement /\ seen # Failed
      BY <1>6, <2>5, ObserverStatesDistinct DEF Failed, MemberState
    <3>2. notices' = Without(notices, j, {"Stopped"})
      BY <1>3, <2>5, <3>1 DEF Placement
    <3>3. NoticesFor(notices', j, new)
      BY <1>1, <1>4, <3>1, <3>2, NoticesContinued DEF Published
    <3>4. notices' \in Seq(Notice) /\ \A k \in JobId : k # j => NoticesFor(notices', k, job[k])
      BY <1>4, <3>2, OfWithout DEF QueueInv, NoticeKind
    <3> QED
      BY <1>7, <1>8, <3>3, <3>4 DEF QueueInv
  <2>6. CASE /\ new.state # "Completed" /\ ~(old.state # "Stopped" /\ new.state = "Stopped")
             /\ seen # Failed /\ seen # Running
    <3>1. notices' = notices
      BY <1>3, <2>6
    <3>2. Stop(new) <=> Stop(old)
      BY <1>6, <2>6 DEF Stop
    <3>3. new.state \in Published /\ old.state # "Completed"
      BY <1>1, <1>6, <2>6 DEF Published
    <3>4. NoticesFor(notices, j, new)
      BY <1>4, <2>6, <3>2, <3>3, NoticesSame DEF Published
    <3> QED
      BY <1>4, <1>7, <1>8, <3>1, <3>4 DEF QueueInv
  <2> QED
    BY <2>2, <2>3, <2>4, <2>5, <2>6
<1>13. ASSUME NEW k \in JobId
       PROVE  /\ k \in records' => k \in records
              /\ completion'[k] # completion[k] => completion[k] = None
              /\ observation_failed[k] => observation_failed'[k]
              /\ Live(k)' => Live(k)
  <2>1. CASE k = j
    <3>1. observation_failed[k] => observation_failed'[k]
      BY <1>1, <1>2, <2>1 DEF ChildrenInv
    <3> QED
      BY <1>1, <1>4, <2>1, <3>1 DEF Live
  <2>2. CASE k # j
    BY <1>7, <2>2 DEF Live, records
  <2> QED
    BY <2>1, <2>2
<1> QED
  BY <1>11, <1>12, <1>13

-----------------------------------------------------------------------------
(* The other operations on the table. *)

\* A step that leaves the members, the children and the channel alone.
LEMMA MembersKept ==
  ASSUME ChildrenInv, UNCHANGED <<childVars, observation_failed, setup>>,
         \A k \in JobId : job'[k].members = job[k].members
  PROVE  ChildrenInv'
<1>1. ChildTypeOK'
  BY DEF ChildrenInv, ChildTypeOK, childVars, kernelVars
<1>2. ASSUME NEW k \in JobId, NEW q \in Process  PROVE Child(k, q)'
  BY DEF ChildrenInv, Child, childVars, kernelVars
<1> QED
  BY <1>1, <1>2 DEF ChildrenInv

\* A step that leaves the table and the children alone.
LEMMA NothingMoves ==
  ASSUME UNCHANGED <<childVars, tableVars, setup>>
  PROVE  /\ QueueInv => QueueInv'
         /\ RecordsInv => RecordsInv'
         /\ ChildrenInv => ChildrenInv'
<1>1. UNCHANGED <<job, completion, observation_failed, notices>>
  BY DEF tableVars
<1>2. ChildrenInv => ChildrenInv'
  BY <1>1, MembersKept
<1>3. QueueInv => QueueInv'
  BY <1>1 DEF QueueInv
<1>4. ASSUME RecordsInv  PROVE RecordsInv'
  <2>1. ASSUME NEW k \in JobId  PROVE Recorded(job[k], completion[k])'
    <3>1. Recorded(job'[k], completion'[k])
      BY <1>1, <1>4 DEF RecordsInv
    <3> QED
      BY <3>1, RecordedNext
  <2> QED
    BY <1>1, <1>4, <2>1 DEF RecordsInv
<1> QED
  BY <1>2, <1>3, <1>4

\* One record is replaced by one with the same completion.
LEMMA RecordReplaced ==
  ASSUME TableInv, RecordsInv, NEW j \in JobId, NEW new, job' = [job EXCEPT ![j] = new],
         Recorded(new, completion[j]), UNCHANGED <<completion, setup>>
  PROVE  /\ RecordsInv' /\ job'[j] = new
         /\ \A k \in JobId : k # j => job'[k] = job[k]
<1>1. job'[j] = new /\ \A k \in JobId : k # j => job'[k] = job[k]
  BY DEF TableInv
<1>2. ASSUME NEW k \in JobId  PROVE Recorded(job[k], completion[k])'
  <2>1. Recorded(job'[k], completion'[k])
    BY <1>1 DEF RecordsInv
  <2> QED
    BY <2>1, RecordedNext
<1> QED
  BY <1>1, <1>2 DEF RecordsInv

\* A delivered continue (`continue_job`).
LEMMA ContinueTable ==
  ASSUME TableInv, QueueInv, RecordsInv, ChildrenInv, NEW j, StaysStopped(j),
         NEW placement \in Placement, continue_job(j, placement), UNCHANGED setup
  PROVE  QueueInv' /\ RecordsInv' /\ ChildrenInv'
<1>1. /\ SignalGroup(j, Signal, Running)
      /\ job' = [job EXCEPT ![j] = ContinueIn(job[j], placement)]
      /\ notices' = Without(notices, j, {"Stopped"})
      /\ UNCHANGED <<stops, observer, events, completion, observation_failed>>
  BY DEF continue_job, ContinueGroup
<1>2. /\ notices' \in Seq(Notice)
      /\ \A k, r : k # j /\ NoticesFor(notices, k, r) => NoticesFor(notices', k, r)
  BY <1>1, OfWithout DEF QueueInv, NoticeKind
<1>3. CASE j \notin JobId
  <2>1. job' = job
    BY <1>1, <1>3 DEF TableInv
  <2>2. QueueInv'
    BY <1>2, <1>3, <2>1 DEF QueueInv
  <2>3. ASSUME NEW k \in JobId  PROVE Recorded(job[k], completion[k])'
    <3>1. Recorded(job'[k], completion'[k])
      BY <1>1, <2>1 DEF RecordsInv
    <3> QED
      BY <3>1, RecordedNext
  <2>4. ChildrenInv'
    BY <1>1, <2>1, GroupKeeps DEF MemberState
  <2> QED
    BY <1>1, <2>2, <2>3, <2>4 DEF RecordsInv
<1>4. CASE j \in JobId
  <2> DEFINE old == job[j]
             new == ContinueIn(old, placement)
  <2>1. old \in Job /\ old.state = "Stopped" /\ NoticesFor(notices, j, old)
        /\ Recorded(old, completion[j]) /\ notices \in Seq(Notice)
    BY <1>4 DEF StaysStopped, TableInv, QueueInv, RecordsInv
  <2>2. /\ new.state = placement
        /\ new.members = [p \in Process |-> IF old.members[p] \in Signal THEN Running
                                            ELSE old.members[p]]
    BY <2>1 DEF ContinueIn, Job
  <2>3. Members(new) = Members(old)
    BY <2>1, <2>2, MemberStatesDistinct DEF Members, Running, Absent
  <2>4. Recorded(new, completion[j])
    BY <2>1, <2>2, <2>3 DEF Recorded, Placement, Published
  <2>5. NoticesFor(notices', j, new)
    BY <1>1, <2>1, <2>2, NoticesContinued
  <2> HIDE DEF new
  <2>6. RecordsInv' /\ job'[j] = new /\ \A k \in JobId : k # j => job'[k] = job[k]
    <3>1. job' = [job EXCEPT ![j] = new]
      BY <1>1 DEF new
    <3> QED
      BY <1>1, <1>4, <2>4, <3>1, RecordReplaced
  <2>7. QueueInv'
    BY <1>2, <2>5, <2>6 DEF QueueInv
  <2>8. \A k \in JobId, q \in Process :
          job'[k].members[q] = IF k = j /\ job[k].members[q] \in Signal
                                 THEN Running ELSE job[k].members[q]
    BY <2>2, <2>6
  <2>9. ChildrenInv'
    BY <1>1, <2>8, GroupKeeps DEF MemberState
  <2> QED
    BY <2>6, <2>7, <2>9
<1> QED
  BY <1>3, <1>4

\* A published pipeline (`SpawnGroup` and `publish`), with the notices it starts with.
LEMMA PublishTable ==
  ASSUME TableInv, QueueInv, RecordsInv, ChildrenInv, next_job \in JobId,
         NEW members \in (SUBSET Process) \ {{}}, IsFiniteSet(members),
         NEW placement \in Placement,
         SpawnGroup(next_job, members), publish(next_job, members, placement),
         \/ notices' = notices
         \/ notices' = Append(notices, [job |-> next_job, kind |-> "Started"]),
         UNCHANGED <<completion, observation_failed, setup>>
  PROVE  QueueInv' /\ RecordsInv' /\ ChildrenInv'
<1> DEFINE j == next_job
           old == job[j]
           starting == [BeginStarting(NewJob) EXCEPT
              !.members = [p \in Process |-> IF p \in members THEN Running ELSE Absent]]
           new == FinishStarting(starting, placement)
<1>1. /\ starting \in Job /\ starting.state = "Starting" /\ ~starting.notice
      /\ starting.resume = NoPlacement
      /\ starting.members = [p \in Process |-> IF p \in members THEN Running ELSE Absent]
  BY DEF BeginStarting, NewJob, Job, JobState, NoPlacement, MemberState
<1>2. Members(starting) = members
  BY <1>1 DEF Members, Running, Absent
<1>3. JobOK(starting)
  BY <1>1 DEF JobOK, AggregateAgreesIn, NoticeMatchesIn, ResumeIsPlacementIn, Published, Placement
<1>4. JobOK(new)
  BY <1>1, <1>2, <1>3, FinishStartingOK DEF CanFinishStarting
<1>5. new.members = starting.members /\ new.state \in Published \cup {"Completed"}
  <2> DEFINE k == [starting EXCEPT !.placement = placement, !.state = placement]
  <2>1. k \in Job /\ k.state \in Published /\ k.placement \in Placement /\ ~k.notice
        /\ k.members = starting.members
    BY <1>1 DEF Job, JobState, Published, Placement
  <2>2. Members(k) # {}
    BY <1>2, <2>1 DEF Members
  <2>3. new = Reconcile(k)
    BY DEF FinishStarting
  <2> HIDE DEF k, new, starting
  <2> QED
    BY <2>1, <2>2, <2>3, ReconcileOK
<1>6. job' = [job EXCEPT ![j] = new]
  BY DEF publish
<1> HIDE DEF new, starting
<1>7. /\ new.members = [p \in Process |-> IF p \in members THEN Running ELSE Absent]
      /\ Members(new) = members /\ IsFiniteSet(Members(new)) /\ new.state \in Placement
  <2>1. new.members = [p \in Process |-> IF p \in members THEN Running ELSE Absent]
    BY <1>1, <1>5
  <2>2. Members(new) = members
    BY <2>1 DEF Members, Running, Absent
  <2>3. PICK p \in members : p \in Process
    OBVIOUS
  <2>4. p \in Members(new) /\ new.members[p] = Running /\ Running \notin Signal \cup Status
    BY <2>1, <2>2, <2>3, MemberStatesDistinct
  <2>5. ~AllCompleted(new) /\ ~AllLiveStopped(new)
    BY <2>4 DEF AllCompleted, AllLiveStopped
  <2>6. new.state \in Placement
    BY <1>4, <1>5, <2>5 DEF JobOK, AggregateAgreesIn, Published, Placement
  <2> QED
    BY <2>1, <2>2, <2>6
<1>8. j \in JobId /\ old.state = "Planned" /\ completion[j] = None /\ Members(old) = {}
      /\ NoticesFor(notices, j, old) /\ notices \in Seq(Notice)
  <2>1. j \in Nat
    BY DEF TableInv
  <2>2. old.state = "Planned"
    BY <2>1 DEF TableInv, RecordInv
  <2> QED
    BY <2>2 DEF RecordsInv, Recorded, QueueInv, Published
<1>9. RecordsInv' /\ job'[j] = new /\ \A k \in JobId : k # j => job'[k] = job[k]
  <2>1. Recorded(new, completion[j])
    BY <1>7, <1>8 DEF Recorded, Placement, Published
  <2> HIDE DEF j
  <2> QED
    BY <1>6, <1>8, <2>1, RecordReplaced
<1>10. QueueInv'
  <2>1. new.state \in Published /\ new.state # "Stopped" /\ new.state # "Completed"
        /\ new.state \notin {"Planned", "Reaped"} /\ ~Stop(new) /\ ~Stop(old)
    BY <1>7, <1>8 DEF Placement, Published, Stop
  <2>2. CASE notices' = notices
    <3>1. NoticesFor(notices, j, new)
      BY <1>8, <2>1, NoticesSame
    <3> QED
      BY <1>8, <1>9, <2>2, <3>1 DEF QueueInv
  <2>3. CASE notices' = Append(notices, [job |-> j, kind |-> "Started"])
    <3> DEFINE n == [job |-> j, kind |-> "Started"]
    <3>1. n \in Notice /\ n.job = j
      BY <1>8 DEF Notice, NoticeKind
    <3>2. NoticesFor(Append(notices, n), j, new)
      BY <1>8, <2>1, NoticesTold
    <3>3. \A k \in JobId : k # j => NoticesFor(Append(notices, n), k, job[k])
      BY <1>8, <3>1, NoticesBeside DEF QueueInv
    <3>4. Append(notices, n) \in Seq(Notice)
      BY <1>8, <3>1
    <3> HIDE DEF n
    <3> QED
      BY <1>9, <2>3, <3>2, <3>3, <3>4 DEF QueueInv, n
  <2> QED
    BY <2>2, <2>3
<1>11. ChildrenInv'
  <2>1. /\ proc' = [proc EXCEPT ![j] = [p \in Process |-> IF p \in members THEN Running
                                                          ELSE Absent]]
        /\ UNCHANGED <<unreported, stops, observer, events>>
    BY DEF SpawnGroup
  <2>2. ChildTypeOK'
    BY <2>1 DEF ChildrenInv, ChildTypeOK, MemberState
  <2>3. ASSUME NEW k \in JobId, NEW q \in Process  PROVE Child(k, q)'
    <3>1. CASE k # j
      <4>1. proc'[k] = proc[k] /\ job'[k] = job[k]
        BY <1>9, <2>1, <3>1 DEF ChildrenInv, ChildTypeOK
      <4> QED
        BY <2>1, <4>1 DEF ChildrenInv, Child
    <3>2. CASE k = j
      <4>1. job[k].members[q] = Absent
        BY <1>8, <3>2 DEF Members
      <4>2. Child(k, q)
        BY DEF ChildrenInv
      <4>3. ~unreported[k][q] /\ observer[k][q] = Idle /\ From(events, k, q) = {}
            /\ unreported[k][q] \in BOOLEAN
        BY <4>1, <4>2 DEF Child, Linked, ChildrenInv, ChildTypeOK
      <4>4. proc'[k][q] = (IF q \in members THEN Running ELSE Absent)
            /\ job'[k].members[q] = (IF q \in members THEN Running ELSE Absent)
        BY <1>7, <1>8, <1>9, <2>1, <3>2 DEF ChildrenInv, ChildTypeOK
      <4>5. Running \notin Status \cup {Absent} /\ Absent \notin Status
            /\ Idle \notin Terminal \cup {Done} /\ Idle \notin Status /\ Idle \notin Observation
        BY MemberStatesDistinct, ObserverStatesDistinct
        DEF Running, Absent, Terminal, Idle, Done, Failed, Observation, MemberState
      <4>6. \A lost : \A c \in {Running, Absent} :
              Linked(c, c, Idle, FALSE, lost, events, k, q)
        BY <4>3, <4>5 DEF Linked
      <4>7. unreported[k][q] = FALSE
        BY <4>3
      <4>8. Linked(job'[k].members[q], proc'[k][q], Idle, FALSE, observation_failed[k], events, k, q)
        BY <4>4, <4>6
      <4> QED
        BY <2>1, <4>3, <4>7, <4>8 DEF Child
    <3> QED
      BY <3>1, <3>2
  <2> QED
    BY <2>2, <2>3 DEF ChildrenInv
<1> QED
  BY <1>9, <1>10, <1>11

\* A running job is moved to the foreground.
LEMMA MoveTable ==
  ASSUME TableInv, QueueInv, RecordsInv, ChildrenInv, NEW j \in JobId,
         job[j].state \in Placement, job' = [job EXCEPT ![j] = MoveTo(job[j], "Foreground")],
         UNCHANGED <<childVars, completion, observation_failed, notices, setup>>
  PROVE  QueueInv' /\ RecordsInv' /\ ChildrenInv'
<1> DEFINE old == job[j]
           new == MoveTo(old, "Foreground")
<1>1. /\ old.state \in Placement /\ NoticesFor(notices, j, old) /\ Recorded(old, completion[j])
      /\ old \in Job
  BY DEF TableInv, QueueInv, RecordsInv
<1>2. new.state = "Foreground" /\ new.members = old.members
  BY <1>1 DEF MoveTo, Job
<1>3. Members(new) = Members(old)
  BY <1>2 DEF Members
<1> HIDE DEF new
<1>4. Recorded(new, completion[j])
  BY <1>1, <1>2, <1>3 DEF Recorded, Placement, Published
<1>5. RecordsInv' /\ job'[j] = new /\ \A k \in JobId : k # j => job'[k] = job[k]
  BY <1>4, RecordReplaced DEF new
<1>6. NoticesFor(notices, j, new)
  BY <1>1, <1>2, NoticesSame DEF Stop, Placement
<1>7. QueueInv'
  BY <1>5, <1>6 DEF QueueInv
<1>8. ChildrenInv'
  BY <1>2, <1>5, MembersKept
<1> QED
  BY <1>5, <1>7, <1>8

\* A notice is shown and acknowledged.
LEMMA AcknowledgeTable ==
  ASSUME TableInv, QueueInv, RecordsInv, ChildrenInv, acknowledge, UNCHANGED setup
  PROVE  /\ QueueInv' /\ RecordsInv' /\ ChildrenInv'
         /\ \A k \in JobId : (k \in records' => k \in records) /\ (Live(k)' => Live(k))
<1> DEFINE n == Head(notices)
           j == n.job
           old == job[j]
           new == Acknowledge(old, n.kind)
<1>1. /\ notices \in Seq(Notice) /\ notices # <<>> /\ notices' = Tail(notices)
      /\ job' = [job EXCEPT ![j] = new]
      /\ UNCHANGED <<childVars, completion, observation_failed, setup>>
  BY DEF acknowledge, QueueInv
<1>2. n \in Notice
  BY <1>1
<1>3. j \in JobId
  BY <1>2 DEF Notice
<1>4. old \in Job /\ NoticesFor(notices, j, old) /\ Recorded(old, completion[j])
  BY <1>3 DEF TableInv, QueueInv, RecordsInv
<1>5. NoticesFor(notices', j, new)
  BY <1>1, <1>4, NoticesShown
<1>6. /\ new.members = old.members
      /\ \/ new.state = old.state
         \/ old.state = "Completed" /\ new.state = "Reaped"
  <2>1. CASE n.kind = "Stopped" /\ CanAcknowledgeStopped(old)
    BY <1>4, <2>1 DEF Acknowledge, AcknowledgeStopped, Job
  <2>2. CASE n.kind = "Completed" /\ CanMarkNotified(old)
    BY <1>4, <2>2 DEF Acknowledge, MarkReaped, MarkNotified, CanMarkNotified, Job
  <2>3. CASE /\ ~(n.kind = "Stopped" /\ CanAcknowledgeStopped(old))
             /\ ~(n.kind = "Completed" /\ CanMarkNotified(old))
    <3>1. new = old
      BY <2>3 DEF Acknowledge
    <3> QED
      BY <3>1
  <2> QED
    BY <2>1, <2>2, <2>3
<1> HIDE DEF new, old, j, n
<1>7. Recorded(new, completion[j])
  <2>1. Members(new) = Members(old)
    BY <1>6 DEF Members
  <2> QED
    BY <1>4, <1>6, <2>1 DEF Recorded, AllCompleted, Agrees
<1>8. RecordsInv' /\ job'[j] = new /\ \A k \in JobId : k # j => job'[k] = job[k]
  BY <1>1, <1>3, <1>7, RecordReplaced
<1>9. QueueInv'
  <2>1. \A k \in JobId : k # j => NoticesFor(Tail(notices), k, job[k])
    BY <1>1, NoticesBeside DEF QueueInv, j, n
  <2>2. notices' \in Seq(Notice)
    BY <1>1
  <2> QED
    BY <1>1, <1>5, <1>8, <2>1, <2>2 DEF QueueInv
<1>10. ChildrenInv'
  <2>1. \A k \in JobId : job'[k].members = job[k].members
    BY <1>6, <1>8 DEF old
  <2> QED
    BY <1>1, <2>1, MembersKept
<1>11. \A k \in JobId : (k \in records' => k \in records) /\ (Live(k)' => Live(k))
  <2>1. \A k \in JobId : job'[k].state = job[k].state \/ (job[k].state = "Completed" /\ job'[k].state = "Reaped")
    BY <1>6, <1>8 DEF old
  <2> QED
    BY <1>1, <2>1 DEF Live, records, Published
<1> QED
  BY <1>8, <1>9, <1>10, <1>11

\* Waited completions leave the table with their notices.
LEMMA ConsumeTable ==
  ASSUME TableInv, QueueInv, RecordsInv, ChildrenInv, NEW js, consume_waited_completion(js),
         \A k \in js \cap JobId : completion[k] # None,
         UNCHANGED <<childVars, completion, observation_failed, setup>>
  PROVE  QueueInv' /\ RecordsInv' /\ ChildrenInv'
<1> DEFINE places == {i \in DOMAIN notices : notices[i].job \notin js}
<1>1. /\ notices' = Retained(notices, places)
      /\ job' = [k \in JobId |-> IF k \in js THEN MarkReaped(MarkNotified(job[k])) ELSE job[k]]
  BY DEF consume_waited_completion
<1>2. notices \in Seq(Notice) /\ places \in SUBSET DOMAIN notices
  BY DEF QueueInv
<1>3. notices' \in Seq(Notice)
  BY <1>1, <1>2, OfRetained
<1>4. ASSUME NEW k \in JobId, k \notin js
      PROVE  job'[k] = job[k] /\ NoticesFor(notices', k, job'[k])
  <2>1. job'[k] = job[k] /\ NoticesFor(notices, k, job[k])
    BY <1>1, <1>4 DEF QueueInv
  <2>2. Of(notices, k, NoticeKind) \subseteq places
    BY <1>4 DEF Of
  <2> HIDE DEF places
  <2> QED
    BY <1>1, <1>2, <2>1, <2>2, NoticesKept
<1>5. ASSUME NEW k \in JobId, k \in js
      PROVE  /\ job'[k].members = job[k].members /\ job'[k].state = "Reaped"
             /\ Recorded(job'[k], completion[k]) /\ NoticesFor(notices', k, job'[k])
  <2>1. Recorded(job[k], completion[k]) /\ job[k] \in Job /\ completion[k] # None
    BY <1>5 DEF RecordsInv, TableInv
  <2>2. job'[k].members = job[k].members /\ job'[k].state = "Reaped"
    BY <1>1, <1>5, <2>1 DEF MarkReaped, MarkNotified, Job
  <2>3. Members(job'[k]) = Members(job[k])
    BY <2>2 DEF Members
  <2>4. Recorded(job'[k], completion[k])
    BY <2>1, <2>2, <2>3 DEF Recorded, AllCompleted
  <2>5. Of(notices, k, NoticeKind) \cap places = {}
    BY <1>5 DEF Of
  <2> HIDE DEF places
  <2>6. Of(notices', k, NoticeKind) = {}
    BY <1>1, <1>2, <2>5, OfRetained
  <2> QED
    BY <2>2, <2>4, <2>6, NoticesDropped
<1>6. ASSUME NEW k \in JobId
      PROVE  /\ job'[k].members = job[k].members /\ NoticesFor(notices', k, job'[k])
             /\ Recorded(job[k], completion[k])'
  <2>1. Recorded(job'[k], completion'[k])
    BY <1>4, <1>5 DEF RecordsInv
  <2> QED
    BY <1>4, <1>5, <2>1, RecordedNext
<1>7. ChildrenInv'
  BY <1>6, MembersKept
<1> QED
  BY <1>3, <1>6, <1>7 DEF QueueInv, RecordsInv

\* A step that leaves the records and the queue alone.
LEMMA TableAlone ==
  ASSUME QueueInv, RecordsInv, UNCHANGED <<job, completion, notices, setup>>
  PROVE  QueueInv' /\ RecordsInv'
<1>1. QueueInv'
  BY DEF QueueInv
<1>2. ASSUME NEW k \in JobId  PROVE Recorded(job[k], completion[k])'
  <2>1. Recorded(job'[k], completion'[k])
    BY DEF RecordsInv
  <2> QED
    BY <2>1, RecordedNext
<1> QED
  BY <1>1, <1>2 DEF RecordsInv

\* A signal that only the kernel sees (`signal_group`).
LEMMA SignalChildren ==
  ASSUME ChildrenInv, UNCHANGED <<job, observation_failed, setup, events, observer>>, NEW j,
         ContinueGroup(j) \/ KillGroup(j) \/ StopGroup(j) \/ UNCHANGED kernelVars
  PROVE  ChildrenInv'
<1>1. CASE ContinueGroup(j)
  BY <1>1, GroupKeeps DEF ContinueGroup, MemberState
<1>2. CASE KillGroup(j)
  <2>1. Killed \in MemberState
    BY KilledIsStatus DEF MemberState
  <2> QED
    BY <1>2, <2>1, GroupKeeps DEF KillGroup
<1>3. CASE StopGroup(j)
  BY <1>3, GroupKeeps DEF StopGroup, MemberState
<1>4. CASE UNCHANGED kernelVars
  <2>1. UNCHANGED childVars
    BY <1>4 DEF childVars
  <2> QED
    BY <2>1, MembersKept
<1> QED
  BY <1>1, <1>2, <1>3, <1>4

\* A record is quarantined because its group is gone.
LEMMA QuarantineChildren ==
  ASSUME ChildrenInv, UNCHANGED <<childVars, job, setup>>, NEW j \in JobId,
         observation_failed' = [observation_failed EXCEPT ![j] = TRUE]
  PROVE  ChildrenInv'
<1>1. UNCHANGED <<proc, unreported, stops, observer, events>>
  BY DEF childVars, kernelVars
<1>2. ChildTypeOK' /\ observation_failed' \in [JobId -> BOOLEAN]
  BY <1>1 DEF ChildrenInv, ChildTypeOK
<1>3. ASSUME NEW k \in JobId, NEW q \in Process  PROVE Child(k, q)'
  <2>1. Child(k, q)
    BY DEF ChildrenInv
  <2>2. observation_failed'[k] = observation_failed[k] \/ observation_failed'[k] = TRUE
    BY DEF ChildrenInv
  <2>3. Linked(job[k].members[q], proc[k][q], observer[k][q], unreported[k][q], TRUE, events, k, q)
    BY <2>1, LinkedLost DEF Child
  <2> QED
    BY <1>1, <2>1, <2>2, <2>3 DEF Child
<1> QED
  BY <1>2, <1>3 DEF ChildrenInv

-----------------------------------------------------------------------------
(* The failures a session collects. *)

Distinct(list) == \A a, b \in DOMAIN list : list[a].job = list[b].job => a = b
Lists(list, j) == \E i \in DOMAIN list : list[i].job = j

\* Only allocated jobs are in the table, so there are finitely many.
LEMMA RecordsFinite ==
  ASSUME TableInv
  PROVE  IsFiniteSet(records) /\ records \in SUBSET Nat
<1>1. next_job \in Nat /\ JobId \subseteq Nat \ {0}
  BY JobAssumption DEF TableInv
<1>2. IsFiniteSet(1..next_job)
  BY <1>1, FS_Interval
<1>3. records \subseteq 1..next_job
  <2>1. ASSUME NEW j \in records  PROVE j \in 1..next_job
    <3>1. j \in JobId /\ job[j].state # "Planned"
      BY DEF records, Published
    <3>2. j < next_job
      BY <3>1, Allocated
    <3> QED
      BY <1>1, <3>1, <3>2
  <2> QED
    BY <2>1
<1>4. records \in SUBSET Nat
  BY <1>1 DEF records
<1>5. IsFiniteSet(records)
  BY <1>2, <1>3, FS_Subset
<1> QED
  BY <1>4, <1>5

\* What is collected: every record that failed, once.
LEMMA CollectedOf ==
  ASSUME TableInv, failures \in Seq(Failure), Distinct(failures)
  PROVE  /\ collect_failures \in Seq(Failure) /\ Distinct(collect_failures)
         /\ \A j \in records : observation_failed[j] \/ completion[j] \notin {None, Ok} =>
              Lists(collect_failures, j)
<1> DEFINE listed == {failures[i].job : i \in DOMAIN failures}
           more == {j \in records \ listed :
                      observation_failed[j] \/ completion[j] \notin {None, Ok}}
           order == InOrder(more)
           n == Cardinality(more)
           added == [i \in DOMAIN order |-> FailureOf(order[i])]
           all == failures \o added
<1>1. collect_failures = all
  BY DEF collect_failures
<1>2. IsFiniteSet(more) /\ more \in SUBSET Nat /\ more \subseteq JobId
  BY RecordsFinite, FS_Subset DEF records
<1>3. /\ n \in Nat /\ order \in [1..n -> more]
      /\ \A a, b \in 1..n : a < b => order[a] < order[b]
      /\ \A x \in more : \E a \in 1..n : order[a] = x
  BY <1>2, InOrderOf
<1>4. \A j \in JobId : FailureOf(j) \in Failure /\ FailureOf(j).job = j
  BY DEF FailureOf, Failure
<1> HIDE DEF order, n, more
<1>5. added \in Seq(Failure) /\ Len(added) = n /\ \A i \in 1..n : added[i].job = order[i]
  <2>1. DOMAIN order = 1..n /\ \A i \in 1..n : order[i] \in JobId
    BY <1>2, <1>3
  <2> QED
    BY <1>3, <1>4, <2>1
<1>6. /\ all \in Seq(Failure) /\ DOMAIN all = 1..(Len(failures) + n) /\ Len(failures) \in Nat
      /\ DOMAIN failures = 1..Len(failures)
      /\ \A i \in 1..Len(failures) : all[i] = failures[i]
      /\ \A i \in 1..n : all[Len(failures) + i] = added[i]
  <2> HIDE DEF added
  <2>1. Len(failures) \in Nat /\ DOMAIN failures = 1..Len(failures)
    OBVIOUS
  <2>2. /\ all \in Seq(Failure) /\ Len(all) = Len(failures) + Len(added)
        /\ \A i \in 1..Len(failures) + Len(added) :
             all[i] = IF i <= Len(failures) THEN failures[i] ELSE added[i - Len(failures)]
    BY <1>5, ConcatProperties
  <2>3. DOMAIN all = 1..Len(all)
    BY <2>2
  <2> HIDE DEF all
  <2>4. ASSUME NEW i \in 1..n
        PROVE  /\ Len(failures) + i \in 1..Len(failures) + Len(added)
               /\ ~(Len(failures) + i <= Len(failures)) /\ (Len(failures) + i) - Len(failures) = i
    BY <1>3, <1>5, <2>1
  <2>5. ASSUME NEW i \in 1..Len(failures)
        PROVE  i \in 1..Len(failures) + Len(added) /\ i <= Len(failures)
    BY <1>3, <1>5, <2>1
  <2>6. \A i \in 1..Len(failures) : all[i] = failures[i]
    BY <2>2, <2>5
  <2>7. \A i \in 1..n : all[Len(failures) + i] = added[i]
    BY <2>2, <2>4
  <2> QED
    BY <1>5, <2>1, <2>2, <2>3, <2>6, <2>7
<1> HIDE DEF added, all
<1>7. \A i \in 1..n : order[i] \in more /\ order[i] \in Nat /\ all[Len(failures) + i].job = order[i]
  BY <1>2, <1>3, <1>5, <1>6
<1>8. \A i \in 1..Len(failures) : all[i].job \in listed /\ all[i].job \notin more
  BY <1>6 DEF more
<1>9. ASSUME NEW a \in DOMAIN all, NEW b \in DOMAIN all, all[a].job = all[b].job
      PROVE  a = b
  <2> DEFINE first == 1..Len(failures)
  <2>1. \A x \in DOMAIN all : x \in first \/ \E i \in 1..n : x = Len(failures) + i
    <3>1. ASSUME NEW x \in DOMAIN all, x \notin first
          PROVE  x - Len(failures) \in 1..n /\ x = Len(failures) + (x - Len(failures))
      BY <1>3, <1>6, <3>1
    <3> QED
      BY <3>1
  <2>2. CASE a \in first /\ b \in first
    BY <1>6, <1>9, <2>2 DEF Distinct
  <2>3. CASE a \notin first /\ b \notin first
    <3>1. PICK i \in 1..n, k \in 1..n : a = Len(failures) + i /\ b = Len(failures) + k
      BY <2>1, <2>3
    <3>2. order[i] = order[k] /\ order[i] \in Nat /\ order[k] \in Nat
      BY <1>7, <1>9, <3>1
    <3>3. ~(i < k) /\ ~(k < i)
      BY <1>3, <3>2
    <3> QED
      BY <1>3, <3>1, <3>3
  <2>4. CASE a \in first /\ b \notin first
    <3>1. PICK k \in 1..n : b = Len(failures) + k
      BY <2>1, <2>4
    <3> QED
      BY <1>7, <1>8, <1>9, <2>4, <3>1
  <2>5. CASE a \notin first /\ b \in first
    <3>1. PICK k \in 1..n : a = Len(failures) + k
      BY <2>1, <2>5
    <3> QED
      BY <1>7, <1>8, <1>9, <2>5, <3>1
  <2> QED
    BY <2>2, <2>3, <2>4, <2>5
<1>10. ASSUME NEW j \in records, observation_failed[j] \/ completion[j] \notin {None, Ok}
       PROVE  Lists(all, j)
  <2>1. CASE j \in listed
    <3>1. PICK i \in 1..Len(failures) : failures[i].job = j
      BY <1>6, <2>1
    <3>2. i \in DOMAIN all /\ all[i].job = j
      BY <1>3, <1>6, <3>1
    <3> QED
      BY <3>2 DEF Lists
  <2>2. CASE j \notin listed
    <3>1. j \in more
      BY <1>10, <2>2 DEF more
    <3>2. PICK i \in 1..n : order[i] = j
      BY <1>3, <3>1
    <3>3. Len(failures) + i \in DOMAIN all
      BY <1>3, <1>6
    <3>4. all[Len(failures) + i].job = j
      BY <1>7, <3>2
    <3> QED
      BY <3>3, <3>4 DEF Lists
  <2> QED
    BY <2>1, <2>2
<1> QED
  BY <1>1, <1>6, <1>9, <1>10 DEF Distinct

\* Sorted by job, every job that is listed is listed once.
LEMMA SortedOf ==
  ASSUME NEW list \in Seq(Failure)
  PROVE  /\ SortedByJob(list) \in Seq(Failure) /\ Distinct(SortedByJob(list))
         /\ \A j : Lists(list, j) => Lists(SortedByJob(list), j)
<1> DEFINE js == {list[i].job : i \in DOMAIN list}
           jobs == InOrder(js)
           n == Cardinality(js)
           at(j) == {i \in DOMAIN list : list[i].job = j}
           first(j) == list[Least(at(j))]
           sorted == [i \in DOMAIN jobs |-> first(jobs[i])]
<1>1. SortedByJob(list) = sorted
  BY DEF SortedByJob
<1>2. DOMAIN list = 1..Len(list) /\ Len(list) \in Nat /\ \A i \in DOMAIN list : list[i] \in Failure
  OBVIOUS
<1>3. js \subseteq JobId /\ js \in SUBSET Nat /\ IsFiniteSet(js)
  <2> DEFINE f == [i \in DOMAIN list |-> list[i].job]
  <2>1. js \subseteq JobId /\ js \in SUBSET Nat
    BY <1>2, JobAssumption DEF Failure
  <2>2. f \in Surjection(DOMAIN list, js)
    BY DEF Surjection
  <2>3. IsFiniteSet(DOMAIN list)
    BY <1>2, FS_Interval
  <2> HIDE DEF f, js
  <2> QED
    BY <2>1, <2>2, <2>3, FS_Surjection
<1>4. /\ n \in Nat /\ jobs \in [1..n -> js]
      /\ \A a, b \in 1..n : a < b => jobs[a] < jobs[b]
      /\ \A x \in js : \E a \in 1..n : jobs[a] = x
  BY <1>3, InOrderOf
<1>5. ASSUME NEW j \in js  PROVE first(j) \in Failure /\ first(j).job = j
  <2>1. at(j) # {} /\ at(j) \in SUBSET Nat
    BY <1>2
  <2>2. Least(at(j)) \in at(j)
    BY <2>1, LeastOf
  <2> QED
    BY <1>2, <2>2
<1> HIDE DEF at, first, jobs, n, js
<1>6. sorted \in Seq(Failure) /\ DOMAIN sorted = 1..n /\ \A i \in 1..n : sorted[i].job = jobs[i]
  BY <1>4, <1>5
<1> HIDE DEF sorted
<1>7. ASSUME NEW a \in DOMAIN sorted, NEW b \in DOMAIN sorted, sorted[a].job = sorted[b].job
      PROVE  a = b
  <2>0. a \in 1..n /\ b \in 1..n /\ jobs[a] = jobs[b]
    BY <1>6, <1>7
  <2>3. jobs[a] \in js /\ jobs[b] \in js
    BY <1>4, <2>0
  <2>4. jobs[a] \in Nat /\ jobs[b] \in Nat
    BY <1>3, <2>3
  <2>1. jobs[a] = jobs[b] /\ jobs[a] \in Nat /\ jobs[b] \in Nat /\ a \in Nat /\ b \in Nat
    BY <1>4, <2>0, <2>4
  <2>2. ~(a < b) /\ ~(b < a)
    BY <1>4, <1>6, <2>1
  <2> QED
    BY <2>1, <2>2
<1>8. ASSUME NEW j, Lists(list, j)  PROVE Lists(sorted, j)
  <2>1. j \in js
    BY <1>8 DEF Lists, js
  <2> QED
    BY <1>4, <1>6, <2>1 DEF Lists
<1> QED
  BY <1>1, <1>6, <1>7, <1>8 DEF Distinct

-----------------------------------------------------------------------------
(* The session thread. *)

\* The whole table, its queue and the children.
ContentInv == QueueInv /\ RecordsInv /\ ChildrenInv

ThreadInv ==
  /\ session.at \in Labels /\ session.todo \subseteq JobId
  /\ session.job \in JobId \cup {Shell} /\ session.signal \in Signals

Leaving == {"resuming", "hangResuming", "hangUp"}
Over    == {"drain", "done"}

\* What has been collected on the way out, and what is left at the end.
ExitInv ==
  /\ failures \in Seq(Failure) /\ reported \in Seq(Failure) /\ Distinct(failures)
  /\ \A i \in DOMAIN failures : observation_failed[failures[i].job]
  /\ session.at \in Leaving => \A k \in session.todo : ~observation_failed[k]
  /\ session.at \notin Leaving => failures = <<>>
  /\ session.at \in Over =>
       /\ \A j \in JobId : ~Live(j)
       /\ \A j \in records : completion[j] = Ok \/ Lists(reported, j)
       /\ Distinct(reported)
  /\ session.at = "done" => \A j \in records : observation_failed[j]

\* Whose the terminal is, and to whom the guard would give it.
TerminalInv ==
  /\ tty \in [owner : JobId \cup {Shell}, refused : BOOLEAN]
  /\ session.previous \in JobId \cup {Shell}

FullInv == IInv /\ ContentInv /\ ThreadInv /\ ExitInv /\ TerminalInv

\* The thread back at its prompt.
LEMMA FinishThread ==
  ASSUME Finish
  PROVE  ThreadInv' /\ session'.at = "prompt"
BY DEF Finish, AtPrompt, ThreadInv, Labels, Signals

\* Nothing is collected before the session is left.
LEMMA NotLeaving ==
  ASSUME ExitInv, session.at \notin Leaving \cup Over, session'.at \notin Leaving \cup Over,
         UNCHANGED exitVars
  PROVE  ExitInv'
<1>1. failures = <<>> /\ failures' = <<>> /\ reported' = reported
  BY DEF ExitInv, exitVars
<1>2. session'.at # "done"
  BY DEF Over
<1>3. Distinct(failures)'
  BY <1>1 DEF Distinct
<1> QED
  BY <1>1, <1>2, <1>3 DEF ExitInv

\* A step that the exit path does not see.
LEMMA ExitKept ==
  ASSUME ExitInv, UNCHANGED <<job, completion, observation_failed, session, failures, reported>>
  PROVE  ExitInv'
<1>1. records' = records /\ \A j \in JobId : Live(j)' <=> Live(j)
  BY DEF records, Live
<1>2. Distinct(failures)' /\ (Distinct(reported) => Distinct(reported)')
      /\ \A j : Lists(reported, j) => Lists(reported, j)'
  BY DEF Distinct, Lists, ExitInv
<1> QED
  BY <1>1, <1>2 DEF ExitInv

\* A step of the session thread that touches neither table nor children.
LEMMA ContentKept ==
  ASSUME ContentInv, UNCHANGED <<childVars, tableVars, setup>>
  PROVE  ContentInv'
BY NothingMoves DEF ContentInv

\* A step of the children and the observers.
LEMMA ChildrenFull ==
  ASSUME FullInv, Children, UNCHANGED setup
  PROVE  ContentInv' /\ ThreadInv' /\ ExitInv'
<1>1. ChildNext
      /\ UNCHANGED <<job, completion, observation_failed, notices, session, failures, reported>>
  BY DEF Children, tableVars, exitVars
<1>2. QueueInv' /\ RecordsInv'
  BY <1>1, TableAlone DEF FullInv, ContentInv
<1>3. ChildrenInv'
  BY <1>1, ChildrenStep DEF FullInv, ContentInv, IInv
<1>4. ExitInv'
  BY <1>1, ExitKept DEF FullInv
<1>5. ThreadInv'
  BY <1>1 DEF FullInv, ThreadInv
<1> QED
  BY <1>2, <1>3, <1>4, <1>5 DEF ContentInv

\* Draining the channel and showing notices.
LEMMA DrainFull ==
  ASSUME FullInv, apply_pending_observations \/ Showing, UNCHANGED setup
  PROVE  ContentInv' /\ ThreadInv' /\ ExitInv'
<1>1. receive \/ acknowledge
  BY DEF apply_pending_observations, Showing, next_notice
<1>2. session' = session /\ UNCHANGED exitVars /\ session.at \in {"prompt", "drain"} \cup Draining
  BY DEF apply_pending_observations, Showing, next_notice, acknowledge, ShowsNotices
<1>3. TableInv /\ QueueInv /\ RecordsInv /\ ChildrenInv /\ ExitInv
  BY DEF FullInv, ContentInv, IInv
<1>4. /\ ContentInv'
      /\ \A k \in JobId : /\ k \in records' => k \in records
                          /\ completion'[k] # completion[k] => completion[k] = None
                          /\ Live(k)' => Live(k)
  <2>1. CASE receive
    BY <1>3, <2>1, ReceiveTable, ReceiveChildren DEF ContentInv
  <2>2. CASE acknowledge
    <3>1. completion' = completion
      BY <2>2 DEF acknowledge
    <3> QED
      BY <1>3, <2>2, <3>1, AcknowledgeTable DEF ContentInv
  <2> QED
    BY <1>1, <2>1, <2>2
<1>5. ThreadInv'
  BY <1>2 DEF FullInv, ThreadInv
<1>6. ExitInv'
  <2>1. CASE session.at = "drain"
    <3>1. failures = <<>> /\ failures' = <<>> /\ reported' = reported /\ session'.at = "drain"
      BY <1>2, <1>3, <2>1 DEF ExitInv, exitVars, Leaving
    <3>2. /\ \A j \in JobId : ~Live(j)'
          /\ Distinct(reported)' /\ Distinct(failures)'
      BY <1>3, <1>4, <2>1, <3>1 DEF ExitInv, Over, Distinct
    <3>3. ASSUME NEW j \in records'  PROVE completion'[j] = Ok \/ Lists(reported', j)
      <4>1. j \in JobId /\ j \in records
        BY <1>4 DEF records
      <4>2. completion[j] = Ok \/ Lists(reported, j)
        BY <1>3, <2>1, <4>1 DEF ExitInv, Over
      <4>3. Ok # None
        BY JobAssumption, TableAssumption
      <4> QED
        BY <1>4, <3>1, <4>1, <4>2, <4>3
    <3>4. \A j \in records' : completion'[j] = Ok \/ Lists(reported, j)'
      BY <3>1, <3>3 DEF Lists
    <3> QED
      BY <1>3, <3>1, <3>2, <3>4 DEF ExitInv, Over, Leaving
  <2>2. CASE session.at # "drain"
    BY <1>2, <1>3, <2>2, NotLeaving DEF Leaving, Over, Draining
  <2> QED
    BY <2>1, <2>2
<1> QED
  BY <1>4, <1>5, <1>6

\* What is asked at the prompt.
LEMMA AskedFull ==
  ASSUME FullInv, Asked, UNCHANGED setup
  PROVE  ContentInv' /\ ThreadInv' /\ ExitInv'
<1>1. TableInv /\ QueueInv /\ RecordsInv /\ ChildrenInv /\ ContentInv /\ ExitInv /\ ThreadInv
      /\ DOMAIN session = SessionFields
  BY DEF FullInv, ContentInv, IInv, SessionInv
<1>2. session.at = "prompt" /\ session.at \notin Leaving \cup Over
  BY DEF Asked, start, start_foreground, start_fails, begin_operation, join_background_jobs,
         hang_up_background_jobs, Leaving, Over
<1>3. setup \in Setups /\ next_job \in Nat
  BY <1>1 DEF TableInv
<1>4. ASSUME next_job \in setup.jobs, NEW members \in setup.pipelines
      PROVE  /\ next_job \in JobId /\ members \in (SUBSET Process) \ {{}} /\ IsFiniteSet(members)
  BY <1>3, <1>4, TableAssumption
<1>5. CASE start
  <2>1. PICK members \in setup.pipelines :
          SpawnGroup(next_job, members) /\ publish(next_job, members, "Background")
    BY <1>5 DEF start
  <2>2. next_job \in setup.jobs
        /\ notices' = Append(notices, [job |-> next_job, kind |-> "Started"])
        /\ UNCHANGED <<completion, observation_failed, setup>>
    BY <1>5 DEF start
  <2>3. UNCHANGED <<session, exitVars>>
    BY <1>5 DEF start
  <2>4. ContentInv'
    BY <1>1, <1>4, <2>1, <2>2, PublishTable DEF ContentInv, Placement
  <2> QED
    BY <1>1, <1>2, <2>3, <2>4, NotLeaving DEF ThreadInv
<1>6. CASE start_foreground
  <2>1. PICK members \in setup.pipelines :
          SpawnGroup(next_job, members) /\ publish(next_job, members, "Foreground")
    BY <1>6 DEF start_foreground
  <2>2. next_job \in setup.jobs /\ notices' = notices
        /\ UNCHANGED <<completion, observation_failed, setup>>
    BY <1>6 DEF start_foreground
  <2>3. enter_foreground("fgWait", next_job) /\ UNCHANGED exitVars
    BY <1>6 DEF start_foreground
  <2>4. ContentInv'
    BY <1>1, <1>4, <2>1, <2>2, PublishTable DEF ContentInv, Placement
  <2>5. ThreadInv' /\ session'.at = "fgWait"
    BY <1>1, <1>4, <2>1, <2>2, <2>3
    DEF enter_foreground, AtPrompt, ThreadInv, SessionFields, Labels, Signals
  <2> QED
    BY <1>1, <1>2, <2>3, <2>4, <2>5, NotLeaving DEF Leaving, Over
<1>7. CASE start_fails
  <2>1. UNCHANGED <<childVars, tableVars, session, exitVars>>
    BY <1>7 DEF start_fails
  <2> QED
    BY <1>1, <1>2, <2>1, ContentKept, NotLeaving DEF ThreadInv
<1>8. CASE begin_operation
  <2>1. UNCHANGED <<childVars, tableVars, exitVars>>
        /\ session' = [session EXCEPT !.at = "pending"]
    BY <1>8 DEF begin_operation, Goto
  <2>2. ThreadInv' /\ session'.at = "pending"
    BY <1>1, <2>1 DEF ThreadInv, SessionFields, Labels, Draining
  <2> QED
    BY <1>1, <1>2, <2>1, <2>2, ContentKept, NotLeaving DEF Leaving, Over
<1>9. CASE join_background_jobs \/ hang_up_background_jobs
  <2>1. UNCHANGED <<childVars, tableVars, exitVars>>
    BY <1>9 DEF join_background_jobs, hang_up_background_jobs
  <2>2. /\ session'.at \in {"resuming", "hangResuming"} /\ session'.todo = Unanswered
        /\ session'.job = session.job /\ session'.signal = session.signal
    BY <1>1, <1>9 DEF join_background_jobs, hang_up_background_jobs, SessionFields
  <2>3. ThreadInv'
    BY <1>1, <2>2 DEF ThreadInv, Labels, Unanswered
  <2>4. failures' = <<>> /\ reported' = reported /\ observation_failed' = observation_failed
    BY <1>1, <1>2, <2>1 DEF ExitInv, exitVars, tableVars
  <2>5. \A k \in Unanswered : ~observation_failed[k]
    BY DEF Unanswered, Live
  <2>6. Distinct(failures)' /\ session'.at \in Leaving /\ session'.at \notin Over
        /\ session'.at # "done"
    BY <2>2, <2>4 DEF Distinct, Leaving, Over
  <2>7. ExitInv'
    BY <1>1, <2>2, <2>4, <2>5, <2>6 DEF ExitInv
  <2> QED
    BY <1>1, <2>1, <2>3, <2>7, ContentKept
<1> QED
  BY <1>5, <1>6, <1>7, <1>8, <1>9 DEF Asked

\* `fg` and the wait for a foreground job.
LEMMA ForegroundFull ==
  ASSUME FullInv, UNCHANGED setup,
         \/ \E j \in Known : foreground_job(j)
         \/ foreground_continue \/ wait_for_foreground
  PROVE  ContentInv' /\ ThreadInv' /\ ExitInv'
<1>1. TableInv /\ QueueInv /\ RecordsInv /\ ChildrenInv /\ ContentInv /\ ExitInv /\ ThreadInv
      /\ DOMAIN session = SessionFields
  BY DEF FullInv, ContentInv, IInv, SessionInv
<1>2. session.at \in {"pending", "fgContinue", "fgWait"} /\ session.at \notin Leaving \cup Over
      /\ UNCHANGED exitVars
  BY DEF foreground_job, foreground_continue, wait_for_foreground, Drained, Leaving, Over
<1>3. ASSUME Finish  PROVE ThreadInv' /\ ExitInv'
  BY <1>1, <1>2, <1>3, FinishThread, NotLeaving DEF Leaving, Over
<1>4. ASSUME UNCHANGED session  PROVE ThreadInv' /\ ExitInv'
  BY <1>1, <1>2, <1>4, NotLeaving DEF ThreadInv
<1>5. ASSUME NEW j \in Known, foreground_job(j)  PROVE ContentInv' /\ ThreadInv' /\ ExitInv'
  <2>1. /\ j \in JobId /\ job[j].state \in {"Stopped", "Background"}
        /\ UNCHANGED <<childVars, completion, observation_failed, resume_requested, notices, setup>>
    BY <1>5 DEF foreground_job, Foregroundable, records
  <2>2. \/ enter_foreground("fgContinue", j) /\ UNCHANGED job
        \/ ~IsStopped(j) /\ enter_foreground("fgWait", j) /\ job' = [job EXCEPT ![j] = MoveTo(job[j], "Foreground")]
    BY <1>5 DEF foreground_job
  <2>3. ThreadInv' /\ session'.at \in {"fgContinue", "fgWait"}
    BY <2>1, <2>2 DEF enter_foreground, AtPrompt, ThreadInv, Labels, Signals
  <2>4. ExitInv'
    BY <1>1, <1>2, <2>3, NotLeaving DEF Leaving, Over
  <2>5. ContentInv'
    <3>1. CASE UNCHANGED job
      BY <1>1, <2>1, <3>1, ContentKept DEF tableVars
    <3>2. CASE ~IsStopped(j) /\ job' = [job EXCEPT ![j] = MoveTo(job[j], "Foreground")]
      BY <1>1, <2>1, <3>2, MoveTable DEF ContentInv, IsStopped, Placement
    <3> QED
      BY <2>2, <3>1, <3>2
  <2> QED
    BY <2>3, <2>4, <2>5
<1>6. CASE foreground_continue
  <2>1. session.at = "fgContinue" /\ StaysStopped(session.job)
    BY <1>6 DEF foreground_continue, FullInv, IInv, SessionInv
  <2>2. CASE continue_job(session.job, "Foreground") /\ Goto("fgWait")
    <3>1. ContentInv'
      BY <1>1, <2>1, <2>2, ContinueTable DEF ContentInv, Placement
    <3>2. ThreadInv' /\ session'.at = "fgWait"
      BY <1>1, <2>2 DEF Goto, ThreadInv, SessionFields, Labels
    <3> QED
      BY <1>1, <1>2, <3>1, <3>2, NotLeaving DEF Leaving, Over
  <2>3. CASE Finish /\ UNCHANGED <<childVars, tableVars>>
    BY <1>1, <1>3, <2>3, ContentKept
  <2> QED
    BY <1>6, <2>2, <2>3 DEF foreground_continue
<1>7. CASE wait_for_foreground
  <2>1. CASE receive /\ UNCHANGED session
    BY <1>1, <1>4, <2>1, ReceiveTable, ReceiveChildren DEF ContentInv
  <2>2. CASE Finish /\ UNCHANGED <<childVars, tableVars>>
    BY <1>1, <1>3, <2>2, ContentKept
  <2>3. CASE /\ completion[session.job] # None /\ consume_waited_completion({session.job})
             /\ Finish /\ UNCHANGED <<childVars, completion, observation_failed>>
    BY <1>1, <1>3, <2>3, ConsumeTable DEF ContentInv
  <2> QED
    BY <1>7, <2>1, <2>2, <2>3 DEF wait_for_foreground
<1> QED
  BY <1>5, <1>6, <1>7

\* A signal that the table does not record.
LEMMA SignalOnly ==
  ASSUME ContentInv, UNCHANGED <<tableVars, setup, events, observer>>, NEW j,
         ContinueGroup(j) \/ KillGroup(j) \/ StopGroup(j) \/ UNCHANGED kernelVars
  PROVE  ContentInv'
<1>1. UNCHANGED <<job, completion, observation_failed, notices>>
  BY DEF tableVars
<1>2. QueueInv' /\ RecordsInv'
  BY <1>1, TableAlone DEF ContentInv
<1>3. ChildrenInv'
  BY <1>1, SignalChildren DEF ContentInv
<1> QED
  BY <1>2, <1>3 DEF ContentInv

\* `signal_job` and the signals that follow.
LEMMA SignalFull ==
  ASSUME FullInv, UNCHANGED setup,
         \/ \E j \in Known, signal \in Signals, policy \in {"Reject", "Deliver"} :
              signal_job(j, signal, policy)
         \/ signal_continue \/ signal_deliver
  PROVE  ContentInv' /\ ThreadInv' /\ ExitInv'
<1>1. TableInv /\ QueueInv /\ RecordsInv /\ ChildrenInv /\ ContentInv /\ ExitInv /\ ThreadInv
      /\ DOMAIN session = SessionFields
  BY DEF FullInv, ContentInv, IInv, SessionInv
<1>2. session.at \notin Leaving \cup Over /\ UNCHANGED exitVars
  BY DEF signal_job, signal_continue, signal_deliver, Drained, Leaving, Over
<1>3. ASSUME Finish  PROVE ThreadInv' /\ ExitInv'
  BY <1>1, <1>2, <1>3, FinishThread, NotLeaving DEF Leaving, Over
<1>4. ASSUME NEW j \in Known, NEW signal \in Signals, NEW policy \in {"Reject", "Deliver"},
             signal_job(j, signal, policy)
      PROVE  ContentInv' /\ ThreadInv' /\ ExitInv'
  <2>1. j \in JobId /\ UNCHANGED <<childVars, tableVars>>
    BY <1>4 DEF signal_job, records
  <2>2. PICK label \in {"signalContinue", "signalDeliver"} :
          session' = [AtPrompt EXCEPT !.at = label, !.job = j, !.signal = signal]
    BY <1>4 DEF signal_job
  <2>3. ThreadInv' /\ session'.at \in {"signalContinue", "signalDeliver"}
    BY <2>1, <2>2 DEF AtPrompt, ThreadInv, Labels
  <2> QED
    BY <1>1, <1>2, <2>1, <2>3, ContentKept, NotLeaving DEF Leaving, Over
<1>5. CASE signal_continue
  <2>1. UNCHANGED <<tableVars, observer, events>>
    BY <1>5 DEF signal_continue
  <2>2. ContentInv'
    BY <1>1, <1>5, <2>1, SignalOnly DEF signal_continue
  <2>3. CASE Goto("signalDeliver")
    <3>1. ThreadInv' /\ session'.at = "signalDeliver"
      BY <1>1, <2>3 DEF Goto, ThreadInv, SessionFields, Labels
    <3> QED
      BY <1>1, <1>2, <2>2, <3>1, NotLeaving DEF Leaving, Over
  <2>4. CASE Finish
    BY <1>3, <2>2, <2>4
  <2> QED
    BY <1>5, <2>3, <2>4 DEF signal_continue
<1>6. CASE signal_deliver
  <2> DEFINE j == session.job
             effect == CASE session.signal = "Terminate" -> UNCHANGED kernelVars
                         [] session.signal = "Kill"      -> KillGroup(j)
                         [] session.signal = "Stop"      -> StopGroup(j)
                         [] session.signal = "Continue"  -> ContinueGroup(j)
  <2>1. /\ session.at = "signalDeliver" /\ Finish
        /\ \/ UNCHANGED <<childVars, tableVars>>
           \/ session.signal = "Continue" /\ ~observation_failed[j] /\ continue_job(j, "Background")
           \/ effect /\ UNCHANGED <<observer, events, tableVars>>
    BY <1>6 DEF signal_deliver
  <2>2. CASE UNCHANGED <<childVars, tableVars>>
    BY <1>1, <1>3, <2>1, <2>2, ContentKept
  <2>3. CASE session.signal = "Continue" /\ ~observation_failed[j] /\ continue_job(j, "Background")
    <3>1. StaysStopped(session.job)
      BY <2>1, <2>3 DEF FullInv, IInv, SessionInv
    <3> QED
      BY <1>1, <1>3, <2>1, <2>3, <3>1, ContinueTable DEF ContentInv, Placement
  <2>4. CASE effect /\ UNCHANGED <<observer, events, tableVars>>
    <3>1. session.signal \in {"Continue", "Terminate", "Kill", "Stop"}
      BY <1>1 DEF ThreadInv, Signals
    <3>2. ContinueGroup(j) \/ KillGroup(j) \/ StopGroup(j) \/ UNCHANGED kernelVars
      BY <2>4, <3>1
    <3> QED
      BY <1>1, <1>3, <2>1, <2>4, <3>2, SignalOnly
  <2> QED
    BY <2>1, <2>2, <2>3, <2>4
<1> QED
  BY <1>4, <1>5, <1>6

\* `wait_for_jobs` and its automatic resumes.
LEMMA WaitFull ==
  ASSUME FullInv, UNCHANGED setup,
         \/ \E written \in Targets : wait_for_jobs(written)
         \/ resume_wait_target \/ wait_signal \/ wait_deliver \/ wait_check
  PROVE  ContentInv' /\ ThreadInv' /\ ExitInv'
<1>1. TableInv /\ QueueInv /\ RecordsInv /\ ChildrenInv /\ ContentInv /\ ExitInv /\ ThreadInv
      /\ DOMAIN session = SessionFields
  BY DEF FullInv, ContentInv, IInv, SessionInv
<1>2. session.at \notin Leaving \cup Over /\ UNCHANGED exitVars
  BY DEF wait_for_jobs, resume_wait_target, wait_signal, wait_deliver, wait_check, Drained,
         Leaving, Over
<1>3. ASSUME Finish  PROVE ThreadInv' /\ ExitInv'
  BY <1>1, <1>2, <1>3, FinishThread, NotLeaving DEF Leaving, Over
<1>4. ASSUME NEW next \in {session, AtPrompt},
             NEW label \in {"waitCheck", "waitResume", "waitSignal", "waitDeliver"},
             session'.at = label, session'.todo = next.todo, session'.job = next.job,
             session'.signal = next.signal
      PROVE  ThreadInv' /\ ExitInv'
  <2>1. next.todo \subseteq JobId /\ next.job \in JobId \cup {Shell} /\ next.signal \in Signals
    BY <1>1, <1>4 DEF ThreadInv, AtPrompt, Signals
  <2>2. ThreadInv'
    BY <1>4, <2>1 DEF ThreadInv, Labels, Draining
  <2> QED
    BY <1>1, <1>2, <1>4, <2>2, NotLeaving DEF Leaving, Over
<1>5. ASSUME NextTarget  PROVE ThreadInv' /\ ExitInv'
  <2>1. CASE session' = [session EXCEPT !.at = "waitCheck", !.index = 0]
    <3>1. session'.at = "waitCheck" /\ session'.todo = session.todo /\ session'.job = session.job
          /\ session'.signal = session.signal
      BY <1>1, <2>1 DEF SessionFields
    <3> QED
      BY <1>4, <3>1
  <2>2. CASE session' = [session EXCEPT !.at = "waitResume", !.index = @ + 1]
    <3>1. session'.at = "waitResume" /\ session'.todo = session.todo /\ session'.job = session.job
          /\ session'.signal = session.signal
      BY <1>1, <2>2 DEF SessionFields
    <3> QED
      BY <1>4, <3>1
  <2> QED
    BY <1>5, <2>1, <2>2 DEF NextTarget
<1>6. ASSUME NEW written \in Targets, wait_for_jobs(written)
      PROVE  ContentInv' /\ ThreadInv' /\ ExitInv'
  <2>1. UNCHANGED <<childVars, tableVars>>
    BY <1>6 DEF wait_for_jobs
  <2>2. PICK selected :
          session' = [AtPrompt EXCEPT !.at = "waitResume", !.selected = selected, !.index = 1]
    BY <1>6 DEF wait_for_jobs
  <2>3. session'.at = "waitResume" /\ session'.todo = AtPrompt.todo /\ session'.job = AtPrompt.job
        /\ session'.signal = AtPrompt.signal
    BY <2>2 DEF AtPrompt
  <2> QED
    BY <1>1, <1>4, <2>1, <2>3, ContentKept, SMTT(40)
<1>7. CASE resume_wait_target
  <2>1. UNCHANGED <<childVars, tableVars>>
    BY <1>7 DEF resume_wait_target
  <2>2. \/ NextTarget \/ Finish
        \/ \E members : session' = [session EXCEPT !.at = "waitSignal", !.stopped = members]
    BY <1>7 DEF resume_wait_target
  <2>3. ASSUME NEW members, session' = [session EXCEPT !.at = "waitSignal", !.stopped = members]
        PROVE  ThreadInv' /\ ExitInv'
    <3>1. session'.at = "waitSignal" /\ session'.todo = session.todo /\ session'.job = session.job
          /\ session'.signal = session.signal
      BY <1>1, <2>3 DEF SessionFields
    <3> QED
      BY <1>4, <3>1
  <2> QED
    BY <1>1, <1>3, <1>5, <2>1, <2>2, <2>3, ContentKept, ZenonT(60)
<1>8. CASE wait_signal
  <2>1. UNCHANGED <<childVars, tableVars>> /\ (NextTarget \/ Finish \/ Goto("waitDeliver"))
    BY <1>8 DEF wait_signal
  <2>2. ASSUME Goto("waitDeliver")  PROVE ThreadInv' /\ ExitInv'
    <3>1. session'.at = "waitDeliver" /\ session'.todo = session.todo /\ session'.job = session.job
          /\ session'.signal = session.signal
      BY <1>1, <2>2, SMTT(40) DEF Goto, SessionFields
    <3> QED
      BY <1>4, <3>1
  <2> QED
    BY <1>1, <1>3, <1>5, <2>1, <2>2, ContentKept
<1>9. CASE wait_deliver
  <2> DEFINE j == session.selected[session.index]
  <2>1. StaysStopped(j)
    BY <1>9 DEF wait_deliver, FullInv, IInv, SessionInv
  <2>2. CASE /\ continue_job(j, "Background")
             /\ \E label \in {"waitCheck", "waitResume"} : \E next, counted :
                  session' = [session EXCEPT !.at = label, !.index = next,
                                             !.stopped = {}, !.resumes = counted]
    <3>1. ContentInv'
      BY <1>1, <2>1, <2>2, ContinueTable DEF ContentInv, Placement
    <3>2. session'.at \in {"waitCheck", "waitResume"} /\ session'.todo = session.todo
          /\ session'.job = session.job /\ session'.signal = session.signal
      BY <1>1, <2>2 DEF SessionFields
    <3> QED
      BY <1>4, <3>1, <3>2
  <2>3. CASE Finish /\ UNCHANGED <<childVars, tableVars>>
    BY <1>1, <1>3, <2>3, ContentKept, SMTT(40)
  <2> QED
    BY <1>9, <2>2, <2>3, ZenonT(60) DEF wait_deliver
<1>10. CASE wait_check
  <2>1. CASE /\ \A i \in DOMAIN session.selected : completion[session.selected[i]] # None
             /\ consume_waited_completion(Selected) /\ Finish
             /\ UNCHANGED <<childVars, completion, observation_failed>>
    <3>1. \A k \in Selected \cap JobId : completion[k] # None
      BY <2>1 DEF Selected
    <3> QED
      BY <1>1, <1>3, <2>1, <3>1, ConsumeTable DEF ContentInv
  <2>2. CASE Finish /\ UNCHANGED <<childVars, tableVars>>
    <3>1. ContentInv'
      BY <1>1, <2>2, ContentKept
    <3> QED
      BY <1>3, <2>2, <3>1
  <2>3. CASE receive /\ session' = [session EXCEPT !.at = "waitResume", !.index = 1]
    <3>1. session'.at = "waitResume" /\ session'.todo = session.todo /\ session'.job = session.job
          /\ session'.signal = session.signal
      BY <1>1, <2>3 DEF SessionFields
    <3>2. ContentInv'
      BY <1>1, <2>3, ReceiveTable, ReceiveChildren DEF ContentInv
    <3> QED
      BY <1>4, <3>1, <3>2
  <2> QED
    BY <1>10, <2>1, <2>2, <2>3 DEF wait_check
<1> QED
  BY <1>6, <1>7, <1>8, <1>9, <1>10

\* What is listed in the second of two lists is listed in both together.
LEMMA ListsBoth ==
  ASSUME NEW a \in Seq(Failure), NEW b \in Seq(Failure), NEW j, Lists(b, j)
  PROVE  a \o b \in Seq(Failure) /\ Lists(a \o b, j)
<1>1. PICK i \in DOMAIN b : b[i].job = j
  BY DEF Lists
<1>2. i \in 1..Len(b) /\ Len(a) \in Nat /\ Len(b) \in Nat
  OBVIOUS
<1>3. /\ a \o b \in Seq(Failure) /\ Len(a \o b) = Len(a) + Len(b)
      /\ \A k \in 1..Len(a) + Len(b) : (a \o b)[k] = IF k <= Len(a) THEN a[k] ELSE b[k - Len(a)]
  BY ConcatProperties
<1>4. DOMAIN (a \o b) = 1..Len(a \o b)
  BY <1>3
<1> DEFINE all == a \o b
<1> HIDE DEF all
<1>5. Len(a) + i \in 1..Len(a) + Len(b) /\ ~(Len(a) + i <= Len(a)) /\ (Len(a) + i) - Len(a) = i
  BY <1>2
<1>6. Len(a) + i \in DOMAIN all /\ all[Len(a) + i] = b[i]
  BY <1>3, <1>4, <1>5 DEF all
<1>7. Lists(all, j)
  BY <1>1, <1>6 DEF Lists
<1> QED
  BY <1>3, <1>7 DEF all

\* A job that is refused a signal on the way out is quarantined and listed.
LEMMA Quarantined ==
  ASSUME ChildrenInv, ExitInv, session.at \in Leaving, NEW j \in JobId, j \in session.todo,
         observation_failed' = [observation_failed EXCEPT ![j] = TRUE],
         failures' = Append(failures, [job |-> j, reason |-> "Signal"])
  PROVE  /\ failures' \in Seq(Failure) /\ Distinct(failures')
         /\ \A i \in DOMAIN failures' : observation_failed'[failures'[i].job]
         /\ \A k \in JobId : k # j => observation_failed'[k] = observation_failed[k]
<1> DEFINE new == [job |-> j, reason |-> "Signal"]
           n == Len(failures)
<1>1. new \in Failure /\ new.job = j
  BY DEF Failure
<1>2. failures \in Seq(Failure) /\ ~observation_failed[j]
  BY DEF ExitInv
<1>3. /\ n \in Nat /\ DOMAIN failures = 1..n
      /\ DOMAIN failures' = 1..(n + 1) /\ failures' \in Seq(Failure)
      /\ failures'[n + 1] = new
      /\ \A i \in 1..n : failures'[i] = failures[i]
  BY <1>1, <1>2
<1>4. observation_failed'[j] = TRUE
      /\ \A k \in JobId : k # j => observation_failed'[k] = observation_failed[k]
  BY DEF ChildrenInv
<1>5. ASSUME NEW i \in 1..n  PROVE failures'[i].job \in JobId /\ observation_failed[failures'[i].job]
  <2>1. failures[i] \in Failure
    BY <1>2, <1>3
  <2> QED
    BY <1>3, <2>1 DEF ExitInv, Failure
<1>6. \A i \in 1..(n + 1) : i \in 1..n \/ i = n + 1
  BY <1>3
<1> HIDE DEF new, n
<1>7. \A i \in DOMAIN failures' : observation_failed'[failures'[i].job]
  BY <1>1, <1>3, <1>4, <1>5, <1>6
<1>8. ASSUME NEW a \in DOMAIN failures', NEW b \in DOMAIN failures',
             failures'[a].job = failures'[b].job
      PROVE  a = b
  <2>1. CASE a \in 1..n /\ b \in 1..n
    BY <1>3, <1>8, <2>1 DEF ExitInv, Distinct
  <2>2. CASE a \in 1..n /\ b = n + 1
    BY <1>1, <1>2, <1>3, <1>5, <1>8, <2>2
  <2>3. CASE a = n + 1 /\ b \in 1..n
    BY <1>1, <1>2, <1>3, <1>5, <1>8, <2>3
  <2> QED
    BY <1>3, <1>6, <2>1, <2>2, <2>3
<1>9. Distinct(failures')
  BY <1>8 DEF Distinct
<1> QED
  BY <1>3, <1>4, <1>7, <1>9

\* One delivery on the way out: the job is signalled, or quarantined and listed.
LEMMA DeliveryFull ==
  ASSUME FullInv, session.at \in Leaving, NEW j \in JobId, j \in session.todo,
         \/ signal_or_quarantine(j, ContinueGroup(j))
         \/ signal_or_quarantine(j, UNCHANGED kernelVars),
         session' = [session EXCEPT !.todo = @ \ {j}],
         UNCHANGED <<observer, events, job, completion, notices, reported, setup>>
  PROVE  ContentInv' /\ ThreadInv' /\ ExitInv'
<1>1. QueueInv /\ RecordsInv /\ ChildrenInv /\ ExitInv /\ ThreadInv /\ DOMAIN session = SessionFields
  BY DEF FullInv, ContentInv, IInv, SessionInv
<1>2. QueueInv' /\ RecordsInv'
  BY <1>1, TableAlone
<1>3. /\ session'.at = session.at /\ session'.job = session.job /\ session'.signal = session.signal
      /\ session'.todo = session.todo \ {j}
  BY <1>1 DEF SessionFields
<1>4. ThreadInv'
  BY <1>1, <1>3 DEF ThreadInv
<1>5. session'.at \in Leaving /\ session'.at \notin Over /\ session'.at # "done"
  BY <1>3 DEF Leaving, Over
<1>6. CASE GroupExists(j)
  <2>1. /\ ContinueGroup(j) \/ UNCHANGED kernelVars
        /\ UNCHANGED <<observation_failed, failures>>
    BY <1>6 DEF signal_or_quarantine
  <2>2. ChildrenInv'
    BY <1>1, <2>1, SignalChildren
  <2>3. Distinct(failures)' /\ failures' = failures /\ observation_failed' = observation_failed
    BY <1>1, <2>1 DEF ExitInv, Distinct
  <2>4. ExitInv'
    BY <1>1, <1>3, <1>5, <2>3 DEF ExitInv
  <2> QED
    BY <1>2, <1>4, <2>2, <2>4 DEF ContentInv
<1>7. CASE ~GroupExists(j)
  <2>1. /\ observation_failed' = [observation_failed EXCEPT ![j] = TRUE]
        /\ failures' = Append(failures, [job |-> j, reason |-> "Signal"])
        /\ UNCHANGED kernelVars
    BY <1>7 DEF signal_or_quarantine
  <2>2. ChildrenInv'
    BY <1>1, <2>1, QuarantineChildren DEF childVars
  <2>3. /\ failures' \in Seq(Failure) /\ Distinct(failures')
        /\ \A i \in DOMAIN failures' : observation_failed'[failures'[i].job]
        /\ \A k \in JobId : k # j => observation_failed'[k] = observation_failed[k]
    BY <1>1, <2>1, Quarantined
  <2>4. Distinct(failures)'
    BY <2>3 DEF Distinct
  <2>5. \A k \in session'.todo : ~observation_failed'[k]
    BY <1>1, <1>3, <2>3 DEF ExitInv, ThreadInv
  <2>6. ExitInv'
    BY <1>1, <1>5, <2>3, <2>4, <2>5 DEF ExitInv
  <2> QED
    BY <1>2, <1>4, <2>2, <2>6 DEF ContentInv
<1> QED
  BY <1>6, <1>7

\* The end of a session.
LEMMA ExitFull ==
  ASSUME FullInv, UNCHANGED setup,
         \/ resume_stopped \/ hang_up_all \/ hang_up_next \/ wait_for_quiescence
         \/ drain_notices \/ end_operation
  PROVE  ContentInv' /\ ThreadInv' /\ ExitInv'
<1>1. TableInv /\ QueueInv /\ RecordsInv /\ ChildrenInv /\ ContentInv /\ ExitInv /\ ThreadInv
      /\ DOMAIN session = SessionFields
  BY DEF FullInv, ContentInv, IInv, SessionInv
<1>2. JobId \in SUBSET Nat /\ session.todo \in SUBSET Nat /\ session.todo \subseteq JobId
  BY <1>1, JobAssumption DEF ThreadInv
<1>3. CASE resume_stopped
  <2> DEFINE j == Least(session.todo)
  <2>1. /\ session.at \in {"resuming", "hangResuming"} /\ session.todo # {}
        /\ signal_or_quarantine(j, ContinueGroup(j))
        /\ session' = [session EXCEPT !.todo = @ \ {j}]
        /\ UNCHANGED <<observer, events, job, completion, notices, reported, setup>>
    BY <1>3 DEF resume_stopped
  <2>2. j \in session.todo /\ j \in JobId
    BY <1>2, <2>1, LeastOf
  <2> HIDE DEF j
  <2>3. session.at \in Leaving
    BY <2>1 DEF Leaving
  <2> QED
    BY <2>1, <2>2, <2>3, DeliveryFull
<1>4. CASE hang_up_all
  <2> DEFINE live == {j \in JobId : Live(j)}
  <2>1. /\ session.at = "hangResuming" /\ UNCHANGED <<childVars, tableVars, exitVars>>
        /\ session' = [session EXCEPT !.at = "hangUp", !.todo = live]
    BY <1>4 DEF hang_up_all
  <2>2. session'.at = "hangUp" /\ session'.todo = live /\ session'.job = session.job
        /\ session'.signal = session.signal
    BY <1>1, <2>1 DEF SessionFields
  <2>3. ThreadInv'
    BY <1>1, <2>2 DEF ThreadInv, Labels
  <2>4. UNCHANGED <<failures, reported, observation_failed>>
    BY <2>1 DEF exitVars, tableVars
  <2>5. \A k \in live : ~observation_failed[k]
    BY DEF Live
  <2>6. session.at \in Leaving /\ session'.at \in Leaving /\ session'.at \notin Over
        /\ Distinct(failures)'
    BY <1>1, <2>1, <2>2, <2>4 DEF Leaving, Over, ExitInv, Distinct
  <2> HIDE DEF live
  <2>7. ExitInv'
    BY <1>1, <2>2, <2>4, <2>5, <2>6 DEF ExitInv
  <2> QED
    BY <1>1, <2>1, <2>3, <2>7, ContentKept
<1>5. CASE hang_up_next
  <2>1. session.at = "hangUp"
        /\ UNCHANGED <<observer, events, job, completion, resume_requested, notices, setup>>
    BY <1>5 DEF hang_up_next
  <2>2. CASE session.todo = {}
    <3>1. /\ session' = [session EXCEPT !.at = "resuming", !.todo = Unanswered]
          /\ reported' = failures /\ failures' = <<>>
          /\ UNCHANGED <<kernelVars, observation_failed>>
      BY <1>5, <2>2 DEF hang_up_next
    <3>2. session'.at = "resuming" /\ session'.todo = Unanswered /\ session'.job = session.job
          /\ session'.signal = session.signal
      BY <1>1, <3>1 DEF SessionFields
    <3>3. ThreadInv'
      BY <1>1, <3>2 DEF ThreadInv, Labels, Draining, Unanswered
    <3>4. ContentInv'
      BY <1>1, <2>1, <3>1, ContentKept DEF childVars, tableVars
    <3>5. \A k \in Unanswered : ~observation_failed[k]
      BY DEF Unanswered, Live
    <3>6. session'.at \in Leaving /\ session'.at \notin Over /\ session'.at # "done"
          /\ Distinct(failures)'
      BY <3>1, <3>2 DEF Leaving, Over, Distinct
    <3>7. ExitInv'
      BY <1>1, <3>1, <3>2, <3>5, <3>6 DEF ExitInv
    <3> QED
      BY <3>3, <3>4, <3>7
  <2>3. CASE session.todo # {}
    <3> DEFINE j == Least(session.todo)
    <3>1. /\ signal_or_quarantine(j, UNCHANGED kernelVars)
          /\ session' = [session EXCEPT !.todo = @ \ {j}]
          /\ UNCHANGED reported
      BY <1>5, <2>3 DEF hang_up_next
    <3>2. j \in session.todo /\ j \in JobId
      BY <1>2, <2>3, LeastOf
    <3> HIDE DEF j
    <3>3. session.at \in Leaving
      BY <2>1 DEF Leaving
    <3> QED
      BY <2>1, <3>1, <3>2, <3>3, DeliveryFull
  <2> QED
    BY <2>2, <2>3
<1>6. CASE wait_for_quiescence
  <2>1. session.at = "resuming"
    BY <1>6 DEF wait_for_quiescence
  <2>2. CASE receive /\ session' = [session EXCEPT !.todo = Unanswered'] /\ UNCHANGED exitVars
    <3>1. session'.at = "resuming" /\ session'.todo = Unanswered' /\ session'.job = session.job
          /\ session'.signal = session.signal
      BY <1>1, <2>1, <2>2 DEF SessionFields
    <3>2. Unanswered' \subseteq JobId /\ \A k \in Unanswered' : ~observation_failed'[k]
      BY DEF Unanswered, Live
    <3>3. ThreadInv'
      BY <1>1, <3>1, <3>2 DEF ThreadInv, Labels, Draining
    <3>4. /\ ContentInv'
          /\ \A k \in JobId : observation_failed[k] => observation_failed'[k]
      BY <1>1, <2>2, ReceiveTable, ReceiveChildren DEF ContentInv
    <3>5. UNCHANGED <<failures, reported>>
      BY <2>2 DEF exitVars
    <3>6. \A i \in DOMAIN failures : failures[i].job \in JobId
      <4>1. failures \in Seq(Failure)
        BY <1>1 DEF ExitInv
      <4>2. \A i \in DOMAIN failures : failures[i] \in Failure
        BY <4>1
      <4> QED
        BY <4>2 DEF Failure
    <3>7. session'.at \in Leaving /\ session'.at \notin Over /\ session'.at # "done"
          /\ Distinct(failures)'
      BY <1>1, <3>1, <3>5 DEF Leaving, Over, Distinct, ExitInv
    <3>8. ExitInv'
      BY <1>1, <3>1, <3>2, <3>4, <3>5, <3>6, <3>7 DEF ExitInv
    <3> QED
      BY <3>3, <3>4, <3>8
  <2>3. CASE /\ \A j \in JobId : ~Live(j)
             /\ reported' = IF session.hanging THEN SortedByJob(reported \o collect_failures)
                            ELSE collect_failures
             /\ failures' = <<>>
             /\ Goto("drain")
             /\ UNCHANGED <<childVars, tableVars>>
    <3>1. session'.at = "drain" /\ session'.todo = session.todo /\ session'.job = session.job
          /\ session'.signal = session.signal
      BY <1>1, <2>3 DEF Goto, SessionFields
    <3>2. ThreadInv'
      BY <1>1, <3>1 DEF ThreadInv, Labels
    <3>3. UNCHANGED <<job, completion, observation_failed>> /\ records' = records
          /\ \A j \in JobId : ~Live(j)'
      BY <2>3 DEF tableVars, records, Live
    <3>4. /\ collect_failures \in Seq(Failure) /\ Distinct(collect_failures)
          /\ \A j \in records : observation_failed[j] \/ completion[j] \notin {None, Ok} =>
               Lists(collect_failures, j)
      BY <1>1, CollectedOf DEF ExitInv
    <3>5. ASSUME NEW j \in records, completion[j] # Ok  PROVE Lists(collect_failures, j)
      BY <2>3, <3>4, <3>5 DEF records, Live
    <3>6. reported' \in Seq(Failure) /\ Distinct(reported')
          /\ \A j \in records : completion[j] = Ok \/ Lists(reported', j)
      <4> DEFINE list == reported \o collect_failures
      <4>1. CASE session.hanging
        <5>1. reported' = SortedByJob(list)
          BY <2>3, <4>1
        <5>2. list \in Seq(Failure)
          BY <1>1, <3>4 DEF ExitInv
        <5>3. \A j \in records : completion[j] = Ok \/ Lists(list, j)
          BY <1>1, <3>4, <3>5, ListsBoth DEF ExitInv
        <5> HIDE DEF list
        <5> QED
          BY <5>1, <5>2, <5>3, SortedOf
      <4>2. CASE ~session.hanging
        BY <2>3, <3>4, <3>5, <4>2
      <4> QED
        BY <4>1, <4>2
    <3>7. Distinct(failures)' /\ Distinct(reported)'
          /\ \A j \in records' : completion'[j] = Ok \/ Lists(reported, j)'
      BY <2>3, <3>3, <3>6 DEF Distinct, Lists
    <3>8. session'.at \notin Leaving /\ session'.at # "done"
      BY <3>1 DEF Leaving
    <3>9. ExitInv'
      BY <2>3, <3>3, <3>6, <3>7, <3>8 DEF ExitInv
    <3> QED
      BY <1>1, <2>3, <3>2, <3>9, ContentKept
  <2> QED
    BY <1>6, <2>2, <2>3 DEF wait_for_quiescence
<1>7. CASE drain_notices
  <2>1. /\ session.at = "drain" /\ notices = <<>> /\ UNCHANGED <<childVars, tableVars, exitVars>>
        /\ session' = [session EXCEPT !.at = "done"]
    BY <1>7 DEF drain_notices, Drained, Goto
  <2>2. session'.at = "done" /\ session'.todo = session.todo /\ session'.job = session.job
        /\ session'.signal = session.signal
    BY <1>1, <2>1 DEF SessionFields
  <2>3. ThreadInv'
    BY <1>1, <2>2 DEF ThreadInv, Labels
  <2>4. UNCHANGED <<job, completion, observation_failed, failures, reported>>
    BY <2>1 DEF tableVars, exitVars
  <2>5. ASSUME NEW j \in records  PROVE observation_failed[j]
    <3>1. j \in JobId /\ NoticesFor(notices, j, job[j]) /\ Recorded(job[j], completion[j])
      BY <1>1 DEF records, QueueInv, RecordsInv
    <3>2. job[j].state # "Completed"
      BY <2>1, <3>1 DEF NoticesFor, Of
    <3>3. completion[j] = None
      BY <3>1, <3>2 DEF Recorded, records, Published
    <3> QED
      BY <1>1, <2>1, <3>1, <3>3 DEF ExitInv, Over, Live
  <2>6. records' = records /\ \A j \in JobId : Live(j)' <=> Live(j)
    BY <2>4 DEF records, Live
  <2>7. /\ Distinct(failures)' /\ (Distinct(reported) => Distinct(reported)')
        /\ \A j : Lists(reported, j) => Lists(reported, j)'
    BY <1>1, <2>4 DEF Distinct, Lists, ExitInv
  <2>8. session.at \in Over /\ session.at \notin Leaving /\ session'.at \notin Leaving
    BY <2>1, <2>2 DEF Over, Leaving
  <2>9. ExitInv'
    BY <1>1, <2>4, <2>5, <2>6, <2>7, <2>8 DEF ExitInv
  <2> QED
    BY <1>1, <2>1, <2>3, <2>9, ContentKept
<1>8. CASE end_operation
  <2>1. session.at = "pending" /\ Finish /\ UNCHANGED <<childVars, tableVars, exitVars>>
    BY <1>8 DEF end_operation, Drained
  <2>2. ThreadInv' /\ session'.at = "prompt"
    BY <2>1, FinishThread
  <2>3. ExitInv'
    BY <1>1, <2>1, <2>2, NotLeaving DEF Leaving, Over
  <2> QED
    BY <1>1, <2>1, <2>2, <2>3, ContentKept
<1> QED
  BY <1>3, <1>4, <1>5, <1>6, <1>7, <1>8

-----------------------------------------------------------------------------
(* The theorems. *)

\* All of it holds in a new session.
LEMMA InitFullInv == Init => FullInv
<1> SUFFICES ASSUME Init PROVE FullInv
  OBVIOUS
<1>1. IInv
  BY InitIInv
<1>2. /\ \A k \in JobId : job[k] = NewJob /\ completion[k] = None /\ observation_failed[k] = FALSE
      /\ notices = <<>> /\ session = AtPrompt /\ failures = <<>> /\ reported = <<>>
  BY DEF Init
<1>3. NewJob.state = "Planned" /\ NewJob.members = [p \in Process |-> Absent]
  BY DEF NewJob
<1>4. Members(NewJob) = {}
  BY <1>3 DEF Members
<1>5. QueueInv
  BY <1>2, <1>3 DEF QueueInv, NoticesFor, Of
<1>6. IsFiniteSet({})
  BY FS_EmptySet
<1>7. RecordsInv
  BY <1>2, <1>3, <1>4, <1>6 DEF Init, RecordsInv, Recorded
<1>8. setup \in Setups /\ setup.max_stops \in Nat
  BY JobAssumption DEF Init, ChildInit
<1>9. ChildTypeOK
  BY <1>8 DEF Init, ChildInit, ChildTypeOK
<1>10. ASSUME NEW j \in JobId, NEW p \in Process  PROVE Child(j, p)
  <2>1. /\ proc[j][p] = Absent /\ unreported[j][p] = FALSE /\ observer[j][p] = Idle
        /\ events = <<>> /\ job[j].members[p] = Absent
    BY <1>2, <1>3 DEF Init, ChildInit
  <2>2. Absent \notin Status /\ Idle \notin Observation \cup {Done} /\ Absent # Failed
    BY MemberStatesDistinct, ObserverStatesDistinct
    DEF Observation, MemberState, Absent, Idle, Failed, Done, Running
  <2> QED
    BY <2>1, <2>2 DEF Child, Linked, From, Terminal, Observation, MemberState
<1>11. ChildrenInv
  BY <1>9, <1>10 DEF Init, ChildrenInv
<1>12. session.at = "prompt" /\ ThreadInv
  BY <1>2 DEF AtPrompt, ThreadInv, Labels, Signals
<1>13. ExitInv
  BY <1>2, <1>12 DEF ExitInv, Distinct, Leaving, Over
<1>14. TerminalInv
  BY <1>2 DEF Init, AtPrompt, TerminalInv
<1> QED
  BY <1>1, <1>5, <1>7, <1>11, <1>12, <1>13, <1>14 DEF FullInv, ContentInv

\* Where the terminal goes in a step: to a job, back to the guard's owner, or nowhere.
LEMMA TerminalMoves ==
  ASSUME FullInv, Next
  PROVE  tty' = tty \/ restore \/ \E j \in JobId : \E label : enter_foreground(label, j)
<1>1. setup.jobs \subseteq JobId
  BY TableAssumption DEF FullInv, IInv, TableInv
<1>2. CASE start_foreground
  BY <1>1, <1>2 DEF start_foreground
<1>3. CASE wait_for_foreground \/ foreground_continue
  BY <1>3 DEF wait_for_foreground, foreground_continue
<1>4. ASSUME NEW j \in Known, foreground_job(j)  PROVE \E k \in JobId : \E label : enter_foreground(label, k)
  BY <1>4 DEF foreground_job, Foregroundable, records
<1>5. CASE Asked
  BY <1>2, <1>5 DEF Asked, start, start_fails, begin_operation, join_background_jobs,
     hang_up_background_jobs
<1>6. CASE Showing \/ Children \/ ended
  BY <1>6 DEF Showing, next_notice, acknowledge, Children, ended, vars
<1>7. CASE execute_job_builtin
  BY <1>4, <1>7 DEF execute_job_builtin, signal_job, wait_for_jobs
<1>8. CASE Working
  BY <1>3, <1>7, <1>8 DEF Working, apply_pending_observations, end_operation, signal_continue,
     signal_deliver, resume_wait_target, wait_signal, wait_deliver, wait_check, resume_stopped,
     hang_up_all, hang_up_next, wait_for_quiescence, drain_notices
<1> QED
  BY <1>5, <1>6, <1>8 DEF Next

\* What the guard remembers is the owner it found, until the thread is at its prompt.
LEMMA GuardRemembers ==
  ASSUME DOMAIN session = SessionFields, Next
  PROVE  session'.previous \in {session.previous, Shell, tty.owner}
<1>1. \A at : Goto(at) => session'.previous = session.previous
  BY DEF Goto, SessionFields
<1>2. Finish => session'.previous = Shell
  BY DEF Finish, AtPrompt
<1>3. \A label, j : enter_foreground(label, j) => session'.previous = tty.owner
  BY DEF enter_foreground, AtPrompt
<1>4. NextTarget => session'.previous = session.previous
  BY DEF NextTarget, SessionFields
<1>5. CASE Showing \/ Children \/ ended
  BY <1>5 DEF Showing, next_notice, acknowledge, Children, ended, vars
<1>6. CASE Asked
  BY <1>1, <1>3, <1>6 DEF Asked, start, start_foreground, start_fails, begin_operation,
     join_background_jobs, hang_up_background_jobs, SessionFields
<1>7. CASE execute_job_builtin
  BY <1>3, <1>7 DEF execute_job_builtin, foreground_job, signal_job, wait_for_jobs, AtPrompt
<1>8. CASE \/ apply_pending_observations \/ end_operation \/ wait_for_foreground
           \/ foreground_continue \/ signal_continue \/ signal_deliver
  BY <1>1, <1>2, <1>8 DEF apply_pending_observations, end_operation, wait_for_foreground,
     foreground_continue, signal_continue, signal_deliver
<1>9. CASE resume_wait_target \/ wait_signal \/ wait_deliver \/ wait_check
  BY <1>1, <1>2, <1>4, <1>9 DEF resume_wait_target, wait_signal, wait_deliver, wait_check,
     SessionFields
<1>10. CASE \/ resume_stopped \/ hang_up_all \/ hang_up_next \/ wait_for_quiescence
            \/ drain_notices
  BY <1>1, <1>10 DEF resume_stopped, hang_up_all, hang_up_next, wait_for_quiescence,
     drain_notices, SessionFields
<1> QED
  BY <1>5, <1>6, <1>7, <1>8, <1>9, <1>10 DEF Next, Working

\* So the terminal is always somebody's.
LEMMA TerminalFull ==
  ASSUME FullInv, [Next]_<<vars, setup>>
  PROVE  TerminalInv'
<1>1. CASE UNCHANGED <<vars, setup>>
  BY <1>1 DEF vars, FullInv, TerminalInv
<1>2. CASE Next
  <2>1. /\ tty \in [owner : JobId \cup {Shell}, refused : BOOLEAN]
        /\ session.previous \in JobId \cup {Shell}
    BY DEF FullInv, TerminalInv
  <2>2. session'.previous \in JobId \cup {Shell}
    BY <1>2, <2>1, GuardRemembers DEF FullInv, IInv, SessionInv
  <2>3. tty' \in [owner : JobId \cup {Shell}, refused : BOOLEAN]
    <3>1. CASE tty' = tty
      BY <2>1, <3>1
    <3>2. CASE restore
      <4>1. \E owner \in JobId \cup {Shell}, refused \in BOOLEAN :
              tty' = [owner |-> owner, refused |-> refused]
        BY <2>1, <3>2 DEF restore
      <4> QED
        BY <4>1
    <3>3. CASE \E j \in JobId : \E label : enter_foreground(label, j)
      BY <2>1, <3>3 DEF enter_foreground
    <3> QED
      BY <1>2, <3>1, <3>2, <3>3, TerminalMoves
  <2> QED
    BY <2>2, <2>3 DEF TerminalInv
<1> QED
  BY <1>1, <1>2

\* Every step keeps it.
LEMMA NextFullInv == FullInv /\ [Next]_<<vars, setup>> => FullInv'
<1> SUFFICES ASSUME FullInv, [Next]_<<vars, setup>> PROVE FullInv'
  OBVIOUS
<1>1. IInv' /\ TerminalInv'
  BY NextIInv, TerminalFull DEF FullInv
<1>2. CASE UNCHANGED <<vars, setup>>
  <2>1. UNCHANGED <<childVars, tableVars, setup>>
        /\ UNCHANGED <<job, completion, observation_failed, session, failures, reported>>
    BY <1>2 DEF vars, tableVars, exitVars
  <2>2. ContentInv'
    BY <2>1, ContentKept DEF FullInv
  <2>3. ExitInv'
    BY <2>1, ExitKept DEF FullInv
  <2>4. ThreadInv'
    BY <2>1 DEF FullInv, ThreadInv
  <2> QED
    BY <1>1, <2>2, <2>3, <2>4 DEF FullInv
<1>3. CASE Next
  <2>0. UNCHANGED setup
    BY <1>3 DEF Next
  <2>1. CASE Asked
    BY <1>1, <2>0, <2>1, AskedFull DEF FullInv
  <2>2. CASE Showing \/ apply_pending_observations
    BY <1>1, <2>0, <2>2, DrainFull DEF FullInv
  <2>3. CASE Children
    BY <1>1, <2>0, <2>3, ChildrenFull DEF FullInv
  <2>4. CASE ended
    BY <1>2, <2>0, <2>4 DEF ended
  <2>5. CASE Working
    <3>1. CASE foreground_continue \/ wait_for_foreground
      BY <1>1, <2>0, <3>1, ForegroundFull DEF FullInv
    <3>2. CASE signal_continue \/ signal_deliver
      BY <1>1, <2>0, <3>2, SignalFull DEF FullInv
    <3>3. CASE resume_wait_target \/ wait_signal \/ wait_deliver \/ wait_check
      BY <1>1, <2>0, <3>3, WaitFull DEF FullInv
    <3>4. CASE \/ resume_stopped \/ hang_up_all \/ hang_up_next \/ wait_for_quiescence
               \/ drain_notices \/ end_operation
      BY <1>1, <2>0, <3>4, ExitFull DEF FullInv
    <3>5. CASE execute_job_builtin
      <4>1. CASE \E j \in Known : foreground_job(j)
        BY <1>1, <2>0, <4>1, ForegroundFull DEF FullInv
      <4>2. CASE \E j \in Known : signal_job(j, "Continue", "Reject")
        BY <1>1, <2>0, <4>2, SignalFull DEF FullInv, Signals
      <4>3. CASE \E j \in Known, signal \in Signals \cap setup.commands :
                   signal_job(j, signal, "Deliver")
        BY <1>1, <2>0, <4>3, SignalFull DEF FullInv
      <4>4. CASE \E written \in Targets : wait_for_jobs(written)
        BY <1>1, <2>0, <4>4, WaitFull DEF FullInv
      <4> QED
        BY <3>5, <4>1, <4>2, <4>3, <4>4 DEF execute_job_builtin
    <3> QED
      BY <2>2, <2>5, <3>1, <3>2, <3>3, <3>4, <3>5 DEF Working
  <2> QED
    BY <1>3, <2>1, <2>2, <2>3, <2>4, <2>5 DEF Next
<1> QED
  BY <1>2, <1>3

\* The whole invariant holds of every session.
THEOREM FullInvariant == Spec => []FullInv
  BY InitFullInv, NextFullInv, PTL DEF Spec

\* Where there is at most one notice there is one or none.
LEMMA AtMostOne ==
  ASSUME NEW S, \A a, b \in S : a = b
  PROVE  Cardinality(S) = IF S = {} THEN 0 ELSE 1
<1>1. CASE S = {}
  BY <1>1, FS_EmptySet
<1>2. CASE S # {}
  <2>1. PICK x \in S : S = {x}
    BY <1>2
  <2>2. Cardinality({x}) = 1
    BY FS_Singleton
  <2> QED
    BY <2>1, <2>2
<1> QED
  BY <1>1, <1>2

\* A child that somebody has an observation of is a member that has not completed.
LEMMA OpenMember ==
  ASSUME FullInv, NEW j \in JobId, NEW p \in Process,
         proc[j][p] # Absent, job[j].members[p] \notin Status
  PROVE  j \in records /\ job[j].members[p] \in {Running} \cup Signal
<1>1. Child(j, p) /\ Recorded(job[j], completion[j]) /\ job[j] \in Job
  BY DEF FullInv, ContentInv, ChildrenInv, RecordsInv, IInv, TableInv
<1>2. job[j].members[p] # Absent /\ job[j].members[p] \in MemberState \cup {Absent}
  BY <1>1 DEF Child, Linked, Job
<1>3. p \in Members(job[j])
  BY <1>2 DEF Members
<1>4. job[j].state \in Published
  BY <1>1, <1>3 DEF Recorded, AllCompleted
<1> QED
  BY <1>2, <1>4 DEF records, MemberState

\* The parts of the table agree.
LEMMA FullConsistent == FullInv => TableConsistent
<1> SUFFICES ASSUME FullInv PROVE TableConsistent
  OBVIOUS
<1>1. TableInv /\ TerminalInv /\ QueueInv /\ RecordsInv /\ ChildrenInv /\ ThreadInv /\ ExitInv
  BY DEF FullInv, ContentInv, IInv
<1>2. TypeOK
  BY <1>1 DEF TypeOK, TableInv, TerminalInv, QueueInv, RecordsInv, ChildrenInv, ThreadInv,
              ExitInv
<1>3. NoticeQueueAgrees
  <2> SUFFICES ASSUME NEW j \in JobId
               PROVE  /\ Cardinality(NoticesOf(j, {"Stopped"})) =
                           (IF j \in records /\ IsStopped(j) /\ job[j].notice THEN 1 ELSE 0)
                      /\ Cardinality(NoticesOf(j, {"Completed"})) =
                           (IF job[j].state = "Completed" THEN 1 ELSE 0)
                      /\ j \notin records => NoticesOf(j, NoticeKind) = {}
    BY DEF NoticeQueueAgrees
  <2>1. NoticesFor(notices, j, job[j]) /\ Recorded(job[j], completion[j])
    BY <1>1 DEF QueueInv, RecordsInv
  <2>2. \A kinds : NoticesOf(j, kinds) = Of(notices, j, kinds)
    BY DEF NoticesOf, Of
  <2>3. \A kind \in {"Stopped", "Completed"} :
          Cardinality(NoticesOf(j, {kind})) = IF NoticesOf(j, {kind}) = {} THEN 0 ELSE 1
    <3>1. ASSUME NEW kind \in {"Stopped", "Completed"}
          PROVE  \A a, b \in NoticesOf(j, {kind}) : a = b
      BY <2>1, <2>2 DEF NoticesFor
    <3> QED
      BY <3>1, AtMostOne
  <2>4. IsStopped(j) => j \in records
    BY DEF IsStopped, records, Published
  <2>5. Cardinality(NoticesOf(j, {"Stopped"})) =
          (IF j \in records /\ IsStopped(j) /\ job[j].notice THEN 1 ELSE 0)
    <3>1. NoticesOf(j, {"Stopped"}) # {} <=> IsStopped(j) /\ job[j].notice
      BY <2>1, <2>2 DEF NoticesFor, IsStopped
    <3> QED
      BY <2>3, <2>4, <3>1
  <2>6. Cardinality(NoticesOf(j, {"Completed"})) = (IF job[j].state = "Completed" THEN 1 ELSE 0)
    <3>1. NoticesOf(j, {"Completed"}) # {} <=> job[j].state = "Completed"
      BY <2>1, <2>2 DEF NoticesFor
    <3> QED
      BY <2>3, <3>1
  <2>7. j \notin records => NoticesOf(j, NoticeKind) = {}
    BY <2>1, <2>2 DEF NoticesFor, Recorded, records
  <2> QED
    BY <2>5, <2>6, <2>7
<1>4. CompletionAgrees
  <2> SUFFICES ASSUME NEW j \in records
               PROVE  /\ completion[j] # None <=> job[j].state = "Completed"
                      /\ completion[j] # None =>
                           (completion[j] = Ok <=>
                              \A p \in Members(job[j]) :
                                setup.pipefail \/ (\A q \in Members(job[j]) : q <= p) =>
                                  job[j].members[p] = Ok)
    BY DEF CompletionAgrees
  <2>1. Recorded(job[j], completion[j]) /\ job[j].state # "Reaped"
    BY <1>1 DEF RecordsInv, records, Published
  <2> QED
    BY <2>1 DEF Recorded, Agrees
<1>5. EveryObservationCounts
  <2>1. ASSUME NEW i \in DOMAIN events
        PROVE  /\ events[i].job \in records
               /\ job[events[i].job].members[events[i].process] \in {Running} \cup Signal
    <3>1. events[i] \in Event
      BY <1>1 DEF TableInv
    <3>2. events[i].job \in JobId /\ events[i].process \in Process
      BY <3>1 DEF Event
    <3>3. Child(events[i].job, events[i].process)
          /\ i \in From(events, events[i].job, events[i].process)
      BY <1>1, <3>2 DEF ChildrenInv, From
    <3>4. /\ proc[events[i].job][events[i].process] # Absent
          /\ job[events[i].job].members[events[i].process] \notin Status
      BY <3>3 DEF Child, Linked
    <3> QED
      BY <3>2, <3>4, OpenMember
  <2>2. ASSUME NEW j \in JobId, NEW p \in Process, observer[j][p] \in Observation
        PROVE  j \in records /\ job[j].members[p] \in {Running} \cup Signal
    <3>1. Child(j, p) /\ observer[j][p] \notin {Idle, Done}
      BY <1>1, <2>2, ObserverStatesDistinct
      DEF ChildrenInv, Observation, MemberState, Idle, Done, Failed
    <3>2. proc[j][p] # Absent /\ job[j].members[p] \notin Status
      BY <3>1 DEF Child, Linked
    <3> QED
      BY <3>2, OpenMember
  <2> QED
    BY <2>1, <2>2 DEF EveryObservationCounts
<1> QED
  BY <1>2, <1>3, <1>4, <1>5 DEF TableConsistent

\* What is quiet has converged, and the end leaves nothing.
LEMMA FullSettles == FullInv => TableSettles
<1> SUFFICES ASSUME FullInv PROVE TableSettles
  OBVIOUS
<1>1. TableInv /\ RecordsInv /\ ChildrenInv /\ ExitInv
  BY DEF FullInv, ContentInv, IInv
<1>2. ViewConverges
  <2>1. ASSUME NEW j \in records, NEW p \in Process, Quiet(j, p), ~observation_failed[j]
        PROVE  job[j].members[p] = proc[j][p]
    <3>1. Child(j, p) /\ From(events, j, p) = {}
      BY <1>1, <2>1 DEF ChildrenInv, records, Quiet, From
    <3> QED
      BY <2>1, <3>1 DEF Child, Linked, Quiet
  <2> QED
    BY <2>1 DEF ViewConverges
<1>3. EndLeavesNothing
  <2> SUFFICES ASSUME session.at = "done"
               PROVE  /\ \A j \in JobId :
                           \/ observation_failed[j]
                           \/ j \notin records /\ \A p \in Process : proc[j][p] = Absent \/ Waited(j, p)
                      /\ \A a, b \in DOMAIN reported : reported[a].job = reported[b].job => a = b
    BY DEF EndLeavesNothing
  <2>1. ASSUME NEW j \in JobId, ~observation_failed[j]
        PROVE  j \notin records /\ \A p \in Process : proc[j][p] = Absent \/ Waited(j, p)
    <3>1. j \notin records
      BY <1>1, <2>1 DEF ExitInv
    <3>2. job[j].state \in {"Planned", "Reaped"} /\ Recorded(job[j], completion[j])
      BY <1>1, <3>1 DEF RecordsInv, Recorded, records
    <3>3. ASSUME NEW p \in Process, proc[j][p] # Absent  PROVE Waited(j, p)
      <4>1. Child(j, p) /\ p \in Members(job[j])
        BY <1>1, <3>3 DEF ChildrenInv, Child, Linked, Members
      <4>2. job[j].members[p] \in Status
        BY <3>2, <4>1 DEF Recorded, AllCompleted
      <4> QED
        BY <4>1, <4>2 DEF Child, Linked, Waited
    <3> QED
      BY <3>1, <3>3
  <2> QED
    BY <1>1, <2>1 DEF ExitInv, Over, Distinct
<1> QED
  BY <1>2, <1>3 DEF TableSettles

\* However stops, continuations, acknowledgements, waits and signals interleave
\* with the observers, the job table (`apply_observation`, `queue_notice`,
\* `consume_waited_completion`), its notice queue and its completions agree, and
\* no observation is ever dropped.
THEOREM TableAgrees == Spec => []TableConsistent
  BY FullInvariant, FullConsistent, PTL

\* When nothing about a child is on its way, the table holds what the kernel
\* knows, and a session that has ended (`wait_for_quiescence`, `drain_notices`)
\* leaves only quarantined records and reports no job twice.
THEOREM TableConverges == Spec => []TableSettles
  BY FullInvariant, FullSettles, PTL

\* The drain at the end of a session forgets no failed job that
\* `collect_failures` has not reported.
THEOREM NothingForgotten == Spec => DrainForgetsOnlyReported
<1> DEFINE forgets ==
      \A j \in records :
        session.at = "drain" /\ j \notin records' /\ completion[j] # Ok =>
          \E i \in DOMAIN reported : reported[i].job = j
<1>1. FullInv => [forgets]_vars
  BY DEF FullInv, ExitInv, Over, Lists
<1> QED
  BY <1>1, FullInvariant, PTL DEF DrainForgetsOnlyReported
=============================================================================
