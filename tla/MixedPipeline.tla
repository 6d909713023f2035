--------------------------- MODULE MixedPipeline ---------------------------
(***************************************************************************)
(* A pipeline that alternates external stages and internal segments        *)
(* (flash-runtime/src/session.rs, `run_mixed_pipeline`, over               *)
(* `start_mixed_pipeline` and `MixedPipeline` of execute.rs).              *)
(*                                                                         *)
(* The external stages are the children of StageProcesses.  Every internal *)
(* segment (a maximal run of internal stages, named by its first stage)    *)
(* runs on a thread.  Segments prepare their stages one segment at a time, *)
(* in source order and under one mutex, against one pending session state; *)
(* then they drain concurrently.  A failure or an `exit` cancels: children *)
(* are killed and reaped, and streams that poll the token end.  The        *)
(* coordinator joins everything, selects the outcome, waits for the        *)
(* children and commits the pending state, or drops it.                    *)
(***************************************************************************)
EXTENDS StageProcesses, Sequences

Internal == setup.internal
External == Stage \ Internal
Segment  == {i \in Internal : i - 1 \notin Internal}
Last(s)  == CHOOSE k \in Internal : s <= k /\ s..k \subseteq Internal /\ k + 1 \notin Internal
None     == 0
AllFaults == {"pipe", "redirect", "spawn", "terminal", "stage", "pull", "output", "read",
              "wait", "signal", "restore"}

\* Beyond what StageProcesses needs, a setup has
\* internal      the internal stages
\* checks        those that are a deferred `check` of the child before them
\* exits         those that may be `exit`
\* eager         those that read their input to its end
\* capturing     is the last, external stage captured?
\* terminal      is there a terminal to hand over?
\* endless       the children that never end by themselves
ASSUME MixedAssumption ==
  \A s \in Setups :
    /\ s.internal \subseteq 1..s.stages /\ s.internal # {} /\ s.internal # 1..s.stages
    /\ s.edges = {e \in 1..(s.stages - 1) : ~({e, e + 1} \subseteq s.internal)}
                   \cup (IF s.capturing THEN {s.stages} ELSE {})
    /\ s.capturing \in BOOLEAN /\ (s.capturing => s.stages \notin s.internal)
    /\ s.checks \subseteq {k \in s.internal : k > 1 /\ k - 1 \notin s.internal}
    /\ s.exits \subseteq s.internal /\ s.eager \subseteq s.internal
    /\ s.terminal \in BOOLEAN /\ s.endless \subseteq (1..s.stages) \ s.internal
    /\ s.faults \subseteq AllFaults

VARIABLES main,       \* where the coordinator is
          index,      \* the stage it starts or waits for
          resumes,    \* automatic_resumes of that stage
          tty,        \* who owns the terminal
          seg,        \* each segment thread
          at,         \* the stage a segment prepares
          input,      \* a segment's payload: a stream over its input, or a value
          carry,      \* does the segment hold a chunk it has to write?
          error,      \* the kind of error a segment met
          outcome,    \* each segment's result
          lock,       \* the segment holding the preparation mutex
          turn,       \* next_segment
          stopped,    \* MixedPreparationState.stopped
          exit_at,    \* requested_exit: the stage that asked, or None
          cancelled,  \* MixedPipelineControl.cancelled
          capture,    \* the capture thread
          pending,    \* the pending session state: the stages applied to it
          state,      \* the caller's session state: stages applied, deltas merged
          result      \* what run_mixed_pipeline returned

mainVars    == <<main, index, resumes, tty, result, state>>
segmentVars == <<seg, at, input, carry, error, outcome>>
sharedVars  == <<lock, turn, stopped, exit_at, pending>>
vars        == <<osVars, mainVars, segmentVars, sharedVars, cancelled, capture>>

Least(S) == CHOOSE x \in S : \A y \in S : x <= y
NextSegmentMutant(s) == s + 1      \* Mutant: the turn counts stages, not segments.
NextSegment(s) == IF \E t \in Segment : t > s THEN Least({t \in Segment : t > s}) ELSE Stages + 1

Init ==
  /\ ProcessInit
  /\ main = "pipes" /\ index = 1 /\ resumes = 0 /\ tty = "shell"
  /\ result = [kind |-> "none", stage |-> None]
  /\ state = [applied |-> <<>>, merged |-> {}]
  /\ seg = [s \in Segment |-> "idle"]
  /\ at = [s \in Segment |-> s]
  /\ input = [s \in Segment |-> IF s - 1 \in Edges THEN "stream" ELSE "value"]
  /\ carry = [s \in Segment |-> FALSE]
  /\ error = [s \in Segment |-> "none"]
  /\ outcome = [s \in Segment |-> "none"]
  /\ lock = None /\ turn = Least(Segment) /\ stopped = FALSE /\ exit_at = None
  /\ pending = <<>>
  /\ cancelled = FALSE /\ capture = "none"

-----------------------------------------------------------------------------
(* `start_mixed_pipeline`. *)
\* What the terminal may be after the guard was restored or dropped.
Released == IF Fault("restore") THEN {"shell", tty} ELSE {"shell"}

Return(kind, stage) ==
  /\ main' = "returned"
  /\ result' = [kind |-> kind, stage |-> stage]

create_pipes ==
  /\ main = "pipes"
  /\ \/ held' = Endpoint /\ main' = "spawn" /\ UNCHANGED result
     \/ Fault("pipe") /\ held' = {} /\ Return("error", None)
  /\ UNCHANGED <<processVars, index, resumes, tty, state, segmentVars, sharedVars,
                 cancelled, capture>>

\* What an internal segment keeps of the pipes; the rest is dropped.
SegmentEnds(s) == {<<s - 1, "r">>, <<Last(s), "w">>}

\* Mutant: the shell keeps its copy of the child's output pipe.
start_stageMutant ==
  /\ main = "spawn" /\ index \in External
  /\ Spawn(index)
  /\ held' = held \ {<<index - 1, "r">>}
  /\ index' = index + 1
  /\ UNCHANGED <<main, resumes, tty, result, state, segmentVars, sharedVars, cancelled, capture>>

start_stage ==
  /\ main = "spawn" /\ index \in External
  /\ Spawn(index)
  /\ held' = held \ {<<index - 1, "r">>, <<index, "w">>}
  /\ index' = index + 1
  /\ UNCHANGED <<main, resumes, tty, result, state, segmentVars, sharedVars, cancelled, capture>>

skip_internal ==
  /\ main = "spawn" /\ index \in Internal
  /\ index' = index + 1
  /\ UNCHANGED <<osVars, main, resumes, tty, result, state, segmentVars, sharedVars,
                 cancelled, capture>>

\* A redirection, a spawn or the terminal hand-over fails.
start_fails ==
  /\ main = "spawn"
  /\ \/ index \in External /\ (Fault("redirect") \/ Fault("spawn"))
     \/ index > Stages /\ setup.terminal /\ Fault("terminal")
  /\ TerminateAndReap(External)
  /\ held' = {}
  /\ Return("error", None)
  /\ UNCHANGED <<index, resumes, tty, state, segmentVars, sharedVars, cancelled, capture>>

\* The terminal is handed over and the threads begin.
started ==
  /\ main = "spawn" /\ index > Stages
  /\ tty' = IF setup.terminal THEN "job" ELSE "shell"
  /\ main' = "run"
  /\ index' = 1
  /\ seg' = [s \in Segment |-> "waiting"]
  /\ capture' = IF setup.capturing THEN "reading" ELSE "done"
  /\ UNCHANGED <<osVars, resumes, result, state, at, input, carry, error, outcome, sharedVars,
                 cancelled>>

-----------------------------------------------------------------------------
(* `run_mixed_segment`: preparation under the mutex. *)
Quit(s, how) ==
  /\ seg' = [seg EXCEPT ![s] = IF how \in {"failure", "exit"} THEN "cancel" ELSE "done"]
  /\ outcome' = [outcome EXCEPT ![s] = how]
  /\ held' = held \ SegmentEnds(s)

segment_admitted(s) ==
  /\ seg[s] = "waiting"
  /\ lock = None
  /\ \/ /\ stopped
        /\ Quit(s, "skipped")
        /\ UNCHANGED lock
     \/ /\ ~stopped /\ turn = s
        /\ lock' = s
        /\ seg' = [seg EXCEPT ![s] = "stage"]
        /\ UNCHANGED <<held, outcome>>
  /\ UNCHANGED <<processVars, mainVars, at, input, carry, error, turn, stopped, exit_at, pending,
                 cancelled, capture>>

\* Cancellation is looked at before each stage.
segment_cancelled(s) ==
  /\ seg[s] = "stage" /\ cancelled
  /\ stopped' = TRUE
  /\ lock' = None
  /\ Quit(s, "skipped")
  /\ UNCHANGED <<processVars, mainVars, at, input, carry, error, turn, exit_at, pending,
                 cancelled, capture>>

\* The stage at hand is done: the next one, or the end of the preparation.
StageDone(s) ==
  /\ pending' = Append(pending, at[s])
  /\ IF at[s] = Last(s)
       THEN /\ turn' = NextSegment(s)
            /\ lock' = None
            /\ seg' = [seg EXCEPT ![s] = "prepared"]
            /\ UNCHANGED at
       ELSE /\ at' = [at EXCEPT ![s] = @ + 1]
            /\ seg' = [seg EXCEPT ![s] = "stage"]
            /\ UNCHANGED <<turn, lock>>

\* A stage that returns a lazy stream, or one that must first read its input
\* to the end.
execute_stage(s) ==
  /\ seg[s] = "stage" /\ ~cancelled
  /\ \/ StageDone(s)
     \/ /\ at[s] \in setup.eager /\ input[s] = "stream"
        /\ seg' = [seg EXCEPT ![s] = "eager"]
        /\ UNCHANGED <<pending, at, turn, lock>>
  /\ UNCHANGED <<osVars, mainVars, input, carry, error, outcome, stopped, exit_at, cancelled,
                 capture>>

eager_pull(s) ==
  /\ seg[s] = "eager"
  /\ \/ /\ pipe[s - 1] > 0
        /\ pipe' = [pipe EXCEPT ![s - 1] = @ - 1]
        /\ UNCHANGED <<held, input, pending, at, turn, lock, seg>>
     \/ /\ AtEnd(s - 1)
        /\ input' = [input EXCEPT ![s] = "value"]
        /\ held' = held \ {<<s - 1, "r">>}
        /\ StageDone(s)
        /\ UNCHANGED pipe
  /\ UNCHANGED <<child, news, reaped, wrote, stops, mainVars, carry, error, outcome, stopped,
                 exit_at, cancelled, capture>>

\* `exit`: the request is recorded before anything is cancelled.
execute_exit(s) ==
  /\ seg[s] = "stage" /\ ~cancelled
  /\ at[s] \in setup.exits
  /\ stopped' = TRUE
  /\ exit_at' = at[s]
  /\ lock' = None
  /\ Quit(s, "exit")
  /\ UNCHANGED <<processVars, mainVars, at, input, carry, error, turn, pending,
                 cancelled, capture>>

\* Mutant: every failure after a cancellation counts as triggered.
FailureMutant(kind) == IF cancelled THEN "triggered" ELSE "failure"

\* `MixedSegmentFailure`: only a cancelled stream after a cancellation counts
\* as triggered by somebody else.
Failure(kind) == IF cancelled /\ kind = "cancellation" THEN "triggered" ELSE "failure"

\* A stage fails: in itself, or because an eager read met the token.
stage_fails(s) ==
  /\ seg[s] \in {"stage", "eager"}
  /\ \E kind \in {"genuine", "cancellation"} :
       /\ \/ kind = "genuine" /\ Fault("stage") /\ (seg[s] = "stage" => ~cancelled)
          \/ kind = "cancellation" /\ cancelled /\ seg[s] = "eager"
       /\ error' = [error EXCEPT ![s] = kind]
       /\ Quit(s, Failure(kind))
  /\ stopped' = TRUE
  /\ lock' = None
  /\ UNCHANGED <<processVars, mainVars, at, input, carry, turn, exit_at, pending,
                 cancelled, capture>>

-----------------------------------------------------------------------------
(* ... and the drain, without it. *)

\* A segment prepared after the cancellation does not drain.
StopsForExit(s) == exit_at # None /\ s < exit_at

segment_prepared(s) ==
  /\ seg[s] = "prepared"
  /\ \/ /\ ~cancelled
        /\ seg' = [seg EXCEPT ![s] = "drain"]
        /\ UNCHANGED <<outcome, held>>
     \/ /\ cancelled
        /\ lock = None
        /\ Quit(s, IF StopsForExit(s) THEN "stopped" ELSE "skipped")
  /\ UNCHANGED <<processVars, mainVars, at, input, carry, error, sharedVars, cancelled, capture>>

\* A value payload is any number of chunks, a stream what the input holds; a
\* chunk may be filtered out.
drain_pull(s) ==
  /\ seg[s] = "drain" /\ ~carry[s]
  /\ \/ input[s] = "value" /\ UNCHANGED pipe
     \/ /\ input[s] = "stream" /\ pipe[s - 1] > 0
        /\ pipe' = [pipe EXCEPT ![s - 1] = @ - 1]
  /\ \E chunk \in BOOLEAN : carry' = [carry EXCEPT ![s] = chunk]
  /\ input' = IF input[s] = "value" THEN [input EXCEPT ![s] = "spent"] ELSE input
  /\ UNCHANGED <<child, news, reaped, wrote, stops, held, mainVars, seg, at, error, outcome,
                 sharedVars, cancelled, capture>>

\* To the next stage's pipe, or to the session's output.
drain_write(s) ==
  /\ seg[s] = "drain" /\ carry[s]
  /\ \/ /\ Last(s) \in Edges /\ HasReader(Last(s)) /\ pipe[Last(s)] < Capacity
        /\ pipe' = [pipe EXCEPT ![Last(s)] = @ + 1]
     \/ Last(s) \notin Edges /\ UNCHANGED pipe
  /\ carry' = [carry EXCEPT ![s] = FALSE]
  /\ UNCHANGED <<child, news, reaped, wrote, stops, held, mainVars, seg, at, input, error, outcome,
                 sharedVars, cancelled, capture>>

\* The payload ends, or nobody reads it any more: both are completion.
drain_ends(s) ==
  /\ seg[s] = "drain"
  /\ \/ ~carry[s] /\ input[s] = "spent"
     \/ ~carry[s] /\ input[s] = "stream" /\ AtEnd(s - 1)
     \/ carry[s] /\ Last(s) \in Edges /\ ~HasReader(Last(s))
  /\ Quit(s, "completed")
  /\ UNCHANGED <<processVars, mainVars, at, input, carry, error, sharedVars, cancelled, capture>>

\* Payload and writer are gone when the error is returned; the mutex is taken
\* only then.
drain_fails(s) ==
  /\ seg[s] = "drain"
  /\ \E kind \in {"genuine", "cancellation"} :
       /\ \/ kind = "genuine" /\ (IF carry[s] THEN Fault("output") ELSE Fault("pull"))
          \/ kind = "cancellation" /\ cancelled
       /\ error' = [error EXCEPT ![s] = kind]
  /\ seg' = [seg EXCEPT ![s] = "failing"]
  /\ held' = held \ SegmentEnds(s)
  /\ UNCHANGED <<processVars, mainVars, at, input, carry, outcome, sharedVars, cancelled, capture>>

segment_fails(s) ==
  /\ seg[s] = "failing" /\ lock = None
  /\ stopped' = TRUE
  /\ Quit(s, IF StopsForExit(s) /\ error[s] = "cancellation" THEN "stopped"
             ELSE Failure(error[s]))
  /\ UNCHANGED <<processVars, mainVars, at, input, carry, error, lock, turn, exit_at, pending,
                 cancelled, capture>>

-----------------------------------------------------------------------------
(* `cancel_and_reap`: whoever trips it first ends the children. *)
Trip == IF cancelled THEN "done" ELSE "reap"

segment_cancels(s) ==
  /\ \/ /\ seg[s] = "cancel"
        /\ seg' = [seg EXCEPT ![s] = Trip]
        /\ cancelled' = TRUE
        /\ UNCHANGED processVars
     \/ /\ seg[s] = "reap"
        /\ TerminateAndReap(External)
        /\ seg' = [seg EXCEPT ![s] = "done"]
        /\ UNCHANGED cancelled
  /\ UNCHANGED <<held, mainVars, at, input, carry, error, outcome, sharedVars, capture>>

\* `drain_capture_endpoint` and, when it fails, the cancellation.
drain_capture ==
  /\ \/ /\ capture = "reading"
        /\ \/ /\ pipe[Stages] > 0
              /\ pipe' = [pipe EXCEPT ![Stages] = @ - 1]
              /\ UNCHANGED <<capture, held>>
           \/ /\ AtEnd(Stages)
              /\ capture' = "done"
              /\ held' = held \ {<<Stages, "r">>}
              /\ UNCHANGED pipe
        /\ UNCHANGED <<child, news, reaped, wrote, stops, cancelled>>
     \/ /\ capture = "cancel"
        /\ capture' = IF cancelled THEN "failed" ELSE "reap"
        /\ cancelled' = TRUE
        /\ UNCHANGED osVars
     \/ /\ capture = "reap"
        /\ TerminateAndReap(External)
        /\ capture' = "failed"
        /\ UNCHANGED <<held, cancelled>>
  /\ UNCHANGED <<mainVars, segmentVars, sharedVars>>

capture_fails ==
  /\ capture = "reading" /\ Fault("read")
  /\ capture' = "cancel"
  /\ held' = held \ {<<Stages, "r">>}
  /\ UNCHANGED <<processVars, mainVars, segmentVars, sharedVars, cancelled>>

-----------------------------------------------------------------------------
(* The coordinator, once every thread has been joined. *)
Joined == main = "run" /\ capture \in {"done", "failed"} /\ \A s \in Segment : seg[s] = "done"

Exited       == {s \in Segment : outcome[s] = "exit"}
BeforeExit(s) == \A x \in Exited : s < x
\* The segments whose failure may be reported.
Selected ==
  LET own == {s \in Segment : outcome[s] = "failure" /\ BeforeExit(s)}
  IN  IF own # {} THEN own
      ELSE IF Exited = {} THEN {s \in Segment : outcome[s] \in {"failure", "triggered"}} ELSE {}

Merged == {s \in Segment : outcome[s] \in {"completed", "exit", "stopped"}}

\* `mixed.terminate()`: unless a thread has done it already.  Dropping the
\* pipeline gives the terminal back.
terminate ==
  /\ cancelled' = TRUE
  /\ tty' \in Released
  /\ IF cancelled THEN UNCHANGED processVars ELSE TerminateAndReap(External)

select_outcome ==
  /\ Joined
  /\ CASE capture = "failed" -> terminate /\ Return("error", None) /\ UNCHANGED state
       [] capture # "failed" /\ Selected # {} ->
            terminate /\ Return("error", Least(Selected)) /\ UNCHANGED state
       [] capture # "failed" /\ Selected = {} /\ Exited # {} ->
            /\ terminate
            /\ Return("exit", Least(Exited))
            /\ state' = [applied |-> pending, merged |-> Merged]
       [] OTHER -> main' = "wait" /\ UNCHANGED <<processVars, result, state, tty, cancelled>>
  /\ UNCHANGED <<held, index, resumes, segmentVars, sharedVars, capture>>

NextChild == index' = index + 1 /\ resumes' = 0 /\ main' = "wait"

\* The first error ends this child and the ones after it.
GiveUp ==
  /\ TerminateAndReap({i \in External : i >= index})
  /\ tty' \in Released
  /\ Return("error", None)
  /\ UNCHANGED <<index, resumes>>

wait_for_children ==
  /\ main = "wait" /\ index <= Stages
  /\ \/ index \in Internal /\ NextChild /\ UNCHANGED <<processVars, tty, result>>
     \/ /\ index \in External
        /\ Observe(index)
        /\ CASE child[index] \in Status  -> NextChild
             [] child[index] = "running" -> UNCHANGED <<main, index, resumes>>
             [] child[index] = "stopped" -> main' = "resume" /\ UNCHANGED <<index, resumes>>
        /\ UNCHANGED <<tty, result>>
  /\ UNCHANGED <<held, state, segmentVars, sharedVars, cancelled, capture>>

wait_fails ==
  /\ main = "wait" /\ index \in External
  /\ Fault("wait")
  /\ GiveUp
  /\ UNCHANGED <<held, state, segmentVars, sharedVars, cancelled, capture>>

resume_stopped_job ==
  /\ main = "resume"
  /\ \/ /\ resumes < AutomaticResumeLimit
        /\ ContinueGroup
        /\ resumes' = resumes + 1
        /\ main' = "wait"
        /\ UNCHANGED <<index, tty, result>>
     \/ /\ resumes >= AutomaticResumeLimit \/ Fault("signal")
        /\ GiveUp
  /\ UNCHANGED <<held, state, segmentVars, sharedVars, cancelled, capture>>

\* Mutant: the state is committed before the checks.
commitMutant ==
  /\ main = "wait" /\ index > Stages
  /\ tty' = "shell"
  /\ state' = [applied |-> pending, merged |-> Merged]
  /\ IF \A k \in setup.checks : child[k - 1] = "ok" THEN Return("status", None) ELSE Return("error", None)
  /\ UNCHANGED <<osVars, index, resumes, segmentVars, sharedVars, cancelled, capture>>

\* The terminal is taken back, the deferred checks are made and the pending
\* state becomes the session's.
commit ==
  /\ main = "wait" /\ index > Stages
  /\ \/ /\ \A k \in setup.checks : child[k - 1] = "ok"
        /\ tty' = "shell"
        /\ Return("status", None)
        /\ state' = [applied |-> pending, merged |-> Merged]
     \/ /\ \/ tty' \in Released /\ \E k \in setup.checks : child[k - 1] # "ok"
           \/ tty' \in Released /\ Fault("restore")
        /\ Return("error", None)
        /\ UNCHANGED state
  /\ UNCHANGED <<osVars, index, resumes, segmentVars, sharedVars, cancelled, capture>>

finished == main = "returned" /\ UNCHANGED vars

-----------------------------------------------------------------------------
Coordinator ==
  \/ create_pipes \/ start_stage \/ skip_internal \/ start_fails \/ started
  \/ select_outcome \/ wait_for_children \/ resume_stopped_job \/ commit

Thread(s) ==
  \/ segment_admitted(s) \/ segment_cancelled(s) \/ execute_stage(s) \/ eager_pull(s)
  \/ execute_exit(s) \/ segment_prepared(s) \/ drain_pull(s)
  \/ drain_write(s) \/ drain_ends(s) \/ segment_fails(s)
  \/ segment_cancels(s)

Others == UNCHANGED <<held, mainVars, segmentVars, sharedVars, cancelled, capture>>

\* What may go wrong although the thread could go on, or go on blocking; a
\* stream that does not poll the token is not bound to end when it trips.
Failures ==
  \/ \E s \in Segment : stage_fails(s) \/ drain_fails(s)
  \/ capture_fails \/ wait_fails

Next ==
  /\ \/ Coordinator
     \/ \E s \in Segment : Thread(s)
     \/ drain_capture
     \/ Failures
     \/ ProcessNext /\ Others
     \/ finished
  /\ UNCHANGED setup

Spec == Init /\ [][Next]_<<vars, setup>>

\* The shell's threads run, and no failure is bound to come and free them; a
\* child is bound to do what WellBehaved says unless it is endless.
FairSpec ==
  /\ Spec
  /\ WF_vars(Coordinator)
  /\ WF_vars(drain_capture)
  /\ \A s \in 1..MaxStages : WF_vars(s \in Segment /\ Thread(s))
  /\ \A i \in 1..MaxStages :
       WF_vars(i \in External \ setup.endless /\ WellBehaved(i) /\ Others)

-----------------------------------------------------------------------------
Place   == {"idle", "waiting", "stage", "eager", "prepared", "drain", "failing", "cancel", "reap",
            "done"}
Outcome == {"none", "completed", "exit", "stopped", "skipped", "failure", "triggered"}

TypeOK ==
  /\ ProcessTypeOK
  /\ main \in {"pipes", "spawn", "run", "wait", "resume", "returned"}
  /\ index \in 1..(Stages + 1) /\ resumes \in 0..AutomaticResumeLimit
  /\ tty \in {"shell", "job"}
  /\ seg \in [Segment -> Place]
  /\ at \in [Segment -> Internal]
  /\ input \in [Segment -> {"stream", "value", "spent"}]
  /\ carry \in [Segment -> BOOLEAN]
  /\ error \in [Segment -> {"none", "genuine", "cancellation"}]
  /\ outcome \in [Segment -> Outcome]
  /\ lock \in Segment \cup {None} /\ turn \in Segment \cup {Stages + 1}
  /\ stopped \in BOOLEAN /\ exit_at \in Internal \cup {None} /\ cancelled \in BOOLEAN
  /\ capture \in {"none", "reading", "cancel", "reap", "done", "failed"}
  /\ pending \in Seq(Internal)
  /\ state.applied \in Seq(Internal) /\ state.merged \subseteq Segment
  /\ result \in [kind : {"none", "status", "exit", "error"}, stage : Segment \cup {None}]

\* The internal stages before a limit, in source order.
InSourceOrder(applied, limit) ==
  /\ {applied[n] : n \in 1..Len(applied)} = {k \in Internal : k < limit}
  /\ \A m, n \in 1..Len(applied) : m < n => applied[m] < applied[n]

\* One in-memory transaction: an error leaves the session as it was; a normal
\* completion applies every internal stage in source order and merges every
\* segment's closure changes; an exit applies exactly the stages before it and
\* merges exactly the segments up to its own, although they were draining,
\* cancelled or done when it happened.
CommitAllOrNothing ==
  /\ result.kind \in {"none", "error"} => state = [applied |-> <<>>, merged |-> {}]
  /\ result.kind = "status" => /\ InSourceOrder(state.applied, Stages + 1)
                               /\ state.merged = Segment
  /\ result.kind = "exit" => /\ InSourceOrder(state.applied, exit_at)
                             /\ state.merged = {s \in Segment : s <= exit_at}

\* Before it waits for the children the coordinator has a status from every
\* internal stage, so no slot is still pending (a panic) when the pipeline's
\* status is aggregated.
SlotsFilled ==
  main \in {"wait", "resume"} \/ result.kind = "status" =>
    \A s \in Segment : outcome[s] = "completed"

\* The reported error is a real one, and the earliest in the source: never the
\* echo of a cancellation, nor a failure after one at an earlier stage, nor an
\* exit that an earlier stage's failure forestalls.
EarliestFailure ==
  main = "returned" /\ result.stage # None =>
    /\ result.kind = "error" => error[result.stage] = "genuine"
    /\ \A s \in Segment : s < result.stage => error[s] # "genuine"

\* No child outlives the pipeline, and the terminal is the shell's again.
NothingOutlivesIt ==
  main = "returned" =>
    /\ tty = "shell" \/ Fault("restore")
    /\ \A i \in Stage : child[i] = "absent" \/ i \in reaped

\* The state is one of the program's, SlotsFilled and NothingOutlivesIt.
MixedConsistent == TypeOK /\ SlotsFilled /\ NothingOutlivesIt

\* A pipeline of well-behaved children that the terminal does not stop returns.
MixedEnds == setup.max_stops = 0 /\ setup.endless = {} => <>(main = "returned")

-----------------------------------------------------------------------------
(* What the code and its documentation say of the code, and it does not do. *)

\* docs/architecture.md:734-735 says that a genuine failure "cooperatively cancels
\* peers, terminates and waits children"; but a drain that fails waits for the
\* preparation mutex before it cancels.
FailureEnds == (\E s \in Segment : error[s] = "genuine") ~> main = "returned"

\* execute.rs:999 says that the group is retained "so a member that reports a stop
\* can be resumed", but no child is waited for before every segment has ended.
EveryMixedPipelineEnds == <>(main = "returned")
=============================================================================
