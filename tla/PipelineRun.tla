---------------------------- MODULE PipelineRun ----------------------------
(***************************************************************************)
(* One all-external pipeline (flash-runtime/src/execute.rs): it is started *)
(* stage by stage, handed the terminal, optionally drained by a capture    *)
(* thread, waited for in source order, and every way out cleans up.        *)
(*                                                                         *)
(* Mode says who runs it: "plain" (execute_preflighted_pipeline_inner),    *)
(* "capture" (execute_foreground_with_stdout_drain below                   *)
(* capture_foreground_bytes) or "background" (start_background_pipeline,   *)
(* which only starts it).                                                  *)
(***************************************************************************)
EXTENDS StageProcesses, Sequences

AllFaults == {"pipe", "redirect", "spawn", "group", "capsule", "terminal", "wait", "signal",
              "read", "restore"}

\* Beyond what StageProcesses needs, a setup has
\* mode             "plain", "capture" or "background"
\* terminal         is there a terminal to hand over?
\* grouped          do the children share a process group?
\* capture_limit    the session's capture limit
\* The edge of the last stage is the pipe a capture reads, and only a capture has it.
ASSUME RunAssumption ==
  \A s \in Setups :
    /\ s.mode \in {"plain", "capture", "background"}
    /\ s.terminal \in BOOLEAN /\ s.grouped \in BOOLEAN /\ s.capture_limit \in Nat
    /\ s.faults \subseteq AllFaults
    /\ s.stages \in s.edges <=> s.mode = "capture"

Mode         == setup.mode
Terminal     == setup.terminal
Grouped      == setup.grouped
CaptureLimit == setup.capture_limit

VARIABLES main,      \* where the executor is
          index,     \* the stage it is at
          resumes,   \* automatic_resumes of that stage
          tty,       \* who owns the terminal
          failed,    \* has the wait or the drain met an error?
          result,    \* what the executor returned
          drain,     \* the capture thread
          retained,  \* BoundedCapture: how much of the output is kept
          exceeded,  \* BoundedCapture: was anything dropped?
          drained    \* what the capture thread read (history)

mainVars    == <<main, index, resumes, tty, failed, result>>
captureVars == <<drain, retained, exceeded, drained>>
vars        == <<osVars, mainVars, captureVars>>

Init ==
  /\ ProcessInit
  /\ main = "pipes" /\ index = 1 /\ resumes = 0
  /\ tty = "shell" /\ failed = FALSE /\ result = "none"
  /\ drain = "none" /\ retained = 0 /\ exceeded = FALSE /\ drained = 0

-----------------------------------------------------------------------------
(* Starting. *)
create_pipes ==
  /\ main = "pipes"
  /\ \/ /\ held' = Endpoint
        /\ main' = "spawn"
        /\ UNCHANGED result
     \/ /\ Fault("pipe")
        /\ held' = {}
        /\ main' = "returned" /\ result' = "error"
  /\ UNCHANGED <<processVars, index, resumes, tty, failed, captureVars>>

\* The endpoints that stage i's descriptor map takes and drops.
TakenBy(i) == {<<i - 1, "r">>, <<i, "w">>}

\* The descriptor map of the stage is built, the child spawned, the map dropped.
start_stage ==
  /\ main = "spawn" /\ index <= Stages
  /\ Spawn(index)
  /\ held' = held \ TakenBy(index)
  /\ index' = index + 1
  /\ UNCHANGED <<main, resumes, tty, failed, result, captureVars>>

\* The pipes are dropped and the children before `started` are ended.
abandon(started) ==
  /\ TerminateAndReap({i \in Stage : i < started})
  /\ held' = {}
  /\ main' = "returned" /\ result' = "error"
  /\ UNCHANGED <<index, resumes, tty, failed, captureVars>>

\* A redirection cannot be opened, or the child cannot be spawned.
start_fails ==
  /\ main = "spawn" /\ index <= Stages
  /\ Fault("redirect") \/ Fault("spawn")
  /\ abandon(index)

\* A background member is not in the group it was asked to join (seen after it
\* was spawned and published in `children`).
group_is_invalid ==
  /\ main = "spawn" /\ index > 1
  /\ Mode = "background" /\ Fault("group")
  /\ abandon(index)

started ==
  /\ main = "spawn" /\ index = Stages + 1
  /\ \/ /\ main' = IF Mode = "background" THEN "returned" ELSE "terminal"
        /\ result' = IF Mode = "background" THEN "ok" ELSE result
        /\ index' = 1
        /\ UNCHANGED <<osVars, resumes, tty, failed, captureVars>>
     \/ Mode = "background" /\ Fault("capsule") /\ abandon(index)

\* The terminal is handed over; `?` returns at once when that is refused.
take_foreground ==
  /\ main = "terminal"
  /\ \/ /\ tty' = IF Terminal /\ Grouped THEN "job" ELSE "shell"
        /\ main' = IF Mode = "capture" THEN "ready" ELSE "wait"
        /\ drain' = IF Mode = "capture" THEN "first" ELSE drain
        /\ UNCHANGED <<held, result>>
     \/ /\ Terminal /\ Grouped /\ Fault("terminal")
        /\ main' = "returned" /\ result' = "error"
        /\ held' = {}
        /\ UNCHANGED <<tty, drain>>
  /\ UNCHANGED <<processVars, index, resumes, failed, retained, exceeded, drained>>

-----------------------------------------------------------------------------
(* The capture thread: one read before `ready`, then the rest. *)

\* Mutant: the limit is tested before the chunk is added.
pushMutant(amount) ==
  /\ exceeded' = (exceeded \/ retained > CaptureLimit)
  /\ retained' = retained + amount
  /\ drained' = drained + amount

\* `BoundedCapture::push`.
push(amount) ==
  LET remaining == IF retained < CaptureLimit THEN CaptureLimit - retained ELSE 0
      kept      == IF remaining < amount THEN remaining ELSE amount
  IN  /\ retained' = retained + kept
      /\ exceeded' = (exceeded \/ kept # amount)
      /\ drained' = drained + amount

LastRead ==
  /\ drain' = IF drain = "first" THEN "signalEnd" ELSE "done"
  /\ held' = held \ {<<Stages, "r">>}

\* One read: a chunk, the end of the stream, or an error.
drain_stdout ==
  /\ drain \in {"first", "reading"}
  /\ \/ /\ \E amount \in 1..pipe[Stages] :
             /\ pipe' = [pipe EXCEPT ![Stages] = @ - amount]
             /\ push(amount)
        /\ drain' = IF drain = "first" THEN "signal" ELSE drain
        /\ UNCHANGED held
     \/ /\ AtEnd(Stages)
        /\ LastRead
        /\ UNCHANGED <<pipe, retained, exceeded, drained>>
  /\ UNCHANGED <<child, news, reaped, wrote, stops, mainVars>>

drain_fails ==
  /\ drain \in {"first", "reading"}
  /\ Fault("read")
  /\ LastRead
  /\ failed' = TRUE
  /\ UNCHANGED <<processVars, main, index, resumes, tty, result, retained, exceeded, drained>>

\* The rendezvous on the `ready` channel.
ready ==
  /\ main = "ready"
  /\ drain \in {"signal", "signalEnd"}
  /\ drain' = IF drain = "signal" THEN "reading" ELSE "done"
  /\ main' = "wait"
  /\ UNCHANGED <<osVars, index, resumes, tty, failed, result, retained, exceeded, drained>>

-----------------------------------------------------------------------------
(* `wait_in_source_order`. *)
NextStage ==
  /\ index' = index + 1
  /\ resumes' = 0
  /\ main' = "wait"

wait_for_transition ==
  /\ main = "wait" /\ index <= Stages
  /\ Observe(index)
  /\ CASE child[index] \in Status   -> NextStage
       [] child[index] = "running"  -> UNCHANGED <<main, index, resumes>>
       [] child[index] = "stopped"  -> main' = "resume" /\ UNCHANGED <<index, resumes>>
  /\ UNCHANGED <<held, failed, tty, result, captureVars>>

wait_fails ==
  /\ main = "wait" /\ index <= Stages
  /\ Fault("wait")
  /\ failed' = TRUE
  /\ NextStage
  /\ UNCHANGED <<osVars, tty, result, captureVars>>

\* Mutant: the resumed member alone is continued.
resume_stopped_jobMutant ==
  /\ main = "resume"
  /\ child' = [child EXCEPT ![index] = IF @ = "stopped" THEN "running" ELSE @]
  /\ main' = "wait"
  /\ UNCHANGED <<news, reaped, pipe, wrote, stops, index, resumes, failed>>
  /\ UNCHANGED <<held, tty, result, captureVars>>

\* A stop that cannot be lifted ends the child and is the pipeline's error.
resume_stopped_job ==
  /\ main = "resume"
  /\ \/ /\ resumes < AutomaticResumeLimit /\ Grouped
        /\ ContinueGroup
        /\ resumes' = resumes + 1
        /\ main' = "wait"
        /\ UNCHANGED <<index, failed>>
     \/ /\ resumes >= AutomaticResumeLimit \/ ~Grouped \/ Fault("signal")
        /\ TerminateAndReap({index})
        /\ failed' = TRUE
        /\ NextStage
  /\ UNCHANGED <<held, tty, result, captureVars>>

\* Mutant: the guard is leaked.
release_foregroundMutant ==
  /\ main = "wait" /\ index = Stages + 1
  /\ drain \in {"none", "done"}
  /\ tty' = tty
  /\ result' = IF failed THEN "error" ELSE "ok"
  /\ main' = "returned"
  /\ UNCHANGED <<osVars, index, resumes, failed, captureVars>>

\* The drain is joined, the terminal taken back, the first error returned.
\* A failed `restore` is tried once more when the guard is dropped.
release_foreground ==
  /\ main = "wait" /\ index = Stages + 1
  /\ drain \in {"none", "done"}
  /\ \E restored, again \in BOOLEAN :
       /\ ~restored => Fault("restore") /\ tty = "job"
       /\ tty' = IF restored \/ again THEN "shell" ELSE tty
       /\ result' = IF failed \/ ~restored THEN "error" ELSE IF exceeded THEN "limit" ELSE "ok"
  /\ main' = "returned"
  /\ UNCHANGED <<osVars, index, resumes, failed, captureVars>>

finished == main = "returned" /\ UNCHANGED vars

-----------------------------------------------------------------------------
Executor ==
  \/ create_pipes \/ start_stage \/ start_fails \/ group_is_invalid \/ started
  \/ take_foreground \/ ready \/ wait_for_transition \/ resume_stopped_job
  \/ release_foreground

Children == ProcessNext /\ UNCHANGED <<held, mainVars, captureVars>>

\* A read or a wait that fails although it could go on blocking.
Failures == drain_fails \/ wait_fails

Next ==
  /\ Executor \/ drain_stdout \/ Failures \/ Children \/ finished
  /\ UNCHANGED setup

Spec == Init /\ [][Next]_<<vars, setup>>

\* The executor and the capture thread are threads that run, and no failure is
\* bound to come and free them; a child is bound to do what WellBehaved says, and
\* nothing is assumed of stops.
FairSpec ==
  /\ Spec
  /\ WF_vars(Executor)
  /\ WF_vars(drain_stdout)
  /\ \A i \in 1..MaxStages :
       WF_vars(i \in Stage /\ WellBehaved(i) /\ UNCHANGED <<held, mainVars, captureVars>>)

-----------------------------------------------------------------------------
TypeOK ==
  /\ ProcessTypeOK
  /\ main \in {"pipes", "spawn", "terminal", "ready", "wait", "resume", "returned"}
  /\ index \in 1..(Stages + 1)
  /\ resumes \in 0..AutomaticResumeLimit
  /\ tty \in {"shell", "job"}
  /\ failed \in BOOLEAN /\ exceeded \in BOOLEAN
  /\ result \in {"none", "ok", "error", "limit"}
  /\ drain \in {"none", "first", "signal", "signalEnd", "reading", "done"}
  /\ retained \in Nat /\ drained \in Nat

\* The terminal is the job's only while the executor waits for it; it is back
\* when the executor returns, unless taking it back failed and was reported.
TerminalBack ==
  /\ tty = "job" => main \in {"ready", "wait", "resume", "returned"}
  /\ main = "returned" /\ tty = "job" => result = "error"

\* Every child that was started has been waited for when the executor returns;
\* a background start hands them over instead.
NothingIsLeft ==
  main = "returned" /\ ~(Mode = "background" /\ result = "ok") =>
    \A i \in Stage : child[i] = "absent" \/ i \in reaped

\* No child outlives the executor that started it: an error is returned only
\* after every child that was spawned has been ended and waited, and a
\* foreground success only after every child has been waited.  (The exceptions are
\* a refused hand-over of the terminal and a wait that fails.)
NoStrays == setup.faults \cap {"terminal", "wait"} = {} => NothingIsLeft

\* While the executor blocks, the shell holds no end of any pipe but the
\* reading end the capture thread is draining: a kept writing end would hide
\* the end of file from the next stage, a kept reading end the broken pipe.
HoldsOnlyTheDrain ==
  main \in {"terminal", "ready", "wait", "resume"} =>
    held \subseteq (IF Mode = "capture" THEN {<<Stages, "r">>} ELSE {})

\* The state is one of the program's, and TerminalBack, NoStrays and HoldsOnlyTheDrain.
PipelineConsistent == TypeOK /\ TerminalBack /\ NoStrays /\ HoldsOnlyTheDrain

\* A capture never reports success with part of the output: what the last
\* child wrote was read to its end and is retained, or the limit is reported.
NoTruncatedSuccess ==
  main = "returned" /\ Mode = "capture" =>
    /\ result = "ok" => retained = wrote[Stages] /\ retained <= CaptureLimit
    /\ result = "limit" => retained = CaptureLimit /\ wrote[Stages] > CaptureLimit

\* A pipeline of well-behaved children returns, whatever its pipes hold and, when
\* nothing is captured and no wait fails, however often the terminal stops it.
PipelineEnds ==
  setup.max_stops = 0 \/ (Mode # "capture" /\ ~Fault("wait")) => <>(main = "returned")

-----------------------------------------------------------------------------
(* What the code says of itself, and it does not do. *)

\* execute.rs:766 says of a stop that "leaving one stopped would strand a process
\* the session cannot reach"; but the children of a capture are waited for only
\* after its first byte.
EveryPipelineEnds == <>(main = "returned")
=============================================================================
