--------------------------- MODULE BackgroundJobs ---------------------------
(***************************************************************************)
(* The session's job table (flash-runtime/src/background.rs,               *)
(* `BackgroundJobs`) and the session thread that owns it, beside the       *)
(* children and observers of JobObservers.                                 *)
(*                                                                         *)
(* Only the session thread touches the table, so its steps interleave with *)
(* the children's and the observers' but not with each other.  `session`   *)
(* is where the thread is: at the prompt, or inside one operation.  An     *)
(* operation that begins with `apply_pending_observations` drains the      *)
(* channel one observation per step and goes on when it finds it empty     *)
(* (which operation it is matters only then, and is chosen then); each     *)
(* signal is delivered in a step of its own.                               *)
(***************************************************************************)
EXTENDS JobObservers, FiniteSets

CONSTANT AutomaticResumeLimit   \* AUTOMATIC_RESUME_LIMIT

\* Kill's signals; Terminate stands for hang-up and interrupt too, which
\* `signal_job` treats alike.
Signals     == {"Continue", "Terminate", "Kill", "Stop"}
AllCommands == {"background", "foreground", "fg", "bg", "wait", "join", "hangup"} \cup Signals

None == "None"      \* no completion yet

\* Beyond what JobObservers needs, a setup has
\* jobs        the identities that are allocated, a bound
\* pipelines   the process sets a started pipeline may have, finite
\* pipefail    does the status of a pipeline stop at a failure?
\* commands    what the session is asked to do
\* terminal_may_refuse  may the host refuse to give the terminal back?
ASSUME TableAssumption ==
  /\ AutomaticResumeLimit \in Nat
  /\ None \notin Status
  /\ \A s \in Setups :
       /\ s.jobs \subseteq JobId
       /\ s.pipelines \subseteq (SUBSET Process) \ {{}}
       /\ \A members \in s.pipelines : IsFiniteSet(members)
       /\ s.pipefail \in BOOLEAN /\ s.terminal_may_refuse \in BOOLEAN
       /\ s.commands \subseteq AllCommands

Asks(command) == command \in setup.commands

Shell == 0          \* the shell as owner of the terminal

VARIABLES job,                \* each job's lifecycle record
          completion,         \* its aggregate status once completed
          observation_failed, \* is the record quarantined?
          resume_requested,   \* did the exit path already send a continue?
          notices,            \* the notice queue
          next_job,           \* the next job identity
          tty,                \* the terminal: whose process group owns it, and whether
                              \* the host ever refused to give it back
          session,            \* where the session thread is
          failures,           \* failures collected by the current wait
          reported            \* the failures the session returns at its end

tableVars == <<job, completion, observation_failed, resume_requested, notices>>
exitVars  == <<failures, reported>>
vars      == <<childVars, tableVars, next_job, tty, session, exitVars>>

-----------------------------------------------------------------------------
\* The keys of the job table: published, and not yet reaped.
records   == {j \in JobId : job[j].state \in Published \cup {"Completed"}}
Live(j)   == j \in records /\ completion[j] = None /\ ~observation_failed[j]
IsStopped(j) == job[j].state = "Stopped"

Least(S) == CHOOSE x \in S : \A y \in S : x <= y
\* A finite set of job identities in increasing order.
InOrder(S) == CHOOSE s \in [1..Cardinality(S) -> S] :
                \A a, b \in 1..Cardinality(S) : a < b => s[a] < s[b]

NoticeKind == {"Started", "Stopped", "Completed", "ObservationFailed"}
Notice     == [job : JobId, kind : NoticeKind]
Failure    == [job : JobId, reason : {"Exited", "Observation", "Signal"}]

\* What `retain` leaves of the queue: the notices at the given places, in order.
Retained(queue, places) ==
  LET order == InOrder(places) IN [n \in DOMAIN order |-> queue[order[n]]]

Without(queue, j, kinds) ==
  Retained(queue, {i \in DOMAIN queue : queue[i].job # j \/ queue[i].kind \notin kinds})

\* The pipeline's status from its members' (`aggregate_statuses`): the last
\* member's, or under pipefail the last unsuccessful one's.
AggregateStatus(j) ==
  LET failing == {p \in Members(j) : j.members[p] # Ok}
      Last(S) == CHOOSE p \in S : \A q \in S : q <= p
  IN  j.members[IF setup.pipefail /\ failing # {} THEN Last(failing) ELSE Last(Members(j))]

-----------------------------------------------------------------------------
(* `apply_observation`. *)
\* Mutant: a continuation counts only for a stopped job.
ObserveMutant(j, p, seen) ==
  CASE seen \in Signal -> ObserveStopped(j, p, seen)
    [] seen = Running  -> IF j.state = "Stopped" THEN ObserveContinued(j, p) ELSE j
    [] seen \in Status -> ObserveCompleted(j, p, seen)

Observe(j, p, seen) ==
  CASE seen \in Signal -> ObserveStopped(j, p, seen)
    [] seen = Running  -> ObserveContinued(j, p)
    [] seen \in Status -> ObserveCompleted(j, p, seen)

queue_notice(j, kind) ==
  Append(IF kind \in {"Stopped", "Completed"}
           THEN Without(notices, j, {"Stopped", "Completed"}) ELSE notices,
         [job |-> j, kind |-> kind])

\* Mutant: a continuation leaves the flag set.
ResumeSettledMutant(seen, accepted, newlyStopped) == seen \in Signal /\ newlyStopped

\* A continuation, or a stop that no resume has answered yet.
ResumeSettled(seen, accepted, newlyStopped) ==
  \/ accepted /\ seen = Running
  \/ seen \in Signal /\ newlyStopped

apply_observation(e) ==
  LET j        == e.job
      accepted == e.seen # Failed /\ CanObserve(job[j], e.process)
      new      == IF accepted THEN Observe(job[j], e.process, e.seen) ELSE job[j]
      became(state) == job[j].state # state /\ new.state = state
      quarantined   == e.seen = Failed /\ j \in records /\ ~observation_failed[j]
  IN  /\ job' = [job EXCEPT ![j] = new]
      /\ completion' = [completion EXCEPT
                          ![j] = IF became("Completed") THEN AggregateStatus(new) ELSE @]
      /\ observation_failed' = [observation_failed EXCEPT ![j] = @ \/ quarantined]
      /\ resume_requested' =
           [resume_requested EXCEPT
              ![j] = @ /\ ~ResumeSettled(e.seen, accepted, became("Stopped"))]
      /\ notices' =
           CASE became("Completed")              -> queue_notice(j, "Completed")
             [] became("Stopped")                -> queue_notice(j, "Stopped")
             [] quarantined                      -> queue_notice(j, "ObservationFailed")
             [] accepted /\ e.seen = Running     -> Without(notices, j, {"Stopped"})
             [] OTHER                            -> notices

\* Take one observation from the channel and apply it.
receive ==
  /\ events # <<>>
  /\ events' = Tail(events)
  /\ apply_observation(Head(events))
  /\ UNCHANGED <<kernelVars, observer>>

-----------------------------------------------------------------------------
(* The session thread. *)
AtPrompt == [at       |-> "prompt",
             job      |-> Shell,        \* the operation's job
             previous |-> Shell,        \* the terminal guard's previous owner
             signal   |-> "Continue",   \* signal_job's signal
             selected |-> <<>>,         \* wait's jobs
             index    |-> 0,            \* resume_wait_targets' position
             stopped  |-> {},           \* ... its stopped_members
             resumes  |-> [j \in JobId |-> [p \in Process |-> 0]],
             todo     |-> {},           \* jobs still to be signalled at exit
             hanging  |-> FALSE]        \* leaving through hang_up_all?

Goto(label) == session' = [session EXCEPT !.at = label]
Finish      == session' = AtPrompt

Init ==
  /\ ChildInit
  /\ job = [j \in JobId |-> NewJob]
  /\ completion = [j \in JobId |-> None]
  /\ observation_failed = [j \in JobId |-> FALSE]
  /\ resume_requested = [j \in JobId |-> FALSE]
  /\ notices = <<>>
  /\ next_job = 1
  /\ tty = [owner |-> Shell, refused |-> FALSE]
  /\ session = AtPrompt
  /\ failures = <<>>
  /\ reported = <<>>

\* Where the thread drains the channel without blocking before it goes on.
Draining == {"pending", "waitResume", "waitSignal"}

apply_pending_observations ==
  /\ session.at \in Draining
  /\ receive
  /\ UNCHANGED <<next_job, tty, session, exitVars>>

Drained(label) == session.at = label /\ events = <<>>

-----------------------------------------------------------------------------
(* The terminal guard (flash-platform-posix, `PosixForegroundTerminalGuard`). *)
\* The terminal is handed over, and the guard remembers who had it.
enter_foreground(label, j) ==
  /\ tty' = [owner |-> j, refused |-> tty.refused]
  /\ session' = [AtPrompt EXCEPT !.at = label, !.job = j, !.previous = tty.owner]

\* The guard gives it back to whom it came from; a refused attempt is made once
\* more when the guard is dropped, and then the operation ends without.
restore ==
  \/ tty' = [owner |-> session.previous, refused |-> tty.refused]
  \/ setup.terminal_may_refuse /\ tty' = [owner |-> tty.owner, refused |-> TRUE]

-----------------------------------------------------------------------------
(* Starting jobs. *)
publish(j, members, placement) ==
  LET starting == [BeginStarting(NewJob) EXCEPT
                     !.members = [p \in Process |-> IF p \in members THEN Running ELSE Absent]]
  IN  job' = [job EXCEPT ![j] = FinishStarting(starting, placement)]

start ==
  /\ session.at = "prompt"
  /\ Asks("background")
  /\ next_job \in setup.jobs
  /\ next_job' = next_job + 1
  /\ \E members \in setup.pipelines :
       /\ SpawnGroup(next_job, members)
       /\ publish(next_job, members, "Background")
  /\ notices' = Append(notices, [job |-> next_job, kind |-> "Started"])
  /\ UNCHANGED <<completion, observation_failed, resume_requested, tty, session, exitVars>>

start_foreground ==
  /\ session.at = "prompt"
  /\ Asks("foreground")
  /\ next_job \in setup.jobs
  /\ next_job' = next_job + 1
  /\ \E members \in setup.pipelines :
       /\ SpawnGroup(next_job, members)
       /\ publish(next_job, members, "Foreground")
  /\ enter_foreground("fgWait", next_job)
  /\ UNCHANGED <<completion, observation_failed, resume_requested, notices, exitVars>>

\* The observers cannot be prepared, the pipeline cannot be started, or the
\* terminal cannot be handed over: what was started is terminated and waited,
\* and only the reserved identity is gone.
start_fails ==
  /\ session.at = "prompt"
  /\ next_job \in setup.jobs
  /\ next_job' = next_job + 1
  /\ UNCHANGED <<childVars, tableVars, tty, session, exitVars>>

-----------------------------------------------------------------------------
(* Foreground jobs. *)

consume_waited_completion(js) ==
  /\ notices' = Retained(notices, {i \in DOMAIN notices : notices[i].job \notin js})
  /\ job' = [j \in JobId |-> IF j \in js THEN MarkReaped(MarkNotified(job[j])) ELSE job[j]]

\* One turn of `wait_for_foreground`; on every way out the terminal guard
\* restores the terminal.
wait_for_foreground ==
  /\ session.at = "fgWait"
  /\ LET j == session.job
     IN  \/ /\ ~observation_failed[j] /\ completion[j] = None /\ ~IsStopped(j)
            /\ receive
            /\ UNCHANGED <<next_job, tty, session, exitVars>>
         \/ /\ observation_failed[j] \/ (completion[j] = None /\ IsStopped(j))
            /\ restore /\ Finish
            /\ UNCHANGED <<childVars, tableVars, next_job, exitVars>>
         \/ /\ ~observation_failed[j] /\ completion[j] # None
            /\ consume_waited_completion({j})
            /\ restore /\ Finish
            /\ UNCHANGED <<childVars, completion, observation_failed, resume_requested,
                           next_job, exitVars>>

Foregroundable(j) ==
  /\ j \in records /\ ~observation_failed[j] /\ completion[j] = None
  /\ job[j].state \in {"Stopped", "Background"}

\* `foreground_job` up to the terminal hand-over, which may be refused.
foreground_job(j) ==
  /\ Drained("pending")
  /\ Foregroundable(j)
  /\ IF IsStopped(j)
       THEN enter_foreground("fgContinue", j) /\ UNCHANGED job
       ELSE enter_foreground("fgWait", j) /\ job' = [job EXCEPT ![j] = MoveTo(@, "Foreground")]
  /\ UNCHANGED <<childVars, completion, observation_failed, resume_requested,
                 notices, next_job, exitVars>>

\* Mutant: the stopped notice of a continued job stays queued.
continue_jobMutant(j, placement) ==
  /\ ContinueGroup(j)
  /\ job' = [job EXCEPT ![j] = ContinueIn(@, placement)]
  /\ resume_requested' = [resume_requested EXCEPT ![j] = FALSE]
  /\ UNCHANGED <<observer, events, completion, observation_failed, notices>>

\* A delivered continue, recorded in the table.
continue_job(j, placement) ==
  /\ ContinueGroup(j)
  /\ job' = [job EXCEPT ![j] = ContinueIn(@, placement)]
  /\ resume_requested' = [resume_requested EXCEPT ![j] = FALSE]
  /\ notices' = Without(notices, j, {"Stopped"})
  /\ UNCHANGED <<observer, events, completion, observation_failed>>

\* Mutant: a refused continue leaves the terminal with the job.
foreground_continueMutant ==
  /\ session.at = "fgContinue"
  /\ \/ /\ GroupExists(session.job)
        /\ continue_job(session.job, "Foreground")
        /\ Goto("fgWait")
        /\ UNCHANGED <<next_job, tty, exitVars>>
     \/ Finish /\ UNCHANGED <<childVars, tableVars, next_job, tty, exitVars>>

\* The saved terminal mode is applied, which may be refused, and the group is
\* continued, which fails when it is gone; both failures restore the terminal.
foreground_continue ==
  /\ session.at = "fgContinue"
  /\ \/ /\ GroupExists(session.job)
        /\ continue_job(session.job, "Foreground")
        /\ Goto("fgWait")
        /\ UNCHANGED <<next_job, tty, exitVars>>
     \/ /\ restore /\ Finish
        /\ UNCHANGED <<childVars, tableVars, next_job, exitVars>>

-----------------------------------------------------------------------------
(* `signal_job`: the builtins bg (Continue, rejecting a quarantined record) *)
(* and kill (any signal, delivering to one).                                *)
signal_job(j, signal, policy) ==
  /\ Drained("pending")
  /\ j \in records
  /\ observation_failed[j] => policy = "Deliver"
  /\ LET stopped == ~observation_failed[j] /\ IsStopped(j)
     IN  /\ signal = "Continue" /\ ~observation_failed[j] => stopped
         /\ session' = [AtPrompt EXCEPT
                          !.at = IF stopped /\ signal = "Terminate"
                                   THEN "signalContinue" ELSE "signalDeliver",
                          !.job = j, !.signal = signal]
  /\ UNCHANGED <<childVars, tableVars, next_job, tty, exitVars>>

\* A stopped group is continued before a terminating signal.
signal_continue ==
  /\ session.at = "signalContinue"
  /\ IF GroupExists(session.job)
       THEN ContinueGroup(session.job) /\ Goto("signalDeliver")
       ELSE UNCHANGED kernelVars /\ Finish
  /\ UNCHANGED <<observer, events, tableVars, next_job, tty, exitVars>>

signal_deliver ==
  /\ session.at = "signalDeliver"
  /\ LET j == session.job
         effect == CASE session.signal = "Terminate" -> UNCHANGED kernelVars
                     [] session.signal = "Kill"      -> KillGroup(j)
                     [] session.signal = "Stop"      -> StopGroup(j)
                     [] session.signal = "Continue"  -> ContinueGroup(j)
     IN  IF ~GroupExists(j)
           THEN UNCHANGED <<childVars, tableVars>>
         ELSE IF session.signal = "Continue" /\ ~observation_failed[j]
           THEN continue_job(j, "Background")
         ELSE effect /\ UNCHANGED <<observer, events, tableVars>>
  /\ Finish
  /\ UNCHANGED <<next_job, tty, exitVars>>

-----------------------------------------------------------------------------
(* `wait_for_jobs`. *)
Selected == {session.selected[i] : i \in DOMAIN session.selected}

\* Fix the selection: the written jobs, or every observable record.
wait_for_jobs(written) ==
  /\ Drained("pending")
  /\ \A i \in DOMAIN written : written[i] \in records /\ ~observation_failed[written[i]]
  /\ LET selected == IF written = <<>>
                       THEN InOrder({j \in records : ~observation_failed[j]}) ELSE written
     IN  /\ selected # <<>>
         /\ session' = [AtPrompt EXCEPT !.at = "waitResume", !.selected = selected, !.index = 1]
  /\ UNCHANGED <<childVars, tableVars, next_job, tty, exitVars>>

\* `resume_wait_targets` for the job at `index`, up to its call of signal_job.
NextTarget == IF session.index = Len(session.selected)
                THEN session' = [session EXCEPT !.at = "waitCheck", !.index = 0]
                ELSE session' = [session EXCEPT !.at = "waitResume", !.index = @ + 1]

resume_wait_target ==
  /\ Drained("waitResume")
  /\ LET j == session.selected[session.index]
         members == {p \in Process : job[j].members[p] \in Signal}
     IN  IF observation_failed[j] THEN Finish
         ELSE IF completion[j] # None \/ ~IsStopped(j) THEN NextTarget
         ELSE IF \E p \in members : session.resumes[j][p] >= AutomaticResumeLimit THEN Finish
         ELSE session' = [session EXCEPT !.at = "waitSignal", !.stopped = members]
  /\ UNCHANGED <<childVars, tableVars, next_job, tty, exitVars>>

\* Its signal_job(Continue), which drains the channel once more: a target that
\* completed meanwhile is no error, any other refusal ends the wait.
wait_signal ==
  /\ Drained("waitSignal")
  /\ LET j == session.selected[session.index]
     IN  IF observation_failed[j] THEN Finish
         ELSE IF IsStopped(j) THEN Goto("waitDeliver")
         ELSE IF completion[j] # None THEN NextTarget
         ELSE Finish
  /\ UNCHANGED <<childVars, tableVars, next_job, tty, exitVars>>

wait_deliver ==
  /\ session.at = "waitDeliver"
  /\ LET j == session.selected[session.index]
         counted == [session.resumes EXCEPT
                       ![j] = [p \in Process |-> IF p \in session.stopped THEN @[p] + 1 ELSE @[p]]]
         last == session.index = Len(session.selected)
     IN  IF GroupExists(j)
           THEN /\ continue_job(j, "Background")
                /\ session' = [session EXCEPT !.at = IF last THEN "waitCheck" ELSE "waitResume",
                                              !.index = IF last THEN 0 ELSE @ + 1,
                                              !.stopped = {}, !.resumes = counted]
           ELSE Finish /\ UNCHANGED <<childVars, tableVars>>
  /\ UNCHANGED <<next_job, tty, exitVars>>

\* `wait_targets_completed`: the first selected job that has not completed
\* decides; a quarantined one ends the wait, an open one blocks it.
wait_check ==
  /\ session.at = "waitCheck"
  /\ LET open == {i \in DOMAIN session.selected :
                    LET j == session.selected[i] IN observation_failed[j] \/ completion[j] = None}
         quarantined == open # {} /\ observation_failed[session.selected[Least(open)]]
     IN  \/ /\ open = {}
            /\ consume_waited_completion(Selected)
            /\ Finish
            /\ UNCHANGED <<childVars, completion, observation_failed, resume_requested>>
         \/ /\ quarantined
            /\ Finish
            /\ UNCHANGED <<childVars, tableVars>>
         \/ /\ open # {} /\ ~quarantined
            /\ receive
            /\ session' = [session EXCEPT !.at = "waitResume", !.index = 1]
  /\ UNCHANGED <<next_job, tty, exitVars>>

-----------------------------------------------------------------------------
(* The prompt: a command is chosen, or a notice is shown and acknowledged. *)
Known == 1..(next_job - 1)
Targets == {s \in [1..0 -> Known] \cup [1..1 -> Known] \cup [1..2 -> Known] :
              \A a, b \in DOMAIN s : s[a] = s[b] => a = b}

\* A job builtin, `jobs` or a refresh begins: the channel is drained.
begin_operation ==
  /\ session.at = "prompt"
  /\ Goto("pending")
  /\ UNCHANGED <<childVars, tableVars, next_job, tty, exitVars>>

\* It only reads the table, or is refused: an unknown, completed, quarantined
\* or ineligible job, a terminal that cannot be handed over, an empty wait.
end_operation ==
  /\ Drained("pending")
  /\ Finish
  /\ UNCHANGED <<childVars, tableVars, next_job, tty, exitVars>>

execute_job_builtin ==
  \/ Asks("fg") /\ \E j \in Known : foreground_job(j)
  \/ Asks("bg") /\ \E j \in Known : signal_job(j, "Continue", "Reject")
  \/ \E j \in Known, signal \in Signals \cap setup.commands : signal_job(j, signal, "Deliver")
  \/ Asks("wait") /\ \E written \in Targets : wait_for_jobs(written)

\* `next_notice` applies observations only until a notice appears.
ShowsNotices == session.at \in {"prompt", "drain"}

next_notice ==
  /\ ShowsNotices
  /\ notices = <<>>
  /\ receive
  /\ UNCHANGED <<next_job, tty, session, exitVars>>

Acknowledge(j, kind) ==
  CASE kind = "Stopped" /\ CanAcknowledgeStopped(j) -> AcknowledgeStopped(j)
    [] kind = "Completed" /\ CanMarkNotified(j)     -> MarkReaped(MarkNotified(j))
    [] OTHER                                        -> j

acknowledge ==
  /\ ShowsNotices
  /\ notices # <<>>
  /\ notices' = Tail(notices)
  /\ LET n == Head(notices) IN job' = [job EXCEPT ![n.job] = Acknowledge(@, n.kind)]
  /\ UNCHANGED <<childVars, completion, observation_failed, resume_requested,
                 next_job, tty, session, exitVars>>

-----------------------------------------------------------------------------
(* The end of a session: a script joins its jobs (`wait_for_quiescence`), an *)
(* interactive shell hangs them up first (`hang_up_all`).                    *)
\* `resume_stopped` fixes the stopped jobs it will signal, then signals them
\* in order.
Unanswered == {j \in JobId : Live(j) /\ IsStopped(j) /\ ~resume_requested[j]}

join_background_jobs ==
  /\ session.at = "prompt"
  /\ Asks("join")
  /\ session' = [session EXCEPT !.at = "resuming", !.todo = Unanswered]
  /\ UNCHANGED <<childVars, tableVars, next_job, tty, exitVars>>

hang_up_background_jobs ==
  /\ session.at = "prompt"
  /\ Asks("hangup")
  /\ session' = [session EXCEPT !.at = "hangResuming", !.todo = Unanswered, !.hanging = TRUE]
  /\ UNCHANGED <<childVars, tableVars, next_job, tty, exitVars>>

\* One delivery of `signal_or_quarantine` with the given effect.
signal_or_quarantine(j, effect) ==
  IF GroupExists(j)
    THEN effect /\ UNCHANGED <<observation_failed, failures>>
    ELSE /\ observation_failed' = [observation_failed EXCEPT ![j] = TRUE]
         /\ failures' = Append(failures, [job |-> j, reason |-> "Signal"])
         /\ UNCHANGED kernelVars

resume_stopped ==
  /\ session.at \in {"resuming", "hangResuming"}
  /\ session.todo # {}
  /\ LET j == Least(session.todo)
     IN  /\ resume_requested' = [resume_requested EXCEPT ![j] = TRUE]
         /\ signal_or_quarantine(j, ContinueGroup(j))
         /\ session' = [session EXCEPT !.todo = @ \ {j}]
  /\ UNCHANGED <<observer, events, job, completion, notices, next_job, tty, reported>>

\* `hang_up_all` fixes the live jobs, hangs each one up and then waits.
hang_up_all ==
  /\ session.at = "hangResuming" /\ session.todo = {}
  /\ session' = [session EXCEPT !.at = "hangUp", !.todo = {j \in JobId : Live(j)}]
  /\ UNCHANGED <<childVars, tableVars, next_job, tty, exitVars>>

hang_up_next ==
  /\ session.at = "hangUp"
  /\ IF session.todo = {}
       THEN /\ session' = [session EXCEPT !.at = "resuming", !.todo = Unanswered]
            /\ reported' = failures /\ failures' = <<>>
            /\ UNCHANGED <<kernelVars, observation_failed>>
       ELSE LET j == Least(session.todo)
            IN  /\ signal_or_quarantine(j, UNCHANGED kernelVars)
                /\ session' = [session EXCEPT !.todo = @ \ {j}]
                /\ UNCHANGED reported
  /\ UNCHANGED <<observer, events, job, completion, resume_requested, notices, next_job, tty>>

\* `collect_failures` appends the records that failed otherwise, by identity.
\* A quarantined record that is already listed keeps its first reason.
FailureOf(j) == [job |-> j, reason |-> IF observation_failed[j] THEN "Observation" ELSE "Exited"]

\* Mutant: only quarantined records are collected.
collect_failuresMutant ==
  LET listed == {failures[i].job : i \in DOMAIN failures}
      order  == InOrder({j \in records \ listed : observation_failed[j]})
  IN  failures \o [i \in DOMAIN order |-> FailureOf(order[i])]

collect_failures ==
  LET listed == {failures[i].job : i \in DOMAIN failures}
      more   == {j \in records \ listed :
                   observation_failed[j] \/ completion[j] \notin {None, Ok}}
      order  == InOrder(more)
  IN  failures \o [i \in DOMAIN order |-> FailureOf(order[i])]

\* `sort_by_key` and `dedup_by_key` on the job: the first entry of each job.
SortedByJob(list) ==
  LET jobs     == InOrder({list[i].job : i \in DOMAIN list})
      first(j) == list[Least({i \in DOMAIN list : list[i].job = j})]
  IN  [i \in DOMAIN jobs |-> first(jobs[i])]

\* One turn of the loop of `wait_for_quiescence`, and its end.
wait_for_quiescence ==
  /\ session.at = "resuming" /\ session.todo = {}
  /\ \/ /\ \E j \in JobId : Live(j)
        /\ receive
        /\ session' = [session EXCEPT !.todo = Unanswered']
        /\ UNCHANGED exitVars
     \/ /\ \A j \in JobId : ~Live(j)
        /\ reported' = IF session.hanging THEN SortedByJob(reported \o collect_failures)
                       ELSE collect_failures
        /\ failures' = <<>>
        /\ Goto("drain")
        /\ UNCHANGED <<childVars, tableVars>>
  /\ UNCHANGED <<next_job, tty>>

\* `drain_notices` ends when neither a notice nor an observation is left.
drain_notices ==
  /\ Drained("drain") /\ notices = <<>>
  /\ Goto("done")
  /\ UNCHANGED <<childVars, tableVars, next_job, tty, exitVars>>

ended == session.at = "done" /\ UNCHANGED vars

-----------------------------------------------------------------------------
\* What the session thread does of its own accord once it is in an operation.
Working ==
  \/ apply_pending_observations \/ end_operation \/ execute_job_builtin
  \/ wait_for_foreground \/ foreground_continue
  \/ signal_continue \/ signal_deliver
  \/ resume_wait_target \/ wait_signal \/ wait_deliver \/ wait_check
  \/ resume_stopped \/ hang_up_all \/ hang_up_next
  \/ wait_for_quiescence \/ drain_notices

\* What the user or the script asks of it at the prompt.
Asked ==
  \/ start \/ start_foreground \/ start_fails
  \/ begin_operation
  \/ join_background_jobs \/ hang_up_background_jobs

Showing == next_notice \/ acknowledge

Children == ChildNext /\ UNCHANGED <<tableVars, next_job, tty, session, exitVars>>

Next ==
  /\ Working \/ Asked \/ Showing \/ Children \/ ended
  /\ UNCHANGED setup

Spec == Init /\ [][Next]_<<vars, setup>>

\* Fairness.  The session thread and the observers are ordinary threads.  A
\* child that nobody stops ends at last: the shell waits without a deadline,
\* so nothing is promised about a child that runs forever.
InTable(step) == step /\ UNCHANGED <<tableVars, next_job, tty, session, exitVars>>

Fairness ==
  /\ WF_vars(Working)
  /\ WF_vars(session.at = "drain" /\ Showing)
  /\ \A j \in JobId, p \in Process :
       /\ WF_vars(InTable(ObserverWaits(j, p)))
       /\ WF_vars(InTable(ObserverSends(j, p)))
       /\ WF_vars(InTable(\E st \in Status : ChildExits(j, p, st)))

FairSpec == Spec /\ Fairness

-----------------------------------------------------------------------------
Labels == {"prompt", "fgContinue", "fgWait", "signalContinue", "signalDeliver", "waitDeliver",
           "waitCheck", "resuming", "hangResuming", "hangUp",
           "drain", "done"} \cup Draining

\* The table, the queue and the session thread have the shapes of the code's.
TypeOK ==
  /\ ChildTypeOK
  /\ job \in [JobId -> Job]
  /\ completion \in [JobId -> Status \cup {None}]
  /\ observation_failed \in [JobId -> BOOLEAN]
  /\ resume_requested \in [JobId -> BOOLEAN]
  /\ notices \in Seq(Notice)
  /\ next_job \in Nat \ {0}
  /\ tty \in [owner : JobId \cup {Shell}, refused : BOOLEAN]
  /\ session.at \in Labels /\ session.todo \subseteq JobId /\ session.job \in JobId \cup {Shell}
  /\ failures \in Seq(Failure) /\ reported \in Seq(Failure)

NoticesOf(j, kinds) == {i \in DOMAIN notices : notices[i].job = j /\ notices[i].kind \in kinds}

\* The notice queue and the job table never drift apart, whatever stops,
\* continuations, acknowledgements, waits and signals come in between: a
\* stopped job whose stop nobody saw has exactly one Stopped notice, an
\* unacknowledged completion exactly one Completed notice, no other job has
\* either, and no notice outlives its record (`queue_notice`, the `retain`
\* calls, `acknowledge`).
NoticeQueueAgrees ==
  \A j \in JobId :
    /\ Cardinality(NoticesOf(j, {"Stopped"})) =
         (IF j \in records /\ IsStopped(j) /\ job[j].notice THEN 1 ELSE 0)
    /\ Cardinality(NoticesOf(j, {"Completed"})) = (IF job[j].state = "Completed" THEN 1 ELSE 0)
    /\ j \notin records => NoticesOf(j, NoticeKind) = {}

\* The table's status of a job is set exactly when its lifecycle record is
\* completed, and is successful exactly when every member (under pipefail) or
\* the last member in source order (without it) was.
CompletionAgrees ==
  \A j \in records :
    /\ completion[j] # None <=> job[j].state = "Completed"
    /\ completion[j] # None =>
         (completion[j] = Ok <=>
            \A p \in Members(job[j]) :
              setup.pipefail \/ (\A q \in Members(job[j]) : q <= p) => job[j].members[p] = Ok)

\* A continue already sent by the exit path is remembered only while the stop
\* it answers is current.  The completion branch of `apply_observation` queues
\* a Stopped notice without resetting the flag, which is right only if the
\* flag can never be set there.
ResumeAnswersThisStop ==
  \A j \in records : resume_requested[j] => job[j].state \in {"Stopped", "Completed"}

Quiet(j, p) ==
  /\ ~unreported[j][p]
  /\ observer[j][p] \in {Idle, Done}
  /\ \A i \in DOMAIN events : ~(events[i].job = j /\ events[i].process = p)

\* The table converges to the truth: when nothing about a child is on its
\* way, the table holds the state the kernel knows, although the kernel
\* coalesces transitions, `continue_in` writes Running without an observation
\* and `resume_stopped` sends a continue without writing anything.
ViewConverges ==
  \A j \in records, p \in Process :
    Quiet(j, p) /\ ~observation_failed[j] => job[j].members[p] = proc[j][p]

\* No observation is ever dropped: one that is queued or in an observer's
\* hands names an addressable record and a member that has not completed, so
\* `apply_observation` never takes an early return.
EveryObservationCounts ==
  /\ \A i \in DOMAIN events :
       events[i].job \in records /\ job[events[i].job].members[events[i].process] \in {Running} \cup Signal
  /\ \A j \in JobId, p \in Process :
       observer[j][p] \in Observation =>
         j \in records /\ job[j].members[p] \in {Running} \cup Signal

\* The state is one of the program's: its parts agree.
TableConsistent ==
  TypeOK /\ NoticeQueueAgrees /\ CompletionAgrees /\ EveryObservationCounts

\* The terminal belongs to a job only while the session waits for that very job in the
\* foreground: every way out of fg and of a foreground pipeline, errors included, gives
\* it back, also through the guards of later jobs, which return it to the owner they
\* found.  Only where the host itself refused that, twice, it may be elsewhere
\* (background.rs, `foreground_job`, `start_foreground`).
TerminalHome == tty.owner = Shell \/ tty.refused

TerminalReturned ==
  IF session.at \in {"fgContinue", "fgWait"}
    THEN tty.owner = session.job /\ (session.previous = Shell \/ tty.refused)
    ELSE TerminalHome

\* What the drain at the end of a session forgets was reported: no failed job
\* disappears with its notice.
DrainForgetsOnlyReported ==
  [][\A j \in records :
       session.at = "drain" /\ j \notin records' /\ completion[j] # Ok =>
         \E i \in DOMAIN reported : reported[i].job = j]_vars

\* When the session has ended, the only records left are quarantined ones, every
\* child of any other job has been waited, and no job is reported twice, although
\* one can be refused a signal in the hang-up pass and be collected again by the
\* wait that follows.
EndLeavesNothing ==
  session.at = "done" =>
    /\ \A j \in JobId :
         \/ observation_failed[j]
         \/ j \notin records /\ \A p \in Process : proc[j][p] = Absent \/ Waited(j, p)
    /\ \A a, b \in DOMAIN reported : reported[a].job = reported[b].job => a = b

\* The table converges, and nothing is left at the end: ViewConverges and EndLeavesNothing.
TableSettles == ViewConverges /\ EndLeavesNothing

\* `fg`, a foreground pipeline and a `wait` for one job always come back to the prompt: the
\* session is never left blocked on a job that is stopped, gone or waiting for
\* the session itself.
AwaitingJobs == session.at \in {"fgWait", "fgContinue", "waitResume", "waitSignal",
                               "waitDeliver", "waitCheck"}
AwaitEnds == (AwaitingJobs /\ Len(session.selected) <= 1) ~> session.at = "prompt"

-----------------------------------------------------------------------------
(* What the documentation says of the code, and it does not do. *)

\* docs/scripting.md:1157: a stopped selected job "is continued in background
\* placement before waiting", so a wait for several jobs returns too.
WaitEnds == session.at = "waitResume" ~> session.at = "prompt"

\* docs/scripting.md:1088: a stopped job "is continued before the script waits for
\* it", so a session that ends, ends.
JoinEnds == session.at = "resuming" ~> session.at = "done"

\* session.rs:319-320: a successful job produces no entry at the end of the session.
SuccessIsSilent ==
  session.at = "done" => \A i \in DOMAIN reported : completion[reported[i].job] # Ok

\* session.rs:319: the failures of a join come in job-identity order.
ReportedInOrder ==
  session.at = "done" =>
    \A a, b \in DOMAIN reported : a < b => reported[a].job < reported[b].job

\* docs/scripting.md:1229: a job that runs in foreground placement owns the terminal.
ForegroundOwnsTerminal ==
  \A j \in records : job[j].state = "Foreground" => tty.owner = j

\* background.rs:1505: the guard "restores the shell on completion, another stop", and so
\* on: an operation that is refused nothing leaves the terminal with the shell.
RestoresTheShell ==
  [][session.at \in {"fgContinue", "fgWait"} /\ session'.at = "prompt" /\ tty'.refused = tty.refused
       => tty'.owner = Shell]_vars
=============================================================================
