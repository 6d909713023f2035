------------------------------ MODULE CookTui ------------------------------
(***************************************************************************)
(* `repo cook` with the text interface (src/bin/repo.rs, run_tui_cook): a  *)
(* fetcher thread fetches the recipes in order and hands them to a cooker  *)
(* thread, both report to the interface through one channel, and a failed  *)
(* thread asks the user what to do through one shared atomic, `prompting`. *)
(*                                                                         *)
(* Fetching and cooking succeed or fail; a recipe that is skipped has its  *)
(* stage directories removed.  Logs are left out.                          *)
(***************************************************************************)
EXTENDS Naturals, Sequences

CONSTANT Setups     \* the runs, see below

Thread == {"fetch", "cook"}
Answer == {"retry", "skip", "exit"}

\* recipes        how many recipes there are
\* nonstop        COOKBOOK_NONSTOP
\* failing        the threads whose work may fail
\* max_failures   bound: how often work fails
ASSUME TuiAssumption == \A s \in Setups :
  /\ s.recipes \in Nat \ {0} /\ s.max_failures \in Nat
  /\ s.nonstop \in BOOLEAN /\ s.failing \subseteq Thread

VARIABLE setup      \* the one of this behaviour

Recipes == setup.recipes
Recipe == 1..Recipes
Nonstop == setup.nonstop
Failing == setup.failing

VARIABLES pc,        \* where each thread is
          at,        \* the recipe it works on
          got,       \* the answer it has loaded
          work,      \* the recipes handed to the cooker
          prompting, \* the shared atomic: 0, 1 (asked) or an answer
          status,    \* the updates on their way to the interface
          phase,     \* where the interface's loop is
          running,   \* its `running` flag
          shown,     \* TuiApp.recipes: the status shown of each recipe
          prompt,    \* TuiApp.prompt: empty, or the failure it is about
          active,    \* TuiApp.active_fetch and active_cook (0 is none)
          view,      \* TuiApp.log_view_job
          cook_complete,
          dumped,    \* TuiApp.dump_logs_on_exit
          result,    \* what `repo` ends with
          outcome,   \* what became of each recipe (history)
          staged,    \* the recipes whose failed stage was not removed
          answered,  \* the last answer, the failure it was given to and what `prompting`
                     \* was by then (history)
          failures

threadVars  == <<pc, at, got, work, outcome, staged>>
appVars     == <<phase, running, shown, prompt, active, view, cook_complete, dumped, result>>
vars == <<threadVars, appVars, prompting, status, answered, failures>>

Init ==
  /\ setup \in Setups
  /\ pc = [t \in Thread |-> "next"] /\ at = [t \in Thread |-> 0]
  /\ got = [t \in Thread |-> "none"] /\ work = <<>>
  /\ prompting = "free" /\ status = <<>>
  /\ phase = "input" /\ running = TRUE
  /\ shown = [r \in Recipe |-> "Pending"] /\ prompt = <<>>
  /\ active = [t \in Thread |-> 0] /\ view = "fetch"
  /\ cook_complete = FALSE /\ dumped = FALSE /\ result = "none"
  /\ outcome = [r \in Recipe |-> "none"] /\ staged = {}
  /\ answered = <<>> /\ failures = 0

-----------------------------------------------------------------------------
(* The threads. *)
Update(kind, t, r) == [kind |-> kind, thread |-> t, recipe |-> r]
Send(update) == status' = Append(status, update)

\* The thread's loop is left: the fetcher drops the sending end of `work`.
Finish(t) ==
  /\ pc' = [pc EXCEPT ![t] = "done"]
  /\ Send(Update("finished", t, 0))

start_fetch ==
  /\ pc["fetch"] = "next"
  /\ IF at["fetch"] = Recipes
     THEN Finish("fetch") /\ UNCHANGED at
     ELSE /\ at' = [at EXCEPT !["fetch"] = @ + 1]
          /\ pc' = [pc EXCEPT !["fetch"] = "busy"]
          /\ Send(Update("start", "fetch", at["fetch"] + 1))
  /\ UNCHANGED <<got, work, outcome, staged, appVars, prompting, answered, failures>>

start_cook ==
  /\ pc["cook"] = "next"
  /\ \/ /\ work # <<>>
        /\ work' = Tail(work)
        /\ at' = [at EXCEPT !["cook"] = Head(work)]
        /\ pc' = [pc EXCEPT !["cook"] = "busy"]
        /\ Send(Update("start", "cook", Head(work)))
     \/ /\ work = <<>> /\ pc["fetch"] = "done"
        /\ Finish("cook")
        /\ UNCHANGED <<at, work>>
  /\ UNCHANGED <<got, outcome, staged, appVars, prompting, answered, failures>>

\* `handle_fetch` succeeded; the recipe is handed over unless the cooker died.
fetched ==
  /\ pc["fetch"] = "busy"
  /\ outcome' = [outcome EXCEPT ![at["fetch"]] = "fetched"]
  /\ IF pc["cook"] = "done"
     THEN /\ status' = status \o <<Update("ok", "fetch", at["fetch"]), Update("finished", "fetch", 0)>>
          /\ pc' = [pc EXCEPT !["fetch"] = "done"]
          /\ UNCHANGED work
     ELSE /\ Send(Update("ok", "fetch", at["fetch"]))
          /\ work' = Append(work, at["fetch"])
          /\ pc' = [pc EXCEPT !["fetch"] = "handed"]
  /\ UNCHANGED <<at, got, staged, appVars, prompting, answered, failures>>

cooked ==
  /\ pc["cook"] = "busy"
  /\ outcome' = [outcome EXCEPT ![at["cook"]] = "cooked"]
  /\ staged' = staged \ {at["cook"]}
  /\ Send(Update("ok", "cook", at["cook"]))
  /\ pc' = [pc EXCEPT !["cook"] = "handed"]
  /\ UNCHANGED <<at, got, work, appVars, prompting, answered, failures>>

\* A nonstop run looks for an exit after every recipe.
look_for_exit(t) ==
  /\ pc[t] = "handed"
  /\ IF Nonstop /\ prompting = "exit"
     THEN Finish(t)
     ELSE pc' = [pc EXCEPT ![t] = "next"] /\ UNCHANGED status
  /\ UNCHANGED <<at, got, work, outcome, staged, appVars, prompting, answered, failures>>

\* Mutant: the failure is not reported to the interface.
failsMutant(t) ==
  /\ pc[t] = "busy" /\ t \in Failing /\ failures < setup.max_failures
  /\ failures' = failures + 1
  /\ outcome' = [outcome EXCEPT ![at[t]] = "failed"]
  /\ staged' = staged \cup {at[t]}
  /\ pc' = [pc EXCEPT ![t] = "failed"]
  /\ UNCHANGED <<status, at, got, work, appVars, prompting, answered>>

fails(t) ==
  /\ pc[t] = "busy" /\ t \in Failing /\ failures < setup.max_failures
  /\ failures' = failures + 1
  /\ outcome' = [outcome EXCEPT ![at[t]] = "failed"]
  /\ staged' = staged \cup {at[t]}
  /\ Send(Update("fail", t, at[t]))
  /\ pc' = [pc EXCEPT ![t] = "failed"]
  /\ UNCHANGED <<at, got, work, appVars, prompting, answered>>

\* A nonstop run removes the stage of the failed recipe and goes on.

skip_in_nonstop(t) ==
  /\ pc[t] = "failed" /\ Nonstop
  /\ IF prompting = "exit"
     THEN Finish(t) /\ UNCHANGED staged
     ELSE /\ staged' = staged \ {at[t]}
          /\ pc' = [pc EXCEPT ![t] = "next"]
          /\ UNCHANGED status
  /\ UNCHANGED <<at, got, work, outcome, appVars, prompting, answered, failures>>

\* Wait for the other prompt: a load, and later a swap.
wait_other_prompt(t) ==
  /\ pc[t] = "failed" /\ ~Nonstop
  /\ prompting = "free"
  /\ pc' = [pc EXCEPT ![t] = "asking"]
  /\ UNCHANGED <<at, got, work, outcome, staged, appVars, prompting, status, answered, failures>>

ask(t) ==
  /\ pc[t] = "asking"
  /\ prompting' = "asked"
  /\ pc' = [pc EXCEPT ![t] = "wait"]
  /\ UNCHANGED <<at, got, work, outcome, staged, appVars, status, answered, failures>>

\* The answer is loaded; 0 means that another thread took it: go on.
load_answer(t) ==
  /\ pc[t] = "wait" /\ prompting # "asked"
  /\ pc' = [pc EXCEPT ![t] = IF prompting = "free" THEN "next" ELSE "answered"]
  /\ got' = [got EXCEPT ![t] = IF prompting = "free" THEN "none" ELSE prompting]
  /\ UNCHANGED <<at, work, outcome, staged, appVars, prompting, status, answered, failures>>

\* The atomic is freed and the answer obeyed.
take_answer(t) ==
  /\ pc[t] = "answered"
  /\ prompting' = "free"
  /\ got' = [got EXCEPT ![t] = "none"]
  /\ CASE got[t] = "retry" -> /\ pc' = [pc EXCEPT ![t] = "busy"]
                              /\ Send(Update("start", t, at[t]))
                              /\ UNCHANGED staged
       [] got[t] = "skip"  -> /\ pc' = [pc EXCEPT ![t] = "next"]
                              /\ staged' = staged \ {at[t]}
                              /\ UNCHANGED status
       [] got[t] = "exit"  -> Finish(t) /\ UNCHANGED staged
  /\ UNCHANGED <<at, work, outcome, appVars, answered, failures>>

-----------------------------------------------------------------------------
(* The interface. *)

\* Mutant: the answered prompt stays.
pressMutant(answer) ==
  /\ phase = "input" /\ prompt # <<>>
  /\ prompting' = answer
  /\ answered' = <<prompt[1], prompt[2], answer, prompting>>
  /\ IF answer = "exit"
     THEN running' = FALSE /\ dumped' = (active[view] # 0)
     ELSE UNCHANGED <<running, dumped>>
  /\ UNCHANGED <<prompt, threadVars, phase, shown, active, view, cook_complete, result, status, failures>>

\* The user answers the prompt, whether or not the failed thread has asked yet.
press(answer) ==
  /\ phase = "input" /\ prompt # <<>>
  /\ prompting' = answer
  /\ answered' = <<prompt[1], prompt[2], answer, prompting>>
  /\ prompt' = <<>>
  /\ IF answer = "exit"
     THEN running' = FALSE /\ dumped' = (active[view] # 0)
     ELSE UNCHANGED <<running, dumped>>
  /\ UNCHANGED <<threadVars, phase, shown, active, view, cook_complete, result, status, failures>>

\* The keys 1 and 2, without a prompt.
switch_view(t) ==
  /\ phase = "input" /\ prompt = <<>>
  /\ view' = t
  /\ UNCHANGED <<threadVars, phase, running, shown, prompt, active, cook_complete, dumped, result,
                 prompting, status, answered, failures>>

end_input ==
  /\ phase = "input"
  /\ phase' = "drain"
  /\ UNCHANGED <<threadVars, running, shown, prompt, active, view, cook_complete, dumped, result,
                 prompting, status, answered, failures>>

Label(kind, t) ==
  CASE kind = "start" -> IF t = "fetch" THEN "Fetching" ELSE "Cooking"
    [] kind = "ok"    -> IF t = "fetch" THEN "Fetched" ELSE "Done"
    [] kind = "fail"  -> "Failed"

\* `update_status` on the next update.
update_status ==
  /\ phase = "drain" /\ status # <<>>
  /\ status' = Tail(status)
  /\ LET u == Head(status) IN
       IF u.kind = "finished"
       THEN /\ cook_complete' = (cook_complete \/ u.thread = "cook")
            /\ view' = IF u.thread = "fetch" THEN "cook" ELSE view
            /\ UNCHANGED <<shown, prompt, active>>
       ELSE /\ shown' = [shown EXCEPT ![u.recipe] = Label(u.kind, u.thread)]
            /\ prompt' = IF u.kind = "fail" THEN <<u.thread, u.recipe>> ELSE prompt
            /\ active' =
                 CASE u.kind = "start" -> [active EXCEPT ![u.thread] = u.recipe]
                   [] u.kind = "ok" /\ u.thread = "cook" /\ active["cook"] = u.recipe ->
                        [active EXCEPT !["cook"] = 0]
                   [] OTHER -> active
            /\ UNCHANGED <<cook_complete, view>>
  /\ UNCHANGED <<threadVars, phase, running, dumped, result, prompting, answered, failures>>

\* Mutant: the end of the run is not noticed.
end_drain_unnoticedMutant ==
  /\ phase = "drain" /\ status = <<>>
  /\ phase' = IF running THEN "input" ELSE "join"
  /\ UNCHANGED <<threadVars, running, shown, prompt, active, view, cook_complete, dumped, result,
                 prompting, status, answered, failures>>

\* The channel is empty: the loop goes on unless the run is complete or left.
end_drain ==
  /\ phase = "drain" /\ status = <<>>
  /\ running' = (running /\ ~cook_complete)
  /\ phase' = IF running' THEN "input" ELSE "join"
  /\ UNCHANGED <<threadVars, shown, prompt, active, view, cook_complete, dumped, result,
                 prompting, status, answered, failures>>

\* Both threads are joined, and `main` reports each recipe's status.
report ==
  /\ phase = "join" /\ \A t \in Thread : pc[t] = "done"
  /\ phase' = "returned"
  /\ result' = CASE dumped -> "failed"
                 [] ~dumped /\ \A r \in Recipe : shown[r] \in {"Done", "Failed"} -> "reported"
                 [] OTHER -> "unreachable"
  /\ UNCHANGED <<threadVars, running, shown, prompt, active, view, cook_complete, dumped,
                 prompting, status, answered, failures>>

returned == phase = "returned" /\ UNCHANGED vars

-----------------------------------------------------------------------------
Worker(t) ==
  \/ t = "fetch" /\ (start_fetch \/ fetched)
  \/ t = "cook" /\ (start_cook \/ cooked)
  \/ look_for_exit(t) \/ fails(t) \/ skip_in_nonstop(t)
  \/ wait_other_prompt(t) \/ ask(t) \/ load_answer(t) \/ take_answer(t)

Interface == end_input \/ update_status \/ end_drain \/ report

Next ==
  /\ \/ \E t \in Thread : Worker(t) \/ switch_view(t)
     \/ Interface
     \/ \E answer \in Answer : press(answer)
     \/ returned
  /\ UNCHANGED setup

Spec == Init /\ [][Next]_<<vars, setup>>

\* The threads and the loop run, and the user answers a prompt that stays.
FairSpec ==
  /\ Spec
  /\ \A t \in Thread : WF_vars(Worker(t))
  /\ WF_vars(Interface)
  /\ SF_vars(\E answer \in Answer : press(answer))

-----------------------------------------------------------------------------
TypeOK ==
  /\ pc \in [Thread -> {"next", "busy", "handed", "failed", "asking", "wait", "answered", "done"}]
  /\ at \in [Thread -> 0..Recipes]
  /\ got \in [Thread -> Answer \cup {"none"}]
  /\ \A i \in DOMAIN work : work[i] \in Recipe
  /\ prompting \in Answer \cup {"free", "asked"}
  /\ phase \in {"input", "drain", "join", "returned"}
  /\ shown \in [Recipe -> {"Pending", "Fetching", "Fetched", "Cooking", "Done", "Failed"}]
  /\ prompt = <<>> \/ prompt \in Thread \X Recipe
  /\ active \in [Thread -> 0..Recipes] /\ view \in Thread
  /\ running \in BOOLEAN /\ cook_complete \in BOOLEAN /\ dumped \in BOOLEAN
  /\ result \in {"none", "failed", "reported", "unreachable"}

\* The threads do not both stop for an answer.
Apart == Nonstop \/ Failing # Thread

\* The run was left by an answer.
Left == answered # <<>> /\ answered[3] = "exit"

\* A run that is not left reports of every recipe what became of it, and a
\* recipe it reports as failed has kept no stage (handle_nonstop_fail), unless both
\* threads stop for an answer.  `main` reaches its `unreachable!` arm only when a
\* run is left that is nonstop, or whose fetcher may fail.
ReportsTheOutcome ==
  /\ result = "reported" /\ ~Left =>
       \A r \in Recipe :
         /\ shown[r] = IF outcome[r] = "cooked" THEN "Done" ELSE "Failed"
         /\ Apart => r \notin staged
  /\ result = "unreachable" => Left /\ ("fetch" \in Failing \/ Nonstop)

\* The last answer came before its question: the failed thread has sent its failure
\* and not yet set `prompting`.  It then overwrites the answer, or waits for the
\* atomic to be freed, and the prompt that was answered is gone.
Hasty == ~Nonstop /\ answered # <<>> /\ answered[4] # "asked"

\* An answer is obeyed by the thread, and for the recipe, it was given to, where
\* one of the threads fails and not the other.
Obeys(t) == pc[t] = "answered" /\ pc'[t] # "answered" => answered = <<t, at[t], got[t], "asked">>
AnswerReachesItsRecipe == [][Failing # Thread => \A t \in Thread : Obeys(t)]_vars

\* A thread that waits for an answer is shown, or about to be shown, to the
\* user, where the threads do not overwrite each other's failure and the last
\* answer did not come before its question.
WaitIsShown ==
  Failing # Thread /\ ~Hasty => \A t \in Thread :
    pc[t] = "wait" /\ prompting = "asked" /\ phase \in {"input", "drain"} =>
      \/ prompt = <<t, at[t]>>
      \/ \E i \in DOMAIN status : status[i] = Update("fail", t, at[t])

\* The state is one of the program's, WaitIsShown and ReportsTheOutcome.
InterfaceConsistent == TypeOK /\ WaitIsShown /\ ReportsTheOutcome

\* The run returns, whatever fails and whatever the user answers, unless both
\* threads stop for an answer or one comes before its question.
RunEnds == Apart => <>(phase = "returned" \/ Hasty)

-----------------------------------------------------------------------------
\* What the code says of itself, and does not do.

\* "wait other prompt" (repo.rs)
EveryAnswerObeyed == [][\A t \in Thread : Obeys(t)]_vars

\* `_ => unreachable!()` (repo.rs)
UnreachableStays == result # "unreachable"

\* "Treat as Exit" (repo.rs)
EveryRunEnds == <>(phase = "returned")
=============================================================================
