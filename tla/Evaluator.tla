----------------------------- MODULE Evaluator -----------------------------
(***************************************************************************)
(* The tree-walking evaluator of Flash (flash-runtime/src/eval.rs) under   *)
(* the session that owns its state (`submit_parsed` and                    *)
(* `SessionEvaluationHost` of session.rs).                                 *)
(*                                                                         *)
(* The Rust call stack is `control`: one frame for each block, loop, `try` *)
(* and function call in progress, the top-level statement first.  Which    *)
(* statement comes next is chosen freely, so a behaviour is a run of some  *)
(* program.  Statements take effect one at a time; a `?` or a control      *)
(* transfer sets `signal`, which then unwinds the frames one by one.  The  *)
(* data of expressions is left out: an expression yields some datum, calls *)
(* a function, or fails.                                                   *)
(***************************************************************************)
EXTENDS LexicalScope, FiniteSets

CONSTANTS Names,          \* the names of variables
          Functions,      \* the names of functions
          Data,           \* the values variables hold
          Caught,         \* the Error value a catch block binds
          Entries,        \* what `export` can set: environment entries
          StepLimit,      \* ResourceBudget.step_limit of a Flash 2 session
          CallLimit,      \* ResourceBudget.call_depth_limit of a Flash 2 session
          MaxTop,         \* bound: top-level statements of a submission
          MaxStatements,  \* bound: statements of one block, for each kind of frame
          MaxItems,       \* bound: items of a list; a range may have more than anyone waits for
          MaxNesting      \* bound: frames in progress at once

ASSUME EvaluatorAssumption ==
  /\ StepLimit \in Nat /\ CallLimit \in Nat /\ MaxTop \in Nat
  /\ MaxStatements \in [{"block", "while", "for", "try", "call"} -> Nat]
  /\ MaxItems \in Nat /\ MaxNesting \in Nat /\ Data # {}
  /\ Names \cap Functions = {} /\ "script" \notin Functions

VARIABLES policy,     \* EvaluationPolicy: "General" (Flash 1) or "PureV2"
          session,    \* the scope and the state the Session owns
          scope,      \* pending_scope, or the scope of the call in progress
          host,       \* pending_state: environment and working directory, current_status
          control,    \* the frames of the evaluation in progress
          context,    \* whose source, binding types and result type are current
          used,       \* ResourceBudget.used_steps
          depth,      \* ResourceBudget.call_depth
          signal,     \* what the frames are doing, or are unwound by
          cancelled,  \* has the token tripped?
          left        \* the top-level statements that remain

vars == <<policy, session, scope, host, control, context, used, depth, signal, cancelled, left>>
language == <<scope, host>>
limits == <<used, depth>>
outer == <<policy, session, cancelled, left>>

Transfers == {"break", "continue", "return"}
\* The aborts a `try` lets through, and those of them that drop the statement's changes.
Dropping == {"cancelled", "refused", "stopped", "output"}
Fatal == Dropping \cup {"exit"}
Signals == {"idle", "run", "done", "error", "ended"} \cup Transfers \cup Fatal

Statuses == {"none", "some"}     \* current_status: which one does not matter here
Hosts == [entries : SUBSET Entries, status : Statuses]

\* The states a session can be in when it takes a submission: a fresh one, and one in which
\* a variable and a function have been defined.
Defined(n, f) ==
  <<[m \in {n, f} |-> IF m = n THEN Cell(TRUE, CHOOSE d \in Data : TRUE)
                               ELSE Cell(FALSE, [captured |-> <<EmptyFrame>>])]>>

Init == /\ policy \in {"General", "PureV2"}
        /\ scope \in {<<EmptyFrame>>} \cup {Defined(n, f) : n \in Names, f \in Functions}
        /\ host = [entries |-> {}, status |-> "none"]
        /\ session = [scope |-> scope, host |-> host]
        /\ control = <<>> /\ context = "script"
        /\ used = 0 /\ depth = 0
        /\ signal = "idle" /\ cancelled = FALSE /\ left = MaxTop

(***************************************************************************)
(* The budget.  Flash 1 sessions are unlimited, and do not count.          *)
(***************************************************************************)
Limited == policy = "PureV2"
Affords(steps) == Limited => used + steps <= StepLimit
\* Mutant: a condition is not charged.
ChargeMutant(steps) == IF Limited /\ steps > 1 THEN used + steps ELSE used
Charge(steps) == IF Limited THEN used + steps ELSE used

(***************************************************************************)
(* Frames.  `inner` is the depth of the scope a frame's statements run in. *)
(***************************************************************************)
Top == Last(control)
Below == Front(control)

BlockFrame(inner)   == [kind |-> "block", inner |-> inner, left |-> MaxStatements["block"]]
LoopFrame(kind, items) ==
  [kind |-> kind, inner |-> Len(scope), items |-> items, body |-> FALSE, left |-> 0]
TryFrame == [kind |-> "try", inner |-> Len(scope) + 1, left |-> MaxStatements["try"],
             scope |-> scope, host |-> host]
CallFrame(f, inner, then) ==
  [kind |-> "call", inner |-> inner, left |-> MaxStatements["call"], callee |-> f,
   scope |-> scope, context |-> context, then |-> then]

InBody(frame) == /\ frame.kind # "catch"
                 /\ frame.kind \in {"while", "for"} => frame.body

\* A statement of the current frame begins: `statement` charges it, and it charges `steps - 1`
\* expressions.
Begins(steps) ==
  /\ signal = "run" /\ InBody(Top) /\ Top.left > 0 /\ Affords(steps)
  /\ used' = Charge(steps)
Counted == Append(Below, [Top EXCEPT !.left = @ - 1])
Enter(frame) == Len(control) < MaxNesting /\ control' = Append(Counted, frame)

Simple == control' = Counted /\ UNCHANGED <<context, depth>> /\ UNCHANGED outer
Raise(s) == signal' = s

\* `charge` fails: an ordinary error, at the limit.
Exhausted ==
  /\ signal = "run" /\ InBody(Top) /\ Top.left > 0 /\ ~Affords(2)
  /\ used' = StepLimit /\ Raise("error")
  /\ Simple /\ UNCHANGED language

\* An expression, a pattern, a type check or a `throw` fails before the statement does anything.
Fails == Begins(2) /\ Raise("error") /\ Simple /\ UNCHANGED language

(***************************************************************************)
(* Statements without a block.                                             *)
(***************************************************************************)
declaration(n) ==
  /\ Begins(2)
  /\ \/ /\ CanDeclare(scope, n)
        /\ \E mutable \in BOOLEAN, d \in Data : scope' = Declare(scope, n, Cell(mutable, d))
        /\ signal' = signal
     \/ /\ ~CanDeclare(scope, n) /\ UNCHANGED scope /\ Raise("error")
     \/ \* a later part of its pattern fails with an error
        /\ CanDeclare(scope, n)
        /\ \E d \in Data : scope' = Declare(scope, n, Cell(FALSE, d))
        /\ Raise("error")
  /\ UNCHANGED host /\ Simple

Assigned(s, n, d, onward) ==
  IF CanAssign(s, n) THEN scope' = Assign(s, n, d) /\ signal' = onward
                     ELSE scope' = s /\ Raise("error")

assignment(n) ==
  /\ Begins(2)
  /\ \E d \in Data : Assigned(scope, n, d, signal)
  /\ UNCHANGED host /\ Simple

environment(e) ==
  /\ Begins(2)
  /\ IF Limited THEN Raise("refused") /\ UNCHANGED host
     ELSE /\ host' \in {[host EXCEPT !.entries = @ \cup {e}], [host EXCEPT !.entries = @ \ {e}]}
          /\ signal' = signal
  /\ UNCHANGED scope /\ Simple

\* `execute_chain` and `capture_chain`.  The terms of a chain commit the working directory and
\* the environment as they succeed; the status is set once, after the last of them, and by a
\* capture before its bytes are found to be over the limit.  Flash 2 runs `help` and `exit`.
chain ==
  /\ Begins(1)
  /\ IF Limited THEN /\ signal' \in {"refused", "exit", "run", "output"}
                     /\ UNCHANGED host
     ELSE \E entries \in SUBSET Entries, status \in Statuses \ {"none"} :
            \/ host' = [entries |-> entries, status |-> status] /\ signal' \in {"run", "exit", "error"}
            \/ /\ host' = [host EXCEPT !.entries = entries]
               /\ signal' \in {"error", "exit", "stopped", "cancelled", "output"}
  /\ UNCHANGED scope /\ Simple

\* Bound: a function is defined where no function of its name is visible.
function_definition(f) ==
  /\ Begins(1) /\ f \notin Visible(scope)
  /\ scope' = Declare(scope, f, Cell(FALSE, [captured |-> Captured(scope)]))
  /\ UNCHANGED <<host, signal>> /\ Simple

transfer == /\ Begins(1) /\ signal' \in Transfers /\ UNCHANGED language /\ Simple

\* `check_cancel`.
\* Mutant: a `while` is not polled.
TripsMutant == cancelled /\ Top.kind # "while"
Trips == cancelled

(***************************************************************************)
(* Statements with a block.                                                *)
(***************************************************************************)
Compound == UNCHANGED <<context, depth>> /\ UNCHANGED outer

\* A condition that holds, or the arm of a `match` that was selected, which may bind a name.
branch ==
  /\ Begins(2) /\ Enter(BlockFrame(Len(scope) + 1))
  /\ \/ scope' = Push(scope)
     \/ \E n \in Names, d \in Data : scope' = Append(scope, OneCell(n, Cell(FALSE, d)))
  /\ UNCHANGED <<host, signal>> /\ Compound

loop ==
  /\ \/ Begins(1) /\ Enter(LoopFrame("while", 0))
     \/ Begins(2) /\ \E items \in 0..(MaxItems + 1) : Enter(LoopFrame("for", items))
  /\ UNCHANGED <<host, scope, signal>> /\ Compound

try_statement ==
  /\ Begins(1) /\ Enter(TryFrame)
  /\ scope' = Push(scope)
  /\ UNCHANGED <<host, signal>> /\ Compound

\* `call` and `run_call`.  The result is dropped, assigned to a variable, or returned in turn.
call(f, then) ==
  /\ Begins(2)
  /\ IF Trips THEN Raise("cancelled") /\ UNCHANGED language /\ Simple
     ELSE IF f \notin Visible(scope) \/ (Limited /\ depth >= CallLimit)
     THEN Raise("error") /\ UNCHANGED language /\ Simple
     ELSE LET function == Found(scope, f)
              frames == Push(Append(function.value.captured, OneCell(f, function)))
          IN /\ Enter(CallFrame(f, Len(frames) + 1, then))
             /\ scope' = Push(frames)
             /\ context' = f /\ depth' = depth + 1
             /\ signal' \in {"run", "error"}   \* its body runs, or a parameter does not match
             /\ UNCHANGED <<host>> /\ UNCHANGED outer

\* The end of a block.
EndBlock ==
  /\ signal = "run" /\ InBody(Top) /\ (Top.kind = "script" => Top.left = 0)
  /\ Raise("done")
  /\ UNCHANGED <<control, context, limits, language, outer>>

(***************************************************************************)
(* Loops: the token is polled before each condition and before each item.  *)
(***************************************************************************)
AtHead(kind) == signal = "run" /\ Top.kind = kind /\ ~Top.body
Iterate(frame) ==
  control' = Append(Below, [frame EXCEPT !.body = TRUE, !.left = MaxStatements[frame.kind],
                                         !.inner = @ + 1])
Polled == Trips /\ Raise("cancelled") /\ UNCHANGED <<control, language, used>>

while_head ==
  /\ AtHead("while")
  /\ \/ Polled
     \/ /\ ~Trips /\ ~Affords(1) /\ Raise("error") /\ UNCHANGED <<control, language, used>>
     \/ /\ ~Trips /\ Affords(1) /\ used' = Charge(1)
        /\ \/ Iterate(Top) /\ scope' = Push(scope) /\ UNCHANGED <<host, signal>>
           \/ control' = Below /\ UNCHANGED <<language, signal>>
           \/ Raise("error") /\ UNCHANGED <<control, language>>
  /\ UNCHANGED <<context, depth>> /\ UNCHANGED outer

\* The items left after one: up to 2^63 of a range, which are not counted, and cost nothing.
Rest(items) == IF items > MaxItems THEN items ELSE items - 1

for_head ==
  /\ AtHead("for")
  /\ \/ Top.items > 0 /\ Polled
     \/ /\ Top.items > 0 /\ ~Trips
        /\ Iterate([Top EXCEPT !.items = Rest(@)])
        /\ \E n \in Names, d \in Data : scope' = Append(scope, OneCell(n, Cell(FALSE, d)))
        /\ UNCHANGED <<host, signal, used>>
     \/ /\ Top.items = 0 /\ control' = Below
        /\ UNCHANGED <<language, signal, used>>
  /\ UNCHANGED <<context, depth>> /\ UNCHANGED outer

(***************************************************************************)
(* Unwinding: what each frame does with the signal that reaches it.        *)
(***************************************************************************)
Unwinding(kind) == control # <<>> /\ Top.kind = kind /\ signal \notin {"run", "idle", "ended"}
Leaves == control' = Below /\ UNCHANGED <<context, limits>> /\ UNCHANGED outer
Onward == IF signal = "done" THEN "run" ELSE signal

block == /\ Unwinding("block") /\ Leaves
         /\ scope' = Pop(scope) /\ signal' = Onward /\ UNCHANGED host

iteration ==
  /\ Unwinding("while") \/ Unwinding("for")
  /\ scope' = IF Top.body THEN Pop(scope) ELSE scope
  /\ IF signal \in {"done", "continue"}
     THEN /\ control' = Append(Below, [Top EXCEPT !.body = FALSE, !.left = 0, !.inner = @ - 1])
          /\ signal' = "run" /\ UNCHANGED <<context, limits>> /\ UNCHANGED outer
     ELSE /\ Leaves
          /\ signal' = IF signal = "break" THEN "run" ELSE signal
  /\ UNCHANGED host

\* Mutant: only the bindings are restored.
UndoesMutant == scope' = Top.scope /\ UNCHANGED host
Undoes == scope' = Top.scope /\ host' = Top.host
\* Mutant: a cancellation is caught like an error.
CatchesMutant == signal \in {"error", "cancelled"}
Catches == signal = "error"

\* Only an ordinary error is caught: what the try block did to the language state is undone,
\* and the error is bound in the frame of the catch block, an ordinary block from then on.
catch ==
  /\ Unwinding("try") /\ Catches /\ Undoes
  /\ control' = Append(Below, [kind |-> "catch", inner |-> Top.inner - 1])
  /\ signal' = "run"
  /\ UNCHANGED <<context, limits>> /\ UNCHANGED outer

catch_binding ==
  /\ signal = "run" /\ Top.kind = "catch"
  /\ \/ /\ \E n \in Names : scope' = Append(scope, OneCell(n, Cell(FALSE, Caught)))
        /\ control' = Append(Below, BlockFrame(Top.inner + 1))
        /\ UNCHANGED signal
     \/ \* ensure_lexical_name: the name is reserved
        /\ control' = Below /\ Raise("error") /\ UNCHANGED scope
  /\ UNCHANGED <<host, context, limits>> /\ UNCHANGED outer

pass_try == /\ Unwinding("try") /\ ~Catches /\ Leaves
            /\ scope' = Pop(scope) /\ signal' = Onward /\ UNCHANGED host

\* Mutant: a call that is unwound does not leave.
LeavesCallMutant == control' = Below /\ context' = Top.context
                    /\ depth' = IF signal \in {"done", "return"} THEN depth - 1 ELSE depth
LeavesCall == control' = Below /\ context' = Top.context /\ depth' = depth - 1

\* `run_body_in_defining_source` and the end of `run_call`: the caller's context is back on
\* every path, and the value goes where the caller wanted it.
return ==
  /\ Unwinding("call") /\ LeavesCall
  /\ \/ /\ signal \in {"done", "return"}
        /\ \/ Top.then = "drop" /\ scope' = Top.scope /\ signal' = "run"
           \/ Top.then = "return" /\ scope' = Top.scope /\ signal' = "return"
           \/ /\ Top.then \notin {"drop", "return"}
              /\ \E d \in Data : Assigned(Top.scope, Top.then, d, "run")
           \/ \* FunctionResultTypeMismatch
              scope' = Top.scope /\ Raise("error")
     \/ /\ signal \notin {"done", "return"} /\ scope' = Top.scope
        /\ signal' = IF signal \in Transfers THEN "error" ELSE signal
  /\ UNCHANGED <<host, used>> /\ UNCHANGED outer

(***************************************************************************)
(* The session: `submit_parsed` evaluates each top-level statement on      *)
(* clones and keeps them when it ends well.                                *)
(***************************************************************************)
Idle == signal = "idle" /\ left > 0

\* One statement, on pending_scope and pending_state, with an evaluator of its own.
submit_statement ==
  /\ Idle
  /\ control' = <<[kind |-> "script", inner |-> Len(scope), left |-> 1]>>
  /\ signal' = "run" /\ left' = left - 1
  /\ UNCHANGED <<policy, session, language, context, limits, cancelled>>

Owns(s, h) == scope' = s /\ host' = h /\ session' = [scope |-> s, host |-> h]
Keeps == Owns(scope, host)
Drops == Owns(session.scope, session.host)

\* `chain &`: started on a copy of the scope; the launch is the only change.
background ==
  /\ Idle /\ left' = left - 1
  /\ \/ ~Limited /\ Owns(session.scope, [session.host EXCEPT !.status = "some"]) /\ UNCHANGED signal
     \/ Raise("ended") /\ UNCHANGED <<session, language>>
  /\ UNCHANGED <<policy, control, context, limits, cancelled>>

finish_statement ==
  /\ Unwinding("script")
  /\ control' = <<>>
  /\ \/ signal = "done" /\ Keeps /\ Raise("idle")
     \/ signal = "exit" /\ Keeps /\ Raise("ended")
     \/ signal = "stopped" /\ Drops /\ Raise("idle")
     \/ signal \notin {"done", "exit", "stopped"} /\ Drops /\ Raise("ended")
  /\ UNCHANGED <<policy, context, limits, cancelled, left>>

submission_ends == /\ signal = "idle" /\ left = 0 /\ Raise("ended")
                   /\ UNCHANGED <<policy, session, language, control, context, limits, cancelled, left>>

\* The next submission has limits of its own.
submit == /\ signal = "ended" /\ Raise("idle")
          /\ used' = 0 /\ depth' = 0 /\ cancelled' = FALSE /\ left' = MaxTop
          /\ UNCHANGED <<policy, session, language, control, context>>

\* A signal handler or a deadline trips the token.
Cancel == /\ signal # "ended" /\ ~cancelled /\ cancelled' = TRUE
          /\ UNCHANGED <<policy, session, language, control, context, limits, signal, left>>

Then == {"drop", "return"} \cup Names

Step == \/ Exhausted \/ Fails \/ chain \/ transfer
        \/ \E n \in Names : declaration(n) \/ assignment(n)
        \/ \E e \in Entries : environment(e)
        \/ \E f \in Functions : function_definition(f)
        \/ \E f \in Functions, then \in Then : call(f, then)
        \/ branch \/ loop \/ try_statement \/ EndBlock
        \/ while_head \/ for_head
        \/ block \/ iteration \/ catch \/ catch_binding \/ pass_try \/ return
        \/ submit_statement \/ background \/ finish_statement \/ submission_ends

Next == Step \/ submit \/ Cancel

\* The evaluator runs on the shell's own thread and goes on while a submission lasts.
Spec == Init /\ [][Next]_vars /\ WF_vars(Step)

(***************************************************************************)
(* Properties                                                              *)
(***************************************************************************)
TypeOK ==
  /\ policy \in {"General", "PureV2"} /\ signal \in Signals /\ cancelled \in BOOLEAN
  /\ host \in Hosts /\ session.host \in Hosts /\ context \in Functions \cup {"script"}
  /\ used \in Nat /\ depth \in Nat /\ left \in 0..MaxTop
  /\ \A i \in 1..Len(scope) : \A n \in DOMAIN scope[i] :
       scope[i][n].mutable \in BOOLEAN /\ (n \in Names => scope[i][n].value \in Data \cup {Caught})

Calls == {i \in 1..Len(control) : control[i].kind = "call"}

\* The scope has exactly the frames of the blocks in progress, in the callee and in every
\* caller, so that no `pop` and no `leave_call` finds nothing to undo; whose code runs is the
\* innermost call's; nothing stays behind between two statements, and no budget is overdrawn.
Nested ==
  /\ control # <<>> => /\ control[1].kind = "script"
                       /\ Len(scope) = Top.inner
  /\ \A i \in 1..Len(control) : control[i].kind = "script" <=> i = 1
  /\ \A i \in 2..Len(control) :
       CASE control[i].kind = "call" -> Len(control[i].scope) = control[i - 1].inner
         [] control[i].kind = "try" -> /\ Len(control[i].scope) = control[i - 1].inner
                                       /\ control[i].inner = control[i - 1].inner + 1
         [] control[i].kind = "block" -> control[i].inner = control[i - 1].inner + 1
         [] control[i].kind = "catch" -> control[i].inner = control[i - 1].inner
         [] OTHER -> control[i].inner = control[i - 1].inner + (IF control[i].body THEN 1 ELSE 0)
InContext ==
  /\ depth = Cardinality(Calls)
  /\ \A i \in Calls : LET within == {k \in Calls : k > i}
                      IN (IF within = {} THEN context
                          ELSE control[CHOOSE k \in within : \A j \in within : k <= j].context)
                         = control[i].callee
  /\ Calls = {} => context = "script"
Between ==
  signal \in {"idle", "ended"} <=> control = <<>>
Committed ==
  control = <<>> => session = [scope |-> scope, host |-> host] /\ Len(scope) = 1
WithinLimits == Limited => used <= StepLimit /\ depth <= CallLimit

EvaluatorConsistent ==
  TypeOK /\ Nested /\ InContext /\ Between /\ Committed /\ WithinLimits

\* The session, the checkpoints of the open `try` blocks and the state worked on.  A failure
\* shows as the state it is undone to, and an abort no `try` handles at once.
State(s, h) == [scope |-> s, host |-> h]
Attempts == {i \in 1..Len(control) : control[i].kind = "try"}
Ranked(k) == {i \in Attempts : Cardinality({j \in Attempts : j <= i}) = k}
Attempt(k) == control[CHOOSE i \in Ranked(k) : TRUE]
Saved == [k \in 1..(Cardinality(Attempts) + 1) |->
            IF k = 1 THEN session ELSE State(Attempt(k - 1).scope, Attempt(k - 1).host)]
Layers ==
  IF control = <<>> \/ signal \in Dropping THEN <<session>>
  ELSE CASE signal = "exit"  -> <<session, State(scope, host)>>
         [] signal = "error" -> Append(Saved, Last(Saved))
         [] OTHER            -> Append(Saved, State(scope, host))

Transactions == INSTANCE NestedTransactions WITH layers <- Layers, failed <- signal = "error"

\* Bindings, environment, directory and status are changed in nested transactions: the session
\* only by a whole statement, an error caught in any number of calls and loops below a `try`
\* leaves nothing of its block, and an exit keeps all there is.
ImplementsTransactions == Transactions!Spec

\* After a cancellation, a refusal, an exit, a stop or a failed write no statement runs, be it
\* of a catch block, until the statement of the script is over.
ControlPasses ==
  [][(signal \in Fatal) => control' = <<>> \/ (signal' = signal /\ used' = used)]_vars

\* A tripped token ends the submission, whatever loops and recursions are running.
CancelEnds == cancelled ~> signal = "ended"

\* The limits of a Flash 2 session end every submission, also one that catches the error,
\* but one that is for ever between two items of a range, in a body without a statement.
Visiting == control # <<>> /\ Top.kind = "for" /\ Top.items > MaxItems
LimitedEnds == policy = "PureV2" => []<>(signal = "ended") \/ <>[]Visiting

\* What the documentation of the limits says, and the code does not do: "Execution bounds
\* steps" (flash-2-foundation.md).
ExecutionIsBounded == policy = "PureV2" => []<>(signal = "ended")
=============================================================================
