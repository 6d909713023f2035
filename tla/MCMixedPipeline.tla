-------------------------- MODULE MCMixedPipeline --------------------------
(* Pipelines of four stages with pipes of one chunk: two internal segments     *)
(* between and after children, and a captured one with a segment of two stages. *)
EXTENDS MixedPipeline

Mixed(segments, pipes, halts, failing) ==
  [stages |-> 4, edges |-> pipes, redirected |-> {}, max_writes |-> 1, max_stops |-> halts,
   faults |-> failing, internal |-> segments, checks |-> {}, exits |-> {}, eager |-> {},
   capturing |-> 4 \in pipes, terminal |-> TRUE, endless |-> {}]

Beginning == {"pipe", "redirect", "spawn", "terminal"}

MCSetups == {
  [Mixed({2, 4}, {1, 2, 3}, 0, Beginning \cup {"stage", "pull", "output"})
     EXCEPT !.exits = {4}, !.eager = {4}],
  [Mixed({2, 4}, {1, 2, 3}, 1, {"pull", "wait", "signal", "restore"})
     EXCEPT !.checks = {2}, !.exits = {2, 4}],
  [Mixed({1, 2}, {2, 3, 4}, 0, {"read", "pull", "stage"})
     EXCEPT !.exits = {2}, !.terminal = FALSE]}

EagerStage == {[Mixed({2, 4}, {1, 2, 3}, 0, {"pull"}) EXCEPT !.eager = {4}, !.endless = {3}]}
StoppedGroup == {Mixed({2, 4}, {1, 2, 3}, 1, {})}
=============================================================================
