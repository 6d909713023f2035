--------------------------- MODULE MCPipelineRun ---------------------------
(* Pipelines of two or three children with pipes of one byte. *)
EXTENDS PipelineRun

Run(n, pipes, writes, halts, how, failing, limit) ==
  [stages |-> n, edges |-> pipes, redirected |-> {}, max_writes |-> writes, max_stops |-> halts,
   mode |-> how, terminal |-> TRUE, grouped |-> TRUE, faults |-> failing, capture_limit |-> limit]

Running == {"spawn", "signal", "read", "restore"}
Beginning == {"pipe", "redirect", "spawn"}

MCSetups == {
  Run(3, {1, 2}, 1, 2, "plain", Beginning \cup Running, 1),
  Run(2, {1}, 2, 2, "plain", {"terminal", "signal"}, 1),
  [Run(2, {1}, 1, 2, "plain", {"wait"}, 1) EXCEPT !.redirected = {1}, !.terminal = FALSE],
  [Run(2, {1}, 1, 1, "plain", {"wait", "restore"}, 1) EXCEPT !.grouped = FALSE],
  Run(2, {1, 2}, 3, 1, "capture", Running, 2),
  Run(2, {1, 2}, 3, 0, "capture", {"wait", "read", "terminal"}, 1),
  Run(3, {1, 2}, 2, 1, "background", Beginning \cup {"group", "capsule"}, 1)}

StoppedCapture == {Run(2, {1, 2}, 2, 1, "capture", {}, 1)}
RefusedTerminal == {Run(2, {1}, 2, 1, "plain", {"terminal"}, 1)}
=============================================================================
