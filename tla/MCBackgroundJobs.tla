-------------------------- MODULE MCBackgroundJobs --------------------------
(* The job table on one or two jobs of one or two children; the setups differ *)
(* in what the session is asked to do and in what may fail.                   *)
EXTENDS BackgroundJobs

Session(identities, started, asked) ==
  [jobs |-> identities, pipelines |-> started, commands |-> asked, pipefail |-> TRUE,
   max_stops |-> 1, strangers |-> TRUE, observers_may_fail |-> FALSE,
   terminal_may_refuse |-> FALSE]

Pair == {{1, 2}}
Single == {{1}}

MCSetups == {
  Session({1}, Single, AllCommands \ {"join", "Continue"}),
  [Session({1}, Single, {"background", "foreground", "fg", "wait", "join", "hangup", "Kill"})
     EXCEPT !.observers_may_fail = TRUE],
  Session({1}, Pair, {"foreground", "fg", "bg", "Terminate", "Kill"}),
  [Session({1}, Pair, {"foreground", "fg"}) EXCEPT !.pipefail = FALSE],
  [Session({1, 2}, Single, {"foreground", "fg"})
     EXCEPT !.terminal_may_refuse = TRUE, !.strangers = FALSE],
  [Session({1}, Pair, {"background", "wait", "Continue"}) EXCEPT !.strangers = FALSE],
  [Session({1}, Pair, {"background", "hangup"})
     EXCEPT !.observers_may_fail = TRUE, !.strangers = FALSE],
  [Session({1, 2}, Single, {"background", "wait"}) EXCEPT !.strangers = FALSE]}

Join == {[Session({1}, Single, {"background", "join"}) EXCEPT !.max_stops = 2]}
WaitForBoth == {Session({1, 2}, Single, {"background", "wait"})}
JoinBoth == {Session({1, 2}, Single, {"background", "join"})}
Refused == {[Session({1, 2}, Single, {"foreground"}) EXCEPT !.terminal_may_refuse = TRUE]}
Suspended == {Session({1}, Single, {"foreground", "Terminate"})}
=============================================================================
