SPECIFICATION FairSpec
CONSTANTS
  JobId = {1, 2}
  Process = {1, 2}
  Signal = {tstp}
  Status = {ok, failed}
  Ok = ok
  AutomaticResumeLimit = 1
  Setups <- MCSetups
INVARIANTS
  TableConsistent
  TableSettles
  TerminalReturned
  ResumeAnswersThisStop
PROPERTIES
  DrainForgetsOnlyReported
  AwaitEnds
\* A wait for two jobs may block for ever (WaitEnds); AwaitEnds says of the rest that it does not.
CHECK_DEADLOCK FALSE
