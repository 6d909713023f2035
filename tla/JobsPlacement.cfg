SPECIFICATION Spec
CONSTANTS
  JobId = {1, 2}
  Process = {1, 2}
  Signal = {tstp}
  Status = {ok, failed}
  Ok = ok
  AutomaticResumeLimit = 1
  Setups <- Suspended
INVARIANTS
  ForegroundOwnsTerminal
