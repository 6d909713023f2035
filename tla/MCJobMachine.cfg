SPECIFICATION RecordSpec
CONSTANTS
  Process = {p1, p2, p3}
  Signal = {tstp, ttin}
  Status = {ok, failed}
INVARIANTS
  RecordConsistent
PROPERTIES
  ImplementsPromise
CHECK_DEADLOCK FALSE
