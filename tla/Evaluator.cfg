\* One variable, one function, one environment entry; up to two statements to a block and
\* three frames below the script's.
CONSTANTS
  Names = {x}
  Functions = {f}
  Data = {d0}
  Caught = Err
  Entries = {E}
  StepLimit = 5
  CallLimit = 1
  MaxTop = 1
  MaxStatements <- Blocks
  MaxItems = 1
  MaxNesting = 3
SPECIFICATION Spec
INVARIANTS
  EvaluatorConsistent
PROPERTIES
  ImplementsTransactions
  ControlPasses
  CancelEnds
  LimitedEnds
