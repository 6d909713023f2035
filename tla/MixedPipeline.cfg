SPECIFICATION FairSpec
CONSTANTS
  MaxStages = 4
  Capacity = 1
  AutomaticResumeLimit = 1
  Setups <- MCSetups
INVARIANTS
  MixedConsistent
  EarliestFailure
  CommitAllOrNothing
PROPERTIES
  MixedEnds
\* The pipeline is over when it has returned: MixedEnds says that it gets there.
CHECK_DEADLOCK FALSE
