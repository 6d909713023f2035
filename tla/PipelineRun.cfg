SPECIFICATION FairSpec
CONSTANTS
  MaxStages = 3
  Capacity = 1
  AutomaticResumeLimit = 1
  Setups <- MCSetups
INVARIANTS
  PipelineConsistent
  NoTruncatedSuccess
PROPERTIES
  PipelineEnds
\* The pipeline is over when it has returned: PipelineEnds says that it gets there.
CHECK_DEADLOCK FALSE
