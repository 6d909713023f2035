SPECIFICATION FairSpec
CONSTANTS
  MaxStages = 4
  Capacity = 1
  AutomaticResumeLimit = 1
  Setups <- StoppedGroup
PROPERTIES
  EveryMixedPipelineEnds
\* The pipeline is over when it has returned: EveryMixedPipelineEnds says that it gets there.
CHECK_DEADLOCK FALSE
