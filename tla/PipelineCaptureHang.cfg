SPECIFICATION FairSpec
CONSTANTS
  MaxStages = 3
  Capacity = 1
  AutomaticResumeLimit = 1
  Setups <- StoppedCapture
PROPERTIES
  EveryPipelineEnds
\* EveryPipelineEnds says that it does not stop.
CHECK_DEADLOCK FALSE
