SPECIFICATION FairSpec
CONSTANTS
  MaxStages = 3
  Capacity = 1
  AutomaticResumeLimit = 1
  Setups <- RefusedTerminal
INVARIANTS
  NothingIsLeft
