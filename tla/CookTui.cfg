SPECIFICATION FairSpec
CONSTANTS
  Setups <- MCSetups
INVARIANTS
  InterfaceConsistent
PROPERTIES
  AnswerReachesItsRecipe
  RunEnds
CHECK_DEADLOCK FALSE
