SPECIFICATION FairSpec
CONSTANTS
  Uris = {"main", "lib"}
  Library = "lib"
  DiskText = "broken"
  MaxVersion = 2
  Setups <- MCSetups
CHECK_DEADLOCK FALSE
INVARIANTS
  ServerConsistent
PROPERTIES
  AnswersMatchTheDocuments
  PublicationsAreComplete
  EveryRequestAnswered
  DiagnosticsConverge
