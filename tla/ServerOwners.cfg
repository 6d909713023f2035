SPECIFICATION Spec
CONSTANTS
  Uris = {"main", "lib"}
  Library = "lib"
  DiskText = "broken"
  MaxVersion = 2
  Setups <- LinkedPaths
CHECK_DEADLOCK FALSE
INVARIANTS
  OneOwnerPerModule
