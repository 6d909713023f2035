SPECIFICATION Spec
CONSTANTS
  fileA = fileA
  fileB = fileB
  Files = {fileA, fileB}
  Redirections <- HighDescriptor
  LastFd = 12
  Faults = {"clone", "chdir", "group", "exec"}
INVARIANTS
  NoManufacturedStatus
CHECK_DEADLOCK FALSE
