SPECIFICATION Spec
CONSTANTS
  fileA = fileA
  fileB = fileB
  Files = {fileA, fileB}
  Redirections <- MCRedirections
  LastFd = 12
  Faults = {"clone", "chdir", "group", "exec"}
INVARIANTS
  SpawnConsistent
  ProgramSeesTheRequest
CHECK_DEADLOCK FALSE
