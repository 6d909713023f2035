SPECIFICATION Spec
CONSTANTS
  Setups <- MCSetups
INVARIANTS
  ProgramConsistent
  AnalysisIsRight
