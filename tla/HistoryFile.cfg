SPECIFICATION Spec
CONSTANTS
  Session = {s1, s2}
  Setups <- MCSetups
INVARIANTS
  HistoryConsistent
