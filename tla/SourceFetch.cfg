SPECIFICATION Spec
CONSTANTS
  Setups <- MCSetups
  MaxVersion = 2
  MaxPatch = 2
  MaxFaults = 2
INVARIANTS
  FetchConsistent
  CheckedFetchDelivers
PROPERTIES
  FetchRecovers
