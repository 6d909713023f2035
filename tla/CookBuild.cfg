SPECIFICATION FairSpec
CONSTANTS
  Setups <- MCSetups
  MaxSource = 2
  MaxDependency = 2
  MaxFaults = 2
INVARIANTS
  CookConsistent
PROPERTIES
  FreshDependencies
  CookRecovers
