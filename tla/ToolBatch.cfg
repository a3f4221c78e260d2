CONSTANTS
  N = 3
SPECIFICATION FairSpec
INVARIANTS
  TypeOK
  ExclusiveInOrder
PROPERTIES
  SteerStopsTheRest
  ImplementsPairing
  BatchReturns
CHECK_DEADLOCK FALSE
