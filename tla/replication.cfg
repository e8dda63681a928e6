SPECIFICATION Spec
CONSTANTS
  Indices = {1, 2}
  Setups <- Deployments
  MaxInterval = 3
  HistoryCap = 2
  MaxPerChunk = 2
  MaxStep = 5
  MaxPending = 3
INVARIANTS
  TypeOK
  DimsFollowTheFleet
  HistoryNewestLast
  HistoryFollowsTheFleet
  ReferenceIsShared
CHECK_DEADLOCK FALSE
