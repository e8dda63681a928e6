SPECIFICATION Spec
CONSTANTS
  Indices = {1, 2}
  Setups <- Dds
  MaxInterval = 2
  HistoryCap = 2
  MaxPerChunk = 2
  MaxStep = 4
  MaxPending = 1
INVARIANTS
  NoGhost
CHECK_DEADLOCK FALSE
