SPECIFICATION Spec
CONSTANTS
  Routes <- Street
  Generations = 3
  Recycle = FALSE
  Teleport = TRUE
  Flows = TRUE
  MaxDepartDelay = 0
  MaxVehicles = 2
  MaxDespawns = 1
  MaxSteps = 3
INVARIANTS
  InTransferIsQueued
  TransferIndexInRange
PROPERTIES
  GoneIsReported
CHECK_DEADLOCK FALSE
