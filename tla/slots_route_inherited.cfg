SPECIFICATION Spec
CONSTANTS
  Routes <- Fork
  Generations = 4
  Recycle = TRUE
  Teleport = FALSE
  Flows = FALSE
  MaxDepartDelay <- Off
  MaxVehicles = 2
  MaxDespawns = 1
  MaxSteps = 2
INVARIANTS
  OwnRoute
CHECK_DEADLOCK FALSE
