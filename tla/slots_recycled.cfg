SPECIFICATION Spec
CONSTANTS
  Routes <- Fork
  Generations = 3
  Recycle = TRUE
  Teleport = FALSE
  Flows = FALSE
  MaxDepartDelay = 0
  MaxVehicles = 3
  MaxDespawns = 2
  MaxSteps = 2
INVARIANTS
  TypeOK
  HandleNamesItsVehicle
  EventsTellTheLife
  PublishedWasAnnounced
PROPERTY ImplementsHandleTable
CHECK_DEADLOCK FALSE
