SPECIFICATION FairSpec
CONSTANTS
  north = north
  east = east
  Phases <- MCPhases
  MaxGap <- MCMaxGap
  DetectorGap <- MCDetectorGap
  Lanes = {north, east}
  Off = Off
  Vehicles = {1, 2}
  Length <- MCLength
  LaneLength = 2101
  Loop = 1400
  Ways = {0, 700, 1390}
  Entries = {10}
  OtherLeaves = FALSE
INVARIANTS
  TypeOK
  LoopSeesTheRoad
PROPERTIES
  PhasesKeepTheirBounds
  KeepsToSUMO
  EveryPhaseIsServed
