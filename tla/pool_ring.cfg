SPECIFICATION Spec
CONSTANTS
  Capacity = 3
  Interpolators = {i1}
  Viewers = {v1}
  MaxStep = 6
INVARIANTS
  TypeOK
  HeldFrameIntact
  HookIsLastTwoSteps
  HookFramesIntact
  TornPairOnlyWidens
