SPECIFICATION FairSpec
CONSTANTS
  Knobs = {zone, cars}
  Values = {low, high}
  Default = low
  Unset = unset
  JoinTimeout = FALSE
  MaxSteps = 3
  MaxRequests = 3
INVARIANTS OneThreadAtATime NothingForgotten
PROPERTIES FramesMoveOn RequestsTakeEffect
