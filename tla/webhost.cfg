SPECIFICATION FairSpec
CONSTANTS
  c1 = c1
  c2 = c2
  Clients = {c1, c2}
  MaxRuns = 2
  MaxStep = 1
  MaxClicks = 2
  MaxFlight = 1
INVARIANT TypeOK
PROPERTIES FramesAreOfNow PagesFollowTheRun EveryClickIsServed
