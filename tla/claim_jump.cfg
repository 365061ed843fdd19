SPECIFICATION ReleaseSpec
CONSTANTS
  RingSize = 4
  Positions = {0, 2, 4, 6, 8}
  Times = {0, 1, 2, 3, 4}
  VelocityWindow = 2
  LiftTail = 2
  Stale = 1
  MinTouch = 2
  MinDistance = 4
  MinVelocity = 1
  MaxEvents = 4
  MaxTime = 4
INVARIANT StartNeedsMovement
