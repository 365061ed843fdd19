SPECIFICATION FairSpec
CONSTANTS
  Gestures = {"move"}
  MaxInputs = 4
  MaxClock = 2
  MayUnplug = TRUE
  StopTouch = 1
  HasButton = TRUE
  MaxPresses = 1
  ArmDelay = 0
  MinTouch = 1
  MaxIoctlFailures = 0
  GlideTicks = 2
PROPERTY ProcessEnds
INVARIANTS StatusAgrees RetouchStops
