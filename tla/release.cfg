SPECIFICATION FairSpec
CONSTANTS
  Gestures = {"move"}
  MaxInputs = 6
  MaxClock = 2
  MayUnplug = FALSE
  StopTouch = 1
  HasButton = FALSE
  MaxPresses = 0
  ArmDelay = 0
  MinTouch = 1
  MaxIoctlFailures = 1
  GlideTicks = 2
PROPERTY GrabReleased
