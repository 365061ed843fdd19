SPECIFICATION Spec
CONSTANTS
  Gestures = {"move"}
  MaxInputs = 4
  MaxClock = 4
  MayUnplug = FALSE
  StopTouch = 1
  HasButton = FALSE
  MaxPresses = 0
  ArmDelay = 1
  MinTouch = 1
  MaxIoctlFailures = 0
  GlideTicks = 1
INVARIANT HeldTouchStops
