SPECIFICATION Spec
CONSTANTS
  Gestures = {"move"}
  MaxInputs = 3
  MaxClock = 2
  MayUnplug = FALSE
  StopTouch = 1
  HasButton = TRUE
  MaxPresses = 1
  ArmDelay = 0
  MinTouch = 1
  MaxIoctlFailures = 0
  GlideTicks = 1
INVARIANT ClickSuppresses
