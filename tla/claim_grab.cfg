SPECIFICATION Spec
CONSTANTS
  Gestures = {"move"}
  MaxInputs = 6
  MaxClock = 3
  MayUnplug = FALSE
  StopTouch = 1
  HasButton = FALSE
  MaxPresses = 0
  ArmDelay = 0
  MinTouch = 1
  MaxIoctlFailures = 0
  GlideTicks = 1
INVARIANT GlideIsGrabbed
