SPECIFICATION DriverSpec
CONSTANTS
  Gestures = {"move"}
  MaxInputs = 7
  MaxClock = 3
  MayUnplug = FALSE
  StopTouch = 1
  HasButton = FALSE
  MaxPresses = 0
  ArmDelay = 1
  MinTouch = 1
  MaxIoctlFailures = 0
  GlideTicks = 1
INVARIANTS TypeOK ContinueFollowsStop StatusAgrees ArmedOnlyWhileActive StopTouchUnderGrab GrabOnlyDuringInertia MoveStopsInertia RetouchStops StopTouchHidden SeenTouchStaysSeen
