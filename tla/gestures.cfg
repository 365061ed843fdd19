SPECIFICATION GlideSpec
CONSTANTS
  Gestures = {"move", "click", "multi"}
  MaxInputs = 6
  MaxClock = 2
  MayUnplug = FALSE
  StopTouch = 1
  HasButton = FALSE
  MaxPresses = 0
  ArmDelay = 0
  MinTouch = 1
  MaxIoctlFailures = 0
  GlideTicks = 1
INVARIANTS NoInertiaAfterGesture ContinueFollowsStop StatusAgrees GrabOnlyDuringInertia GlideIsLeftAlone
