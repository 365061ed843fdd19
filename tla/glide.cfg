SPECIFICATION MomentumSpec
CONSTANTS
  Threads = 1
  MaxMessages = 3
  Edge = 1
  BlockedLimit = 3
  ReconnectDelay = 1
  MaxXChanges = 0
  MaxSpeed = 3
  MaxDelta = 1
  Unit = 3
  Scale = 2
  MaxLate = 2
  MaxDuration = 3
  DragPermille = 60
  HasDevice = TRUE
INVARIANT MomentumTypeOK FractionsAreKept
PROPERTY ImplementsEngine DurationIsOfThisGlide
