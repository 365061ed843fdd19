SPECIFICATION FairMomentumSpec
CONSTANTS
  Threads = 1
  MaxMessages = 2
  Edge = 3
  BlockedLimit = 3
  ReconnectDelay = 1
  MaxXChanges = 2
  MaxSpeed = 7
  MaxDelta = 1
  Unit = 4
  Scale = 1
  MaxLate = 1
  MaxDuration = 0
  DragPermille = 0
  HasDevice = TRUE
INVARIANT BlockedGlideEnds
PROPERTIES BlockedOnlyAtEdge GlidesEnd
