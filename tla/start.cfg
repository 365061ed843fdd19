SPECIFICATION FairLifeSpec
CONSTANTS
  None = None
  p1 = p1
  p2 = p2
  elan = elan
  usb = usb
  i2c = i2c
  OwnName = "rinertia"
  Paths = {event0, event1, event2, event3}
  Words = {elan, usb}
  Places = {i2c}
  Procs <- TwoProcs
  Supervised = {p1}
  Hardware = {"pad", "oldpad", "mouse"}
  Parts <- AllParts
  CliChoices <- NoChoice
  CfgChoices <- NameChoice
  Dry = FALSE
  MaxPlugs = 2
  MaxUnplugs = 1
  MaxFaults = 1
INVARIANTS LifeTypeOK OneDaemonActs ButtonsAreThePads
CHECK_DEADLOCK FALSE
PROPERTY ServiceComesUp
