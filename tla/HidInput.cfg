CONSTANTS
  Devices = {r1}
  Keys <- SmallKeys
  NoButton = NoButton
  QueueLength = 1
  BatchLength = 1
  RepressDebounce = 1
  LongPress = 0
  StaleDefault = 0
  StaleReader = 1
  StaleBrickHold = 1
  BrickDuplicate = 1
  BrickGrace = 1
  Maintenance = 1
SPECIFICATION Spec
INVARIANTS
  HeldHasOwner
  LastReportDecides
PROPERTY
  HeldIsReleased
