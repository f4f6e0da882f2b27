SPECIFICATION FairSpec
CONSTANTS
  Outputs = {o1, o2}
  PboRing = 2
  QueueBound = 1
  Slots = 2
  MaxFrames = 3
  None = None
  Mixes <- MCMixes
CHECK_DEADLOCK FALSE
INVARIANTS
  TypeOK
  SlotsAreHeld
  PrimaryIsFrozen
PROPERTIES
  StopEndsSession
  KeepsFeed
