SPECIFICATION FairSpec
CONSTANTS
  v1 = v1
  Implicit = Implicit
  None = None
  Layouts <- MCLayouts
  Deltas <- MCDeltas
  Reports <- MCReports
  Mapped = {left, right}
  Unmapped = {side}
  Keys = {ctrl, fn}
  Modifiers = {ctrl}
  MaxQueue = 1
CHECK_DEADLOCK FALSE
INVARIANTS
  TypeOK
  PointerOnItsRegion
  GestureKeepsItsView
  EngineAgrees
  AwayHoldsNothing
  KeysNotStuck
PROPERTIES
  KeyUpArrives
