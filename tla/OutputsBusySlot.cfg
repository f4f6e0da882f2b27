SPECIFICATION Spec
CONSTANTS
  Connectors = {c1, c2}
  Crtcs = {k1, k2}
  Drives <- AllReach
  MaxSlots = 2
  Views = {v1}
  Implicit = Implicit
  None = None
  MaxRemovals = 2
  PipelineFails = FALSE
  PrimarySwitches = FALSE
  VtSwitches = FALSE
CHECK_DEADLOCK FALSE
INVARIANTS
  NextUeventPicksUp
SYMMETRY Symmetry
