SPECIFICATION Spec
CONSTANTS
  Connectors = {c1, c2, c3}
  Crtcs = {k1, k2, k3}
  Drives <- AllReach
  MaxSlots = 3
  Views = {v1}
  Implicit = Implicit
  None = None
  MaxRemovals = 2
  PipelineFails = FALSE
  PrimarySwitches = FALSE
  VtSwitches = FALSE
CHECK_DEADLOCK FALSE
INVARIANTS
  FlipNamesItsOutput
SYMMETRY Symmetry
