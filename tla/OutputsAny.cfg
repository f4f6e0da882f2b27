SPECIFICATION Spec
CONSTANTS
  Connectors = {c1, c2, c3}
  Crtcs = {k1, k2, k3}
  Drives <- AllReach
  MaxSlots = 2
  Views = {v1}
  Implicit = Implicit
  None = None
  MaxRemovals = 2
  PipelineFails = TRUE
  PrimarySwitches = TRUE
  VtSwitches = TRUE
CHECK_DEADLOCK FALSE
INVARIANTS
  TypeOK
  OutputsAreDistinct
  DeadOutputIsTornDown
  OneViewPerOutput
  UsableOutputsScanOut
  AppIsTold
  NoChainDeletedUnderPresent
SYMMETRY Symmetry
