SPECIFICATION FairSpec
CONSTANTS
  Connectors = {c1, c2}
  Crtcs = {k1, k2}
  Drives <- OneIsNarrow
  MaxSlots = 2
  Views = {v1}
  Implicit = Implicit
  None = None
  MaxRemovals = 1
  PipelineFails = FALSE
  PrimarySwitches = TRUE
  VtSwitches = TRUE
CHECK_DEADLOCK FALSE
PROPERTIES
  PlugsAreNoticed
