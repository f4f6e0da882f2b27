SPECIFICATION Spec
CONSTANTS
  Buffers = {b1, b2, b3}
  Frames = {f0}
  NoBuf = NoBuf
  NoFrame = f0
  MaxEvents = 2
  VtSwitches = TRUE
  FlipsCanBeLost = FALSE
  PromptFlips = TRUE
  StartsMailbox = FALSE
CHECK_DEADLOCK FALSE
INVARIANTS
  ReleasedIsOffScreenAfterRestore
