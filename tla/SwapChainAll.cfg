SPECIFICATION FairSpec
CONSTANTS
  Buffers = {b1, b2}
  Frames = {f0, f1}
  NoBuf = NoBuf
  NoFrame = f0
  MaxEvents = 2
  VtSwitches = TRUE
  FlipsCanBeLost = TRUE
  PromptFlips = FALSE
  StartsMailbox = TRUE
CHECK_DEADLOCK FALSE
INVARIANTS
  TypeOK
  NoBufferLeak
  ScanoutIsLocked
  FlagTracksFlip
  DropHasCarrier
  NoEventForDeletedChain
PROPERTIES
  ShowsWholeFrames
  PresentReturns
  DropReported
