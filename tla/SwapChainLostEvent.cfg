SPECIFICATION FairSpec
CONSTANTS
  Buffers = {b1, b2, b3}
  Frames = {f0}
  NoBuf = NoBuf
  NoFrame = f0
  MaxEvents = 2
  VtSwitches = FALSE
  FlipsCanBeLost = TRUE
  PromptFlips = TRUE
  StartsMailbox = TRUE
CHECK_DEADLOCK FALSE
PROPERTIES
  MailboxFlagComesDown
