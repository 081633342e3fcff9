CONSTANTS
  Lens <- MCLens
  MaxSerial = 4
  CounterMod = 8
  MS = 1
  Wires <- Channel
  Changes <- AnyChange
  Modes <- Fifo
  PipeCap = 1
  OneThread = TRUE
  MaxOffered = 4
  MaxCopies = 0
  WritesFail = FALSE
  MaxErrors = 0
  MaxTime = 2
SPECIFICATION FairSpec
PROPERTIES SenderNotPrevented
CHECK_DEADLOCK FALSE
