CONSTANTS
  Lens <- MCLens
  MaxSerial = 6
  CounterMod = 8
  MS = 1
  Wires <- Mixed
  Changes <- AnyChange
  Modes <- Fifo
  PipeCap = 1
  OneThread = FALSE
  MaxOffered = 3
  MaxCopies = 1
  WritesFail = FALSE
  MaxErrors = 1
  MaxTime = 1
SPECIFICATION FairSpec
PROPERTIES EventuallySent SenderNotPrevented InputResumes
CHECK_DEADLOCK FALSE
