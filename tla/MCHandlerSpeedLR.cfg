CONSTANTS
  Lens <- MCLens
  MaxSerial = 3
  CounterMod = 8
  MS = 2
  Wires <- Rates
  Changes <- AnyChange
  Modes <- Fifo
  PipeCap = 1
  OneThread = FALSE
  MaxOffered = 3
  MaxCopies = 0
  WritesFail = FALSE
  MaxErrors = 0
  MaxTime = 4
SPECIFICATION Spec
INVARIANTS PacedLR
CHECK_DEADLOCK FALSE
