CONSTANTS
  Lens <- MCLens
  MaxSerial = 3
  CounterMod = 8
  MS = 1
  Wires <- Delays
  Changes <- AnyChange
  Modes <- Both
  PipeCap = 1
  OneThread = FALSE
  MaxOffered = 3
  MaxCopies = 0
  WritesFail = FALSE
  MaxErrors = 0
  MaxTime = 4
SPECIFICATION Spec
INVARIANTS TimerArmed OrderInv
PROPERTIES FifoOrder NoEarly
CHECK_DEADLOCK FALSE
