CONSTANTS
  Lens <- SteadyLens
  MaxSerial = 6
  CounterMod = 8
  MS = 2
  Wires <- Steady
  Changes <- NoChange
  Modes <- Fifo
  PipeCap = 1
  OneThread = FALSE
  MaxOffered = 3
  MaxCopies = 1
  WritesFail = TRUE
  MaxErrors = 1
  MaxTime = 3
SPECIFICATION Spec
INVARIANTS HandlerInv InputRestored PacedRL OneAtATime StillReady BandwidthPaced BufferRespected ByteSizeExact
CHECK_DEADLOCK FALSE
