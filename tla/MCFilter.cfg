CONSTANTS
  Lens <- MCLens
  MaxSerial = 1
  CounterMod = 8
  MS = 1
  Wires <- MCWires
  Changes <- MCChanges
  Modes <- MCModes
  PipeCap = 1
  OneThread = FALSE
  MaxOffered = 1
  MaxCopies = 0
  WritesFail = TRUE
  MaxErrors = 1
  MaxTime = 1
  Zero <- MCZero
  NodeCounts <- Some
  MaxNodes = 3
  Weights <- MCWeights
  Draws <- MCDraws
  CarefulNodes = TRUE
  CarefulEdges = TRUE
  Periods <- MCPeriods
  Stray = Stray
SPECIFICATION FilterSpec
INVARIANTS FilterTypeOK RowsBalanced CurrentExists MarkovTimerArmed
PROPERTIES ImplementsHandler EdgesKept MovesAlongEdges
CHECK_DEADLOCK FALSE
