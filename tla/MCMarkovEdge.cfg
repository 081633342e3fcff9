CONSTANTS
  Zero <- MCZero
  Values <- MCValues
  NodeCounts <- Some
  MaxNodes = 3
  Weights <- MCWeights
  Draws <- MCDraws
  CarefulNodes = TRUE
  CarefulEdges = FALSE
SPECIFICATION Spec
INVARIANTS RowsBalanced
