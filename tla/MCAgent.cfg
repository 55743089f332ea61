\* One identifier, two requests for it, three runs of at most two turns,
\* interrupted anywhere.
SPECIFICATION MCSpec
CONSTANTS
  op1 = op1  a = a  b = b  Nil = Nil  Foreign = Foreign
  Ops = {op1}
  Arguments = {a, b}
  Turns <- MCTurns
  MaxCallsPerTurn = 2
  Limits <- MCLimits
  Usages = {1, 3}
  Inputs = {0, 1}
  MaxRuns = 3
CHECK_DEADLOCK FALSE
INVARIANTS CheckpointIsTrue
PROPERTIES CheckpointMovesForward QuietlyNoBlindRetry EveryRunEnds
