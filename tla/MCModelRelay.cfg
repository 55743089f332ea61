\* Three runs of the host under two sets of options; saves fail, overruns come apart.
SPECIFICATION MCSpec
CONSTANTS
  i1 = i1  i2 = i2
  Inputs = {i1, i2}
  Counts = {1}
  Thoughts = {0, 1}
  Outputs = {1, 2}
  Usages = {1, 3}
  Options <- MCOptions
  RpcsPerTurn = 3
  MaxRuns = 3
  None = None
SYMMETRY Symmetry
CHECK_DEADLOCK FALSE
PROPERTIES KeepsPromise BudgetsHold WholeOverrunIsFinal
