\* A unit stopped before its study was claimed.
SPECIFICATION Spec
CONSTANT Parts = {"early"}
CHECK_DEADLOCK FALSE
INVARIANTS FinishedMeansClean
