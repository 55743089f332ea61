\* Two versions, controllers and episodes; two requests over three runs of a
\* host; three records of a log for two calls; every pair of decisions.
SPECIFICATION MCSpec
CONSTANTS
  v1 = v1  v2 = v2  e1 = e1  e2 = e2  o1 = o1  o2 = o2  c1 = c1  c2 = c2
  i1 = i1  i2 = i2  Nil = Nil
  Versions = {v1, v2}
  Selectable = {v1, v2}
  Episodes = {e1, e2}
  Ops = {o1, o2}
  Controllers = {c1, c2}
  MaxRevision = 5
  Ids = {i1, i2}
  MaxRuns = 3
  MaxRpc = 2
  MaxCalls = 2
  MaxId = 3
SYMMETRY Symmetry
CHECK_DEADLOCK FALSE
PROPERTIES LedgerStands KeepsChannelPromise EvidenceStands ActorsRepairOnce
