\* Two operations and instances, and a limit that a controller lowers, raises or revokes.
SPECIFICATION Spec
CONSTANTS
  o1 = o1  o2 = o2  w1 = w1  w2 = w2
  r1 = r1  svc1 = svc1  svc2 = svc2  fixture = fixture  altered = altered
  Nil = Nil  NoSnapshot = NoSnapshot
  BrokenPort = BrokenPort  HealthyPort = HealthyPort
  Ops = {o1, o2}
  Workers = {w1, w2}
  Runs = {r1}
  Uids = {svc1}
  Ports = {BrokenPort, HealthyPort}
  Rests = {fixture}
  ScopedRests = {fixture}
  Proposals <- MCProposals
  Policies <- LegacyPolicies
  MaxVersion = 2
SYMMETRY Symmetry
INVARIANTS JournalIsTrue
PROPERTIES BudgetHolds JournalMovesForward KeepsPromise
