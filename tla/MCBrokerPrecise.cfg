\* One operation resumed by two instances that may die, under changing contracts, heartbeats and alterations.
SPECIFICATION FairSpec
CONSTANTS
  o1 = o1  o2 = o2  w1 = w1  w2 = w2
  r1 = r1  svc1 = svc1  svc2 = svc2  fixture = fixture  altered = altered
  Nil = Nil  NoSnapshot = NoSnapshot
  BrokenPort = BrokenPort  HealthyPort = HealthyPort
  Ops = {o1}
  Workers = {w1, w2}
  Runs = {r1}
  Uids = {svc1}
  Ports = {BrokenPort, HealthyPort}
  Rests = {fixture, altered}
  ScopedRests = {fixture}
  Proposals <- MCProposals
  Policies <- MixedPolicies
  MaxVersion = 3
PROPERTIES LandsOnItsEvidence RecordedConditionsSurvive DispatchesAreRecorded
