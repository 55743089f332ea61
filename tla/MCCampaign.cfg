\* Two operators in turn, two episodes, two operations; one promotion and one decision after it.
SPECIFICATION CampaignSpec
CONSTANTS
  o1 = o1  o2 = o2  w1 = w1  w2 = w2  e1 = e1  e2 = e2
  v1 = v1  v2 = v2  c1 = c1
  r1 = r1  svc1 = svc1  fixture = fixture  altered = altered
  Nil = Nil  NoSnapshot = NoSnapshot
  BrokenPort = BrokenPort  HealthyPort = HealthyPort
  Ops = {o1, o2}
  Workers = {w1, w2}
  Runs = {r1}
  Uids = {svc1}
  Ports = {BrokenPort, HealthyPort}
  Rests = {fixture}
  ScopedRests = {fixture}
  Proposals <- MCProposals
  Policies <- MCPolicies
  MaxVersion = 3
  Versions = {v1, v2}
  Selectable = {v1, v2}
  Frozen = {v1}
  Episodes = {e1, e2}
  Controllers = {c1}
  MaxRevision = 2
SYMMETRY Symmetry
INVARIANTS EffectsAuthorized OneRepairAtATime
PROPERTIES UsesParts
