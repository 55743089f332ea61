\* Two operations of the same request with two writes and one torn or repeated
\* line, and two requests in each of two batches.
SPECIFICATION Spec
CONSTANTS
  o1 = o1  o2 = o2  i1 = i1  i2 = i2
  Operations = {o1, o2}
  Ids = {i1, i2}
  Requests = {"r"}
  Contracts = {"legacy", "precise"}
  MaxWrites = 2
  MaxTears = 1
  Contexts = {"quiet", "heartbeat_before", "heartbeat_after", "protected_after", "heartbeat_burst",
    "heartbeat_annotation", "heartbeat_return", "heartbeat_post_ack", "heartbeat_final",
    "protected_final", "protected_before"}
  Studies = {"conflict", "refresh_stable", "refresh_continuing", "refresh_uncertain", "unchanged",
    "external_change", "stable", "before_first", "between_attempts", "uncertain"}
  MaxEpoch = 2
  MaxFaults = 2
SYMMETRY Symmetry
CONSTRAINTS LongRuns SmallRuns
CHECK_DEADLOCK FALSE
INVARIANTS AuditAccounts BatchesAreSettled
PROPERTIES
  CreditIsDeserved
  HonestEvidencePasses
  HarmIsNoticed
  DamageIsRefused
  KeepsFence
