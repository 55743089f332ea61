\* A window of two ticks over a system that changes twice, an acceptance run and
\* its check of crash recovery, an experiment of three trials, a trial of a
\* scenario of every kind and a study of every gate; each other part at the
\* bounds its instance states.
SPECIFICATION FairSpec
CONSTANTS
  Parts = {"window", "acceptance", "barrier", "waits", "anywhere", "trial", "study", "selected", "sharded",
           "incident", "batches"}
  QuoteCases = {"available-single", "unknown-sku"}
  WindowTicks = 2
  ClockEnd = 3
  MaxChanges = 2
  LabPatience = 3
  LabMishaps = 3
  BarrierTimeout = 3
  BarrierMisdeeds = 2
  Planned = 3
  Signals = 2
  CallMishaps = 2
  Scenarios = {"routing", "lost_ack", "concurrent_change", "dependency_changed",
               "lost_ack_changed", "healthy", "out_of_authority", "quote_arithmetic",
               "quote_upstream", "observer_outage", "observer_verifier",
               "observer_quote_verifier", "observer_routing_verifier",
               "observer_routing_quote", "observer_routing_backend"}
  Resumes = 2
  TrialMishaps = 3
  Gates = {"ambiguity", "refresh", "withdrawal", "program"}
  StudyFaults = 3
CHECK_DEADLOCK FALSE
INVARIANTS VerdictsAreTrue
PROPERTIES
  AcceptanceIsEarned
  TrialsAreAccounted
  TrialsAreTrue
  StudiesKeepBooks
  SelectionsAreEarned
  EverythingEnds
