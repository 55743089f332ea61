------------------------------ MODULE MCAudits ------------------------------
(* What is judged after a run, for TLC: the scorer, the correlation of the   *)
(* API server's log, one case of the frozen comparison, one study of a       *)
(* single-incident gate, each live and then judged, and the settlement of    *)
(* batches.  A behaviour is one of one part; the variables of the others     *)
(* keep a value that means nothing.                                          *)
EXTENDS Naturals, Sequences, FiniteSets, TLC

CONSTANTS o1, o2, i1, i2, Operations, Ids,
          Requests, Contracts, MaxWrites, MaxTears,     \* of the correlation
          Contexts, Studies,                            \* of the comparison and of the gates
          MaxEpoch, MaxFaults                           \* of the settlement

VARIABLES part,
          log, journal, verdict,
          clock, version, changes, steps, ended, kept, sent,         \* scorer
          writes, period, exported, report, intruded, tears,         \* correlation
          defect, pc, svc, ops, w, rec, samples, authored, harm, slips,  \* cases
          arm, context, reads,                                       \* comparison
          study, now, adm, files,                                    \* incident
          gate, born, wire, calls, workers, sessions, client, ctl, conditions, accepted, ran,
          faults                                                     \* settlement

scorer      == <<clock, version, changes, steps, ended, kept, sent>>
correlation == <<writes, period, exported, report, intruded, tears>>
cases       == <<defect, pc, svc, ops, w, rec, samples, authored, harm, slips>>
comparison  == <<arm, context, reads>>
incident    == <<study, now, adm, files>>
settlement  == <<gate, born, wire, calls, workers, sessions, client, ctl, conditions, accepted,
                 ran, faults>>
vars == <<part, log, journal, verdict, scorer, correlation, cases, comparison, incident,
          settlement>>

Calls(proposals, checks, lookups) ==
  [t \in {"observe_service", "probe_backend", "verify_recovery", "propose_repair",
          "get_operation", "finish"} |->
     CASE t = "propose_repair" -> proposals
       [] t = "verify_recovery" -> checks
       [] t = "get_operation" -> lookups
       [] OTHER -> 1]

\* A repair with an uncertain answer, a retry and a second check; and every
\* answer to one question.
Scored ==
  INSTANCE Scoring WITH
    Answers <- {"acknowledged", "uncertain"}, Most <- Calls(2, 2, 1), MaxLog <- 6,
    MaxChanges <- 0, MaxSteps <- 0, Dies <- TRUE
Answered ==
  INSTANCE Scoring WITH
    Answers <- {"prepared", "acknowledged", "uncertain", "rejected_stale", "rejected_policy",
                "rejected_conflict", "rejected_forbidden"},
    Most <- Calls(2, 1, 0), MaxLog <- 6, MaxChanges <- 1, MaxSteps <- 0, Dies <- FALSE
\* A wall clock that is set back once.
Stepped ==
  INSTANCE Scoring WITH
    Answers <- {"acknowledged", "rejected_stale"}, Most <- Calls(1, 2, 0), MaxLog <- 5,
    MaxChanges <- 0, MaxSteps <- 1, Dies <- FALSE
\* An audit that is given the operations' contracts.
Correlation == INSTANCE AuditCorrelation WITH Bound <- TRUE

\* Every context of the comparison, under an honest broker and one step of the
\* controller or sample that goes wrong; and under each defect of the broker.
Compared ==
  INSTANCE ComparisonCase WITH
    Arms <- {"legacy", "precise"}, MaxOps <- 4, MaxSlips <- 1,
    Defects <- {"none", "unconditional", "replays", "unclaimed", "unbudgeted", "overreaches"}
\* Every single-incident study, the same way.
Studied ==
  INSTANCE IncidentCase WITH
    MaxSlips <- 1,
    Defects <- {"none", "unheeding", "unauthorised", "keeps", "stale", "unconditional", "replays",
                "acknowledges", "misreports"}
Batches == INSTANCE Settlement

ASSUME Scored!ScoringAssumption /\ Answered!ScoringAssumption /\ Stepped!ScoringAssumption
ASSUME CorrelationAssumption == Correlation!AuditAssumption
ASSUME Compared!CaseAssumption /\ Studied!IncidentAssumption
ASSUME BatchesAssumption == Batches!SettlementAssumption

NoScorer ==
  /\ clock = 0 /\ version = 0 /\ changes = 0 /\ steps = 0 /\ ended = 0 /\ kept = 0 /\ sent = 0
NoCorrelation ==
  /\ writes = 0 /\ period = 0 /\ exported = 0 /\ report = 0 /\ intruded = 0 /\ tears = 0
NoCases ==
  /\ defect = 0 /\ pc = 0 /\ svc = 0 /\ ops = 0 /\ w = 0 /\ rec = 0 /\ samples = 0
  /\ authored = 0 /\ harm = 0 /\ slips = 0
NoComparison == arm = 0 /\ context = 0 /\ reads = 0
NoIncident == study = 0 /\ now = 0 /\ adm = 0 /\ files = 0
NoSettlement ==
  /\ gate = 0 /\ born = 0 /\ wire = 0 /\ calls = 0 /\ workers = 0 /\ sessions = 0 /\ client = 0
  /\ ctl = 0 /\ conditions = 0 /\ accepted = 0 /\ ran = 0 /\ faults = 0

Init ==
  \/ /\ part \in {"scored", "answered", "stepped"} /\ Scored!Init
     /\ NoCorrelation /\ NoCases /\ NoComparison /\ NoIncident /\ NoSettlement
  \/ /\ part = "correlation" /\ Correlation!Init /\ verdict = 0
     /\ NoScorer /\ NoCases /\ NoComparison /\ NoIncident /\ NoSettlement
  \/ /\ part = "compared" /\ Compared!Init
     /\ journal = 0 /\ NoScorer /\ NoCorrelation /\ NoIncident /\ NoSettlement
  \/ /\ part = "studied" /\ Studied!Init
     /\ NoScorer /\ NoCorrelation /\ NoComparison /\ NoSettlement
  \/ /\ part = "batches" /\ Batches!Init
     /\ log = 0 /\ journal = 0 /\ verdict = 0
     /\ NoScorer /\ NoCorrelation /\ NoCases /\ NoComparison /\ NoIncident

Next ==
  /\ \/ /\ \/ part = "scored" /\ Scored!Next
           \/ part = "answered" /\ Answered!Next
           \/ part = "stepped" /\ Stepped!Next
        /\ UNCHANGED <<correlation, cases, comparison, incident, settlement>>
     \/ /\ part = "correlation" /\ Correlation!Next
        /\ UNCHANGED <<verdict, scorer, cases, comparison, incident, settlement>>
     \/ /\ part = "compared" /\ Compared!Next
        /\ UNCHANGED <<journal, scorer, correlation, incident, settlement>>
     \/ /\ part = "studied" /\ Studied!Next
        /\ UNCHANGED <<scorer, correlation, comparison, settlement>>
     \/ /\ part = "batches" /\ Batches!Next
        /\ UNCHANGED <<log, journal, verdict, scorer, correlation, cases, comparison, incident>>
  /\ UNCHANGED part

Spec == Init /\ [][Next]_vars

\* A bound: the longer runs begin with the evidence a proposal needs.
LongRuns ==
  part \in {"scored", "answered", "stepped"} /\ Len(log) > 3 =>
    log[1].source = "observe_service" /\ log[2].source = "probe_backend"

\* A bound: crashes and repeated requests come in one batch, or in batches of
\* one request.
Touched == {i \in Ids : \/ client[i] # "unsent" \/ \E m \in wire : m.id = i
                        \/ \E a \in accepted : i \in a.ledger["quote"]}
SmallRuns ==
  part = "batches" /\ faults < MaxFaults => conditions <= 1 \/ Cardinality(Touched) <= 1

\* A score gives credit for what the run did and no other: the newest check
\* succeeded, after the last send, for a grounded repair, or nothing was sent,
\* though answers, records and calls are lost (scoring.py).
CreditIsDeserved ==
  /\ [](part = "scored" => Scored!CreditIsSound)
  /\ [](part = "answered" => Answered!AnswersAreDeserved)
  /\ [](part = "stepped" => Stepped!AnswersAreDeserved)

\* A clean audit accounts for every write in the trial and every operation
\* that claims one, and an honest broker is never accused (audit.py).
AuditAccounts == part = "correlation" => Correlation!AuditIsSound

\* A broker that keeps its contract does no harm, whatever is changed at its
\* barriers and whenever it is killed, and its evidence passes the audit of the
\* comparison and the gates of the single-incident studies.
HonestEvidencePasses ==
  /\ [](part = "compared" /\ defect = "none" => Compared!HonestIsSound)
  /\ [](part = "studied" /\ defect = "none" => Studied!HonestIsSound)

\* What the audit of the comparison accepts, or a gate passes, did no harm: no
\* defect of the broker stays unnoticed.
HarmIsNoticed ==
  /\ [](part = "compared" => Compared!AcceptedMeansConformant)
  /\ [](part = "studied" => Studied!PassedMeansConformant)

\* Evidence that passed and is then damaged, as the repository's tests damage
\* theirs, is refused, and for the reason they give.
DamageIsRefused ==
  /\ [](part = "compared" /\ defect = "none" => Compared!CorruptionsAreRefused)
  /\ [](part = "studied" /\ defect = "none" => Studied!CorruptionsAreRefused)

\* A batch that is called settled has nothing left and its ledgers and answers
\* tell what ran, though callers gave up and a service crashed
\* (request_settlement/audit.py).
BatchesAreSettled == part = "batches" => Batches!SettlementIsSound

\* The two fences, ledgers and the database keep the promise of one fence: the
\* conditions of a measurement change only when no read of it is left.
KeepsFence ==
  /\ part = "batches" => Batches!Fenced!Init
  /\ [][part = "batches" => Batches!KeepsFence]_vars

Symmetry == Permutations(Operations) \cup Permutations(Ids)
=============================================================================
