----------------------------- MODULE MCHarness -----------------------------
(* What measures and keeps the books, for TLC: a verification window, an     *)
(* acceptance run and its check of crash recovery, an experiment and one of  *)
(* its trials, a declared study, the frozen comparison, and, for their ends, *)
(* a single-incident study and the settlement of batches.  A behaviour is    *)
(* one of one part; the variables of the others keep a value that means      *)
(* nothing.                                                                  *)
EXTENDS Naturals, FiniteSets

CONSTANTS Parts,    \* the parts a run explores
          QuoteCases, WindowTicks, ClockEnd, MaxChanges,    \* of the window
          LabPatience, LabMishaps,                          \* of the acceptance run
          BarrierTimeout, BarrierMisdeeds,                  \* of its check of crash recovery
          Planned, Signals, CallMishaps,                    \* of the experiment
          Scenarios, Resumes, TrialMishaps,                 \* of a trial
          Gates, StudyFaults                                \* of the declared study

VARIABLES part,
          now, broken, step, snapshot, probe, verdicts, result, lasting, overlooked, since,
          ever, left,                                                     \* window
          keep, pc, mode, injected, stray, path, checks, phases, broker, status, recorded,
          cluster, stored, settled, unsound, mishaps,                     \* acceptance
          stage, worker, progress, pipe, sent, journal, controller, waited, verdict,
          killedAt, misdeeds,                                             \* barrier
          doing, current, process, exit, group, file, reading, outcome, results, raised,
          accounting, nodes, cleanup, kept, attempted, overlap, allowed,  \* experiment
          scenario, variant, during, damaged, blind, actor, resumes, lost, triggered, changes,
          truth, trial, saved, measured, alive, upsets,                   \* trial
          gate, at, n, ledger, receipts, mem, error, world, promoted, aborted, faults,  \* study
          shard, books, gates, receipt, attempts, evaluated, damage,      \* comparison
          study, defect, going, clock, svc, log, ops, events, adm, w, files, rec, samples,
          judged, authored, harm, slips,                                  \* incident
          fence, born, wire, calls, workers, sessions, client, ctl, conditions, accepted, ran,
          crashes                                                         \* settlement

window     == <<now, broken, step, snapshot, probe, verdicts, result, lasting, overlooked,
                since, ever, left>>
acceptance == <<keep, pc, mode, injected, stray, path, checks, phases, broker, status,
                recorded, cluster, stored, settled, unsound, mishaps>>
barrier    == <<stage, worker, progress, pipe, sent, journal, controller, waited, verdict,
                killedAt, misdeeds>>
experiment == <<doing, current, process, exit, group, file, reading, outcome, results, raised,
                accounting, nodes, cleanup, kept, attempted, overlap, allowed>>
trials     == <<scenario, variant, during, damaged, blind, actor, resumes, lost, triggered,
                changes, truth, trial, saved, measured, alive, upsets>>
declared   == <<gate, at, n, ledger, receipts, mem, error, world, promoted, aborted, faults>>
comparison == <<shard, books, gates, receipt, attempts, evaluated, damage>>
incident   == <<study, defect, going, clock, svc, log, ops, events, adm, w, files, rec, samples,
                judged, authored, harm, slips>>
settlement == <<fence, born, wire, calls, workers, sessions, client, ctl, conditions, accepted,
                ran, crashes>>
vars == <<part, window, acceptance, barrier, experiment, trials, declared, comparison, incident,
          settlement>>

\* A window over a system that changes.
Window ==
  INSTANCE Verifier WITH
    Cases <- QuoteCases, Window <- WindowTicks, MaxTime <- ClockEnd, Changes <- MaxChanges,
    SteadyMeasurement <- TRUE
Acceptance ==
  INSTANCE Acceptance WITH
    Patience <- LabPatience, Mishaps <- LabMishaps, broken <- injected, left <- mishaps
Barrier ==
  INSTANCE CrashBarrier WITH Timeout <- BarrierTimeout, Misdeeds <- BarrierMisdeeds, left <- misdeeds
\* Ctrl-C comes in the waits, or anywhere.
Waits ==
  INSTANCE Experiment WITH
    Mishaps <- CallMishaps, SignalsAnywhere <- FALSE, step <- doing,
    trial <- current, worker <- process, result <- reading, cluster <- nodes, keep <- kept,
    left <- allowed
Anywhere ==
  INSTANCE Experiment WITH
    Mishaps <- CallMishaps - 1, SignalsAnywhere <- TRUE, step <- doing,
    trial <- current, worker <- process, result <- reading, cluster <- nodes, keep <- kept,
    left <- allowed
Trial ==
  INSTANCE Trial WITH Mishaps <- TrialMishaps, stage <- during, broken <- damaged, left <- upsets
Study ==
  INSTANCE DeclaredStudy WITH MaxFaults <- StudyFaults, pc <- at, raised <- error
\* Four cases on one shard, with all that a selection looks at; and on two
\* shards, of which one is killed or one artifact is damaged.
Selected ==
  INSTANCE Comparison WITH
    Contexts <- {"after", "before"}, GainContext <- "after", MaxHealthy <- 1, MaxDamage <- 0,
    Order <- << << <<"legacy", "after">>, <<"precise", "before">>,
                   <<"precise", "after">>, <<"legacy", "before">> >> >>,
    ledger <- books, gate <- gates, measured <- evaluated
Sharded ==
  INSTANCE Comparison WITH
    Contexts <- {"after", "before"}, GainContext <- "after", MaxHealthy <- 0, MaxDamage <- 1,
    Order <- << << <<"legacy", "after">>, <<"precise", "before">> >>,
                << <<"precise", "after">>, <<"legacy", "before">> >> >>,
    ledger <- books, gate <- gates, measured <- evaluated
\* One thing goes wrong around an honest broker, in studies of every kind.
Incident ==
  INSTANCE IncidentCase WITH
    Studies <- {"between_attempts", "refresh_uncertain", "external_change"},
    Defects <- {"none"}, MaxSlips <- 1, pc <- going, now <- clock, journal <- events,
    verdict <- judged
Batches ==
  INSTANCE Settlement WITH
    Ids <- {"r"}, MaxEpoch <- 2, MaxFaults <- 1, gate <- fence, faults <- crashes

ASSUME HarnessAssumption ==
       Window!WindowAssumption /\ Acceptance!AcceptanceAssumption /\ Barrier!BarrierAssumption
ASSUME TrialsAssumption ==
       Waits!ExperimentAssumption /\ Anywhere!ExperimentAssumption /\ Trial!TrialAssumption
ASSUME StudiesAssumption == Study!StudyAssumption
ASSUME ComparisonsAssumption ==
       /\ Selected!ComparisonAssumption /\ Selected!PlanAssumption
       /\ Sharded!ComparisonAssumption /\ Sharded!PlanAssumption
       /\ Incident!IncidentAssumption /\ Batches!SettlementAssumption

NoWindow ==
  /\ now = 0 /\ broken = 0 /\ step = 0 /\ snapshot = 0 /\ probe = 0 /\ verdicts = 0
  /\ result = 0 /\ lasting = 0 /\ overlooked = 0 /\ since = 0 /\ ever = 0 /\ left = 0
NoAcceptance ==
  /\ keep = 0 /\ pc = 0 /\ mode = 0 /\ injected = 0 /\ stray = 0 /\ path = 0 /\ checks = 0
  /\ phases = 0 /\ broker = 0 /\ status = 0 /\ recorded = 0 /\ cluster = 0 /\ stored = 0
  /\ settled = 0 /\ unsound = 0 /\ mishaps = 0
NoBarrier ==
  /\ stage = 0 /\ worker = 0 /\ progress = 0 /\ pipe = 0 /\ sent = 0 /\ journal = 0
  /\ controller = 0 /\ waited = 0 /\ verdict = 0 /\ killedAt = 0 /\ misdeeds = 0
NoExperiment ==
  /\ doing = 0 /\ current = 0 /\ process = 0 /\ exit = 0 /\ group = 0 /\ file = 0 /\ reading = 0
  /\ outcome = 0 /\ results = 0 /\ raised = 0 /\ accounting = 0 /\ nodes = 0 /\ cleanup = 0
  /\ kept = 0 /\ attempted = 0 /\ overlap = 0 /\ allowed = 0
NoTrial ==
  /\ scenario = 0 /\ variant = 0 /\ during = 0 /\ damaged = 0 /\ blind = 0 /\ actor = 0
  /\ resumes = 0 /\ lost = 0 /\ triggered = 0 /\ changes = 0 /\ truth = 0 /\ trial = 0
  /\ saved = 0 /\ measured = 0 /\ alive = 0 /\ upsets = 0
NoStudy ==
  /\ gate = 0 /\ at = 0 /\ n = 0 /\ ledger = 0 /\ receipts = 0 /\ mem = 0 /\ error = 0
  /\ world = 0 /\ promoted = 0 /\ aborted = 0 /\ faults = 0
NoComparison ==
  /\ shard = 0 /\ books = 0 /\ gates = 0 /\ receipt = 0 /\ attempts = 0 /\ evaluated = 0
  /\ damage = 0

NoIncident ==
  /\ study = 0 /\ defect = 0 /\ going = 0 /\ clock = 0 /\ svc = 0 /\ log = 0 /\ ops = 0
  /\ events = 0 /\ adm = 0 /\ w = 0 /\ files = 0 /\ rec = 0 /\ samples = 0 /\ judged = 0
  /\ authored = 0 /\ harm = 0 /\ slips = 0
NoSettlement ==
  /\ fence = 0 /\ born = 0 /\ wire = 0 /\ calls = 0 /\ workers = 0 /\ sessions = 0
  /\ client = 0 /\ ctl = 0 /\ conditions = 0 /\ accepted = 0 /\ ran = 0 /\ crashes = 0

Init ==
  /\ part \in Parts
  /\ \/ part \notin {"window"} /\ NoWindow
     \/ part = "window" /\ Window!Init
  /\ \/ part \notin {"acceptance"} /\ NoAcceptance
     \/ part = "acceptance" /\ Acceptance!Init
  /\ \/ part \notin {"barrier"} /\ NoBarrier
     \/ part = "barrier" /\ Barrier!Init
  /\ \/ part \notin {"waits", "anywhere"} /\ NoExperiment
     \/ part = "waits" /\ Waits!Init
     \/ part = "anywhere" /\ Anywhere!Init
  /\ \/ part \notin {"trial"} /\ NoTrial
     \/ part = "trial" /\ Trial!Init
  /\ \/ part \notin {"study"} /\ NoStudy
     \/ part = "study" /\ Study!Init
  /\ \/ part \notin {"selected", "sharded"} /\ NoComparison
     \/ part = "selected" /\ Selected!Init
     \/ part = "sharded" /\ Sharded!Init
  /\ \/ part \notin {"incident"} /\ NoIncident
     \/ part = "incident" /\ Incident!Init
  /\ \/ part \notin {"batches"} /\ NoSettlement
     \/ part = "batches" /\ Batches!Init

Next ==
  /\ UNCHANGED part
  /\ \/ part \notin {"window"} /\ UNCHANGED window
     \/ part = "window" /\ Window!Next
  /\ \/ part \notin {"acceptance"} /\ UNCHANGED acceptance
     \/ part = "acceptance" /\ Acceptance!Next
  /\ \/ part \notin {"barrier"} /\ UNCHANGED barrier
     \/ part = "barrier" /\ Barrier!Next
  /\ \/ part \notin {"waits", "anywhere"} /\ UNCHANGED experiment
     \/ part = "waits" /\ Waits!Next
     \/ part = "anywhere" /\ Anywhere!Next
  /\ \/ part \notin {"trial"} /\ UNCHANGED trials
     \/ part = "trial" /\ Trial!Next
  /\ \/ part \notin {"study"} /\ UNCHANGED declared
     \/ part = "study" /\ Study!Next
  /\ \/ part \notin {"selected", "sharded"} /\ UNCHANGED comparison
     \/ part = "selected" /\ Selected!Next
     \/ part = "sharded" /\ Sharded!Next
  /\ \/ part \notin {"incident"} /\ UNCHANGED incident
     \/ part = "incident" /\ Incident!Next
  /\ \/ part \notin {"batches"} /\ UNCHANGED settlement
     \/ part = "batches" /\ Batches!Next

Spec == Init /\ [][Next]_vars

\* Whoever is not killed goes on: the verifier and its clock, the controllers of
\* acceptance and experiment, a trial, the shards, a gate's processes and the
\* controller of the batches, whose callers have a timeout.
FairSpec ==
  /\ Spec
  /\ WF_window(part = "window" /\ Window!Tick)
  /\ WF_window(part = "window" /\ Window!StartProbe)
  /\ WF_window(part = "window" /\ Window!Read)
  /\ WF_window(part = "window" /\ Window!EndProbe)
  /\ WF_acceptance(part = "acceptance" /\ Acceptance!Advance)
  /\ WF_barrier(part = "barrier" /\ Barrier!Controller)
  /\ WF_experiment(part = "waits" /\ Waits!Controller)
  /\ WF_experiment(part = "anywhere" /\ Anywhere!Controller)
  /\ WF_trials(part = "trial" /\ Trial!Works)
  /\ \A s \in 1..2 : WF_comparison(part = "sharded" /\ Sharded!Works(s))
  /\ WF_comparison(part = "sharded" /\ \E q \in BOOLEAN : Sharded!Reproduce(q))
  /\ WF_incident(part = "incident" /\ Incident!Controller)
  /\ WF_incident(part = "incident" /\ Incident!Operator)
  /\ WF_incident(part = "incident" /\ Incident!Observe)
  /\ WF_settlement(part = "batches" /\ Batches!Controller)
  /\ WF_settlement(part = "batches" /\ Batches!WaitEnds)
  /\ WF_settlement(part = "batches" /\ Batches!GiveUp("r"))

\* A verification never reports success over a fault that outlasted a probe or
\* was there from the deadline on, nor failure of a service that had no fault
\* (verifier.py run_window, evaluate_snapshot).
VerdictsAreTrue == part = "window" => Window!VerdictIsSound

\* An acceptance that passed had every phase see the fault it names, waited out
\* nothing but routing and accounts for its cluster; its check of crash recovery
\* killed the worker at the barrier and left none (harness.py).
AcceptanceIsEarned ==
  /\ [](part = "acceptance" => Acceptance!ReportIsSound)
  /\ [](part = "barrier" => Barrier!CheckIsSound)

\* An experiment accounts for every trial it tried, keeps no score of a trial
\* that was cut off, runs one at a time and none after damage, wherever its
\* workers hang or die (experiments.py run_experiment, supervise_trial).
TrialsAreAccounted ==
  /\ [](part = "waits" => Waits!BooksAreSound)
  /\ [](part = "anywhere" => Anywhere!ScoresAreOfWholeTrials)
  /\ [][part = "waits" => Waits!NothingAfterDamage]_vars
  /\ [][part = "anywhere" => Anywhere!NothingAfterDamage]_vars

\* The score of a trial is of the state the actor left, the system was changed
\* under it at most once, and an interruption it reports happened (run_trial).
TrialsAreTrue ==
  /\ [](part = "trial" => Trial!TrialIsSound)
  /\ [][part = "trial" => Trial!ChangedOnce]_vars

\* A study's receipts, its ledger and what it leaves behind agree, through
\* failures, interrupts and crashes at any step, and no case runs twice
\* (the check_* studies and finalize_gate).
StudiesKeepBooks ==
  /\ [](part = "study" => Study!StudyIsSound)
  /\ [][part = "study" => Study!EachCaseOnce /\ Study!InterruptStops]_vars

\* A contract is selected over the other only on a complete reproduction of one
\* attempt per case, nowhere worse (customer_benefit and contract_confirmation).
SelectionsAreEarned ==
  /\ [](part = "selected" => Selected!SelectionIsSound)
  /\ [](part = "sharded" => Sharded!SelectionIsSound)

\* Every window, run, check, experiment, trial, comparison, gate and batch comes
\* to its end, whatever hangs, dies or fails under it.
EverythingEnds ==
  <>[](/\ part = "window" => Window!Ended
       /\ part = "acceptance" => Acceptance!Ended
       /\ part = "barrier" => Barrier!Ended
       /\ part = "waits" => Waits!Ended
       /\ part = "anywhere" => Anywhere!Ended
       /\ part = "trial" => Trial!Ended
       /\ part = "sharded" => Sharded!Ended
       /\ part = "incident" => Incident!Ended
       /\ part = "batches" => Batches!Ended)
=============================================================================
