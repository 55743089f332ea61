-------------------------------- MODULE Trial --------------------------------
(***************************************************************************)
(* One trial (experiments.run_trial): a scenario's fault is injected and   *)
(* must be seen by a client, an actor works while the scenario withholds   *)
(* an answer, hides a backend or changes the system under it, a resumed    *)
(* actor continues from its checkpoint, and then the truth is measured,    *)
(* exported, scored and audited.  The process may be killed at any point.  *)
(***************************************************************************)
EXTENDS Naturals, FiniteSets

CONSTANTS
    Scenarios,  \* the scenarios of this instance, of those named below
    Resumes,    \* how often an interrupted or crashed actor is resumed
    Mishaps     \* bound on failing calls, crashes of the actor and kills

TrialAssumption == Resumes \in Nat /\ Mishaps \in Nat

RouteFaults == {"routing", "distraction", "lost_ack", "concurrent_change", "adversarial",
                "dependency_changed", "adversarial_ack", "lost_ack_changed",
                "observer_routing", "observer_routing_backend", "observer_routing_verifier"}
BackendFaults == {"out_of_authority", "observer_backend", "observer_routing_backend"}
ArithmeticFaults == {"quote_arithmetic", "observer_quote", "observer_quote_verifier",
                     "observer_routing_quote"}
Unfaulted == {"healthy", "observer_outage", "observer_verifier"}
VerifierOutages == {"observer_verifier", "observer_quote_verifier", "observer_routing_verifier"}
LostAcks == {"lost_ack", "lost_ack_changed"}
ChangingScenarios == {"concurrent_change", "dependency_changed", "lost_ack_changed"}

\* The tool after which the scenario interrupts the actor, or changes the system.
Trigger(s) == IF s \in LostAcks THEN "propose_repair"
              ELSE IF s \in ChangingScenarios THEN "observe_service" ELSE "none"
\* What the external actor does then.
Repairs(s) == s \in {"concurrent_change", "dependency_changed"}
Revokes(s) == s \in {"dependency_changed", "lost_ack_changed"}

Faults == {"route", "arithmetic", "backend", "upstream"}
Injected(s) == {f \in Faults : \/ f = "route" /\ s \in RouteFaults
                               \/ f = "backend" /\ s \in BackendFaults
                               \/ f = "arithmetic" /\ s \in ArithmeticFaults
                               \/ f = "upstream" /\ s = "quote_upstream"}

VARIABLES
    scenario, variant, stage,
    broken,     \* the faults of the application now
    blind,      \* is the actor's verifier cut off from its control?
    actor,      \* "none", "running", "interrupted", "crashed" or "ended"
    resumes,
    lost,       \* was the answer of a mutation withheld?
    triggered,  \* interruption_triggered
    changes,    \* how often the external actor acted
    truth,      \* the final verification: "none", "success", "failure", "unknown"
    trial,      \* trial.json in memory: status and score
    saved,      \* trial.json on disk
    measured,   \* history: the faults when the truth was measured
    alive,      \* does the worker process live?
    left

actors == <<actor, resumes, lost, triggered, changes>>
record == <<trial, saved>>
vars == <<scenario, variant, stage, broken, blind, actors, truth,
          record, measured, alive, left>>

Variants == {"no_agent", "scripted", "agent"}
Stages == {"identities", "baseline", "fault_injection", "actor_setup", "actor",
           "final_verification", "evidence_export", "scoring", "independent_audit", "over"}
Running == [status |-> "running", score |-> "none"]

Init ==
    /\ scenario \in Scenarios /\ variant \in Variants /\ stage = "identities"
    /\ broken = {} /\ blind = FALSE
    /\ actor = "none" /\ resumes = 0 /\ lost = FALSE /\ triggered = FALSE /\ changes = 0
    /\ truth = "none" /\ trial = Running /\ saved = Running
    /\ measured = {} /\ alive = TRUE /\ left = Mishaps

TypeOK ==
    /\ scenario \in Scenarios /\ variant \in Variants /\ stage \in Stages
    /\ broken \subseteq Faults /\ measured \subseteq Faults
    /\ blind \in BOOLEAN /\ lost \in BOOLEAN
    /\ triggered \in BOOLEAN /\ alive \in BOOLEAN
    /\ actor \in {"none", "running", "interrupted", "crashed", "ended"}
    /\ resumes \in 0 .. Resumes /\ changes \in 0 .. 1 /\ left \in 0 .. Mishaps
    /\ truth \in {"none", "success", "failure", "unknown"}
    /\ {trial, saved} \subseteq
          [status : {"running", "recorded", "infrastructure_error", "interrupted"},
           score : {"none", "success", "failure", "unknown"}]

At(s) == alive /\ stage = s
ToStage(from, to) == At(from) /\ stage' = to

BeforeActor(from, to) ==
    /\ ToStage(from, to)
    /\ UNCHANGED <<scenario, variant, broken, blind, actors, truth,
                   record, measured, alive, left>>

\* Identities; a fresh application passes its baseline check.
Identities == BeforeActor("identities", "baseline")
Baseline == BeforeActor("baseline", "fault_injection")

Inject ==
    /\ At("fault_injection") /\ broken = {} /\ scenario \notin Unfaulted
    /\ broken' = Injected(scenario)
    /\ UNCHANGED <<scenario, variant, stage, blind, actors, truth,
                   record, measured, alive, left>>

\* A client fails with 503, or gets a wrong total (establish_fault and
\* semantic_fault_established); otherwise the trial fails here.
Establish ==
    /\ ToStage("fault_injection", "actor_setup")
    /\ scenario \in Unfaulted \/ broken # {}
    /\ UNCHANGED <<scenario, variant, broken, blind, actors, truth, record,
                   measured, alive, left>>

\* The actor's own measurement is cut off, and shown to be, before it starts.
SetUp ==
    /\ ToStage("actor_setup", "actor")
    /\ blind' = (scenario \in VerifierOutages)
    /\ actor' = IF variant = "no_agent" THEN "ended" ELSE "running"
    /\ broken' = IF variant = "no_agent" /\ scenario = "concurrent_change"
                 THEN broken \ {"route"} ELSE broken
    /\ UNCHANGED <<scenario, variant, resumes, lost, triggered,
                   changes, truth, record, measured, alive, left>>

Acting == At("actor") /\ actor = "running"
\* The external actor acts once, at the first interruption.
Changes == scenario \in ChangingScenarios /\ ~triggered

Changed(faults) == (faults \ {f \in {"route"} : Repairs(scenario)})
                     \cup {f \in {"backend"} : Revokes(scenario)}

\* The scenario withholds the answer of a mutation that was made.
Withheld(name) == name = "propose_repair" /\ scenario \in LostAcks

\* A tool call: reading, or a repair whose answer the scenario may withhold.
\* After its trigger an agent is interrupted (only in its first run); a script
\* sees the change made under it.
Tool(name) ==
    /\ Acting
    /\ name = "propose_repair" => "route" \in broken
    /\ LET repaired == IF name = "propose_repair" THEN broken \ {"route"} ELSE broken
           here == name = Trigger(scenario) /\ resumes = 0 /\ ~triggered
           scripted == here /\ variant = "scripted" /\ scenario \in ChangingScenarios
       IN /\ actor' = IF here /\ variant = "agent" THEN "interrupted" ELSE actor
          /\ broken' = IF scripted THEN Changed(repaired) ELSE repaired
          /\ triggered' = (triggered \/ scripted)
          /\ changes' = IF scripted THEN changes + 1 ELSE changes
    /\ lost' = (lost \/ Withheld(name))
    /\ UNCHANGED <<scenario, variant, stage, blind, resumes, truth,
                   record, measured, alive, left>>
\* An actor may be interrupted for another reason, an isolated one may crash.
ActorStops(how) ==
    /\ Acting /\ variant = "agent" /\ left > 0 /\ left' = left - 1 /\ actor' = how
    /\ UNCHANGED <<scenario, variant, stage, broken, blind, resumes,
                   lost, triggered, changes, truth, record, measured, alive>>
ActorEnds ==
    /\ Acting /\ actor' = "ended"
    /\ UNCHANGED <<scenario, variant, stage, broken, blind, resumes,
                   lost, triggered, changes, truth, record, measured, alive, left>>
Resume ==
    /\ At("actor") /\ actor \in {"interrupted", "crashed"} /\ resumes < Resumes
    /\ resumes' = resumes + 1 /\ actor' = "running"
    /\ triggered' = (triggered \/ actor = "interrupted")
    /\ IF actor = "interrupted" /\ Changes
       THEN broken' = Changed(broken) /\ changes' = changes + 1
       ELSE UNCHANGED <<broken, changes>>
    /\ UNCHANGED <<scenario, variant, stage, blind, lost, truth,
                   record, measured, alive, left>>

\* The actor is done, or was interrupted once too often.
ActorDone ==
    /\ ToStage("actor", "final_verification")
    /\ actor = "ended" \/ (actor \in {"interrupted", "crashed"} /\ resumes = Resumes)
    /\ UNCHANGED <<scenario, variant, broken, blind, actors, truth,
                   record, measured, alive, left>>

\* Bug: the truth is measured as the actor measured it.
TruthAsTheActor == IF blind /\ "arithmetic" \notin broken /\ "route" \notin broken
                   THEN "unknown" ELSE IF broken = {} THEN "success" ELSE "failure"
\* A separate live path measures what the actor's own could not.
Truth == IF broken = {} THEN "success" ELSE "failure"
FinalVerification ==
    /\ ToStage("final_verification", "evidence_export")
    /\ truth' = Truth /\ measured' = broken
    /\ UNCHANGED <<scenario, variant, broken, blind, actors, record, alive, left>>

TriggerReport == IF scenario \in LostAcks THEN triggered /\ lost ELSE triggered
Export ==
    /\ ToStage("evidence_export", "scoring")
    /\ triggered' = TriggerReport
    /\ UNCHANGED <<scenario, variant, broken, blind, actor, resumes,
                   lost, changes, truth, record, measured, alive, left>>
Score ==
    /\ ToStage("scoring", "independent_audit")
    /\ trial' = [trial EXCEPT !.score = truth]
    /\ UNCHANGED <<scenario, variant, broken, blind, actors, truth,
                   saved, measured, alive, left>>
Audit ==
    /\ ToStage("independent_audit", "over")
    /\ trial' = [trial EXCEPT !.status = "recorded"] /\ saved' = trial'
    /\ UNCHANGED <<scenario, variant, broken, blind, actors, truth,
                   measured, alive, left>>

\* A call fails at any stage, or Ctrl-C: the score is dropped, the record saved.
Fails(status) ==
    /\ alive /\ stage # "over" /\ left > 0 /\ left' = left - 1 /\ stage' = "over"
    /\ trial' = [status |-> status, score |-> "none"] /\ saved' = trial'
    /\ UNCHANGED <<scenario, variant, broken, blind, actors, truth,
                   measured, alive>>
\* The supervisor kills the worker; what was saved last remains.
Killed ==
    /\ alive /\ stage # "over" /\ left > 0 /\ left' = left - 1 /\ alive' = FALSE
    /\ UNCHANGED <<scenario, variant, stage, broken, blind, actors,
                   truth, record, measured>>

Works ==
    \/ Identities \/ Baseline \/ Inject \/ Establish \/ SetUp
    \/ ActorEnds \/ Resume \/ ActorDone
    \/ FinalVerification \/ Export \/ Score \/ Audit
Next ==
    \/ Works \/ Killed
    \/ \E how \in {"interrupted", "crashed"} : ActorStops(how)
    \/ \E name \in {"observe_service", "propose_repair"} : Tool(name)
    \/ \E status \in {"infrastructure_error", "interrupted"} : Fails(status)

(***************************************************************************)
(* Properties.                                                             *)
(***************************************************************************)

\* A saved score tells the state the actor left, measured by a path that was
\* never cut off; it is only in a recorded trial, however the worker ended.
ScoreIsTheTruth ==
    saved.score # "none" =>
        /\ saved.status = "recorded"
        /\ saved.score = IF measured = {} THEN "success" ELSE "failure"

\* The external actor changes the system at most once in a trial, however often
\* the actor is interrupted, crashes and is resumed.
ChangedOnce == changes' # changes => changes = 0

\* A trial that reports its interruption had one: the answer was really lost,
\* or the change really made, or the agent really resumed after its trigger.
ReportedTriggerHappened ==
    (saved.status = "recorded" /\ triggered) =>
        /\ scenario \in LostAcks => lost
        /\ (scenario \in ChangingScenarios /\ variant # "no_agent") => changes = 1

\* What a trial saves is so.
TrialIsSound == TypeOK /\ ScoreIsTheTruth /\ ReportedTriggerHappened

\* A trial ends or is killed.
Ended == stage = "over" \/ ~alive
=============================================================================
