----------------------------- MODULE Acceptance -----------------------------
(***************************************************************************)
(* One acceptance run on a real cluster (harness.run_demo): the script of  *)
(* faults, repairs and checks, the readiness wait that may settle nothing  *)
(* but routing (establish_recovery), the broker's checks, and the clean-up *)
(* that decides what result.json finally says.  The client path follows a  *)
(* route with a delay; anything may fail, and Ctrl-C may come at any step. *)
(***************************************************************************)
EXTENDS Naturals, Sequences, FiniteSets

CONSTANTS
    Patience,   \* bound on the checks of one readiness or fault wait
    Mishaps     \* bound on failing calls, interrupts and faults of the lab

AcceptanceAssumption ==
    /\ Patience \in Nat \ {0} /\ Mishaps \in Nat

Success == "verified_success"
Failure == "verified_failure"
Indeterminate == "indeterminate"

Set(x) == [do |-> "set", arg |-> x, expect |-> ""]
Clear(x) == [do |-> "clear", arg |-> x, expect |-> ""]
Phase(name, expect) == [do |-> "phase", arg |-> name, expect |-> expect]
Await(what) == [do |-> "await", arg |-> what, expect |-> ""]

\* The order of run_demo.
Script == <<
    Phase("healthy", Success),
    Set("route"), Await("fault"), Phase("routing-fault", Failure),
    Set("route"), Phase("noop-repair", Failure),
    Clear("route"), Await("recovery"), Phase("scripted-recovery", Success),
    Set("arithmetic"), Phase("wrong-http200-total", Failure), Clear("arithmetic"),
    Set("data"), Phase("protected-data-changed", Failure), Clear("data"),
    Phase("verifier-outage", Indeterminate),
    [do |-> "broker", arg |-> "", expect |-> ""],
    Await("recovery"), Phase("final-recovery", Success)>>

Phases == {Script[i].arg : i \in {j \in DOMAIN Script : Script[j].do = "phase"}}
Faults == {"route", "arithmetic", "data"}
Reasons == {"http_503", "service", "wrong_total", "data", "unobserved"}

VARIABLES
    keep,       \* --keep
    pc,         \* position in the script, 0 before it; the end is Len(Script) + 1
    mode,       \* "run", "cleanup" or "over"
    broken,     \* the faults now in the lab, its configuration and data
    stray,      \* is there a fault that nobody injected?
    path,       \* what clients see of the route: "expected" or "http_503"
    checks,     \* the checks of the running readiness or fault wait
    phases,     \* summary["phases"]: name -> "none", "passed" or "failed"
    broker,     \* summary["broker_checks"]: "none", "passed", "failed"
    status,     \* summary["status"]
    recorded,   \* does environment.json exist?
    cluster,    \* "none", "made" or "deleted"
    stored,     \* what result.json says: status and cleanup
    settled,    \* history: the reasons that readiness waited out
    unsound,    \* history: phases that passed in a lab they do not speak of
    left        \* remaining mishaps

lab == <<keep, broken, stray, path>>
report == <<phases, broker, status, stored>>
history == <<settled, unsound>>
vars == <<pc, mode, lab, checks, report, recorded, cluster, history, left>>

Init ==
    /\ keep \in BOOLEAN /\ pc = 0 /\ mode = "run"
    /\ broken = {} /\ stray = FALSE /\ path = "expected"
    /\ checks = 0 /\ phases = [p \in Phases |-> "none"] /\ broker = "none"
    /\ status = "running" /\ recorded = FALSE /\ cluster = "none"
    /\ stored = [status |-> "running", cleanup |-> "pending"]
    /\ settled = {} /\ unsound = {} /\ left = Mishaps

Statuses == {"running", "passed", "failed", "interrupted"}
Cleanups == {"pending", "kept", "deleted", "failed", "not_created"}

TypeOK ==
    /\ keep \in BOOLEAN /\ pc \in 0 .. (Len(Script) + 1) /\ mode \in {"run", "cleanup", "over"}
    /\ broken \subseteq Faults /\ stray \in BOOLEAN /\ path \in {"expected", "http_503"}
    /\ checks \in 0 .. Patience
    /\ phases \in [Phases -> {"none", "passed", "failed"}]
    /\ broker \in {"none", "passed", "failed"} /\ status \in Statuses
    /\ recorded \in BOOLEAN /\ cluster \in {"none", "made", "deleted"}
    /\ stored \in [status : Statuses, cleanup : Cleanups]
    /\ settled \subseteq Reasons /\ unsound \subseteq Phases /\ left \in 0 .. Mishaps
    /\ stored.status # "running" => stored.status = status

Step == Script[pc]
Running == mode = "run" /\ pc \in DOMAIN Script
Go == pc' = pc + 1 /\ mode' = "run" /\ status' = IF pc = Len(Script) THEN "passed" ELSE status
\* Another check of the same wait.
Stay == UNCHANGED <<pc, mode, status>> /\ checks' = checks + 1
Fail == mode' = "cleanup" /\ status' = "failed" /\ UNCHANGED pc

\* The end of the script leads to the clean-up as every failure does.
Finish ==
    /\ mode = "run" /\ pc = Len(Script) + 1 /\ mode' = "cleanup"
    /\ UNCHANGED <<pc, lab, checks, report, recorded, cluster, history, left>>

\* provision: environment.json is written before the cluster is created, so that
\* a partial one is removed as well; a cluster of that name is never reused.
RecordEnvironment ==
    /\ mode = "run" /\ pc = 0 /\ ~recorded /\ recorded' = TRUE
    /\ UNCHANGED <<pc, mode, lab, checks, report, cluster, history, left>>
\* kind create and what provision does in the cluster; identities.
Create(works) ==
    /\ mode = "run" /\ pc = 0 /\ recorded
    /\ works \/ left > 0
    /\ left' = IF works THEN left ELSE left - 1
    /\ cluster' \in IF works THEN {"made"} ELSE {"none", "made"}
    /\ IF works THEN Go ELSE Fail
    /\ UNCHANGED <<recorded, lab, checks, phases, broker, stored, history>>

\* A fault is set or cleared; the deployments' rollouts are waited for, the
\* route is not.
Configure ==
    /\ Running /\ Step.do \in {"set", "clear"}
    /\ broken' = IF Step.do = "set" THEN broken \cup {Step.arg} ELSE broken \ {Step.arg}
    /\ Go /\ UNCHANGED <<keep, stray, path, checks, phases, broker, stored, recorded, cluster, history, left>>

Target == IF "route" \in broken THEN "http_503" ELSE "expected"
Converge ==
    /\ mode = "run" /\ path # Target /\ path' = Target
    /\ UNCHANGED <<pc, mode, keep, broken, stray, checks, report, recorded, cluster, history, left>>
\* Something else breaks, or heals, in the lab.
Stray ==
    /\ mode = "run" /\ left > 0 /\ left' = left - 1 /\ stray' = ~stray
    /\ UNCHANGED <<pc, mode, keep, broken, path, checks, report, recorded, cluster, history>>

\* What one check (a short or a full window) reports: the client path may turn
\* while it lasts.
Seen(shown, outage) ==
    (IF "http_503" \in shown THEN {"http_503"} ELSE {})
      \cup (IF "route" \in broken THEN {"service"} ELSE {})
      \cup (IF "arithmetic" \in broken THEN {"wrong_total"} ELSE {})
      \cup (IF ("data" \in broken /\ ~outage) \/ stray THEN {"data"} ELSE {})
      \cup (IF outage THEN {"unobserved"} ELSE {})
Verdict(reasons) == IF reasons = {} THEN Success
                    ELSE IF reasons = {"unobserved"} THEN Indeterminate ELSE Failure

Checked(outage, reasons) ==
    \E shown \in {{path}, {path, Target}} :
        reasons = Seen(shown, outage) /\ path' = IF Cardinality(shown) = 2 THEN Target ELSE path

\* Bug: whatever a readiness check reports may settle.
SettlesAll(reasons) == reasons # {}
\* Only the client path's HTTP 503s may settle.
Settles(reasons) == reasons = {"http_503"}

\* establish_recovery: check until it succeeds, in time.
AwaitRecovery(reasons) ==
    /\ Running /\ Step = Await("recovery") /\ Checked(FALSE, reasons)
    /\ settled' = settled \cup reasons
    /\ CASE Verdict(reasons) = Success -> Go /\ checks' = 0
         [] Settles(reasons) /\ checks + 1 < Patience -> Stay
         [] OTHER -> Fail /\ UNCHANGED checks
    /\ UNCHANGED <<keep, broken, stray, phases, broker, stored, recorded, cluster, unsound, left>>

\* establish_fault: check until clients fail, in time, whatever else is seen.
AwaitFault(reasons) ==
    /\ Running /\ Step = Await("fault") /\ Checked(FALSE, reasons)
    /\ CASE "http_503" \in reasons -> Go /\ checks' = 0
         [] "http_503" \notin reasons /\ checks + 1 < Patience -> Stay
         [] OTHER -> Fail /\ UNCHANGED checks
    /\ UNCHANGED <<keep, broken, stray, phases, broker, stored, recorded, cluster, history, left>>

Passes(reasons) ==
    /\ Verdict(reasons) = Step.expect
    /\ Step.arg \in {"routing-fault", "noop-repair"} => "http_503" \in reasons

\* What each phase's name claims of the lab.
Claimed(name) ==
    CASE name \in {"routing-fault", "noop-repair"} -> broken = {"route"} /\ path = "http_503"
      [] name = "wrong-http200-total" -> broken = {"arithmetic"} /\ path = "expected"
      [] name = "protected-data-changed" -> broken = {"data"} /\ path = "expected"
      [] OTHER -> broken = {} /\ path = "expected" /\ ~stray

CheckPhase(reasons) ==
    /\ Running /\ Step.do = "phase"
    /\ Checked(Step.arg = "verifier-outage", reasons)
    /\ phases' = [phases EXCEPT ![Step.arg] = IF Passes(reasons) THEN "passed" ELSE "failed"]
    /\ unsound' = IF Passes(reasons) /\ ~Claimed(Step.arg) THEN unsound \cup {Step.arg} ELSE unsound
    /\ IF Passes(reasons) THEN Go ELSE Fail
    /\ UNCHANGED <<keep, broken, stray, checks, broker, stored, recorded, cluster, settled, left>>

\* The journals are exported in any case; one that cannot be is a failed check.
BrokerPasses(good, exported) == good /\ exported

\* broker_acceptance: its checks use the route and end with it repaired; a
\* failed check, or journals that cannot be exported, end the run.
BrokerChecks(good, exported) ==
    /\ Running /\ Step.do = "broker"
    /\ BrokerPasses(good, exported) \/ left > 0
    /\ left' = IF BrokerPasses(good, exported) THEN left ELSE left - 1
    /\ broker' = IF BrokerPasses(good, exported) THEN "passed" ELSE "failed"
    /\ IF BrokerPasses(good, exported) THEN Go ELSE Fail
    /\ broken' = IF good THEN broken \ {"route"} ELSE broken \cup {"route"}
    /\ path' \in {"expected", "http_503"}
    /\ UNCHANGED <<keep, stray, checks, phases, stored, recorded, cluster, history>>

\* An API call, a rollout or a save raises.
CallFails ==
    /\ Running /\ left > 0 /\ left' = left - 1 /\ Fail
    /\ UNCHANGED <<lab, checks, phases, broker, stored, recorded, cluster, history>>
\* Ctrl-C: the status stays what it was until the clean-up decides.
Interrupt ==
    /\ mode = "run" /\ left > 0 /\ left' = left - 1 /\ mode' = "cleanup"
    /\ UNCHANGED <<pc, lab, checks, report, recorded, cluster, history>>

Final(cleanup) == IF cleanup = "failed" THEN "failed"
                  ELSE IF status = "running" THEN "interrupted" ELSE status

\* The finally clause: result.json is final only once the clean-up is known.
CleanUp(cleanup) ==
    /\ mode = "cleanup" /\ mode' = "over"
    /\ IF ~recorded THEN cleanup = "not_created"
       ELSE IF keep THEN cleanup = "kept" ELSE cleanup \in {"deleted", "failed"}
    /\ cleanup = "failed" => left > 0
    /\ left' = IF cleanup = "failed" THEN left - 1 ELSE left
    /\ cluster' = IF cleanup = "deleted" THEN "deleted" ELSE cluster
    /\ status' = Final(cleanup)
    /\ stored' = [status |-> status', cleanup |-> cleanup]
    /\ UNCHANGED <<pc, lab, checks, phases, broker, recorded, history>>
\* A second Ctrl-C, in the clean-up: nothing more is saved.
InterruptCleanUp ==
    /\ mode = "cleanup" /\ left > 0 /\ left' = left - 1 /\ mode' = "over"
    /\ cluster' \in IF recorded /\ ~keep THEN {cluster, "deleted"} ELSE {cluster}
    /\ UNCHANGED <<pc, lab, checks, report, recorded, history>>

Next ==
    \/ RecordEnvironment \/ \E works \in BOOLEAN : Create(works)
    \/ Configure \/ Converge \/ Stray
    \/ \E r \in SUBSET Reasons : AwaitRecovery(r) \/ AwaitFault(r) \/ CheckPhase(r)
    \/ \E good, exported \in BOOLEAN : BrokerChecks(good, exported)
    \/ Finish \/ CallFails \/ Interrupt
    \/ \E c \in Cleanups : CleanUp(c)
    \/ InterruptCleanUp

Advance == \/ RecordEnvironment \/ \E works \in BOOLEAN : Create(works)
           \/ Configure \/ Finish
           \/ \E r \in SUBSET Reasons : AwaitRecovery(r) \/ AwaitFault(r) \/ CheckPhase(r)
           \/ \E good, exported \in BOOLEAN : BrokerChecks(good, exported)
           \/ \E c \in Cleanups : CleanUp(c)

(***************************************************************************)
(* Properties.                                                             *)
(***************************************************************************)

\* A stored "passed" is complete: every phase and every broker check passed and
\* the cluster was removed, or kept on request; never one whose clean-up failed
\* or was cut off (run_demo's finally).
PassedIsComplete ==
    stored.status = "passed" =>
        /\ \A p \in Phases : phases[p] = "passed"
        /\ broker = "passed"
        /\ stored.cleanup = IF keep THEN "kept" ELSE "deleted"
        /\ cluster = IF keep THEN "made" ELSE "deleted"

\* Readiness never erases a failure other than routing: no passed run waited
\* out wrong content, protected damage or a blind measurement (README.md:63).
OnlyRoutingSettles == stored.status = "passed" => settled \subseteq {"http_503"}

\* In a lab without stray faults a phase passes only for the fault it injected,
\* not for what an earlier one left behind (run_demo's order).
PhasesSeeTheirFault == (status = "passed" /\ left = Mishaps) => unsound = {}

\* A recorded end of the run accounts for its cluster: nothing is left that the
\* report does not say (run_demo, environment.json before the cluster).
ClusterIsAccounted ==
    stored.cleanup \in {"deleted", "not_created"} => cluster # "made"

\* What the report of a run says is so.
ReportIsSound ==
    /\ TypeOK /\ PassedIsComplete /\ OnlyRoutingSettles /\ PhasesSeeTheirFault
    /\ ClusterIsAccounted

Ended == mode = "over"
=============================================================================
