---------------------------- MODULE StudyService ----------------------------
(***************************************************************************)
(* A prepared study as a systemd unit (service_experiment): an invocation  *)
(* takes the study's one launch claim and runs its experiment; whatever    *)
(* ends it, systemd kills the control group and runs the post-stop phase,  *)
(* which revokes the credential, accounts for the trials, removes what is  *)
(* left and saves one receipt.  check_service_stop stops, restarts or      *)
(* kills such a unit at a declared trial and judges what it finds.         *)
(***************************************************************************)
EXTENDS Naturals, Sequences, FiniteSets

CONSTANTS
    Trials,     \* the length of the plan
    Modes,      \* "stop", "restart", "kill", or "none": no gate watches
    Prefixes,   \* trials committed before the gate acts
    MaxFaults   \* bound: failures, late deadlines, administrators' commands

ServiceAssumption ==
    /\ Trials \in Nat \ {0} /\ MaxFaults \in Nat
    /\ Modes \subseteq {"stop", "restart", "kill", "none"} /\ Prefixes \subseteq 0 .. Trials - 1

Plan == 1 .. Trials

VARIABLES
    unit,       \* "none", "active", "post" or "inactive"
    again,      \* a restart job waits for the stop to end
    at,         \* where the invocation is; "none": no process
    claim,      \* launch-claim.json: "none", "torn" or "whole"
    run,        \* the experiment's directory
    docker,     \* the containers there are
    credential, \* the provider's transient file is there
    lingers,    \* a killed controller still shows in the process table
    post,       \* the post-stop phase
    receipt,    \* post-stop.json
    sidecar,    \* post-stop-accounting.json: one row for each trial, or empty
    gate,
    entered,    \* history: how often the experiment was entered
    refused,    \* history, in systemd's journal: invocations the claim refused
    stops,      \* history, in systemd's journal: stop jobs
    faults

process == <<at, claim, run, docker, entered, refused>>
recovery == <<credential, post, receipt, sidecar>>
vars == <<unit, again, process, lingers, recovery, gate, stops, faults>>

NoRun == [made |-> FALSE, owner |-> FALSE, environment |-> "none", trial |-> 0, file |-> "none",
          acked |-> {}, results |-> <<>>, accounting |-> FALSE, cleanup |-> FALSE]
Idle == [at |-> "none", cleaned |-> "unknown", accounted |-> FALSE, errors |-> {}]
\* claimed: history, whether the study had been claimed by then.
NoReceipt == [status |-> "none", cleanup |-> "unknown", accounted |-> FALSE, errors |-> {}, claimed |-> FALSE]

Init ==
    /\ unit = "none" /\ again = FALSE /\ at = "none" /\ claim = "none" /\ run = NoRun
    /\ docker = {} /\ credential = TRUE /\ lingers = FALSE /\ post = Idle /\ receipt = NoReceipt
    /\ sidecar = <<>> /\ entered = 0 /\ refused = 0 /\ stops = 0 /\ faults = MaxFaults
    /\ gate \in {[at |-> "launch", mode |-> m, committed |-> c, status |-> "running", prefix |-> <<>>] :
                    m \in Modes, c \in Prefixes}

Costs(happens) == faults >= (IF happens THEN 1 ELSE 0) /\ faults' = faults - (IF happens THEN 1 ELSE 0)

---------------------------------------------------------------------------
(* The invocation: service_experiment.run and, in it, run_experiment. *)

Steps(from, to) == unit = "active" /\ at = from /\ at' = to
KeepsUnit == UNCHANGED <<unit, again, lingers, recovery, gate, stops>>

\* The claim's file is created exclusively.
Unclaimed == claim = "none"
OpenClaim ==
    /\ \/ Unclaimed /\ Steps("exec", "claim") /\ claim' = "torn" /\ UNCHANGED refused
       \/ ~Unclaimed /\ Steps("exec", "exit") /\ refused' = refused + 1 /\ UNCHANGED claim
    /\ UNCHANGED <<run, docker, entered, faults>> /\ KeepsUnit
WriteClaim ==
    /\ Steps("claim", "enter") /\ claim' = "whole"
    /\ UNCHANGED <<run, docker, entered, refused, faults>> /\ KeepsUnit
\* The sources must still be the prepared ones.
Enter ==
    /\ \/ Steps("enter", "make") /\ entered' = entered + 1 /\ Costs(FALSE)
       \/ Steps("enter", "result") /\ UNCHANGED entered /\ Costs(TRUE)
    /\ UNCHANGED <<claim, run, docker, refused>> /\ KeepsUnit
MakeDirectory ==
    /\ Steps("make", "own") /\ run' = [run EXCEPT !.made = TRUE]
    /\ UNCHANGED <<claim, docker, entered, refused, faults>> /\ KeepsUnit
\* service-owner.json, then the release and the manifest.
OwnDirectory ==
    /\ \/ Steps("own", "open") /\ Costs(FALSE)
       \/ Steps("own", "result") /\ Costs(TRUE)
    /\ run' = [run EXCEPT !.owner = TRUE]
    /\ UNCHANGED <<claim, docker, entered, refused>> /\ KeepsUnit
\* provision writes environment.json in place, before it creates anything.
OpenEnvironment ==
    /\ Steps("open", "write") /\ run' = [run EXCEPT !.environment = "torn"]
    /\ UNCHANGED <<claim, docker, entered, refused, faults>> /\ KeepsUnit
WriteEnvironment ==
    /\ Steps("write", "create") /\ run' = [run EXCEPT !.environment = "provisioning"]
    /\ UNCHANGED <<claim, docker, entered, refused, faults>> /\ KeepsUnit
CreateCluster ==
    /\ \/ Steps("create", "next") /\ Costs(FALSE) /\ docker' = docker \cup {"cluster"}
       \/ Steps("create", "account") /\ Costs(TRUE) /\ docker' \in {docker, docker \cup {"cluster"}}
    /\ UNCHANGED <<claim, run, entered, refused>> /\ KeepsUnit
NextTrial ==
    /\ \/ /\ run.trial < Trials /\ Steps("next", "trial") /\ Costs(FALSE)
          /\ run' = [run EXCEPT !.trial = @ + 1, !.file = "none"]
       \/ run.trial = Trials /\ Steps("next", "account") /\ UNCHANGED run /\ Costs(FALSE)
       \/ run.trial > 0 /\ Steps("next", "account") /\ UNCHANGED run /\ Costs(TRUE)
    /\ UNCHANGED <<claim, docker, entered, refused>> /\ KeepsUnit

\* The worker: its record, its agent's container, its repair, its score.
Work ==
    /\ Steps("trial", "trial")
    /\ \/ run.file = "none" /\ run' = [run EXCEPT !.file = "running"] /\ UNCHANGED docker
       \/ run.file = "running" /\ docker' = docker \cup {"agent"} /\ UNCHANGED run
       \/ /\ run.file = "running" /\ run' = [run EXCEPT !.acked = @ \cup {run.trial}]
          /\ UNCHANGED docker
       \/ run.file = "running" /\ run' = [run EXCEPT !.file = "success"] /\ UNCHANGED docker
    /\ UNCHANGED <<claim, entered, refused, faults>> /\ KeepsUnit
\* The supervisor removes the trial's processes and its agent.
EndTrial ==
    /\ Steps("trial", "commit") /\ docker' = docker \ {"agent"}
    /\ \/ run.file = "success" /\ Costs(FALSE) /\ UNCHANGED run
       \/ Costs(TRUE) /\ run' = [run EXCEPT !.file = "failed"]
    /\ UNCHANGED <<claim, entered, refused>> /\ KeepsUnit
Records(results, success) == Append(results, success)
Commit ==
    /\ \/ Steps("commit", "next") /\ Costs(FALSE)
       \/ Steps("commit", "account") /\ Costs(TRUE)  \* damage, or an unmatched write
    /\ run' = [run EXCEPT !.results = Records(@, run.file = "success")]
    /\ UNCHANGED <<claim, docker, entered, refused>> /\ KeepsUnit
SaveAccounting ==
    /\ Steps("account", "teardown") /\ run' = [run EXCEPT !.accounting = TRUE]
    /\ UNCHANGED <<claim, docker, entered, refused, faults>> /\ KeepsUnit
Teardown ==
    /\ Steps("teardown", "result")
    /\ \/ Costs(FALSE) /\ docker' = {} /\ run' = [run EXCEPT !.environment = "deleted", !.cleanup = TRUE]
       \/ Costs(TRUE) /\ UNCHANGED docker /\ run' = [run EXCEPT !.cleanup = TRUE]
    /\ UNCHANGED <<claim, entered, refused>> /\ KeepsUnit
SaveResult ==
    /\ Steps("result", "exit")
    /\ UNCHANGED <<claim, run, docker, entered, refused, faults>> /\ KeepsUnit

Invocation ==
    \/ OpenClaim \/ WriteClaim \/ Enter \/ MakeDirectory \/ OwnDirectory \/ OpenEnvironment
    \/ WriteEnvironment \/ CreateCluster \/ NextTrial \/ EndTrial \/ Commit \/ SaveAccounting
    \/ Teardown \/ SaveResult

---------------------------------------------------------------------------
(* systemd: the control group dies, then the post-stop phase runs. *)

Dies(restart) ==
    /\ unit = "active" /\ unit' = "post" /\ at' = "none" /\ again' = restart
    /\ post' = [Idle EXCEPT !.at = "begin"]
    /\ UNCHANGED <<claim, run, docker, entered, refused, credential, receipt, sidecar>>
Starts == unit' = "active" /\ at' = "exec" /\ again' = FALSE
MainExits ==
    /\ at = "exit" /\ Dies(FALSE) /\ UNCHANGED <<lingers, gate, stops, faults>>
\* The runtime limit, or an administrator's stop or restart.
Terminated ==
    /\ Costs(TRUE) /\ UNCHANGED gate
    /\ \E restart \in BOOLEAN, job \in 0 .. 1 :
        /\ Dies(restart) /\ stops' = stops + job
        /\ restart => job = 1
        /\ job = 1 => gate.mode = "none"
    \* a process in the kernel dies later
    /\ lingers' \in {lingers, TRUE}
LingerEnds ==
    /\ lingers /\ lingers' = FALSE
    /\ UNCHANGED <<unit, again, process, recovery, gate, stops, faults>>
\* A restart while the unit stops, or a second launch of the same study.
Restarted ==
    /\ gate.mode = "none" /\ Costs(TRUE)
    /\ UNCHANGED <<claim, run, docker, entered, refused, lingers, recovery, gate, stops>>
    /\ \/ unit = "post" /\ ~again /\ again' = TRUE /\ UNCHANGED <<unit, at>>
       \/ unit = "inactive" /\ Starts

---------------------------------------------------------------------------
(* The post-stop phase: service_experiment.finalize. *)

Phase(from, to) == unit = "post" /\ post.at = from /\ post' = [to EXCEPT !.at = to.at]
Goes(step) == [post EXCEPT !.at = step]
Fails(stage, step) == [post EXCEPT !.at = step, !.errors = @ \cup {stage}]
KeepsRun == UNCHANGED <<claim, run, entered, refused, lingers, gate, stops>>
PostEnds ==
    IF again THEN Starts ELSE unit' = "inactive" /\ at' = "none" /\ UNCHANGED again

Recorded == receipt.status # "none"
PostBegin ==
    /\ unit = "post" /\ post.at = "begin"
    /\ IF Recorded THEN post' = Idle /\ PostEnds
       ELSE post' = Goes("revoke") /\ UNCHANGED <<unit, again, at>>
    /\ UNCHANGED <<docker, credential, receipt, sidecar, faults>> /\ KeepsRun
PostRevoke ==
    /\ \/ Phase("revoke", Goes("liveness")) /\ credential' = FALSE /\ Costs(FALSE)
       \/ Phase("revoke", Fails("credential", "liveness")) /\ UNCHANGED credential /\ Costs(TRUE)
    /\ UNCHANGED <<unit, again, at, docker, receipt, sidecar>> /\ KeepsRun
\* Only a whole claim names a process; ps may say nothing.
PostLiveness ==
    /\ \/ Phase("liveness", Goes("ownership")) /\ Costs(FALSE) /\ ~(claim = "whole" /\ lingers)
       \/ Phase("liveness", Fails("liveness", "record")) /\ claim = "whole" /\ Costs(~lingers)
    /\ UNCHANGED <<unit, again, at, docker, credential, receipt, sidecar>> /\ KeepsRun
PostOwnership ==
    /\ \/ Phase("ownership", Goes("account")) /\ (run.made => run.owner)
       \/ Phase("ownership", Fails("ownership", "record")) /\ run.made /\ ~run.owner
    /\ UNCHANGED <<unit, again, at, docker, credential, receipt, sidecar, faults>> /\ KeepsRun

\* Bug: the worker's record counts where the controller's is missing.
CreditsWorker(i) == IF i \in DOMAIN run.results THEN run.results[i] ELSE i = run.trial /\ run.file = "success"
\* A success is the controller's to record: none is read off a trial's file.
Success(i) == i \in DOMAIN run.results /\ run.results[i]
Row(i) ==
    [success |-> Success(i),
     disposition |-> IF i <= Len(run.results) THEN "controller_recorded"
                     ELSE IF i <= run.trial THEN "attempted_unassessed" ELSE "unrun"]
Accounting == [i \in Plan |-> Row(i)]
PostAccount ==
    /\ \/ /\ Phase("account", [post EXCEPT !.at = "clean", !.accounted = TRUE]) /\ Costs(FALSE)
          /\ sidecar' = Accounting
       \/ Phase("account", Fails("accounting", "clean")) /\ UNCHANGED sidecar /\ Costs(TRUE)
    /\ UNCHANGED <<unit, again, at, docker, credential, receipt>> /\ KeepsRun

\* Containers are listed again after the removal.
Remains(left) == left # {}
Provisioned == run.environment # "none"
\* The janitor's cleanup, unless environment.json cannot be read, and a look
\* at what is left.
PostClean ==
    \E left \in SUBSET docker, partial \in BOOLEAN :
        /\ Provisioned \/ (left = docker /\ ~partial)
        /\ run.environment = "torn" => left = docker /\ ~partial
        /\ Costs(partial \/ (Provisioned /\ run.environment # "torn" /\ left # {}))
        /\ docker' = left
        /\ IF run.environment = "torn" \/ partial \/ Remains(left)
           THEN Phase("clean", [Fails("cleanup", "record") EXCEPT !.cleaned = "failed"]) /\ UNCHANGED run
           ELSE /\ Phase("clean", [Goes("record") EXCEPT !.cleaned = IF Provisioned THEN "deleted" ELSE "not_provisioned"])
                /\ run' = [run EXCEPT !.environment = IF Provisioned THEN "deleted" ELSE @]
        /\ UNCHANGED <<unit, again, at, credential, receipt, sidecar, claim, entered, refused, lingers, gate, stops>>
PostRecord ==
    /\ unit = "post" /\ post.at = "record" /\ post' = Idle /\ PostEnds
    /\ receipt' = [status |-> IF post.errors = {} THEN "finished" ELSE "failed", cleanup |-> post.cleaned,
                   accounted |-> post.accounted, errors |-> post.errors, claimed |-> claim # "none"]
    /\ UNCHANGED <<docker, credential, sidecar, faults>> /\ KeepsRun
\* TimeoutStopSec bounds the phase too.
PostTimesOut ==
    /\ unit = "post" /\ Costs(TRUE) /\ post' = Idle /\ PostEnds
    /\ UNCHANGED <<docker, credential, receipt, sidecar>> /\ KeepsRun
PostStop == PostBegin \/ PostRevoke \/ PostLiveness \/ PostOwnership \/ PostAccount \/ PostClean \/ PostRecord

---------------------------------------------------------------------------
(* The gate: check_service_stop.run. *)

Watched == gate.mode # "none"
Trigger == gate.committed + 1
GateAt(step) == gate.at = step
GateGoes(step) == gate' = [gate EXCEPT !.at = step]
Raises == gate' = [gate EXCEPT !.at = "stop", !.status = "failed"]
OnlyGate == UNCHANGED <<unit, again, process, lingers, recovery, stops>>

Launch ==
    /\ GateAt("launch") /\ Starts /\ unit = "none"
    /\ \/ Watched /\ GateGoes("watch") /\ Costs(FALSE)
       \/ ~Watched /\ gate' = [gate EXCEPT !.at = "over", !.status = "none"] /\ Costs(FALSE)
       \/ Watched /\ Raises /\ Costs(TRUE)  \* systemd-run takes too long, its unit starts
    /\ UNCHANGED <<claim, run, docker, entered, refused, lingers, recovery, stops>>
\* Bug: only a receipt ends the watch.
ReceiptOnly == Recorded
\* The receipt, or the deadline where none can come any more.
Hopeless == Recorded \/ unit = "inactive"
\* An acknowledged repair in the trial, which must still be running.
Watch ==
    /\ GateAt("watch") /\ OnlyGate /\ Costs(FALSE)
    /\ \/ Trigger \in run.acked /\ run.trial = Trigger /\ run.file = "running" /\ GateGoes("prefix")
       \/ Trigger \in run.acked /\ ~(run.trial = Trigger /\ run.file = "running") /\ Raises
       \/ Trigger \notin run.acked /\ Hopeless /\ Raises
ReadPrefix ==
    /\ GateAt("prefix") /\ OnlyGate /\ Costs(FALSE)
    /\ IF Len(run.results) = gate.committed /\ \A i \in DOMAIN run.results : run.results[i]
       THEN gate' = [gate EXCEPT !.at = "capture", !.prefix = run.results] ELSE Raises
Capture ==
    /\ GateAt("capture") /\ OnlyGate /\ Costs(FALSE)
    /\ IF unit = "active" THEN GateGoes("act") ELSE Raises
\* systemctl stop, restart or kill, whatever has become of the unit.
Act ==
    /\ GateAt("act") /\ UNCHANGED faults
    /\ \/ /\ Dies(gate.mode = "restart") /\ GateGoes("await") /\ lingers' \in {lingers, faults > 0}
          /\ stops' = stops + (IF gate.mode = "kill" THEN 0 ELSE 1)
       \/ /\ unit = "post" /\ gate.mode # "kill" /\ GateGoes("await")
          /\ again' = (again \/ gate.mode = "restart")
          /\ UNCHANGED <<unit, process, lingers, recovery, stops>>
       \/ /\ unit = "post" /\ gate.mode = "kill" /\ GateGoes("await") /\ post' = Idle /\ PostEnds
          /\ UNCHANGED <<claim, run, docker, entered, refused, lingers, credential, receipt, sidecar, stops>>
       \/ /\ unit = "inactive" /\ gate.mode = "restart" /\ Starts /\ GateGoes("await")
          /\ UNCHANGED <<claim, run, docker, entered, refused, lingers, recovery, stops>>
       \/ unit = "inactive" /\ Raises /\ OnlyGate
Await ==
    /\ GateAt("await") /\ unit = "inactive" /\ OnlyGate /\ Costs(FALSE)
    /\ IF Recorded THEN GateGoes("verify") ELSE Raises
\* Any of its waits may take too long.
GivesUp ==
    /\ gate.at \in {"watch", "await"} /\ Costs(TRUE) /\ Raises /\ OnlyGate

\* check_accounting: the committed prefix, one interrupted trial, the rest unrun.
AccountsForPlan ==
    /\ Len(sidecar) = Trials
    /\ \A i \in DOMAIN sidecar :
        sidecar[i] = IF i <= gate.committed THEN [success |-> TRUE, disposition |-> "controller_recorded"]
                     ELSE IF i = Trigger THEN [success |-> FALSE, disposition |-> "attempted_unassessed"]
                     ELSE [success |-> FALSE, disposition |-> "unrun"]
RefusalSeen == gate.mode = "restart" => refused > 0
Verify ==
    /\ GateAt("verify") /\ OnlyGate /\ Costs(FALSE)
    /\ IF /\ receipt.status = "finished" /\ receipt.cleanup = "deleted" /\ AccountsForPlan
          /\ run.results = gate.prefix /\ ~lingers /\ RefusalSeen
       THEN gate' = [gate EXCEPT !.at = "stop", !.status = "passed"] ELSE Raises
StopsUnit == TRUE
\* The finally clause: the unit is stopped whatever has happened.
StopUnit ==
    /\ GateAt("stop")
    /\ \/ /\ StopsUnit /\ Dies(FALSE) /\ GateGoes("settle") /\ stops' = stops + 1
          /\ UNCHANGED <<lingers, faults>>
       \/ /\ StopsUnit => unit # "active"
          /\ GateGoes("settle") /\ again' = FALSE /\ Costs(FALSE)
          /\ UNCHANGED <<unit, process, lingers, recovery, stops>>
       \* systemctl itself fails
       \/ Costs(TRUE) /\ gate' = [gate EXCEPT !.at = "over", !.status = "stop_failed"] /\ OnlyGate
Settle == GateAt("settle") /\ (StopsUnit => unit = "inactive") /\ GateGoes("over") /\ OnlyGate /\ Costs(FALSE)
Gate == Launch \/ Watch \/ ReadPrefix \/ Capture \/ Act \/ Await \/ Verify \/ StopUnit \/ Settle

\* Nothing is left to do, or the gate sleeps between two looks.
Waits ==
    /\ UNCHANGED vars
    /\ (gate.at = "over" /\ unit = "inactive") \/ gate.at \in {"watch", "await"}
Next ==
    \/ Invocation \/ Work \/ MainExits \/ Terminated \/ LingerEnds \/ Restarted
    \/ PostStop \/ PostTimesOut \/ Gate \/ GivesUp \/ Waits

---------------------------------------------------------------------------
(* recover_interrupted_report.recover: a report made by hand. *)

Interrupted == Len(run.results) + 1
\* The trial after the committed ones is there, running and not assessed.
Partial == run.trial = Interrupted /\ run.file = "running"
Recoverable ==
    /\ ~run.accounting /\ ~run.cleanup /\ Interrupted <= Trials /\ Partial /\ stops = 1
Recovered == [i \in Plan |-> IF i < Interrupted THEN "controller_recorded"
                             ELSE IF i = Interrupted THEN "attempted_unassessed" ELSE "unrun"]

---------------------------------------------------------------------------
(* Properties: of states, and of a step. *)

TypeOK ==
    /\ unit \in {"none", "active", "post", "inactive"} /\ again \in BOOLEAN
    /\ (at # "none") <=> (unit = "active")
    /\ (post.at # "none") <=> (unit = "post")
    /\ claim \in {"none", "torn", "whole"} /\ docker \subseteq {"cluster", "agent"}
    /\ Len(run.results) <= run.trial /\ run.trial \in 0 .. Trials
    /\ run.environment \in {"none", "torn", "provisioning", "deleted"}
    /\ run.file \in {"none", "running", "success", "failed"}
    /\ receipt.status \in {"none", "finished", "failed"} /\ faults \in 0 .. MaxFaults
    /\ gate.status \in {"running", "none", "passed", "failed", "stop_failed"}

\* service_experiment.py:95 "The inode is the durable, fail-closed claim":
\* however often the unit is started, and wherever an invocation was cut off,
\* the experiment is entered once, and never after a claim that was torn.
RunsOnce == entered <= 1 /\ (claim = "torn" => entered = 0)

\* The receipt of the first recovery stands, whatever is started later.
ReceiptStands == receipt.status # "none" => receipt' = receipt

\* infra/gcp/README.md:235 says that a finished receipt establishes completed
\* recovery: no container of the study is left, its credential is gone and its
\* trials are accounted for - now and whatever is started later, once the
\* study had been claimed when the receipt was written.
RecoveredMeansClean ==
    receipt.status = "finished" /\ receipt.claimed =>
        docker = {} /\ ~credential /\ receipt.accounted

\* The same of every finished receipt.
FinishedMeansClean ==
    receipt.status = "finished" /\ unit = "inactive" => docker = {} /\ ~credential

\* A trial's success is credited only where the controller committed it, no
\* trial that was begun is called unrun, and one that was begun and not
\* committed is neither a success nor unrun.
NoCreditWithoutCommit ==
    receipt.claimed /\ receipt.accounted =>
        \A i \in Plan :
            /\ sidecar[i].success => i \in DOMAIN run.results /\ run.results[i]
            /\ sidecar[i].disposition = "unrun" <=> i > run.trial
            /\ sidecar[i].disposition = "controller_recorded" <=> i \in DOMAIN run.results

\* The report made by hand and the post-stop accounting tell the same of every
\* trial, wherever both can be had.
RecoveriesAgree ==
    unit = "inactive" /\ Recoverable /\ receipt.claimed /\ receipt.accounted =>
        \A i \in Plan : sidecar[i].disposition = Recovered[i]

\* A gate that passed cut the study off in its declared trial, after a repair
\* and before a commit, with the successes before it kept; the study was
\* entered once, a restart was refused, and nothing is left.
GateIsSound ==
    gate.status = "passed" =>
        /\ Trigger \in run.acked /\ run.trial = Trigger
        /\ run.results = [i \in 1 .. gate.committed |-> TRUE]
        /\ entered = 1 /\ docker = {} /\ ~credential
        /\ gate.mode = "restart" => refused > 0

\* check_service_stop.py:247 "never leave a running study": when a gate is
\* over, however it ended, its unit is stopped - unless systemctl failed.
NothingLeftRunning ==
    gate.at = "over" /\ gate.mode # "none" /\ gate.status # "stop_failed" => unit = "inactive"

ServiceIsSound ==
    /\ TypeOK /\ RunsOnce /\ RecoveredMeansClean /\ NoCreditWithoutCommit /\ RecoveriesAgree
    /\ GateIsSound /\ NothingLeftRunning

\* Every gate comes to its verdict and every study to its end.
Settled == gate.at = "over" /\ unit = "inactive"
=============================================================================
