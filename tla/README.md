# Verification of Autonomy-Lab

Autonomy-Lab runs an AI agent, or a fixed or admitted program, as the operator
of a small Kubernetes application whose `inventory` Service is broken in a
known way (its named port targets 9999 instead of 8080).  The operator may
repair it only through a *broker*, which keeps a durable journal and sends at
most one conditional patch per operation.  Around that stand the machinery that
measures whether the repair worked (verifier, scorer, audits), the one that runs
the trials (harness, experiments, campaigns, studies under systemd), and the
gates that judge their evidence afterwards.  This directory holds TLA+ models of
the parts where order, crashes and concurrency decide whether the results are
true, the TLC runs that check them and TLAPS proofs for every instance size.

Paths without a directory are below `src/autonomy_lab/` of the repository;
others are from its root.

## 1. Inventory

| Part | Source | State | Operations | Talks to |
|---|---|---|---|---|
| Action broker | `broker.py` | SQLite journal: `operations`, `operation_contracts`; owner uuid per instance; policy | `propose`, `resume_prepared`, `_record_conditions`, `_reject_prepared`, `_finish`, `reconcile`, `lookup` | Kubernetes adapter, authorization callback, hooks |
| Operation contracts | `operation_contract.py`, `durable_contract.py` | none (a binding is stored by the broker) | `binding_for`, `patch_for_binding` | - |
| Kubernetes adapter | `kubernetes.py`, `bounded_http.py` | the API's Service, its `resourceVersion` | `get_service`, `patch_service` | API server |
| Admission registry | `procedures.py`, `program_admission.py` | SQLite: `state`, `versions`, `decisions`, `pins`, `authorizations`, refusals | `promote`, `withdraw`, `start_episode`, `authorize`, `authorization` | broker (inside its claim), campaign operator |
| Campaign operator | `campaign.py` (`operator`), `runbook.py` | operator lock, workspace and episode files | `reconcile_pending`, episodes, first proposal, bounded refresh, guarded send | broker, registry, tools |
| Campaign owner, observer, janitor | `campaign.py` (`own`, `observe`, `worker`, `finalize_owner`), `janitor.py`, `supervisor.py`, `campaign_report.py` | lease, window, ending, samples, worker leases | provision, spawn, sample, stop, clean up | processes, files |
| Agent loop | `agent.py`, `context.py` | JSON checkpoint, lock file | `run_agent`, `process_tools`, `recover_proposal`, `record_response` | model client, toolbox |
| Observation tools, fixed actors | `toolbox.py`, `runbook.py`, `desired_state.py` | evidence log, terminal claim | `call`, `_record`, `_replay` | broker, probes |
| Model relay, isolated runtime | `isolated_runtime.py`, `authority_worker.py`, `rpc.py` | `model-relay.json`, `rpc-budget.json` | `count_tokens`, `generate`, `record`, `charge_rpc` | provider, agent container |
| AX mailbox | `ax_runtime.py`, `mailbox.py` | request and response files, boots, session | publish, answer, suspend and resume | AX, agent |
| Verifier, scoring, audit | `verifier.py`, `scoring.py`, `audit.py` | the window's snapshots | probe, judge, score, correlate | the application, finished evidence |
| Acceptance, experiment, trial | `harness.py`, `experiments.py`, `crash_worker.py`, `trial_worker.py`, `environment.py` | `result.json`, `trial.json`, `accounting.json` | fault scripts, readiness wait, crash check, supervised trials | everything above |
| Studies and comparisons | `scripts/check_*.py`, `experiments/contract_confirmation`, `experiments/*/gate.py` | case receipts, a ledger per study or shard | run a case, finalise it, judge it, select | campaign, broker, gates |
| Offline gates | `conflict.py`, `ambiguity.py`, `refresh.py`, `program_lifecycle.py`, `customer_benefit*.py`, ... | none | assess recorded campaigns | - |
| Study service | `scripts/service_experiment.py`, `scripts/check_service_stop.py` | launch claim, `post-stop.json` | start, post-stop recovery, stop gate | systemd, docker |
| Request settlement | `experiments/request_settlement`, `quote.py`, `inventory.py` | a fence and a ledger per service | open, offer, shut, settle, audit | PostgreSQL |

Everything that can go wrong here happens between processes and across their
deaths: several broker instances work on one journal; the API may answer late,
never, or after the caller is gone; the journal and the admission ledger are
two databases with two commits; an operator, an agent, a campaign's owner, a
trial's worker or a systemd unit is killed at any statement and another one
starts from what is on disk; a measurement is taken while the thing measured
changes.  The hazards are listed line by line under `hazards` in `PROJECT.json`.

What makes each part correct:

- **Broker**: an operation is transmitted at most once whatever instances
  resume, crash and reconcile it; `rejected` means no effect ever,
  `acknowledged` an effect that was had, and everything else that may have an
  effect is open and holds its slot of the budget; a repair lands only on the
  Service content its evidence was about; final rows stay.
- **Registry**: the state row is what replaying the decisions gives; an
  authorization names a decision at which its activation was in force; nothing
  follows a withdrawal; the ledger only grows.
- **Campaign operator**: what is transmitted was authorized for that operator's
  episode and the campaign's program; one operation is open at a time over all
  operators; an episode has one effect at most.
- **Agent loop**: the provider gets each request once over all runs; the budgets
  of a checkpoint only shrink; a proposal in doubt is looked up before it is made
  again; a claim is the last thing an agent does; what the checkpoint reports of
  the world is so; a final checkpoint stays as it is.
- **Model relay**: the provider gets one request at a time whatever the agent
  does; when a request is sent the host's books hold all that was billed; RPC
  limits bind over restarts; an overrun of a reservation is final.
- **Mailbox**: a request is served at most once, for the process that made it,
  and charged before; an interrupted suspension is never tried again.
- **Evidence log, fixed actors**: a torn append is never evidence, what was
  issued survives, nothing follows the claim; an authored actor repairs once and
  claims what it verified after its repair.
- **Campaign lifecycle**: only leased processes are killed; a cluster is watched,
  or its cleanup reported as failed; a finished campaign has left nothing; all of
  it ends; a sample is of its slot or missing.
- **Verifier, scorer, audits**: no success over a fault that was there to be
  seen; no credit for a check that a later send outdates; a clean audit accounts
  for every write; honest evidence passes and harm does not.
- **Harness, experiments, studies**: a run that passed saw what it says and left
  nothing; attempted trials are recorded and cut-off ones not scored; a case runs
  once; a selection rests on complete, reproduced evidence.
- **Study service**: a study is entered once; a recovery leaves nothing and
  credits only what was committed.
- **Settlement**: the conditions of a measurement change only when no read of it
  is left.

## 2. Modules

| Module | Models | Checked in |
|---|---|---|
| `OperationContract` | policy decisions, contracts and JSON Patch guards as operators (`operation_contract.py`, `durable_contract.py`) | `broker*` |
| `Broker` | journal, calls, API and other writers of the Service (`broker.py`, `kubernetes.py`) | `broker*`, `campaign` |
| `RepairPromise` | what the broker promises per operation, without journal, calls or wire | `broker` |
| `ProgramRegistry` | the admission ledger (`procedures.py`, `program_admission.py`) | `stores`, `campaign` |
| `Campaign` | operators over broker and registry (`campaign.py`, `runbook.py`) | `campaign` |
| `Agent` | the checkpointed loop over provider, toolbox and journal (`agent.py`, part of `toolbox.py`) | `agent` |
| `ModelRelay`, `ProviderPromise` | the host's books of model requests and RPCs; one request at a time (`isolated_runtime.py`) | `relay` |
| `Mailbox`, `ChannelPromise` | guest, host and the files between them; requests served once for who asked (`mailbox.py`, `ax_runtime.py`) | `stores` |
| `EvidenceLog` | append, torn tail, quarantine, replay, terminal claim (`toolbox.py`) | `stores` |
| `FixedActors` | runbook and reconciler against any answers (`runbook.py`, `procedure.py`, `desired_state.py`) | `stores` |
| `CampaignLifecycle` | owner, workers, commands, janitor over a process table (`campaign.py`, `janitor.py`, `environment.py`) | `lifecycle*` |
| `SampleCalendar` | the observer's frozen slots and the scorecard (`campaign.py`, `campaign_report.py`) | `lifecycle` |
| `StudyService` | a study under systemd, its recovery and its stop gate (`scripts/service_experiment.py`, `scripts/check_service_stop.py`) | `lifecycle*`, `service_early` |
| `Verifier` | a window of probes over a changing system, and its verdict (`verifier.py`) | `harness` |
| `Acceptance`, `CrashBarrier` | an acceptance run; its check of crash recovery (`harness.py`, `crash_worker.py`) | `harness` |
| `Experiment`, `Trial` | supervised trials and their accounting; one trial (`experiments.py`, `supervisor.py`) | `harness` |
| `DeclaredStudy` | the books of a study's cases (`scripts/check_*.py`) | `harness` |
| `Comparison` | the two contracts compared in shards, and the selection (`customer_benefit.py`, `experiments/contract_confirmation`) | `harness` |
| `Scoring`, `AuditCorrelation` | the scorer, and the correlation of the API server's log, each over runs it has to judge (`scoring.py`, `audit.py`) | `audits` |
| `CaseAudit`, `ComparisonCase` | a case of the comparison, live, and its audit (`customer_benefit_audit.py`, `experiments/contract_confirmation/run.py`, `audit.py`, `gate.py`) | `audits` |
| `IncidentAudit`, `IncidentCase` | a single-incident study, live, and its gate (`conflict.py`, `ambiguity.py`, `refresh.py`, `program_lifecycle.py`, `scripts/check_*.py`) | `audits`, `harness` |
| `Settlement`, `FencedReads` | batches over two fenced services; one fence (`experiments/request_settlement`, `quote.py`, `inventory.py`) | `audits`, `harness` |
| `BrokerProofs`, `ProgramRegistryProofs`, `CampaignProofs`, `AgentProofs`, `ModelRelayProofs` | theorems about these components | - |
| `StoreProofs` | theorems about evidence log, fixed actors and mailbox | - |
| `HarnessProofs` | theorems about window, trial, crash check, acceptance, experiment and declared study | - |
| `AuditProofs` | theorems about the correlation and the settlement | - |
| `MC*` | instances for TLC | - |

An operator under a comment `Bug:` is a plausible mistake in the definition below
it.  It is no part of the model: put in the place of that definition, it must
make a property fail.

### Broker

A row of `operations` is split into one function per column (`status`,
`request`, `reserved`, `owner`, `contract`, `snapshot`, `reason`); an operation
without a row is `absent`.  A broker instance is a member of `Workers` with a
program counter `pc`.  Each SQLite transaction and each adapter call of
`resume_prepared` is one action, in the order of the code:

    Lookup - ReadBinding - Preflight - RecordConditions - Claim - Send - Receive / GiveUp - Finish

with `Reject`, `ClaimLost`, `SendRefused` and `CallRaises` for the other exits.
Between any two of them another instance, the API, a change of policy or a
crash may come.  A transaction is atomic because the code opens it with
`BEGIN IMMEDIATE`.  A restarted process is a new member of `Workers`, as `owner`
is a new uuid per instance.  The API is a sequence of Service versions; a
request on the wire may be applied or refused at any later time, also after its
sender gave up or died, if the JSON Patch's tests hold on the newest version.
`OtherWriter` is the rest of the cluster: heartbeats, alterations, recreations.

`RepairPromise` has, per operation, a stage (absent, intended, sent, refused,
repaired), whether its effect was had, and nothing else.  `Broker` maps its rows
and wire to it; that mapping is checked (`KeepsPromise`) and proved.

### ProgramRegistry

`promote` and `withdraw` decide on the revision a controller has *seen*, which
may be old; `start_episode` pins an episode to the active version; `authorize`
is the one-use authorization.  `decisions` is the append-only table; `active`,
`activeRevision` and `revision` are the state row.

### Campaign

The operators' program counters are the broker's calls plus `phase`, `running`,
`last`, `refreshed`.  A call of the broker and the registry compose one step of
each at a time; the exception is the claim, which commits the registry's
authorization inside the journal's transaction: `ClaimAuthorized` does both,
`ClaimLostAfterAuthorization` only the first, `ClaimRefused` neither.

### Agent

The checkpoint is one set of variables that a save replaces as a whole
(`_save` writes a new file and renames it), so the in-memory copy is left out.
`pc` names the point between two saves.  `toolCalls`, `attempts`, `turn` follow
`call_tool`; `AskJournal`, `Lookup` and `Judge` are `recover_proposal`, whose
three saves are three steps.  `Raise` is an exception (the checkpoint says
`error`), `Die` a kill (it says nothing new), `InterruptInside` a Ctrl-C between
two statements, whose half-done state `run_agent` saves; `QuietNext` is every
other step, and `MCAgent` has behaviours of both kinds.  The toolbox with the
broker behind it is external: `journal` binds an identifier to the first request
for it, `wire` holds proposals whose caller is gone, `finished` is the claim in
the evidence log.

### ModelRelay

Here disk and memory do differ: `disk` is `model-relay.json`, `mem` is
`ModelRelay.state`, and a save that raises leaves the file old or new while the
host goes on with `mem` (`SaveFails`).  `End` is every way a run of the host ends,
`Open` the next one.  The agent is not a component: any RPC may come next, for
any input and output limit.  A response is a number of tokens; `Thoughts` is what
the history submitted with a request may add to its reservation; a history the
host does not recognise is `RefuseGenerate`.  The check of message numbers
(`isolated_runtime.py:244`) is left out, as the durable budget refuses no later.

### Mailbox and EvidenceLog

The durable files of a task are variables that only grow (`posted`, `answered`,
`boots`, ...); a boot is named by its position in `agent-boots.json`.  The guest
publishes and polls, the host polls and serves, a later run of the host suspends
and resumes the task; the host may die between any two.  Mapped
to `ChannelPromise`, a request is unsent, asked, served, answered, and the
process that asked is still there.  `EvidenceLog` has the file as committed
records and a torn tail, and a process that dies inside an append; `Faults` adds
an append that fails in a process that lives on: after some bytes of its line, or
after all of them, when one of the two `fsync` raises over a committed record.

### CampaignLifecycle, SampleCalendar, StudyService

A worker's workspace is a number, and so is the start time `ps` prints for its
process, so a recycled identifier never carries the identity of its lease.  Each
actor (owner, commands, workers, janitor) has its program counter; `spawn_worker`
is one action per file it writes.  `stop_worker` and the first half of `cleanup`
are a sweep over the leases, in any order, by the owner, a command or the janitor
(`sweep`): `Check` is `ps` with the comparison of identities, `Strike` the kill, by
identifier, of what the process table holds by then.  The identifier of a worker
that ended is free once its parent polled it, waited for it or is gone (`Unreaped`);
`PromptReuse` says whether it may be given away while a stopper that checked it has
still to kill.  `Faults` is how many calls of `ps` or of a cleanup raise: a
`kind delete` that raises has deleted the cluster or not, the owner puts it in its
receipt, and the janitor ends as `failed`.  `Expires` says whether the owner may
outlive its lease.

`StudyService` has a unit's invocation, its
control group, its post-stop phase and the gate as actors; a stop, a restart, a
kill or a machine's loss of the process may come at any of their statements.

### Verifier, Acceptance, CrashBarrier, Experiment, Trial

Each observation of a probe is read at its own moment (`Read`), while faults and
outages come and go; `evaluate_snapshot` and `run_window` are operators on what
was read.  `Acceptance` is the script of `run_demo` with a client path that
follows the route with a delay.  `Experiment` keeps what survives of each trial
(`results`, the record file, `accounting`) apart from what its worker is doing.
`Trial` keeps the world and what the actor can see of it apart, so that a score of
the wrong one shows.

### Scoring, AuditCorrelation and the two cases with their audits

These judge evidence, so each has a part that *makes* the evidence, by the same
order of effect and record as the program, with calls that die, answers that are
lost and lines that are torn, and a history that only the properties read (what
was really sent, written, harmed).  The check functions of the code are one
operator per check, in the code's order, as the first that fails is the reason of
the refusal.  `CaseAudit` and `IncidentAudit` also have the authored corruptions
of the repository's negative tests with the reason each must be refused for.  In
`ComparisonCase` and `IncidentCase` a *defect* may be chosen for the broker; the
broker of a defect `none` is the one of `Broker`, one operation at a time.

### DeclaredStudy, Comparison

The receipts and ledgers of a run of cases, with every save a step, a fault at any
of them, and, for the comparison, shards that are killed, artifacts that are
damaged and a reproduction that is compared.

### Settlement

Both services are fences around handlers; a handler of Quote waits for one of
Inventory, which waits for a database session, and each may outlive who waits for
it.  The controller reads the two ledgers one after the other.  Mapped to
`FencedReads`, only the open measurement and the reads of it are left.

## 3. Runs

A run either has an instance of one component, or is a *portfolio*: its MC module
gathers the variables of several components that have nothing to do with each
other, `part` says whose behaviour this is, the variables of the others keep a
value that means nothing, and each property is the conjunction of what its parts
promise.  `Ended`, `CampaignIsSafe`, `CreditIsSound` and the like are those
conjunctions in the component's module, with a comment on every member.

| Run | Instance | Question |
|---|---|---|
| `broker` | 2 operations, 2 instances that crash, 2 Service versions, a limit that is lowered, raised, revoked | Is the journal true, the budget kept, and `RepairPromise` implemented? |
| `broker_precise` | 1 operation, 2 instances, 3 versions, both contracts, fair calls | Does a repair land only on what its evidence was about, and is a dispatch recorded in the end? |
| `campaign` | 2 operators in turn, 2 episodes, 2 operations, 2 decisions | Is every transmission authorized, one decision open, and is it broker plus registry? |
| `agent` | 1 identifier, 2 requests for it, 3 runs, 2 limits, turns of 1 or 2 calls | Is the checkpoint true over all runs, and does every run end? |
| `relay` | 2 inputs, 2 sets of options, 3 runs of the host | One request at a time, budgets over restarts, overruns final? |
| `stores` | registry: 2 versions, controllers, episodes, 5 decisions; mailbox: 2 requests, 3 runs; log: 2 calls, 3 records; every pair of decisions of an actor | Is what is on disk never taken back, over crashes and stale reads? |
| `lifecycle` | campaign: 1 command, 2 identifiers for 3 workers, 1 kill, 1 owner's death, 1 call of `ps` or of a cleanup that raises; the same with a lease that expires in place of kill and death; with a replacement of the killed operator in place of death and failure; calendar of 2 slots; study of 2 trials under 4 modes with 2 failures | Does nothing stay unwatched, is no sample filled in, is a study recovered by one receipt? |
| `lifecycle_ends` | the first campaign, and no cleanup raises; the study with 1 failure | Do workers, clusters, studies and gates end? |
| `lifecycle_orphan` | a `kind create` that outlives its owner | a **violation** (below) |
| `service_early` | 1 trial, no gate, 2 failures | a **violation** (below) |
| `harness` | window of 2 ticks and 2 changes; acceptance with 3 mishaps; crash check with 2; experiment of 3 trials with Ctrl-C in the waits, or anywhere; every kind of scenario; studies of 2 to 4 cases with 3 faults; comparison of 4 cases on one and on two shards; for their end, 3 incident studies and 2 batches | Are verdicts, scores, receipts and selections earned, and does everything end? |
| `audits` | scorer with 6 records; correlation of 2 writes, 2 operations, 1 torn line; every context of the comparison and every incident study, honest with 1 slip or under each defect; settlement of 2 batches of 2 requests, 1 batch with 2 crashes, 2 batches of 1 request with 2 | Is credit deserved, do honest runs pass and is harm noticed; is a settled batch quiet? |

Why the bounds are enough.  Every safety property of the first five runs and of
`stores`, and those named in section 5 of `harness` and `audits`, are proved for
all sizes; the others are about at most two of a thing: two instances racing for one row,
two operations competing for one slot, a predecessor and its successor.  A
Service version is needed before the preflight, between preflight and patch, and
after it.  Five decisions let a program be promoted, replaced, promoted
again and withdrawn.  Two operators are a predecessor and its successor; a third
one finds what the second found.  The agent needs a run that loses an answer, a
run that recovers and a run after that; turns of two calls have the pairs that
interact (an incident and a repair, two repairs under one identifier, a repair
and the claim).  The relay's options let two requests fit with and without the
thoughts of history, its usages lie below and above a reservation, and three
runs are one that goes wrong, one after it, and one with other limits; the same
goes for the mailbox.  A campaign has one killed worker and its replacement, and
fewer identifiers than processes so that one is recycled; one failure is of the
owner's cleanup, which the janitor can repeat, or of the janitor's, which nobody
does.  A calendar of two
slots has a measurement that runs into the next slot and one into the window's
end.  A window needs a probe before and one after its deadline and a fault that
comes and goes between two observations: two ticks and two changes.  The books of
a study have a fault in a case, one in its cleanup and one in the next save.  Four
cases are both contracts in two contexts, which is all that a selection compares.
A batch of two requests has one that runs while the other is late, and a second
batch for the late one to arrive in; two crashes are one of each service.
The scorer's bounded log has the two observations a proposal needs, two proposals
and a check between or after them; the constraint `LongRuns` cuts off longer
runs that do not begin with these two observations, since such a run can send
nothing.  `SmallRuns` lets a settlement's faults come in one batch, or in batches
of one request.

The bounds of `harness` and `audits` are the constants of their cfg, so that the
theorems are about any; what is fixed in the MC modules are the plans of the
comparison and the instances that only their end is asked of.

The bounds stand in guards: `MaxVersion`, `MaxRevision`, `MaxRuns` (`Open`),
`MaxId`, `MaxTime`, `MaxEpoch`, `MaxOps`, `MaxLog`, and the budgets of what
goes wrong: `Changes`, `Kills`, `OwnerDeaths`, `Faults` (of a campaign), `Mishaps`, `Misdeeds`, `Signals`
(of the experiment), `MaxFaults`, `MaxSlips`, `MaxTears`, `MaxDamage`, `MaxSteps`.

Symmetry is used for operations, instances, versions, controllers, episodes,
requests and inputs where no constant tells them apart and only safety is checked.

`CHECK_DEADLOCK FALSE` stands where a behaviour is over once its last run, study or
batch is, and nobody has to start another.

### Findings

Two disagreements are runs of their own:

- `lifecycle_orphan`.  The janitor deletes the cluster of a dead owner once and
  exits (`janitor.py:130`).  If the owner was killed while its `kind create`
  child goes on, there is nothing to delete yet, and the cluster that appears
  stays, against the README ("removes ... the owned cluster after controller
  death").
- `service_early`.  `finalize` keeps any `post-stop.json` (`scripts/service_experiment.py:196`).
  A restart that stops a unit before it opened its launch claim leaves such a
  receipt, finished and all unrun; the restarted unit runs the study, and its own
  recovery then does nothing.

The following are in the models and left out of a property by a constant or a
guard, which is named:

- `agent.py:309`.  `recover_proposal` puts an absent proposal back in the queue and
  then drops the journal's answer.  After a Ctrl-C between the two, `run_agent`
  saves the half-done state, and two lost dispatches later a proposal is made
  again without asking.  `QuietlyNoBlindRetry` is about behaviours without such a
  Ctrl-C (`InterruptInside`).  The broker's binding of identifiers keeps it from having a
  second effect: `KeepsPromise` does not depend on who proposes, or how often.
- `isolated_runtime.py:199`.  `record` saves a response with nothing pending and
  only then that an overrun closed the books; a host that dies between the two
  asks again.  `WholeOverrunIsFinal` is about behaviours where the two saves are
  one (`OverrunIsWhole`).  The overrun's tokens are on record throughout.
- `toolbox.py:226`.  `_record` does not look whether its previous append was
  completed: in a process that goes on after a write error, the next record is
  joined to the torn bytes and the file cannot be replayed.  And where the whole
  line is on disk and an `fsync` raises, the record is committed but neither issued
  nor remembered; `isolated_runtime.py:256` answers with the error and goes on, so
  after a claim of that kind the same process still proposes and records behind
  it.  `IssuedSurvive`, `CitedIsOnRecord` and `ClaimEndsTheLog` are about processes
  that die of such an error (not `Faults`); with `Faults`, `ClaimIsFinal` says that
  the log is final from when some process returned or replayed the claim.
- `ax_runtime.py:161`.  A result that the previous process publishes between the
  unlink and the suspension ends the new run with "AX did not reconstruct exactly
  one fresh agent process", where `docs/RUNTIME_REVIEW.md:37` has a bounded wait.
  The model takes the error path; no property says that it is not taken.
- `verifier.py:299`.  A quote that cannot be asked counts as a failure if the
  control read before it was healthy; a forward that is lost between the two makes
  a healthy service a `verified_failure`.  `FailureWasAFault` is checked with
  `SteadyMeasurement`.
- `experiments.py:705`.  A Ctrl-C while a partial record is replaced leaves an
  attempted trial among the unrun.  `AttemptedIsRecorded` is checked without
  `SignalsAnywhere`; `ScoresAreOfWholeTrials` with it.
- `experiments.py:737`.  A Ctrl-C in `teardown` is no `Exception`: `cleanup.json`
  then says `not_provisioned` over a cluster that is still there.  One that comes
  while `accounting.json` is saved (719) skips the teardown and leaves neither file.
  `Ended` asks for kept, removed or reported of a clean-up that was not cut short
  (`CutShort`), and of every clean-up that a reported deletion happened; what then
  removes the cluster is the janitor that `provision` started.
- `janitor.py:73`.  "Only kill registered process groups whose leader still has the
  same start time" (`janitor.py:65`), but the start time is read by one call and the
  group killed by a later one (so does `campaign.py:164`).  A worker that ends and is
  reaped in between leaves its identifier to an unrelated process, and the kill is
  that one's.  `OnlyLeasedProcessesKilled` is checked with `PromptReuse` FALSE: it is
  about processes that got a recycled identifier before the check, not between check
  and kill.  With `PromptReuse <- TRUE` in `MCLifecycle!Campaign` TLC shows the trace.
- `janitor.py:130`.  The janitor tries its cleanup once: one that raises or times out
  leaves the result `failed` and a cluster that nobody watches.  `ClusterWatched`
  accepts that report, and `CampaignsEnd` is checked without such a failure
  (`Faults` 0).  A `ps` that times out in a sweep passes over its worker, which may
  then become ready after the stop: `NoReadinessAfterStop` is about finalizations
  without an error on record.
- `scoring.py:393`.  The newest check is chosen by timestamp, so that a clock set
  back hides a failed one; where order counts, `AnswersAreDeserved` asks for
  `steps = 0`, and `CreditIsSound` is checked with `MaxSteps` 0.  `scoring.py:400`: a
  proposal resumed after the check by a call that dies before its record does not
  outdate the check; `Dies` and the answer `prepared` are not in one instance.
- `program_lifecycle.py:182`.  A study whose operator is stopped between the commit
  of a pin and its own file is failed with "Historical pins differ from executed
  episodes", where `procedure.py:105` says that such an empty attempt makes no claim.
  `HonestStudyPasses` leaves that case out; `InterruptedStartIsTolerated` states the
  comment.
- `scripts/check_campaign.py:64`.  A cleanup that fails after a case was
  interrupted raises in the interrupt's place, and the study goes on to its next
  case.  `InterruptStops` is about interrupts that arrive.
- `ambiguity.py:100`.  The gate counts only successful writes, so that a replay the
  API refused is not noticed: `PassedMeansConformant` exempts it.

## 4. Fairness

Safety is checked and proved without any.  `Broker!FairSpec` has weak fairness
of the steps of a call of a live instance: an SQLite statement waits for a lock
no longer than its busy timeout, and the adapter's HTTP client has a timeout, so
that a caller gives up on an API that never answers; there is no fairness of the
API, of `Resume` or of crashes.  `MCAgent` has weak fairness of `Step`, the
loop's own progress: the provider's client, the RPC channel and the probes all
have timeouts.  Nobody is assumed to run the agent again, and a proposal on the
wire need never arrive.  `MCLifecycle!FairSpec` has it of each process that is
not killed (owner, command, worker, janitor, each for itself), of the end of the
window, and of systemd, the invocation, its work, its exit, the post-stop phase
and the gate; none of a kill, of a command that is given or of a failure.
`MCHarness!FairSpec` has it of the clock and the probes of a window, whose reads
have timeouts; of the one controller of acceptance, crash check, experiment and
trial; of each shard; of controller, operator and observer of a study; and of the
settlement's controller, whose callers have a timeout.  Workers, services and
clients have none: it is the timeouts that end them.

## 5. Proofs

All theorems hold for every value of the constants that satisfies the named
assumptions: `OpsAssumption` (finitely many operations: they are counted),
`NilAssumption`, `VersionsAssumption`, `ProposalsAssumption`, `PoliciesAssumption`,
`ScopeAssumption`, the registry's `SelectableAssumption`, `NoVersionAssumption` and
`RevisionAssumption`, the campaign's `FrozenAssumption` and `LedgerAssumption`, the
agent's `TurnsAssumption`, `LimitsAssumption` and `NothingAssumption`, the relay's
`BooksAssumption`, the `StoresAssumption` of mailbox and log, the
`CorrelationAssumption` (finitely many operations, and the name of none is
"none") and `BatchesAssumption` of the audits, and the `HarnessAssumption`,
`TrialsAssumption` and `StudiesAssumption` of the harness.  TLC evaluates all of
them in the runs.  The window of `MCHarness` has `SteadyMeasurement`, which is the
finding on `verifier.py:299`.

- **`BrokerProofs`**.  `Inv == TypeOK /\ JournalAgrees`.  None of the safety
  invariants is inductive: that an operation is sent once depends on which
  instance holds its claim and what that instance knows of its request.
  `JournalAgrees` ties together, per row, untouched rows (no send, nothing on the
  wire), the one call that has claimed a row (`CallInv`), and the one request on
  the wire (`WireInv`).  From it follow `AtMostOnce`, `RejectedNeverLands`,
  `AcknowledgedLanded`, `EffectsAccounted`; with `NextRows` (a step writes one row
  at most) `JournalMovesForward`; with the stage of each row the refinement
  `KeepsPromise`; with cardinalities of reserved sets `BudgetKept` and
  `LoweredBudgetBinds`; and `RecordedConditionsSurvive`.  `ConditionsAreEvidence`
  adds that what is tested by a patch on its way, or by the call that will send
  it, is the version the proposal's evidence was about; `LandsOnItsEvidence`
  follows for either contract, however late the patch arrives.
- **`ProgramRegistryProofs`**.  The invariant says that the state row is the
  result of the decisions and that pins and authorizations name positions in
  them; appending to a sequence leaves old positions as they were.
- **`CampaignProofs`**.  `CInv` has three parts: at most one operator is alive
  and has calls in progress (`OneAlive`), what an operator in an episode knows of
  its last operation (`OperatorInv`), and whose episode an authorization is of
  (`GrantsHosted`).  Most steps are *calm*: they open no operation and authorize
  nothing, and one lemma settles them.  `CampaignUsesBroker` and
  `CampaignUsesRegistry` make the theorems of the parts theorems of a campaign:
  `CampaignKeepsPromise`.
- **`AgentProofs`**.  `Base == TypeOK /\ Ordered /\ Staged`: the calls of a turn are
  done in order, and the stage of the process says how far the current one is.
  On it rest five invariants, each for what one property speaks of: `Requests`
  (the provider's count against the checkpoint's), `Budgets` (the counters against
  the lowest limit so far), `Claims` (the claim and the place of `finish` in its
  turn), `Answers` (a lookup or result against journal and evidence) and `Doubts`
  (proposals whose answer is lost are the current call, and it is in doubt).  Each
  is inductive with `Base`; every safety property of `Agent` follows.
  `DoubtsAreLookedUp` is about the quiet behaviours of `MCAgent`, whatever the
  others do: for those it is false, which is the finding above.
- **`ModelRelayProofs`**.  `Inv == TypeOK /\ BooksAgree`: while a request is made the
  file and memory are the same books, and books without a pending request are
  complete, in memory and on disk each for itself.  That is what a failing save
  needs: it leaves memory pending or the file.  `RpcsAgree` and `Closed` add the RPC
  budget and the overrun; `OverrunsAreFinal` is about the behaviours whose overruns
  are saved whole, for the same reason.
- **`StoreProofs`**.  `EvidenceInv`: a process's counter covers the log it has open,
  what it appends is a record it may still make, and a claim it knows of is final;
  with `NothingIsLost` (no failed appends: a torn line is in quarantine before the
  file is cut, what may be cited is on record, a claim is the last) the log only
  grows.  `ActorInv`: what an
  authored actor proposes and claims is in its view.  `MailboxInv`: boots are
  counted, the session is on disk before a transition, served requests are settled
  and charged; it carries the refinement of `ChannelPromise` over crashes, and
  `ResultIsCurrent` what a returned result is of where the host has none.
- **`HarnessProofs`**.  `WindowInv`: a fault that has lasted since a probe began is in
  what the probe has read of it, and what was read to differ was a fault of the
  window.  `TrialInv`: a score follows the truth it was taken of, a trigger the
  change.  `BarrierInv`: the worker stops at its barrier, the controller kills only
  what reported from there.  `AcceptInv`: the lab is as the script left it at each of
  its nineteen steps as long as nothing went wrong.  `MeasuredInv` (Ctrl-C anywhere)
  and `WaitsInv` (Ctrl-C in the waits): each record is of a whole trial, each
  attempted trial is in the books, nothing runs after damage.  `StudyInv`: the
  cases before the n-th are closed, those after it untouched; the receipt on disk
  and the one in memory of the n-th are fair to its world at every step, also
  where an interrupt or another exception is on its way; and an aborted study that
  goes on has an excuse on record.
- **`AuditProofs`**.  `CorrelationInv`: the log's surviving lines cover the writes, and
  a report stands on what was read; without an intruder each write is the one
  dispatch of its operation, so that an honest broker is never accused.
  `SettlementInv`: gates, handlers and ledgers of both services belong to the batch
  that is open, and an accepted batch has no handler left; the refinement of
  `FencedReads` maps the open measurement and its reads.

The conjunctions that the runs check (`JournalIsTrue`, `BudgetHolds`, `LedgerStands`,
`OneRepairAtATime`, `UsesParts`, `CheckpointIsTrue`, `CheckpointMovesForward`,
`BudgetsHold`) have theorems of their own at the end of these modules.

Only model-checked, and why:

- liveness (`DispatchesAreRecorded`, `EveryRunEnds`, `CampaignsEnd`, `StudiesSettle`,
  `EverythingEnds`): fairness is beyond the prover's temporal backend;
- the campaign's lifecycle, its calendar and the study service
  (`NothingIsLeftUnwatched`, `SamplesAreOfTheirSlot`, `StudiesAreRecovered`): five
  kinds of actors over one process table, whose invariant has not been written
  down;
- `SelectionsAreEarned`: the plans of the comparison are literal sequences in
  `MCHarness`, so that a theorem would say no more than the run does;
- `CreditIsDeserved`, `HonestEvidencePasses`, `HarmIsNoticed`, `DamageIsRefused`: the
  check functions are folds and filters over whole logs, and what they compute for
  every log takes an induction over sequences, which no installed prover does.

## 6. Plan

1. Proofs of what is model-checked only, in this order:
   `CampaignLifecycle!OnlyLeasedProcessesKilled` (without `PromptReuse`);
   `StudyService`'s recovery; the comparison for any plan that `PlanAssumption` allows.
2. Composition of `Agent` with `Broker` in place of its abstract journal, and of
   `EvidenceLog` in place of its claim.
3. The learners: the budgeted blocks of `experiments/experience_learning` and
   `experiments/contextual_learning`, and the proposals of
   `experiments/generated_policy`.
4. `withdrawal.py` and `recurrence.py` as further studies of `IncidentAudit`.

## 7. Not modelled

Of the broker: the event log and its hashes, JSON encoding and request digests
(a request is a value and two requests are equal or not), the migration of old
journals, hooks for tests.  Of the registry: the refusal log and the hashes that
pin a program's text (a changed program is `AdmissionRefused`).  Of the agent: the
contents of messages and the choice of context, the parser of responses (a turn
is a member of `Turns`, an unusable one is `ReceiveUnusable`), the guard for
checkpoints of older releases whose turn was not queued (`agent.py:443`), and
validation of foreign or damaged checkpoints, which changes nothing.  Of the
lifecycle: port-forwards that survive their worker's leader (`campaign.py:163`), which
end with the cluster; start times that agree because `ps` prints whole seconds
(`janitor.py:17`); a Ctrl-C of the owner (its death by a kill is modelled).  Of an
experiment: a container whose removal fails (`supervisor.py:49`), which the code
records and reads nowhere; a Ctrl-C between the start of a worker and the `try` that
would end it (`supervisor.py:18`).  Of the study
service: an administrator's commands while a gate watches, docker requests that
outlive the cleanup, and the service of a whole campaign
(`scripts/service_campaign.py`).  Of settlement: the network delivers a request
once unless a fault repeats it; the concurrent offer of requests and the
one-second deadlines are any order; the rates and the decision of the
opportunity study are arithmetic.  Of the verifier, scorer and gates: metrics
that are sums over evidence, the wording of reasons, and the refusal of a sample that
a controller's action overlaps (`contract_confirmation/gate.py:210`).

Out altogether, as they keep no state between steps or are I/O: the command line,
telemetry, credentials, building of clusters and images, Terraform, reports,
validators of archived results, the offline arithmetic of `budget_horizon.py`,
`information_gate.py`, `policy_search.py` and `durable_contract_gate.py`.  The status and note of each component
in `PROJECT.json` say so part by part.
