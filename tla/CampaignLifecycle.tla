------------------------- MODULE CampaignLifecycle -------------------------
(***************************************************************************)
(* The processes of one persistent campaign (campaign.py, janitor.py,      *)
(* environment.provision): the owner that provisions, launches, measures   *)
(* and finalizes; the observer and operator workers; the commands that     *)
(* start a replacement operator; and the detached janitor.  They share     *)
(* only the campaign directory and the process table.                      *)
(*                                                                         *)
(* A workspace is a number; the identity ps(1) prints for a process (its   *)
(* start time) is the number of the workspace it was started for, so a     *)
(* recycled process identifier never carries the identity of its lease.    *)
(***************************************************************************)
EXTENDS Naturals, FiniteSets

CONSTANTS
    Launchers,          \* start-operator commands that may run
    MaxOperatorStarts,  \* the contract's max_operator_starts
    Pids,               \* process identifiers of workers
    Kills,              \* how many workers the test controller may kill
    OwnerDeaths,        \* how many times the owner may be killed: 0 or 1
    OrphanCreate,       \* may "kind create" outlive the killed owner?
    Expires,            \* bound: may the owner outlive its lease?
    Faults,             \* how many calls of stop_worker and cleanup may raise
    PromptReuse         \* may an identifier be reused between its check and the kill?

LifecycleAssumption ==
    /\ IsFiniteSet(Launchers) /\ "owner" \notin Launchers
    /\ MaxOperatorStarts \in Nat \ {0} /\ Kills \in Nat /\ OwnerDeaths \in {0, 1}
    /\ OrphanCreate \in BOOLEAN /\ Expires \in BOOLEAN /\ Faults \in Nat
    /\ PromptReuse \in BOOLEAN

VARIABLES
    owner,      \* where own() is, "done" after its receipt, "dead" once killed
    janitor,    \* where the janitor is
    launch,     \* per actor: where its spawn_worker is, and for which workspace
    ws,         \* the workers/ directory and the process of each workspace
    table,      \* the process table: what runs under each identifier
    disk,       \* the receipts in the campaign directory
    cluster,    \* does the kind cluster exist?
    creating,   \* is a "kind create" running without its owner?
    clock,      \* has the owner's lease expired, is the window over?
    sweep,      \* per stopper: the leases it has still to look at, the one it aims at
    astray,     \* history: what was killed under the lease of another process
    budget      \* remaining kills of each sort, and faults

vars == <<owner, janitor, launch, ws, table, disk, cluster, creating, clock,
          sweep, astray, budget>>

Actors == {"owner"} \cup Launchers
Stoppers == Actors \cup {"janitor"}
Workspaces == 1 .. (1 + MaxOperatorStarts + Cardinality(Launchers))
\* What the process table holds besides the processes of workspaces.
Vacant == 0
Foreign == 2 + MaxOperatorStarts + Cardinality(Launchers)
Absent == [role |-> "none", by |-> "none", pid |-> 0, leased |-> FALSE, ready |-> FALSE,
           state |-> "absent"]

Running == {"waiting", "locking", "connecting", "cleared", "ready", "working"}
Connected == {"connecting", "cleared", "ready", "working"}
Alive(w) == ws[w].state \in Running
Made == {w \in Workspaces : ws[w].state # "absent"}
OfRole(role) == {w \in Made : ws[w].role = role}

OwnerLives == owner \notin {"done", "dead"}

\* owner_alive: the lease, the identity of the owner, ending.json.
\* Bug: owner_alive ignores ending.json.
OwnerAliveWhileEnding == (OwnerLives \/ owner = "done") /\ ~clock.expired
OwnerAlive == OwnerLives /\ ~clock.expired /\ ~disk.ending

\* flock: a role lock is held by a live process, never by a file.
RoleLocked(role) == \E w \in OfRole(role) : ws[w].state \in Connected
LaunchLocked(role) ==
    \E a \in Actors : launch[a].pc \in {"counted", "made", "started"}
                      /\ launch[a].role = role

Idle == [pc |-> "idle", role |-> "none", w |-> 0]
Gone == [Idle EXCEPT !.pc = "gone"]
AtRest == [todo |-> {}, aim |-> 0]

Init ==
    /\ owner = "provision"
    /\ janitor = "none"
    /\ launch = [a \in Actors |-> Idle]
    /\ ws = [w \in Workspaces |-> Absent]
    /\ table = [p \in Pids |-> Vacant]
    /\ disk = [environment |-> "none", window |-> FALSE, ending |-> FALSE,
               finished |-> FALSE, failed |-> FALSE, receipt |-> "none",
               errors |-> FALSE]
    /\ cluster = FALSE
    /\ creating = FALSE
    /\ clock = [expired |-> FALSE, over |-> FALSE]
    /\ sweep = [s \in Stoppers |-> AtRest]
    /\ astray = {}
    /\ budget = [kill |-> Kills, owner |-> OwnerDeaths, fault |-> Faults]

TypeOK ==
    /\ owner \in {"provision", "janitor", "create", "services", "observer",
                  "operator", "await", "window", "stop", "stopping", "identities",
                  "finalize", "final", "reap", "cleanup", "kills", "delete",
                  "receipt", "done", "dead"}
    /\ janitor \in {"none", "watching", "kills", "delete", "done", "failed"}
    /\ launch \in [Actors -> [pc : {"idle", "checked", "counted", "made",
                                    "started", "awaiting", "stopping", "gone"},
                              role : {"none", "observer", "operator"},
                              w : Workspaces \cup {0}]]
    /\ ws \in [Workspaces ->
                 [role : {"none", "observer", "operator"},
                  by : Actors \cup {"none"}, pid : Pids \cup {0},
                  leased : BOOLEAN, ready : BOOLEAN,
                  state : Running \cup {"absent", "made", "finished", "failed",
                                        "killed"}]]
    /\ table \in [Pids -> Workspaces \cup {Vacant, Foreign}]
    /\ disk \in [environment : {"none", "provisioning", "deleted"},
                 window : BOOLEAN, ending : BOOLEAN, finished : BOOLEAN,
                 failed : BOOLEAN, receipt : {"none", "finished", "failed"},
                 errors : BOOLEAN]
    /\ cluster \in BOOLEAN /\ creating \in BOOLEAN
    /\ clock \in [expired : BOOLEAN, over : BOOLEAN]
    /\ sweep \in [Stoppers -> [todo : SUBSET Workspaces, aim : Workspaces \cup {0}]]
    /\ astray \subseteq Workspaces \cup {Foreign}
    /\ budget \in [kill : 0 .. Kills, owner : 0 .. OwnerDeaths, fault : 0 .. Faults]

(***************************************************************************)
(* spawn_worker, by the owner and by start-operator.                       *)
(***************************************************************************)

\* The owner launches its observer, then its operator; commands an operator.
LaunchRole(a) == IF a = "owner" THEN owner ELSE "operator"
MayLaunch(a) == IF a = "owner" THEN owner \in {"observer", "operator"} ELSE TRUE
Limit(role) == IF role = "operator" THEN MaxOperatorStarts ELSE 1

\* owner_alive is read before the launch lock is taken.
LaunchCheck(a) ==
    /\ MayLaunch(a) /\ launch[a].pc = "idle"
    /\ OwnerAlive
    /\ launch' = [launch EXCEPT ![a] = [pc |-> "checked", role |-> LaunchRole(a), w |-> 0]]
    /\ UNCHANGED <<owner, janitor, ws, table, disk, cluster, creating, clock,
                   sweep, astray, budget>>

\* Under the lock the directories count, whether or not a process followed.
Free(role) == ~LaunchLocked(role)
WithinLimit(role) == Cardinality(OfRole(role)) < Limit(role)

LaunchCount(a) ==
    /\ launch[a].pc = "checked"
    /\ Free(launch[a].role) /\ WithinLimit(launch[a].role)
    /\ launch' = [launch EXCEPT ![a].pc = "counted"]
    /\ UNCHANGED <<owner, janitor, ws, table, disk, cluster, creating, clock,
                   sweep, astray, budget>>

LaunchMkdir(a) ==
    /\ launch[a].pc = "counted"
    /\ \E w \in Workspaces :
        /\ w \notin Made /\ \A v \in Workspaces \ Made : w <= v
        /\ ws' = [ws EXCEPT ![w] = [Absent EXCEPT !.role = launch[a].role,
                                                  !.by = a, !.state = "made"]]
        /\ launch' = [launch EXCEPT ![a].pc = "made", ![a].w = w]
    /\ UNCHANGED <<owner, janitor, table, disk, cluster, creating, clock, sweep,
                   astray, budget>>

\* The identifier of a child that ended is free once its parent polled it, waited
\* for it or is gone: the owner polls while it awaits and measures.
Unreaped(w) ==
    IF ws[w].by = "owner"
    THEN owner \in {"observer", "operator", "stop", "stopping", "identities",
                    "finalize", "final"}
    ELSE launch[ws[w].by].pc \in {"started", "awaiting", "stopping"}
\* The identifiers that some stopper has checked and is about to kill.
Aimed == {ws[sweep[s].aim].pid : s \in {t \in Stoppers : sweep[t].aim # 0}}
Reusable(p) == /\ table[p] = Vacant
               /\ \A w \in Made : ws[w].pid = p => ~Unreaped(w)
               /\ p \notin Aimed \/ PromptReuse

LaunchPopen(a) ==
    /\ launch[a].pc = "made"
    /\ \E p \in Pids :
        /\ Reusable(p)
        /\ table' = [table EXCEPT ![p] = launch[a].w]
        /\ ws' = [ws EXCEPT ![launch[a].w].pid = p,
                            ![launch[a].w].state = "waiting"]
    /\ launch' = [launch EXCEPT ![a].pc = "started"]
    /\ UNCHANGED <<owner, janitor, disk, cluster, creating, clock, sweep, astray, budget>>

\* The lease is durable before spawn_worker returns; the owner goes on to its
\* next worker, the command waits for readiness.
LaunchRegister(a) ==
    /\ launch[a].pc = "started"
    /\ Alive(launch[a].w)
    /\ ws' = [ws EXCEPT ![launch[a].w].leased = TRUE]
    /\ IF a = "owner"
       THEN /\ launch' = [launch EXCEPT ![a] = Idle]
            /\ owner' = IF owner = "observer" THEN "operator" ELSE "await"
       ELSE /\ launch' = [launch EXCEPT ![a].pc = "awaiting"]
            /\ UNCHANGED owner
    /\ UNCHANGED <<janitor, table, disk, cluster, creating, clock, sweep, astray, budget>>

\* A refusal on the way: owner gone, lock held, budget exhausted, no identity.
LaunchRefused(a) ==
    \/ launch[a].pc = "idle" /\ MayLaunch(a) /\ ~OwnerAlive
    \/ launch[a].pc = "checked" /\ ~(Free(launch[a].role) /\ WithinLimit(launch[a].role))
    \/ launch[a].pc = "started" /\ ~Alive(launch[a].w)

LaunchFails(a) ==
    /\ LaunchRefused(a)
    /\ IF a = "owner"
       THEN /\ owner' = "finalize" /\ disk' = [disk EXCEPT !.failed = TRUE]
            /\ launch' = [launch EXCEPT ![a] = Idle]
       ELSE /\ launch' = [launch EXCEPT ![a] = Gone]
            /\ UNCHANGED <<owner, disk>>
    /\ UNCHANGED <<janitor, ws, table, cluster, creating, clock, sweep, astray, budget>>

(***************************************************************************)
(* stop_worker and the first half of janitor.cleanup: one lease after the  *)
(* other, a process group is killed after its leader was found to have the *)
(* leased identity.                                                        *)
(***************************************************************************)
Ours(w) == table[ws[w].pid] = w
Swept(s) == sweep[s] = AtRest
\* The lease of a process that has ended will never match again.
Pending(leases) == {w \in leases : Alive(w) \/ ws[w].state = "made"}
Lists(s, leases) == sweep' = [sweep EXCEPT ![s].todo = Pending(leases)]
Registered == {w \in Made : ws[w].leased}

\* ps and getpgid.
Check(s, w) ==
    /\ sweep[s].aim = 0 /\ w \in sweep[s].todo
    /\ sweep' = [sweep EXCEPT ![s] = [todo |-> Pending(@.todo \ {w}),
                                      aim |-> IF ws[w].leased /\ Ours(w) THEN w ELSE 0]]
    /\ UNCHANGED <<owner, janitor, launch, ws, table, disk, cluster, creating,
                   clock, astray, budget>>

\* killpg: by then the identifier names what the process table says.
Strike(s) ==
    /\ sweep[s].aim # 0
    /\ sweep' = [sweep EXCEPT ![s].aim = 0]
    /\ LET p == ws[sweep[s].aim].pid
       IN  /\ table' = [table EXCEPT ![p] = Vacant]
           /\ ws' = [w \in Workspaces |->
                       IF w = table[p] THEN [ws[w] EXCEPT !.state = "killed"] ELSE ws[w]]
           /\ astray' = astray \cup ({table[p]} \ {Vacant, sweep[s].aim})
    /\ UNCHANGED <<owner, janitor, launch, disk, cluster, creating, clock, budget>>

Faulty == budget.fault > 0 /\ budget' = [budget EXCEPT !.fault = @ - 1]
\* ps times out: the worker is passed over, which the finalization records, the
\* window's end does not survive, and the command dies of.
CheckFails(s, w) ==
    /\ sweep[s].aim = 0 /\ w \in sweep[s].todo /\ ws[w].leased /\ Faulty
    /\ sweep' = [sweep EXCEPT ![s].todo = IF s = "owner" /\ owner = "stopping" THEN {}
                                          ELSE @ \ {w}]
    /\ owner' = IF s = "owner" /\ owner = "stopping" THEN "finalize" ELSE owner
    /\ disk' = [disk EXCEPT !.failed = @ \/ (s = "owner" /\ owner = "stopping"),
                            !.errors = @ \/ (s = "owner" /\ owner # "stopping")]
    /\ UNCHANGED <<janitor, launch, ws, table, cluster, creating, clock, astray>>

\* wait_ready: the command ends when the worker is ready or has ended, and
\* stops the worker that is neither in time.
LaunchDone(a) ==
    /\ launch[a].pc = "awaiting"
    /\ \/ /\ ws[launch[a].w].ready \/ ~Alive(launch[a].w)
          /\ launch' = [launch EXCEPT ![a] = Gone] /\ UNCHANGED sweep
       \/ /\ ~ws[launch[a].w].ready /\ Alive(launch[a].w)
          /\ launch' = [launch EXCEPT ![a].pc = "stopping"] /\ Lists(a, {launch[a].w})
    /\ UNCHANGED <<owner, janitor, ws, table, disk, cluster, creating, clock, astray, budget>>
LaunchStopped(a) ==
    /\ launch[a].pc = "stopping" /\ Swept(a)
    /\ launch' = [launch EXCEPT ![a] = Gone]
    /\ UNCHANGED <<owner, janitor, ws, table, disk, cluster, creating, clock, sweep,
                   astray, budget>>

\* The terminal that ran start-operator is closed at any point.
LauncherDies(a) ==
    /\ a # "owner" /\ launch[a].pc \in {"made", "started"}
    /\ budget.kill > 0
    /\ budget' = [budget EXCEPT !.kill = @ - 1]
    /\ launch' = [launch EXCEPT ![a] = Gone]
    /\ UNCHANGED <<owner, janitor, ws, table, disk, cluster, creating, clock, sweep, astray>>

(***************************************************************************)
(* worker().                                                               *)
(***************************************************************************)
Goto(w, state) == ws' = [ws EXCEPT ![w].state = state]
Continues(w) ==
    /\ UNCHANGED <<owner, janitor, launch, disk, cluster, creating, clock,
                   sweep, astray, budget>>
    /\ UNCHANGED table

\* No descendants before the cleanup lease is durable.
WorkerLeased(w) == /\ ws[w].state = "waiting" /\ ws[w].leased
                   /\ Goto(w, "locking") /\ Continues(w)

\* The exclusive role lock, then the three port-forwards.
WorkerConnects(w) == /\ ws[w].state = "locking"
                     /\ ~RoleLocked(ws[w].role) /\ cluster
                     /\ Goto(w, "connecting") /\ Continues(w)

\* owner_alive, then ready.json.
WorkerClears(w) == /\ ws[w].state = "connecting" /\ OwnerAlive
                   /\ Goto(w, "cleared") /\ Continues(w)
WorkerReady(w) ==
    /\ ws[w].state = "cleared"
    /\ ws' = [ws EXCEPT ![w].state = "ready", ![w].ready = TRUE]
    /\ Continues(w)

WorkerWorks(w) == /\ ws[w].state = "ready" /\ disk.window
                  /\ Goto(w, "working") /\ Continues(w)

Exit(w, state) ==
    /\ Goto(w, state)
    /\ table' = [table EXCEPT ![ws[w].pid] = Vacant]
    /\ UNCHANGED <<owner, janitor, launch, disk, cluster, creating, clock,
                   sweep, astray, budget>>

\* observe() runs to the end of the calendar; operator() may also escalate.
WorkerFinishes(w) ==
    /\ ws[w].state = "working"
    /\ clock.over \/ ws[w].role = "operator"
    /\ Exit(w, "finished")

\* Every loop of a worker asks owner_alive; the unregistered one times out, the
\* second one of a role cannot take the lock, and no forward reaches a cluster
\* that is gone.
Refuses(w) ==
    \/ ws[w].state = "waiting" /\ ~ws[w].leased
    \/ ws[w].state = "locking" /\ (RoleLocked(ws[w].role) \/ ~cluster)
    \/ ws[w].state \in {"connecting", "working"} /\ ~OwnerAlive
    \/ ws[w].state = "ready" /\ ~disk.window /\ ~OwnerAlive
WorkerFails(w) == Refuses(w) /\ Exit(w, "failed")

\* The test controller kills a registered process group.
WorkerKilled(w) ==
    /\ budget.kill > 0 /\ Alive(w) /\ ws[w].leased
    /\ budget' = [budget EXCEPT !.kill = @ - 1]
    /\ Goto(w, "killed")
    /\ table' = [table EXCEPT ![ws[w].pid] = Vacant]
    /\ UNCHANGED <<owner, janitor, launch, disk, cluster, creating, clock, sweep, astray>>

\* An unrelated process of the account receives an identifier that was leased.
ForeignStart(p) ==
    /\ Reusable(p) /\ \E w \in Made : ws[w].pid = p
    /\ \A q \in Pids : table[q] # Foreign
    /\ table' = [table EXCEPT ![p] = Foreign]
    /\ UNCHANGED <<owner, janitor, launch, ws, disk, cluster, creating, clock,
                   sweep, astray, budget>>

(***************************************************************************)
(* own() and environment.provision.                                        *)
(***************************************************************************)
OwnerOnly == UNCHANGED <<launch, ws, table, creating, clock, sweep, astray, budget>>

\* environment.json names the cluster before anything else exists.
ProvisionRecord ==
    /\ owner = "provision" /\ owner' = "janitor"
    /\ disk' = [disk EXCEPT !.environment = "provisioning"]
    /\ OwnerOnly /\ UNCHANGED <<janitor, cluster>>

\* The janitor watches before the cluster is created.
\* Bug: the janitor is left for after the cluster was created.
StartJanitorNever ==
    /\ owner = "janitor" /\ owner' = "create"
    /\ OwnerOnly /\ UNCHANGED <<disk, cluster, janitor>>
StartJanitor ==
    /\ owner = "janitor" /\ owner' = "create"
    /\ janitor' = "watching"
    /\ OwnerOnly /\ UNCHANGED <<disk, cluster>>

CreateCluster ==
    /\ owner = "create" /\ owner' = "services"
    /\ cluster' = TRUE
    /\ OwnerOnly /\ UNCHANGED <<janitor, disk>>

\* The image, the manifests and the three service identities.
Deploy ==
    /\ owner = "services" /\ owner' = "observer"
    /\ cluster
    /\ OwnerOnly /\ UNCHANGED <<janitor, disk, cluster>>

Initial == {w \in Made : ws[w].by = "owner"}

\* Both first workers are ready: the measurement window is frozen.
OpenWindow ==
    /\ owner = "await" /\ owner' = "window"
    /\ \A w \in Initial : ws[w].ready
    /\ disk' = [disk EXCEPT !.window = TRUE]
    /\ OwnerOnly /\ UNCHANGED <<janitor, cluster>>

CloseWindow ==
    /\ owner = "window" /\ owner' = "stop"
    /\ clock.over
    /\ disk' = [disk EXCEPT !.ending = TRUE]
    /\ OwnerOnly /\ UNCHANGED <<janitor, cluster>>

OwnerSweeps(from, to, leases) ==
    /\ owner = from /\ owner' = to
    /\ Lists("owner", leases)
    /\ UNCHANGED <<janitor, launch, ws, table, disk, cluster, creating, clock,
                   astray, budget>>
OwnerSwept(from, to) ==
    /\ owner = from /\ owner' = to /\ Swept("owner")
    /\ OwnerOnly /\ UNCHANGED <<janitor, disk, cluster>>

StopAfterWindow ==
    \/ OwnerSweeps("stop", "stopping", Made)
    \/ OwnerSwept("stopping", "identities")

RecordFinished ==
    /\ owner = "identities" /\ owner' = "finalize"
    /\ cluster
    /\ disk' = [disk EXCEPT !.finished = TRUE]
    /\ OwnerOnly /\ UNCHANGED <<janitor, cluster>>

\* Any exception of own() before its finally: provisioning, a worker that ended
\* early, the readiness deadline, an expired lease, the last identities.
OwnerTrouble ==
    \/ owner \in {"create", "services", "await", "identities"}
    \/ owner = "window" /\ clock.expired
\* A kind create that fails or times out may leave its nodes.
Leftover == IF owner = "create" THEN {cluster, TRUE} ELSE {cluster}
OwnerFails ==
    /\ OwnerTrouble /\ owner' = "finalize"
    /\ disk' = [disk EXCEPT !.failed = TRUE]
    /\ cluster' \in Leftover
    /\ OwnerOnly /\ UNCHANGED janitor

(***************************************************************************)
(* finalize_owner and janitor.cleanup.                                     *)
(***************************************************************************)
RecordEnding ==
    /\ owner = "finalize" /\ ~disk.ending /\ UNCHANGED owner
    /\ disk' = [disk EXCEPT !.ending = TRUE]
    /\ OwnerOnly /\ UNCHANGED <<janitor, cluster>>
FinalStop ==
    \/ disk.ending /\ OwnerSweeps("finalize", "final", Made)
    \/ OwnerSwept("final", "reap")

\* A first worker that does not end within ten seconds is an error of the
\* finalization; without environment.json there is nothing to clean up.
FinalReap ==
    /\ owner = "reap"
    /\ \/ disk' = disk
       \/ /\ \E w \in Initial : Alive(w)
          /\ disk' = [disk EXCEPT !.errors = TRUE]
    /\ owner' = IF disk.environment = "none" THEN "receipt" ELSE "cleanup"
    /\ OwnerOnly /\ UNCHANGED <<janitor, cluster>>

CleanupKill ==
    \/ OwnerSweeps("cleanup", "kills", Registered)
    \/ OwnerSwept("kills", "delete")

\* kind delete of a cluster that is already gone succeeds; one that raises or
\* times out may have deleted it.
DeletesCluster ==
    /\ cluster' = FALSE
    /\ disk' = [disk EXCEPT !.environment = "deleted"]
    /\ UNCHANGED budget
DeletionFails == Faulty /\ cluster' \in {cluster, FALSE}

CleanupDelete ==
    /\ owner = "delete" /\ owner' = "receipt"
    /\ \/ DeletesCluster
       \/ DeletionFails /\ disk' = [disk EXCEPT !.errors = TRUE]
    /\ UNCHANGED <<janitor, launch, ws, table, creating, clock, sweep, astray>>

Receipt ==
    /\ owner = "receipt" /\ owner' = "done"
    /\ disk' = [disk EXCEPT !.receipt = IF disk.errors THEN "failed" ELSE "finished",
                            !.failed = @ \/ disk.errors]
    /\ OwnerOnly /\ UNCHANGED <<janitor, cluster>>

\* SIGKILL of the owner: no handler runs, its launch lock is released.  The
\* kind command it was waiting for may go on.
OwnerKilled ==
    /\ budget.owner > 0 /\ OwnerLives
    /\ budget' = [budget EXCEPT !.owner = @ - 1]
    /\ owner' = "dead"
    /\ launch' = [launch EXCEPT !["owner"] = Gone]
    /\ sweep' = [sweep EXCEPT !["owner"] = AtRest]
    /\ creating' = (OrphanCreate /\ owner = "create")
    /\ cluster' \in Leftover
    /\ UNCHANGED <<janitor, ws, table, disk, clock, astray>>

OrphanCreates ==
    /\ creating /\ creating' = FALSE /\ cluster' = TRUE
    /\ UNCHANGED <<owner, janitor, launch, ws, table, disk, clock, sweep, astray, budget>>

(***************************************************************************)
(* janitor.main: a failed read or ps is no evidence of death, so it only   *)
(* delays; its lease was written after the owner's and expires later.      *)
(***************************************************************************)
OwnerSeemsGone == ~OwnerLives \/ clock.expired
JanitorOnly == UNCHANGED <<owner, launch, creating, clock>>

JanitorObservesCleanup ==
    /\ janitor = "watching" /\ disk.environment = "deleted"
    /\ janitor' = "done"
    /\ JanitorOnly /\ UNCHANGED <<ws, table, disk, cluster, sweep, astray, budget>>

JanitorKill ==
    /\ \/ /\ janitor = "watching" /\ disk.environment # "deleted"
          /\ OwnerSeemsGone
          /\ janitor' = "kills" /\ Lists("janitor", Registered)
       \/ janitor = "kills" /\ Swept("janitor") /\ janitor' = "delete" /\ UNCHANGED sweep
    /\ JanitorOnly /\ UNCHANGED <<ws, table, disk, cluster, astray, budget>>

\* A cleanup that raises is recorded as failed, and is not tried again.
JanitorDelete ==
    /\ janitor = "delete"
    /\ \/ janitor' = "done" /\ DeletesCluster
       \/ janitor' = "failed" /\ DeletionFails /\ UNCHANGED disk
    /\ JanitorOnly /\ UNCHANGED <<ws, table, sweep, astray>>

(***************************************************************************)
(* Time.  The shortest lease, 1200 seconds, outlasts kind create (420).    *)
(***************************************************************************)
LeaseExpires ==
    /\ Expires /\ ~clock.expired /\ owner \notin {"provision", "janitor", "create"}
    /\ clock' = [clock EXCEPT !.expired = TRUE]
    /\ UNCHANGED <<owner, janitor, launch, ws, table, disk, cluster, creating,
                   sweep, astray, budget>>
WindowEnds ==
    /\ disk.window /\ ~clock.over
    /\ clock' = [clock EXCEPT !.over = TRUE]
    /\ UNCHANGED <<owner, janitor, launch, ws, table, disk, cluster, creating,
                   sweep, astray, budget>>

SweepStep(s) == Strike(s) \/ \E w \in Workspaces : Check(s, w) \/ CheckFails(s, w)
LaunchStep(a) ==
    \/ a # "owner" /\ SweepStep(a)
    \/ LaunchStopped(a)
    \/ LaunchCheck(a) \/ LaunchCount(a) \/ LaunchMkdir(a) \/ LaunchPopen(a)
    \/ LaunchRegister(a) \/ LaunchFails(a) \/ LaunchDone(a)
WorkerStep(w) ==
    \/ WorkerLeased(w) \/ WorkerConnects(w) \/ WorkerClears(w) \/ WorkerReady(w)
    \/ WorkerWorks(w) \/ WorkerFinishes(w) \/ WorkerFails(w)
OwnerStep ==
    \/ SweepStep("owner")
    \/ ProvisionRecord \/ StartJanitor \/ CreateCluster \/ Deploy \/ OpenWindow
    \/ RecordEnding \/ CloseWindow \/ StopAfterWindow \/ RecordFinished \/ OwnerFails
    \/ FinalStop \/ FinalReap \/ CleanupKill \/ CleanupDelete \/ Receipt
JanitorStep ==
    SweepStep("janitor") \/ JanitorObservesCleanup \/ JanitorKill \/ JanitorDelete

Next ==
    \/ \E a \in Actors : LaunchStep(a) \/ LauncherDies(a)
    \/ \E w \in Workspaces : WorkerStep(w) \/ WorkerKilled(w)
    \/ \E p \in Pids : ForeignStart(p)
    \/ OwnerStep \/ OwnerKilled \/ OrphanCreates
    \/ JanitorStep
    \/ LeaseExpires \/ WindowEnds

(***************************************************************************)
(* Properties: of states, of a step, and of behaviours in which processes  *)
(* that are not killed go on.                                              *)
(***************************************************************************)

\* No process is ever killed under the lease of another, unrelated or a newer
\* worker, although leases outlive their processes and identifiers are recycled
\* (stop_worker, cleanup); with PromptReuse, not so.
OnlyLeasedProcessesKilled == astray = {}

\* However many commands race with the owner, no more workers of a role were
\* ever started than the contract allows; a directory whose process was never
\* started counts (spawn_worker).
StartBudgetKept ==
    \A role \in {"observer", "operator"} : Cardinality(OfRole(role)) <= Limit(role)

\* A worker with descendants is registered for cleanup and alone in its role.
ConnectedRegisteredAlone ==
    \A w \in Made : ws[w].state \in Connected =>
        /\ ws[w].leased
        /\ \A v \in OfRole(ws[w].role) : ws[v].state \in Connected => v = w

\* campaign_report.scorecard: owner_finished.
OwnerFinished == disk.finished /\ disk.receipt = "finished" /\ ~disk.failed

\* A campaign reported as finished has left nothing: the cluster is deleted and
\* no worker, not even one a late command started behind the owner's back, is
\* past its owner check.
FinishedLeavesNothing ==
    OwnerFinished =>
        /\ ~cluster /\ disk.environment = "deleted" /\ disk.window /\ disk.ending
        /\ \A w \in Made : ws[w].state \notin {"cleared", "ready", "working"}

\* A cluster exists only under the eyes of a janitor or of an owner that will
\* still clean it up, or the janitor has reported that it could not.
ClusterWatched ==
    cluster => janitor \in {"watching", "kills", "delete", "failed"} \/ OwnerLives

\* The janitor and the finalization never take the cluster from an owner that
\* is alive within its lease and still measuring (main, process_identity).
LiveOwnerKeepsCluster ==
    owner \in {"services", "observer", "operator", "await", "window", "stop",
               "stopping", "identities"}
        => cluster \/ clock.expired

\* Once the owner has stopped the workers it saw, none becomes ready any more,
\* however late its command got past the owner check of spawn_worker; unless the
\* finalization has an error on record.
NoReadinessAfterStop ==
    /\ owner \in {"identities", "reap", "cleanup", "kills", "delete", "receipt", "done"}
    /\ ~disk.errors
    => \A w \in Workspaces : ws'[w].ready => ws[w].ready

CampaignIsSafe ==
    /\ TypeOK /\ OnlyLeasedProcessesKilled /\ StartBudgetKept /\ ConnectedRegisteredAlone
    /\ FinishedLeavesNothing /\ ClusterWatched /\ LiveOwnerKeepsCluster

\* Whatever is killed, and whenever, all workers end, and the janitor removes
\* the cluster of a controller that died (README.md).
CampaignEnded == (\A w \in Workspaces : ~Alive(w)) /\ (owner = "dead" => ~cluster)
=============================================================================
