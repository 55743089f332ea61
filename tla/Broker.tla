------------------------------- MODULE Broker -------------------------------
(***************************************************************************)
(* The action broker: a durable SQLite journal of operations shared by     *)
(* broker instances (one per controller process and incarnation, each with *)
(* its own owner uuid), the Kubernetes API they send one JSON Patch per    *)
(* operation to, and everybody else who changes the Service.               *)
(*                                                                         *)
(* A call of the broker is a sequence of SQLite transactions and adapter   *)
(* calls.  Each is one action here, so that other instances, the API, a    *)
(* change of policy and the death of the process may fall between any two. *)
(* A restarted process is another member of Workers: `owner` is a fresh    *)
(* uuid per instance and nothing else of an instance survives.             *)
(***************************************************************************)
EXTENDS OperationContract, FiniteSets

CONSTANTS
  Workers,        \* broker instances over the whole history
  MaxVersion,     \* bound: the Service versions explored
  Nil             \* no operation, no request, no owner

ASSUME OpsAssumption == IsFiniteSet(Ops) /\ Nil \notin Ops
ASSUME NilAssumption == Nil \notin Workers /\ Nil \notin Proposal
ASSUME VersionsAssumption == MaxVersion \in Nat \ {0}

VARIABLES
  \* the journal, one column per variable
  status, request, reserved, owner, contract, snapshot, reason,
  \* the broker instances: their policy and the call each is in
  policy, pc, cur, held, why, reply,
  \* the API: the Service's versions, the newest, the requests on the wire
  versions, rv, inflight,
  \* history: transmissions and persisted repairs of each operation
  sends, applied

journal == <<status, request, reserved, owner, contract, snapshot, reason>>
calls   == <<pc, cur, held, why, reply>>
api     == <<versions, rv, inflight>>
history == <<sends, applied>>
vars    == <<journal, policy, calls, api, history>>

Unresolved == {"dispatching", "uncertain"}
Statuses   == {"absent", "prepared", "rejected", "acknowledged"} \cup Unresolved

\* Why a row was rejected before a dispatch, after one, or how one ended.
Reasons ==
  {"none", "policy", "contract", "budget", "stale", "scope", "changed",
   "authorization", "not_sent", "api_rejected", "api_acknowledged", "unknown"}

Stages == {"idle", "lookup", "binding", "preflight", "record", "reject",
           "reject_same", "claim", "send", "await", "finish", "crashed"}

\* Bug: a timeout is taken for a refusal.
TimeoutIsRefusal(outcome) ==
  IF outcome = "api_acknowledged" THEN "acknowledged" ELSE "rejected"

\* The status _finish writes for what the adapter call came to.
StatusFor(outcome) ==
  CASE outcome = "api_acknowledged"              -> "acknowledged"
    [] outcome \in {"not_sent", "api_rejected"}  -> "rejected"
    [] OTHER                                     -> "uncertain"

Service == versions[rv]

\* _used: the reserved operations of a run.
Reserved(run) == {o \in reserved : request[o].run = run}
Used(run)     == Cardinality(Reserved(run))

\* Intent that no dispatch claim, and no rejection, has settled.
Unsent(o) == status[o] = "prepared"

-----------------------------------------------------------------------------
Init ==
  /\ status   = [o \in Ops |-> "absent"]
  /\ request  = [o \in Ops |-> Nil]
  /\ reserved = {}
  /\ owner    = [o \in Ops |-> Nil]
  /\ contract = [o \in Ops |-> LEGACY]
  /\ snapshot = [o \in Ops |-> NoSnapshot]
  /\ reason   = [o \in Ops |-> "none"]
  /\ policy   \in [Workers -> Policies]
  /\ pc       = [w \in Workers |-> "idle"]
  /\ cur      = [w \in Workers |-> Nil]
  /\ held     = [w \in Workers |-> NoSnapshot]
  /\ why      = [w \in Workers |-> "none"]
  /\ reply    = [w \in Workers |-> "none"]
  /\ \E s \in Content : versions = [v \in 1..MaxVersion |-> s]
  /\ rv       = 1
  /\ inflight = {}
  /\ sends    = [o \in Ops |-> 0]
  /\ applied  = [o \in Ops |-> 0]

-----------------------------------------------------------------------------
(* Steps of a call.                                                        *)

\* The call of w goes on at `stage` with the local values given.
Continue(w, stage, snap, because) ==
  /\ pc'   = [pc EXCEPT ![w] = stage]
  /\ held' = [held EXCEPT ![w] = snap]
  /\ why'  = [why EXCEPT ![w] = because]
  /\ UNCHANGED <<cur, reply>>

\* The call of w returns: its locals are gone.
Return(w) ==
  /\ pc'    = [pc EXCEPT ![w] = "idle"]
  /\ cur'   = [cur EXCEPT ![w] = Nil]
  /\ held'  = [held EXCEPT ![w] = NoSnapshot]
  /\ why'   = [why EXCEPT ![w] = "none"]
  /\ reply' = [reply EXCEPT ![w] = "none"]

\* A row that is rejected before its dispatch gives its reservation back.
RejectRow(o, because) ==
  /\ status'   = [status EXCEPT ![o] = "rejected"]
  /\ reason'   = [reason EXCEPT ![o] = because]
  /\ reserved' = reserved \ {o}

\* The reason _policy_reason, then the budget, gives against a new intent.
IntakeReason(w, p) ==
  IF ~PolicyAllows(policy[w], p) THEN "policy"
  ELSE IF Used(p.run) >= policy[w].max THEN "budget"
  ELSE "none"

\* propose: one transaction records intent, reservation and contract, or the
\* refusal.  A known identifier changes nothing: the call answers lookup, or
\* OperationConflict when the request differs.
Propose(w, p) ==
  LET because == IntakeReason(w, p) IN
  /\ pc[w] = "idle"
  /\ status[p.op] = "absent"
  /\ request'  = [request EXCEPT ![p.op] = p]
  /\ contract' = [contract EXCEPT ![p.op] = policy[w].contract]
  /\ reason'   = [reason EXCEPT ![p.op] = because]
  /\ status'   = [status EXCEPT ![p.op] =
                    IF because = "none" THEN "prepared" ELSE "rejected"]
  /\ reserved' = IF because = "none" THEN reserved \cup {p.op} ELSE reserved
  /\ IF because = "none"
     THEN /\ pc'  = [pc EXCEPT ![w] = "lookup"]
          /\ cur' = [cur EXCEPT ![w] = p.op]
     ELSE UNCHANGED <<pc, cur>>
  /\ UNCHANGED <<owner, snapshot, policy, held, why, reply, api, history>>

\* resume_prepared called for a known operation, by this instance or by one
\* started after the first died.
Resume(w, o) ==
  /\ pc[w] = "idle"
  /\ status[o] # "absent"
  /\ pc'  = [pc EXCEPT ![w] = "lookup"]
  /\ cur' = [cur EXCEPT ![w] = o]
  /\ UNCHANGED <<journal, policy, held, why, reply, api, history>>

\* Only unsent intent is resumed.
Lookup(w) ==
  /\ pc[w] = "lookup"
  /\ IF Unsent(cur[w])
     THEN Continue(w, "binding", NoSnapshot, "none")
     ELSE Return(w)
  /\ UNCHANGED <<journal, policy, api, history>>

\* _policy_reason and _contract_reason against a durable binding.
StandingReason(w, o) ==
  IF ~PolicyAllows(policy[w], request[o]) THEN "policy"
  ELSE IF contract[o] # policy[w].contract THEN "contract"
  ELSE "none"

\* The binding is read, in a transaction of its own, and the policy judged.
\* Recorded precise conditions are used as they are, without another read.
ReadBinding(w) ==
  LET o == cur[w]
      because == StandingReason(w, o)
      next == IF because # "none" THEN "reject"
              ELSE IF contract[o] = PRECISE /\ snapshot[o] # NoSnapshot THEN "claim"
              ELSE "preflight"
  IN
  /\ pc[w] = "binding"
  /\ Continue(w, next, snapshot[o], because)
  /\ UNCHANGED <<journal, policy, api, history>>

\* get_service and _construct_patch: what the Service read says of the intent.
Preflight(w) ==
  LET o == cur[w]
      p == request[o]
  IN
  /\ pc[w] = "preflight"
  /\ CASE ~SameVersion(p, rv, Service) ->
            Continue(w, "reject_same", NoSnapshot, "stale")
       [] SameVersion(p, rv, Service) /\ contract[o] = LEGACY ->
            Continue(w, "claim", NoSnapshot, "none")
       [] SameVersion(p, rv, Service) /\ contract[o] = PRECISE ->
            IF PreciselyScoped(p, Service)
            THEN Continue(w, "record", Service.rest, "none")
            ELSE Continue(w, "reject_same", NoSnapshot, "scope")
  /\ UNCHANGED <<journal, policy, api, history>>

\* The read failed: nothing was sent and the intent stays resumable.
PreflightUnavailable(w) ==
  /\ pc[w] = "preflight"
  /\ Return(w)
  /\ UNCHANGED <<journal, policy, api, history>>

\* _record_conditions: the first recorded snapshot wins.  A row that is no
\* longer prepared and has none makes patch_for_binding raise.
RecordConditions(w) ==
  LET o == cur[w] IN
  /\ pc[w] = "record"
  /\ IF Unsent(o) /\ snapshot[o] = NoSnapshot
     THEN /\ snapshot' = [snapshot EXCEPT ![o] = held[w]]
          /\ Continue(w, "claim", held[w], "none")
     ELSE /\ IF snapshot[o] = NoSnapshot THEN Return(w)
             ELSE Continue(w, "claim", snapshot[o], "none")
          /\ UNCHANGED snapshot
  /\ UNCHANGED <<status, request, reserved, owner, contract, reason,
                 policy, api, history>>

\* Bug: whatever was read from the Service rejects the row, as a policy does.
RejectAnyBinding(w) ==
  LET o == cur[w] IN
  /\ pc[w] \in {"reject", "reject_same"}
  /\ IF Unsent(o) THEN RejectRow(o, why[w]) ELSE UNCHANGED <<status, reason, reserved>>
  /\ Return(w)
  /\ UNCHANGED <<request, owner, contract, snapshot, policy, api, history>>

\* Bug: the UPDATE forgets that the row may have been claimed meanwhile.
RejectAnyRow(w) ==
  /\ pc[w] \in {"reject", "reject_same"}
  /\ RejectRow(cur[w], why[w])
  /\ Return(w)
  /\ UNCHANGED <<request, owner, contract, snapshot, policy, api, history>>

\* _reject_prepared: policy reasons reject any unsent row; what was read from
\* the Service rejects it only while the binding is the one read before.
Reject(w) ==
  LET o == cur[w] IN
  /\ pc[w] \in {"reject", "reject_same"}
  /\ IF /\ Unsent(o)
        /\ pc[w] = "reject_same" => snapshot[o] = held[w]
     THEN RejectRow(o, why[w])
     ELSE UNCHANGED <<status, reason, reserved>>
  /\ Return(w)
  /\ UNCHANGED <<request, owner, contract, snapshot, policy, api, history>>

\* Bug: the reservation made at intake is trusted for ever.
ClaimReasonNoBudget(w, o) ==
  IF StandingReason(w, o) # "none" THEN StandingReason(w, o)
  ELSE IF snapshot[o] # held[w] THEN "changed"
  ELSE "none"

\* What the claim's transaction finds against the row before authorization.
ClaimReason(w, o) ==
  IF StandingReason(w, o) # "none" THEN StandingReason(w, o)
  ELSE IF snapshot[o] # held[w] THEN "changed"
  ELSE IF Used(request[o].run) > policy[w].max THEN "budget"
  ELSE "none"

\* The claim: one transaction decides which caller may send, and only that
\* one asks for authorization, while it holds the journal's write lock.
Claim(w, authorized) ==
  LET o == cur[w]
      because == IF ClaimReason(w, o) # "none" THEN ClaimReason(w, o)
                 ELSE IF authorized THEN "none" ELSE "authorization"
  IN
  /\ pc[w] = "claim"
  /\ Unsent(o)
  /\ IF because = "none"
     THEN /\ status' = [status EXCEPT ![o] = "dispatching"]
          /\ UNCHANGED <<reason, reserved>>
          /\ Continue(w, "send", held[w], "none")
     ELSE RejectRow(o, because) /\ Return(w)
  /\ owner' = [owner EXCEPT ![o] = w]
  /\ UNCHANGED <<request, contract, snapshot, policy, api, history>>

\* Another caller decided the row first.
ClaimLost(w) ==
  /\ pc[w] = "claim"
  /\ ~Unsent(cur[w])
  /\ Return(w)
  /\ UNCHANGED <<journal, policy, api, history>>

\* patch_service puts the one request of the operation on the wire.
Send(w) ==
  LET o == cur[w] IN
  /\ pc[w] = "send"
  /\ inflight' = inflight \cup {[op |-> o, from |-> w, held |-> held[w]]}
  /\ sends'    = [sends EXCEPT ![o] = @ + 1]
  /\ Continue(w, "await", held[w], "none")
  /\ UNCHANGED <<journal, policy, versions, rv, applied>>

\* The trusted adapter proves that it never called the transport, or the
\* adapter fails before it does.
SendRefused(w) ==
  /\ pc[w] = "send"
  /\ \E outcome \in {"not_sent", "unknown"} : Continue(w, "finish", held[w], outcome)
  /\ UNCHANGED <<journal, policy, api, history>>

\* The response: acknowledged if it parses as the repair asked for, a
\* definite refusal for the status codes that are one.
Receive(w) ==
  /\ pc[w] = "await"
  /\ \/ /\ reply[w] = "ok"
        /\ \E outcome \in {"api_acknowledged", "unknown"} :
             Continue(w, "finish", held[w], outcome)
     \/ /\ reply[w] = "refused"
        /\ Continue(w, "finish", held[w], "api_rejected")
  /\ UNCHANGED <<journal, policy, api, history>>

\* Bug: the client waits for the API without a timeout.
WaitForever(w) == FALSE /\ Return(w) /\ UNCHANGED <<journal, policy, api, history>>

\* A timeout, a broken connection or an undecided status code, whatever the
\* API did or is still going to do.
GiveUp(w) ==
  /\ pc[w] = "await"
  /\ Continue(w, "finish", held[w], "unknown")
  /\ UNCHANGED <<journal, policy, api, history>>

\* Bug: after an unknown outcome the row is made intent again, to be resumed.
FinishResent(w) ==
  LET o == cur[w] IN
  /\ pc[w] = "finish"
  /\ status' = [status EXCEPT ![o] =
       IF why[w] = "unknown" THEN "prepared" ELSE StatusFor(why[w])]
  /\ reason' = [reason EXCEPT ![o] = why[w]]
  /\ Return(w)
  /\ UNCHANGED <<request, reserved, owner, contract, snapshot, policy, api, history>>

\* _finish: the owner of the claim records what the dispatch came to.
Finish(w) ==
  LET o == cur[w] IN
  /\ pc[w] = "finish"
  /\ IF status[o] \in Unresolved /\ owner[o] = w
     THEN /\ status' = [status EXCEPT ![o] = StatusFor(why[w])]
          /\ reason' = [reason EXCEPT ![o] = why[w]]
     ELSE UNCHANGED <<status, reason>>
  /\ Return(w)
  /\ UNCHANGED <<request, reserved, owner, contract, snapshot, policy, api, history>>

\* reconcile: the observation of the present Service is stored and resolves
\* nothing; an unfinished dispatch is from now on recorded as uncertain.
Reconcile(w, o) ==
  /\ pc[w] = "idle"
  /\ status[o] = "dispatching"
  /\ status' = [status EXCEPT ![o] = "uncertain"]
  /\ reason' = [reason EXCEPT ![o] = "unknown"]
  /\ UNCHANGED <<request, reserved, owner, contract, snapshot, policy, calls, api, history>>

\* The process of w dies in a call; an open transaction rolls back.
Crash(w) ==
  /\ pc[w] \notin {"idle", "crashed"}
  /\ pc' = [pc EXCEPT ![w] = "crashed"]
  /\ UNCHANGED <<journal, policy, cur, held, why, reply, api, history>>

\* A call raises (the journal stays locked past its busy timeout, a hook
\* fails): its open transaction rolls back and its caller lives on.
CallRaises(w) ==
  /\ pc[w] \notin {"idle", "crashed"}
  /\ Return(w)
  /\ UNCHANGED <<journal, policy, api, history>>

\* The controller changes the trusted policy of an instance, at any time.
ChangePolicy(w, p) ==
  /\ policy' = [policy EXCEPT ![w] = p]
  /\ UNCHANGED <<journal, calls, api, history>>

-----------------------------------------------------------------------------
(* The Kubernetes API and the other writers of the Service.                *)

\* A caller still waiting for this request gets the answer.
Answer(m, text) ==
  reply' = IF pc[m.from] = "await" /\ cur[m.from] = m.op
           THEN [reply EXCEPT ![m.from] = text] ELSE reply

\* A request whose tests hold is applied as one new version, however late.
ApiApply(m) ==
  LET p == request[m.op] IN
  /\ rv < MaxVersion
  /\ PatchAccepted(p, contract[m.op], m.held, rv, Service)
  /\ versions' = [versions EXCEPT ![rv + 1] = Repaired(p, Service)]
  /\ rv'       = rv + 1
  /\ applied'  = [applied EXCEPT ![m.op] = @ + 1]
  /\ inflight' = inflight \ {m}
  /\ Answer(m, "ok")
  /\ UNCHANGED <<journal, policy, pc, cur, held, why, sends>>

\* A request whose tests fail, or that the API refuses for a reason of its
\* own (authentication, admission), changes nothing.
ApiRefuse(m) ==
  /\ inflight' = inflight \ {m}
  /\ Answer(m, "refused")
  /\ UNCHANGED <<journal, policy, pc, cur, held, why, versions, rv, history>>

\* Another writer updates or recreates the Service; a heartbeat is a new
\* version of the same content.
OtherWriter(s) ==
  /\ rv < MaxVersion
  /\ versions' = [versions EXCEPT ![rv + 1] = s]
  /\ rv'       = rv + 1
  /\ UNCHANGED <<journal, policy, calls, inflight, history>>

-----------------------------------------------------------------------------
\* The steps of a call under way.
Step(w) ==
  \/ Lookup(w) \/ ReadBinding(w) \/ Preflight(w) \/ PreflightUnavailable(w)
  \/ RecordConditions(w) \/ Reject(w)
  \/ \E authorized \in BOOLEAN : Claim(w, authorized)
  \/ ClaimLost(w) \/ Send(w) \/ SendRefused(w) \/ Receive(w) \/ GiveUp(w)
  \/ Finish(w)

Begin(w) ==
  \/ \E p \in Proposals : Propose(w, p)
  \/ \E o \in Ops : Resume(w, o) \/ Reconcile(w, o)

Api ==
  \/ \E m \in inflight : ApiApply(m) \/ ApiRefuse(m)
  \/ \E s \in Content : OtherWriter(s)

Controller(w) == Crash(w) \/ CallRaises(w) \/ \E p \in Policies : ChangePolicy(w, p)

Next == Api \/ \E w \in Workers : Begin(w) \/ Step(w) \/ Controller(w)

Spec == Init /\ [][Next]_vars


\* A call of a live process goes on: SQLite waits at most its busy timeout
\* and the HTTP client its own, so every step of a call ends.  Nothing is
\* assumed of the API, of new calls, or of a process that died.
FairSpec == Spec /\ \A w \in Workers : WF_vars(Step(w))

-----------------------------------------------------------------------------
(* Type invariant.                                                         *)

Request == [op : Ops, from : Workers, held : Rests \cup {NoSnapshot}]

TypeOK ==
  /\ status   \in [Ops -> Statuses]
  /\ request  \in [Ops -> Proposals \cup {Nil}]
  /\ reserved \in SUBSET Ops
  /\ owner    \in [Ops -> Workers \cup {Nil}]
  /\ contract \in [Ops -> CONTRACTS]
  /\ snapshot \in [Ops -> Rests \cup {NoSnapshot}]
  /\ reason   \in [Ops -> Reasons]
  /\ policy   \in [Workers -> Policies]
  /\ pc       \in [Workers -> Stages]
  /\ cur      \in [Workers -> Ops \cup {Nil}]
  /\ held     \in [Workers -> Rests \cup {NoSnapshot}]
  /\ why      \in [Workers -> Reasons]
  /\ reply    \in [Workers -> {"none", "ok", "refused"}]
  /\ versions \in [1..MaxVersion -> Content]
  /\ rv       \in 1..MaxVersion
  /\ inflight \in SUBSET Request
  /\ sends    \in [Ops -> Nat]
  /\ applied  \in [Ops -> Nat]

-----------------------------------------------------------------------------
(* Safety.                                                                 *)

OnTheWire(o) == \E m \in inflight : m.op = o

\* However calls of several instances, crashes, repeated proposals, resumes
\* and late answers interleave, an operation is transmitted at most once and
\* changes the Service at most once (the promise of the module's docstring:
\* a dispatch that started is never automatically sent again).
AtMostOnce == \A o \in Ops : sends[o] <= 1 /\ applied[o] <= 1

\* "rejected" is definite: the operation changed nothing and no request of
\* it is left that still could, a timed-out or orphaned one included.
RejectedNeverLands ==
  \A o \in Ops : status[o] = "rejected" => applied[o] = 0 /\ ~OnTheWire(o)

\* "acknowledged" is definite too: this very operation changed the Service,
\* not another writer who brought about the same state.
AcknowledgedLanded == \A o \in Ops : status[o] = "acknowledged" => applied[o] = 1

\* No effect, present or still possible, escapes the journal: its row is
\* acknowledged or open, and its dispatch slot stays spent.
EffectsAccounted ==
  \A o \in Ops : applied[o] > 0 \/ OnTheWire(o) =>
    /\ status[o] \in Unresolved \cup {"acknowledged"}
    /\ o \in reserved

Spent(run) == {o \in Ops : sends[o] > 0 /\ request[o].run = run}

\* Whatever is rejected, released and proposed anew, a run never transmits
\* more operations than the largest limit an enabled policy of it ever had.
BudgetKept ==
  \A run \in Runs : Spent(run) # {} =>
    \E p \in Policies : p.run = run /\ p.enabled /\ Cardinality(Spent(run)) <= p.max

-----------------------------------------------------------------------------
(* The inductive invariant behind the safety properties.                   *)

Untouched(o) == sends[o] = 0 /\ applied[o] = 0 /\ ~OnTheWire(o)

\* A row carries its own proposal, keeps its slot from intake on unless it is
\* rejected unsent, and is untouched until somebody claims it.
RowInv(o) ==
  /\ status[o] # "absent" => request[o] \in Proposals /\ request[o].op = o
  /\ status[o] = "absent" => o \notin reserved
  /\ status[o] \in {"prepared", "acknowledged"} \cup Unresolved => o \in reserved
  /\ status[o] \in {"absent", "prepared"} => Untouched(o)
  /\ status[o] = "rejected" /\ o \notin reserved => Untouched(o)

\* What the history says of a row that was claimed.
EffectInv(o) ==
  /\ sends[o] <= 1
  /\ applied[o] <= sends[o]
  /\ status[o] = "acknowledged" => applied[o] = 1
  /\ status[o] = "rejected" => applied[o] = 0 /\ ~OnTheWire(o)

\* A request on the wire is the only one of an open row, sent by its owner.
WireInv(m) ==
  /\ status[m.op] \in Unresolved
  /\ owner[m.op] = m.from
  /\ sends[m.op] = 1
  /\ applied[m.op] = 0
  /\ \A n \in inflight : n.op = m.op => n = m

\* A caller past its claim owns an open row, and what it believes of its
\* request, once answered or about to be recorded, is so.
CallInv(w) ==
  /\ pc[w] \notin {"idle", "crashed"} => cur[w] \in Ops /\ status[cur[w]] # "absent"
  /\ pc[w] \in {"send", "await", "finish"} =>
       owner[cur[w]] = w /\ status[cur[w]] \in Unresolved
  /\ pc[w] = "send" => Untouched(cur[w])
  /\ pc[w] \notin {"await", "finish", "crashed"} => reply[w] = "none"
  /\ pc[w] = "await" /\ reply[w] = "ok" => applied[cur[w]] = 1
  /\ pc[w] = "await" /\ reply[w] = "refused" =>
       applied[cur[w]] = 0 /\ ~OnTheWire(cur[w])
  /\ pc[w] = "finish" =>
       why[w] \in {"not_sent", "api_rejected", "api_acknowledged", "unknown"}
  /\ pc[w] = "finish" /\ why[w] = "api_acknowledged" => applied[cur[w]] = 1
  /\ pc[w] = "finish" /\ why[w] \in {"not_sent", "api_rejected"} =>
       applied[cur[w]] = 0 /\ ~OnTheWire(cur[w])
  /\ pc[w] = "reject" => why[w] \in {"policy", "contract"}
  /\ pc[w] = "reject_same" => held[w] = NoSnapshot

\* The journal, the calls, the wire and the history agree at every step.
JournalAgrees ==
  /\ \A o \in Ops : RowInv(o) /\ EffectInv(o)
  /\ \A m \in inflight : WireInv(m)
  /\ \A w \in Workers : CallInv(w)

\* The journal's definite rows are true of the Service and its open rows
\* account for every effect, had or still possible, in any interleaving of
\* instances, crashes, repeated proposals, resumes and late answers.
JournalIsTrue ==
  TypeOK /\ JournalAgrees /\ AtMostOnce /\ RejectedNeverLands /\ AcknowledgedLanded
    /\ EffectsAccounted

-----------------------------------------------------------------------------
(* Action properties.                                                      *)

Committed(run) == {o \in Reserved(run) : status[o] # "prepared"}

\* A limit lowered while intents are waiting binds the next claim: it leaves
\* no more than the limit then in force dispatched in the run.
LoweredBudgetBinds ==
  [][\A o \in Ops, w \in Workers :
       status[o] = "prepared" /\ status'[o] = "dispatching" /\ owner'[o] = w
         => Cardinality(Committed(request[o].run))' <= policy[w].max]_vars

\* A run never transmits more than a limit of it, nor commits more than the
\* limit in force when the dispatch was claimed.
BudgetHolds == []BudgetKept /\ LoweredBudgetBinds

\* The journal only moves forward: a final row never changes, a dispatched
\* one never becomes intent again and never gives its slot back.
JournalMovesForward ==
  [][\A o \in Ops :
       /\ status[o] \in {"rejected", "acknowledged"} => status'[o] = status[o]
       /\ status[o] \in Unresolved =>
            status'[o] \notin {"absent", "prepared"} /\ (o \in reserved => o \in reserved')]_vars

\* A repair lands only on the content its proposal's evidence was about:
\* nothing but heartbeats lies between the version read and the one patched,
\* or what did was undone.  This is what the recorded conditions are for.
LandsOnItsEvidence ==
  [][\A o \in Ops : applied'[o] > applied[o] => Service = versions[request[o].rv]]_vars

\* A late stale read never cancels an operation whose precise conditions
\* another caller has recorded meanwhile.
RecordedConditionsSurvive ==
  [][\A o \in Ops :
       status[o] = "prepared" /\ snapshot[o] # NoSnapshot /\ status'[o] = "rejected"
         => reason'[o] \notin {"stale", "scope"}]_vars

-----------------------------------------------------------------------------
(* Liveness, under FairSpec.                                               *)

\* The call o's owner made it a dispatch in is still going on.
Dispatching(o) ==
  \E w \in Workers : owner[o] = w /\ cur[w] = o /\ pc[w] \in {"send", "await", "finish"}

\* A dispatch does not stay open in the journal while the call that claimed
\* it goes on: it becomes acknowledged, rejected or uncertain even if the API
\* never answers.  Only a call that died or raised leaves it open.
DispatchesAreRecorded ==
  \A o \in Ops : status[o] = "dispatching" ~> status[o] # "dispatching" \/ ~Dispatching(o)

-----------------------------------------------------------------------------
(* Refinement.  A rejected row that kept its slot was dispatched.          *)

StageFor(row, slot) ==
  CASE row = "absent"        -> "unknown"
    [] row = "prepared"      -> "intended"
    [] row \in Unresolved    -> "committed"
    [] row = "acknowledged"  -> "confirmed"
    [] row = "rejected"      -> IF slot THEN "denied" ELSE "refused"

PromisedStage(o) == StageFor(status[o], o \in reserved)

Promise == INSTANCE RepairPromise
             WITH stage  <- [o \in Ops |-> PromisedStage(o)],
                  landed <- applied

\* The broker, its API and its crashes implement the promise.
KeepsPromise == Promise!Spec

=============================================================================
