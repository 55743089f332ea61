------------------------------ MODULE Campaign ------------------------------
(***************************************************************************)
(* A campaign with an admitted program: operator processes, started again  *)
(* after one died, share the broker's journal and the admission registry.  *)
(* An operator first looks for unresolved work of its predecessors and     *)
(* escalates if there is any; it never replays it.  Otherwise it runs      *)
(* episodes, each pinned to the active program, that propose one repair,   *)
(* and one more after a definite refusal.                                  *)
(*                                                                         *)
(* Journal and ledger are two databases.  The claim asks for the one-use   *)
(* authorization while it holds the journal's lock, and either database    *)
(* may keep what the other lost; the adapter reads both again before the   *)
(* one API call.  Broker and ProgramRegistry are used as they are, one     *)
(* step of each at a time.                                                 *)
(***************************************************************************)
EXTENDS Broker

CONSTANTS
  Versions, Selectable, Episodes, Controllers, MaxRevision,   \* of the registry
  Frozen          \* the versions that hold the campaign's own program

ASSUME FrozenAssumption == Frozen \subseteq Selectable /\ Selectable \subseteq Versions
ASSUME LedgerAssumption == Nil \notin Versions \cup Episodes /\ MaxRevision \in Nat

VARIABLES
  revision, active, activeRevision, admitted, withdrawn, decisions,
  pins, grants, seen,                                         \* of the registry
  phase,          \* what each operator process is doing
  running,        \* the episode it is in
  last,           \* the operation it proposed last in that episode
  refreshed,      \* whether the episode has used its second proposal
  host            \* the operator whose workspace an episode is in

Registry == INSTANCE ProgramRegistry

registry  == <<revision, active, activeRevision, admitted, withdrawn, decisions,
               pins, grants, seen>>
operators == <<phase, running, last, refreshed, host>>
cvars     == <<vars, registry, operators>>

Phases  == {"unborn", "checking", "running", "stopped", "dead"}
Live(w) == phase[w] \in {"checking", "running"}

\* reconcile_pending: what an operator must not go past.
Pending == {o \in Ops : status[o] \in {"prepared"} \cup Unresolved}

CampaignInit ==
  /\ Init
  /\ Registry!Init
  /\ phase     = [w \in Workers |-> "unborn"]
  /\ running   = [w \in Workers |-> Nil]
  /\ last      = [w \in Workers |-> Nil]
  /\ refreshed = [w \in Workers |-> FALSE]
  /\ host      = [e \in Episodes |-> Nil]

-----------------------------------------------------------------------------
(* Operator processes.                                                     *)

Become(w, next) ==
  /\ phase' = [phase EXCEPT ![w] = next]
  /\ UNCHANGED <<running, last, refreshed, host>>

\* The worker takes the operator lock, or fails because another one holds it.
StartOperator(w) ==
  /\ phase[w] = "unborn"
  /\ Become(w, IF \E x \in Workers : Live(x) THEN "dead" ELSE "checking")
  /\ UNCHANGED <<vars, registry>>

\* The process dies, in or out of a call: its lock is free at once.
Die(w) ==
  /\ Live(w)
  /\ Become(w, "dead")
  /\ IF pc[w] = "idle" THEN UNCHANGED vars ELSE Crash(w)
  /\ UNCHANGED registry

\* One row of reconcile_pending.
ReconcilePending(w, o) ==
  /\ phase[w] = "checking"
  /\ Reconcile(w, o)
  /\ UNCHANGED <<registry, operators>>

\* Unresolved work, all of it reconciled, ends the operator.
EscalatePending(w) ==
  /\ phase[w] = "checking"
  /\ Pending # {}
  /\ \A o \in Pending : status[o] # "dispatching"
  /\ Become(w, "stopped")
  /\ UNCHANGED <<vars, registry>>

\* The measurement window is over.
EndWindow(w) ==
  /\ phase[w] = "checking"
  /\ Pending = {}
  /\ Become(w, "stopped")
  /\ UNCHANGED <<vars, registry>>

-----------------------------------------------------------------------------
(* Episodes.                                                               *)

\* Bug: whatever program is active is run as the campaign's own.
BeginAnyEpisode(w, e) ==
  /\ phase[w] = "checking"
  /\ Pending = {}
  /\ host[e] = Nil
  /\ Registry!StartEpisode(e)
  /\ host'      = [host EXCEPT ![e] = w]
  /\ running'   = [running EXCEPT ![w] = e]
  /\ last'      = [last EXCEPT ![w] = Nil]
  /\ refreshed' = [refreshed EXCEPT ![w] = FALSE]
  /\ phase'     = [phase EXCEPT ![w] = "running"]
  /\ UNCHANGED vars

\* A fresh episode pins the active program.  The pin stays even if it is not
\* the campaign's own program, which ends the operator.
BeginEpisode(w, e) ==
  /\ phase[w] = "checking"
  /\ Pending = {}
  /\ host[e] = Nil
  /\ Registry!StartEpisode(e)
  /\ host'      = [host EXCEPT ![e] = w]
  /\ running'   = [running EXCEPT ![w] = e]
  /\ last'      = [last EXCEPT ![w] = Nil]
  /\ refreshed' = [refreshed EXCEPT ![w] = FALSE]
  /\ phase'     = [phase EXCEPT ![w] = IF active \in Frozen THEN "running" ELSE "stopped"]
  /\ UNCHANGED vars

\* The registry has nothing to start.
AdmissionRefused(w) ==
  /\ phase[w] = "checking"
  /\ Pending = {}
  /\ active \notin Selectable
  /\ Become(w, "stopped")
  /\ UNCHANGED <<vars, registry>>

\* A proposal is built from one read of the Service.
Observed(p) ==
  /\ p.rv <= rv
  /\ versions[p.rv].uid = p.uid
  /\ versions[p.rv].port = p.expected

\* Bug: an unknown outcome is followed by a second decision as a refusal is.
MayRefreshUnknown(w, p) ==
  /\ ~refreshed[w]
  /\ status[last[w]] \in {"rejected", "uncertain"}
  /\ last[w] \in reserved
  /\ Used(p.run) < policy[w].max
  /\ p.run = request[last[w]].run
  /\ p.uid = request[last[w]].uid
  /\ p.rv # request[last[w]].rv
  /\ p.expected = request[last[w]].expected
  /\ p.target = request[last[w]].target

\* _refresh_proposal: the refusal of a transmitted request is definite, and
\* the one new decision is about a newer version of the same Service.
MayRefresh(w, p) ==
  /\ ~refreshed[w]
  /\ status[last[w]] = "rejected"
  /\ reason[last[w]] = "api_rejected"
  /\ last[w] \in reserved
  /\ Used(p.run) < policy[w].max
  /\ p.run = request[last[w]].run
  /\ p.uid = request[last[w]].uid
  /\ p.rv # request[last[w]].rv
  /\ p.expected = request[last[w]].expected
  /\ p.target = request[last[w]].target

\* propose_repair: the first proposal of an episode, or its refresh.
ProposeRepair(w, p) ==
  /\ phase[w] = "running"
  /\ Observed(p)
  /\ last[w] # Nil => MayRefresh(w, p)
  /\ Propose(w, p)
  /\ last'      = [last EXCEPT ![w] = p.op]
  /\ refreshed' = [refreshed EXCEPT ![w] = last[w] # Nil]
  /\ UNCHANGED <<registry, phase, running, host>>

\* get_operation on the outcome of the proposal.
InspectOperation(w) ==
  /\ phase[w] = "running"
  /\ last[w] \in Ops
  /\ Reconcile(w, last[w])
  /\ UNCHANGED <<registry, operators>>

\* The episode claims health or a resolved incident: back to the check.
FinishEpisode(w) ==
  /\ phase[w] = "running"
  /\ pc[w] = "idle"
  /\ last[w] # Nil => status[last[w]] \in {"acknowledged", "uncertain"}
  /\ phase'   = [phase EXCEPT ![w] = "checking"]
  /\ running' = [running EXCEPT ![w] = Nil]
  /\ UNCHANGED <<last, refreshed, host, vars, registry>>

\* The episode escalates, and the operator with it.
EscalateEpisode(w) ==
  /\ phase[w] = "running"
  /\ pc[w] = "idle"
  /\ Become(w, "stopped")
  /\ UNCHANGED <<vars, registry>>

-----------------------------------------------------------------------------
(* The dispatch of a proposal.                                             *)

\* Bug: the episode's pin is enough, the ledger is not asked what is active.
AuthorizeByPin(w, o) ==
  /\ contract[o] = LEGACY
  /\ pins[running[w]] # Nil
  /\ grants[o] = Nil
  /\ grants' = [grants EXCEPT ![o] =
       [episode |-> running[w], version |-> pins[running[w]].version,
        activation |-> pins[running[w]].revision, decision |-> revision]]
  /\ UNCHANGED <<revision, active, activeRevision, admitted, withdrawn,
                 decisions, pins, seen>>

\* The claim's callback: only the calibrated contract has been admitted.
AuthorizeDispatch(w, o) ==
  /\ contract[o] = LEGACY
  /\ Registry!Authorize(o, running[w])

\* The claim finds something against the row, or is refused authorization.
ClaimRefused(w) ==
  /\ phase[w] = "running"
  /\ Claim(w, FALSE)
  /\ UNCHANGED <<registry, operators>>

\* The authorization is committed, then the claim.
ClaimAuthorized(w) ==
  /\ phase[w] = "running"
  /\ pc[w] = "claim"
  /\ ClaimReason(w, cur[w]) = "none"
  /\ AuthorizeDispatch(w, cur[w])
  /\ Claim(w, TRUE)
  /\ UNCHANGED operators

\* The authorization is committed and the claim is not: the process dies, or
\* the journal fails, between the two commits.
ClaimLostAfterAuthorization(w) ==
  /\ phase[w] = "running"
  /\ pc[w] = "claim"
  /\ Unsent(cur[w])
  /\ ClaimReason(w, cur[w]) = "none"
  /\ AuthorizeDispatch(w, cur[w])
  /\ \/ CallRaises(w) /\ UNCHANGED operators
     \/ Crash(w) /\ Become(w, "dead")

\* Adapter.patch_service: exactly one dispatch of this process, under an
\* authorization for this operation and this pin.  Otherwise DispatchNotSent,
\* which SendRefused is.
GuardedSend(w) ==
  /\ phase[w] = "running"
  /\ {o \in Ops : status[o] = "dispatching" /\ owner[o] = w} = {cur[w]}
  /\ Registry!Authorized(cur[w], running[w])
  /\ Send(w)
  /\ UNCHANGED <<registry, operators>>

\* The other steps of a call are the broker's own.
CallStep(w) ==
  /\ phase[w] = "running"
  /\ \/ Lookup(w) \/ ReadBinding(w) \/ Preflight(w) \/ PreflightUnavailable(w)
     \/ RecordConditions(w) \/ Reject(w) \/ ClaimLost(w) \/ SendRefused(w)
     \/ Receive(w) \/ GiveUp(w) \/ Finish(w) \/ CallRaises(w)
  /\ UNCHANGED <<registry, operators>>

-----------------------------------------------------------------------------
Operator(w) ==
  \/ StartOperator(w) \/ Die(w) \/ EscalatePending(w) \/ EndWindow(w)
  \/ \E o \in Ops : ReconcilePending(w, o)
  \/ \E e \in Episodes : BeginEpisode(w, e)
  \/ AdmissionRefused(w)
  \/ \E p \in Proposals : ProposeRepair(w, p)
  \/ InspectOperation(w) \/ FinishEpisode(w) \/ EscalateEpisode(w)
  \/ ClaimRefused(w) \/ ClaimAuthorized(w) \/ ClaimLostAfterAuthorization(w)
  \/ GuardedSend(w) \/ CallStep(w)

CampaignNext ==
  \/ \E w \in Workers : Operator(w)
  \/ Api /\ UNCHANGED <<registry, operators>>
  \/ Registry!Administration /\ UNCHANGED <<vars, operators>>

CampaignSpec == CampaignInit /\ [][CampaignNext]_cvars

-----------------------------------------------------------------------------
OperatorsTypeOK ==
  /\ phase     \in [Workers -> Phases]
  /\ running   \in [Workers -> Episodes \cup {Nil}]
  /\ last      \in [Workers -> Ops \cup {Nil}]
  /\ refreshed \in [Workers -> BOOLEAN]
  /\ host      \in [Episodes -> Workers \cup {Nil}]

CampaignTypeOK == TypeOK /\ Registry!TypeOK /\ OperatorsTypeOK

\* Whatever order operators die and start in, and whichever commit is lost,
\* a transmitted operation has an authorization in the ledger, for an episode
\* of the very operator that claimed it, and for the campaign's own program.
EffectsAuthorized ==
  \A o \in Ops : sends[o] > 0 =>
    /\ grants[o] # Nil
    /\ host[grants[o].episode] = owner[o]
    /\ grants[o].version \in Frozen

\* Over all operators and episodes at most one operation is unresolved: no
\* operator decides anew while an earlier decision may still take effect.
Open(o) == status[o] \in {"prepared"} \cup Unresolved
OneOpenOperation == \A o, p \in Ops : Open(o) /\ Open(p) => o = p

\* An episode has one effect at most: if it transmitted two operations, one of
\* them was definitely refused, and by RejectedNeverLands stays without effect
\* (the comment in runbook.py: only the original received rejection can enter
\* the refresh path).
TransmittedIn(o, e) == sends[o] > 0 /\ grants[o] # Nil /\ grants[o].episode = e
EpisodeRepairsOnce ==
  \A e \in Episodes, o, p \in Ops :
    TransmittedIn(o, e) /\ TransmittedIn(p, e) /\ o # p =>
      status[o] = "rejected" \/ status[p] = "rejected"

\* A decision that may still take effect, or did, is never joined by a second.
OneRepairAtATime == CampaignTypeOK /\ OneOpenOperation /\ EpisodeRepairsOnce

\* The operators add no behaviour of their own to the broker, so that what
\* Broker shows holds in a campaign.
UsesBroker == Spec

\* Nor to the registry: an authorization is always one the ledger allowed.
UsesRegistry == Registry!Spec

\* Whichever commit is lost and whoever dies between two of them, a campaign
\* is a behaviour of both databases.
UsesParts == UsesBroker /\ UsesRegistry

=============================================================================
