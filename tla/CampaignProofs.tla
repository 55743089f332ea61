---------------------------- MODULE CampaignProofs ----------------------------
(***************************************************************************)
(* Theorems of Campaign, for any operators, episodes, operations, versions *)
(* and bounds.  A campaign is a behaviour of the broker and of the         *)
(* registry, so their theorems hold in it; what the operators add is one   *)
(* further invariant that ties the process that is alive, its episode and  *)
(* its last proposal to the open row of the journal.                       *)
(***************************************************************************)
EXTENDS Campaign, BrokerProofs

RP == INSTANCE ProgramRegistryProofs

-----------------------------------------------------------------------------
(* The campaign uses the broker and the registry.                          *)

\* The broker's part of an operator's step is a step of the broker.
LEMMA OperatorUsesBroker ==
  ASSUME NEW w \in Workers, Operator(w)
  PROVE  [Next]_vars
<1>1. CASE StartOperator(w) \/ EscalatePending(w) \/ EndWindow(w) \/ AdmissionRefused(w)
             \/ FinishEpisode(w) \/ EscalateEpisode(w)
  BY <1>1 DEF StartOperator, EscalatePending, EndWindow, AdmissionRefused, FinishEpisode, EscalateEpisode
<1>2. CASE Die(w)
  BY <1>2 DEF Die, Next, Controller
<1>3. CASE \E o \in Ops : ReconcilePending(w, o)
  BY <1>3 DEF ReconcilePending, Next, Begin
<1>4. CASE \E e \in Episodes : BeginEpisode(w, e)
  BY <1>4 DEF BeginEpisode
<1>5. CASE \E p \in Proposals : ProposeRepair(w, p)
  BY <1>5 DEF ProposeRepair, Next, Begin
<1>6. CASE InspectOperation(w)
  BY <1>6 DEF InspectOperation, Next, Begin
<1>7. CASE ClaimRefused(w) \/ ClaimAuthorized(w)
  <2>1. \E authorized \in BOOLEAN : Claim(w, authorized)
    BY <1>7 DEF ClaimRefused, ClaimAuthorized
  <2>2. QED
    BY <2>1 DEF Next, Step
<1>8. CASE ClaimLostAfterAuthorization(w)
  BY <1>8 DEF ClaimLostAfterAuthorization, Next, Controller
<1>9. CASE GuardedSend(w)
  BY <1>9 DEF GuardedSend, Next, Step
<1>10. CASE CallStep(w)
  <2>1. Step(w) \/ CallRaises(w)
    BY <1>10 DEF CallStep, Step
  <2>2. QED
    BY <2>1 DEF Next, Controller
<1>11. QED
  BY <1>1, <1>2, <1>3, <1>4, <1>5, <1>6, <1>7, <1>8, <1>9, <1>10 DEF Operator

\* So is the broker's part of every step of a campaign.
LEMMA StepUsesBroker == [CampaignNext]_cvars => [Next]_vars
<1>1. ASSUME Api PROVE Next
  BY <1>1 DEF Next
<1>2. QED
  BY <1>1, OperatorUsesBroker DEF CampaignNext, cvars

\* A campaign is a behaviour of the broker (operator in campaign.py drives
\* ActionBroker only through propose, reconcile and resume_prepared).
THEOREM CampaignUsesBroker == CampaignSpec => UsesBroker
<1>1. CampaignInit => Init
  BY DEF CampaignInit
<1>2. QED
  BY <1>1, StepUsesBroker, PTL DEF CampaignSpec, UsesBroker, Spec

\* The registry's theorems are about the same steps.
LEMMA SameRegistry ==
  /\ Registry!Init <=> RP!Init
  /\ Registry!Next <=> RP!Next
  /\ registry = RP!vars
<1>1. Registry!Init <=> RP!Init
  BY DEF Registry!Init, RP!Init
<1>2. Registry!Administration <=> RP!Administration
  BY DEF Registry!Administration, RP!Administration, Registry!ReadState, RP!ReadState,
     Registry!Promote, RP!Promote, Registry!Withdraw, RP!Withdraw
<1>3. ASSUME NEW e PROVE Registry!StartEpisode(e) <=> RP!StartEpisode(e)
  BY DEF Registry!StartEpisode, RP!StartEpisode
<1>4. ASSUME NEW o, NEW e PROVE Registry!Authorize(o, e) <=> RP!Authorize(o, e)
  BY DEF Registry!Authorize, RP!Authorize, Registry!MayAuthorize, RP!MayAuthorize
<1>5. QED
  BY <1>1, <1>2, <1>3, <1>4 DEF Registry!Next, RP!Next, registry, RP!vars

-----------------------------------------------------------------------------
(* The invariant.                                                          *)

\* Only one operator is alive.
OneAlive == \A w, x \in Workers : Live(w) /\ Live(x) => w = x

\* What holds of operator w: between episodes it is in no call of the broker;
\* in an episode of its own, pinned to the campaign's program, it works on its
\* last proposal, which is the open row if there is one, and whatever else the
\* episode transmitted was refused.
OperatorInv(w) ==
  /\ phase[w] \in {"unborn", "checking"} => pc[w] \in {"idle", "crashed"}
  /\ phase[w] = "running" =>
       /\ running[w] \in Episodes
       /\ host[running[w]] = w
       /\ pins[running[w]].version \in Frozen
       /\ pc[w] \notin {"idle", "crashed"} => cur[w] = last[w]
       /\ \A o \in Ops : Open(o) => o = last[w]
       /\ \A o \in Ops : TransmittedIn(o, running[w]) => status[o] = "rejected" \/ o = last[w]

\* An authorization is for an episode that was begun.
GrantsHosted == \A o \in Ops : grants[o] # Nil => host[grants[o].episode] \in Workers

CInv ==
  /\ Inv
  /\ RP!Inv
  /\ OperatorsTypeOK
  /\ OneAlive
  /\ \A w \in Workers : OperatorInv(w)
  /\ GrantsHosted
  /\ EffectsAuthorized
  /\ OneOpenOperation
  /\ EpisodeRepairsOnce

\* A campaign starts without operators, episodes and operations.
LEMMA CampaignInitInv == CampaignInit => CInv
<1> SUFFICES ASSUME CampaignInit PROVE CInv
  OBVIOUS
<1>1. Inv
  BY InitInv DEF CampaignInit
<1>2. RP!Inv
  BY SameRegistry, RP!InitInv, FrozenAssumption, LedgerAssumption DEF CampaignInit
<1>3. OperatorsTypeOK
  BY DEF CampaignInit, OperatorsTypeOK, Phases
<1>4. /\ OneAlive
      /\ \A w \in Workers : OperatorInv(w)
  BY DEF CampaignInit, Init, OneAlive, Live, OperatorInv
<1>5. \A o \in Ops : grants[o] = Nil /\ sends[o] = 0 /\ ~Open(o)
  BY DEF CampaignInit, Init, Registry!Init, Open, Unresolved
<1>6. GrantsHosted /\ EffectsAuthorized /\ OneOpenOperation /\ EpisodeRepairsOnce
  BY <1>5 DEF GrantsHosted, EffectsAuthorized, OneOpenOperation, EpisodeRepairsOnce, TransmittedIn
<1>7. QED
  BY <1>1, <1>2, <1>3, <1>4, <1>6 DEF CInv

-----------------------------------------------------------------------------
(* What most steps leave in place.                                         *)

\* No row is opened, no refusal is undone, nothing is sent, and a claim that
\* was sent keeps its owner.
JournalCalm ==
  /\ UNCHANGED sends
  /\ \A o \in Ops : /\ Open(o)' => Open(o)
                    /\ status[o] = "rejected" => status'[o] = "rejected"
                    /\ sends[o] > 0 => owner'[o] = owner[o]

\* A call that goes on is the one that was going on.
CallsCalm ==
  \A x \in Workers : pc'[x] \notin {"idle", "crashed"} =>
    pc[x] \notin {"idle", "crashed"} /\ cur'[x] = cur[x]

\* Pins stay, and only unsent operations of a running episode are authorized.
LedgerCalm ==
  /\ UNCHANGED pins
  /\ \A o \in Ops :
       \/ grants'[o] = grants[o]
       \/ /\ ~(sends[o] > 0)
          /\ \E w \in Workers : phase[w] = "running" /\ grants'[o].episode = running[w]

\* The operators stay where they are, or leave their episodes.
OperatorsCalm ==
  /\ UNCHANGED <<last, host>>
  /\ \A x \in Workers :
       /\ phase'[x] = "running" => phase[x] = "running" /\ running'[x] = running[x]
       /\ phase'[x] \in {"unborn", "checking"} => pc'[x] \in {"idle", "crashed"}

\* Such a step preserves what ties the operators to journal and ledger.
LEMMA CalmStep ==
  ASSUME CInv, JournalCalm, CallsCalm, LedgerCalm, OperatorsCalm
  PROVE  /\ \A w \in Workers : OperatorInv(w)'
         /\ GrantsHosted' /\ EffectsAuthorized' /\ OneOpenOperation' /\ EpisodeRepairsOnce'
<1>1. ASSUME NEW e \in Episodes, NEW o \in Ops, TransmittedIn(o, e)'
      PROVE  TransmittedIn(o, e) /\ grants'[o] = grants[o]
  BY <1>1 DEF TransmittedIn, JournalCalm, LedgerCalm
<1>2. ASSUME NEW w \in Workers PROVE OperatorInv(w)'
  <2>1. OperatorInv(w)
    BY DEF CInv
  <2>2. ASSUME phase'[w] = "running"
        PROVE  phase[w] = "running" /\ running'[w] = running[w] /\ host' = host /\ pins' = pins /\ last' = last
    BY <2>2 DEF OperatorsCalm, LedgerCalm
  <2>3. QED
    BY <1>1, <2>1, <2>2 DEF OperatorInv, JournalCalm, CallsCalm, OperatorsCalm
<1>3. GrantsHosted'
  <2>1. ASSUME NEW w \in Workers, phase[w] = "running" PROVE host[running[w]] = w
    BY <2>1 DEF CInv, OperatorInv
  <2>2. QED
    BY <2>1 DEF CInv, GrantsHosted, LedgerCalm, OperatorsCalm
<1>4. EffectsAuthorized'
  BY DEF CInv, EffectsAuthorized, JournalCalm, LedgerCalm, OperatorsCalm
<1>5. OneOpenOperation'
  BY DEF CInv, OneOpenOperation, JournalCalm
<1>6. EpisodeRepairsOnce'
  BY <1>1 DEF CInv, EpisodeRepairsOnce, JournalCalm
<1>7. QED
  BY <1>2, <1>3, <1>4, <1>5, <1>6

-----------------------------------------------------------------------------
(* The calls of the broker that calm steps make.                           *)

\* A step that leaves status, owner and transmissions alone is calm.
LEMMA SameRowsCalm == UNCHANGED <<status, owner, sends>> => JournalCalm
BY DEF JournalCalm, Open

\* So is one that rejects an open row, or goes on with one that is open.
LEMMA OneRowCalm ==
  ASSUME TypeOK, NEW o \in Ops, Open(o), NEW row \in Statuses \ {"absent"},
         status' = [status EXCEPT ![o] = row],
         UNCHANGED sends, UNCHANGED owner \/ (~(sends[o] > 0) /\ \E w : owner' = [owner EXCEPT ![o] = w])
  PROVE  JournalCalm
BY DEF TypeOK, JournalCalm, Open, Unresolved

\* The calls of other operators stand still when one of them moves.
LEMMA OneCallCalm ==
  ASSUME CallsType, NEW w \in Workers, NEW stage, NEW o,
         pc' = [pc EXCEPT ![w] = stage], cur' = [cur EXCEPT ![w] = o],
         stage \notin {"idle", "crashed"} => pc[w] \notin {"idle", "crashed"} /\ o = cur[w]
  PROVE  CallsCalm
BY DEF CallsType, CallsCalm

\* A claim is calm: it decides an unsent row.
LEMMA ClaimCalm ==
  ASSUME Inv, NEW w \in Workers, NEW authorized \in BOOLEAN, Claim(w, authorized)
  PROVE  JournalCalm /\ CallsCalm
<1>1. /\ cur[w] \in Ops /\ status[cur[w]] = "prepared" /\ sends[cur[w]] = 0
      /\ TypeOK /\ CallsType /\ pc[w] = "claim"
  <2>1. TypeOK /\ CallsType /\ CallInv(w) /\ pc[w] = "claim" /\ status[cur[w]] = "prepared"
    BY TypeOfCalls DEF Claim, Unsent, Inv, JournalAgrees
  <2>2. cur[w] \in Ops
    BY <2>1 DEF CallInv
  <2>3. QED
    BY <2>1, <2>2 DEF Inv, JournalAgrees, RowInv, Untouched
<1>2. \/ status' = [status EXCEPT ![cur[w]] = "dispatching"]
      \/ status' = [status EXCEPT ![cur[w]] = "rejected"]
  BY DEF Claim, RejectRow
<1>3. UNCHANGED sends /\ owner' = [owner EXCEPT ![cur[w]] = w]
  BY DEF Claim, history
<1>4. JournalCalm
  <2>1. /\ Open(cur[w]) /\ ~(sends[cur[w]] > 0)
        /\ {"dispatching", "rejected"} \subseteq Statuses \ {"absent"}
    BY <1>1 DEF Statuses, Open, Unresolved
  <2>2. QED
    BY <1>1, <1>2, <1>3, <2>1, OneRowCalm
<1>5. \/ pc' = [pc EXCEPT ![w] = "send"] /\ cur' = cur
      \/ pc' = [pc EXCEPT ![w] = "idle"] /\ cur' = [cur EXCEPT ![w] = Nil]
  BY DEF Claim, Continue, Return
<1>6. CallsCalm
  BY <1>1, <1>5 DEF CallsType, CallsCalm
<1>7. QED
  BY <1>4, <1>6

\* So are the other steps of a call but the transmission.
LEMMA CallStepCalm ==
  ASSUME Inv, NEW w \in Workers, CallStep(w)
  PROVE  JournalCalm /\ CallsCalm
<1>1. TypeOK /\ CallsType /\ CallInv(w)
  BY TypeOfCalls DEF Inv, JournalAgrees
<1>2. pc[w] \notin {"idle", "crashed"} /\ cur[w] \in Ops
  BY <1>1 DEF CallStep, Lookup, ReadBinding, Preflight, PreflightUnavailable, RecordConditions,
     Reject, ClaimLost, SendRefused, Receive, GiveUp, Finish, CallRaises, CallInv
<1>3. \/ UNCHANGED <<status, owner, sends>>
      \/ /\ Open(cur[w]) /\ UNCHANGED <<owner, sends>>
         /\ \E row \in Statuses \ {"absent"} : status' = [status EXCEPT ![cur[w]] = row]
  <2>1. CASE Lookup(w) \/ ReadBinding(w) \/ Preflight(w) \/ PreflightUnavailable(w)
               \/ RecordConditions(w) \/ ClaimLost(w) \/ SendRefused(w) \/ Receive(w)
               \/ GiveUp(w) \/ CallRaises(w)
    BY <2>1 DEF Lookup, ReadBinding, Preflight, PreflightUnavailable, RecordConditions,
       ClaimLost, SendRefused, Receive, GiveUp, CallRaises, journal, history
  <2>2. CASE Reject(w)
    BY <2>2 DEF Reject, RejectRow, Unsent, history, Open, Statuses
  <2>3. CASE Finish(w)
    <3>1. StatusFor(why[w]) \in Statuses \ {"absent"}
      BY DEF StatusFor, Statuses, Unresolved
    <3>2. QED
      BY <2>3, <3>1 DEF Finish, history, Open
  <2>4. QED
    BY <2>1, <2>2, <2>3 DEF CallStep
<1>4. \/ \E stage : pc' = [pc EXCEPT ![w] = stage] /\ cur' = cur
      \/ pc' = [pc EXCEPT ![w] = "idle"] /\ cur' = [cur EXCEPT ![w] = Nil]
  <2>1. ASSUME NEW stage, NEW snap, NEW because, stage \notin {"idle", "crashed"},
               Continue(w, stage, snap, because)
        PROVE  \E s : pc' = [pc EXCEPT ![w] = s] /\ cur' = cur
    BY <2>1 DEF Continue
  <2>2. ASSUME Return(w)
        PROVE  pc' = [pc EXCEPT ![w] = "idle"] /\ cur' = [cur EXCEPT ![w] = Nil]
    BY <2>2 DEF Return
  <2>3. Return(w) \/ \E stage, snap, because :
          stage \notin {"idle", "crashed"} /\ Continue(w, stage, snap, because)
    <3>1. CASE Lookup(w)
      BY <3>1 DEF Lookup
    <3>2. CASE ReadBinding(w)
      BY <3>2 DEF ReadBinding
    <3>3. CASE Preflight(w)
      <4>1. contract[cur[w]] = LEGACY \/ contract[cur[w]] = PRECISE
        BY <1>1, <1>2 DEF TypeOK, CONTRACTS
      <4>2. QED
        BY <3>3, <4>1 DEF Preflight
    <3>4. CASE RecordConditions(w)
      BY <3>4 DEF RecordConditions
    <3>5. CASE SendRefused(w) \/ Receive(w) \/ GiveUp(w)
      BY <3>5 DEF SendRefused, Receive, GiveUp
    <3>6. CASE PreflightUnavailable(w) \/ Reject(w) \/ ClaimLost(w) \/ Finish(w) \/ CallRaises(w)
      BY <3>6 DEF PreflightUnavailable, Reject, ClaimLost, Finish, CallRaises
    <3>7. QED
      BY <3>1, <3>2, <3>3, <3>4, <3>5, <3>6 DEF CallStep
  <2>4. QED
    BY <2>1, <2>2, <2>3
<1>5. CallsCalm
  BY <1>1, <1>2, <1>4 DEF CallsType, CallsCalm
<1>6. JournalCalm
  BY <1>1, <1>2, <1>3, SameRowsCalm, OneRowCalm
<1>7. QED
  BY <1>5, <1>6

\* Reconciling, dying between steps or in a call, and the API are calm too.
LEMMA OtherStepCalm ==
  ASSUME Inv, \/ \E w \in Workers : Crash(w) \/ CallRaises(w) \/ \E o \in Ops : Reconcile(w, o)
              \/ Api
              \/ UNCHANGED vars
  PROVE  JournalCalm /\ CallsCalm
<1>1. TypeOK /\ CallsType
  BY TypeOfCalls DEF Inv
<1>2. ASSUME NEW w \in Workers, Crash(w) \/ CallRaises(w) PROVE JournalCalm /\ CallsCalm
  <2>1. UNCHANGED <<status, owner, sends>>
    BY <1>2 DEF Crash, CallRaises, journal, history
  <2>2. CallsCalm
    BY <1>1, <1>2 DEF CallsType, CallsCalm, Crash, CallRaises, Return
  <2>3. QED
    BY <2>1, <2>2, SameRowsCalm
<1>3. ASSUME NEW w \in Workers, NEW o \in Ops, Reconcile(w, o) PROVE JournalCalm /\ CallsCalm
  <2>1. Open(o) /\ "uncertain" \in Statuses \ {"absent"}
    BY <1>3 DEF Reconcile, Open, Unresolved, Statuses
  <2>2. status' = [status EXCEPT ![o] = "uncertain"] /\ UNCHANGED <<sends, owner, pc, cur>>
    BY <1>3 DEF Reconcile, history, calls
  <2>3. QED
    BY <1>1, <2>1, <2>2, OneRowCalm DEF CallsCalm
<1>4. ASSUME Api \/ UNCHANGED vars PROVE JournalCalm /\ CallsCalm
  <2>1. UNCHANGED <<status, owner, sends, pc, cur>>
    BY <1>4 DEF Api, ApiApply, ApiRefuse, OtherWriter, vars, journal, calls, history
  <2>2. QED
    BY <2>1, SameRowsCalm DEF CallsCalm
<1>5. QED
  BY <1>2, <1>3, <1>4

-----------------------------------------------------------------------------
(* The registry's part of a step, and the parts of the invariant that need *)
(* nothing else.                                                           *)

\* An authorization is for an operation of the journal and an episode.
LEMMA AuthorizeIsRegistryStep ==
  ASSUME CInv, NEW w \in Workers, phase[w] = "running", pc[w] = "claim", AuthorizeDispatch(w, cur[w])
  PROVE  Registry!Next /\ cur[w] \in Ops /\ running[w] \in Episodes
<1>1. cur[w] \in Ops /\ running[w] \in Episodes
  BY DEF CInv, Inv, JournalAgrees, CallInv, OperatorInv
<1>2. QED
  BY <1>1 DEF AuthorizeDispatch, Registry!Next

\* The registry's part of every step of a campaign is a step of the registry.
LEMMA StepUsesRegistry == CInv /\ [CampaignNext]_cvars => [Registry!Next]_registry
<1> SUFFICES ASSUME CInv, [CampaignNext]_cvars PROVE [Registry!Next]_registry
  OBVIOUS
<1>1. ASSUME NEW w \in Workers, ClaimAuthorized(w) \/ ClaimLostAfterAuthorization(w)
      PROVE  Registry!Next
  BY <1>1, AuthorizeIsRegistryStep DEF ClaimAuthorized, ClaimLostAfterAuthorization
<1>2. ASSUME NEW w \in Workers, NEW e \in Episodes, BeginEpisode(w, e)
      PROVE  Registry!Next
  BY <1>2 DEF BeginEpisode, Registry!Next
<1>3. ASSUME NEW w \in Workers, Operator(w),
             ~(ClaimAuthorized(w) \/ ClaimLostAfterAuthorization(w)),
             ~ \E e \in Episodes : BeginEpisode(w, e)
      PROVE  UNCHANGED registry
  BY <1>3 DEF Operator, StartOperator, Die, EscalatePending, EndWindow, ReconcilePending, AdmissionRefused,
     ProposeRepair, InspectOperation, FinishEpisode, EscalateEpisode, ClaimRefused, GuardedSend, CallStep
<1>4. ASSUME Registry!Administration PROVE Registry!Next
  BY <1>4 DEF Registry!Next
<1>5. QED
  BY <1>1, <1>2, <1>3, <1>4 DEF CampaignNext, cvars

\* Hence the registry's own invariant holds throughout.
LEMMA RegistryPart == CInv /\ [CampaignNext]_cvars => RP!Inv'
<1> SUFFICES ASSUME CInv, [CampaignNext]_cvars PROVE RP!Inv'
  OBVIOUS
<1>1. RP!Inv /\ [RP!Next]_(RP!vars)
  BY StepUsesRegistry, SameRegistry DEF CInv, registry, RP!vars
<1>2. QED
  BY <1>1, RP!NextInv, FrozenAssumption, LedgerAssumption

\* The operators' variables keep their types.
LEMMA OperatorTypes == CInv /\ [CampaignNext]_cvars => OperatorsTypeOK'
<1> SUFFICES ASSUME OperatorsTypeOK, [CampaignNext]_cvars PROVE OperatorsTypeOK'
  BY DEF CInv
<1>1. CASE UNCHANGED operators
  BY <1>1 DEF OperatorsTypeOK, operators
<1>2. ASSUME NEW w \in Workers, NEW next \in Phases, Become(w, next) PROVE OperatorsTypeOK'
  BY <1>2 DEF Become, OperatorsTypeOK
<1>3. ASSUME NEW w \in Workers, NEW e \in Episodes, BeginEpisode(w, e) PROVE OperatorsTypeOK'
  BY <1>3 DEF BeginEpisode, OperatorsTypeOK, Phases
<1>4. ASSUME NEW w \in Workers, NEW p \in Proposals, ProposeRepair(w, p) PROVE OperatorsTypeOK'
  <2>1. p.op \in Ops
    BY ProposalsAssumption DEF Proposal
  <2>2. QED
    BY <1>4, <2>1 DEF ProposeRepair, OperatorsTypeOK
<1>5. ASSUME NEW w \in Workers, FinishEpisode(w) PROVE OperatorsTypeOK'
  BY <1>5 DEF FinishEpisode, OperatorsTypeOK, Phases
<1>6. ASSUME NEW w \in Workers, Operator(w), ~(\E e \in Episodes : BeginEpisode(w, e)),
             ~(\E p \in Proposals : ProposeRepair(w, p)), ~FinishEpisode(w)
      PROVE  UNCHANGED operators \/ \E next \in Phases : Become(w, next)
  BY <1>6 DEF Operator, StartOperator, Die, EscalatePending, EndWindow, ReconcilePending, AdmissionRefused,
     InspectOperation, EscalateEpisode, ClaimRefused, ClaimAuthorized, ClaimLostAfterAuthorization,
     GuardedSend, CallStep, Phases
<1>7. QED
  BY <1>1, <1>2, <1>3, <1>4, <1>5, <1>6 DEF CampaignNext, cvars

\* An operator becomes alive only when nobody is (the operator lock).
LEMMA StaysAlone == CInv /\ [CampaignNext]_cvars => OneAlive'
<1> SUFFICES ASSUME OperatorsTypeOK, OneAlive, [CampaignNext]_cvars PROVE OneAlive'
  BY DEF CInv
<1>1. CASE UNCHANGED phase
  BY <1>1 DEF OneAlive, Live
<1>2. ASSUME NEW w \in Workers, NEW next, phase' = [phase EXCEPT ![w] = next],
             next \in {"checking", "running"} => Live(w) \/ \A x \in Workers : ~Live(x)
      PROVE  OneAlive'
  BY <1>2 DEF OneAlive, Live, OperatorsTypeOK
<1>3. ASSUME NEW w \in Workers, Operator(w)
      PROVE  \/ UNCHANGED phase
             \/ \E next : /\ phase' = [phase EXCEPT ![w] = next]
                          /\ next \in {"checking", "running"} => Live(w) \/ \A x \in Workers : ~Live(x)
  BY <1>3 DEF Operator, StartOperator, Die, EscalatePending, EndWindow, ReconcilePending, AdmissionRefused,
     BeginEpisode, ProposeRepair, FinishEpisode, InspectOperation, EscalateEpisode, ClaimRefused,
     ClaimAuthorized, ClaimLostAfterAuthorization, GuardedSend, CallStep, Become, operators, Live
<1>4. QED
  BY <1>1, <1>2, <1>3 DEF CampaignNext, cvars, operators

-----------------------------------------------------------------------------
(* The steps that are not calm.                                            *)

\* What the five parts of the invariant that tie operators, journal and
\* ledger together say.
Tied ==
  /\ \A w \in Workers : OperatorInv(w)
  /\ GrantsHosted
  /\ EffectsAuthorized
  /\ OneOpenOperation
  /\ EpisodeRepairsOnce

\* An episode begins in an empty journal, with a name nothing refers to.
LEMMA BeginEpisodeTied ==
  ASSUME CInv, OneAlive', NEW w \in Workers, NEW e \in Episodes, BeginEpisode(w, e)
  PROVE  Tied'
<1>1. /\ UNCHANGED <<status, owner, sends, pc, cur, grants>>
      /\ phase[w] = "checking" /\ host[e] = Nil /\ Nil \notin Workers
      /\ \A o \in Ops : ~Open(o)
  BY NilAssumption DEF BeginEpisode, vars, journal, history, calls, Registry!StartEpisode,
     Pending, Open
<1>2. /\ pins \in [Episodes -> RP!Pin \cup {Nil}]
      /\ grants \in [Ops -> RP!Grant \cup {Nil}]
      /\ OperatorsTypeOK
  BY DEF CInv, RP!Inv, RP!TypeOK
<1>3. /\ host' = [host EXCEPT ![e] = w]
      /\ running' = [running EXCEPT ![w] = e]
      /\ phase'[w] = "running" => active \in Frozen
      /\ \A x \in Workers : x # w => phase'[x] = phase[x]
      /\ pins' = [pins EXCEPT ![e] = [version |-> active, revision |-> activeRevision]]
  BY <1>2 DEF BeginEpisode, OperatorsTypeOK, Registry!StartEpisode
<1>4. \A o \in Ops : grants[o] # Nil => grants[o].episode \in Episodes \ {e}
  <2>1. ASSUME NEW o \in Ops, grants[o] # Nil PROVE grants[o].episode \in Episodes \ {e}
    <3>1. grants[o].episode \in Episodes
      BY <1>2, <2>1 DEF RP!Grant
    <3>2. host[grants[o].episode] \in Workers
      BY <2>1 DEF CInv, GrantsHosted
    <3>3. QED
      BY <1>1, <3>1, <3>2
  <2>2. QED
    BY <2>1
<1>5. GrantsHosted' /\ EffectsAuthorized'
  BY <1>1, <1>2, <1>3, <1>4 DEF CInv, GrantsHosted, EffectsAuthorized, OperatorsTypeOK
<1>6. OneOpenOperation' /\ EpisodeRepairsOnce'
  BY <1>1 DEF CInv, OneOpenOperation, EpisodeRepairsOnce, Open, TransmittedIn
<1>7. ASSUME NEW x \in Workers PROVE OperatorInv(x)'
  <2>1. CASE x = w
    <3>1. pc'[w] \in {"idle", "crashed"}
      BY <1>1 DEF CInv, OperatorInv
    <3>2. running'[w] = e /\ host'[e] = w /\ pins'[e].version = active
      BY <1>2, <1>3 DEF OperatorsTypeOK
    <3>3. \A o \in Ops : ~Open(o)' /\ ~TransmittedIn(o, e)'
      BY <1>1, <1>4 DEF Open, TransmittedIn
    <3>4. QED
      BY <1>3, <2>1, <3>1, <3>2, <3>3 DEF OperatorInv
  <2>2. CASE x # w
    <3>1. CASE phase'[x] = "running"
      BY <1>1, <1>3, <2>2, <3>1 DEF CInv, OneAlive, Live
    <3>2. CASE phase'[x] # "running"
      BY <1>1, <1>3, <2>2, <3>2 DEF CInv, OperatorInv
    <3>3. QED
      BY <3>1, <3>2
  <2>3. QED
    BY <2>1, <2>2
<1>8. QED
  BY <1>5, <1>6, <1>7 DEF Tied

\* A proposal opens its row, and no other row is open: the operator's last
\* proposal, if there is one, was refused.
LEMMA ProposeRepairTied ==
  ASSUME CInv, NEW w \in Workers, NEW p \in Proposals, ProposeRepair(w, p)
  PROVE  Tied'
<1>1. /\ p.op \in Ops /\ status[p.op] = "absent" /\ phase[w] = "running"
      /\ UNCHANGED <<owner, sends, pins, grants, phase, running, host>>
      /\ TypeOK /\ CallsType /\ OperatorsTypeOK
  BY ProposalsAssumption, TypeOfCalls DEF ProposeRepair, Propose, Proposal, history, registry, CInv, Inv
<1>2. /\ status' = [status EXCEPT ![p.op] = status'[p.op]]
      /\ last' = [last EXCEPT ![w] = p.op]
      /\ \A x \in Workers : x # w => pc'[x] = pc[x]
      /\ pc'[w] \in {"idle", "crashed"} \/ cur'[w] = p.op
  <2>1. status' = [status EXCEPT ![p.op] = status'[p.op]]
    BY <1>1 DEF ProposeRepair, Propose, TypeOK
  <2>2. last' = [last EXCEPT ![w] = p.op]
    BY DEF ProposeRepair
  <2>3. \/ pc' = [pc EXCEPT ![w] = "lookup"] /\ cur' = [cur EXCEPT ![w] = p.op]
        \/ pc' = pc /\ pc[w] = "idle"
    BY DEF ProposeRepair, Propose
  <2>4. QED
    BY <1>1, <2>1, <2>2, <2>3 DEF CallsType
<1>3. OperatorInv(w)
  BY DEF CInv
<1>4. last[w] = Nil \/ status[last[w]] = "rejected"
  BY DEF ProposeRepair, MayRefresh
<1>5. \A o \in Ops : ~Open(o)
  BY <1>1, <1>3, <1>4, OpsAssumption DEF OperatorInv, Open, Unresolved
<1>6. /\ \A o \in Ops : Open(o)' => o = p.op
      /\ \A o \in Ops : status[o] = "rejected" => status'[o] = "rejected"
      /\ \A e \in Episodes, o \in Ops : TransmittedIn(o, e)' => TransmittedIn(o, e)
  BY <1>1, <1>2, <1>5 DEF Open, TransmittedIn, TypeOK
<1>7. GrantsHosted' /\ EffectsAuthorized' /\ OneOpenOperation' /\ EpisodeRepairsOnce'
  BY <1>1, <1>6 DEF CInv, GrantsHosted, EffectsAuthorized, OneOpenOperation, EpisodeRepairsOnce
<1>8. ASSUME NEW x \in Workers PROVE OperatorInv(x)'
  <2>1. CASE x = w
    <3>1. last'[w] = p.op /\ running'[w] = running[w]
      BY <1>1, <1>2 DEF OperatorsTypeOK
    <3>2. \A o \in Ops : TransmittedIn(o, running[w])' => status'[o] = "rejected"
      BY <1>1, <1>3, <1>4, <1>6, OpsAssumption DEF OperatorInv
    <3>3. QED
      BY <1>1, <1>2, <1>3, <1>6, <2>1, <3>1, <3>2 DEF OperatorInv
  <2>2. CASE x # w
    <3>1. phase'[x] # "running"
      BY <1>1, <2>2 DEF CInv, OneAlive, Live
    <3>2. QED
      BY <1>1, <1>2, <2>2, <3>1 DEF CInv, OperatorInv
  <2>3. QED
    BY <2>1, <2>2
<1>9. QED
  BY <1>7, <1>8 DEF Tied

\* A transmission is of the operator's last proposal, under an authorization
\* for its episode, whose other transmissions were refused.
LEMMA GuardedSendTied ==
  ASSUME CInv, NEW w \in Workers, GuardedSend(w)
  PROVE  Tied'
<1>1. /\ UNCHANGED <<status, owner, cur, pins, grants, operators>>
      /\ phase[w] = "running" /\ pc[w] = "send"
      /\ sends' = [sends EXCEPT ![cur[w]] = @ + 1]
      /\ pc' = [pc EXCEPT ![w] = "await"]
      /\ TypeOK /\ CallsType /\ OperatorInv(w) /\ CallInv(w)
  BY TypeOfCalls DEF GuardedSend, Send, Continue, journal, registry, CInv, Inv, JournalAgrees
<1>2. /\ cur[w] \in Ops /\ cur[w] = last[w] /\ owner[cur[w]] = w
      /\ grants[cur[w]] # Nil /\ grants[cur[w]].episode = running[w]
      /\ grants[cur[w]].version \in Frozen
      /\ host[running[w]] = w
  BY <1>1 DEF OperatorInv, CallInv, GuardedSend, Registry!Authorized
<1>3. \A o \in Ops : o # cur[w] => sends'[o] = sends[o]
  BY <1>1 DEF TypeOK
<1>4. GrantsHosted' /\ EffectsAuthorized' /\ OneOpenOperation'
  BY <1>1, <1>2, <1>3 DEF CInv, GrantsHosted, EffectsAuthorized, OneOpenOperation, Open, operators
<1>5. \A o \in Ops, e \in Episodes : TransmittedIn(o, e)' =>
        TransmittedIn(o, e) \/ (o = cur[w] /\ e = running[w])
  BY <1>1, <1>2, <1>3 DEF TransmittedIn
<1>6. EpisodeRepairsOnce'
  BY <1>1, <1>2, <1>5 DEF CInv, EpisodeRepairsOnce, OperatorInv
<1>7. ASSUME NEW x \in Workers PROVE OperatorInv(x)'
  <2>1. CASE x = w
    BY <1>1, <1>2, <1>5, <2>1 DEF OperatorInv, Open, operators
  <2>2. CASE x # w
    <3>1. phase[x] # "running"
      BY <1>1, <2>2 DEF CInv, OneAlive, Live
    <3>2. QED
      BY <1>1, <2>2, <3>1 DEF CInv, OperatorInv, CallsType, operators
  <2>3. QED
    BY <2>1, <2>2
<1>8. QED
  BY <1>4, <1>6, <1>7 DEF Tied

-----------------------------------------------------------------------------
(* Every step.                                                             *)

\* Where the registry authorizes nothing and pins nothing, its part is calm.
LEMMA SameLedgerCalm == UNCHANGED <<pins, grants>> => LedgerCalm
BY DEF LedgerCalm

\* An authorization is calm: its operation is unsent, its episode running.
LEMMA AuthorizeCalm ==
  ASSUME CInv, NEW w \in Workers, phase[w] = "running", pc[w] = "claim", Unsent(cur[w]),
         AuthorizeDispatch(w, cur[w])
  PROVE  LedgerCalm
<1>1. cur[w] \in Ops /\ running[w] \in Episodes
  BY AuthorizeIsRegistryStep
<1>2. sends[cur[w]] = 0 /\ grants \in [Ops -> RP!Grant \cup {Nil}]
  BY <1>1 DEF CInv, Inv, RP!Inv, RP!TypeOK, JournalAgrees, RowInv, Unsent, Untouched
<1>3. UNCHANGED pins /\ grants' = [grants EXCEPT ![cur[w]] =
        [episode |-> running[w], version |-> pins[running[w]].version,
         activation |-> pins[running[w]].revision, decision |-> revision]]
  BY DEF AuthorizeDispatch, Registry!Authorize
<1>4. grants'[cur[w]].episode = running[w] /\ \A o \in Ops \ {cur[w]} : grants'[o] = grants[o]
  BY <1>1, <1>2, <1>3
<1>5. QED
  BY <1>2, <1>3, <1>4 DEF LedgerCalm

\* Operators that do not move, or one that leaves its episode, are calm.
LEMMA SameOperatorsCalm ==
  ASSUME CInv, CallsCalm, UNCHANGED operators
  PROVE  OperatorsCalm
BY DEF CInv, OperatorInv, CallsCalm, OperatorsCalm, operators

\* An operator that goes on outside an episode is calm.
LEMMA BecomeCalm ==
  ASSUME CInv, CallsCalm, NEW w \in Workers, NEW next \in Phases \ {"running"}, Become(w, next),
         next = "checking" => pc[w] \in {"idle", "crashed"}, next # "unborn"
  PROVE  OperatorsCalm
BY DEF CInv, OperatorsTypeOK, OperatorInv, CallsCalm, OperatorsCalm, Become

\* Every step but the three above is calm.
LEMMA CalmOrOneOfThree ==
  ASSUME CInv, [CampaignNext]_cvars
  PROVE  \/ JournalCalm /\ CallsCalm /\ LedgerCalm /\ OperatorsCalm
         \/ \E w \in Workers :
              \/ \E e \in Episodes : BeginEpisode(w, e)
              \/ \E p \in Proposals : ProposeRepair(w, p)
              \/ GuardedSend(w)
<1> DEFINE Calm == JournalCalm /\ CallsCalm /\ LedgerCalm /\ OperatorsCalm
<1>0. Inv
  BY DEF CInv
<1>1. ASSUME NEW w \in Workers,
             StartOperator(w) \/ EscalatePending(w) \/ EndWindow(w) \/ AdmissionRefused(w) \/ EscalateEpisode(w)
      PROVE  Calm
  <2>1. UNCHANGED vars /\ UNCHANGED <<pins, grants>>
    BY <1>1 DEF StartOperator, EscalatePending, EndWindow, AdmissionRefused, EscalateEpisode, registry
  <2>2. JournalCalm /\ CallsCalm /\ LedgerCalm
    BY <1>0, <2>1, OtherStepCalm, SameLedgerCalm
  <2>3. \E next \in {"checking", "stopped", "dead"} :
          Become(w, next) /\ (next = "checking" => pc[w] \in {"idle", "crashed"})
    BY <1>1 DEF StartOperator, EscalatePending, EndWindow, AdmissionRefused, EscalateEpisode, CInv, OperatorInv
  <2>4. QED
    BY <2>2, <2>3, BecomeCalm DEF Phases
<1>2. ASSUME NEW w \in Workers, Die(w) PROVE Calm
  <2>1. (Crash(w) \/ UNCHANGED vars) /\ UNCHANGED <<pins, grants>> /\ Become(w, "dead")
    BY <1>2 DEF Die, registry
  <2>2. JournalCalm /\ CallsCalm /\ LedgerCalm
    BY <1>0, <2>1, OtherStepCalm, SameLedgerCalm
  <2>3. QED
    BY <2>1, <2>2, BecomeCalm DEF Phases
<1>3. ASSUME NEW w \in Workers, FinishEpisode(w) PROVE Calm
  <2>1. UNCHANGED vars /\ UNCHANGED <<pins, grants>> /\ pc[w] = "idle"
    BY <1>3 DEF FinishEpisode, registry
  <2>2. JournalCalm /\ CallsCalm /\ LedgerCalm
    BY <1>0, <2>1, OtherStepCalm, SameLedgerCalm
  <2>3. OperatorsCalm
    BY <1>3, <2>1, <2>2 DEF FinishEpisode, CInv, OperatorsTypeOK, OperatorInv, CallsCalm, OperatorsCalm
  <2>4. QED
    BY <2>2, <2>3
<1>4. ASSUME NEW w \in Workers, InspectOperation(w) \/ \E o \in Ops : ReconcilePending(w, o)
      PROVE  Calm
  <2>1. (\E o \in Ops : Reconcile(w, o)) /\ UNCHANGED <<pins, grants>> /\ UNCHANGED operators
    BY <1>4 DEF InspectOperation, ReconcilePending, registry
  <2>2. QED
    BY <1>0, <2>1, OtherStepCalm, SameLedgerCalm, SameOperatorsCalm
<1>5. ASSUME NEW w \in Workers, ClaimRefused(w) \/ CallStep(w) PROVE Calm
  <2>1. JournalCalm /\ CallsCalm
    BY <1>0, <1>5, ClaimCalm, CallStepCalm DEF ClaimRefused
  <2>2. UNCHANGED <<pins, grants>> /\ UNCHANGED operators
    BY <1>5 DEF ClaimRefused, CallStep, registry
  <2>3. QED
    BY <2>1, <2>2, SameLedgerCalm, SameOperatorsCalm
<1>6. ASSUME NEW w \in Workers, ClaimAuthorized(w) PROVE Calm
  <2>1. /\ phase[w] = "running" /\ pc[w] = "claim" /\ Unsent(cur[w])
        /\ AuthorizeDispatch(w, cur[w]) /\ Claim(w, TRUE) /\ UNCHANGED operators
    BY <1>6 DEF ClaimAuthorized, Claim
  <2>2. QED
    BY <1>0, <2>1, ClaimCalm, AuthorizeCalm, SameOperatorsCalm
<1>7. ASSUME NEW w \in Workers, ClaimLostAfterAuthorization(w) PROVE Calm
  <2>1. LedgerCalm
    BY <1>7, AuthorizeCalm DEF ClaimLostAfterAuthorization
  <2>2. \/ CallRaises(w) /\ UNCHANGED operators
        \/ Crash(w) /\ Become(w, "dead")
    BY <1>7 DEF ClaimLostAfterAuthorization
  <2>3. JournalCalm /\ CallsCalm
    BY <1>0, <2>2, OtherStepCalm
  <2>4. OperatorsCalm
    BY <2>2, <2>3, SameOperatorsCalm, BecomeCalm DEF Phases
  <2>5. QED
    BY <2>1, <2>3, <2>4
<1>8. ASSUME \/ Api /\ UNCHANGED <<registry, operators>>
             \/ Registry!Administration /\ UNCHANGED <<vars, operators>>
             \/ UNCHANGED cvars
      PROVE  Calm
  <2>1. (Api \/ UNCHANGED vars) /\ UNCHANGED operators
    BY <1>8 DEF cvars
  <2>2. UNCHANGED <<pins, grants>>
    BY <1>8 DEF cvars, registry, Registry!Administration, Registry!ReadState, Registry!Promote,
       Registry!Withdraw
  <2>3. QED
    BY <1>0, <2>1, <2>2, OtherStepCalm, SameLedgerCalm, SameOperatorsCalm
<1>9. QED
  BY <1>1, <1>2, <1>3, <1>4, <1>5, <1>6, <1>7, <1>8 DEF CampaignNext, Operator

\* The invariant is inductive.
LEMMA CampaignNextInv == CInv /\ [CampaignNext]_cvars => CInv'
<1> SUFFICES ASSUME CInv, [CampaignNext]_cvars PROVE CInv'
  OBVIOUS
<1>1. Inv'
  BY StepUsesBroker, NextInv DEF CInv
<1>2. RP!Inv' /\ OperatorsTypeOK' /\ OneAlive'
  BY RegistryPart, OperatorTypes, StaysAlone
<1>3. Tied'
  BY <1>2, CalmOrOneOfThree, CalmStep, BeginEpisodeTied, ProposeRepairTied, GuardedSendTied DEF Tied
<1>4. QED
  BY <1>1, <1>2, <1>3 DEF CInv, Tied

\* The invariant holds in every reachable state of a campaign.
THEOREM CampaignInv == CampaignSpec => []CInv
BY CampaignInitInv, CampaignNextInv, PTL DEF CampaignSpec

-----------------------------------------------------------------------------
(* The theorems.                                                           *)

\* Journal, ledger and operators stay well-formed in every campaign.
THEOREM CampaignTypes == CampaignSpec => []CampaignTypeOK
<1>1. CInv => CampaignTypeOK
  BY DEF CInv, Inv, RP!Inv, CampaignTypeOK, RP!TypeOK, Registry!TypeOK, RP!Pin, Registry!Pin,
     RP!Grant, Registry!Grant, RP!Decision, Registry!Decision, RP!Kinds, Registry!Kinds
<1>2. QED
  BY <1>1, CampaignInv, PTL

\* A campaign is a behaviour of the registry: the broker's callback gets every
\* authorization from it, and none is ever reused (program_admission.py).
THEOREM CampaignUsesRegistry == CampaignSpec => UsesRegistry
<1>1. CampaignInit => Registry!Init
  BY DEF CampaignInit
<1>2. CInv /\ [CampaignNext]_cvars => [Registry!Next]_(Registry!vars)
  BY StepUsesRegistry DEF registry, Registry!vars
<1>3. QED
  BY <1>1, <1>2, CampaignInv, PTL DEF CampaignSpec, UsesRegistry, Registry!Spec

\* Whatever crashes between the two commits, a transmitted operation has an
\* authorization of its own operator's episode and of the campaign's program
\* (Adapter.patch_service in campaign.py).
THEOREM TransmissionsAreAuthorized == CampaignSpec => []EffectsAuthorized
<1>1. CInv => EffectsAuthorized
  BY DEF CInv
<1>2. QED
  BY <1>1, CampaignInv, PTL

\* No operator decides anew while an earlier decision may still take effect
\* (reconcile_pending in campaign.py).
THEOREM OneDecisionAtATime == CampaignSpec => []OneOpenOperation
<1>1. CInv => OneOpenOperation
  BY DEF CInv
<1>2. QED
  BY <1>1, CampaignInv, PTL

\* A refresh follows a definite refusal only (_refresh_proposal in runbook.py).
THEOREM EpisodesRepairOnce == CampaignSpec => []EpisodeRepairsOnce
<1>1. CInv => EpisodeRepairsOnce
  BY DEF CInv
<1>2. QED
  BY <1>1, CampaignInv, PTL

\* Operations of a campaign come one at a time, with one effect an episode
\* (OneRepairAtATime).
THEOREM RepairsComeOneAtATime == CampaignSpec => []OneRepairAtATime
<1>1. CampaignTypeOK /\ OneOpenOperation /\ EpisodeRepairsOnce => OneRepairAtATime
  BY DEF OneRepairAtATime
<1>2. QED
  BY <1>1, CampaignTypes, OneDecisionAtATime, EpisodesRepairOnce, PTL

\* A campaign is a behaviour of the broker and of the registry (UsesParts).
THEOREM CampaignUsesItsParts == CampaignSpec => UsesParts
<1>1. QED
  BY CampaignUsesBroker, CampaignUsesRegistry DEF UsesParts

\* The broker's promise holds in every campaign: however operators die and
\* restart, an operation takes effect at most once and is reported as it was.
THEOREM CampaignKeepsPromise == CampaignSpec => KeepsPromise /\ []AtMostOnce /\ []RejectedNeverLands
BY CampaignUsesBroker, BrokerKeepsPromise, TransmittedAtMostOnce, RejectionIsDefinite, PTL DEF UsesBroker

=============================================================================
