----------------------------- MODULE BrokerProofs -----------------------------
(***************************************************************************)
(* Theorems of Broker, for every set of operations, instances, proposals   *)
(* and policies, and every bound on the Service's versions.  The argument  *)
(* is one inductive invariant, TypeOK /\ JournalAgrees: the journal's rows,*)
(* the calls in progress, the requests on the wire and the history of what *)
(* was sent and applied tell the same story.                               *)
(***************************************************************************)
EXTENDS Broker, FiniteSetTheorems, TLAPS

Inv == TypeOK /\ JournalAgrees

USE DEF Unsent

\* The journal's columns, the wire and the history stand still: only calls move.
StoreUnchanged ==
  UNCHANGED <<status, request, reserved, owner, contract, snapshot, reason,
              inflight, sends, applied>>

\* The locals of every call but that of w stand still.
OthersUnchanged(w) ==
  /\ pc'    = [pc EXCEPT ![w] = pc'[w]]
  /\ cur'   = [cur EXCEPT ![w] = cur'[w]]
  /\ held'  = [held EXCEPT ![w] = held'[w]]
  /\ why'   = [why EXCEPT ![w] = why'[w]]
  /\ reply' = [reply EXCEPT ![w] = reply'[w]]

-----------------------------------------------------------------------------
\* A fresh journal satisfies the invariant (ActionBroker.__init__).
LEMMA InitInv == Init => Inv
<1> SUFFICES ASSUME Init PROVE Inv
  OBVIOUS
<1>1. TypeOK
  BY VersionsAssumption DEF Init, TypeOK, Statuses, CONTRACTS, Reasons, Stages, LEGACY
<1>2. JournalAgrees
  BY DEF Init, JournalAgrees, RowInv, EffectInv, CallInv, Untouched, OnTheWire, Unresolved
<1>3. QED
  BY <1>1, <1>2 DEF Inv

\* A step of one call that leaves journal, wire and history alone preserves
\* the invariant if the call's own part holds afterwards.
LEMMA LocalStep ==
  ASSUME JournalAgrees, NEW w \in Workers, TypeOK, StoreUnchanged,
         OthersUnchanged(w), CallInv(w)'
  PROVE  JournalAgrees'
<1>1. ASSUME NEW o \in Ops PROVE (RowInv(o) /\ EffectInv(o))'
  BY DEF JournalAgrees, RowInv, EffectInv, Untouched, OnTheWire, StoreUnchanged
<1>2. ASSUME NEW m \in inflight' PROVE WireInv(m)'
  BY DEF JournalAgrees, WireInv, StoreUnchanged
<1>3. ASSUME NEW x \in Workers, x # w PROVE CallInv(x)'
  BY <1>3 DEF JournalAgrees, CallInv, Untouched, OnTheWire, StoreUnchanged, OthersUnchanged, TypeOK
<1>4. QED
  BY <1>1, <1>2, <1>3 DEF JournalAgrees

\* A new row holds its own proposal and is untouched.
LEMMA ProposeInv ==
  ASSUME Inv, NEW w \in Workers, NEW p \in Proposals, Propose(w, p)
  PROVE  Inv'
<1> USE DEF Inv
<1>0. p \in Proposal /\ p.op \in Ops /\ policy[w] \in BrokerPolicy /\ policy[w].contract \in CONTRACTS
  BY ProposalsAssumption, PoliciesAssumption DEF TypeOK, Proposal, BrokerPolicy
<1>1. TypeOK'
  BY <1>0 DEF TypeOK, Propose, IntakeReason, Statuses, Reasons, Stages, api, history
<1>2. ASSUME NEW o \in Ops PROVE (RowInv(o) /\ EffectInv(o))'
  BY <1>0 DEF JournalAgrees, RowInv, EffectInv, Untouched, OnTheWire, Unresolved, Propose,
     IntakeReason, TypeOK, api, history
<1>3. ASSUME NEW m \in inflight' PROVE WireInv(m)'
  BY <1>0 DEF JournalAgrees, WireInv, Unresolved, Propose, TypeOK, Request, api, history
<1>4. ASSUME NEW x \in Workers PROVE CallInv(x)'
  <2>1. CASE x = w
    <3>1. CallInv(w) /\ pc[w] = "idle" /\ status'[p.op] # "absent"
      BY <1>0 DEF JournalAgrees, Propose, TypeOK, IntakeReason
    <3>2. /\ pc'[w] \in {"idle", "lookup"} /\ (pc'[w] = "lookup" => cur'[w] = p.op)
          /\ reply'[w] = "none"
      BY <1>0, <3>1 DEF Propose, TypeOK, CallInv
    <3>3. QED
      BY <1>0, <2>1, <3>1, <3>2 DEF CallInv
  <2>2. CASE x # w
    <3>1. CallInv(x) /\ pc'[x] = pc[x] /\ cur'[x] = cur[x]
      BY <1>0, <2>2 DEF JournalAgrees, Propose, TypeOK, IntakeReason
    <3>2. ASSUME pc[x] \notin {"idle", "crashed"}
          PROVE  cur[x] # p.op /\ status'[cur[x]] = status[cur[x]]
      BY <1>0, <3>1, <3>2 DEF Propose, CallInv, TypeOK
    <3>3. QED
      BY <1>0, <3>1, <3>2 DEF CallInv, Untouched, OnTheWire, Propose, api, history
  <2>3. QED
    BY <2>1, <2>2
<1>5. QED
  BY <1>1, <1>2, <1>3, <1>4 DEF JournalAgrees
-----------------------------------------------------------------------------
(* What the two ways a step ends do to the calls.                          *)

CallsType ==
  /\ pc    \in [Workers -> Stages]
  /\ cur   \in [Workers -> Ops \cup {Nil}]
  /\ held  \in [Workers -> Rests \cup {NoSnapshot}]
  /\ why   \in [Workers -> Reasons]
  /\ reply \in [Workers -> {"none", "ok", "refused"}]

\* A call that goes on changes its stage and locals, and nobody else's.
LEMMA ContinueFacts ==
  ASSUME CallsType, NEW w \in Workers, NEW stage \in Stages,
         NEW snap \in Rests \cup {NoSnapshot}, NEW because \in Reasons,
         Continue(w, stage, snap, because)
  PROVE  /\ CallsType' /\ OthersUnchanged(w)
         /\ pc'[w] = stage /\ held'[w] = snap /\ why'[w] = because
         /\ cur'[w] = cur[w] /\ reply'[w] = reply[w]
BY DEF CallsType, Continue, OthersUnchanged

\* A call that returns is idle with its locals gone; nobody else's change.
LEMMA ReturnFacts ==
  ASSUME CallsType, NEW w \in Workers, Return(w)
  PROVE  /\ CallsType' /\ OthersUnchanged(w)
         /\ pc'[w] = "idle" /\ cur'[w] = Nil /\ held'[w] = NoSnapshot
         /\ why'[w] = "none" /\ reply'[w] = "none"
BY DEF CallsType, Return, OthersUnchanged, Stages, Reasons

\* A call that has returned, or died, satisfies its part of the invariant.
LEMMA RestingCall ==
  ASSUME NEW w \in Workers, pc'[w] \in {"idle", "crashed"},
         pc'[w] = "idle" => reply'[w] = "none"
  PROVE  CallInv(w)'
BY DEF CallInv

\* So does one that has not reached its claim.
LEMMA EarlyCall ==
  ASSUME NEW w \in Workers,
         pc'[w] \in {"lookup", "binding", "preflight", "record", "claim"},
         cur'[w] \in Ops, status'[cur'[w]] # "absent", reply'[w] = "none"
  PROVE  CallInv(w)'
BY DEF CallInv

\* The type invariant after a step that changes calls only.
LEMMA CallsOnlyType ==
  ASSUME TypeOK, CallsType', StoreUnchanged, UNCHANGED <<policy, versions, rv>>
  PROVE  TypeOK'
BY DEF TypeOK, CallsType, StoreUnchanged

\* The calls' share of the type invariant.
LEMMA TypeOfCalls == TypeOK => CallsType
BY DEF TypeOK, CallsType

-----------------------------------------------------------------------------
(* Steps that change nothing but one call.                                 *)

\* A resumed call starts at its lookup.
LEMMA ResumeInv ==
  ASSUME Inv, NEW w \in Workers, NEW o \in Ops, Resume(w, o)
  PROVE  Inv'
<1> USE DEF Inv
<1>1. CallsType /\ CallInv(w)
  BY TypeOfCalls DEF JournalAgrees
<1>2. /\ CallsType' /\ OthersUnchanged(w)
      /\ pc'[w] = "lookup" /\ cur'[w] = o /\ reply'[w] = "none" /\ status'[o] # "absent"
  BY <1>1 DEF Resume, CallsType, OthersUnchanged, CallInv, Stages, journal
<1>7. StoreUnchanged /\ UNCHANGED <<policy, versions, rv>>
  BY DEF Resume, StoreUnchanged, journal, api, history
<1>8. CallsType' /\ OthersUnchanged(w) /\ CallInv(w)'
  BY <1>2, EarlyCall
<1>9. QED
  BY <1>7, <1>8, LocalStep, CallsOnlyType

\* The lookup continues a call or ends it.
LEMMA LookupInv ==
  ASSUME Inv, NEW w \in Workers, Lookup(w)
  PROVE  Inv'
<1> USE DEF Inv
<1>1. CallsType /\ CallInv(w)
  BY TypeOfCalls DEF JournalAgrees
<1>2. ASSUME Return(w)
      PROVE  CallsType' /\ OthersUnchanged(w) /\ CallInv(w)'
  BY <1>1, <1>2, ReturnFacts, RestingCall
<1>3. ASSUME Continue(w, "binding", NoSnapshot, "none")
      PROVE  CallsType' /\ OthersUnchanged(w) /\ CallInv(w)'
  <2>1. "binding" \in Stages /\ "none" \in Reasons
    BY DEF Stages, Reasons
  <2>2. QED
    BY <1>1, <1>3, <2>1, ContinueFacts, EarlyCall DEF Lookup, CallInv, journal
<1>7. StoreUnchanged /\ UNCHANGED <<policy, versions, rv>>
  BY DEF Lookup, StoreUnchanged, journal, api, history
<1>8. CallsType' /\ OthersUnchanged(w) /\ CallInv(w)'
  BY <1>2, <1>3 DEF Lookup
<1>9. QED
  BY <1>7, <1>8, LocalStep, CallsOnlyType

\* Reading the binding leads to the claim, the preflight or a policy's rejection.
LEMMA ReadBindingInv ==
  ASSUME Inv, NEW w \in Workers, ReadBinding(w)
  PROVE  Inv'
<1> USE DEF Inv
<1>1. CallsType /\ CallInv(w)
  BY TypeOfCalls DEF JournalAgrees
<1>2. PICK stage, because :
        /\ Continue(w, stage, snapshot[cur[w]], because)
        /\ stage \in {"claim", "preflight"} \/ (stage = "reject" /\ because \in {"policy", "contract"})
        /\ because \in Reasons
  BY <1>1 DEF ReadBinding, StandingReason, Reasons
<1>3. stage \in Stages /\ snapshot[cur[w]] \in Rests \cup {NoSnapshot}
  BY <1>1, <1>2 DEF Stages, TypeOK, CallInv, ReadBinding
<1>4. /\ CallsType' /\ OthersUnchanged(w) /\ pc'[w] = stage /\ why'[w] = because
      /\ cur'[w] = cur[w] /\ reply'[w] = reply[w]
  BY <1>1, <1>2, <1>3, ContinueFacts
<1>5. CallInv(w)'
  BY <1>1, <1>2, <1>4 DEF CallInv, ReadBinding, journal
<1>7. StoreUnchanged /\ UNCHANGED <<policy, versions, rv>>
  BY DEF ReadBinding, StoreUnchanged, journal, api, history
<1>8. CallsType' /\ OthersUnchanged(w) /\ CallInv(w)'
  BY <1>4, <1>5
<1>9. QED
  BY <1>7, <1>8, LocalStep, CallsOnlyType

\* The preflight holds no conditions when it rejects what it read.
LEMMA PreflightInv ==
  ASSUME Inv, NEW w \in Workers, Preflight(w)
  PROVE  Inv'
<1> USE DEF Inv
<1>1. CallsType /\ CallInv(w)
  BY TypeOfCalls DEF JournalAgrees
<1>2. PICK stage, snap, because :
        /\ Continue(w, stage, snap, because)
        /\ snap \in Rests \cup {NoSnapshot} /\ because \in Reasons
        /\ stage \in {"claim", "record"} \/ (stage = "reject_same" /\ snap = NoSnapshot)
  <2>1. contract[cur[w]] = LEGACY \/ contract[cur[w]] = PRECISE
    BY <1>1 DEF Preflight, CallInv, TypeOK, CONTRACTS
  <2>2. Service.rest \in Rests
    BY DEF TypeOK, Service, Content
  <2>3. QED
    BY <2>1, <2>2 DEF Preflight, Reasons
<1>3. stage \in Stages
  BY <1>2 DEF Stages
<1>4. /\ CallsType' /\ OthersUnchanged(w) /\ pc'[w] = stage /\ held'[w] = snap
      /\ cur'[w] = cur[w] /\ reply'[w] = reply[w]
  BY <1>1, <1>2, <1>3, ContinueFacts
<1>5. CallInv(w)'
  BY <1>1, <1>2, <1>4 DEF CallInv, Preflight, journal
<1>7. StoreUnchanged /\ UNCHANGED <<policy, versions, rv>>
  BY DEF Preflight, StoreUnchanged, journal, api, history
<1>8. CallsType' /\ OthersUnchanged(w) /\ CallInv(w)'
  BY <1>4, <1>5
<1>9. QED
  BY <1>7, <1>8, LocalStep, CallsOnlyType

\* An unavailable Service ends the call, nothing else.
LEMMA PreflightUnavailableInv ==
  ASSUME Inv, NEW w \in Workers, PreflightUnavailable(w)
  PROVE  Inv'
<1> USE DEF Inv
<1>1. CallsType /\ CallInv(w)
  BY TypeOfCalls DEF JournalAgrees
<1>7. StoreUnchanged /\ UNCHANGED <<policy, versions, rv>>
  BY DEF PreflightUnavailable, StoreUnchanged, journal, api, history
<1>8. CallsType' /\ OthersUnchanged(w) /\ CallInv(w)'
  BY <1>1, ReturnFacts, RestingCall DEF PreflightUnavailable
<1>9. QED
  BY <1>7, <1>8, LocalStep, CallsOnlyType

\* Losing the claim ends the call, nothing else.
LEMMA ClaimLostInv ==
  ASSUME Inv, NEW w \in Workers, ClaimLost(w)
  PROVE  Inv'
<1> USE DEF Inv
<1>1. CallsType /\ CallInv(w)
  BY TypeOfCalls DEF JournalAgrees
<1>7. StoreUnchanged /\ UNCHANGED <<policy, versions, rv>>
  BY DEF ClaimLost, StoreUnchanged, journal, api, history
<1>8. CallsType' /\ OthersUnchanged(w) /\ CallInv(w)'
  BY <1>1, ReturnFacts, RestingCall DEF ClaimLost
<1>9. QED
  BY <1>7, <1>8, LocalStep, CallsOnlyType

\* A send that never reached the transport leaves the row untouched.
LEMMA SendRefusedInv ==
  ASSUME Inv, NEW w \in Workers, SendRefused(w)
  PROVE  Inv'
<1> USE DEF Inv
<1>1. CallsType /\ CallInv(w)
  BY TypeOfCalls DEF JournalAgrees
<1>2. PICK outcome \in {"not_sent", "unknown"} : Continue(w, "finish", held[w], outcome)
  BY DEF SendRefused
<1>3. "finish" \in Stages /\ outcome \in Reasons /\ held[w] \in Rests \cup {NoSnapshot}
  BY <1>1 DEF Stages, Reasons, CallsType
<1>4. /\ CallsType' /\ OthersUnchanged(w) /\ pc'[w] = "finish" /\ why'[w] = outcome
      /\ cur'[w] = cur[w] /\ reply'[w] = reply[w]
  BY <1>1, <1>2, <1>3, ContinueFacts
<1>5. CallInv(w)'
  BY <1>1, <1>4 DEF CallInv, SendRefused, Untouched, OnTheWire, journal, api, history
<1>7. StoreUnchanged /\ UNCHANGED <<policy, versions, rv>>
  BY DEF SendRefused, StoreUnchanged, journal, api, history
<1>8. CallsType' /\ OthersUnchanged(w) /\ CallInv(w)'
  BY <1>4, <1>5
<1>9. QED
  BY <1>7, <1>8, LocalStep, CallsOnlyType

\* A caller believes of its request what the API answered.
LEMMA ReceiveInv ==
  ASSUME Inv, NEW w \in Workers, Receive(w)
  PROVE  Inv'
<1> USE DEF Inv
<1>1. CallsType /\ CallInv(w)
  BY TypeOfCalls DEF JournalAgrees
<1>2. PICK outcome \in Reasons :
        /\ Continue(w, "finish", held[w], outcome)
        /\ \/ reply[w] = "ok" /\ outcome \in {"api_acknowledged", "unknown"}
           \/ reply[w] = "refused" /\ outcome = "api_rejected"
  BY DEF Receive, Reasons
<1>3. "finish" \in Stages /\ held[w] \in Rests \cup {NoSnapshot}
  BY <1>1 DEF Stages, CallsType
<1>4. /\ CallsType' /\ OthersUnchanged(w) /\ pc'[w] = "finish" /\ why'[w] = outcome
      /\ cur'[w] = cur[w]
  BY <1>1, <1>2, <1>3, ContinueFacts
<1>5. CallInv(w)'
  BY <1>1, <1>2, <1>4 DEF CallInv, Receive, OnTheWire, journal, api, history
<1>7. StoreUnchanged /\ UNCHANGED <<policy, versions, rv>>
  BY DEF Receive, StoreUnchanged, journal, api, history
<1>8. CallsType' /\ OthersUnchanged(w) /\ CallInv(w)'
  BY <1>4, <1>5
<1>9. QED
  BY <1>7, <1>8, LocalStep, CallsOnlyType

\* A caller that gives up believes nothing of its request.
LEMMA GiveUpInv ==
  ASSUME Inv, NEW w \in Workers, GiveUp(w)
  PROVE  Inv'
<1> USE DEF Inv
<1>1. CallsType /\ CallInv(w)
  BY TypeOfCalls DEF JournalAgrees
<1>2. "finish" \in Stages /\ "unknown" \in Reasons /\ held[w] \in Rests \cup {NoSnapshot}
  BY <1>1 DEF Stages, Reasons, CallsType
<1>3. /\ CallsType' /\ OthersUnchanged(w) /\ pc'[w] = "finish" /\ why'[w] = "unknown"
      /\ cur'[w] = cur[w]
  BY <1>1, <1>2, ContinueFacts DEF GiveUp
<1>4. CallInv(w)'
  BY <1>1, <1>3 DEF CallInv, GiveUp, journal
<1>7. StoreUnchanged /\ UNCHANGED <<policy, versions, rv>>
  BY DEF GiveUp, StoreUnchanged, journal, api, history
<1>8. CallsType' /\ OthersUnchanged(w) /\ CallInv(w)'
  BY <1>3, <1>4
<1>9. QED
  BY <1>7, <1>8, LocalStep, CallsOnlyType

\* A call that raises leaves them too.
LEMMA CallRaisesInv ==
  ASSUME Inv, NEW w \in Workers, CallRaises(w)
  PROVE  Inv'
<1> USE DEF Inv
<1>1. CallsType
  BY TypeOfCalls
<1>7. StoreUnchanged /\ UNCHANGED <<policy, versions, rv>>
  BY DEF CallRaises, StoreUnchanged, journal, api, history
<1>8. CallsType' /\ OthersUnchanged(w) /\ CallInv(w)'
  BY <1>1, ReturnFacts, RestingCall DEF CallRaises
<1>9. QED
  BY <1>7, <1>8, LocalStep, CallsOnlyType

\* A process that dies leaves the journal and the wire as they are.
LEMMA CrashInv ==
  ASSUME Inv, NEW w \in Workers, Crash(w)
  PROVE  Inv'
<1> USE DEF Inv
<1>1. CallsType /\ CallInv(w)
  BY TypeOfCalls DEF JournalAgrees
<1>2. CallsType' /\ OthersUnchanged(w) /\ pc'[w] = "crashed"
  BY <1>1 DEF Crash, CallsType, OthersUnchanged, Stages
<1>7. StoreUnchanged /\ UNCHANGED <<policy, versions, rv>>
  BY DEF Crash, StoreUnchanged, journal, api, history
<1>8. CallsType' /\ OthersUnchanged(w) /\ CallInv(w)'
  BY <1>2, RestingCall
<1>9. QED
  BY <1>7, <1>8, LocalStep, CallsOnlyType

-----------------------------------------------------------------------------
(* Steps outside the calls: the policy and the Service.                    *)

\* A change of policy touches nothing the invariant speaks of.
LEMMA ChangePolicyInv ==
  ASSUME Inv, NEW w \in Workers, NEW p \in Policies, ChangePolicy(w, p)
  PROVE  Inv'
<1>1. TypeOK'
  BY DEF Inv, TypeOK, ChangePolicy, journal, calls, api, history
<1>2. JournalAgrees'
  BY DEF Inv, JournalAgrees, RowInv, EffectInv, WireInv, CallInv, Untouched, OnTheWire,
     ChangePolicy, journal, calls, api, history
<1>3. QED
  BY <1>1, <1>2 DEF Inv

\* Nor does another writer's version of the Service.
LEMMA OtherWriterInv ==
  ASSUME Inv, NEW s \in Content, OtherWriter(s)
  PROVE  Inv'
<1>1. TypeOK'
  BY VersionsAssumption DEF Inv, TypeOK, OtherWriter, journal, calls, history
<1>2. JournalAgrees'
  BY DEF Inv, JournalAgrees, RowInv, EffectInv, WireInv, CallInv, Untouched, OnTheWire,
     OtherWriter, journal, calls, history
<1>3. QED
  BY <1>1, <1>2 DEF Inv

-----------------------------------------------------------------------------
(* Steps of a call that write the journal.                                 *)

\* A call that is not at `row` is not disturbed by a write to that row.
OtherRows(row) ==
  /\ status' = [status EXCEPT ![row] = status'[row]]
  /\ owner'  = [owner EXCEPT ![row] = owner'[row]]
  /\ UNCHANGED <<inflight, sends, applied>>

\* A call that has claimed nothing does not mind what happens to its row as
\* long as the row stays; one that has minds only its own row, which no other
\* call has claimed.
LEMMA OtherCalls ==
  ASSUME TypeOK, JournalAgrees, NEW w \in Workers, NEW x \in Workers, x # w,
         NEW row \in Ops, OtherRows(row), OthersUnchanged(w),
         status'[row] # "absent",
         status[row] \notin Unresolved \/ owner[row] = w
  PROVE  CallInv(x)'
<1>1. CallInv(x)
  BY DEF JournalAgrees
<1>2. /\ pc'[x] = pc[x] /\ cur'[x] = cur[x] /\ held'[x] = held[x]
      /\ why'[x] = why[x] /\ reply'[x] = reply[x]
  BY DEF OthersUnchanged, TypeOK
<1>3. ASSUME NEW o \in Ops
      PROVE  status[o] # "absent" => status'[o] # "absent"
  BY DEF OtherRows, TypeOK
<1>4. ASSUME pc[x] \in {"send", "await", "finish"}
      PROVE  cur[x] # row /\ owner'[cur[x]] = owner[cur[x]] /\ status'[cur[x]] = status[cur[x]]
  <2>1. cur[x] \in Ops /\ owner[cur[x]] = x /\ status[cur[x]] \in Unresolved
    BY <1>1, <1>4 DEF CallInv
  <2>2. QED
    BY <2>1 DEF OtherRows, TypeOK
<1>5. QED
  BY <1>1, <1>2, <1>3, <1>4 DEF CallInv, OtherRows, Untouched, OnTheWire

\* The first recorded conditions win; no row, request or call but w's moves.
LEMMA RecordConditionsInv ==
  ASSUME Inv, NEW w \in Workers, RecordConditions(w)
  PROVE  Inv'
<1> USE DEF Inv
<1>1. CallsType /\ CallInv(w) /\ cur[w] \in Ops /\ reply[w] = "none" /\ status[cur[w]] # "absent"
  BY TypeOfCalls DEF JournalAgrees, RecordConditions, CallInv
<1>2. \/ Return(w)
      \/ \E snap \in Rests \cup {NoSnapshot} : Continue(w, "claim", snap, "none")
  BY <1>1 DEF RecordConditions, CallsType, TypeOK
<1>3. UNCHANGED <<status, request, reserved, owner, contract, reason, policy, versions, rv,
                  inflight, sends, applied>>
  BY DEF RecordConditions, api, history
<1>4. snapshot' \in [Ops -> Rests \cup {NoSnapshot}]
  <2>1. snapshot \in [Ops -> Rests \cup {NoSnapshot}] /\ held[w] \in Rests \cup {NoSnapshot}
    BY <1>1 DEF TypeOK, CallsType
  <2>2. snapshot' = snapshot \/ snapshot' = [snapshot EXCEPT ![cur[w]] = held[w]]
    BY DEF RecordConditions
  <2>3. QED
    BY ONLY <1>1, <2>1, <2>2
<1>5. CallsType' /\ OthersUnchanged(w) /\ CallInv(w)'
  <2>1. CASE Return(w)
    BY <2>1, <1>1, ReturnFacts, RestingCall
  <2>2. CASE \E snap \in Rests \cup {NoSnapshot} : Continue(w, "claim", snap, "none")
    <3>1. "claim" \in Stages /\ "none" \in Reasons
      BY DEF Stages, Reasons
    <3>2. QED
      BY <2>2, <3>1, <1>1, <1>3, ContinueFacts, EarlyCall
  <2>3. QED
    BY <1>2, <2>1, <2>2
<1>6. TypeOK'
  BY <1>3, <1>4, <1>5 DEF TypeOK, CallsType
<1>7. ASSUME NEW x \in Workers, x # w PROVE CallInv(x)'
  BY <1>3, <1>5, <1>7 DEF JournalAgrees, CallInv, Untouched, OnTheWire, OthersUnchanged, TypeOK
<1>8. JournalAgrees'
  BY <1>3, <1>5, <1>7 DEF JournalAgrees, RowInv, EffectInv, WireInv, Untouched, OnTheWire
<1>9. QED
  BY <1>6, <1>8

\* Only an unsent row is rejected here, and it was untouched.
LEMMA RejectInv ==
  ASSUME Inv, NEW w \in Workers, Reject(w)
  PROVE  Inv'
<1> USE DEF Inv
<1>1. CallsType /\ CallInv(w) /\ cur[w] \in Ops
  BY TypeOfCalls DEF JournalAgrees, Reject, CallInv
<1>2. CallsType' /\ OthersUnchanged(w) /\ CallInv(w)'
  BY <1>1, ReturnFacts, RestingCall DEF Reject
<1>3. CASE UNCHANGED <<status, reason, reserved>>
  BY <1>2, <1>3, LocalStep, CallsOnlyType DEF Reject, StoreUnchanged, api, history
<1>4. CASE Unsent(cur[w]) /\ RejectRow(cur[w], why[w])
  <2>1. TypeOK'
    BY <1>1, <1>2, <1>4 DEF TypeOK, CallsType, Reject, RejectRow, Statuses, api, history
  <2>2. ASSUME NEW o \in Ops PROVE (RowInv(o) /\ EffectInv(o))'
    BY <1>1, <1>4 DEF JournalAgrees, RowInv, EffectInv, Untouched, OnTheWire, Unresolved,
       Reject, RejectRow, TypeOK, api, history
  <2>3. ASSUME NEW m \in inflight' PROVE WireInv(m)'
    BY <1>1, <1>4 DEF JournalAgrees, WireInv, Unresolved, Reject, RejectRow, TypeOK, Request, api, history
  <2>4. OtherRows(cur[w]) /\ status'[cur[w]] # "absent" /\ status[cur[w]] \notin Unresolved
    BY <1>1, <1>4 DEF OtherRows, Reject, RejectRow, TypeOK, Unresolved, api, history
  <2>5. ASSUME NEW x \in Workers PROVE CallInv(x)'
    BY <1>1, <1>2, <2>4, OtherCalls
  <2>6. QED
    BY <2>1, <2>2, <2>3, <2>5 DEF JournalAgrees
<1>5. QED
  BY <1>3, <1>4 DEF Reject

\* The claim takes an untouched row for its instance, or rejects it.
LEMMA ClaimInv ==
  ASSUME Inv, NEW w \in Workers, NEW authorized \in BOOLEAN, Claim(w, authorized)
  PROVE  Inv'
<1> USE DEF Inv
<1>1. /\ CallsType /\ CallInv(w) /\ cur[w] \in Ops /\ reply[w] = "none"
      /\ status[cur[w]] = "prepared" /\ Untouched(cur[w]) /\ cur[w] \in reserved
      /\ held[w] \in Rests \cup {NoSnapshot}
  BY TypeOfCalls DEF JournalAgrees, Claim, CallInv, RowInv, CallsType
<1>2. UNCHANGED <<request, contract, snapshot, policy, versions, rv, inflight, sends, applied>>
  BY DEF Claim, api, history
<1>3. owner' = [owner EXCEPT ![cur[w]] = w]
  BY DEF Claim
<1>4. OtherRows(cur[w]) /\ status[cur[w]] \notin Unresolved /\ status'[cur[w]] # "absent"
  BY <1>1, <1>2, <1>3 DEF OtherRows, Claim, RejectRow, TypeOK, Unresolved
<1>5. CASE /\ status' = [status EXCEPT ![cur[w]] = "dispatching"]
           /\ UNCHANGED <<reason, reserved>>
           /\ Continue(w, "send", held[w], "none")
  <2>1. "send" \in Stages /\ "none" \in Reasons
    BY DEF Stages, Reasons
  <2>2. /\ CallsType' /\ OthersUnchanged(w) /\ pc'[w] = "send" /\ cur'[w] = cur[w]
        /\ reply'[w] = "none"
    BY <1>1, <1>5, <2>1, ContinueFacts
  <2>3. CallInv(w)'
    BY <1>1, <1>2, <1>3, <1>5, <2>2 DEF CallInv, Untouched, OnTheWire, Unresolved, TypeOK
  <2>4. TypeOK'
    BY <1>1, <1>2, <1>3, <1>5, <2>2 DEF TypeOK, CallsType, Statuses, Unresolved
  <2>5. ASSUME NEW o \in Ops PROVE (RowInv(o) /\ EffectInv(o))'
    BY <1>1, <1>2, <1>5 DEF JournalAgrees, RowInv, EffectInv, Untouched, OnTheWire, Unresolved, TypeOK
  <2>6. ASSUME NEW m \in inflight' PROVE WireInv(m)'
    BY <1>1, <1>2, <1>3, <1>5 DEF JournalAgrees, WireInv, Unresolved, TypeOK, Request, Untouched, OnTheWire
  <2>7. ASSUME NEW x \in Workers PROVE CallInv(x)'
    BY <1>1, <1>4, <2>2, <2>3, OtherCalls
  <2>8. QED
    BY <2>4, <2>5, <2>6, <2>7 DEF JournalAgrees
<1>6. CASE \E because \in Reasons : RejectRow(cur[w], because) /\ Return(w)
  <2>1. PICK because \in Reasons : RejectRow(cur[w], because) /\ Return(w)
    BY <1>6
  <2>2. CallsType' /\ OthersUnchanged(w) /\ CallInv(w)'
    BY <1>1, <2>1, ReturnFacts, RestingCall
  <2>4. TypeOK'
    BY <1>1, <1>2, <1>3, <2>1, <2>2 DEF TypeOK, CallsType, Statuses, RejectRow
  <2>5. ASSUME NEW o \in Ops PROVE (RowInv(o) /\ EffectInv(o))'
    BY <1>1, <1>2, <2>1 DEF JournalAgrees, RowInv, EffectInv, Untouched, OnTheWire, Unresolved,
       TypeOK, RejectRow
  <2>6. ASSUME NEW m \in inflight' PROVE WireInv(m)'
    BY <1>1, <1>2, <1>3, <2>1 DEF JournalAgrees, WireInv, Unresolved, TypeOK, Request, Untouched,
       OnTheWire, RejectRow
  <2>7. ASSUME NEW x \in Workers PROVE CallInv(x)'
    BY <1>1, <1>4, <2>2, OtherCalls
  <2>8. QED
    BY <2>4, <2>5, <2>6, <2>7 DEF JournalAgrees
<1>7. QED
  BY <1>5, <1>6 DEF Claim, ClaimReason, StandingReason, Reasons

\* What is recorded of a dispatch is what its caller knows: acknowledged only
\* if it was applied, rejected only if it was not and no longer can be.
LEMMA FinishInv ==
  ASSUME Inv, NEW w \in Workers, Finish(w)
  PROVE  Inv'
<1> USE DEF Inv
<1>1. /\ CallsType /\ CallInv(w) /\ cur[w] \in Ops
      /\ status[cur[w]] \in Unresolved /\ owner[cur[w]] = w
      /\ why[w] \in {"not_sent", "api_rejected", "api_acknowledged", "unknown"}
  BY TypeOfCalls DEF JournalAgrees, Finish, CallInv
<1>2. CallsType' /\ OthersUnchanged(w) /\ CallInv(w)'
  BY <1>1, ReturnFacts, RestingCall DEF Finish
<1>3. /\ status' = [status EXCEPT ![cur[w]] = StatusFor(why[w])]
      /\ reason' = [reason EXCEPT ![cur[w]] = why[w]]
      /\ UNCHANGED <<request, reserved, owner, contract, snapshot, policy, versions, rv,
                     inflight, sends, applied>>
  BY <1>1 DEF Finish, api, history
<1>4. /\ StatusFor(why[w]) \in {"acknowledged", "rejected", "uncertain"}
      /\ StatusFor(why[w]) = "acknowledged" => applied[cur[w]] = 1
      /\ StatusFor(why[w]) = "rejected" => applied[cur[w]] = 0 /\ ~OnTheWire(cur[w])
  BY <1>1 DEF StatusFor, CallInv, Finish
<1>5. TypeOK'
  BY <1>1, <1>2, <1>3, <1>4 DEF TypeOK, CallsType, Statuses, Unresolved, Reasons
<1>6. ASSUME NEW o \in Ops PROVE (RowInv(o) /\ EffectInv(o))'
  BY <1>1, <1>3, <1>4 DEF JournalAgrees, RowInv, EffectInv, Untouched, OnTheWire, Unresolved, TypeOK
<1>7. ASSUME NEW m \in inflight' PROVE WireInv(m)'
  <2>1. WireInv(m) /\ m.op \in Ops
    BY <1>3 DEF JournalAgrees, TypeOK, Request
  <2>2. status'[m.op] \in Unresolved
    BY <1>1, <1>3, <1>4, <2>1 DEF WireInv, OnTheWire, Unresolved, TypeOK
  <2>3. QED
    BY <1>3, <2>1, <2>2 DEF WireInv
<1>8. OtherRows(cur[w]) /\ status'[cur[w]] # "absent"
  BY <1>1, <1>3, <1>4 DEF OtherRows, TypeOK
<1>9. ASSUME NEW x \in Workers PROVE CallInv(x)'
  BY <1>1, <1>2, <1>8, OtherCalls
<1>10. QED
  BY <1>5, <1>6, <1>7, <1>9 DEF JournalAgrees

\* An unfinished dispatch becomes uncertain, which claims nothing.
LEMMA ReconcileInv ==
  ASSUME Inv, NEW w \in Workers, NEW o \in Ops, Reconcile(w, o)
  PROVE  Inv'
<1> USE DEF Inv
<1>1. /\ status[o] = "dispatching"
      /\ status' = [status EXCEPT ![o] = "uncertain"]
      /\ reason' = [reason EXCEPT ![o] = "unknown"]
      /\ UNCHANGED <<request, reserved, owner, contract, snapshot, policy, pc, cur, held, why,
                     reply, versions, rv, inflight, sends, applied>>
  BY DEF Reconcile, calls, api, history
<1>2. TypeOK'
  BY <1>1 DEF TypeOK, Statuses, Unresolved, Reasons
<1>3. ASSUME NEW p \in Ops PROVE (RowInv(p) /\ EffectInv(p))'
  BY <1>1 DEF JournalAgrees, RowInv, EffectInv, Untouched, OnTheWire, Unresolved, TypeOK
<1>4. ASSUME NEW m \in inflight' PROVE WireInv(m)'
  BY <1>1 DEF JournalAgrees, WireInv, Unresolved, TypeOK, Request
<1>5. ASSUME NEW x \in Workers PROVE CallInv(x)'
  BY <1>1 DEF JournalAgrees, CallInv, Untouched, OnTheWire, Unresolved, TypeOK
<1>6. QED
  BY <1>2, <1>3, <1>4, <1>5 DEF JournalAgrees

-----------------------------------------------------------------------------
(* Steps that touch the wire.                                              *)

\* The first and only request of a row that its sender has claimed.
LEMMA SendInv ==
  ASSUME Inv, NEW w \in Workers, Send(w)
  PROVE  Inv'
<1> USE DEF Inv
<1> DEFINE n == [op |-> cur[w], from |-> w, held |-> held[w]]
<1>1. /\ CallsType /\ CallInv(w) /\ cur[w] \in Ops /\ Untouched(cur[w])
      /\ owner[cur[w]] = w /\ status[cur[w]] \in Unresolved /\ reply[w] = "none"
      /\ held[w] \in Rests \cup {NoSnapshot}
  BY TypeOfCalls DEF JournalAgrees, Send, CallInv, CallsType
<1>2. "await" \in Stages /\ "none" \in Reasons
  BY DEF Stages, Reasons
<1>3. /\ CallsType' /\ OthersUnchanged(w) /\ pc'[w] = "await" /\ cur'[w] = cur[w]
      /\ reply'[w] = "none"
  BY <1>1, <1>2, ContinueFacts DEF Send
<1>4. /\ inflight' = inflight \cup {n}
      /\ sends' = [sends EXCEPT ![cur[w]] = @ + 1]
      /\ UNCHANGED <<status, request, reserved, owner, contract, snapshot, reason, policy,
                     versions, rv, applied>>
  BY DEF Send, journal
<1>5. n \in Request /\ n.op = cur[w]
  BY <1>1 DEF Request
<1>6. TypeOK'
  BY <1>1, <1>3, <1>4, <1>5 DEF TypeOK, CallsType
<1>7. sends[cur[w]] = 0 /\ sends'[cur[w]] = 1 /\ applied[cur[w]] = 0 /\ ~OnTheWire(cur[w])
  BY <1>1, <1>4 DEF Untouched, TypeOK
<1>8. ASSUME NEW o \in Ops, o # cur[w]
      PROVE  OnTheWire(o)' = OnTheWire(o) /\ sends'[o] = sends[o]
  BY <1>4, <1>5, <1>8 DEF OnTheWire, TypeOK
<1>9. ASSUME NEW o \in Ops PROVE (RowInv(o) /\ EffectInv(o))'
  <2>1. CASE o = cur[w]
    BY <1>1, <1>4, <1>7, <2>1 DEF JournalAgrees, RowInv, EffectInv, Unresolved
  <2>2. CASE o # cur[w]
    BY <1>4, <1>8, <2>2 DEF JournalAgrees, RowInv, EffectInv, Untouched
  <2>3. QED
    BY <2>1, <2>2
<1>10. ASSUME NEW m \in inflight' PROVE WireInv(m)'
  <2>1. CASE m = n
    BY <1>1, <1>4, <1>5, <1>7, <2>1 DEF WireInv, OnTheWire
  <2>2. CASE m \in inflight
    <3>1. WireInv(m) /\ m.op # cur[w] /\ m.op \in Ops
      BY <1>7, <2>2 DEF JournalAgrees, OnTheWire, TypeOK, Request
    <3>2. QED
      BY <1>4, <1>5, <3>1 DEF WireInv, TypeOK
  <2>3. QED
    BY <1>4, <2>1, <2>2
<1>11. ASSUME NEW x \in Workers PROVE CallInv(x)'
  <2>1. CASE x = w
    BY <1>1, <1>3, <1>4, <2>1 DEF CallInv, Unresolved
  <2>2. CASE x # w
    <3>1. CallInv(x) /\ pc'[x] = pc[x] /\ cur'[x] = cur[x] /\ held'[x] = held[x]
          /\ why'[x] = why[x] /\ reply'[x] = reply[x]
      BY <1>3, <2>2 DEF JournalAgrees, OthersUnchanged, TypeOK
    <3>2. ASSUME pc[x] \in {"send", "await", "finish"} PROVE cur[x] \in Ops /\ cur[x] # cur[w]
      BY <1>1, <2>2, <3>1, <3>2 DEF CallInv
    <3>3. QED
      BY <1>4, <1>8, <3>1, <3>2 DEF CallInv, Untouched
  <2>3. QED
    BY <2>1, <2>2
<1>12. QED
  BY <1>6, <1>9, <1>10, <1>11 DEF JournalAgrees

\* Who may still wait for, or record, a request that is on the wire: the
\* instance that sent it, which has no answer to it yet.
LEMMA WaitingFor ==
  ASSUME Inv, NEW m \in inflight, NEW x \in Workers, CallInv(x),
         cur[x] = m.op, pc[x] \in {"send", "await", "finish"}
  PROVE  /\ x = m.from
         /\ pc[x] = "await" \/ (pc[x] = "finish" /\ why[x] = "unknown")
<1>1. WireInv(m) /\ OnTheWire(m.op)
  BY DEF Inv, JournalAgrees, OnTheWire
<1>2. QED
  BY <1>1 DEF WireInv, CallInv, Untouched

\* Only replies move among the calls when the API takes a request.
LEMMA AnswerType ==
  ASSUME CallsType, NEW m \in Request, NEW text \in {"ok", "refused"}, Answer(m, text)
  PROVE  /\ reply' \in [Workers -> {"none", "ok", "refused"}]
         /\ \A x \in Workers :
              \/ reply'[x] = reply[x]
              \/ x = m.from /\ pc[x] = "await" /\ cur[x] = m.op /\ reply'[x] = text
         /\ pc[m.from] = "await" /\ cur[m.from] = m.op => reply'[m.from] = text
BY DEF CallsType, Answer, Request

\* What the patch makes of a Service is a Service.
LEMMA RepairedContent ==
  ASSUME NEW p \in Proposal, NEW s \in Content
  PROVE  Repaired(p, s) \in Content
BY DEF Repaired, Proposal, Content

\* The API applies the one request of an open row.
LEMMA ApiApplyInv ==
  ASSUME Inv, NEW m \in inflight, ApiApply(m)
  PROVE  Inv'
<1> USE DEF Inv
<1>1. /\ CallsType /\ m \in Request /\ m.op \in Ops /\ m.from \in Workers
      /\ WireInv(m) /\ OnTheWire(m.op) /\ RowInv(m.op)
  BY TypeOfCalls DEF JournalAgrees, TypeOK, Request, OnTheWire
<1>2. /\ inflight' = inflight \ {m}
      /\ applied' = [applied EXCEPT ![m.op] = @ + 1]
      /\ rv' = rv + 1 /\ rv < MaxVersion
      /\ versions' = [versions EXCEPT ![rv + 1] = Repaired(request[m.op], Service)]
      /\ Answer(m, "ok")
      /\ UNCHANGED <<status, request, reserved, owner, contract, snapshot, reason, policy,
                     pc, cur, held, why, sends>>
  BY DEF ApiApply, journal
<1>3. request[m.op] \in Proposal
  BY <1>1, ProposalsAssumption DEF WireInv, RowInv, Unresolved
<1>4. Repaired(request[m.op], Service) \in Content
  <2>1. Service \in Content
    BY DEF Service, TypeOK
  <2>2. QED
    BY <1>3, <2>1, RepairedContent
<1>5. /\ reply' \in [Workers -> {"none", "ok", "refused"}]
      /\ \A x \in Workers :
           \/ reply'[x] = reply[x]
           \/ x = m.from /\ pc[x] = "await" /\ cur[x] = m.op /\ reply'[x] = "ok"
      /\ pc[m.from] = "await" /\ cur[m.from] = m.op => reply'[m.from] = "ok"
  BY <1>1, <1>2, AnswerType
<1>6. TypeOK'
  <2>1. applied' \in [Ops -> Nat]
    BY <1>1, <1>2 DEF TypeOK
  <2>2. rv' \in 1..MaxVersion /\ versions' \in [1..MaxVersion -> Content]
    BY <1>2, <1>4, VersionsAssumption DEF TypeOK
  <2>3. QED
    BY <1>2, <1>5, <2>1, <2>2 DEF TypeOK
<1>7. /\ applied[m.op] = 0 /\ applied'[m.op] = 1 /\ sends[m.op] = 1
      /\ status[m.op] \in Unresolved /\ ~OnTheWire(m.op)'
  BY <1>1, <1>2 DEF WireInv, TypeOK, OnTheWire
<1>8. ASSUME NEW o \in Ops, o # m.op
      PROVE  (OnTheWire(o)' => OnTheWire(o)) /\ applied'[o] = applied[o]
  BY <1>1, <1>2, <1>8 DEF OnTheWire, TypeOK
<1>9. ASSUME NEW o \in Ops PROVE (RowInv(o) /\ EffectInv(o))'
  <2>1. CASE o = m.op
    BY <1>1, <1>2, <1>7, <2>1 DEF JournalAgrees, RowInv, EffectInv, Unresolved
  <2>2. CASE o # m.op
    BY <1>2, <1>8, <2>2 DEF JournalAgrees, RowInv, EffectInv, Untouched
  <2>3. QED
    BY <2>1, <2>2
<1>10. ASSUME NEW n \in inflight' PROVE WireInv(n)'
  <2>1. n \in inflight /\ n # m /\ WireInv(n) /\ n.op \in Ops
    BY <1>2 DEF JournalAgrees, TypeOK, Request
  <2>2. n.op # m.op
    BY <1>1, <2>1 DEF WireInv
  <2>3. QED
    BY <1>2, <1>8, <2>1, <2>2 DEF WireInv
<1>11. ASSUME NEW x \in Workers PROVE CallInv(x)'
  <2>1. CallInv(x)
    BY DEF JournalAgrees
  <2>2. CASE pc[x] \in {"send", "await", "finish"} /\ cur[x] = m.op
    <3>1. x = m.from /\ (pc[x] = "await" \/ (pc[x] = "finish" /\ why[x] = "unknown"))
      BY <2>1, <2>2, WaitingFor
    <3>2. QED
      BY <1>2, <1>5, <1>7, <2>1, <2>2, <3>1 DEF CallInv
  <2>3. CASE pc[x] \in {"send", "await", "finish"} /\ cur[x] # m.op
    <3>1. cur[x] \in Ops /\ reply'[x] = reply[x]
      BY <1>5, <2>1, <2>3 DEF CallInv
    <3>2. QED
      BY <1>2, <1>8, <2>1, <2>3, <3>1 DEF CallInv, Untouched
  <2>4. CASE pc[x] \notin {"send", "await", "finish"}
    BY <1>2, <1>5, <2>1, <2>4 DEF CallInv
  <2>5. QED
    BY <2>2, <2>3, <2>4
<1>12. QED
  BY <1>6, <1>9, <1>10, <1>11 DEF JournalAgrees

\* The API drops the one request of an open row.
LEMMA ApiRefuseInv ==
  ASSUME Inv, NEW m \in inflight, ApiRefuse(m)
  PROVE  Inv'
<1> USE DEF Inv
<1>1. /\ CallsType /\ m \in Request /\ m.op \in Ops /\ m.from \in Workers
      /\ WireInv(m) /\ OnTheWire(m.op)
  BY TypeOfCalls DEF JournalAgrees, TypeOK, Request, OnTheWire
<1>2. /\ inflight' = inflight \ {m}
      /\ Answer(m, "refused")
      /\ UNCHANGED <<status, request, reserved, owner, contract, snapshot, reason, policy,
                     pc, cur, held, why, versions, rv, sends, applied>>
  BY DEF ApiRefuse, journal, history
<1>3. /\ reply' \in [Workers -> {"none", "ok", "refused"}]
      /\ \A x \in Workers :
           \/ reply'[x] = reply[x]
           \/ x = m.from /\ pc[x] = "await" /\ cur[x] = m.op /\ reply'[x] = "refused"
      /\ pc[m.from] = "await" /\ cur[m.from] = m.op => reply'[m.from] = "refused"
  BY <1>1, <1>2, AnswerType
<1>4. TypeOK'
  BY <1>2, <1>3 DEF TypeOK
<1>5. applied[m.op] = 0 /\ ~OnTheWire(m.op)'
  BY <1>1, <1>2 DEF WireInv, OnTheWire
<1>6. ASSUME NEW o \in Ops PROVE OnTheWire(o)' => OnTheWire(o)
  BY <1>2 DEF OnTheWire
<1>7. ASSUME NEW o \in Ops PROVE (RowInv(o) /\ EffectInv(o))'
  BY <1>2, <1>6 DEF JournalAgrees, RowInv, EffectInv, Untouched
<1>8. ASSUME NEW n \in inflight' PROVE WireInv(n)'
  BY <1>2 DEF JournalAgrees, WireInv
<1>9. ASSUME NEW x \in Workers PROVE CallInv(x)'
  <2>1. CallInv(x)
    BY DEF JournalAgrees
  <2>2. CASE pc[x] \in {"send", "await", "finish"} /\ cur[x] = m.op
    <3>1. x = m.from /\ (pc[x] = "await" \/ (pc[x] = "finish" /\ why[x] = "unknown"))
      BY <2>1, <2>2, WaitingFor
    <3>2. QED
      BY <1>2, <1>3, <1>5, <2>1, <2>2, <3>1 DEF CallInv
  <2>3. CASE pc[x] \in {"send", "await", "finish"} /\ cur[x] # m.op
    <3>1. cur[x] \in Ops /\ reply'[x] = reply[x]
      BY <1>3, <2>1, <2>3 DEF CallInv
    <3>2. QED
      BY <1>2, <1>6, <2>1, <2>3, <3>1 DEF CallInv, Untouched
  <2>4. CASE pc[x] \notin {"send", "await", "finish"}
    BY <1>2, <1>3, <2>1, <2>4 DEF CallInv
  <2>5. QED
    BY <2>2, <2>3, <2>4
<1>10. QED
  BY <1>4, <1>7, <1>8, <1>9 DEF JournalAgrees

-----------------------------------------------------------------------------
(* The specification.                                                      *)

\* Every step of the system preserves the invariant.
LEMMA NextInv == Inv /\ [Next]_vars => Inv'
<1> SUFFICES ASSUME Inv, [Next]_vars PROVE Inv'
  OBVIOUS
<1>1. CASE Api
  BY <1>1, ApiApplyInv, ApiRefuseInv, OtherWriterInv DEF Api
<1>2. ASSUME NEW w \in Workers, Begin(w) PROVE Inv'
  BY <1>2, ProposeInv, ResumeInv, ReconcileInv DEF Begin
<1>3. ASSUME NEW w \in Workers, Step(w) PROVE Inv'
  BY <1>3, LookupInv, ReadBindingInv, PreflightInv, PreflightUnavailableInv,
     RecordConditionsInv, RejectInv, ClaimInv, ClaimLostInv, SendInv, SendRefusedInv,
     ReceiveInv, GiveUpInv, FinishInv DEF Step
<1>4. ASSUME NEW w \in Workers, Controller(w) PROVE Inv'
  BY <1>4, CrashInv, CallRaisesInv, ChangePolicyInv DEF Controller
<1>5. CASE UNCHANGED vars
  <2>1. TypeOK'
    BY <1>5 DEF Inv, TypeOK, vars, journal, calls, api, history
  <2>2. JournalAgrees'
    BY <1>5 DEF Inv, JournalAgrees, RowInv, EffectInv, WireInv, CallInv, Untouched, OnTheWire,
       vars, journal, calls, api, history
  <2>3. QED
    BY <2>1, <2>2 DEF Inv
<1>6. QED
  BY <1>1, <1>2, <1>3, <1>4, <1>5 DEF Next

\* The journal, the calls in progress, the wire and the history agree in
\* every reachable state, for any operations, instances and policies.
THEOREM BrokerInv == Spec => []Inv
<1>1. QED
  BY InitInv, NextInv, PTL DEF Spec

\* Every variable keeps its type (Broker's TypeOK).
THEOREM BrokerTypes == Spec => []TypeOK
<1>1. Inv => TypeOK
  BY DEF Inv
<1>2. QED
  BY <1>1, BrokerInv, PTL

\* Broker's JournalAgrees, the inductive part itself.
THEOREM JournalAlwaysAgrees == Spec => []JournalAgrees
<1>1. Inv => JournalAgrees
  BY DEF Inv
<1>2. QED
  BY <1>1, BrokerInv, PTL

\* No operation is transmitted, or changes the Service, twice (AtMostOnce).
THEOREM TransmittedAtMostOnce == Spec => []AtMostOnce
<1>1. ASSUME Inv, NEW o \in Ops PROVE sends[o] <= 1 /\ applied[o] <= 1
  <2>1. EffectInv(o) /\ sends[o] \in Nat /\ applied[o] \in Nat
    BY <1>1 DEF Inv, JournalAgrees, TypeOK
  <2>2. QED
    BY <2>1 DEF EffectInv
<1>2. Inv => AtMostOnce
  BY <1>1 DEF AtMostOnce
<1>3. QED
  BY <1>2, BrokerInv, PTL

\* A rejected operation changed nothing and never will (RejectedNeverLands).
THEOREM RejectionIsDefinite == Spec => []RejectedNeverLands
<1>1. Inv => RejectedNeverLands
  BY DEF Inv, JournalAgrees, EffectInv, RejectedNeverLands
<1>2. QED
  BY <1>1, BrokerInv, PTL

\* An acknowledged operation did change the Service (AcknowledgedLanded).
THEOREM AcknowledgementIsDefinite == Spec => []AcknowledgedLanded
<1>1. Inv => AcknowledgedLanded
  BY DEF Inv, JournalAgrees, EffectInv, AcknowledgedLanded
<1>2. QED
  BY <1>1, BrokerInv, PTL

\* Every effect, had or still possible, is accounted for (EffectsAccounted).
THEOREM NoEffectEscapes == Spec => []EffectsAccounted
<1>1. ASSUME Inv PROVE EffectsAccounted
  <2>1. SUFFICES ASSUME NEW o \in Ops, applied[o] > 0 \/ OnTheWire(o)
                 PROVE  status[o] \in Unresolved \cup {"acknowledged"} /\ o \in reserved
    BY DEF EffectsAccounted
  <2>2. RowInv(o) /\ EffectInv(o) /\ status[o] \in Statuses /\ applied[o] \in Nat
    BY <1>1 DEF Inv, JournalAgrees, TypeOK
  <2>3. ~Untouched(o) /\ status[o] # "rejected"
    BY <2>1, <2>2 DEF Untouched, EffectInv
  <2>4. QED
    BY <2>2, <2>3 DEF RowInv, Statuses
<1>2. QED
  BY <1>1, BrokerInv, PTL

-----------------------------------------------------------------------------
(* What a step does to the rows.                                           *)

\* The only ways the journal writes a row's status, and its dispatch slot.
RowStep(o) ==
  \E new \in Statuses :
    /\ status' = [status EXCEPT ![o] = new]
    /\ \/ status[o] = "absent" /\ new = "prepared" /\ reserved' = reserved \cup {o}
       \/ status[o] = "absent" /\ new = "rejected" /\ reserved' = reserved
       \/ status[o] = "prepared" /\ new = "dispatching" /\ reserved' = reserved
       \/ status[o] = "prepared" /\ new = "rejected" /\ reserved' = reserved \ {o}
       \/ status[o] \in Unresolved /\ new = "uncertain" /\ reserved' = reserved
       \/ status[o] \in Unresolved /\ new = "acknowledged" /\ reserved' = reserved /\ applied[o] = 1
       \/ status[o] \in Unresolved /\ new = "rejected" /\ reserved' = reserved /\ applied[o] = 0

\* The API lands the repair of an open row for the first time.
LandStep(o) ==
  /\ status[o] \in Unresolved
  /\ applied[o] = 0
  /\ applied' = [applied EXCEPT ![o] = 1]

\* A step of a call, or the start of one, writes at most one row.
LEMMA CallRows ==
  ASSUME Inv, NEW w \in Workers, Begin(w) \/ Step(w)
  PROVE  /\ UNCHANGED applied
         /\ UNCHANGED <<status, reserved>> \/ \E o \in Ops : RowStep(o)
<1> USE DEF Inv
<1>1. CallInv(w) /\ TypeOK
  BY DEF JournalAgrees
<1>2. ASSUME NEW o \in Ops, NEW because \in Reasons, status[o] = "prepared", RejectRow(o, because)
      PROVE  RowStep(o)
  BY <1>2 DEF RejectRow, RowStep, Statuses
<1>3. ASSUME NEW p \in Proposals, Propose(w, p)
      PROVE  UNCHANGED applied /\ \E o \in Ops : RowStep(o)
  <2>1. p.op \in Ops
    BY ProposalsAssumption DEF Proposal
  <2>2. RowStep(p.op)
    BY <1>3, <2>1 DEF Propose, RowStep, Statuses
  <2>3. QED
    BY <1>3, <2>1, <2>2 DEF Propose, history
<1>4. ASSUME NEW o \in Ops, Resume(w, o) \/ Reconcile(w, o)
      PROVE  UNCHANGED applied /\ (UNCHANGED <<status, reserved>> \/ RowStep(o))
  BY <1>4 DEF Resume, Reconcile, RowStep, Statuses, Unresolved, journal, history
<1>5. ASSUME Reject(w)
      PROVE  UNCHANGED applied /\ (UNCHANGED <<status, reserved>> \/ RowStep(cur[w])) /\ cur[w] \in Ops
  BY <1>1, <1>2, <1>5 DEF Reject, CallInv, TypeOK, history
<1>6. ASSUME NEW authorized \in BOOLEAN, Claim(w, authorized)
      PROVE  UNCHANGED applied /\ RowStep(cur[w]) /\ cur[w] \in Ops
  <2>1. cur[w] \in Ops /\ UNCHANGED applied /\ status[cur[w]] = "prepared"
    BY <1>1, <1>6 DEF Claim, CallInv, history
  <2>2. \/ status' = [status EXCEPT ![cur[w]] = "dispatching"] /\ UNCHANGED reserved
        \/ \E because \in Reasons : RejectRow(cur[w], because)
    BY <1>6 DEF Claim, ClaimReason, StandingReason, Reasons
  <2>3. QED
    BY <1>2, <2>1, <2>2 DEF RowStep, Statuses, Unresolved
<1>7. ASSUME Finish(w)
      PROVE  UNCHANGED applied /\ (UNCHANGED <<status, reserved>> \/ RowStep(cur[w])) /\ cur[w] \in Ops
  <2>1. cur[w] \in Ops /\ UNCHANGED <<applied, reserved>>
    BY <1>1, <1>7 DEF Finish, CallInv, history
  <2>2. /\ StatusFor(why[w]) \in {"acknowledged", "rejected", "uncertain"}
        /\ StatusFor(why[w]) = "acknowledged" => applied[cur[w]] = 1
        /\ StatusFor(why[w]) = "rejected" => applied[cur[w]] = 0
    BY <1>1, <1>7 DEF StatusFor, CallInv, Finish
  <2>3. \/ UNCHANGED status
        \/ /\ status[cur[w]] \in Unresolved
           /\ status' = [status EXCEPT ![cur[w]] = StatusFor(why[w])]
    BY <1>7 DEF Finish
  <2>4. QED
    BY <2>1, <2>2, <2>3 DEF RowStep, Statuses, Unresolved
<1>8. ASSUME \/ Lookup(w) \/ ReadBinding(w) \/ Preflight(w) \/ PreflightUnavailable(w)
             \/ RecordConditions(w) \/ ClaimLost(w) \/ Send(w) \/ SendRefused(w)
             \/ Receive(w) \/ GiveUp(w)
      PROVE  UNCHANGED <<applied, status, reserved>>
  BY <1>8 DEF Lookup, ReadBinding, Preflight, PreflightUnavailable, RecordConditions, ClaimLost,
     Send, SendRefused, Receive, GiveUp, journal, history
<1>9. CASE Begin(w)
  BY <1>3, <1>4, <1>9 DEF Begin
<1>10. CASE Step(w)
  BY <1>5, <1>6, <1>7, <1>8, <1>10 DEF Step
<1>11. QED
  BY <1>9, <1>10

\* Every step writes at most one row or lands at most one repair.
LEMMA NextRows ==
  ASSUME Inv, [Next]_vars
  PROVE  \/ UNCHANGED <<status, reserved, applied>>
         \/ UNCHANGED applied /\ \E o \in Ops : RowStep(o)
         \/ UNCHANGED <<status, reserved>> /\ \E o \in Ops : LandStep(o)
<1>1. CASE UNCHANGED vars
  BY <1>1 DEF vars, journal, history
<1>2. ASSUME NEW w \in Workers, Controller(w) PROVE UNCHANGED <<status, reserved, applied>>
  BY <1>2 DEF Controller, Crash, CallRaises, ChangePolicy, journal, history
<1>3. ASSUME NEW m \in inflight, ApiApply(m)
      PROVE  UNCHANGED <<status, reserved>> /\ m.op \in Ops /\ LandStep(m.op)
  <2>1. m.op \in Ops /\ WireInv(m) /\ TypeOK
    BY DEF Inv, JournalAgrees, TypeOK, Request
  <2>2. QED
    BY <1>3, <2>1 DEF ApiApply, WireInv, LandStep, TypeOK, journal
<1>4. ASSUME NEW m \in inflight, ApiRefuse(m) PROVE UNCHANGED <<status, reserved, applied>>
  BY <1>4 DEF ApiRefuse, journal, history
<1>5. ASSUME NEW s \in Content, OtherWriter(s) PROVE UNCHANGED <<status, reserved, applied>>
  BY <1>5 DEF OtherWriter, journal, history
<1>6. CASE Api
  BY <1>3, <1>4, <1>5, <1>6 DEF Api
<1>7. QED
  BY <1>1, <1>2, <1>6, CallRows DEF Next

\* Final rows stay final, and a dispatched one never becomes intent again or
\* gives its slot back (JournalMovesForward).
THEOREM JournalIsMonotone == Spec => JournalMovesForward
<1> DEFINE Forward ==
      \A o \in Ops :
        /\ status[o] \in {"rejected", "acknowledged"} => status'[o] = status[o]
        /\ status[o] \in Unresolved =>
             status'[o] \notin {"absent", "prepared"} /\ (o \in reserved => o \in reserved')
<1>1. ASSUME Inv, [Next]_vars PROVE Forward
  <2>1. CASE UNCHANGED <<status, reserved>>
    BY <2>1 DEF Unresolved
  <2>2. ASSUME NEW p \in Ops, RowStep(p) PROVE Forward
    BY <1>1, <2>2 DEF RowStep, Statuses, Unresolved, Inv, TypeOK
  <2>3. QED
    BY <1>1, <2>1, <2>2, NextRows
<1>2. Inv /\ [Next]_vars => [Forward]_vars
  BY <1>1
<1>3. QED
  BY <1>2, BrokerInv, PTL DEF Spec, JournalMovesForward

-----------------------------------------------------------------------------
(* The refinement of RepairPromise.                                        *)

\* The promised stage of a row, one case at a time.
LEMMA StageForValues ==
  ASSUME NEW slot \in BOOLEAN
  PROVE  /\ StageFor("absent", slot) = "unknown"
         /\ StageFor("prepared", slot) = "intended"
         /\ \A row \in Unresolved : StageFor(row, slot) = "committed"
         /\ StageFor("acknowledged", slot) = "confirmed"
         /\ StageFor("rejected", slot) = IF slot THEN "denied" ELSE "refused"
<1>1. /\ StageFor("absent", slot) = "unknown" /\ StageFor("prepared", slot) = "intended"
      /\ StageFor("acknowledged", slot) = "confirmed"
  BY DEF StageFor, Unresolved
<1>2. StageFor("dispatching", slot) = "committed" /\ StageFor("uncertain", slot) = "committed"
  BY DEF StageFor, Unresolved
<1>3. StageFor("rejected", slot) = IF slot THEN "denied" ELSE "refused"
  BY DEF StageFor, Unresolved
<1>4. QED
  BY <1>1, <1>2, <1>3 DEF Unresolved

\* The broker's stages and effects, seen as the promise's variables.
Seen == [o \in Ops |-> PromisedStage(o)]

\* A row's step moves its own stage and no other.
LEMMA RowMovesStage ==
  ASSUME Inv, NEW o \in Ops, RowStep(o)
  PROVE  \E new \in Statuses :
           /\ status'[o] = new
           /\ Seen' = [Seen EXCEPT ![o] = StageFor(new, o \in reserved')]
           /\ Seen[o] = StageFor(status[o], o \in reserved)
<1>1. PICK new \in Statuses : status' = [status EXCEPT ![o] = new]
  BY DEF RowStep
<1>2. status'[o] = new
  BY <1>1 DEF Inv, TypeOK
<1>3. ASSUME NEW p \in Ops, p # o PROVE PromisedStage(p)' = PromisedStage(p)
  <2>1. status'[p] = status[p] /\ (p \in reserved' <=> p \in reserved)
    BY <1>3 DEF RowStep, Inv, TypeOK
  <2>2. (p \in reserved') = (p \in reserved)
    BY <2>1
  <2>3. QED
    BY <2>1, <2>2 DEF PromisedStage
<1>4. PromisedStage(o)' = StageFor(new, o \in reserved')
  BY <1>2 DEF PromisedStage
<1>5. Seen' = [Seen EXCEPT ![o] = StageFor(new, o \in reserved')]
  BY <1>3, <1>4 DEF Seen
<1>6. Seen[o] = StageFor(status[o], o \in reserved)
  BY DEF Seen, PromisedStage
<1>7. QED
  BY <1>2, <1>5, <1>6

\* A row's step is a step of the promise, or none.
LEMMA RowKeepsPromise ==
  ASSUME Inv, NEW o \in Ops, RowStep(o), UNCHANGED applied
  PROVE  Promise!Next \/ UNCHANGED Promise!vars
<1>1. PICK new \in Statuses :
        /\ status'[o] = new
        /\ Seen' = [Seen EXCEPT ![o] = StageFor(new, o \in reserved')]
        /\ Seen[o] = StageFor(status[o], o \in reserved)
  BY RowMovesStage
<1>2. /\ status[o] \in Statuses /\ reserved \subseteq Ops /\ status \in [Ops -> Statuses]
      /\ RowInv(o) /\ o \in Ops
  BY DEF Inv, TypeOK, JournalAgrees
<1>3. \/ status[o] = "absent" /\ new = "prepared"
      \/ status[o] = "absent" /\ new = "rejected" /\ o \notin reserved'
      \/ status[o] = "prepared" /\ new = "dispatching"
      \/ status[o] = "prepared" /\ new = "rejected" /\ o \notin reserved'
      \/ status[o] \in Unresolved /\ new = "uncertain"
      \/ status[o] \in Unresolved /\ new = "acknowledged" /\ applied[o] = 1
      \/ status[o] \in Unresolved /\ new = "rejected" /\ applied[o] = 0 /\ o \in reserved'
  <2>1. status[o] \in Unresolved => o \in reserved
    BY <1>2 DEF RowInv
  <2>2. status[o] = "absent" => o \notin reserved
    BY <1>2 DEF RowInv
  <2>3. QED
    BY <1>1, <1>2, <2>1, <2>2 DEF RowStep
<1>4. \A slot \in BOOLEAN :
        /\ StageFor("absent", slot) = "unknown"
        /\ StageFor("prepared", slot) = "intended"
        /\ \A row \in Unresolved : StageFor(row, slot) = "committed"
        /\ StageFor("acknowledged", slot) = "confirmed"
        /\ StageFor("rejected", slot) = IF slot THEN "denied" ELSE "refused"
  BY StageForValues
<1>5. (o \in reserved) \in BOOLEAN /\ (o \in reserved') \in BOOLEAN
  OBVIOUS
<1>6. \/ Seen[o] = "unknown" /\ Seen' = [Seen EXCEPT ![o] = "intended"]
      \/ Seen[o] \in {"unknown", "intended"} /\ Seen' = [Seen EXCEPT ![o] = "refused"]
      \/ Seen[o] = "intended" /\ Seen' = [Seen EXCEPT ![o] = "committed"]
      \/ Seen[o] = "committed" /\ Seen' = [Seen EXCEPT ![o] = "committed"]
      \/ Seen[o] = "committed" /\ Seen' = [Seen EXCEPT ![o] = "confirmed"] /\ applied[o] = 1
      \/ Seen[o] = "committed" /\ Seen' = [Seen EXCEPT ![o] = "denied"] /\ applied[o] = 0
  <2>1. status[o] = "absent" => Seen[o] = "unknown"
    BY <1>1, <1>4, <1>5
  <2>2. status[o] = "prepared" => Seen[o] = "intended"
    BY <1>1, <1>4, <1>5
  <2>3. status[o] \in Unresolved => Seen[o] = "committed"
    BY <1>1, <1>4, <1>5
  <2>4. new = "prepared" => Seen' = [Seen EXCEPT ![o] = "intended"]
    BY <1>1, <1>4, <1>5
  <2>5. new \in {"dispatching", "uncertain"} => Seen' = [Seen EXCEPT ![o] = "committed"]
    BY <1>1, <1>4, <1>5 DEF Unresolved
  <2>6. new = "acknowledged" => Seen' = [Seen EXCEPT ![o] = "confirmed"]
    BY <1>1, <1>4, <1>5
  <2>7. new = "rejected" /\ o \notin reserved' => Seen' = [Seen EXCEPT ![o] = "refused"]
    BY <1>1, <1>4, <1>5
  <2>8. new = "rejected" /\ o \in reserved' => Seen' = [Seen EXCEPT ![o] = "denied"]
    BY <1>1, <1>4, <1>5
  <2>9. QED
    BY ONLY <1>3, <2>1, <2>2, <2>3, <2>4, <2>5, <2>6, <2>7, <2>8
<1>7. Seen \in [Ops -> {PromisedStage(p) : p \in Ops}] /\ Seen = [p \in Ops |-> PromisedStage(p)]
  BY DEF Seen
<1>8. CASE Seen[o] = "committed" /\ Seen' = [Seen EXCEPT ![o] = "committed"]
  <2>1. Seen' = Seen
    BY <1>7, <1>8
  <2>2. QED
    BY <2>1 DEF Promise!vars, Seen
<1>9. CASE \/ Seen[o] = "unknown" /\ Seen' = [Seen EXCEPT ![o] = "intended"]
           \/ Seen[o] \in {"unknown", "intended"} /\ Seen' = [Seen EXCEPT ![o] = "refused"]
           \/ Seen[o] = "intended" /\ Seen' = [Seen EXCEPT ![o] = "committed"]
           \/ Seen[o] = "committed" /\ Seen' = [Seen EXCEPT ![o] = "confirmed"] /\ applied[o] = 1
           \/ Seen[o] = "committed" /\ Seen' = [Seen EXCEPT ![o] = "denied"] /\ applied[o] = 0
  <2>1. Promise!Intend(o) \/ Promise!Refuse(o) \/ Promise!Commit(o) \/ Promise!Confirm(o)
          \/ Promise!Deny(o)
    BY <1>9 DEF Seen, Promise!Intend, Promise!Refuse, Promise!Commit, Promise!Confirm,
       Promise!Deny, Promise!Move
  <2>2. QED
    BY <2>1 DEF Promise!Next
<1>10. QED
  BY <1>6, <1>8, <1>9

\* The broker, with its journal, callers, crashes and network, implements the
\* promise that an operation is committed, and lands, at most once.
THEOREM BrokerKeepsPromise == Spec => KeepsPromise
<1>1. Init => Promise!Init
  <2>1. SUFFICES ASSUME Init PROVE Promise!Init
    OBVIOUS
  <2>2. ASSUME NEW o \in Ops PROVE PromisedStage(o) = "unknown"
    <3>1. status[o] = "absent" /\ (o \in reserved) \in BOOLEAN
      BY <2>1 DEF Init
    <3>2. QED
      BY <3>1, StageForValues DEF PromisedStage
  <2>3. QED
    BY <2>1, <2>2 DEF Init, Promise!Init
<1>2. Inv /\ [Next]_vars => [Promise!Next]_(Promise!vars)
  <2>1. SUFFICES ASSUME Inv, [Next]_vars PROVE Promise!Next \/ UNCHANGED Promise!vars
    OBVIOUS
  <2>2. CASE UNCHANGED <<status, reserved, applied>>
    BY <2>2 DEF Promise!vars, PromisedStage
  <2>3. ASSUME NEW o \in Ops, RowStep(o), UNCHANGED applied
        PROVE  Promise!Next \/ UNCHANGED Promise!vars
    BY <2>1, <2>3, RowKeepsPromise
  <2>4. ASSUME NEW o \in Ops, LandStep(o), UNCHANGED <<status, reserved>>
        PROVE  Promise!Next
    <3>1. PromisedStage(o) = "committed"
      <4>1. status[o] \in Unresolved /\ (o \in reserved) \in BOOLEAN
        BY <2>4 DEF LandStep
      <4>2. QED
        BY <4>1, StageForValues DEF PromisedStage
    <3>2. UNCHANGED [p \in Ops |-> PromisedStage(p)]
      BY <2>4 DEF PromisedStage
    <3>3. Promise!Land(o)
      BY <2>4, <3>1, <3>2 DEF LandStep, Promise!Land
    <3>4. QED
      BY <3>3 DEF Promise!Next
  <2>5. QED
    BY <2>1, <2>2, <2>3, <2>4, NextRows
<1>3. QED
  BY <1>1, <1>2, BrokerInv, PTL DEF Spec, KeepsPromise, Promise!Spec

-----------------------------------------------------------------------------
(* The recorded conditions and the budget.                                 *)

\* A row with recorded conditions is rejected only for what a policy, the
\* claim or the authorization says (RecordedConditionsSurvive).
THEOREM StaleReadCancelsNothing == Spec => RecordedConditionsSurvive
<1> DEFINE Survive ==
      \A o \in Ops :
        status[o] = "prepared" /\ snapshot[o] # NoSnapshot /\ status'[o] = "rejected"
          => reason'[o] \notin {"stale", "scope"}
<1>1. ASSUME Inv, [Next]_vars PROVE Survive
  <2>1. SUFFICES ASSUME NEW o \in Ops, status[o] = "prepared", snapshot[o] # NoSnapshot,
                        status'[o] = "rejected"
                 PROVE  reason'[o] \notin {"stale", "scope"}
    OBVIOUS
  <2>2. TypeOK
    BY <1>1 DEF Inv
  <2>3. ASSUME NEW w \in Workers, Reject(w)
        PROVE  reason'[o] \notin {"stale", "scope"}
    <3>1. CallInv(w) /\ cur[w] \in Ops
      BY <1>1, <2>3 DEF Inv, JournalAgrees, CallInv, Reject
    <3>2. cur[w] = o /\ RejectRow(o, why[w]) /\ (pc[w] = "reject_same" => snapshot[o] = held[w])
      BY <2>1, <2>2, <2>3, <3>1 DEF Reject, RejectRow, TypeOK
    <3>3. pc[w] = "reject" /\ why[w] \in {"policy", "contract"}
      BY <2>1, <2>3, <3>1, <3>2 DEF CallInv, Reject
    <3>4. QED
      BY <2>2, <3>2, <3>3 DEF RejectRow, TypeOK
  <2>4. ASSUME NEW w \in Workers, NEW authorized \in BOOLEAN, Claim(w, authorized)
        PROVE  reason'[o] \notin {"stale", "scope"}
    <3>1. cur[w] \in Ops
      BY <1>1, <2>4 DEF Inv, JournalAgrees, CallInv, Claim
    <3>2. \/ status' = [status EXCEPT ![cur[w]] = "dispatching"]
          \/ \E because \in {"policy", "contract", "changed", "budget", "authorization"} :
               RejectRow(cur[w], because)
      BY <2>4 DEF Claim, ClaimReason, StandingReason
    <3>3. PICK because \in {"policy", "contract", "changed", "budget", "authorization"} :
            RejectRow(cur[w], because)
      BY <2>1, <2>2, <3>1, <3>2 DEF TypeOK
    <3>4. cur[w] = o
      BY <2>1, <2>2, <3>1, <3>3 DEF RejectRow, TypeOK
    <3>5. QED
      BY <2>2, <3>3, <3>4 DEF RejectRow, TypeOK
  <2>5. ASSUME NEW w \in Workers, Finish(w) PROVE FALSE
    <3>1. CallInv(w) /\ cur[w] \in Ops /\ status[cur[w]] \in Unresolved
      BY <1>1, <2>5 DEF Inv, JournalAgrees, CallInv, Finish
    <3>2. QED
      BY <2>1, <2>2, <2>5, <3>1 DEF Finish, Unresolved, TypeOK
  <2>6. ASSUME NEW w \in Workers, NEW p \in Proposals, Propose(w, p) PROVE FALSE
    <3>1. p.op \in Ops
      BY ProposalsAssumption DEF Proposal
    <3>2. QED
      BY <2>1, <2>2, <2>6, <3>1 DEF Propose, TypeOK
  <2>7. ASSUME NEW w \in Workers, NEW p \in Ops, Reconcile(w, p) PROVE FALSE
    BY <2>1, <2>2, <2>7 DEF Reconcile, TypeOK
  <2>8. ASSUME NEW w \in Workers, Begin(w) \/ Step(w)
        PROVE  reason'[o] \notin {"stale", "scope"}
    <3>1. ASSUME \/ \E p \in Ops : Resume(w, p)
                 \/ Lookup(w) \/ ReadBinding(w) \/ Preflight(w) \/ PreflightUnavailable(w)
                 \/ RecordConditions(w) \/ ClaimLost(w) \/ Send(w) \/ SendRefused(w)
                 \/ Receive(w) \/ GiveUp(w)
          PROVE  FALSE
      <4>1. UNCHANGED status
        BY <3>1 DEF Resume, Lookup, ReadBinding, Preflight, PreflightUnavailable,
           RecordConditions, ClaimLost, Send, SendRefused, Receive, GiveUp, journal
      <4>2. QED
        BY <2>1, <4>1
    <3>2. QED
      BY <2>3, <2>4, <2>5, <2>6, <2>7, <2>8, <3>1 DEF Begin, Step
  <2>9. ASSUME Api \/ (\E w \in Workers : Controller(w)) \/ UNCHANGED vars PROVE FALSE
    <3>1. UNCHANGED status
      BY <2>9 DEF Api, ApiApply, ApiRefuse, OtherWriter, Controller, Crash, CallRaises, ChangePolicy,
         vars, journal
    <3>2. QED
      BY <2>1, <3>1
  <2>10. QED
    BY <1>1, <2>8, <2>9 DEF Next
<1>2. Inv /\ [Next]_vars => [Survive]_vars
  BY <1>1
<1>3. QED
  BY <1>2, BrokerInv, PTL DEF Spec, RecordedConditionsSurvive

\* A row's proposal never changes once it is recorded (INSERT is by primary
\* key, and no UPDATE of the journal names the request column).
LEMMA RequestStays ==
  ASSUME Inv, [Next]_vars, NEW o \in Ops, status[o] # "absent"
  PROVE  request'[o] = request[o]
<1>1. ASSUME NEW w \in Workers, NEW p \in Proposals, Propose(w, p)
      PROVE  request'[o] = request[o]
  <2>1. o # p.op
    BY <1>1 DEF Propose
  <2>2. QED
    BY <1>1, <2>1 DEF Propose, Inv, TypeOK
<1>2. ASSUME NEW w \in Workers, (\E p \in Ops : Resume(w, p) \/ Reconcile(w, p)) \/ Step(w) \/ Controller(w)
      PROVE  UNCHANGED request
  BY <1>2 DEF Resume, Reconcile, Step, Controller, Lookup, ReadBinding, Preflight,
     PreflightUnavailable, RecordConditions, Reject, Claim, ClaimLost, Send, SendRefused,
     Receive, GiveUp, Finish, Crash, CallRaises, ChangePolicy, journal
<1>3. ASSUME Api \/ UNCHANGED vars PROVE UNCHANGED request
  BY <1>3 DEF Api, ApiApply, ApiRefuse, OtherWriter, vars, journal
<1>4. QED
  BY <1>1, <1>2, <1>3 DEF Next, Begin

\* A row is dispatched by a claim that found nothing against it.
LEMMA DispatchIsClaim ==
  ASSUME Inv, [Next]_vars, NEW o \in Ops, status[o] = "prepared", status'[o] = "dispatching"
  PROVE  \E w \in Workers :
           /\ ClaimReason(w, o) = "none"
           /\ owner'[o] = w
           /\ UNCHANGED <<reserved, request, policy>>
<1>1. TypeOK
  BY DEF Inv
<1>2. ASSUME NEW w \in Workers, NEW authorized \in BOOLEAN, Claim(w, authorized)
      PROVE  /\ ClaimReason(w, o) = "none" /\ owner'[o] = w
             /\ UNCHANGED <<reserved, request, policy>>
  <2>1. cur[w] \in Ops /\ Unsent(cur[w])
    BY <1>2 DEF Inv, JournalAgrees, CallInv, Claim
  <2>2. cur[w] = o
    BY <1>1, <1>2, <2>1 DEF Claim, RejectRow, TypeOK
  <2>3. ~ \E because \in Reasons : RejectRow(o, because)
    BY <1>1 DEF RejectRow, TypeOK
  <2>4. ClaimReason(w, o) = "none"
    BY <1>2, <2>2, <2>3 DEF Claim, ClaimReason, StandingReason, Reasons
  <2>5. owner'[o] = w /\ UNCHANGED <<request, policy>>
    BY <1>1, <1>2, <2>2 DEF Claim, TypeOK
  <2>6. UNCHANGED reserved
    BY <1>2, <2>2, <2>3 DEF Claim, ClaimReason, StandingReason, Reasons
  <2>7. QED
    BY <2>4, <2>5, <2>6
<1>3. ASSUME NEW w \in Workers, Reject(w) PROVE FALSE
  <2>1. cur[w] \in Ops
    BY <1>3 DEF Inv, JournalAgrees, CallInv, Reject
  <2>2. QED
    BY <1>1, <1>3, <2>1 DEF Reject, RejectRow, TypeOK
<1>4. ASSUME NEW w \in Workers, Finish(w) PROVE FALSE
  <2>1. cur[w] \in Ops /\ status[cur[w]] \in Unresolved
    BY <1>4 DEF Inv, JournalAgrees, CallInv, Finish
  <2>2. QED
    BY <1>1, <1>4, <2>1 DEF Finish, Unresolved, TypeOK
<1>5. ASSUME NEW w \in Workers, NEW p \in Proposals, Propose(w, p) PROVE FALSE
  <2>1. p.op \in Ops
    BY ProposalsAssumption DEF Proposal
  <2>2. QED
    BY <1>1, <1>5, <2>1 DEF Propose, TypeOK
<1>6. ASSUME NEW w \in Workers, NEW p \in Ops, Reconcile(w, p) PROVE FALSE
  BY <1>1, <1>6 DEF Reconcile, TypeOK
<1>7. ASSUME \/ \E w \in Workers :
                  \/ \E p \in Ops : Resume(w, p)
                  \/ Lookup(w) \/ ReadBinding(w) \/ Preflight(w) \/ PreflightUnavailable(w)
                  \/ RecordConditions(w) \/ ClaimLost(w) \/ Send(w) \/ SendRefused(w)
                  \/ Receive(w) \/ GiveUp(w) \/ Controller(w)
             \/ Api \/ UNCHANGED vars
      PROVE  FALSE
  <2>1. UNCHANGED status
    BY <1>7 DEF Resume, Lookup, ReadBinding, Preflight, PreflightUnavailable,
       RecordConditions, ClaimLost, Send, SendRefused, Receive, GiveUp, Controller, Crash,
       CallRaises, ChangePolicy, Api, ApiApply, ApiRefuse, OtherWriter, vars, journal
  <2>2. QED
    BY <2>1
<1>8. QED
  BY <1>2, <1>3, <1>4, <1>5, <1>6, <1>7 DEF Next, Begin, Step

\* The slots a run has spent are a finite set of rows.
LEMMA FiniteSlots ==
  ASSUME NEW run, NEW S \in SUBSET Ops
  PROVE  IsFiniteSet({o \in S : request[o].run = run})
BY OpsAssumption, FS_Subset

\* What a run has committed grows by claims only.
LEMMA CommittedGrowsByClaims ==
  ASSUME Inv, [Next]_vars, NEW run,
         \A o \in Ops : request[o].run = run =>
           ~(status[o] = "prepared" /\ status'[o] = "dispatching")
  PROVE  Committed(run)' \subseteq Committed(run)
<1>1. SUFFICES ASSUME NEW o \in Committed(run)' PROVE o \in Committed(run)
  OBVIOUS
<1>2. o \in Ops /\ o \in reserved' /\ request'[o].run = run /\ status'[o] # "prepared"
  <2>1. TypeOK'
    BY NextInv DEF Inv
  <2>2. QED
    BY <1>1, <2>1 DEF Committed, Reserved, TypeOK
<1>3. TypeOK /\ RowInv(o)
  BY <1>2 DEF Inv, JournalAgrees
<1>4. status[o] \notin {"absent", "prepared"} /\ o \in reserved
  <2>1. CASE UNCHANGED <<status, reserved>>
    <3>1. o \in reserved /\ status[o] # "prepared" /\ status[o] # "absent"
      BY <1>2, <1>3, <2>1 DEF RowInv
    <3>2. QED
      BY <3>1
  <2>2. ASSUME NEW p \in Ops, RowStep(p) PROVE status[o] \notin {"absent", "prepared"} /\ o \in reserved
    <3>1. CASE p = o
      <4>1. \/ status[o] = "absent" /\ o \in reserved
            \/ status[o] = "prepared" /\ status'[o] = "dispatching"
            \/ status[o] \in Unresolved /\ o \in reserved
        BY <1>2, <1>3, <2>2, <3>1 DEF RowStep, TypeOK
      <4>2. status[o] = "prepared" => request'[o] = request[o]
        BY <1>2, RequestStays
      <4>3. QED
        BY <1>2, <1>3, <4>1, <4>2 DEF RowInv, Unresolved
    <3>2. CASE p # o
      <4>1. status'[o] = status[o] /\ o \in reserved
        BY <1>2, <1>3, <2>2, <3>2 DEF RowStep, TypeOK
      <4>2. QED
        BY <1>2, <1>3, <4>1 DEF RowInv
    <3>3. QED
      BY <3>1, <3>2
  <2>3. QED
    BY <2>1, <2>2, NextRows
<1>5. request'[o] = request[o]
  BY <1>2, <1>4, RequestStays
<1>6. QED
  BY <1>2, <1>4, <1>5 DEF Committed, Reserved

\* A claim leaves at most its policy's limit of slots spent in its run.
LEMMA ClaimIsWithinLimit ==
  ASSUME Inv, [Next]_vars, NEW o \in Ops, status[o] = "prepared", status'[o] = "dispatching"
  PROVE  \E w \in Workers :
           /\ owner'[o] = w
           /\ policy[w].run = request[o].run /\ policy[w].enabled
           /\ Cardinality(Committed(request[o].run)') <= policy[w].max
<1>1. PICK w \in Workers :
        /\ ClaimReason(w, o) = "none"
        /\ owner'[o] = w
        /\ UNCHANGED <<reserved, request, policy>>
  BY DispatchIsClaim
<1>2. PolicyAllows(policy[w], request[o]) /\ ~(Used(request[o].run) > policy[w].max)
  BY <1>1 DEF ClaimReason, StandingReason
<1>3. Committed(request[o].run)' \subseteq Reserved(request[o].run)
  BY <1>1 DEF Committed, Reserved
<1>4. IsFiniteSet(Reserved(request[o].run))
  BY FiniteSlots DEF Reserved, Inv, TypeOK
<1>5. /\ Cardinality(Committed(request[o].run)') <= Cardinality(Reserved(request[o].run))
      /\ Cardinality(Committed(request[o].run)') \in Nat
      /\ Cardinality(Reserved(request[o].run)) \in Nat
  BY <1>3, <1>4, FS_Subset, FS_CardinalityType
<1>6. policy[w].max \in Nat
  BY PoliciesAssumption DEF Inv, TypeOK, BrokerPolicy
<1>7. QED
  BY <1>1, <1>2, <1>5, <1>6 DEF PolicyAllows, InScope, Used

\* The inductive form of BudgetKept: of the slots taken, not the sends made.
CommittedWithinLimit ==
  \A run \in Runs : Committed(run) # {} =>
    \E p \in Policies : p.run = run /\ p.enabled /\ Cardinality(Committed(run)) <= p.max

\* One step keeps every run within the limit of one of its enabled policies.
LEMMA CommittedWithinLimitStep ==
  Inv /\ CommittedWithinLimit /\ [Next]_vars => CommittedWithinLimit'
<1> SUFFICES ASSUME Inv, CommittedWithinLimit, [Next]_vars, NEW run \in Runs,
                    Committed(run)' # {}
             PROVE  \E p \in Policies :
                      p.run = run /\ p.enabled /\ Cardinality(Committed(run)') <= p.max
  BY DEF CommittedWithinLimit
<1>1. CASE \E o \in Ops : request[o].run = run /\ status[o] = "prepared" /\ status'[o] = "dispatching"
  <2>1. PICK o \in Ops : request[o].run = run /\ status[o] = "prepared" /\ status'[o] = "dispatching"
    BY <1>1
  <2>2. PICK w \in Workers :
          /\ policy[w].run = request[o].run /\ policy[w].enabled
          /\ Cardinality(Committed(request[o].run)') <= policy[w].max
    BY <2>1, ClaimIsWithinLimit
  <2>3. policy[w] \in Policies
    BY DEF Inv, TypeOK
  <2>4. request'[o].run = run
    BY <2>1, RequestStays
  <2>5. QED
    BY <2>1, <2>2, <2>3, <2>4
<1>2. CASE \A o \in Ops : request[o].run = run => ~(status[o] = "prepared" /\ status'[o] = "dispatching")
  <2>1. Committed(run)' \subseteq Committed(run)
    BY <1>2, CommittedGrowsByClaims
  <2>2. PICK p \in Policies : p.run = run /\ p.enabled /\ Cardinality(Committed(run)) <= p.max
    BY <2>1 DEF CommittedWithinLimit
  <2>3. IsFiniteSet(Committed(run))
    <3>1. IsFiniteSet(Reserved(run)) /\ Committed(run) \subseteq Reserved(run)
      BY FiniteSlots DEF Reserved, Committed, Inv, TypeOK
    <3>2. QED
      BY <3>1, FS_Subset
  <2>4. /\ Cardinality(Committed(run)') <= Cardinality(Committed(run))
        /\ Cardinality(Committed(run)') \in Nat /\ Cardinality(Committed(run)) \in Nat
    BY <2>1, <2>3, FS_Subset, FS_CardinalityType
  <2>5. p.max \in Nat
    BY PoliciesAssumption DEF BrokerPolicy
  <2>6. QED
    BY <2>2, <2>4, <2>5
<1>3. QED
  BY <1>1, <1>2

\* No run transmits more operations than an enabled policy of it ever allowed,
\* whatever is rejected, released and proposed anew (BudgetKept).
THEOREM NoRunOverspends == Spec => []BudgetKept
<1>1. Init => CommittedWithinLimit
  BY DEF Init, CommittedWithinLimit, Committed, Reserved
<1>2. ASSUME Inv, CommittedWithinLimit PROVE BudgetKept
  <2>1. SUFFICES ASSUME NEW run \in Runs, Spent(run) # {}
                 PROVE  \E p \in Policies :
                          p.run = run /\ p.enabled /\ Cardinality(Spent(run)) <= p.max
    BY DEF BudgetKept
  <2>2. ASSUME NEW o \in Spent(run) PROVE o \in Committed(run)
    <3>1. o \in Ops /\ sends[o] > 0 /\ request[o].run = run
      BY DEF Spent
    <3>2. RowInv(o) /\ status[o] \in Statuses /\ ~Untouched(o)
      BY <1>2, <3>1 DEF Inv, TypeOK, JournalAgrees, Untouched
    <3>3. o \in reserved /\ status[o] # "prepared"
      BY <3>2 DEF RowInv, Statuses
    <3>4. QED
      BY <3>1, <3>3 DEF Committed, Reserved
  <2>3. Spent(run) \subseteq Committed(run)
    BY <2>2
  <2>4. PICK p \in Policies : p.run = run /\ p.enabled /\ Cardinality(Committed(run)) <= p.max
    BY <1>2, <2>1, <2>3 DEF CommittedWithinLimit
  <2>5. IsFiniteSet(Committed(run))
    <3>1. IsFiniteSet(Reserved(run)) /\ Committed(run) \subseteq Reserved(run)
      BY <1>2, FiniteSlots DEF Reserved, Committed, Inv, TypeOK
    <3>2. QED
      BY <3>1, FS_Subset
  <2>6. /\ Cardinality(Spent(run)) <= Cardinality(Committed(run))
        /\ Cardinality(Spent(run)) \in Nat /\ Cardinality(Committed(run)) \in Nat
    BY <2>3, <2>5, FS_Subset, FS_CardinalityType
  <2>7. p.max \in Nat
    BY PoliciesAssumption DEF BrokerPolicy
  <2>8. QED
    BY <2>4, <2>6, <2>7
<1>3. Inv /\ CommittedWithinLimit => BudgetKept
  BY <1>2
<1>4. QED
  BY <1>1, <1>3, CommittedWithinLimitStep, BrokerInv, PTL DEF Spec

\* A limit lowered before a claim binds it (LoweredBudgetBinds).
THEOREM LoweredLimitBinds == Spec => LoweredBudgetBinds
<1> DEFINE Binds ==
      \A o \in Ops, w \in Workers :
        status[o] = "prepared" /\ status'[o] = "dispatching" /\ owner'[o] = w
          => Cardinality(Committed(request[o].run))' <= policy[w].max
<1>1. ASSUME Inv, [Next]_vars PROVE Binds
  <2>1. SUFFICES ASSUME NEW o \in Ops, NEW w \in Workers, status[o] = "prepared",
                        status'[o] = "dispatching", owner'[o] = w
                 PROVE  Cardinality(Committed(request[o].run))' <= policy[w].max
    OBVIOUS
  <2>2. QED
    BY <1>1, <2>1, ClaimIsWithinLimit
<1>2. Inv /\ [Next]_vars => [Binds]_vars
  BY <1>1
<1>3. QED
  BY <1>2, BrokerInv, PTL DEF Spec, LoweredBudgetBinds

\* Journal, wire and Service tell one story, and its definite rows are true
\* (JournalIsTrue).
THEOREM JournalIsAlwaysTrue == Spec => []JournalIsTrue
<1>1. TypeOK /\ JournalAgrees /\ AtMostOnce /\ RejectedNeverLands /\ AcknowledgedLanded
        /\ EffectsAccounted => JournalIsTrue
  BY DEF JournalIsTrue
<1>2. QED
  BY <1>1, BrokerTypes, JournalAlwaysAgrees, TransmittedAtMostOnce, RejectionIsDefinite,
     AcknowledgementIsDefinite, NoEffectEscapes, PTL

\* Limits hold, lowered ones from the next claim on (BudgetHolds).
THEOREM BudgetsHold == Spec => BudgetHolds
<1>1. QED
  BY NoRunOverspends, LoweredLimitBinds DEF BudgetHolds


-----------------------------------------------------------------------------
(* What a repair lands on.                                                 *)

\* The conditions h are of the version that o's proposal was made for.
OfEvidence(o, h) ==
  h # NoSnapshot =>
    /\ request[o].rv \in 1..rv
    /\ versions[request[o].rv] = [uid |-> request[o].uid, port |-> request[o].expected, rest |-> h]

\* Wherever conditions of an operation are, in its row, in a call that is about
\* to record or send them, or on the wire, they are of its evidence.
ConditionsAreEvidence ==
  /\ \A o \in Ops : OfEvidence(o, snapshot[o]) /\ (status[o] = "absent" => snapshot[o] = NoSnapshot)
  /\ \A w \in Workers : pc[w] \in {"record", "claim", "send"} => OfEvidence(cur[w], held[w])
  /\ \A m \in inflight : OfEvidence(m.op, m.held)

\* A version of the Service, once there, stays what it is.
LEMMA VersionsStand ==
  ASSUME TypeOK, [Next]_vars
  PROVE  /\ rv' \in {rv, rv + 1}
         /\ \A v \in 1..rv : versions'[v] = versions[v]
<1>1. CASE \/ \E m \in inflight : ApiApply(m)
           \/ \E s \in Content : OtherWriter(s)
  <2>1. PICK s : rv' = rv + 1 /\ versions' = [versions EXCEPT ![rv + 1] = s]
    BY <1>1 DEF ApiApply, OtherWriter
  <2>2. versions \in [1..MaxVersion -> Content] /\ rv \in 1..MaxVersion /\ MaxVersion \in Nat
    BY VersionsAssumption DEF TypeOK
  <2>3. QED
    BY <2>1, <2>2
<1>2. CASE (\E m \in inflight : ApiRefuse(m)) \/ UNCHANGED vars
  BY <1>2 DEF ApiRefuse, vars, api
<1>3. ASSUME NEW w \in Workers, Begin(w) \/ Step(w) \/ Controller(w)
      PROVE  UNCHANGED <<rv, versions>>
  BY <1>3 DEF Begin, Propose, Resume, Reconcile, Step, Lookup, ReadBinding, Preflight, PreflightUnavailable,
     RecordConditions, Reject, Claim, ClaimLost, Send, SendRefused, Receive, GiveUp, Finish, Controller,
     Crash, CallRaises, ChangePolicy, api
<1>4. QED
  BY <1>1, <1>2, <1>3 DEF Next, Api

\* Conditions of the evidence stay so: neither the proposal nor its version changes.
LEMMA EvidenceStays ==
  ASSUME Inv, [Next]_vars, NEW o \in Ops, status[o] # "absent"
  PROVE  \A h : OfEvidence(o, h) =>
           (h # NoSnapshot =>
              /\ request'[o].rv \in 1..rv'
              /\ versions'[request'[o].rv] =
                   [uid |-> request'[o].uid, port |-> request'[o].expected, rest |-> h])
<1>1. request'[o] = request[o]
  BY RequestStays
<1>2. rv \in Nat /\ rv' \in {rv, rv + 1} /\ \A v \in 1..rv : versions'[v] = versions[v]
  BY VersionsStand, VersionsAssumption DEF Inv, TypeOK
<1>3. ASSUME NEW h, request[o].rv \in 1..rv
      PROVE  request'[o].rv \in 1..rv' /\ versions'[request'[o].rv] = versions[request[o].rv]
  BY <1>1, <1>2, <1>3
<1>4. QED
  BY <1>1, <1>3 DEF OfEvidence

\* A call comes to recording, claiming or sending with conditions of its evidence.
LEMMA CallsHoldEvidence ==
  ASSUME Inv, ConditionsAreEvidence, [Next]_vars, NEW w \in Workers,
         pc'[w] \in {"record", "claim", "send"}
  PROVE  /\ cur'[w] = cur[w] /\ cur[w] \in Ops /\ status[cur[w]] # "absent"
         /\ OfEvidence(cur[w], held'[w])
<1> USE DEF Inv
<1>1. TypeOK /\ CallInv(w) /\ CallsType
  BY TypeOfCalls DEF JournalAgrees
<1>2. ASSUME pc[w] \in {"record", "claim", "send"}, pc'[w] = pc[w], cur'[w] = cur[w], held'[w] = held[w]
      PROVE  /\ cur'[w] = cur[w] /\ cur[w] \in Ops /\ status[cur[w]] # "absent"
             /\ OfEvidence(cur[w], held'[w])
  BY <1>1, <1>2 DEF ConditionsAreEvidence, CallInv
<1>3. ASSUME NEW x \in Workers, x # w, Begin(x) \/ Step(x) \/ Controller(x)
      PROVE  pc'[w] = pc[w] /\ cur'[w] = cur[w] /\ held'[w] = held[w]
  <2>1. ASSUME NEW stage, NEW snap, NEW because, Continue(x, stage, snap, because)
        PROVE  pc'[w] = pc[w] /\ cur'[w] = cur[w] /\ held'[w] = held[w]
    BY <1>1, <1>3, <2>1 DEF CallsType, Continue
  <2>2. ASSUME Return(x)
        PROVE  pc'[w] = pc[w] /\ cur'[w] = cur[w] /\ held'[w] = held[w]
    BY <1>1, <1>3, <2>2 DEF CallsType, Return
  <2>3. CASE Begin(x) \/ Crash(x) \/ \E p \in Policies : ChangePolicy(x, p)
    BY <1>1, <1>3, <2>3 DEF CallsType, Begin, Propose, Resume, Reconcile, Crash, ChangePolicy, calls
  <2>4. CASE Lookup(x) \/ PreflightUnavailable(x) \/ Reject(x) \/ ClaimLost(x) \/ Send(x) \/ SendRefused(x)
                \/ Receive(x) \/ GiveUp(x) \/ Finish(x) \/ CallRaises(x)
    BY <2>1, <2>2, <2>4 DEF Lookup, PreflightUnavailable, Reject, ClaimLost, Send, SendRefused, Receive,
       GiveUp, Finish, CallRaises
  <2>5. CASE ReadBinding(x) \/ RecordConditions(x) \/ \E authorized \in BOOLEAN : Claim(x, authorized)
    BY <2>1, <2>2, <2>5 DEF ReadBinding, RecordConditions, Claim
  <2>6. CASE Preflight(x)
    <3>1. contract[cur[x]] \in CONTRACTS
      BY <1>1, <2>6 DEF Inv, JournalAgrees, CallInv, Preflight, TypeOK
    <3>2. QED
      BY <2>1, <2>6, <3>1 DEF Preflight, CONTRACTS
  <2>7. QED
    BY <1>3, <2>3, <2>4, <2>5, <2>6 DEF Step, Controller
<1>4. ASSUME Api \/ UNCHANGED vars
      PROVE  pc'[w] = pc[w] /\ cur'[w] = cur[w] /\ held'[w] = held[w]
  BY <1>4 DEF Api, ApiApply, ApiRefuse, OtherWriter, vars, calls
<1>5. ASSUME NEW stage, NEW snap, NEW because, Continue(w, stage, snap, because)
      PROVE  pc'[w] = stage /\ held'[w] = snap /\ cur'[w] = cur[w]
  BY <1>1, <1>5 DEF CallsType, Continue
<1>6. ASSUME Return(w) PROVE FALSE
  BY <1>1, <1>6 DEF CallsType, Return
<1>7. CASE ReadBinding(w)
  <2>1. cur[w] \in Ops /\ status[cur[w]] # "absent"
    BY <1>1, <1>7 DEF CallInv, ReadBinding
  <2>2. cur'[w] = cur[w] /\ held'[w] = snapshot[cur[w]]
    BY <1>5, <1>7 DEF ReadBinding
  <2>3. QED
    BY <2>1, <2>2 DEF ConditionsAreEvidence
<1>8. CASE Preflight(w)
  <2>1. cur[w] \in Ops /\ status[cur[w]] # "absent" /\ contract[cur[w]] \in CONTRACTS
    BY <1>1, <1>8 DEF CallInv, Preflight, TypeOK
  <2>2. PICK stage, snap, because : Continue(w, stage, snap, because)
    BY <1>8, <2>1 DEF Preflight, CONTRACTS
  <2>3. cur'[w] = cur[w]
    BY <1>5, <2>2
  <2>4. \/ held'[w] = NoSnapshot
        \/ SameVersion(request[cur[w]], rv, Service) /\ held'[w] = Service.rest
    BY <1>5, <1>8, <2>1 DEF Preflight, CONTRACTS
  <2>5. Service \in Content /\ rv \in 1..rv
    <3>1. versions \in [1..MaxVersion -> Content] /\ rv \in 1..MaxVersion /\ MaxVersion \in Nat
      BY <1>1, VersionsAssumption DEF TypeOK
    <3>2. QED
      BY <3>1 DEF Service
  <2>6. ASSUME SameVersion(request[cur[w]], rv, Service), held'[w] = Service.rest
        PROVE  OfEvidence(cur[w], held'[w])
    BY <2>5, <2>6 DEF SameVersion, OfEvidence, Service, Content
  <2>7. QED
    BY <2>1, <2>3, <2>4, <2>6 DEF OfEvidence
<1>9. CASE RecordConditions(w)
  <2>1. cur[w] \in Ops /\ status[cur[w]] # "absent" /\ pc[w] = "record"
    BY <1>1, <1>9 DEF CallInv, RecordConditions
  <2>2. cur'[w] = cur[w] /\ held'[w] \in {held[w], snapshot[cur[w]]}
    BY <1>5, <1>6, <1>9 DEF RecordConditions
  <2>3. QED
    BY <2>1, <2>2 DEF ConditionsAreEvidence
<1>10. CASE \E authorized \in BOOLEAN : Claim(w, authorized)
  <2>1. cur[w] \in Ops /\ status[cur[w]] # "absent" /\ pc[w] = "claim"
    BY <1>1, <1>10 DEF CallInv, Claim
  <2>2. cur'[w] = cur[w] /\ held'[w] = held[w]
    BY <1>5, <1>6, <1>10 DEF Claim
  <2>3. QED
    BY <2>1, <2>2 DEF ConditionsAreEvidence
<1>11. CASE (\E o \in Ops : Reconcile(w, o)) \/ (\E p \in Policies : ChangePolicy(w, p))
  BY <1>2, <1>11 DEF Reconcile, ChangePolicy, calls
<1>12. ASSUME \/ \E p \in Proposals : Propose(w, p)
              \/ \E o \in Ops : Resume(w, o)
              \/ Crash(w)
       PROVE  FALSE
  BY <1>1, <1>12 DEF Propose, Resume, Crash, CallsType
<1>13. ASSUME Lookup(w) \/ PreflightUnavailable(w) \/ Reject(w) \/ ClaimLost(w) \/ Send(w) \/ SendRefused(w)
                 \/ Receive(w) \/ GiveUp(w) \/ Finish(w) \/ CallRaises(w)
       PROVE  FALSE
  BY <1>5, <1>6, <1>13 DEF Lookup, PreflightUnavailable, Reject, ClaimLost, Send, SendRefused, Receive, GiveUp,
     Finish, CallRaises
<1>14. QED
  <2>1. ASSUME Begin(w) \/ Step(w) \/ Controller(w)
        PROVE  /\ cur'[w] = cur[w] /\ cur[w] \in Ops /\ status[cur[w]] # "absent"
               /\ OfEvidence(cur[w], held'[w])
    BY <1>7, <1>8, <1>9, <1>10, <1>11, <1>12, <1>13, <2>1 DEF Begin, Step, Controller
  <2>2. QED
    BY <1>2, <1>3, <1>4, <2>1 DEF Next

\* The conditions of a row are written once, by a call that read them.
LEMMA ConditionsAreRecorded ==
  ASSUME Inv, [Next]_vars, NEW o \in Ops, snapshot'[o] # snapshot[o]
  PROVE  \E w \in Workers : pc[w] = "record" /\ cur[w] = o /\ snapshot'[o] = held[w]
<1>1. ASSUME NEW w \in Workers, RecordConditions(w)
      PROVE  pc[w] = "record" /\ cur[w] = o /\ snapshot'[o] = held[w]
  BY <1>1 DEF RecordConditions, Inv, TypeOK
<1>2. ASSUME NEW w \in Workers, Begin(w) \/ Controller(w)
      PROVE  UNCHANGED snapshot
  BY <1>2 DEF Begin, Propose, Resume, Reconcile, Controller, Crash, CallRaises, ChangePolicy, journal
<1>3. ASSUME NEW w \in Workers, Step(w)
      PROVE  RecordConditions(w) \/ UNCHANGED snapshot
  BY <1>3 DEF Step, Lookup, ReadBinding, Preflight, PreflightUnavailable, Reject, Claim, ClaimLost, Send,
     SendRefused, Receive, GiveUp, Finish, journal
<1>4. ASSUME Api \/ UNCHANGED vars PROVE UNCHANGED snapshot
  BY <1>4 DEF Api, ApiApply, ApiRefuse, OtherWriter, vars, journal
<1>5. QED
  BY <1>1, <1>2, <1>3, <1>4 DEF Next

\* What is sent is what the call held.
LEMMA WireIsSent ==
  ASSUME Inv, [Next]_vars, NEW m \in inflight', m \notin inflight
  PROVE  \E w \in Workers : pc[w] = "send" /\ m.op = cur[w] /\ m.held = held[w]
<1>1. ASSUME NEW w \in Workers, Send(w)
      PROVE  pc[w] = "send" /\ m.op = cur[w] /\ m.held = held[w]
  BY <1>1 DEF Send
<1>2. ASSUME NEW w \in Workers, Begin(w) \/ Controller(w)
      PROVE  UNCHANGED inflight
  BY <1>2 DEF Begin, Propose, Resume, Reconcile, Controller, Crash, CallRaises, ChangePolicy, api
<1>3. ASSUME NEW w \in Workers, Step(w)
      PROVE  Send(w) \/ UNCHANGED inflight
  BY <1>3 DEF Step, Lookup, ReadBinding, Preflight, PreflightUnavailable, RecordConditions, Reject, Claim,
     ClaimLost, SendRefused, Receive, GiveUp, Finish, api
<1>4. ASSUME Api \/ UNCHANGED vars PROVE inflight' \subseteq inflight
  BY <1>4 DEF Api, ApiApply, ApiRefuse, OtherWriter, vars, api
<1>5. QED
  BY <1>1, <1>2, <1>3, <1>4 DEF Next

\* A recorded row is never forgotten.
LEMMA RowsStay ==
  ASSUME Inv, [Next]_vars, NEW o \in Ops, status[o] # "absent"
  PROVE  status'[o] # "absent"
BY NextRows DEF RowStep, LandStep, Inv, TypeOK

LEMMA NextConditions ==
  ASSUME Inv, ConditionsAreEvidence, [Next]_vars
  PROVE  ConditionsAreEvidence'
<1> USE DEF Inv
<1>1. ASSUME NEW o \in Ops PROVE OfEvidence(o, snapshot[o])'
  <2>1. CASE snapshot'[o] = snapshot[o] /\ status[o] # "absent"
    <3>1. OfEvidence(o, snapshot'[o])
      BY <2>1 DEF ConditionsAreEvidence
    <3>2. QED
      BY <2>1, <3>1, EvidenceStays DEF OfEvidence
  <2>2. CASE snapshot'[o] = snapshot[o] /\ status[o] = "absent"
    BY <2>2 DEF ConditionsAreEvidence, OfEvidence
  <2>3. CASE snapshot'[o] # snapshot[o]
    <3>1. PICK w \in Workers : pc[w] = "record" /\ cur[w] = o /\ snapshot'[o] = held[w]
      BY <2>3, ConditionsAreRecorded
    <3>2. OfEvidence(o, snapshot'[o]) /\ status[o] # "absent"
      BY <3>1 DEF ConditionsAreEvidence, JournalAgrees, CallInv
    <3>3. QED
      BY <3>2, EvidenceStays DEF OfEvidence
  <2>4. QED
    BY <2>1, <2>2, <2>3
<1>2. ASSUME NEW o \in Ops, status'[o] = "absent" PROVE snapshot'[o] = NoSnapshot
  <2>1. status[o] = "absent"
    BY <1>2, RowsStay
  <2>2. ASSUME snapshot'[o] # snapshot[o] PROVE FALSE
    <3>1. PICK w \in Workers : pc[w] = "record" /\ cur[w] = o
      BY <2>2, ConditionsAreRecorded
    <3>2. QED
      BY <2>1, <3>1 DEF JournalAgrees, CallInv
  <2>3. QED
    BY <2>1, <2>2 DEF ConditionsAreEvidence
<1>3. ASSUME NEW w \in Workers, pc'[w] \in {"record", "claim", "send"}
      PROVE  OfEvidence(cur[w], held[w])'
  <2>1. /\ cur'[w] = cur[w] /\ cur[w] \in Ops /\ status[cur[w]] # "absent"
        /\ OfEvidence(cur[w], held'[w])
    BY <1>3, CallsHoldEvidence
  <2>2. QED
    BY <2>1, EvidenceStays DEF OfEvidence
<1>4. ASSUME NEW m \in inflight' PROVE OfEvidence(m.op, m.held)'
  <2>1. m.op \in Ops /\ status[m.op] # "absent" /\ OfEvidence(m.op, m.held)
    <3>1. CASE m \in inflight
      BY <3>1 DEF ConditionsAreEvidence, JournalAgrees, WireInv, Unresolved, TypeOK, Request
    <3>2. CASE m \notin inflight
      BY <3>2, WireIsSent DEF ConditionsAreEvidence, JournalAgrees, CallInv
    <3>3. QED
      BY <3>1, <3>2
  <2>2. QED
    BY <2>1, EvidenceStays DEF OfEvidence
<1>5. QED
  BY <1>1, <1>2, <1>3, <1>4 DEF ConditionsAreEvidence

\* Wherever the conditions of an operation are, they are of the version its
\* proposal names (_record_conditions, patch_for_binding).
THEOREM ConditionsStand == Spec => []ConditionsAreEvidence
<1>1. Init => ConditionsAreEvidence
  BY DEF Init, ConditionsAreEvidence, OfEvidence
<1>2. Inv /\ ConditionsAreEvidence /\ [Next]_vars => ConditionsAreEvidence'
  BY NextConditions
<1>3. QED
  BY <1>1, <1>2, BrokerInv, PTL DEF Spec

\* A repair lands only on the content its proposal's evidence was about, by
\* either contract and however late the API applies it (LandsOnItsEvidence).
THEOREM RepairsLandOnEvidence == Spec => LandsOnItsEvidence
<1> DEFINE Lands == \A o \in Ops : applied'[o] > applied[o] => Service = versions[request[o].rv]
<1>1. ASSUME Inv, ConditionsAreEvidence, [Next]_vars PROVE Lands
  <2> SUFFICES ASSUME NEW o \in Ops, applied'[o] > applied[o]
               PROVE  Service = versions[request[o].rv]
    OBVIOUS
  <2>1. TypeOK /\ applied[o] \in Nat
    BY <1>1 DEF Inv, TypeOK
  <2>2. ASSUME UNCHANGED applied PROVE FALSE
    BY <2>1, <2>2
  <2>3. PICK m \in inflight : ApiApply(m)
    <3>1. ASSUME \/ \E n \in inflight : ApiRefuse(n)
                 \/ \E s \in Content : OtherWriter(s)
                 \/ \E w \in Workers : Controller(w)
                 \/ UNCHANGED vars
          PROVE  UNCHANGED applied
      BY <3>1 DEF ApiRefuse, OtherWriter, Controller, Crash, CallRaises, ChangePolicy, vars, history
    <3>2. QED
      BY <1>1, <2>2, <3>1, CallRows DEF Next, Api
  <2>4. m.op = o /\ m.op \in Ops
    BY <2>1, <2>3, <1>1 DEF ApiApply, TypeOK, Request
  <2>5. PatchAccepted(request[o], contract[o], m.held, rv, Service)
    BY <2>3, <2>4 DEF ApiApply
  <2>6. CASE contract[o] = LEGACY
    BY <2>5, <2>6 DEF PatchAccepted, Service
  <2>7. CASE contract[o] # LEGACY
    <3>1. Service \in Content /\ NoSnapshot \notin Rests
      BY <2>1, ScopeAssumption DEF TypeOK, Service
    <3>2. /\ Service.uid = request[o].uid /\ Service.port = request[o].expected
          /\ Service.rest = m.held
      BY <2>5, <2>7 DEF PatchAccepted
    <3>3. m.held # NoSnapshot
      BY <3>1, <3>2 DEF Content
    <3>4. versions[request[o].rv] = [uid |-> request[o].uid, port |-> request[o].expected, rest |-> m.held]
      BY <1>1, <2>3, <2>4, <3>3 DEF ConditionsAreEvidence, OfEvidence
    <3>5. QED
      BY <3>1, <3>2, <3>4 DEF Content
  <2>8. QED
    BY <2>6, <2>7
<1>2. Inv /\ ConditionsAreEvidence /\ [Next]_vars => [Lands]_vars
  BY <1>1
<1>3. QED
  BY <1>2, BrokerInv, ConditionsStand, PTL DEF Spec, LandsOnItsEvidence
=============================================================================
