----------------------------- MODULE StoreProofs -----------------------------
(***************************************************************************)
(* Theorems about what is written to be read by a later process: the log   *)
(* of evidence, what the authored actors make of what they read, and the   *)
(* mailbox between host and guest, which implements the channel's promise. *)
(***************************************************************************)
EXTENDS MCStores, FiniteSetTheorems, SequenceTheorems, TLAPS

---------------------------------------------------------------------------
\* What a line appended to a file leaves of it.
LEMMA Appended ==
  ASSUME NEW S, NEW s \in Seq(S), NEW x \in S
  PROVE  /\ Append(s, x) \in Seq(S) /\ Len(Append(s, x)) = Len(s) + 1
         /\ DOMAIN Append(s, x) = DOMAIN s \cup {Len(s) + 1}
         /\ \A k \in DOMAIN s : Append(s, x)[k] = s[k]
         /\ Append(s, x)[Len(s) + 1] = x
BY AppendProperties

---------------------------------------------------------------------------
(* The evidence log. *)

\* While a process has the log open its counter covers the log, it remembers
\* every claim it returned or read, and what it appends is a record it may still
\* make, under an identifier that nothing carries yet.
CallsCoverLog ==
  /\ Len(log) <= MaxCalls
  /\ pc # "closed" => /\ Len(log) <= callCount /\ callCount <= MaxCalls
                      /\ Faulty!ClaimIsKnown => terminal
  /\ pc = "append" => /\ pending \in Faulty!Record /\ Len(log) < callCount /\ ~terminal
                      /\ \A k \in DOMAIN log : log[k].id < pending.id
                      /\ \A i \in issued : i < pending.id
                      /\ pending.id <= fresh
  /\ pc \in {"torn", "truncate"} => tail # Nil
  /\ \A k \in DOMAIN log : log[k].id <= fresh
  /\ \A i \in issued : i <= fresh

EvidenceInv == Faulty!TypeOK /\ CallsCoverLog

\* Without failed appends a torn line is left by a death only, its bytes are in
\* quarantine before the file is cut, what may be cited is on record, and a claim
\* is the last record, which every process remembers.
NothingIsLost ==
  /\ pc \in {"idle", "append"} => tail = Nil
  /\ pc = "truncate" => tail \in quarantined
  /\ issued \subseteq Log!LoggedIds
  /\ \A e \in effects : e.cites \subseteq Log!LoggedIds
  /\ \A k \in DOMAIN log : log[k].kind = "claim" => k = Len(log)
  /\ pc # "closed" /\ Log!Claimed => terminal

LEMMA EvidenceStarts == Log!Init => EvidenceInv /\ NothingIsLost
<1> SUFFICES ASSUME Log!Init PROVE EvidenceInv /\ NothingIsLost
  OBVIOUS
<1>1. Faulty!TypeOK
  <2>1. 0 \in 0 .. MaxId /\ log \in Seq(Faulty!Record \cup {Faulty!Corrupt})
    BY StoresAssumption DEF Log!Init, Log!CallsAssumption
  <2>2. QED
    BY <2>1 DEF Log!Init, Faulty!TypeOK
<1>2. CallsCoverLog /\ NothingIsLost
  BY StoresAssumption DEF Log!Init, Log!CallsAssumption, CallsCoverLog, NothingIsLost
<1>3. QED
  BY <1>1, <1>2 DEF EvidenceInv

\* A step of the log that cannot fail is a step of the one that can.
LEMMA LogStepIsFaulty == Log!Next => Faulty!Next
<1> SUFFICES ASSUME Log!Next PROVE Faulty!Next
  OBVIOUS
<1>1. CASE \/ Log!Open \/ Log!Quarantine \/ Log!Truncate \/ Log!Append_ \/ Log!AppendFails \/ Log!Die
  BY <1>1 DEF Faulty!Next, Log!Open, Log!Quarantine, Log!Truncate, Log!Append_, Log!AppendFails, Log!Die,
     Faulty!Open, Faulty!Quarantine, Faulty!Truncate, Faulty!Append_, Faulty!AppendFails, Faulty!Die,
     Log!WriteLine, Faulty!WriteLine,
     Log!Readable, Faulty!Readable, Log!Corrupt, Faulty!Corrupt, Log!mem, Faulty!mem, Log!ReplayIds, Faulty!ReplayIds,
     Log!ReplayCalls, Faulty!ReplayCalls, Log!ReplayTerminal, Faulty!ReplayTerminal, Log!LoggedIds, Faulty!LoggedIds,
     Log!Claimed, Faulty!Claimed
<1>2. CASE \E source \in Log!Sources : \E cites \in Log!CitesOf(source) : Log!Call(source, cites)
  BY <1>2 DEF Faulty!Next, Log!Call, Faulty!Call, Log!Sources, Faulty!Sources, Log!CitesOf, Faulty!CitesOf, Log!Cites,
     Faulty!Cites, Log!MayCall, Faulty!MayCall, Log!Admissible, Faulty!Admissible, Log!Kinds, Faulty!Kinds
<1>3. QED
  BY <1>1, <1>2 DEF Log!Next

\* What reaches the file is one more line, the record that was to be appended or
\* one that does not parse.
LEMMA LineWritten ==
  ASSUME EvidenceInv, Faulty!WriteLine
  PROVE  \E line \in Faulty!Record \cup {Faulty!Corrupt} :
           /\ log' = Append(log, line) /\ log' \in Seq(Faulty!Record \cup {Faulty!Corrupt})
           /\ Len(log') = Len(log) + 1 /\ DOMAIN log' = DOMAIN log \cup {Len(log) + 1}
           /\ \A k \in DOMAIN log : log'[k] = log[k]
           /\ log'[Len(log) + 1] = line
           /\ line = pending \/ (line.kind = "error" /\ line.id = 0)
<1>1. log \in Seq(Faulty!Record \cup {Faulty!Corrupt}) /\ pending \in Faulty!Record
  BY DEF EvidenceInv, CallsCoverLog, Faulty!TypeOK, Faulty!WriteLine
<1>2. Faulty!Corrupt.kind = "error" /\ Faulty!Corrupt.id = 0
  BY DEF Faulty!Corrupt
<1>3. PICK line \in Faulty!Record \cup {Faulty!Corrupt} :
        log' = Append(log, line) /\ (line = pending \/ (line.kind = "error" /\ line.id = 0))
  <2>1. CASE tail = Nil
    BY <2>1, <1>1 DEF Faulty!WriteLine
  <2>2. CASE tail # Nil
    BY <2>2, <1>2 DEF Faulty!WriteLine
  <2>3. QED
    BY <2>1, <2>2
<1>4. QED
  BY <1>1, <1>3, Appended

LEMMA WrittenLineIsCovered ==
  ASSUME EvidenceInv, Faulty!WriteLine,
         \/ issued' = issued \cup {pending.id} /\ terminal' = (pending.kind = "claim")
         \/ UNCHANGED <<issued, terminal>>
  PROVE  EvidenceInv'
<1> USE StoresAssumption DEF Log!CallsAssumption
<1>1. PICK line \in Faulty!Record \cup {Faulty!Corrupt} :
        /\ log' = Append(log, line) /\ log' \in Seq(Faulty!Record \cup {Faulty!Corrupt})
        /\ Len(log') = Len(log) + 1 /\ DOMAIN log' = DOMAIN log \cup {Len(log) + 1}
        /\ \A k \in DOMAIN log : log'[k] = log[k]
        /\ log'[Len(log) + 1] = line
        /\ line = pending \/ (line.kind = "error" /\ line.id = 0)
  BY LineWritten
<1>2. /\ Len(log) < callCount /\ callCount <= MaxCalls /\ ~terminal /\ pending \in Faulty!Record
      /\ (\A k \in DOMAIN log : log[k].id < pending.id) /\ (\A i \in issued : i < pending.id)
      /\ pending.id <= fresh /\ ~Faulty!ClaimIsKnown
      /\ log \in Seq(Faulty!Record \cup {Faulty!Corrupt}) /\ issued \subseteq 1 .. MaxId
      /\ callCount \in Nat /\ fresh \in 0 .. MaxId /\ terminal \in BOOLEAN
      /\ (\A i \in issued : i <= fresh)
  BY DEF EvidenceInv, CallsCoverLog, Faulty!TypeOK, Faulty!WriteLine
<1>3. pending.id \in 1 .. MaxId /\ Len(log) \in Nat /\ DOMAIN log = 1 .. Len(log)
  BY <1>2 DEF Faulty!Record
<1>4. /\ pc' = "idle" /\ pending' = Nil /\ tail' = Nil
      /\ UNCHANGED <<quarantined, callCount, fresh, effects>>
  BY DEF Faulty!WriteLine
<1>5. issued' \subseteq 1 .. MaxId /\ terminal' \in BOOLEAN
  BY <1>2, <1>3
<1>6. Faulty!TypeOK'
  BY <1>1, <1>2, <1>4, <1>5 DEF EvidenceInv, Faulty!TypeOK
<1>7. \A k \in DOMAIN log' : log'[k].id <= fresh'
  BY <1>1, <1>2, <1>3, <1>4 DEF EvidenceInv, CallsCoverLog
<1>8. \A i \in issued' : i <= fresh'
  BY <1>2, <1>4
<1>9. Faulty!ClaimIsKnown' => terminal'
  <2> SUFFICES ASSUME NEW k \in DOMAIN log', log'[k].kind = "claim", log'[k].id \in issued'
               PROVE  terminal'
    BY DEF Faulty!ClaimIsKnown
  <2>1. CASE k \in DOMAIN log
    <3>1. log[k].kind = "claim" /\ log[k].id < pending.id /\ log[k].id \in issued'
      BY <2>1, <1>1, <1>2
    <3>2. log[k].id # pending.id
      BY <3>1, <1>2, <1>3, <2>1 DEF Faulty!Record, Faulty!Corrupt
    <3>3. log[k].id \in issued
      BY <3>1, <3>2
    <3>4. QED
      BY <3>1, <3>3, <2>1, <1>2 DEF Faulty!ClaimIsKnown
  <2>2. CASE k = Len(log) + 1
    <3>1. pending.kind = "claim" /\ pending.id \in issued'
      BY <2>2, <1>1
    <3>2. pending.id \notin issued
      BY <1>2, <1>3
    <3>3. QED
      BY <3>1, <3>2
  <2>3. QED
    BY <2>1, <2>2, <1>1
<1>10. CallsCoverLog'
  BY <1>1, <1>2, <1>3, <1>4, <1>7, <1>8, <1>9 DEF CallsCoverLog
<1>11. QED
  BY <1>6, <1>10 DEF EvidenceInv

LEMMA EvidenceStep ==
  ASSUME EvidenceInv, Faulty!Next
  PROVE  EvidenceInv'
<1> USE StoresAssumption DEF Log!CallsAssumption
<1> USE DEF EvidenceInv, CallsCoverLog, Faulty!TypeOK, Faulty!ClaimIsKnown, Faulty!mem
<1>1. CASE Faulty!Open
  <2>1. \A i \in Faulty!LoggedIds : i \in 1 .. MaxId /\ i <= fresh
    BY DEF Faulty!LoggedIds, Faulty!Record, Faulty!Corrupt
  <2>2. QED
    BY <1>1, <2>1 DEF Faulty!Open, Faulty!ReplayIds, Faulty!ReplayCalls, Faulty!ReplayTerminal, Faulty!Claimed
<1>2. CASE Faulty!Quarantine
  BY <1>2 DEF Faulty!Quarantine
<1>3. CASE Faulty!Truncate
  BY <1>3 DEF Faulty!Truncate
<1>4. CASE Faulty!Append_
  <2> HIDE DEF EvidenceInv
  <2> QED BY <1>4, WrittenLineIsCovered DEF Faulty!Append_
<1>5. CASE Faulty!AppendFails
  <2>1. CASE Faulty!WriteLine /\ UNCHANGED <<issued, terminal>>
    <3> HIDE DEF EvidenceInv
    <3> QED BY <2>1, WrittenLineIsCovered
  <2>2. CASE ~(Faulty!WriteLine /\ UNCHANGED <<issued, terminal>>)
    BY <1>5, <2>2 DEF Faulty!AppendFails
  <2>3. QED
    BY <2>1, <2>2
<1>6. CASE Faulty!Die
  BY <1>6 DEF Faulty!Die
<1>7. ASSUME NEW source \in Faulty!Sources, NEW cites \in Faulty!CitesOf(source), Faulty!Call(source, cites)
      PROVE  EvidenceInv'
  <2>1. \A sort \in Faulty!Kinds(source) : sort \in {"response", "error", "claim"}
    BY DEF Faulty!Kinds
  <2>2. fresh' = fresh + 1 /\ fresh + 1 \in 1 .. MaxId /\ cites \in SUBSET (1 .. MaxId)
    BY <1>7 DEF Faulty!Call, Faulty!CitesOf, Faulty!Cites
  <2>3. \A sort \in {"response", "error", "claim"} :
          LET line == [id |-> fresh + 1, source |-> source, kind |-> sort, cites |-> cites]
          IN line \in Faulty!Record /\ line.id = fresh + 1
    BY <2>2 DEF Faulty!Record, Faulty!Cites
  <2>4. pending' \in Faulty!Record /\ pending'.id = fresh + 1 /\ effects' \subseteq Faulty!Record
    BY <1>7, <2>1, <2>3 DEF Faulty!Call
  <2>5. /\ UNCHANGED <<log, tail, quarantined, issued, terminal>> /\ callCount' = callCount + 1
        /\ callCount < MaxCalls /\ ~terminal /\ pc = "idle" /\ pc' = "append"
    BY <1>7 DEF Faulty!Call, Faulty!MayCall
  <2>6. fresh \in Nat /\ (\A k \in DOMAIN log : log[k].id \in Nat /\ log[k].id <= fresh)
        /\ (\A i \in issued : i \in Nat /\ i <= fresh)
    BY DEF Faulty!Record, Faulty!Corrupt
  <2>7. (\A k \in DOMAIN log : log[k].id < fresh + 1 /\ log[k].id <= fresh + 1)
        /\ (\A i \in issued : i < fresh + 1 /\ i <= fresh + 1)
    <3> HIDE DEF EvidenceInv, CallsCoverLog, Faulty!TypeOK
    <3> QED BY <2>6
  <2>8. QED
    BY <2>2, <2>4, <2>5, <2>7
<1>8. QED
  BY <1>1, <1>2, <1>3, <1>4, <1>5, <1>6, <1>7 DEF Faulty!Next

LEMMA NothingIsLostStep ==
  ASSUME EvidenceInv, NothingIsLost, Log!Next
  PROVE  NothingIsLost'
<1> USE DEF NothingIsLost, EvidenceInv, CallsCoverLog, Faulty!TypeOK, Log!mem, Log!Claimed
<1>1. CASE Log!Open
  BY <1>1 DEF Log!Open, Log!ReplayIds, Log!ReplayTerminal, Log!LoggedIds
<1>2. CASE Log!Quarantine
  BY <1>2 DEF Log!Quarantine, Log!LoggedIds
<1>3. CASE Log!Truncate
  BY <1>3 DEF Log!Truncate, Log!LoggedIds
<1>4. CASE Log!Append_
  <2>1. /\ pending \in Faulty!Record /\ log' = Append(log, pending) /\ issued' = issued \cup {pending.id}
        /\ effects' = effects /\ tail' = Nil /\ pc' = "idle" /\ ~Log!Claimed
        /\ (pending.kind = "claim" => terminal')
    BY <1>4 DEF Log!Append_, Log!WriteLine
  <2>2. /\ DOMAIN log' = DOMAIN log \cup {Len(log) + 1} /\ (\A k \in DOMAIN log : log'[k] = log[k])
        /\ log'[Len(log) + 1] = pending /\ Len(log') = Len(log) + 1
    BY <2>1, Appended
  <2>3. Log!LoggedIds' = Log!LoggedIds \cup {pending.id}
    <3>1. pending.id # 0
      BY <2>1 DEF Faulty!Record
    <3> HIDE DEF NothingIsLost, EvidenceInv, CallsCoverLog, Faulty!TypeOK
    <3> QED
      BY <3>1, <2>2 DEF Log!LoggedIds
  <2>4. \A k \in DOMAIN log' : log'[k].kind = "claim" => k = Len(log') /\ terminal'
    BY <2>1, <2>2
  <2>5. QED
    BY <2>1, <2>3, <2>4
<1>5. CASE Log!AppendFails
  BY <1>5 DEF Log!AppendFails
<1>6. CASE Log!Die
  BY <1>6 DEF Log!Die, Log!LoggedIds
<1>7. ASSUME NEW source \in Log!Sources, NEW cites \in Log!CitesOf(source), Log!Call(source, cites)
      PROVE  NothingIsLost'
  <2>1. \A e \in effects' : e \in effects \/ e.cites \subseteq issued
    BY <1>7 DEF Log!Call, Log!Admissible
  <2>2. QED
    BY <1>7, <2>1 DEF Log!Call, Log!LoggedIds
<1>8. QED
  BY <1>1, <1>2, <1>3, <1>4, <1>5, <1>6, <1>7 DEF Log!Next

LEMMA SoundLogs ==
  ASSUME EvidenceInv
  PROVE  Faulty!LogIsSound /\ (NothingIsLost => Log!LogIsSound)
BY DEF EvidenceInv, NothingIsLost, CallsCoverLog, Faulty!LogIsSound, Log!LogIsSound, Faulty!TypeOK, Log!TypeOK,
   Faulty!ClaimEndsTheLog, Log!ClaimEndsTheLog, Faulty!BudgetSurvives, Log!BudgetSurvives,
   Faulty!CitedIsOnRecord, Log!CitedIsOnRecord, Faulty!IssuedSurvive, Log!IssuedSurvive, Faulty!Record, Log!Record,
   Faulty!Corrupt, Log!Corrupt, Faulty!Cites, Log!Cites, Faulty!Sources, Log!Sources

\* What a step does to the records of the log and to the proposals made.
LEMMA LogGrowsByAStep ==
  ASSUME EvidenceInv, Faulty!Next
  PROVE  /\ Faulty!CommittedStays /\ Faulty!ClaimIsFinal
         /\ pc = "closed" \/ terminal => UNCHANGED <<log, effects>>
<1>1. /\ log \in Seq(Faulty!Record \cup {Faulty!Corrupt}) /\ (pc # "closed" /\ Faulty!ClaimIsKnown => terminal)
      /\ (pc = "append" => ~terminal)
  BY DEF EvidenceInv, CallsCoverLog, Faulty!TypeOK
<1>2. log' = log \/ \E line : log' = Append(log, line)
  BY DEF Faulty!Next, Faulty!Open, Faulty!Quarantine, Faulty!Truncate, Faulty!Append_, Faulty!AppendFails,
     Faulty!WriteLine, Faulty!Die, Faulty!Call
<1>3. Faulty!CommittedStays
  BY <1>1, <1>2 DEF Faulty!CommittedStays, Faulty!IsPrefix
<1>4. pc = "closed" \/ terminal => UNCHANGED <<log, effects>>
  BY <1>1 DEF Faulty!Next, Faulty!Open, Faulty!Quarantine, Faulty!Truncate, Faulty!Append_, Faulty!AppendFails,
     Faulty!WriteLine, Faulty!Die, Faulty!Call, Faulty!MayCall
<1>5. QED
  BY <1>1, <1>3, <1>4 DEF Faulty!ClaimIsFinal

LEMMA TornLineIsKept ==
  ASSUME NothingIsLost, Log!Next
  PROVE  Log!TornBytesAreKept
BY DEF NothingIsLost, Log!TornBytesAreKept, Log!Next, Log!Open, Log!Quarantine, Log!Truncate, Log!Append_,
   Log!WriteLine, Log!AppendFails, Log!Die, Log!Call

\* EvidenceStands: replayed after any death, the log keeps its records, ends with
\* its claim and is all a proposal cites; where appends fail in a process that
\* goes on, before or after their line is on disk, it keeps its records and its
\* budget, and ends for all who know of its claim (toolbox.py).
THEOREM EvidenceLogStands == MCSpec => EvidenceStands
<1> DEFINE Inv == /\ part \in {"evidence", "faulty"} => EvidenceInv
                  /\ part = "evidence" => NothingIsLost
<1>1. MCInit => Inv
  BY EvidenceStarts DEF MCInit
<1>2. Inv /\ [MCNext]_mcvars => Inv'
  <2> SUFFICES ASSUME Inv, [MCNext]_mcvars PROVE Inv'
    OBVIOUS
  <2>1. CASE part = "evidence" /\ Log!Next /\ UNCHANGED part
    BY <2>1, LogStepIsFaulty, EvidenceStep, NothingIsLostStep
  <2>2. CASE part = "faulty" /\ Faulty!Next /\ UNCHANGED part
    BY <2>2, EvidenceStep
  <2>3. CASE part \notin {"evidence", "faulty"} /\ UNCHANGED part
    BY <2>3
  <2>4. CASE UNCHANGED mcvars
    BY <2>4 DEF mcvars, evidence, EvidenceInv, NothingIsLost, CallsCoverLog, Faulty!TypeOK, Faulty!ClaimIsKnown,
       Log!Claimed, Log!LoggedIds
  <2>5. QED
    BY <2>1, <2>2, <2>3, <2>4 DEF MCNext
<1>3. Inv => /\ part = "evidence" => Log!LogIsSound
             /\ part = "faulty" => Faulty!LogIsSound
  BY SoundLogs
<1>4. Inv /\ [MCNext]_mcvars => /\ [part = "evidence" => Log!LogOnlyGrows]_mcvars
                               /\ [part = "faulty" => Faulty!LogOnlyGrows]_mcvars
  <2> SUFFICES ASSUME Inv, MCNext
               PROVE  /\ part = "evidence" => Log!LogOnlyGrows
                      /\ part = "faulty" => Faulty!LogOnlyGrows
    OBVIOUS
  <2>1. ASSUME part = "evidence" PROVE Log!LogOnlyGrows
    BY <2>1, LogStepIsFaulty, LogGrowsByAStep, TornLineIsKept
       DEF MCNext, Log!LogOnlyGrows, Log!CommittedStays, Faulty!CommittedStays, Log!ClaimIsFinal,
           NothingIsLost, Log!IsPrefix, Faulty!IsPrefix
  <2>2. ASSUME part = "faulty" PROVE Faulty!LogOnlyGrows
    BY <2>2, LogGrowsByAStep DEF MCNext, Faulty!LogOnlyGrows, Faulty!TornBytesAreKept
  <2>3. QED
    BY <2>1, <2>2
<1>5. QED
  BY <1>1, <1>2, <1>3, <1>4, PTL DEF MCSpec, EvidenceStands
---------------------------------------------------------------------------
(* The authored actors. *)

\* What has been proposed at each place of an actor: a second proposal follows a
\* first one that did not land, and the report of the last one is no lie.
ProposalsAreKnown ==
  /\ Len(landed) <= 2 /\ (Len(landed) = 2 => landed[1] = FALSE)
  /\ pc \in {"observe", "decide"} => Len(landed) = 0
  /\ pc = "propose" => (Len(landed) = 0 \/ (Len(landed) = 1 /\ landed[1] = FALSE))
  /\ pc \in {"reply", "refresh", "lookup", "judge"} =>
       /\ Len(landed) \in 1 .. 2 /\ operation \in Actors!Statuses
       /\ operation = "conflict" => landed[Len(landed)] = FALSE
  /\ pc = "refresh" => Len(landed) = 1 /\ landed[1] = FALSE
  /\ pc \in {"verify", "conclude"} => Len(landed) = 0 \/ operation \in {"acknowledged", "desired"}

Verdict == [passed : BOOLEAN, after : Nat]

\* An actor verifies once, after its proposals, and claims at the end.
VerdictIsLast ==
  /\ verdicts \in Seq(Verdict) /\ Len(verdicts) \in {0, 1}
  /\ Len(verdicts) = 1 => verdicts[1].after = Len(landed) /\ pc \in {"conclude", "done"}
  /\ pc = "conclude" => Len(verdicts) = 1
  /\ pc # "done" => claim = "none"

\* A runbook proposes by the program's decision, at a Service that fails.
ProposesForAFault ==
  kind = "runbook" => /\ pc = "propose" \/ Len(landed) > 0 => choices.repairable_routing = "repair"
                      /\ pc = "propose" => ~Actors!Correct

ActorInv == /\ Actors!TypeOK /\ ProposalsAreKnown /\ VerdictIsLast /\ ProposesForAFault
            /\ Actors!ClaimsAreVerified

LEMMA ActorStarts == Actors!Init => ActorInv
<1> SUFFICES ASSUME Actors!Init PROVE ActorInv
  OBVIOUS
<1>1. landed \in Seq(BOOLEAN) /\ Len(landed) = 0 /\ verdicts \in Seq(Verdict) /\ Len(verdicts) = 0
  BY DEF Actors!Init
<1>2. view \in Actors!Observations
  BY DEF Actors!Init, Actors!Observations
<1>3. QED
  BY <1>1, <1>2 DEF Actors!Init, ActorInv, Actors!TypeOK, ProposalsAreKnown, VerdictIsLast, ProposesForAFault,
     Actors!ClaimsAreVerified

LEMMA ActorStep ==
  ASSUME ActorInv, Actors!Next
  PROVE  ActorInv'
<1> USE DEF ActorInv, Actors!TypeOK, ProposalsAreKnown, VerdictIsLast, ProposesForAFault, Actors!ClaimsAreVerified,
            Actors!Goto, Actors!Correct
<1>1. CASE Actors!Observe
  BY <1>1 DEF Actors!Observe
<1>2. CASE Actors!Decide
  <2>1. /\ pc = "decide" /\ UNCHANGED <<kind, choices, view, operation, landed, verdicts, claim>>
        /\ \/ pc' = "verify"
           \/ pc' = "propose" /\ ~Actors!Correct /\ choices.repairable_routing = "repair"
    BY <1>2 DEF Actors!Decide, Actors!Repairable
  <2>2. Actors!TypeOK'
    BY <2>1
  <2>3. ProposalsAreKnown'
    <3>1. pc' \in {"verify", "propose"} /\ Len(landed') = 0
      BY <2>1
    <3> HIDE DEF ActorInv
    <3>2. QED
      BY <3>1
  <2>4. VerdictIsLast'
    BY <2>1
  <2>5. ProposesForAFault' /\ Actors!ClaimsAreVerified'
    BY <2>1
  <2>6. QED
    BY <2>2, <2>3, <2>4, <2>5
<1>3. CASE Actors!Decline
  BY <1>3 DEF Actors!Decline, Actors!Finish
<1>4. CASE Actors!Reconcile
  <2>1. CASE view.scope /\ Actors!Goto(IF view.target THEN "verify" ELSE "propose")
    <3>1. /\ pc = "decide" /\ kind = "reconciler" /\ pc' \in {"verify", "propose"}
          /\ UNCHANGED <<kind, choices, view, operation, landed, verdicts, claim>>
      BY <1>4, <2>1 DEF Actors!Reconcile, Actors!Finish
    <3>2. Actors!TypeOK'
      BY <3>1
    <3>3. ProposalsAreKnown'
      <4>1. pc' \in {"verify", "propose"} /\ Len(landed') = 0
        BY <3>1
      <4> HIDE DEF ActorInv
      <4>2. QED
        BY <4>1
    <3>4. VerdictIsLast'
      BY <3>1
    <3>5. ProposesForAFault' /\ Actors!ClaimsAreVerified'
      BY <3>1
    <3>6. QED
      BY <3>2, <3>3, <3>4, <3>5
  <2>2. CASE Actors!Finish("escalated")
    BY <1>4, <2>2 DEF Actors!Reconcile, Actors!Finish
  <2>3. QED
    BY <1>4, <2>1, <2>2 DEF Actors!Reconcile
<1>5. CASE Actors!Propose
  <2>1. PICK status \in Actors!Statuses \ {"desired"}, truth \in BOOLEAN :
          /\ truth \in Actors!Truths(status) /\ operation' = status
          /\ landed' = Append(landed, truth)
    BY <1>5 DEF Actors!Propose
  <2>2. status = "conflict" => truth = FALSE
    BY <2>1 DEF Actors!Truths
  <2>3. /\ landed' \in Seq(BOOLEAN) /\ Len(landed') = Len(landed) + 1 /\ landed'[Len(landed')] = truth
        /\ Len(landed) = 1 => landed'[1] = landed[1]
    <3>1. landed \in Seq(BOOLEAN) /\ truth \in BOOLEAN
      OBVIOUS
    <3>2. QED
      BY <2>1, <3>1, AppendProperties
  <2>4. /\ pc = "propose" /\ pc' = "reply" /\ UNCHANGED <<kind, choices, view, verdicts, claim>>
    BY <1>5 DEF Actors!Propose
  <2>5. QED
    BY <2>1, <2>2, <2>3, <2>4
<1>6. CASE Actors!Refresh
  BY <1>6 DEF Actors!Refresh, Actors!MayRefresh
<1>7. CASE Actors!RefreshDecided
  BY <1>7 DEF Actors!RefreshDecided, Actors!SameFault
<1>8. CASE Actors!Lookup
  BY <1>8 DEF Actors!Lookup, Actors!Truths
<1>9. CASE Actors!Judge
  BY <1>9 DEF Actors!Judge, Actors!Finish, Actors!Settled
<1>10. CASE Actors!Verify
  <2>1. PICK passed \in BOOLEAN : verdicts' = Append(verdicts, [passed |-> passed, after |-> Len(landed)])
    BY <1>10 DEF Actors!Verify
  <2>2. verdicts' \in Seq(Verdict) /\ Len(verdicts') = 1 /\ verdicts'[1].after = Len(landed)
    <3>1. verdicts \in Seq(Verdict) /\ [passed |-> passed, after |-> Len(landed)] \in Verdict
          /\ Len(verdicts) = 0
      <4>1. pc = "verify" /\ Len(landed) \in Nat
        BY <1>10 DEF Actors!Verify
      <4>2. [passed |-> passed, after |-> Len(landed)] \in Verdict
        BY <2>1, <4>1 DEF Verdict
      <4>3. verdicts \in Seq(Verdict) /\ Len(verdicts) = 0
        BY <4>1
      <4>4. QED
        BY <4>2, <4>3
    <3>2. QED
      BY <2>1, <3>1, AppendProperties
  <2>3. /\ pc = "verify" /\ pc' = "conclude" /\ UNCHANGED <<kind, choices, view, operation, landed, claim>>
    BY <1>10 DEF Actors!Verify
  <2>4. \A k \in DOMAIN verdicts' : verdicts'[k] \in [passed : BOOLEAN, after : Nat]
    <3>1. \A k \in DOMAIN verdicts' : verdicts'[k] \in Verdict
      BY <2>2
    <3>2. QED
      BY <3>1 DEF Verdict
  <2>5. QED
    BY <2>2, <2>3, <2>4
<1>11. CASE Actors!Conclude
  <2>1. pc = "conclude" /\ pc' = "done" /\ claim' \in {Actors!Conclusion, "none"}
        /\ kind' = kind /\ choices' = choices /\ view' = view /\ operation' = operation
        /\ landed' = landed /\ verdicts' = verdicts
    BY <1>11 DEF Actors!Conclude, Actors!Finish
  <2>2. Len(verdicts) = 1 /\ Actors!Conclusion \in {"escalated", "healthy", "resolved"}
        /\ (Actors!Conclusion # "escalated" => verdicts[1].passed)
        /\ (Actors!Conclusion = "healthy" => landed = <<>>)
        /\ (Actors!Conclusion = "resolved" => landed # <<>>)
    BY <2>1 DEF Actors!Conclusion
  <2>3. Actors!ClaimsAreVerified'
    <3>1. CASE claim' \in {"escalated", "none"}
      BY <3>1
    <3>2. CASE claim' = Actors!Conclusion /\ Actors!Conclusion \in {"healthy", "resolved"}
      <4>1. verdicts # <<>> /\ verdicts[Len(verdicts)].passed
            /\ verdicts[Len(verdicts)].after = Len(landed)
        BY <2>2, <3>2
      <4>2. landed # <<>> => operation \in {"acknowledged", "desired"}
        BY <2>1
      <4>3. QED
        BY <2>1, <2>2, <3>2, <4>1, <4>2
    <3>3. QED
      BY <2>1, <2>2, <3>1, <3>2
  <2>4. Actors!TypeOK' /\ ProposalsAreKnown'
    BY <2>1, <2>2
  <2>5. VerdictIsLast' /\ ProposesForAFault'
    BY <2>1, <2>2
  <2>6. QED
    BY <2>3, <2>4, <2>5
<1>12. QED
  BY <1>1, <1>2, <1>3, <1>4, <1>5, <1>6, <1>7, <1>8, <1>9, <1>10, <1>11 DEF Actors!Next

LEMMA CarefulActors == ActorInv => Actors!ActorIsCareful
<1> SUFFICES ASSUME ActorInv PROVE Actors!ActorIsCareful
  OBVIOUS
<1>1. landed \in Seq(BOOLEAN) /\ Len(landed) <= 2 /\ (Len(landed) = 2 => landed[1] = FALSE)
  BY DEF ActorInv, Actors!TypeOK, ProposalsAreKnown
<1>2. Actors!OneEffect
  <2>1. \A j, k \in DOMAIN landed : j # k => {j, k} = {1, 2} /\ Len(landed) = 2
    <3>1. DOMAIN landed = 1 .. Len(landed) /\ Len(landed) \in Nat
      BY <1>1
    <3>2. QED
      BY <1>1, <3>1
  <2>2. \A j, k \in DOMAIN landed : j # k => (j = 1 \/ k = 1) /\ landed[1] = FALSE
    BY <1>1, <2>1
  <2>3. QED
    BY <2>2 DEF Actors!OneEffect
<1>3. QED
  <2>1. Len(verdicts) <= 1
    <3>1. Len(verdicts) \in {0, 1}
      BY DEF ActorInv, VerdictIsLast
    <3>2. \A n \in {0, 1} : n <= 1
      OBVIOUS
    <3>3. QED
      BY <3>1, <3>2
  <2>2. QED
    BY <1>1, <1>2, <2>1 DEF ActorInv, Actors!ActorIsCareful, Actors!AttemptsAreFew

LEMMA ActorLeavesWorking ==
  ASSUME ActorInv, Actors!Next
  PROVE  Actors!WorkingIsLeftAlone
BY DEF ActorInv, ProposesForAFault, Actors!WorkingIsLeftAlone, Actors!Next, Actors!Observe, Actors!Decide,
   Actors!Decline, Actors!Reconcile, Actors!Propose, Actors!Refresh, Actors!RefreshDecided, Actors!Lookup,
   Actors!Judge, Actors!Verify, Actors!Conclude, Actors!Finish

\* ActorsRepairOnce: whatever the toolbox answers, an authored actor has one
\* effect at most, and claims what it verified after it (runbook.py).
THEOREM AuthoredActorsRepairOnce == MCSpec => ActorsRepairOnce
<1> DEFINE Inv == part = "actors" => ActorInv
<1>1. MCInit => Inv
  BY ActorStarts DEF MCInit
<1>2. Inv /\ [MCNext]_mcvars => Inv'
  <2> SUFFICES ASSUME Inv, [MCNext]_mcvars PROVE Inv'
    OBVIOUS
  <2>1. CASE part = "actors" /\ Actors!Next /\ UNCHANGED part
    BY <2>1, ActorStep
  <2>2. CASE part # "actors" /\ UNCHANGED part
    BY <2>2
  <2>3. CASE UNCHANGED mcvars
    BY <2>3 DEF mcvars, actors, ActorInv, Actors!TypeOK, ProposalsAreKnown, VerdictIsLast, ProposesForAFault,
       Actors!ClaimsAreVerified, Actors!Correct
  <2>4. QED
    BY <2>1, <2>2, <2>3 DEF MCNext
<1>3. Inv => (part = "actors" => Actors!ActorIsCareful)
  BY CarefulActors
<1>4. Inv /\ [MCNext]_mcvars => [part = "actors" => Actors!WorkingIsLeftAlone]_mcvars
  BY ActorLeavesWorking DEF MCNext
<1>5. QED
  BY <1>1, <1>2, <1>3, <1>4, PTL DEF MCSpec, ActorsRepairOnce
---------------------------------------------------------------------------
(* The mailbox.  Host has runs that crash, Calm has none. *)

ServedSet == {i \in Ids : served[i] > 0}

\* A process that is not up yet will be the boot of its transition, and requests
\* are of the boots there were.
BootsAreCounted ==
  /\ boots <= Host!Expected
  /\ process \in Host!Unbooted => boots < Host!Expected
  /\ process \notin Host!Unbooted => boots > 0
  /\ pc = "suspend" => /\ boots < Host!Expected
                       /\ process \in Host!Unbooted => boots + 1 < Host!Expected
  /\ pc \in {"suspended", "resume"} => process = "none"
  /\ phase = "absent" => process = "none"
  /\ \A i \in Ids : posted[i] <= boots

\* The session is on disk before a transition, and a run that is up has none
\* half done but its own.
SessionIsCurrent ==
  /\ ~opened => resumes = <<>> /\ \A i \in Ids : served[i] = 0
  /\ pc \in {"apply", "save"} => ~opened
  /\ pc \notin {"down", "apply", "save"} => opened
  /\ pc \in {"suspend", "suspended", "resume", "complete"} => Len(resumes) > 0 /\ since = runs
  /\ pc # "down" /\ Host!Incomplete => since = runs

InTransitionOrLoop == {"suspend", "suspended", "resume", "complete",
                       "poll", "charge", "serve", "respond", "collect"}

\* In the polling loop a request that was served is answered, or dead: its boot
\* is over.
ServedAreSettled ==
  /\ \A i \in Ids : served[i] <= 1
  /\ \A i \in Ids : posted[i] = 0 => served[i] = 0 /\ i \notin answered
  /\ pc \in {"apply", "save", "ready", "configure"} => \A i \in Ids : served[i] = 0
  /\ pc \in InTransitionOrLoop =>
       \A i \in Ids : served[i] > 0 => \/ i \in answered \/ posted[i] < Host!Expected
                                       \/ pc = "respond" /\ current = i
  /\ pc \in {"charge", "serve", "respond"} =>
       /\ current \in Ids \ answered
       /\ posted[current] = boots /\ boots = Host!Expected
       /\ served[current] = (IF pc = "respond" THEN 1 ELSE 0)

BudgetCovers ==
  /\ IsFiniteSet(ServedSet) /\ Cardinality(ServedSet) <= charged /\ charged <= MaxRpc
  /\ pc = "serve" => Cardinality(ServedSet) < charged

MailboxInv == Host!TypeOK /\ BootsAreCounted /\ SessionIsCurrent /\ ServedAreSettled /\ BudgetCovers

\* Without a crash of the host, a result is the one of the process of the last
\* transition.
ResultIsCurrent ==
  /\ pc \in {"reconfigure", "unlink", "begin", "suspend"} \/ outcome = "returned" => process = "ended"
  /\ pc \in {"begin", "suspend", "suspended", "resume"} => result = 0
  /\ pc # "down" \/ outcome = "returned" => (result # 0 => process = "ended" /\ result = boots)
  /\ pc = "collect" => result # 0
  /\ runs = 0 => ~opened /\ result = 0 /\ process = "none" /\ pc = "down"
  /\ outcome = "returned" => opened /\ pc = "down"

Transitions == {"started", "suspended", "complete"}

LEMMA Marked ==
  ASSUME NEW s \in Seq(Transitions), Len(s) > 0, NEW x \in Transitions
  PROVE  /\ [s EXCEPT ![Len(s)] = x] \in Seq(Transitions)
         /\ Len([s EXCEPT ![Len(s)] = x]) = Len(s)
OBVIOUS

\* A step of the guest changes neither the session nor what was served.
LEMMA GuestIsOutside ==
  ASSUME Host!GuestStep
  PROVE  UNCHANGED <<pc, current, runs, outcome, opened, resumes, since, charged, served, phase, answered>>
BY DEF Host!GuestStep, Host!GuestStarts, Host!GuestBoots, Host!GuestAsks, Host!GuestReturns, Host!GuestFinishes,
   Host!GuestFails, Host!hostVars, Host!session, Host!workspace

LEMMA MailboxStarts == Host!Init => MailboxInv /\ ResultIsCurrent
<1> SUFFICES ASSUME Host!Init PROVE MailboxInv /\ ResultIsCurrent
  OBVIOUS
<1>1. Host!TypeOK
  <2>1. /\ resumes \in Seq(Transitions) /\ posted \in [Ids -> Nat] /\ served \in [Ids -> Nat]
        /\ answered \subseteq Ids
    BY DEF Host!Init
  <2>2. QED
    BY <2>1 DEF Host!Init, Host!TypeOK, Transitions
<1>2. BootsAreCounted /\ SessionIsCurrent /\ ServedAreSettled /\ ResultIsCurrent
  BY DEF Host!Init, BootsAreCounted, SessionIsCurrent, ServedAreSettled, ResultIsCurrent, InTransitionOrLoop,
     Host!Expected, Host!Unbooted
<1>3. BudgetCovers
  <2>1. ServedSet = {}
    BY DEF Host!Init, ServedSet
  <2>2. QED
    BY <2>1, FS_EmptySet, StoresAssumption DEF Host!Init, BudgetCovers, Host!MailboxAssumption
<1>4. QED
  BY <1>1, <1>2, <1>3 DEF MailboxInv

LEMMA MailTypeStep ==
  ASSUME MailboxInv, Host!Next
  PROVE  Host!TypeOK'
<1> USE DEF MailboxInv, Host!TypeOK, Host!workspace, Host!guest, Host!session, Host!hostVars, Host!Goto, Host!Stop
<1>1. CASE Host!GuestStep
  <2>1. CASE Host!GuestStarts
    <3>1. failed' \in BOOLEAN
      BY <2>1 DEF Host!GuestStarts
    <3>2. process' \in {"configuring", "refused"}
      BY <2>1 DEF Host!GuestStarts
    <3>3. UNCHANGED <<posted, answered, result, boots, configured, phase, asking, current, pc, runs, charged, since,
                      outcome, opened, resumes, served>>
      BY <2>1 DEF Host!GuestStarts
    <3>4. QED
      BY <3>1, <3>2, <3>3
  <2>6. CASE Host!GuestBoots
    BY <2>6 DEF Host!GuestBoots
  <2>3. CASE Host!GuestReturns
    BY <2>3 DEF Host!GuestReturns
  <2>4. CASE Host!GuestFinishes \/ Host!GuestFails
    BY <2>4 DEF Host!GuestFinishes, Host!GuestFails
  <2>2. ASSUME NEW i \in Ids, Host!GuestAsks(i) PROVE Host!TypeOK'
    BY <2>2 DEF Host!GuestAsks
  <2>5. QED
    BY <1>1, <2>1, <2>2, <2>3, <2>4, <2>6 DEF Host!GuestStep
<1>2. CASE Host!HostOpens \/ Host!HostStops
  BY <1>2 DEF Host!HostOpens, Host!HostStops
<1>3. CASE Host!Apply \/ Host!SaveSession \/ Host!MailboxReady \/ Host!Configure \/ Host!Unlink
  <2>1. CASE Host!Apply
    BY <2>1 DEF Host!Apply
  <2>2. CASE Host!SaveSession
    <3>1. resumes' \in Seq(Transitions)
      BY <2>2 DEF Host!SaveSession
    <3>2. QED
      BY <2>2, <3>1 DEF Host!SaveSession, Transitions
  <2>3. CASE Host!MailboxReady
    BY <2>3 DEF Host!MailboxReady
  <2>4. CASE Host!Configure
    BY <2>4 DEF Host!Configure
  <2>5. CASE Host!Unlink
    BY <2>5 DEF Host!Unlink
  <2>6. QED
    BY <1>3, <2>1, <2>2, <2>3, <2>4, <2>5
<1>4. CASE Host!BeginTransition
  <2>1. resumes' \in Seq(Transitions)
    BY <1>4, AppendProperties DEF Host!BeginTransition, Transitions
  <2>2. QED
    BY <1>4, <2>1 DEF Host!BeginTransition, Transitions
<1>5. CASE Host!SuspensionSaved \/ Host!TransitionSaved
  <2>1. resumes' \in Seq(Transitions)
    BY <1>5, Marked DEF Host!SuspensionSaved, Host!TransitionSaved, Host!Mark, Transitions, SessionIsCurrent
  <2>2. QED
    BY <1>5, <2>1 DEF Host!SuspensionSaved, Host!TransitionSaved, Transitions
<1>6. CASE Host!Suspend \/ Host!Resume
  BY <1>6 DEF Host!Suspend, Host!Resume
<1>7. CASE Host!Poll \/ Host!Charge \/ Host!Collect
  BY <1>7 DEF Host!Poll, Host!Charge, Host!Collect, Host!Pending
<1>8. CASE Host!Serve \/ Host!Respond
  <2>1. current \in Ids
    BY <1>8 DEF Host!Serve, Host!Respond, ServedAreSettled
  <2>2. CASE Host!Serve
    <3>1. answered' = answered /\ served' = [served EXCEPT ![current] = @ + 1]
      BY <2>2 DEF Host!Serve
    <3>2. served \in [Ids -> Nat]
      OBVIOUS
    <3>3. served' \in [Ids -> Nat]
      BY ONLY <2>1, <3>1, <3>2
    <3>4. QED
      BY <2>2, <3>1, <3>3 DEF Host!Serve
  <2>3. CASE Host!Respond
    BY <2>1, <2>3 DEF Host!Respond
  <2>4. QED
    BY <1>8, <2>2, <2>3
<1>9. QED
  BY <1>1, <1>2, <1>3, <1>4, <1>5, <1>6, <1>7, <1>8 DEF Host!Next, Host!HostStep

\* How long the list of transitions is after a step, which is what a boot is
\* compared with.
LEMMA TransitionsMove ==
  ASSUME MailboxInv, Host!Next
  PROVE  /\ Len(resumes) \in Nat /\ Len(resumes') \in Nat
         /\ pc = "begin" => Len(resumes') \in {Len(resumes), Len(resumes) + 1}
         /\ pc = "begin" /\ pc' = "suspend" => Len(resumes') = Len(resumes) + 1
         /\ pc # "begin" => Len(resumes') = Len(resumes)
<1> USE DEF MailboxInv
<1>1. resumes \in Seq(Transitions) /\ resumes' \in Seq(Transitions)
  BY MailTypeStep DEF Host!TypeOK, Transitions
<1>2. CASE Host!BeginTransition
  BY <1>1, <1>2, AppendProperties DEF Host!BeginTransition, Transitions
<1>3. CASE Host!SuspensionSaved \/ Host!TransitionSaved
  <2>1. Len(resumes') = Len(resumes) /\ pc # "begin"
    BY <1>1, <1>3, Marked DEF Host!SuspensionSaved, Host!TransitionSaved, Host!Mark, Transitions, SessionIsCurrent
  <2>2. QED
    BY <1>1, <2>1
<1>4. CASE Host!SaveSession
  <2>1. resumes' = resumes /\ pc # "begin"
    BY <1>4 DEF Host!SaveSession, SessionIsCurrent
  <2>2. QED
    BY <1>1, <2>1
<1>5. CASE ~Host!BeginTransition /\ ~Host!SuspensionSaved /\ ~Host!TransitionSaved /\ ~Host!SaveSession
  <2>1. resumes' = resumes /\ (pc = "begin" => pc' # "suspend")
    <3>1. CASE Host!GuestStep
      BY <3>1, GuestIsOutside
    <3>2. CASE Host!HostOpens \/ Host!HostStops
      BY <3>2 DEF Host!HostOpens, Host!HostStops, Host!session, Host!Stop
    <3>3. CASE Host!Apply \/ Host!MailboxReady \/ Host!Configure \/ Host!Unlink \/ Host!Suspend \/ Host!Resume
      BY <3>3 DEF Host!Apply, Host!MailboxReady, Host!Configure, Host!Unlink, Host!Suspend, Host!Resume, Host!session,
         Host!Stop, Host!Goto
    <3>4. CASE Host!Poll \/ Host!Charge \/ Host!Serve \/ Host!Respond \/ Host!Collect
      BY <3>4 DEF Host!Poll, Host!Charge, Host!Serve, Host!Respond, Host!Collect, Host!session, Host!Stop
    <3>5. QED
      BY <1>5, <3>1, <3>2, <3>3, <3>4 DEF Host!Next, Host!HostStep
  <2>2. QED
    BY <1>1, <2>1
<1>6. QED
  BY <1>2, <1>3, <1>4, <1>5

LEMMA BootsStep ==
  ASSUME MailboxInv, Host!Next
  PROVE  BootsAreCounted'
<1> USE DEF BootsAreCounted, Host!Expected, Host!Unbooted, Host!workspace, Host!guest, Host!session, Host!hostVars,
            Host!Goto, Host!Stop
<1>1. BootsAreCounted /\ boots \in Nat /\ posted \in [Ids -> Nat]
  BY DEF MailboxInv, Host!TypeOK
<1>2. /\ Len(resumes) \in Nat /\ Len(resumes') \in Nat
      /\ pc = "begin" => Len(resumes') \in {Len(resumes), Len(resumes) + 1}
      /\ pc = "begin" /\ pc' = "suspend" => Len(resumes') = Len(resumes) + 1
      /\ pc # "begin" => Len(resumes') = Len(resumes)
  BY TransitionsMove
<1>3. CASE Host!GuestStep
  <2>1. pc' = pc /\ phase' = phase /\ Len(resumes') = Len(resumes)
    BY <1>3, GuestIsOutside
  <2>2. CASE Host!GuestStarts \/ Host!GuestReturns \/ Host!GuestFinishes \/ Host!GuestFails
    BY <1>1, <1>2, <2>1, <2>2 DEF Host!GuestStarts, Host!GuestReturns, Host!GuestFinishes, Host!GuestFails
  <2>3. CASE Host!GuestBoots
    BY <1>1, <1>2, <2>1, <2>3 DEF Host!GuestBoots
  <2>4. ASSUME NEW i \in Ids, Host!GuestAsks(i) PROVE BootsAreCounted'
    BY <1>1, <1>2, <2>1, <2>4 DEF Host!GuestAsks
  <2>5. QED
    BY <1>3, <2>2, <2>3, <2>4 DEF Host!GuestStep
<1>4. CASE Host!HostOpens \/ Host!HostStops
  BY <1>1, <1>2, <1>4 DEF Host!HostOpens, Host!HostStops
<1>5. CASE Host!Apply \/ Host!SaveSession
  BY <1>1, <1>2, <1>5 DEF Host!Apply, Host!SaveSession
<1>6. CASE Host!MailboxReady \/ Host!Configure \/ Host!Unlink
  BY <1>1, <1>2, <1>6 DEF Host!MailboxReady, Host!Configure, Host!Unlink
<1>7. CASE Host!BeginTransition
  BY <1>1, <1>2, <1>7 DEF Host!BeginTransition
<1>8. CASE Host!Suspend \/ Host!Resume
  BY <1>1, <1>2, <1>8 DEF Host!Suspend, Host!Resume
<1>9. CASE Host!SuspensionSaved \/ Host!TransitionSaved
  BY <1>1, <1>2, <1>9 DEF Host!SuspensionSaved, Host!TransitionSaved
<1>10. CASE Host!Poll \/ Host!Charge \/ Host!Serve \/ Host!Respond \/ Host!Collect
  BY <1>1, <1>2, <1>10 DEF Host!Poll, Host!Charge, Host!Serve, Host!Respond, Host!Collect
<1>11. QED
  BY <1>3, <1>4, <1>5, <1>6, <1>7, <1>8, <1>9, <1>10 DEF Host!Next, Host!HostStep

LEMMA SessionStep ==
  ASSUME MailboxInv, Host!Next
  PROVE  SessionIsCurrent'
<1> USE DEF SessionIsCurrent, Host!workspace, Host!guest, Host!session, Host!Goto, Host!Stop
<1>1. SessionIsCurrent /\ served \in [Ids -> Nat] /\ resumes \in Seq(Transitions)
  BY DEF MailboxInv, Host!TypeOK, Transitions
<1>2. /\ Len(resumes) \in Nat /\ Len(resumes') \in Nat
      /\ pc = "begin" /\ pc' = "suspend" => Len(resumes') = Len(resumes) + 1
      /\ pc # "begin" => Len(resumes') = Len(resumes)
  BY TransitionsMove
<1>3. CASE Host!GuestStep
  BY <1>1, <1>3, GuestIsOutside DEF Host!Incomplete
<1>4. CASE Host!HostOpens
  <2>1. ~opened => ~Host!Incomplete
    BY <1>1 DEF Host!Incomplete
  <2>2. QED
    BY <1>1, <1>4, <2>1 DEF Host!HostOpens, Host!MayResume, Host!Incomplete
<1>5. CASE Host!HostStops
  BY <1>1, <1>5 DEF Host!HostStops
<1>6. CASE Host!Apply \/ Host!SaveSession
  BY <1>1, <1>6 DEF Host!Apply, Host!SaveSession, Host!Incomplete
<1>7. CASE Host!MailboxReady \/ Host!Configure \/ Host!Unlink
  BY <1>1, <1>7 DEF Host!MailboxReady, Host!Configure, Host!Unlink, Host!Incomplete
<1>8. CASE Host!BeginTransition
  BY <1>1, <1>2, <1>8 DEF Host!BeginTransition
<1>9. CASE Host!Suspend \/ Host!Resume
  BY <1>1, <1>9 DEF Host!Suspend, Host!Resume, Host!Incomplete
<1>10. CASE Host!SuspensionSaved \/ Host!TransitionSaved
  BY <1>1, <1>2, <1>10 DEF Host!SuspensionSaved, Host!TransitionSaved
<1>11. CASE Host!Poll \/ Host!Charge \/ Host!Collect
  BY <1>1, <1>11 DEF Host!Poll, Host!Charge, Host!Collect, Host!Incomplete
<1>12. CASE Host!Serve \/ Host!Respond
  BY <1>1, <1>12 DEF Host!Serve, Host!Respond, Host!Incomplete
<1>13. QED
  BY <1>3, <1>4, <1>5, <1>6, <1>7, <1>8, <1>9, <1>10, <1>11, <1>12 DEF Host!Next, Host!HostStep

LEMMA ServedStep ==
  ASSUME MailboxInv, Host!Next
  PROVE  ServedAreSettled'
<1> USE DEF ServedAreSettled, InTransitionOrLoop, Host!Expected, Host!workspace, Host!guest, Host!session,
            Host!hostVars, Host!Goto, Host!Stop
<1>1. /\ ServedAreSettled /\ boots \in Nat /\ posted \in [Ids -> Nat] /\ served \in [Ids -> Nat]
      /\ answered \subseteq Ids
  BY DEF MailboxInv, Host!TypeOK
<1>2. /\ boots <= Len(resumes) + 1 /\ (process \in Host!Unbooted => boots < Len(resumes) + 1)
      /\ (process \notin Host!Unbooted => boots > 0) /\ (\A i \in Ids : posted[i] <= boots)
  BY DEF MailboxInv, BootsAreCounted
<1>3. /\ Len(resumes) \in Nat /\ Len(resumes') \in Nat
      /\ pc = "begin" /\ pc' = "suspend" => Len(resumes') = Len(resumes) + 1
      /\ pc # "begin" => Len(resumes') = Len(resumes)
  BY TransitionsMove
<1>4. /\ ~opened => \A i \in Ids : served[i] = 0
      /\ pc \in {"apply", "save"} => ~opened
  BY DEF MailboxInv, SessionIsCurrent
<1>5. CASE Host!GuestStep
  <2>1. UNCHANGED <<pc, current, resumes, served, answered>>
    BY <1>5, GuestIsOutside
  <2>2. CASE Host!GuestStarts \/ Host!GuestReturns \/ Host!GuestFinishes \/ Host!GuestFails
    <3>1. posted' = posted /\ boots' = boots
      BY <2>2 DEF Host!GuestStarts, Host!GuestReturns, Host!GuestFinishes, Host!GuestFails
    <3>2. QED
      BY <1>1, <2>1, <3>1
  <2>3. CASE Host!GuestBoots
    <3>1. posted' = posted /\ boots # Len(resumes) + 1
      BY <1>1, <1>2, <1>3, <2>3 DEF Host!GuestBoots, Host!Unbooted
    <3>2. pc \notin {"charge", "serve", "respond"}
      BY <1>1, <3>1
    <3>3. QED
      BY <1>1, <2>1, <3>1, <3>2
  <2>4. ASSUME NEW i \in Ids, Host!GuestAsks(i) PROVE ServedAreSettled'
    <3>1. boots' = boots /\ posted[i] = 0 /\ posted' = [posted EXCEPT ![i] = boots] /\ boots > 0
      BY <1>2, <2>4 DEF Host!GuestAsks, Host!Unbooted
    <3>2. served[i] = 0 /\ (pc \in {"charge", "serve", "respond"} => current # i)
      BY <1>1, <3>1
    <3>3. QED
      BY <1>1, <2>1, <3>1, <3>2
  <2>5. QED
    BY <1>5, <2>2, <2>3, <2>4 DEF Host!GuestStep
<1>6. CASE Host!HostOpens \/ Host!HostStops
  BY <1>1, <1>4, <1>6 DEF Host!HostOpens, Host!HostStops, Host!MayResume
<1>7. CASE Host!Apply \/ Host!SaveSession \/ Host!MailboxReady \/ Host!Unlink
  BY <1>1, <1>7 DEF Host!Apply, Host!SaveSession, Host!MailboxReady, Host!Unlink
<1>8. CASE Host!Configure
  BY <1>1, <1>8 DEF Host!Configure
<1>9. CASE Host!BeginTransition
  <2>1. \A i \in Ids : posted[i] < Len(resumes') + 1
    BY <1>1, <1>2, <1>3, <1>9 DEF Host!BeginTransition
  <2>2. QED
    BY <1>1, <1>9, <2>1 DEF Host!BeginTransition
<1>10. CASE Host!Suspend \/ Host!Resume \/ Host!SuspensionSaved \/ Host!TransitionSaved
  BY <1>1, <1>3, <1>10 DEF Host!Suspend, Host!Resume, Host!SuspensionSaved, Host!TransitionSaved
<1>11. CASE Host!Poll
  <2>1. CASE pc' # "charge"
    BY <1>1, <1>11, <2>1 DEF Host!Poll
  <2>2. CASE pc' = "charge"
    <3>1. /\ current' \in Ids \ answered /\ posted[current'] = boots /\ boots = Len(resumes) + 1
          /\ UNCHANGED <<posted, answered, boots, resumes, served>> /\ pc = "poll"
      BY <1>11, <2>2 DEF Host!Poll, Host!Pending
    <3>2. served[current'] = 0
      BY <1>1, <1>3, <3>1
    <3>3. QED
      BY <1>1, <2>2, <3>1, <3>2
  <2>3. QED
    BY <2>1, <2>2
<1>12. CASE Host!Charge \/ Host!Collect
  BY <1>1, <1>12 DEF Host!Charge, Host!Collect
<1>13. CASE Host!Serve
  BY <1>1, <1>2, <1>3, <1>13 DEF Host!Serve
<1>14. CASE Host!Respond
  BY <1>1, <1>2, <1>3, <1>14 DEF Host!Respond
<1>15. QED
  BY <1>5, <1>6, <1>7, <1>8, <1>9, <1>10, <1>11, <1>12, <1>13, <1>14 DEF Host!Next, Host!HostStep

\* Only Serve serves, and a charge comes before it.
LEMMA OthersDoNotServe ==
  ASSUME Host!Next, ~Host!Serve, ~Host!Charge
  PROVE  served' = served /\ charged' = charged /\ (pc' = "serve" => pc = "serve")
<1> USE DEF Host!session, Host!workspace, Host!guest, Host!Stop, Host!Goto
<1>1. CASE Host!GuestStep
  BY <1>1, GuestIsOutside
<1>2. CASE Host!HostOpens \/ Host!HostStops
  BY <1>2 DEF Host!HostOpens, Host!HostStops
<1>3. CASE Host!Apply \/ Host!SaveSession \/ Host!MailboxReady \/ Host!Configure \/ Host!Unlink
  BY <1>3 DEF Host!Apply, Host!SaveSession, Host!MailboxReady, Host!Configure, Host!Unlink
<1>4. CASE Host!BeginTransition \/ Host!Suspend \/ Host!SuspensionSaved \/ Host!Resume \/ Host!TransitionSaved
  BY <1>4 DEF Host!BeginTransition, Host!Suspend, Host!SuspensionSaved, Host!Resume, Host!TransitionSaved
<1>5. CASE Host!Poll \/ Host!Respond \/ Host!Collect
  BY <1>5 DEF Host!Poll, Host!Respond, Host!Collect
<1>6. QED
  BY <1>1, <1>2, <1>3, <1>4, <1>5 DEF Host!Next, Host!HostStep

LEMMA BudgetStep ==
  ASSUME MailboxInv, Host!Next
  PROVE  BudgetCovers'
<1> USE DEF BudgetCovers
<1>1. /\ BudgetCovers /\ charged \in Nat /\ MaxRpc \in Nat /\ Cardinality(ServedSet) \in Nat
  BY FS_CardinalityType, StoresAssumption DEF MailboxInv, Host!TypeOK, Host!MailboxAssumption
<1>2. CASE Host!Charge
  <2>1. ServedSet' = ServedSet
    BY <1>2 DEF Host!Charge, ServedSet
  <2>2. \/ charged < MaxRpc /\ charged' = charged + 1
        \/ charged' = charged /\ pc' = "down"
    BY <1>2 DEF Host!Charge, Host!Stop
  <2>3. QED
    BY <1>1, <2>1, <2>2
<1>3. CASE Host!Serve
  <2>1. /\ ServedSet' = ServedSet \cup {current} /\ current \notin ServedSet /\ charged' = charged /\ pc = "serve"
        /\ pc' = "respond"
    BY <1>3 DEF Host!Serve, Host!Goto, ServedSet, MailboxInv, ServedAreSettled, Host!TypeOK
  <2>2. IsFiniteSet(ServedSet') /\ Cardinality(ServedSet') = Cardinality(ServedSet) + 1
    BY <1>1, <2>1, FS_AddElement
  <2>3. QED
    BY <1>1, <2>1, <2>2
<1>4. CASE ~Host!Charge /\ ~Host!Serve
  <2>1. served' = served /\ charged' = charged /\ (pc' = "serve" => pc = "serve")
    BY <1>4, OthersDoNotServe
  <2>2. ServedSet' = ServedSet
    BY <2>1 DEF ServedSet
  <2>3. QED
    BY <1>1, <2>1, <2>2
<1>5. QED
  BY <1>2, <1>3, <1>4

LEMMA MailboxStep ==
  ASSUME MailboxInv, Host!Next
  PROVE  MailboxInv'
BY MailTypeStep, BootsStep, SessionStep, ServedStep, BudgetStep DEF MailboxInv

\* What the steps do to requests that were served, and to an interrupted task.
LEMMA OnlyThisBootIsServed ==
  ASSUME MailboxInv, Host!Next
  PROVE  Host!OnlyThisBoot
<1>1. CASE Host!Serve
  <2>1. /\ current \in Ids /\ posted[current] = boots /\ boots = Host!Expected /\ served \in [Ids -> Nat]
        /\ (process \in Host!Unbooted => boots < Host!Expected)
        /\ boots \in Nat
    BY <1>1 DEF Host!Serve, MailboxInv, ServedAreSettled, BootsAreCounted, Host!TypeOK
  <2>2. process \notin Host!Unbooted
    BY <2>1
  <2>3. QED
    BY <1>1, <2>1, <2>2 DEF Host!Serve, Host!OnlyThisBoot
<1>2. CASE ~Host!Serve
  <2>1. served' = served
    BY <1>2, OthersDoNotServe DEF Host!Charge, Host!Stop
  <2>2. QED
    BY <2>1 DEF Host!OnlyThisBoot
<1>3. QED
  BY <1>1, <1>2

LEMMA InterruptedStays ==
  ASSUME MailboxInv, Host!Next
  PROVE  Host!InterruptedTransitionStays
<1> SUFFICES ASSUME Host!Incomplete, since # runs
             PROVE  UNCHANGED <<phase, configured, resumes, charged, served, answered>>
  BY DEF Host!InterruptedTransitionStays
<1>1. pc = "down"
  BY DEF MailboxInv, SessionIsCurrent
<1>2. CASE Host!GuestStep
  <2>1. configured' = configured
    BY <1>2 DEF Host!GuestStep, Host!GuestStarts, Host!GuestBoots, Host!GuestAsks, Host!GuestReturns,
       Host!GuestFinishes, Host!GuestFails, Host!workspace
  <2>2. QED
    BY <1>2, <2>1, GuestIsOutside
<1>3. CASE Host!HostOpens
  BY <1>3 DEF Host!HostOpens, Host!workspace, Host!session
<1>4. QED
  BY <1>1, <1>2, <1>3 DEF Host!Next, Host!HostStops, Host!HostStep, Host!Apply, Host!SaveSession, Host!MailboxReady,
     Host!Configure, Host!Unlink, Host!BeginTransition, Host!Suspend, Host!SuspensionSaved, Host!Resume,
     Host!TransitionSaved, Host!Poll, Host!Charge, Host!Serve, Host!Respond, Host!Collect

\* A host that does not crash takes steps of one that may.
LEMMA CalmStepIsHost == Calm!Next => Host!Next
<1> SUFFICES ASSUME Calm!Next PROVE Host!Next
  OBVIOUS
<1> USE DEF Calm!workspace, Host!workspace, Calm!guest, Host!guest, Calm!session, Host!session, Calm!hostVars,
            Host!hostVars, Calm!Goto, Host!Goto, Calm!Stop, Host!Stop
<1>1. CASE Calm!GuestStep
  BY <1>1 DEF Calm!GuestStep, Calm!GuestStarts, Calm!GuestBoots, Calm!GuestAsks, Calm!GuestReturns,
     Calm!GuestFinishes, Calm!GuestFails, Host!GuestStep, Host!GuestStarts, Host!GuestBoots, Host!GuestAsks,
     Host!GuestReturns, Host!GuestFinishes, Host!GuestFails, Host!Next
<1>2. CASE Calm!HostOpens
  BY <1>2 DEF Calm!HostOpens, Host!HostOpens, Calm!MayResume, Host!MayResume, Calm!Incomplete, Host!Incomplete, Host!Next
<1>3. CASE Calm!HostStops
  BY <1>3 DEF Calm!HostStops, Host!HostStops, Host!Next
<1>4. CASE Calm!HostStep
  BY <1>4 DEF Calm!HostStep, Calm!Apply, Calm!SaveSession, Calm!MailboxReady,
     Calm!Configure, Calm!Unlink, Calm!BeginTransition, Calm!Suspend, Calm!SuspensionSaved, Calm!Resume,
     Calm!TransitionSaved, Calm!Poll, Calm!Charge, Calm!Serve, Calm!Respond, Calm!Collect, Calm!Mark, Calm!Pending,
     Calm!Expected, Host!Next, Host!HostStep, Host!Apply, Host!SaveSession, Host!MailboxReady,
     Host!Configure, Host!Unlink, Host!BeginTransition, Host!Suspend, Host!SuspensionSaved, Host!Resume,
     Host!TransitionSaved, Host!Poll, Host!Charge, Host!Serve, Host!Respond, Host!Collect, Host!Mark, Host!Pending,
     Host!Expected
<1>5. QED
  BY <1>1, <1>2, <1>3, <1>4 DEF Calm!Next

LEMMA ResultStep ==
  ASSUME MailboxInv, ResultIsCurrent, Calm!Next
  PROVE  ResultIsCurrent'
<1> USE DEF ResultIsCurrent, Calm!workspace, Calm!guest, Calm!session, Calm!hostVars, Calm!Goto, Calm!Stop
<1>1. /\ ResultIsCurrent /\ runs \in Nat /\ boots \in Nat /\ (process = "running" => boots > 0)
      /\ (pc \in {"suspended", "resume"} => process = "none") /\ (phase = "absent" => process = "none")
      /\ (pc \notin {"down", "apply", "save"} => opened) /\ (pc \in {"apply", "save"} => ~opened)
  BY DEF MailboxInv, Host!TypeOK, BootsAreCounted, SessionIsCurrent, Host!Unbooted
<1>2. CASE Calm!GuestStarts \/ Calm!GuestBoots \/ Calm!GuestReturns \/ Calm!GuestFails
  BY <1>1, <1>2 DEF Calm!GuestStarts, Calm!GuestBoots, Calm!GuestReturns, Calm!GuestFails
<1>3. CASE Calm!GuestFinishes \/ \E i \in Ids : Calm!GuestAsks(i)
  BY <1>1, <1>3 DEF Calm!GuestFinishes, Calm!GuestAsks
<1>4. CASE Calm!HostOpens
  BY <1>1, <1>4 DEF Calm!HostOpens, Calm!MayResume
<1>5. CASE Calm!HostStops
  BY <1>1, <1>5 DEF Calm!HostStops
<1>6. CASE Calm!Apply \/ Calm!SaveSession \/ Calm!MailboxReady
  BY <1>1, <1>6 DEF Calm!Apply, Calm!SaveSession, Calm!MailboxReady
<1>7. CASE Calm!Configure \/ Calm!Unlink \/ Calm!BeginTransition
  BY <1>1, <1>7 DEF Calm!Configure, Calm!Unlink, Calm!BeginTransition
<1>8. CASE Calm!Suspend \/ Calm!SuspensionSaved \/ Calm!Resume \/ Calm!TransitionSaved
  BY <1>1, <1>8 DEF Calm!Suspend, Calm!SuspensionSaved, Calm!Resume, Calm!TransitionSaved
<1>9. CASE Calm!Poll \/ Calm!Charge \/ Calm!Serve \/ Calm!Respond
  BY <1>1, <1>9 DEF Calm!Poll, Calm!Charge, Calm!Serve, Calm!Respond
<1>10. CASE Calm!Collect
  BY <1>1, <1>10 DEF Calm!Collect
<1>11. QED
  BY <1>2, <1>3, <1>4, <1>5, <1>6, <1>7, <1>8, <1>9, <1>10 DEF Calm!Next, Calm!GuestStep, Calm!HostStep

\* The channel that the mailbox implements: the stage of each request, and those
\* of the process that runs.
Stages == [i \in Ids |-> Host!Stage(i)]
OpenNow == IF process \in Host!Unbooted THEN {} ELSE {i \in Ids : posted[i] # 0 /\ posted[i] = boots}

LEMMA StageIs ==
  ASSUME NEW i \in Ids
  PROVE  /\ posted[i] = 0 => Stages[i] = "unsent"
         /\ posted[i] # 0 /\ i \in answered => Stages[i] = "answered"
         /\ posted[i] # 0 /\ i \notin answered /\ served[i] > 0 => Stages[i] = "served"
         /\ posted[i] # 0 /\ i \notin answered /\ ~(served[i] > 0) => Stages[i] = "asked"
BY DEF Stages, Host!Stage

LEMMA SameStages == UNCHANGED <<posted, answered, served>> => Stages' = Stages
BY DEF Stages, Host!Stage

LEMMA SameChannel ==
  ASSUME UNCHANGED <<posted, answered, served, boots>>,
         process' = process \/ {process, process'} \subseteq Host!Unbooted
                            \/ {process, process'} \cap Host!Unbooted = {}
  PROVE  Stages' = Stages /\ OpenNow' = OpenNow
BY SameStages DEF OpenNow

\* What one request goes through, read off the channel.
LEMMA OneStageMoves ==
  ASSUME NEW i \in Ids, NEW x, Stages'[i] = x,
         \A j \in Ids : j # i => Stages'[j] = Stages[j]
  PROVE  Stages' = [Stages EXCEPT ![i] = x]
<1>1. Stages = [j \in Ids |-> Stages[j]] /\ Stages' = [j \in Ids |-> Stages'[j]]
  BY DEF Stages
<1>2. QED
  BY <1>1

LEMMA PromiseIsNext ==
  /\ OpenNow' = {} /\ Stages' = Stages => Host!Promise!Next
  /\ \A i \in Ids : Stages[i] = "unsent" /\ Stages' = [Stages EXCEPT ![i] = "asked"]
                      /\ OpenNow' = OpenNow \cup {i} => Host!Promise!Next
  /\ \A i \in Ids : Stages[i] = "asked" /\ i \in OpenNow /\ Stages' = [Stages EXCEPT ![i] = "served"]
                      /\ OpenNow' = OpenNow => Host!Promise!Next
  /\ \A i \in Ids : Stages[i] = "served" /\ i \in OpenNow /\ Stages' = [Stages EXCEPT ![i] = "answered"]
                      /\ OpenNow' = OpenNow => Host!Promise!Next
BY DEF Stages, OpenNow, Host!Promise!Next, Host!Promise!Replace, Host!Promise!Ask, Host!Promise!Serve, Host!Promise!Answer

LEMMA PromiseStarts == Host!Init => Host!Promise!Init
<1> SUFFICES ASSUME Host!Init PROVE Host!Promise!Init
  OBVIOUS
<1>1. \A i \in Ids : Stages[i] = "unsent"
  BY StageIs DEF Host!Init
<1>2. Stages = [i \in Ids |-> "unsent"]
  BY <1>1 DEF Stages
<1>3. OpenNow = {}
  BY DEF OpenNow, Host!Init, Host!Unbooted
<1>4. QED
  BY <1>2, <1>3 DEF Host!Promise!Init, Stages, OpenNow

LEMMA PromiseStep ==
  ASSUME MailboxInv, Host!Next
  PROVE  [Host!Promise!Next]_(Host!Promise!pvars)
<1> SUFFICES Host!Promise!Next \/ (Stages' = Stages /\ OpenNow' = OpenNow)
  BY DEF Stages, OpenNow, Host!Promise!pvars
<1> USE DEF Host!workspace, Host!guest, Host!session, Host!hostVars, Host!Goto, Host!Stop
<1>1. /\ boots \in Nat /\ posted \in [Ids -> Nat] /\ served \in [Ids -> Nat]
      /\ \A i \in Ids : posted[i] <= boots
      /\ process \notin Host!Unbooted => boots > 0
  BY DEF MailboxInv, Host!TypeOK, BootsAreCounted
<1>2. \A i \in Ids : posted[i] = 0 => served[i] = 0 /\ i \notin answered
  BY DEF MailboxInv, ServedAreSettled
<1>3. pc \in {"serve", "respond"} =>
        /\ current \in Ids \ answered /\ current \in OpenNow /\ posted[current] # 0
        /\ served[current] = (IF pc = "respond" THEN 1 ELSE 0)
  <2> SUFFICES ASSUME pc \in {"serve", "respond"}
               PROVE  /\ current \in Ids \ answered /\ current \in OpenNow /\ posted[current] # 0
                      /\ served[current] = (IF pc = "respond" THEN 1 ELSE 0)
    OBVIOUS
  <2>1. /\ current \in Ids \ answered /\ posted[current] = boots /\ boots = Host!Expected
        /\ served[current] = (IF pc = "respond" THEN 1 ELSE 0)
    BY DEF MailboxInv, ServedAreSettled
  <2>2. process \notin Host!Unbooted
    BY <1>1, <2>1 DEF MailboxInv, BootsAreCounted
  <2>3. QED
    BY <1>1, <2>1, <2>2 DEF OpenNow
<1>4. CASE Host!GuestStarts \/ Host!GuestReturns \/ Host!GuestFinishes \/ Host!GuestFails
  BY <1>4, SameChannel DEF Host!GuestStarts, Host!GuestReturns, Host!GuestFinishes, Host!GuestFails, Host!Unbooted
<1>5. CASE Host!GuestBoots
  <2>1. OpenNow = {} /\ OpenNow' = {}
    BY <1>1, <1>5 DEF Host!GuestBoots, OpenNow, Host!Unbooted
  <2>2. QED
    BY <1>5, <2>1, SameStages DEF Host!GuestBoots
<1>6. ASSUME NEW i \in Ids, Host!GuestAsks(i) PROVE Host!Promise!Next
  <2>1. /\ posted[i] = 0 /\ posted' = [posted EXCEPT ![i] = boots] /\ boots > 0 /\ boots' = boots
        /\ answered' = answered /\ served' = served /\ {process, process'} \cap Host!Unbooted = {}
    BY <1>1, <1>6 DEF Host!GuestAsks, Host!Unbooted
  <2>2. Stages[i] = "unsent" /\ Stages'[i] = "asked"
    <3>1. posted'[i] # 0 /\ i \notin answered' /\ ~(served'[i] > 0)
      BY <1>1, <1>2, <2>1
    <3>2. QED
      BY <2>1, <3>1, StageIs DEF Stages, Host!Stage
  <2>3. \A j \in Ids : j # i => Stages'[j] = Stages[j]
    BY <1>1, <2>1 DEF Stages, Host!Stage
  <2>4. OpenNow' = OpenNow \cup {i}
    BY <1>1, <2>1 DEF OpenNow
  <2>5. QED
    BY <2>2, <2>3, <2>4, OneStageMoves, PromiseIsNext
<1>7. CASE Host!HostOpens \/ Host!HostStops
  BY <1>7, SameChannel DEF Host!HostOpens, Host!HostStops
<1>8. CASE Host!Apply
  BY <1>8, SameChannel DEF Host!Apply, MailboxInv, BootsAreCounted, Host!Unbooted
<1>9. CASE Host!SaveSession \/ Host!MailboxReady \/ Host!Configure \/ Host!Unlink \/ Host!BeginTransition
  BY <1>9, SameChannel DEF Host!SaveSession, Host!MailboxReady, Host!Configure, Host!Unlink, Host!BeginTransition
<1>10. CASE Host!Suspend \/ Host!Resume
  <2>1. OpenNow' = {} /\ Stages' = Stages
    BY <1>10, SameStages DEF Host!Suspend, Host!Resume, OpenNow, Host!Unbooted
  <2>2. QED
    BY <2>1, PromiseIsNext
<1>11. CASE Host!SuspensionSaved \/ Host!TransitionSaved \/ Host!Poll \/ Host!Charge \/ Host!Collect
  BY <1>11, SameChannel DEF Host!SuspensionSaved, Host!TransitionSaved, Host!Poll, Host!Charge, Host!Collect
<1>12. CASE Host!Serve
  <2>1. /\ served' = [served EXCEPT ![current] = @ + 1] /\ served[current] = 0 /\ current \in Ids \ answered
        /\ posted[current] # 0 /\ current \in OpenNow
        /\ UNCHANGED <<posted, answered, boots, process>>
    BY <1>3, <1>12 DEF Host!Serve
  <2>2. Stages[current] = "asked" /\ Stages'[current] = "served"
    <3>1. served'[current] > 0 /\ ~(served[current] > 0)
      BY <1>1, <2>1
    <3>2. Stages[current] = "asked"
      BY <2>1, <3>1, StageIs
    <3>3. QED
      BY <2>1, <3>1, <3>2 DEF Stages, Host!Stage
  <2>3. \A j \in Ids : j # current => Stages'[j] = Stages[j]
    BY <1>1, <2>1 DEF Stages, Host!Stage
  <2>4. OpenNow' = OpenNow
    BY <2>1 DEF OpenNow
  <2>5. QED
    BY <2>1, <2>2, <2>3, <2>4, OneStageMoves, PromiseIsNext
<1>13. CASE Host!Respond
  <2>1. /\ answered' = answered \cup {current} /\ served[current] = 1 /\ current \in Ids \ answered
        /\ posted[current] # 0 /\ current \in OpenNow
        /\ UNCHANGED <<posted, served, boots, process>>
    BY <1>3, <1>13 DEF Host!Respond
  <2>2. Stages[current] = "served" /\ Stages'[current] = "answered"
    <3>1. served[current] > 0
      BY <2>1
    <3>2. QED
      BY <2>1, <3>1 DEF Stages, Host!Stage
  <2>3. \A j \in Ids : j # current => Stages'[j] = Stages[j]
    BY <2>1 DEF Stages, Host!Stage
  <2>4. OpenNow' = OpenNow
    BY <2>1 DEF OpenNow
  <2>5. QED
    BY <2>1, <2>2, <2>3, <2>4, OneStageMoves, PromiseIsNext
<1>14. QED
  BY <1>4, <1>5, <1>6, <1>7, <1>8, <1>9, <1>10, <1>11, <1>12, <1>13 DEF Host!Next, Host!GuestStep, Host!HostStep

\* The same step properties, read in the instance without crashes.
LEMMA CalmStepsAreSafe ==
  ASSUME MailboxInv, ResultIsCurrent, Calm!Next
  PROVE  Calm!StepsAreSafe
<1>1. Calm!OnlyThisBoot /\ Calm!InterruptedTransitionStays
  <2>1. Host!OnlyThisBoot /\ Host!InterruptedTransitionStays
    BY CalmStepIsHost, OnlyThisBootIsServed, InterruptedStays
  <2>2. QED
    BY <2>1 DEF Calm!OnlyThisBoot, Host!OnlyThisBoot, Calm!Unbooted, Host!Unbooted, Calm!InterruptedTransitionStays,
       Host!InterruptedTransitionStays, Calm!Incomplete, Host!Incomplete
<1>2. Calm!ReturnedIsCurrent
  <2> SUFFICES ASSUME outcome' = "returned", outcome # "returned"
               PROVE  result = Calm!Expected
    BY DEF Calm!ReturnedIsCurrent
  <2>1. Calm!Collect
    BY CalmStepIsHost DEF Calm!Next, Calm!GuestStep, Calm!GuestStarts, Calm!GuestBoots, Calm!GuestAsks,
       Calm!GuestReturns, Calm!GuestFinishes, Calm!GuestFails, Calm!hostVars, Calm!HostOpens, Calm!HostStops,
       Calm!HostStep, Calm!Apply, Calm!SaveSession, Calm!MailboxReady, Calm!Configure, Calm!Unlink,
       Calm!BeginTransition, Calm!Suspend, Calm!SuspensionSaved, Calm!Resume, Calm!TransitionSaved, Calm!Poll,
       Calm!Charge, Calm!Serve, Calm!Respond, Calm!Goto, Calm!Stop
  <2>2. boots = Calm!Expected
    BY <2>1 DEF Calm!Collect, Calm!Stop
  <2>3. result = boots
    BY <2>1 DEF Calm!Collect, ResultIsCurrent
  <2>4. QED
    BY <2>2, <2>3
<1>3. QED
  BY <1>1, <1>2 DEF Calm!StepsAreSafe

\* KeepsChannelPromise: suspended, resumed and abandoned by its hosts, the task
\* gets each request served at most once, for the process that asked and within
\* the budget, and the mailbox implements ChannelPromise (ax_runtime.py).
THEOREM MailboxKeepsPromise == MCSpec => KeepsChannelPromise
<1> DEFINE Inv == /\ part \in {"mailbox", "calm"} => MailboxInv
                  /\ part = "calm" => ResultIsCurrent
<1>1. MCInit => Inv /\ (part = "mailbox" => Host!Promise!Init)
  BY MailboxStarts, PromiseStarts DEF MCInit
<1>2. Inv /\ [MCNext]_mcvars => Inv'
  <2> SUFFICES ASSUME Inv, [MCNext]_mcvars PROVE Inv'
    OBVIOUS
  <2>1. CASE part = "mailbox" /\ Host!Next /\ UNCHANGED part
    BY <2>1, MailboxStep
  <2>2. CASE part = "calm" /\ Calm!Next /\ UNCHANGED part
    BY <2>2, CalmStepIsHost, MailboxStep, ResultStep
  <2>3. CASE part \notin {"mailbox", "calm"} /\ UNCHANGED part
    BY <2>3
  <2>4. CASE UNCHANGED mcvars
    BY <2>4 DEF mcvars, mailbox, MailboxInv, ResultIsCurrent, Host!TypeOK, BootsAreCounted, SessionIsCurrent,
       ServedAreSettled, BudgetCovers, ServedSet, Host!Expected, Host!Incomplete
  <2>5. QED
    BY <2>1, <2>2, <2>3, <2>4 DEF MCNext
<1>3. Inv => (part = "mailbox" => Host!RequestsAreSafe)
  <2> SUFFICES ASSUME MailboxInv PROVE Host!RequestsAreSafe
    OBVIOUS
  <2>1. Host!TypeOK /\ Host!ServedOnce
    BY DEF MailboxInv, ServedAreSettled, Host!ServedOnce
  <2>2. Host!ChargedBeforeServed
    BY DEF MailboxInv, BudgetCovers, ServedSet, Host!ChargedBeforeServed, Host!Cardinality, Cardinality
  <2>3. QED
    BY <2>1, <2>2 DEF Host!RequestsAreSafe
<1>4. Inv /\ [MCNext]_mcvars =>
        /\ [part = "mailbox" => Host!StepsAreSafe /\ [Host!Promise!Next]_(Host!Promise!pvars)]_mcvars
        /\ [part = "calm" => Calm!StepsAreSafe]_mcvars
  <2> SUFFICES ASSUME Inv, MCNext
               PROVE  /\ part = "mailbox" => Host!StepsAreSafe /\ [Host!Promise!Next]_(Host!Promise!pvars)
                      /\ part = "calm" => Calm!StepsAreSafe
    OBVIOUS
  <2>1. ASSUME part = "mailbox"
        PROVE  Host!StepsAreSafe /\ [Host!Promise!Next]_(Host!Promise!pvars)
    <3>1. MailboxInv /\ Host!Next
      BY <2>1 DEF MCNext
    <3>2. QED
      BY <3>1, OnlyThisBootIsServed, InterruptedStays, PromiseStep DEF Host!StepsAreSafe, Host!ReturnedIsCurrent
  <2>2. ASSUME part = "calm" PROVE Calm!StepsAreSafe
    BY <2>2, CalmStepsAreSafe DEF MCNext
  <2>3. QED
    BY <2>1, <2>2
<1>5. QED
  BY <1>1, <1>2, <1>3, <1>4, PTL DEF MCSpec, KeepsChannelPromise
=============================================================================
