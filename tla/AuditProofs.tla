----------------------------- MODULE AuditProofs -----------------------------
(***************************************************************************)
(* Theorems about the audit's correlation of the API server's log with the *)
(* journal, for any operations, requests, writes and damage to the log;    *)
(* and about the settlement of batches behind an epoch fence, which        *)
(* implements fenced reads, for any number of epochs and faults.           *)
(***************************************************************************)
EXTENDS MCAudits, FiniteSetTheorems, SequenceTheorems, TLAPS

---------------------------------------------------------------------------
(* The correlation. *)

Entry == [user : Correlation!Users, agent : Correlation!Agents, patch : Correlation!Patches, success : BOOLEAN,
          at : 1 .. 3]
Statuses == {"none", "dispatching", "acknowledged", "uncertain", "rejected"}
Operation == [request : Requests, contract : {"legacy", "precise"}, status : Statuses]

CorrelationTypes ==
  /\ journal \in [Operations -> Operation] /\ exported \in [Operations -> Operation]
  /\ writes \in Seq(Entry) /\ log \in Seq(Nat)
  /\ \A i \in DOMAIN log : log[i] <= Len(writes)
  /\ period \in 1 .. 3 /\ tears \in 0 .. MaxTears /\ intruded \in BOOLEAN

\* Every write has its line, or a line was torn.
LogCoversWrites ==
  /\ Correlation!Malformed \/ \A k \in DOMAIN writes : \E i \in DOMAIN log : log[i] = k
  /\ Correlation!Malformed => tears > 0

\* Without an intruder every write is the one dispatch of its operation, and every
\* acknowledgment is of one.
IsDispatchOf(k, o) ==
  /\ writes[k].user = "broker" /\ writes[k].agent = o /\ writes[k].at = 2
  /\ writes[k].patch = [request |-> journal[o].request, contract |-> journal[o].contract]
WritesAreDispatches ==
  /\ \A k \in DOMAIN writes : \E o \in Operations :
       IsDispatchOf(k, o) /\ journal[o].status \in {"acknowledged", "uncertain", "rejected"}
  /\ \A k, l \in DOMAIN writes : writes[k].agent = writes[l].agent => k = l
  /\ \A o \in Operations : journal[o].status = "acknowledged" =>
       \E k \in DOMAIN writes : writes[k].agent = o /\ writes[k].success

\* What assess says of the log, the writes and the export.
Assessment ==
  [status |-> IF Correlation!Missing # {} \/ Correlation!Malformed THEN "incomplete"
              ELSE IF Correlation!Selected # {} THEN "assessed" ELSE "unassessed",
   missing |-> Correlation!Missing, forbidden |-> {e[2] : e \in Correlation!Forbidden}]

ReportStands ==
  /\ period = 3 => exported = journal
  /\ report # Correlation!NoReport => period = 3 /\ report = Assessment

CorrelationInv ==
  CorrelationTypes /\ LogCoversWrites /\ (~intruded => WritesAreDispatches) /\ ReportStands

LEMMA CorrelationStarts == Correlation!Init => CorrelationInv
<1> SUFFICES ASSUME Correlation!Init PROVE CorrelationInv
  OBVIOUS
<1> USE CorrelationAssumption DEF Correlation!Init, Correlation!AuditAssumption
<1>1. [o \in Operations |-> Correlation!Unprepared] \in [Operations -> Operation]
  BY DEF Correlation!Unprepared, Operation, Statuses
<1>2. CorrelationTypes
  <2>1. <<>> \in Seq(Entry) /\ <<>> \in Seq(Nat)
    OBVIOUS
  <2>2. \A i \in DOMAIN log : log[i] <= Len(writes)
    OBVIOUS
  <2>3. period \in 1 .. 3 /\ tears \in 0 .. MaxTears
    OBVIOUS
  <2>7. intruded \in BOOLEAN
    OBVIOUS
  <2>4. writes \in Seq(Entry) /\ log \in Seq(Nat)
    BY <2>1
  <2>5. journal \in [Operations -> Operation] /\ exported \in [Operations -> Operation]
    BY <1>1
  <2> HIDE DEF Correlation!Init, Correlation!AuditAssumption
  <2>6. QED
    BY <2>2, <2>3, <2>4, <2>5, <2>7 DEF CorrelationTypes
<1>3. LogCoversWrites /\ ReportStands
  BY DEF LogCoversWrites, Correlation!Malformed, ReportStands
<1>4. WritesAreDispatches
  BY DEF WritesAreDispatches, Correlation!Unprepared
<1>5. QED
  BY <1>2, <1>3, <1>4 DEF CorrelationInv

\* What an answered request leaves in the writes and the log.
LEMMA AnsweredAppends ==
  ASSUME CorrelationInv, NEW user \in Correlation!Users, NEW agent \in Correlation!Agents,
         NEW patch \in Correlation!Patches, NEW success \in BOOLEAN,
         Correlation!Answered(user, agent, patch, success)
  PROVE  /\ report = Correlation!NoReport
         /\ writes' \in Seq(Entry) /\ DOMAIN writes' = DOMAIN writes \cup {Len(writes) + 1}
         /\ Len(writes') = Len(writes) + 1 /\ Len(writes) + 1 \notin DOMAIN writes
         /\ \A k \in DOMAIN writes : writes'[k] = writes[k]
         /\ writes'[Len(writes) + 1] = [user |-> user, agent |-> agent, patch |-> patch, success |-> success,
                                        at |-> period]
         /\ log' \in Seq(Nat) /\ DOMAIN log' = DOMAIN log \cup {Len(log) + 1}
         /\ \A i \in DOMAIN log : log'[i] = log[i]
         /\ log'[Len(log) + 1] = Len(writes) + 1
         /\ \A i \in DOMAIN log' : log'[i] <= Len(writes')
<1> DEFINE entry == [user |-> user, agent |-> agent, patch |-> patch, success |-> success, at |-> period]
<1>1. /\ writes \in Seq(Entry) /\ log \in Seq(Nat) /\ entry \in Entry
      /\ \A i \in DOMAIN log : log[i] <= Len(writes) /\ log[i] \in Nat
  BY DEF CorrelationInv, CorrelationTypes, Entry
<1>2. /\ writes' = Append(writes, entry) /\ log' = Append(log, Len(writes) + 1) /\ report = Correlation!NoReport
  BY DEF Correlation!Answered
<1>3. Len(writes) \in Nat /\ Len(writes) + 1 \in Nat /\ DOMAIN writes = 1 .. Len(writes)
  BY <1>1
<1> HIDE DEF entry
<1>4. /\ writes' \in Seq(Entry) /\ DOMAIN writes' = DOMAIN writes \cup {Len(writes) + 1}
      /\ Len(writes') = Len(writes) + 1 /\ (\A k \in DOMAIN writes : writes'[k] = writes[k])
      /\ writes'[Len(writes) + 1] = entry
  BY <1>1, <1>2, AppendProperties
<1>5. /\ log' \in Seq(Nat) /\ DOMAIN log' = DOMAIN log \cup {Len(log) + 1}
      /\ (\A i \in DOMAIN log : log'[i] = log[i]) /\ log'[Len(log) + 1] = Len(writes) + 1
  BY <1>1, <1>2, <1>3, AppendProperties
<1>6. \A i \in DOMAIN log' : log'[i] <= Len(writes')
  BY <1>1, <1>3, <1>4, <1>5
<1>7. QED
  BY <1>2, <1>3, <1>4, <1>5, <1>6 DEF entry

\* An answered request has its line, whatever else the log has lost.
LEMMA AnsweredIsLogged ==
  ASSUME CorrelationInv, NEW user \in Correlation!Users, NEW agent \in Correlation!Agents,
         NEW patch \in Correlation!Patches, NEW success \in BOOLEAN,
         Correlation!Answered(user, agent, patch, success), tears' = tears
  PROVE  LogCoversWrites'
<1>1. LogCoversWrites /\ Len(writes) \in Nat
  BY DEF CorrelationInv, CorrelationTypes
<1>2. Correlation!Malformed' <=> Correlation!Malformed
  <2>1. /\ DOMAIN log' = DOMAIN log \cup {Len(log) + 1} /\ \A i \in DOMAIN log : log'[i] = log[i]
        /\ log'[Len(log) + 1] = Len(writes) + 1 
    BY AnsweredAppends
  <2>2. QED
    BY <1>1, <2>1 DEF Correlation!Malformed
<1>3. ASSUME ~Correlation!Malformed, NEW k \in DOMAIN writes'
      PROVE  \E i \in DOMAIN log' : log'[i] = k
  <2>1. CASE k = Len(writes) + 1
    BY <2>1, AnsweredAppends
  <2>2. CASE k \in DOMAIN writes
    BY <1>1, <1>3, <2>2, AnsweredAppends DEF LogCoversWrites
  <2>3. QED
    BY <1>3, <2>1, <2>2, AnsweredAppends
<1>4. QED
  BY <1>1, <1>2, <1>3 DEF LogCoversWrites

LEMMA PrepareKeeps ==
  ASSUME CorrelationInv, NEW o \in Operations, NEW r \in Requests, NEW c \in Contracts,
         Correlation!Prepare(o, r, c)
  PROVE  CorrelationInv'
<1> USE DEF Correlation!Prepare
<1>1. journal' \in [Operations -> Operation]
  BY CorrelationAssumption DEF CorrelationInv, CorrelationTypes, Operation, Statuses, Correlation!AuditAssumption
<1>2. CorrelationTypes' /\ LogCoversWrites' /\ ReportStands'
  BY <1>1 DEF CorrelationInv, CorrelationTypes, LogCoversWrites, Correlation!Malformed, ReportStands
<1>3. WritesAreDispatches => WritesAreDispatches'
  <2>1. /\ \A p \in Operations \ {o} : journal'[p] = journal[p]
        /\ journal[o].status = "none" /\ journal'[o].status = "dispatching"
    BY DEF CorrelationInv, CorrelationTypes
  <2>2. ASSUME WritesAreDispatches, NEW k \in DOMAIN writes
        PROVE  \E p \in Operations :
                 IsDispatchOf(k, p)' /\ journal'[p].status \in {"acknowledged", "uncertain", "rejected"}
    <3>1. PICK p \in Operations :
            IsDispatchOf(k, p) /\ journal[p].status \in {"acknowledged", "uncertain", "rejected"}
      BY <2>2 DEF WritesAreDispatches
    <3>2. journal'[p] = journal[p]
      BY <2>1, <3>1
    <3>3. QED
      BY <3>1, <3>2 DEF IsDispatchOf
  <2>3. ASSUME WritesAreDispatches, NEW p \in Operations, journal'[p].status = "acknowledged"
        PROVE  \E k \in DOMAIN writes : writes[k].agent = p /\ writes[k].success
    BY <2>1, <2>3 DEF WritesAreDispatches
  <2>4. QED
    BY <2>2, <2>3 DEF WritesAreDispatches
<1>4. QED
  BY <1>2, <1>3 DEF CorrelationInv

LEMMA DispatchKeeps ==
  ASSUME CorrelationInv, NEW o \in Operations, NEW success \in BOOLEAN,
         NEW status \in {"acknowledged", "uncertain", "rejected"}, Correlation!Dispatch(o, success, status)
  PROVE  CorrelationInv'
<1> DEFINE patch == [request |-> journal[o].request, contract |-> journal[o].contract]
<1>1. /\ Correlation!Answered("broker", o, patch, success) /\ "broker" \in Correlation!Users
      /\ o \in Correlation!Agents /\ patch \in Correlation!Patches /\ journal[o].status = "dispatching" /\ period = 2
      /\ status = "acknowledged" => success
      /\ UNCHANGED <<period, exported, report, intruded, tears>>
  BY DEF Correlation!Dispatch, Correlation!Users, Correlation!Agents, Correlation!Patches, CorrelationInv,
     CorrelationTypes, Operation
<1>2. /\ journal' \in [Operations -> Operation] /\ journal'[o] = [journal[o] EXCEPT !.status = status]
      /\ \A p \in Operations \ {o} : journal'[p] = journal[p]
  BY DEF Correlation!Dispatch, CorrelationInv, CorrelationTypes, Operation, Statuses
<1> HIDE DEF patch
<1>3. CorrelationTypes' /\ ReportStands'
  <2>1. /\ report = Correlation!NoReport /\ writes' \in Seq(Entry) /\ log' \in Seq(Nat)
        /\ \A i \in DOMAIN log' : log'[i] <= Len(writes')
    BY <1>1, AnsweredAppends
  <2>2. QED
    BY <1>1, <1>2, <2>1 DEF CorrelationInv, CorrelationTypes, ReportStands
<1>4. LogCoversWrites'
  BY <1>1, AnsweredIsLogged
<1>5. WritesAreDispatches => WritesAreDispatches'
  <2> SUFFICES ASSUME WritesAreDispatches PROVE WritesAreDispatches'
    OBVIOUS
  <2> DEFINE new == Len(writes) + 1
  <2>1. /\ DOMAIN writes' = DOMAIN writes \cup {new} /\ new \notin DOMAIN writes
        /\ writes'[new] = [user |-> "broker", agent |-> o, patch |-> patch, success |-> success, at |-> period]
        /\ \A k \in DOMAIN writes : writes'[k] = writes[k]
    BY <1>1, AnsweredAppends
  <2> HIDE DEF new
  <2>2. ASSUME NEW k \in DOMAIN writes
        PROVE  /\ writes[k].agent # o
               /\ \E p \in Operations \ {o} :
                    IsDispatchOf(k, p) /\ journal[p].status \in {"acknowledged", "uncertain", "rejected"}
    <3>1. PICK p \in Operations :
            IsDispatchOf(k, p) /\ journal[p].status \in {"acknowledged", "uncertain", "rejected"}
      BY DEF WritesAreDispatches
    <3>2. p # o
      BY <1>1, <3>1
    <3>3. QED
      BY <3>1, <3>2 DEF IsDispatchOf
  <2>3. ASSUME NEW k \in DOMAIN writes'
        PROVE  \E p \in Operations :
                 IsDispatchOf(k, p)' /\ journal'[p].status \in {"acknowledged", "uncertain", "rejected"}
    <3>1. CASE k = new
      <4>1. /\ journal'[o].request = journal[o].request /\ journal'[o].contract = journal[o].contract
            /\ journal'[o].status = status
        BY <1>2 DEF CorrelationInv, CorrelationTypes, Operation
      <4>2. IsDispatchOf(k, o)'
        BY <1>1, <2>1, <3>1, <4>1 DEF IsDispatchOf, patch
      <4>3. QED
        BY <4>1, <4>2
    <3>2. CASE k \in DOMAIN writes
      <4>1. PICK p \in Operations \ {o} :
              IsDispatchOf(k, p) /\ journal[p].status \in {"acknowledged", "uncertain", "rejected"}
        BY <2>2, <3>2
      <4>2. journal'[p] = journal[p] /\ writes'[k] = writes[k]
        BY <1>2, <2>1, <3>2
      <4>3. QED
        BY <4>1, <4>2 DEF IsDispatchOf
    <3>3. QED
      BY <2>1, <2>3, <3>1, <3>2
  <2>4. \A k, l \in DOMAIN writes' : writes'[k].agent = writes'[l].agent => k = l
    BY <2>1, <2>2 DEF WritesAreDispatches
  <2>5. ASSUME NEW p \in Operations, journal'[p].status = "acknowledged"
        PROVE  \E k \in DOMAIN writes' : writes'[k].agent = p /\ writes'[k].success
    <3>1. CASE p = o
      <4>1. status = "acknowledged"
        BY <1>2, <2>5, <3>1 DEF CorrelationInv, CorrelationTypes, Operation
      <4>2. QED
        BY <1>1, <2>1, <3>1, <4>1
    <3>2. CASE p # o
      BY <1>2, <2>1, <2>5, <3>2 DEF WritesAreDispatches
    <3>3. QED
      BY <3>1, <3>2
  <2>6. QED
    BY <2>3, <2>4, <2>5 DEF WritesAreDispatches
<1>6. QED
  BY <1>1, <1>3, <1>4, <1>5 DEF CorrelationInv

LEMMA IntrudeKeeps ==
  ASSUME CorrelationInv, NEW user \in Correlation!Users, NEW agent \in Correlation!Agents,
         NEW patch \in Correlation!Patches, NEW success \in BOOLEAN,
         Correlation!Intrude(user, agent, patch, success)
  PROVE  CorrelationInv'
<1>1. /\ Correlation!Answered(user, agent, patch, success)
      /\ intruded' = TRUE /\ UNCHANGED <<journal, period, exported, report, tears>>
  BY DEF Correlation!Intrude
<1>2. CorrelationTypes' /\ ReportStands'
  BY <1>1, AnsweredAppends DEF CorrelationInv, CorrelationTypes, ReportStands
<1>3. LogCoversWrites'
  BY <1>1, AnsweredIsLogged
<1>4. QED
  BY <1>1, <1>2, <1>3 DEF CorrelationInv

LEMMA PretendKeeps ==
  ASSUME CorrelationInv, NEW o \in Operations, Correlation!Pretend(o)
  PROVE  CorrelationInv'
<1> USE DEF Correlation!Pretend
<1>1. journal' \in [Operations -> Operation]
  BY DEF CorrelationInv, CorrelationTypes, Operation, Statuses
<1>2. CorrelationTypes' /\ LogCoversWrites' /\ ReportStands'
  BY <1>1 DEF CorrelationInv, CorrelationTypes, LogCoversWrites, Correlation!Malformed, ReportStands
<1>3. QED
  BY <1>2 DEF CorrelationInv

LEMMA DamageKeeps ==
  ASSUME CorrelationInv, NEW k \in DOMAIN log, Correlation!Tear(k) \/ Correlation!Repeat(k)
  PROVE  CorrelationInv'
<1>1. /\ UNCHANGED <<journal, writes, period, exported, report, intruded>> /\ tears' = tears + 1
      /\ tears < MaxTears /\ report = Correlation!NoReport
  BY DEF Correlation!Tear, Correlation!Repeat
<1>2. log \in Seq(Nat) /\ (\A i \in DOMAIN log : log[i] <= Len(writes)) /\ Len(writes) \in Nat /\ tears \in Nat
      /\ MaxTears \in Nat /\ tears' \in 0 .. MaxTears /\ log[k] \in Nat /\ LogCoversWrites
  BY <1>1, CorrelationAssumption DEF CorrelationInv, CorrelationTypes, Correlation!AuditAssumption
<1>3. /\ log' \in Seq(Nat) /\ \A i \in DOMAIN log' : log'[i] <= Len(writes)
      /\ LogCoversWrites'
  <2>1. CASE Correlation!Tear(k)
    <3>1. log' = [log EXCEPT ![k] = 0]
      BY <2>1 DEF Correlation!Tear
    <3>2. log' \in Seq(Nat) /\ DOMAIN log' = DOMAIN log /\ log'[k] = 0 /\ \A i \in DOMAIN log \ {k} : log'[i] = log[i]
      BY <1>2, <3>1
    <3>3. Correlation!Malformed'
      BY ONLY k \in DOMAIN log, <3>2 DEF Correlation!Malformed
    <3>4. LogCoversWrites'
      BY ONLY <1>1, <1>2, <3>3 DEF LogCoversWrites
    <3>5. \A i \in DOMAIN log' : log'[i] <= Len(writes)
      BY ONLY <1>2, <3>2
    <3>6. QED
      BY <3>2, <3>4, <3>5
  <2>2. CASE Correlation!Repeat(k)
    <3>1. log' = Append(log, log[k])
      BY <2>2 DEF Correlation!Repeat
    <3>2. /\ log' \in Seq(Nat) /\ DOMAIN log' = DOMAIN log \cup {Len(log) + 1}
          /\ log'[Len(log) + 1] = log[k] /\ \A i \in DOMAIN log : log'[i] = log[i]
      BY <1>2, <3>1, AppendProperties
    <3>3. QED
      BY <1>1, <1>2, <3>2 DEF LogCoversWrites, Correlation!Malformed
  <2>3. QED
    BY <2>1, <2>2
<1>4. CorrelationTypes' /\ ReportStands'
  BY <1>1, <1>2, <1>3 DEF CorrelationInv, CorrelationTypes, ReportStands
<1>5. QED
  BY <1>1, <1>3, <1>4 DEF CorrelationInv, WritesAreDispatches, IsDispatchOf

LEMMA CorrelationStep ==
  ASSUME CorrelationInv, Correlation!Next
  PROVE  CorrelationInv'
<1>1. CASE Correlation!Start \/ Correlation!Export
  <2>1. CorrelationTypes' /\ LogCoversWrites' /\ ReportStands'
    BY <1>1 DEF Correlation!Start, Correlation!Export, CorrelationInv, CorrelationTypes, LogCoversWrites,
       Correlation!Malformed, ReportStands
  <2>2. UNCHANGED <<writes, journal, intruded>>
    BY <1>1 DEF Correlation!Start, Correlation!Export
  <2>3. QED
    BY <2>1, <2>2 DEF CorrelationInv, WritesAreDispatches, IsDispatchOf
<1>2. CASE Correlation!Assess
  <2>1. UNCHANGED <<journal, writes, log, period, exported, intruded, tears>> /\ report' = Assessment /\ period = 3
    BY <1>2 DEF Correlation!Assess, Assessment
  <2>2. Assessment' = Assessment
    BY <2>1 DEF Assessment, Correlation!Missing, Correlation!Malformed, Correlation!Selected, Correlation!Forbidden,
       Correlation!Executed, Correlation!Correlated, Correlation!Duplicates, Correlation!Matches,
       Correlation!InJournal, Correlation!PatchExpected, Correlation!Events
  <2>3. CorrelationTypes' /\ LogCoversWrites' /\ ReportStands'
    BY <2>1, <2>2 DEF CorrelationInv, CorrelationTypes, LogCoversWrites, Correlation!Malformed, ReportStands
  <2>4. QED
    BY <2>1, <2>3 DEF CorrelationInv, WritesAreDispatches, IsDispatchOf
<1>3. QED
  BY <1>1, <1>2, PrepareKeeps, DispatchKeeps, IntrudeKeeps, PretendKeeps, DamageKeeps DEF Correlation!Next

\* An event of the log is an answered request, and without torn lines every
\* effect of the trial is one.
LEMMA EventsAreWrites ==
  ASSUME CorrelationInv
  PROVE  /\ \A e \in Correlation!Executed : /\ e[2] \in Correlation!Effects /\ e = <<e[2], e[2]>>
         /\ ~Correlation!Malformed => \A k \in Correlation!Effects : <<k, k>> \in Correlation!Executed
<1>1. /\ log \in Seq(Nat) /\ (\A i \in DOMAIN log : log[i] <= Len(writes)) /\ Len(writes) \in Nat
      /\ DOMAIN writes = 1 .. Len(writes) /\ LogCoversWrites
  BY DEF CorrelationInv, CorrelationTypes
<1>2. ASSUME NEW e \in Correlation!Executed
      PROVE  e[2] \in Correlation!Effects /\ e = <<e[2], e[2]>>
  <2>1. PICK i \in DOMAIN log : log[i] # 0 /\ e = <<log[i], log[i]>>
    BY <1>2 DEF Correlation!Executed, Correlation!Selected, Correlation!Events
  <2>2. log[i] \in DOMAIN writes /\ e[2] = log[i]
    BY <1>1, <2>1
  <2>3. QED
    BY <1>2, <2>1, <2>2 DEF Correlation!Executed, Correlation!Selected, Correlation!Effects
<1>3. ASSUME ~Correlation!Malformed, NEW k \in Correlation!Effects
      PROVE  <<k, k>> \in Correlation!Executed
  <2>1. k \in DOMAIN writes /\ k # 0
    BY <1>1 DEF Correlation!Effects
  <2>2. PICK i \in DOMAIN log : log[i] = k
    BY <1>1, <1>3, <2>1 DEF LogCoversWrites
  <2>3. <<k, k>> \in Correlation!Events /\ <<k, k>>[2] = k
    BY <2>1, <2>2 DEF Correlation!Events
  <2>4. QED
    BY <1>3, <2>3 DEF Correlation!Executed, Correlation!Selected, Correlation!Effects
<1>4. QED
  BY <1>2, <1>3

\* What an event matches are the operations the write is of.
LEMMA MatchesAreOf ==
  ASSUME CorrelationInv, NEW k \in DOMAIN writes
  PROVE  Correlation!Matches(<<k, k>>) = {o \in Operations : Correlation!IsOf(k, o)}
<1>1. writes[k] \in Entry
  BY DEF CorrelationInv, CorrelationTypes
<1>2. ASSUME NEW o \in Operations
      PROVE  Correlation!PatchExpected(writes[k], o) <=>
               /\ writes[k].patch.request = exported[o].request
               /\ writes[k].patch.contract = exported[o].contract
  BY <1>1 DEF Correlation!PatchExpected, Entry, Correlation!Patches
<1>3. <<k, k>>[2] = k
  OBVIOUS
<1>4. QED
  BY <1>2, <1>3 DEF Correlation!Matches, Correlation!InJournal, Correlation!IsOf, Correlation!OwnAgent

LEMMA MatchesCount ==
  ASSUME NEW e
  PROVE  Correlation!Cardinality(Correlation!Matches(e)) = 1 <=> \E o : Correlation!Matches(e) = {o}
<1>1. Correlation!Matches(e) \subseteq Operations
  BY DEF Correlation!Matches, Correlation!InJournal
<1>2. IsFiniteSet(Operations)
  BY CorrelationAssumption DEF Correlation!AuditAssumption, Correlation!IsFiniteSet, IsFiniteSet
<1>3. IsFiniteSet(Correlation!Matches(e))
  BY <1>1, <1>2, FS_Subset
<1>4. Cardinality(Correlation!Matches(e)) = 1 <=> \E o : Correlation!Matches(e) = {o}
  BY <1>3, FS_Singleton
<1>5. Correlation!Cardinality(Correlation!Matches(e)) = Cardinality(Correlation!Matches(e))
  BY DEF Correlation!Cardinality, Cardinality
<1>6. QED
  BY <1>4, <1>5

\* A clean audit accounts for what was executed, each write an operation of its
\* own; and an acknowledged operation is one of them.
LEMMA CleanIsAccounted ==
  ASSUME CorrelationInv, report.status = "assessed"
  PROVE  Correlation!CleanMeansAccounted /\ Correlation!AcknowledgedWasWritten
<1>1. report = Assessment /\ ~Correlation!Malformed /\ Correlation!Missing = {}
  BY DEF CorrelationInv, ReportStands, Correlation!NoReport, Assessment
<1>2. ASSUME NEW k \in Correlation!Effects
      PROVE  /\ <<k, k>> \in Correlation!Executed /\ k \in DOMAIN writes
             /\ Correlation!Matches(<<k, k>>) = {o \in Operations : Correlation!IsOf(k, o)}
  BY <1>1, EventsAreWrites, MatchesAreOf DEF Correlation!Effects
<1>3. ASSUME report.forbidden = {}
      PROVE  \E f \in [Correlation!Effects -> Operations] :
               /\ Correlation!IsInjective(f)
               /\ \A k \in Correlation!Effects : Correlation!IsOf(k, f[k])
  <2>1. Correlation!Executed \subseteq Correlation!Correlated /\ Correlation!Duplicates = {}
    BY <1>1, <1>3 DEF Assessment, Correlation!Forbidden
  <2>2. \A k \in Correlation!Effects : \E o : Correlation!Matches(<<k, k>>) = {o}
    BY <1>2, <2>1, MatchesCount DEF Correlation!Correlated
  <2> DEFINE f == [k \in Correlation!Effects |-> CHOOSE o : Correlation!Matches(<<k, k>>) = {o}]
  <2>3. \A k \in Correlation!Effects : Correlation!Matches(<<k, k>>) = {f[k]}
    BY <2>2
  <2>4. DOMAIN f = Correlation!Effects
    OBVIOUS
  <2>5. f \in [Correlation!Effects -> Operations]
    BY <1>2, <2>3
  <2> HIDE DEF f
  <2>6. \A k \in Correlation!Effects : Correlation!IsOf(k, f[k])
    BY <1>2, <2>3
  <2>7. ASSUME NEW k \in Correlation!Effects, NEW l \in Correlation!Effects, f[k] = f[l]
        PROVE  k = l
    <3>1. SUFFICES ASSUME k # l PROVE FALSE
      OBVIOUS
    <3>2. <<k, k>> # <<l, l>>
      BY <3>1
    <3>3. <<k, k>> \in Correlation!Correlated /\ <<l, l>> \in Correlation!Correlated
      BY <1>2, <2>1
    <3>4. <<k, k>> \in Correlation!Duplicates
      BY <2>3, <2>7, <3>2, <3>3 DEF Correlation!Duplicates
    <3>5. QED
      BY <2>1, <3>4
  <2>8. Correlation!IsInjective(f)
    BY <2>4, <2>7 DEF Correlation!IsInjective
  <2>9. QED
    BY <2>5, <2>6, <2>8
<1>4. ASSUME NEW o \in Operations, exported[o].status = "acknowledged"
      PROVE  \E k \in Correlation!Effects : Correlation!IsOf(k, o)
  <2>1. o \in Correlation!InJournal
    BY <1>4 DEF Correlation!InJournal
  <2>2. PICK e \in Correlation!Correlated : o \in Correlation!Matches(e)
    BY <1>1, <1>4, <2>1 DEF Correlation!Missing
  <2>3. e[2] \in Correlation!Effects /\ e = <<e[2], e[2]>>
    BY <2>2, EventsAreWrites DEF Correlation!Correlated
  <2>4. QED
    BY <1>2, <2>2, <2>3
<1>5. QED
  BY <1>3, <1>4 DEF Correlation!CleanMeansAccounted, Correlation!AcknowledgedWasWritten

\* An honest broker is not accused.
LEMMA HonestIsNotAccused ==
  ASSUME CorrelationInv, report # Correlation!NoReport, ~intruded
  PROVE  report.forbidden = {} /\ (report.missing # {} => tears > 0)
<1>1. /\ report = Assessment /\ exported = journal /\ WritesAreDispatches /\ LogCoversWrites
      /\ tears \in Nat
  BY CorrelationAssumption DEF CorrelationInv, ReportStands, CorrelationTypes, Correlation!AuditAssumption
<1>2. ASSUME NEW k \in DOMAIN writes
      PROVE  \E o \in Operations : writes[k].agent = o /\ Correlation!Matches(<<k, k>>) = {o}
  <2>1. PICK o \in Operations :
          IsDispatchOf(k, o) /\ journal[o].status \in {"acknowledged", "uncertain", "rejected"}
    BY <1>1 DEF WritesAreDispatches
  <2>2. Correlation!IsOf(k, o)
    BY <1>1, <2>1 DEF IsDispatchOf, Correlation!IsOf
  <2>3. ASSUME NEW p \in Operations, Correlation!IsOf(k, p) PROVE p = o
    BY <2>1, <2>3, CorrelationAssumption DEF IsDispatchOf, Correlation!IsOf, Correlation!AuditAssumption
  <2>4. QED
    BY <2>1, <2>2, <2>3, MatchesAreOf DEF IsDispatchOf
<1>3. ASSUME NEW e \in Correlation!Executed
      PROVE  /\ e \in Correlation!Correlated /\ e = <<e[2], e[2]>> /\ e[2] \in DOMAIN writes
             /\ Correlation!Matches(e) = {writes[e[2]].agent}
  <2>1. e[2] \in DOMAIN writes /\ e = <<e[2], e[2]>>
    BY EventsAreWrites DEF Correlation!Effects
  <2>2. Correlation!Matches(e) = {writes[e[2]].agent}
    BY <1>2, <2>1
  <2>3. QED
    BY <2>1, <2>2, MatchesCount DEF Correlation!Correlated
<1>4. Correlation!Duplicates = {}
  <2> SUFFICES ASSUME NEW e \in Correlation!Correlated, NEW d \in Correlation!Correlated \ {e},
                      Correlation!Matches(d) = Correlation!Matches(e)
               PROVE  FALSE
    BY DEF Correlation!Duplicates
  <2>1. d \in Correlation!Executed /\ e \in Correlation!Executed
    BY DEF Correlation!Correlated
  <2>2. writes[d[2]].agent = writes[e[2]].agent
    BY <1>3, <2>1
  <2>3. d[2] = e[2]
    BY <1>1, <1>3, <2>1, <2>2 DEF WritesAreDispatches
  <2>4. QED
    BY <1>3, <2>1, <2>3
<1>5. report.forbidden = {}
  BY <1>1, <1>3, <1>4 DEF Assessment, Correlation!Forbidden
<1>6. ASSUME tears = 0, NEW o \in Correlation!Missing PROVE FALSE
  <2>1. o \in Operations /\ journal[o].status = "acknowledged" /\ ~Correlation!Malformed
    BY <1>1, <1>6 DEF Correlation!Missing, Correlation!InJournal, LogCoversWrites
  <2>2. PICK k \in DOMAIN writes : writes[k].agent = o /\ writes[k].success
    BY <1>1, <2>1 DEF WritesAreDispatches
  <2>3. k \in Correlation!Effects
    BY <1>1, <2>2 DEF Correlation!Effects, WritesAreDispatches, IsDispatchOf
  <2>4. <<k, k>> \in Correlation!Correlated /\ o \in Correlation!Matches(<<k, k>>)
    BY <1>2, <1>3, <2>1, <2>2, <2>3, EventsAreWrites
  <2>5. QED
    BY <1>6, <2>4 DEF Correlation!Missing
<1>7. QED
  BY <1>1, <1>5, <1>6 DEF Assessment

LEMMA CorrelationIsTyped == CorrelationInv => Correlation!TypeOK
<1> SUFFICES ASSUME CorrelationInv PROVE Correlation!TypeOK
  OBVIOUS
<1>1. /\ report.status \in {"none", "incomplete", "assessed", "unassessed"}
      /\ report.missing \subseteq Operations /\ report.forbidden \subseteq DOMAIN writes
  <2>1. CASE report = Correlation!NoReport
    BY <2>1 DEF Correlation!NoReport
  <2>2. CASE report = Assessment
    <3>1. Correlation!Missing \subseteq Operations
      BY DEF Correlation!Missing, Correlation!InJournal
    <3>2. \A e \in Correlation!Forbidden : e[2] \in DOMAIN writes
      BY EventsAreWrites DEF Correlation!Forbidden, Correlation!Duplicates, Correlation!Correlated,
         Correlation!Effects
    <3>3. QED
      BY <2>2, <3>1, <3>2 DEF Assessment
  <2>3. QED
    BY <2>1, <2>2 DEF CorrelationInv, ReportStands
<1>2. \A k \in DOMAIN writes : writes[k].patch \in Correlation!Patches /\ writes[k].at \in 1 .. 3
  <2>1. \A k \in DOMAIN writes : writes[k] \in Entry
    BY DEF CorrelationInv, CorrelationTypes
  <2>2. QED
    BY <2>1 DEF Entry
<1>3. \A i \in DOMAIN log : log[i] \in 0 .. Len(writes)
  BY DEF CorrelationInv, CorrelationTypes
<1>4. /\ journal \in [Operations -> [request : Requests, contract : {"legacy", "precise"}, status : Statuses]]
      /\ DOMAIN exported = Operations
      /\ period \in 1 .. 3 /\ tears \in 0 .. MaxTears /\ intruded \in BOOLEAN
  BY DEF CorrelationInv, CorrelationTypes, Operation
<1>5. QED
  BY <1>1, <1>2, <1>3, <1>4 DEF Correlation!TypeOK, Statuses

LEMMA CorrelationIsSound == CorrelationInv => Correlation!AuditIsSound
<1> SUFFICES ASSUME CorrelationInv PROVE Correlation!AuditIsSound
  OBVIOUS
<1>1. Correlation!CleanMeansAccounted /\ Correlation!AcknowledgedWasWritten
  BY CleanIsAccounted DEF Correlation!CleanMeansAccounted, Correlation!AcknowledgedWasWritten
<1>2. Correlation!NoFalseAlarm
  BY HonestIsNotAccused DEF Correlation!NoFalseAlarm
<1>3. QED
  BY <1>1, <1>2, CorrelationIsTyped DEF Correlation!AuditIsSound

\* AuditAccounts: whatever is written, by whomever, and whatever lines are torn
\* or repeated, a clean audit gives every write in the trial an operation of its
\* own and every acknowledged operation a write, and a broker that keeps its
\* journal is never accused (audit.py assess).
THEOREM AuditsAccount == Spec => []AuditAccounts
<1> DEFINE Inv == part = "correlation" => CorrelationInv
<1>1. Init => Inv
  BY CorrelationStarts DEF Init
<1>2. Inv /\ [Next]_vars => Inv'
  <2> SUFFICES ASSUME Inv, [Next]_vars PROVE Inv'
    OBVIOUS
  <2>1. CASE part = "correlation" /\ Correlation!Next /\ UNCHANGED part
    BY <2>1, CorrelationStep
  <2>2. CASE part # "correlation" /\ UNCHANGED part
    BY <2>2
  <2>3. CASE UNCHANGED vars
    <3>1. UNCHANGED <<part, journal, writes, log, period, exported, report, intruded, tears>>
      BY <2>3 DEF vars, correlation
    <3>2. Assessment' = Assessment
      BY <3>1 DEF Assessment, Correlation!Missing, Correlation!Malformed, Correlation!Selected,
         Correlation!Forbidden, Correlation!Executed, Correlation!Correlated, Correlation!Duplicates,
         Correlation!Matches, Correlation!InJournal, Correlation!PatchExpected, Correlation!Events
    <3>3. ReportStands' <=> ReportStands
      BY <3>1, <3>2 DEF ReportStands
    <3>4. WritesAreDispatches' <=> WritesAreDispatches
      BY <3>1 DEF WritesAreDispatches, IsDispatchOf
    <3>5. (CorrelationTypes /\ LogCoversWrites)' <=> CorrelationTypes /\ LogCoversWrites
      BY <3>1 DEF CorrelationTypes, LogCoversWrites, Correlation!Malformed
    <3>6. QED
      BY <3>1, <3>3, <3>4, <3>5 DEF CorrelationInv
  <2>4. QED
    BY <2>1, <2>2, <2>3 DEF Next
<1>3. Inv => AuditAccounts
  BY CorrelationIsSound DEF AuditAccounts
<1>4. QED
  BY <1>1, <1>2, <1>3, PTL DEF Spec
---------------------------------------------------------------------------
(* The settlement of batches. *)

Stations == {"next", "open inventory", "open quote", "batch", "close quote", "close inventory", "read quote",
             "read inventory", "judge", "readers", "done", "failed"}
GateType == [up : BOOLEAN, instance : Nat, epoch : Nat, closed : BOOLEAN, downstream : Nat,
             active : SUBSET Ids, done : SUBSET Ids]
Gates == [Batches!Services -> GateType]
CallType == [epoch : Batches!Epochs, id : Ids, stage : {"forward", "waiting", "answered"}]
WorkerType == [epoch : Batches!Epochs, id : Ids, stage : {"connect", "read"}]

SettlementTypes ==
  /\ gate \in Gates /\ born \in Nat /\ born >= 2
  /\ wire \subseteq [to : Batches!Services, instance : Nat, epoch : Batches!Epochs, id : Ids]
  /\ calls \subseteq CallType /\ workers \subseteq WorkerType
  /\ sessions \subseteq [epoch : Batches!Epochs, id : Ids]
  /\ client \in [Ids -> {"unsent", "sent", "ok", "unavailable", "conflict", "lost"}]
  /\ ctl \in [at : Stations, epoch : 0 .. MaxEpoch, seen : Gates] /\ conditions = ctl.epoch
  /\ accepted \subseteq [epoch : Batches!Epochs, ledger : [Batches!Services -> SUBSET Ids]]
  /\ ran \in [Batches!Services -> [Batches!Epochs -> [Ids -> Nat]]]
  /\ faults \in 0 .. MaxFaults

\* What ran at a service in an epoch.
Ran(s, e) == {i \in Ids : ran[s][e][i] > 0}

\* A service that still is the one the controller met has in its ledger what ran in
\* its epoch, and nothing ran later; one that was started in its place stays shut.
GateIsTrue(s) ==
  /\ \/ gate[s].instance = Batches!instances[s]
     \/ gate[s].instance > 2 /\ gate[s].closed /\ gate[s].epoch = 0
  /\ gate[s].instance <= born
  /\ ~gate[s].up => gate[s].active = {} /\ gate[s].done = {}
  /\ gate[s].active \cap gate[s].done = {}
  /\ gate[s].epoch <= ctl.epoch
  /\ ~gate[s].closed => gate[s].epoch = ctl.epoch /\ ctl.epoch > 0
  /\ gate[s].up /\ gate[s].epoch > 0 => Ran(s, gate[s].epoch) = gate[s].active \cup gate[s].done
  /\ gate[s].instance = Batches!instances[s] =>
       \A e \in Batches!Epochs : e > gate[s].epoch => Ran(s, e) = {}
  /\ s = "quote" /\ gate[s].epoch > 0 => gate[s].downstream = 2
GatesAreTrue == \A s \in Batches!Services : GateIsTrue(s)

\* The handlers of a service are its active requests, each of the present epoch.
HandlersOf(s, handlers) ==
  /\ gate[s].active = {h.id : h \in handlers}
  /\ \A h \in handlers : h.epoch = gate[s].epoch /\ h.epoch = ctl.epoch
  /\ \A h, k \in handlers : h.id = k.id => h = k
HandlersAreActive ==
  /\ HandlersOf("quote", calls) /\ HandlersOf("inventory", workers)
  /\ \A x \in sessions : x.epoch = ctl.epoch
  /\ \A h \in calls : h.stage = "answered" => h.id \in Ran("inventory", h.epoch)

\* What ran was asked for in its batch, at Quote first, once.
RequestsAreOfTheirBatch ==
  /\ \A m \in wire : /\ m.epoch <= ctl.epoch
                     /\ m.to = "inventory" => m.id \in Ran("quote", m.epoch)
                     /\ m.epoch = ctl.epoch => client[m.id] # "unsent"
  /\ \A e \in Batches!Epochs : /\ Ran("inventory", e) \subseteq Ran("quote", e)
                               /\ e > ctl.epoch => Ran("quote", e) = {}
                               /\ e = ctl.epoch => \A i \in Ran("quote", e) : client[i] # "unsent"
  /\ Batches!AdmittedOnce /\ Batches!AnswersAreBacked

\* Where the fences are shut, and where nothing is left.
FencesStand ==
  /\ ctl.at # "next" => ctl.epoch > 0
  /\ ctl.at \notin {"batch", "close quote", "failed"} => gate["quote"].closed
  /\ ctl.at \notin {"open quote", "batch", "close quote", "close inventory", "failed"} => gate["inventory"].closed
  /\ ctl.at \in {"next", "done", "open inventory"} => calls = {} /\ workers = {} /\ sessions = {}

\* A ledger that was read of the present epoch, with its fence shut, is of what
\* ran, and of a service that has nothing left if it was read to have nothing.
SeenIsTrue(s) ==
  /\ ctl.seen[s].epoch <= ctl.epoch
  /\ ctl.at \in {"open inventory", "open quote", "batch", "close quote", "close inventory"} =>
       ctl.seen[s].epoch < ctl.epoch
  /\ ctl.epoch > 0 /\ Batches!SameInstance(s) /\ ctl.seen[s].closed =>
       /\ gate[s].closed /\ Ran(s, ctl.epoch) = ctl.seen[s].active \cup ctl.seen[s].done
       /\ ctl.seen[s].active = {} => gate[s].active = {}
       /\ s = "quote" => ctl.seen[s].downstream = 2
LedgersAreRead ==
  /\ \A s \in Batches!Services : SeenIsTrue(s)
  /\ ctl.at = "readers" => Batches!AllFinished /\ \A s \in Batches!Services : Batches!SameInstance(s) /\ ctl.seen[s].closed

\* What was accepted is of a batch that is over, and is what ran in it.
AcceptedIsOver ==
  \A a \in accepted : /\ a.epoch <= ctl.epoch /\ (a.epoch = ctl.epoch => ctl.at \in {"next", "done"})
                      /\ \A s \in Batches!Services : a.ledger[s] = Ran(s, a.epoch)

SettlementInv ==
  /\ SettlementTypes /\ GatesAreTrue /\ HandlersAreActive /\ RequestsAreOfTheirBatch
  /\ FencesStand /\ LedgersAreRead /\ AcceptedIsOver

LEMMA Identities ==
  /\ Batches!Services = {"quote", "inventory"} /\ Batches!instances["quote"] = 1
  /\ Batches!instances["inventory"] = 2
  /\ MaxEpoch \in Nat \ {0} /\ MaxFaults \in Nat /\ Batches!Epochs = 1 .. MaxEpoch
BY BatchesAssumption DEF Batches!Services, Batches!instances, Batches!SettlementAssumption, Batches!Epochs

LEMMA SettlementStarts == Batches!Init => SettlementInv
<1> SUFFICES ASSUME Batches!Init PROVE SettlementInv
  OBVIOUS
<1> USE Identities DEF Batches!Init
<1>1. gate \in Gates
  BY DEF Gates, GateType, Batches!Fresh
<1>2. SettlementTypes
  <2>1. ctl \in [at : Stations, epoch : 0 .. MaxEpoch, seen : Gates]
    BY <1>1 DEF Stations
  <2>2. ran \in [Batches!Services -> [Batches!Epochs -> [Ids -> Nat]]]
    OBVIOUS
  <2>3. QED
    BY <1>1, <2>1, <2>2 DEF SettlementTypes
<1>3. \A s \in Batches!Services : /\ gate[s] = Batches!Fresh(Batches!instances[s], 0)
                                  /\ \A e \in Batches!Epochs : Ran(s, e) = {}
  BY DEF Ran
<1>4. GatesAreTrue
  BY <1>3 DEF GatesAreTrue, GateIsTrue, Batches!Fresh
<1>5. HandlersAreActive
  BY <1>3 DEF HandlersAreActive, HandlersOf, Batches!Fresh
<1>6. RequestsAreOfTheirBatch
  BY <1>3 DEF RequestsAreOfTheirBatch, Batches!AdmittedOnce, Batches!AnswersAreBacked
<1>7. FencesStand
  BY <1>3 DEF FencesStand, Batches!Fresh
<1>8. LedgersAreRead
  BY <1>3 DEF LedgersAreRead, SeenIsTrue, Batches!Fresh
<1>9. AcceptedIsOver
  BY DEF AcceptedIsOver
<1>10. QED
  BY <1>2, <1>4, <1>5, <1>6, <1>7, <1>8, <1>9 DEF SettlementInv

\* What a step leaves true by leaving alone what it is about.
LEMMA GatesFrame ==
  ASSUME GatesAreTrue, UNCHANGED <<gate, born, ran>>, ctl'.epoch = ctl.epoch
  PROVE  GatesAreTrue'
<1> SUFFICES ASSUME NEW s \in Batches!Services PROVE GateIsTrue(s)'
  BY DEF GatesAreTrue
<1>1. GateIsTrue(s) /\ \A e : Ran(s, e)' = Ran(s, e)
  BY DEF GatesAreTrue, Ran
<1>2. QED
  BY <1>1 DEF GateIsTrue

LEMMA LedgersFrame ==
  ASSUME LedgersAreRead, UNCHANGED <<gate, ran, ctl>>
  PROVE  LedgersAreRead'
<1>1. Batches!AllFinished' <=> Batches!AllFinished
  BY DEF Batches!AllFinished
<1>2. ASSUME NEW s \in Batches!Services
      PROVE  SeenIsTrue(s)' /\ (Batches!SameInstance(s)' <=> Batches!SameInstance(s))
  <2>1. SeenIsTrue(s) /\ (Batches!SameInstance(s)' <=> Batches!SameInstance(s))
    BY DEF LedgersAreRead, Batches!SameInstance
  <2>2. Ran(s, ctl.epoch)' = Ran(s, ctl.epoch)
    BY DEF Ran
  <2>3. QED
    BY <2>1, <2>2 DEF SeenIsTrue
<1>3. QED
  BY <1>1, <1>2 DEF LedgersAreRead

LEMMA RequestsFrame ==
  ASSUME RequestsAreOfTheirBatch, wire' \subseteq wire, UNCHANGED <<client, ran>>, ctl'.epoch = ctl.epoch
  PROVE  RequestsAreOfTheirBatch'
<1>1. \A s, e : Ran(s, e)' = Ran(s, e)
  BY DEF Ran
<1>2. Batches!AdmittedOnce' /\ Batches!AnswersAreBacked'
  BY DEF RequestsAreOfTheirBatch, Batches!AdmittedOnce, Batches!AnswersAreBacked
<1>3. QED
  BY <1>1, <1>2 DEF RequestsAreOfTheirBatch

LEMMA AcceptedFrame ==
  ASSUME AcceptedIsOver, UNCHANGED <<accepted, ran, ctl>>
  PROVE  AcceptedIsOver'
BY DEF AcceptedIsOver, Ran

\* What the callers do.
LEMMA CallersKeep ==
  ASSUME SettlementInv, NEW i \in Ids, Batches!Dispatch(i) \/ Batches!GiveUp(i) \/ Batches!Repeat(i)
  PROVE  SettlementInv'
<1> USE Identities
<1>1. UNCHANGED <<gate, born, calls, workers, sessions, ran, ctl, conditions, accepted>>
  BY DEF Batches!Dispatch, Batches!GiveUp, Batches!Repeat, Batches!controller, Batches!services
<1>2. /\ client' \in [Ids -> {"unsent", "sent", "ok", "unavailable", "conflict", "lost"}]
      /\ \A j \in Ids : /\ client[j] # "unsent" => client'[j] # "unsent"
                        /\ client'[j] \in {"ok", "unavailable"} => client'[j] = client[j]
  BY DEF SettlementInv, SettlementTypes, Batches!Dispatch, Batches!GiveUp, Batches!Repeat
<1>3. faults' \in 0 .. MaxFaults
  BY DEF SettlementInv, SettlementTypes, Batches!Dispatch, Batches!GiveUp, Batches!Repeat
<1>4. /\ wire' \subseteq [to : Batches!Services, instance : Nat, epoch : Batches!Epochs, id : Ids]
      /\ \A m \in wire' \ wire : m.to = "quote" /\ m.epoch = ctl.epoch /\ m.id = i /\ client'[i] # "unsent"
  <2>1. wire' # wire => /\ wire' = wire \cup {Batches!Request(i)} /\ client'[i] # "unsent" /\ ctl.at = "batch"
    BY DEF SettlementInv, SettlementTypes, Batches!Dispatch, Batches!GiveUp, Batches!Repeat, Batches!services
  <2>2. ctl.at = "batch" => ctl.epoch \in Batches!Epochs
    BY DEF SettlementInv, SettlementTypes, FencesStand
  <2>3. QED
    BY <2>1, <2>2 DEF SettlementInv, SettlementTypes, Batches!Request
<1>5. SettlementTypes'
  BY <1>1, <1>2, <1>3, <1>4 DEF SettlementInv, SettlementTypes
<1>6. RequestsAreOfTheirBatch'
  <2>1. \A m \in wire' : /\ m.epoch <= ctl.epoch
                         /\ m.to = "inventory" => m.id \in Ran("quote", m.epoch)
                         /\ m.epoch = ctl.epoch => client'[m.id] # "unsent"
    <3> SUFFICES ASSUME NEW m \in wire'
                 PROVE  /\ m.epoch <= ctl.epoch
                        /\ m.to = "inventory" => m.id \in Ran("quote", m.epoch)
                        /\ m.epoch = ctl.epoch => client'[m.id] # "unsent"
      OBVIOUS
    <3>1. CASE m \in wire
      <4>1. /\ m.epoch <= ctl.epoch /\ m.id \in Ids
            /\ m.to = "inventory" => m.id \in Ran("quote", m.epoch)
            /\ m.epoch = ctl.epoch => client[m.id] # "unsent"
        BY <3>1 DEF SettlementInv, SettlementTypes, RequestsAreOfTheirBatch
      <4>2. client[m.id] # "unsent" => client'[m.id] # "unsent"
        BY <1>2, <4>1
      <4>3. QED
        BY <4>1, <4>2
    <3>2. CASE m \notin wire
      <4>1. m.to = "quote" /\ m.epoch = ctl.epoch /\ m.id = i /\ client'[i] # "unsent" /\ ctl.epoch \in Nat
        BY <1>4, <3>2 DEF SettlementInv, SettlementTypes
      <4>2. QED
        BY <4>1
    <3>3. QED
      BY <3>1, <3>2
  <2>2. Batches!AdmittedOnce' /\ Batches!AnswersAreBacked'
    BY <1>1, <1>2 DEF SettlementInv, RequestsAreOfTheirBatch, Batches!AdmittedOnce, Batches!AnswersAreBacked
  <2>3. QED
    BY <1>1, <1>2, <2>1, <2>2 DEF SettlementInv, RequestsAreOfTheirBatch, Ran
<1>7. GatesAreTrue' /\ LedgersAreRead' /\ AcceptedIsOver'
  BY <1>1, GatesFrame, LedgersFrame, AcceptedFrame DEF SettlementInv
<1>9. HandlersAreActive' /\ FencesStand'
  BY <1>1 DEF SettlementInv, HandlersAreActive, HandlersOf, FencesStand, Ran
<1>8. QED
  BY <1>5, <1>6, <1>7, <1>9 DEF SettlementInv

\* What a handler works on ran at its service.
LEMMA ActiveRan ==
  ASSUME SettlementInv
  PROVE  /\ \A h \in calls : h.epoch = ctl.epoch /\ h.id \in Ran("quote", h.epoch)
         /\ \A h \in workers : h.epoch = ctl.epoch /\ h.id \in Ran("inventory", h.epoch)
<1> USE Identities
<1>1. ASSUME NEW s \in Batches!Services, NEW handlers, HandlersOf(s, handlers), NEW h \in handlers,
             h.epoch \in Batches!Epochs
      PROVE  h.epoch = ctl.epoch /\ h.id \in Ran(s, h.epoch)
  <2>1. h.epoch = ctl.epoch /\ h.epoch = gate[s].epoch /\ h.id \in gate[s].active
    BY <1>1 DEF HandlersOf
  <2>2. gate[s].up /\ gate[s].epoch > 0
    BY <1>1, <2>1 DEF SettlementInv, GatesAreTrue, GateIsTrue
  <2>3. QED
    BY <2>1, <2>2 DEF SettlementInv, GatesAreTrue, GateIsTrue
<1>2. QED
  BY <1>1 DEF SettlementInv, HandlersAreActive, SettlementTypes, CallType, WorkerType

\* A request on its way from Quote to Inventory.
LEMMA ForwardKeeps ==
  ASSUME SettlementInv, NEW h \in calls, Batches!Forward(h)
  PROVE  SettlementInv'
<1> USE Identities
<1> DEFINE g == [h EXCEPT !.stage = "waiting"]
           m == [to |-> "inventory", instance |-> gate["quote"].downstream, epoch |-> h.epoch, id |-> h.id]
<1>1. /\ UNCHANGED <<gate, born, workers, sessions, client, ran, ctl, conditions, accepted, faults>>
      /\ calls' = (calls \ {h}) \cup {g} /\ wire' = wire \cup {m}
  BY DEF Batches!Forward, Batches!controller
<1>2. /\ h \in CallType /\ g \in CallType /\ g.id = h.id /\ g.epoch = h.epoch /\ g.stage = "waiting"
      /\ gate["quote"] \in GateType
  BY DEF SettlementInv, SettlementTypes, CallType, Gates
<1>3. /\ m \in [to : Batches!Services, instance : Nat, epoch : Batches!Epochs, id : Ids]
      /\ m.epoch = h.epoch /\ m.id = h.id
  BY <1>2 DEF CallType, GateType
<1> HIDE DEF g, m
<1>4. SettlementTypes'
  BY <1>1, <1>2, <1>3 DEF SettlementInv, SettlementTypes
<1>5. h.epoch = ctl.epoch /\ h.epoch \in Nat
  BY <1>2 DEF SettlementInv, HandlersAreActive, HandlersOf, CallType
<1>6. h.id \in Ran("quote", h.epoch) /\ client[h.id] # "unsent" /\ h.epoch \in Batches!Epochs
  BY <1>2, ActiveRan DEF SettlementInv, RequestsAreOfTheirBatch, CallType
<1>7. HandlersAreActive'
  <2>1. HandlersOf("quote", calls)'
    BY <1>1, <1>2 DEF SettlementInv, HandlersAreActive, HandlersOf
  <2>2. QED
    BY <1>1, <1>2, <2>1 DEF SettlementInv, HandlersAreActive, HandlersOf, Ran
<1>8. RequestsAreOfTheirBatch'
  <2>1. \A n \in wire' : /\ n.epoch <= ctl.epoch
                         /\ n.to = "inventory" => n.id \in Ran("quote", n.epoch)
                         /\ n.epoch = ctl.epoch => client[n.id] # "unsent"
    BY <1>1, <1>3, <1>5, <1>6 DEF SettlementInv, RequestsAreOfTheirBatch
  <2>2. QED
    BY <1>1, <2>1 DEF SettlementInv, RequestsAreOfTheirBatch, Ran, Batches!AdmittedOnce, Batches!AnswersAreBacked
<1>9. FencesStand'
  BY <1>1 DEF SettlementInv, FencesStand
<1>10. GatesAreTrue' /\ LedgersAreRead' /\ AcceptedIsOver'
  BY <1>1, GatesFrame, LedgersFrame, AcceptedFrame DEF SettlementInv
<1>11. QED
  BY <1>4, <1>7, <1>8, <1>9, <1>10 DEF SettlementInv

LEMMA ConnectKeeps ==
  ASSUME SettlementInv, NEW h \in workers, Batches!Connect(h)
  PROVE  SettlementInv'
<1> USE Identities
<1> DEFINE g == [h EXCEPT !.stage = "read"]
<1>1. /\ UNCHANGED <<gate, born, wire, calls, client, ran, ctl, conditions, accepted, faults>>
      /\ workers' = (workers \ {h}) \cup {g} /\ sessions' = sessions \cup {[epoch |-> h.epoch, id |-> h.id]}
  BY DEF Batches!Connect, Batches!controller, Batches!Session
<1>2. /\ h \in WorkerType /\ g \in WorkerType /\ g.id = h.id /\ g.epoch = h.epoch
      /\ [epoch |-> h.epoch, id |-> h.id] \in [epoch : Batches!Epochs, id : Ids]
  BY DEF SettlementInv, SettlementTypes, WorkerType
<1>3. h.epoch = ctl.epoch
  BY ActiveRan
<1> HIDE DEF g
<1>4. SettlementTypes'
  BY <1>1, <1>2 DEF SettlementInv, SettlementTypes
<1>5. HandlersAreActive'
  <2>1. HandlersOf("inventory", workers)'
    BY <1>1, <1>2 DEF SettlementInv, HandlersAreActive, HandlersOf
  <2>2. \A x \in sessions' : x.epoch = ctl.epoch
    BY <1>1, <1>3 DEF SettlementInv, HandlersAreActive
  <2>3. QED
    BY <1>1, <2>1, <2>2 DEF SettlementInv, HandlersAreActive, HandlersOf, Ran
<1>6. RequestsAreOfTheirBatch' /\ FencesStand'
  <2>1. ctl.at \notin {"next", "done", "open inventory"}
    BY DEF SettlementInv, FencesStand
  <2>2. FencesStand'
    BY <1>1, <2>1 DEF SettlementInv, FencesStand
  <2>3. QED
    BY <1>1, <2>2, RequestsFrame DEF SettlementInv
<1>7. GatesAreTrue' /\ LedgersAreRead' /\ AcceptedIsOver'
  BY <1>1, GatesFrame, LedgersFrame, AcceptedFrame DEF SettlementInv
<1>8. QED
  BY <1>4, <1>5, <1>6, <1>7 DEF SettlementInv

LEMMA SessionEndKeeps ==
  ASSUME SettlementInv, NEW x \in sessions, Batches!SessionEnds(x)
  PROVE  SettlementInv'
<1>1. /\ UNCHANGED <<gate, born, wire, calls, workers, client, ran, ctl, conditions, accepted, faults>>
      /\ sessions' = sessions \ {x}
  BY DEF Batches!SessionEnds, Batches!controller
<1>2. SettlementTypes' /\ HandlersAreActive'
  BY <1>1 DEF SettlementInv, SettlementTypes, HandlersAreActive, HandlersOf, Ran
<1>3. RequestsAreOfTheirBatch' /\ FencesStand'
  BY <1>1, RequestsFrame DEF SettlementInv, FencesStand
<1>4. GatesAreTrue' /\ LedgersAreRead' /\ AcceptedIsOver'
  BY <1>1, GatesFrame, LedgersFrame, AcceptedFrame DEF SettlementInv
<1>5. QED
  BY <1>2, <1>3, <1>4 DEF SettlementInv

\* A service admits a request of the open epoch, which it has not run.
LEMMA AdmissionKeeps ==
  ASSUME SettlementInv, NEW s \in Batches!Services, NEW m \in wire, gate[s].up, Batches!Admits(s, m),
         Batches!Admit(s, m), UNCHANGED <<born, ctl, accepted>>
  PROVE  /\ m.epoch = ctl.epoch /\ gate[s].epoch = ctl.epoch /\ m.id \notin gate[s].active /\ ~gate[s].closed
         /\ gate' \in Gates /\ ran' \in [Batches!Services -> [Batches!Epochs -> [Ids -> Nat]]]
         /\ gate'[s].active = gate[s].active \cup {m.id} /\ gate'[s].epoch = gate[s].epoch
         /\ \A t \in Batches!Services : gate'[t].closed = gate[t].closed /\ (t # s => gate'[t] = gate[t])
         /\ Ran(s, m.epoch)' = Ran(s, m.epoch) \cup {m.id}
         /\ \A t \in Batches!Services, e \in Batches!Epochs : t # s \/ e # m.epoch => Ran(t, e)' = Ran(t, e)
         /\ Batches!AdmittedOnce' /\ GatesAreTrue' /\ LedgersAreRead' /\ AcceptedIsOver'
<1> USE Identities
<1>1. /\ gate \in Gates /\ ran \in [Batches!Services -> [Batches!Epochs -> [Ids -> Nat]]]
      /\ m.epoch \in Batches!Epochs /\ m.id \in Ids /\ m.epoch \in Nat /\ m.epoch > 0
      /\ gate[s] \in GateType
  <2>1. gate \in Gates /\ ran \in [Batches!Services -> [Batches!Epochs -> [Ids -> Nat]]]
    BY DEF SettlementInv, SettlementTypes
  <2>2. m \in [to : Batches!Services, instance : Nat, epoch : Batches!Epochs, id : Ids]
    BY DEF SettlementInv, SettlementTypes
  <2>3. m.epoch \in Nat /\ m.epoch > 0
    BY <2>2
  <2>4. gate[s] \in GateType
    BY <2>1 DEF Gates
  <2>5. QED
    BY <2>1, <2>2, <2>3, <2>4
<1>2. /\ ~gate[s].closed /\ m.epoch = gate[s].epoch /\ m.id \notin gate[s].active \cup gate[s].done
      /\ gate' = [gate EXCEPT ![s].active = @ \cup {m.id}]
      /\ ran' = [ran EXCEPT ![s][m.epoch][m.id] = @ + 1]
  BY DEF Batches!Admits, Batches!Admit, Batches!FenceUp, Batches!IsNew
<1>3. m.epoch = ctl.epoch /\ gate[s].instance = Batches!instances[s]
  BY <1>2 DEF SettlementInv, GatesAreTrue, GateIsTrue
<1>4. /\ gate' \in Gates /\ gate'[s] = [gate[s] EXCEPT !.active = @ \cup {m.id}]
      /\ \A t \in Batches!Services : t # s => gate'[t] = gate[t]
  BY <1>1, <1>2 DEF Gates, GateType
<1>5. /\ gate'[s].up = gate[s].up /\ gate'[s].instance = gate[s].instance /\ gate'[s].epoch = gate[s].epoch
      /\ gate'[s].closed = gate[s].closed /\ gate'[s].downstream = gate[s].downstream
      /\ gate'[s].active = gate[s].active \cup {m.id} /\ gate'[s].done = gate[s].done
  BY <1>1, <1>4 DEF GateType
<1>6. /\ ran' \in [Batches!Services -> [Batches!Epochs -> [Ids -> Nat]]]
      /\ ran'[s][m.epoch][m.id] = ran[s][m.epoch][m.id] + 1
      /\ \A t \in Batches!Services, e \in Batches!Epochs, i \in Ids :
           t # s \/ e # m.epoch \/ i # m.id => ran'[t][e][i] = ran[t][e][i]
  <2>1. ran \in [Batches!Services -> [Batches!Epochs -> [Ids -> Nat]]] /\ m.epoch \in Batches!Epochs /\ m.id \in Ids
    BY <1>1
  <2>2. ran' = [ran EXCEPT ![s][m.epoch][m.id] = @ + 1]
    BY <1>2
  <2>3. ran' \in [Batches!Services -> [Batches!Epochs -> [Ids -> Nat]]]
    BY ONLY <2>1, <2>2
  <2>4. ran'[s][m.epoch][m.id] = ran[s][m.epoch][m.id] + 1
    BY ONLY <2>1, <2>2
  <2>5. ASSUME NEW u \in Batches!Services, NEW e \in Batches!Epochs, NEW i \in Ids, u # s \/ e # m.epoch \/ i # m.id
        PROVE  ran'[u][e][i] = ran[u][e][i]
    BY ONLY <2>1, <2>2, <2>5
  <2>6. QED
    BY ONLY <2>3, <2>4, <2>5
<1>7. m.id \notin Ran(s, m.epoch)
  BY <1>1, <1>2 DEF SettlementInv, GatesAreTrue, GateIsTrue
<1>8. Batches!AdmittedOnce'
  <2>1. ran[s][m.epoch][m.id] = 0
    BY <1>1, <1>7 DEF Ran
  <2>2. ASSUME NEW t \in Batches!Services, NEW e \in Batches!Epochs, NEW i \in Ids
        PROVE  ran'[t][e][i] <= 1
    <3>1. ran[t][e][i] <= 1
      BY DEF SettlementInv, RequestsAreOfTheirBatch, Batches!AdmittedOnce
    <3>2. CASE t = s /\ e = m.epoch /\ i = m.id
      BY <1>6, <2>1, <3>2
    <3>3. CASE t # s \/ e # m.epoch \/ i # m.id
      BY <1>6, <3>1, <3>3
    <3>4. QED
      BY <3>2, <3>3
  <2>3. QED
    BY <2>2 DEF Batches!AdmittedOnce
<1>9. /\ Ran(s, m.epoch)' = Ran(s, m.epoch) \cup {m.id}
      /\ \A t \in Batches!Services, e \in Batches!Epochs : t # s \/ e # m.epoch => Ran(t, e)' = Ran(t, e)
  <2>1. ASSUME NEW t \in Batches!Services, NEW e \in Batches!Epochs, t # s \/ e # m.epoch
        PROVE  Ran(t, e)' = Ran(t, e)
    <3>1. \A i \in Ids : ran'[t][e][i] = ran[t][e][i]
      BY <1>6, <2>1
    <3>2. QED
      BY <3>1 DEF Ran
  <2>2. ran'[s][m.epoch][m.id] > 0 /\ \A i \in Ids \ {m.id} : ran'[s][m.epoch][i] = ran[s][m.epoch][i]
    <3>1. ran[s][m.epoch][m.id] \in Nat
      BY <1>1
    <3>2. ran'[s][m.epoch][m.id] > 0
      BY <1>6, <3>1
    <3>3. ASSUME NEW i \in Ids, i # m.id PROVE ran'[s][m.epoch][i] = ran[s][m.epoch][i]
      <4>1. m.epoch \in Batches!Epochs
        BY <1>1
      <4> QED
        BY <1>6, <3>3, <4>1
    <3>4. QED
      BY <3>2, <3>3
  <2>3. Ran(s, m.epoch)' = Ran(s, m.epoch) \cup {m.id}
    BY <1>1, <2>2 DEF Ran
  <2>4. QED
    BY <2>1, <2>3
<1>10. GatesAreTrue'
  <2> SUFFICES ASSUME NEW t \in Batches!Services PROVE GateIsTrue(t)'
    BY DEF GatesAreTrue
  <2>1. GateIsTrue(t)
    BY DEF SettlementInv, GatesAreTrue
  <2>2. CASE t = s
    <3>1. \A e \in Batches!Epochs : e > gate[s].epoch => Ran(s, e)' = Ran(s, e)
      BY <1>1, <1>2, <1>9
    <3>2. Ran(s, gate[s].epoch)' = gate'[s].active \cup gate'[s].done
      BY <1>1, <1>2, <1>5, <1>9, <2>1, <2>2 DEF GateIsTrue
    <3>3. QED
      BY <1>1, <1>2, <1>3, <1>5, <2>1, <2>2, <3>1, <3>2 DEF GateIsTrue
  <2>3. CASE t # s
    <3>1. gate[t] \in GateType
      BY <1>1 DEF Gates
    <3>2. \A e \in Batches!Epochs : Ran(t, e)' = Ran(t, e)
      BY <1>9, <2>3
    <3>3. gate[t].epoch > 0 => gate[t].epoch \in Batches!Epochs
      <4>1. ctl.epoch \in 0 .. MaxEpoch /\ gate[t].epoch \in Nat /\ gate[t].epoch <= ctl.epoch
        BY <2>1, <3>1 DEF GateIsTrue, GateType, SettlementInv, SettlementTypes
      <4>2. QED
        BY <4>1
    <3>4. QED
      BY <1>4, <2>1, <2>3, <3>2, <3>3 DEF GateIsTrue
  <2>4. QED
    BY <2>2, <2>3
<1>11. LedgersAreRead'
  <2>1. Batches!AllFinished' <=> Batches!AllFinished
    BY DEF Batches!AllFinished
  <2>2. ASSUME NEW t \in Batches!Services
        PROVE  SeenIsTrue(t)' /\ (Batches!SameInstance(t)' <=> Batches!SameInstance(t))
    <3>1. SeenIsTrue(t) /\ (Batches!SameInstance(t)' <=> Batches!SameInstance(t))
      BY DEF SettlementInv, LedgersAreRead, Batches!SameInstance
    <3>2. CASE t = s
      BY <1>2, <1>5, <3>1, <3>2 DEF SeenIsTrue
    <3>3. CASE t # s
      BY <1>1, <1>3, <1>4, <1>9, <3>1, <3>3 DEF SeenIsTrue
    <3>4. QED
      BY <3>1, <3>2, <3>3
  <2>3. QED
    BY <2>1, <2>2 DEF SettlementInv, LedgersAreRead
<1>12. AcceptedIsOver'
  <2>1. ctl.at \notin {"next", "done"}
    BY <1>2 DEF SettlementInv, FencesStand
  <2>2. \A a \in accepted : a.epoch \in Batches!Epochs /\ a.epoch # m.epoch
    BY <1>3, <2>1 DEF SettlementInv, AcceptedIsOver, SettlementTypes
  <2>3. QED
    BY <1>9, <2>2 DEF SettlementInv, AcceptedIsOver
<1>13. QED
  BY <1>2, <1>3, <1>4, <1>5, <1>6, <1>8, <1>9, <1>10, <1>11, <1>12

\* A handler comes to its end.
LEMMA FinishKeeps ==
  ASSUME SettlementInv, NEW s \in Batches!Services, NEW h, h.id \in gate[s].active, h.epoch = gate[s].epoch,
         h.epoch \in Batches!Epochs, Batches!Finish(s, h), UNCHANGED <<born, ctl, ran>>
  PROVE  /\ gate' \in Gates /\ gate'[s].active = gate[s].active \ {h.id}
         /\ \A t \in Batches!Services : gate'[t].closed = gate[t].closed /\ gate'[t].epoch = gate[t].epoch
         /\ \A t \in Batches!Services : t # s => gate'[t] = gate[t]
         /\ GatesAreTrue' /\ LedgersAreRead'
<1> USE Identities
<1>1. gate \in Gates /\ gate[s] \in GateType /\ h.id \in Ids
  BY DEF SettlementInv, SettlementTypes, Gates, GateType
<1>2. gate' = [gate EXCEPT ![s].active = @ \ {h.id}, ![s].done = @ \cup {h.id}]
  BY DEF Batches!Finish
<1>3. /\ gate' \in Gates /\ gate'[s] = [gate[s] EXCEPT !.active = @ \ {h.id}, !.done = @ \cup {h.id}]
      /\ \A t \in Batches!Services : t # s => gate'[t] = gate[t]
  BY <1>1, <1>2 DEF Gates, GateType
<1>4. /\ gate'[s].up = gate[s].up /\ gate'[s].instance = gate[s].instance /\ gate'[s].epoch = gate[s].epoch
      /\ gate'[s].closed = gate[s].closed /\ gate'[s].downstream = gate[s].downstream
      /\ gate'[s].active = gate[s].active \ {h.id} /\ gate'[s].done = gate[s].done \cup {h.id}
  BY <1>1, <1>3 DEF GateType
<1>5. \A t, e : Ran(t, e)' = Ran(t, e)
  BY DEF Ran
<1>6. GatesAreTrue'
  <2> SUFFICES ASSUME NEW t \in Batches!Services PROVE GateIsTrue(t)'
    BY DEF GatesAreTrue
  <2>1. GateIsTrue(t)
    BY DEF SettlementInv, GatesAreTrue
  <2>2. CASE t = s
    BY <1>1, <1>4, <1>5, <2>1, <2>2 DEF GateIsTrue
  <2>3. CASE t # s
    BY <1>3, <1>5, <2>1, <2>3 DEF GateIsTrue
  <2>4. QED
    BY <2>2, <2>3
<1>7. LedgersAreRead'
  <2>1. Batches!AllFinished' <=> Batches!AllFinished
    BY DEF Batches!AllFinished
  <2>2. ASSUME NEW t \in Batches!Services
        PROVE  SeenIsTrue(t)' /\ (Batches!SameInstance(t)' <=> Batches!SameInstance(t))
    <3>1. SeenIsTrue(t) /\ (Batches!SameInstance(t)' <=> Batches!SameInstance(t))
      BY DEF SettlementInv, LedgersAreRead, Batches!SameInstance
    <3>2. gate'[t].closed = gate[t].closed /\ (gate[t].active = {} => gate'[t].active = {})
      BY <1>3, <1>4
    <3>3. QED
      BY <1>5, <3>1, <3>2 DEF SeenIsTrue
  <2>3. QED
    BY <2>1, <2>2 DEF SettlementInv, LedgersAreRead
<1>8. QED
  BY <1>3, <1>4, <1>6, <1>7

LEMMA AnswersRan ==
  Batches!AnswersAreBacked <=>
    \A i \in Ids : /\ client[i] \in {"ok", "unavailable"} => i \in Ran("quote", ctl.epoch)
                   /\ client[i] = "ok" => i \in Ran("inventory", ctl.epoch)
BY DEF Batches!AnswersAreBacked, Ran

\* An admitted request was asked for, and at Inventory runs at Quote too.
LEMMA AdmissionIsOfBatch ==
  ASSUME SettlementInv, NEW s \in Batches!Services, NEW m \in wire, m.to = s, gate[s].up, Batches!Admits(s, m),
         Batches!Admit(s, m), UNCHANGED <<born, ctl, accepted, client>>, wire' \subseteq wire
  PROVE  RequestsAreOfTheirBatch'
<1> USE Identities
<1>0. /\ m.epoch = ctl.epoch /\ Ran(s, m.epoch)' = Ran(s, m.epoch) \cup {m.id}
      /\ \A t \in Batches!Services, e \in Batches!Epochs : t # s \/ e # m.epoch => Ran(t, e)' = Ran(t, e)
      /\ Batches!AdmittedOnce'
  <2>1. UNCHANGED <<born, ctl, accepted>>
    OBVIOUS
  <2>2. m.epoch = ctl.epoch
    BY <2>1, AdmissionKeeps
  <2>3. Ran(s, m.epoch)' = Ran(s, m.epoch) \cup {m.id}
    BY <2>1, AdmissionKeeps
  <2>4. Batches!AdmittedOnce'
    BY <2>1, AdmissionKeeps
  <2>5. \A t \in Batches!Services, e \in Batches!Epochs : t # s \/ e # m.epoch => Ran(t, e)' = Ran(t, e)
    BY <2>1, AdmissionKeeps
  <2>6. QED
    BY <2>2, <2>3, <2>4, <2>5
<1>1. /\ m.epoch = ctl.epoch /\ m.epoch \in Batches!Epochs /\ client[m.id] # "unsent"
      /\ m.to = "inventory" => m.id \in Ran("quote", m.epoch)
  BY <1>0 DEF SettlementInv, SettlementTypes, RequestsAreOfTheirBatch
<1>2. /\ Ran(s, m.epoch)' = Ran(s, m.epoch) \cup {m.id}
      /\ \A t \in Batches!Services, e \in Batches!Epochs : t # s \/ e # m.epoch => Ran(t, e)' = Ran(t, e)
      /\ Batches!AdmittedOnce'
  BY ONLY <1>0
<1>3. ASSUME NEW e \in Batches!Epochs
      PROVE  /\ Ran("quote", e) \subseteq Ran("quote", e)' /\ Ran("inventory", e) \subseteq Ran("inventory", e)'
             /\ Ran("inventory", e)' \subseteq Ran("quote", e)'
             /\ e > ctl.epoch => Ran("quote", e)' = {}
             /\ e = ctl.epoch => \A i \in Ran("quote", e)' : client[i] # "unsent"
  <2>1. /\ Ran("inventory", e) \subseteq Ran("quote", e)
        /\ e > ctl.epoch => Ran("quote", e) = {}
        /\ e = ctl.epoch => \A i \in Ran("quote", e) : client[i] # "unsent"
    BY DEF SettlementInv, RequestsAreOfTheirBatch
  <2>2. CASE e # m.epoch
    <3>1. Ran("quote", e)' = Ran("quote", e) /\ Ran("inventory", e)' = Ran("inventory", e)
      BY <1>2, <2>2
    <3>2. QED
      BY <2>1, <3>1
  <2>3. CASE e = m.epoch
    <3>1. ctl.epoch \in Nat
      BY DEF SettlementInv, SettlementTypes
    <3>2. CASE s = "quote"
      <4>1. Ran("quote", e)' = Ran("quote", e) \cup {m.id} /\ Ran("inventory", e)' = Ran("inventory", e)
        BY <1>2, <2>3, <3>2
      <4>2. QED
        BY <1>1, <2>1, <2>3, <3>1, <4>1
    <3>3. CASE s = "inventory"
      <4>1. Ran("inventory", e)' = Ran("inventory", e) \cup {m.id} /\ Ran("quote", e)' = Ran("quote", e)
        BY <1>2, <2>3, <3>3
      <4>2. m.id \in Ran("quote", e)
        BY <1>1, <2>3, <3>3
      <4>3. QED
        BY <1>1, <2>1, <2>3, <3>1, <4>1, <4>2
    <3>4. QED
      BY <3>2, <3>3
  <2>4. QED
    BY <2>2, <2>3
<1>4. \A n \in wire' : /\ n.epoch <= ctl.epoch
                       /\ n.to = "inventory" => n.id \in Ran("quote", n.epoch)'
                       /\ n.epoch = ctl.epoch => client[n.id] # "unsent"
  BY <1>3 DEF SettlementInv, RequestsAreOfTheirBatch, SettlementTypes
<1>5. Batches!AnswersAreBacked'
  <2>1. ctl.epoch \in Batches!Epochs
    BY <1>1
  <2>2. /\ Ran("quote", ctl.epoch) \subseteq Ran("quote", ctl.epoch)'
        /\ Ran("inventory", ctl.epoch) \subseteq Ran("inventory", ctl.epoch)'
    BY <1>3, <2>1
  <2>3. \A i \in Ids : /\ client[i] \in {"ok", "unavailable"} => i \in Ran("quote", ctl.epoch)'
                       /\ client[i] = "ok" => i \in Ran("inventory", ctl.epoch)'
    BY <2>2, AnswersRan DEF SettlementInv, RequestsAreOfTheirBatch
  <2>4. QED
    BY <2>3 DEF Batches!AnswersAreBacked, Ran
<1>6. QED
  BY <1>2, <1>3, <1>4, <1>5 DEF RequestsAreOfTheirBatch

\* What a caller hears; a caller that no longer waits hears nothing.
LEMMA HearsKeeps ==
  ASSUME SettlementInv, NEW i \in Ids, NEW status \in {"ok", "unavailable", "conflict"}, Batches!Hears(i, status)
  PROVE  /\ client' \in [Ids -> {"unsent", "sent", "ok", "unavailable", "conflict", "lost"}]
         /\ \A j \in Ids : /\ client[j] # "unsent" => client'[j] # "unsent"
                           /\ client'[j] = client[j] \/ (j = i /\ client'[j] = status)
<1>1. client \in [Ids -> {"unsent", "sent", "ok", "unavailable", "conflict", "lost"}]
  BY DEF SettlementInv, SettlementTypes
<1>2. client' = [client EXCEPT ![i] = IF @ = "sent" THEN status ELSE @]
  BY DEF Batches!Hears
<1>3. QED
  BY <1>1, <1>2

LEMMA HeardKeeps ==
  ASSUME SettlementInv, wire' \subseteq wire, UNCHANGED <<ran, ctl>>,
         \A j \in Ids : /\ client[j] # "unsent" => client'[j] # "unsent"
                        /\ client'[j] \in {"ok", "unavailable"} =>
                            client'[j] = client[j] \/ j \in Ran("quote", ctl.epoch)
                        /\ client'[j] = "ok" => client[j] = "ok" \/ j \in Ran("inventory", ctl.epoch)
  PROVE  RequestsAreOfTheirBatch'
<1>1. \A s, e : Ran(s, e)' = Ran(s, e)
  BY DEF Ran
<1>2. Batches!AdmittedOnce'
  BY DEF SettlementInv, RequestsAreOfTheirBatch, Batches!AdmittedOnce
<1>3. \A i \in Ids : /\ client'[i] \in {"ok", "unavailable"} => i \in Ran("quote", ctl.epoch)
                     /\ client'[i] = "ok" => i \in Ran("inventory", ctl.epoch)
  <2>1. \A i \in Ids : /\ client[i] \in {"ok", "unavailable"} => i \in Ran("quote", ctl.epoch)
                       /\ client[i] = "ok" => i \in Ran("inventory", ctl.epoch)
    BY AnswersRan DEF SettlementInv, RequestsAreOfTheirBatch
  <2>2. QED
    BY <2>1
<1>4. Batches!AnswersAreBacked'
  BY <1>3 DEF Batches!AnswersAreBacked, Ran
<1>5. \A m \in wire' : m.id \in Ids
  BY DEF SettlementInv, SettlementTypes
<1>6. ASSUME NEW e \in Batches!Epochs, e = ctl.epoch, NEW i \in Ran("quote", e) PROVE client'[i] # "unsent"
  <2>1. i \in Ids /\ client[i] # "unsent"
    BY <1>6 DEF SettlementInv, RequestsAreOfTheirBatch, Ran
  <2>2. QED
    BY <2>1
<1>7. \A m \in wire' : m.epoch = ctl.epoch => client'[m.id] # "unsent"
  <2>1. \A m \in wire' : m.epoch = ctl.epoch => client[m.id] # "unsent"
    BY DEF SettlementInv, RequestsAreOfTheirBatch
  <2>2. QED
    BY <1>5, <2>1
<1>8. \A m \in wire' : m.epoch <= ctl.epoch /\ (m.to = "inventory" => m.id \in Ran("quote", m.epoch))
  BY DEF SettlementInv, RequestsAreOfTheirBatch
<1>9. \A e \in Batches!Epochs : Ran("inventory", e) \subseteq Ran("quote", e)
                              /\ (e > ctl.epoch => Ran("quote", e) = {})
  BY DEF SettlementInv, RequestsAreOfTheirBatch
<1>10. QED
  BY <1>1, <1>2, <1>4, <1>6, <1>7, <1>8, <1>9 DEF RequestsAreOfTheirBatch

LEMMA WireFrame ==
  ASSUME SettlementInv, wire' \subseteq wire,
         UNCHANGED <<gate, born, calls, workers, sessions, client, ran, ctl, conditions, accepted, faults>>
  PROVE  SettlementInv'
<1>1. SettlementTypes' /\ HandlersAreActive' /\ FencesStand'
  BY DEF SettlementInv, SettlementTypes, HandlersAreActive, HandlersOf, FencesStand, Ran
<1>2. RequestsAreOfTheirBatch'
  BY RequestsFrame DEF SettlementInv
<1>3. QED
  BY <1>1, <1>2, GatesFrame, LedgersFrame, AcceptedFrame DEF SettlementInv

LEMMA AdmitQuoteKeeps ==
  ASSUME SettlementInv, NEW m \in wire, Batches!AdmitQuote(m)
  PROVE  SettlementInv'
<1> USE Identities
<1>1. /\ m.to = "quote" /\ gate["quote"].up /\ wire' = wire \ {m}
      /\ UNCHANGED <<born, workers, sessions, ctl, conditions, accepted, faults>>
  BY DEF Batches!AdmitQuote, Batches!Arrives, Batches!controller
<1>2. m.epoch \in Batches!Epochs /\ m.id \in Ids
  BY DEF SettlementInv, SettlementTypes
<1>3. CASE Batches!Admits("quote", m) /\ Batches!Admit("quote", m) /\ client' = client
           /\ calls' = calls \cup {[epoch |-> m.epoch, id |-> m.id, stage |-> "forward"]}
  <2> DEFINE h == [epoch |-> m.epoch, id |-> m.id, stage |-> "forward"]
  <2>1. h \in CallType /\ h.id = m.id /\ h.epoch = m.epoch /\ h.stage = "forward" /\ calls' = calls \cup {h}
    BY <1>2, <1>3 DEF CallType
  <2> HIDE DEF h
  <2>2. /\ m.epoch = ctl.epoch /\ gate["quote"].epoch = ctl.epoch /\ m.id \notin gate["quote"].active
        /\ ~gate["quote"].closed
        /\ gate' \in Gates /\ ran' \in [Batches!Services -> [Batches!Epochs -> [Ids -> Nat]]]
        /\ gate'["quote"].active = gate["quote"].active \cup {m.id}
        /\ gate'["quote"].epoch = gate["quote"].epoch /\ gate'["inventory"] = gate["inventory"]
        /\ \A t \in Batches!Services : gate'[t].closed = gate[t].closed
        /\ \A e \in Batches!Epochs : Ran("inventory", e)' = Ran("inventory", e)
        /\ GatesAreTrue' /\ LedgersAreRead' /\ AcceptedIsOver'
    BY <1>1, <1>3, AdmissionKeeps
  <2>3. SettlementTypes'
    BY <1>1, <1>3, <2>1, <2>2 DEF SettlementInv, SettlementTypes
  <2>4. RequestsAreOfTheirBatch'
    BY <1>1, <1>3, AdmissionIsOfBatch
  <2>5. HandlersOf("quote", calls)'
    BY <1>1, <2>1, <2>2 DEF SettlementInv, HandlersAreActive, HandlersOf
  <2>6. HandlersOf("inventory", workers)'
    BY <1>1, <2>2 DEF SettlementInv, HandlersAreActive, HandlersOf
  <2>7. ASSUME NEW g \in calls', g.stage = "answered"
        PROVE  g.id \in Ran("inventory", g.epoch)'
    <3>1. g \in calls
      BY <2>1, <2>7
    <3>2. g.epoch \in Batches!Epochs
      BY <3>1 DEF SettlementInv, SettlementTypes, CallType
    <3>3. g.id \in Ran("inventory", g.epoch)
      BY <3>1, <2>7 DEF SettlementInv, HandlersAreActive
    <3>4. QED
      BY <2>2, <3>2, <3>3
  <2>8. HandlersAreActive'
    BY <1>1, <2>5, <2>6, <2>7 DEF SettlementInv, HandlersAreActive
  <2>9. FencesStand'
    BY <1>1, <2>2 DEF SettlementInv, FencesStand
  <2>10. QED
    BY <2>2, <2>3, <2>4, <2>8, <2>9 DEF SettlementInv
<1>4. CASE Batches!Hears(m.id, "conflict") /\ UNCHANGED <<gate, calls, ran>>
  <2>1. SettlementTypes'
    BY <1>1, <1>2, <1>4, HearsKeeps DEF SettlementInv, SettlementTypes
  <2>2. \A j \in Ids : /\ client[j] # "unsent" => client'[j] # "unsent"
                       /\ client'[j] \in {"ok", "unavailable"} => client'[j] = client[j]
    BY <1>2, <1>4, HearsKeeps
  <2>3. RequestsAreOfTheirBatch'
    BY <1>1, <1>4, <2>2, HeardKeeps DEF SettlementInv
  <2>4. HandlersAreActive' /\ FencesStand'
    BY <1>1, <1>4 DEF SettlementInv, HandlersAreActive, HandlersOf, FencesStand, Ran
  <2>5. QED
    BY <1>1, <1>4, <2>1, <2>3, <2>4, GatesFrame, LedgersFrame, AcceptedFrame DEF SettlementInv
<1>5. QED
  BY <1>3, <1>4 DEF Batches!AdmitQuote, Batches!Refusal

LEMMA AdmitInventoryKeeps ==
  ASSUME SettlementInv, NEW m \in wire, Batches!AdmitInventory(m)
  PROVE  SettlementInv'
<1> USE Identities
<1>1. /\ m.to = "inventory" /\ gate["inventory"].up /\ wire' = wire \ {m}
      /\ UNCHANGED <<born, calls, sessions, client, ctl, conditions, accepted, faults>>
  BY DEF Batches!AdmitInventory, Batches!Arrives, Batches!controller
<1>2. m.epoch \in Batches!Epochs /\ m.id \in Ids
  BY DEF SettlementInv, SettlementTypes
<1>3. CASE Batches!Admits("inventory", m) /\ Batches!Admit("inventory", m)
           /\ workers' = workers \cup {[epoch |-> m.epoch, id |-> m.id, stage |-> "connect"]}
  <2> DEFINE h == [epoch |-> m.epoch, id |-> m.id, stage |-> "connect"]
  <2>1. h \in WorkerType /\ h.id = m.id /\ h.epoch = m.epoch /\ workers' = workers \cup {h}
    BY <1>2, <1>3 DEF WorkerType
  <2> HIDE DEF h
  <2>2. /\ m.epoch = ctl.epoch /\ gate["inventory"].epoch = ctl.epoch /\ m.id \notin gate["inventory"].active
        /\ ~gate["inventory"].closed
        /\ gate' \in Gates /\ ran' \in [Batches!Services -> [Batches!Epochs -> [Ids -> Nat]]]
        /\ gate'["inventory"].active = gate["inventory"].active \cup {m.id}
        /\ gate'["inventory"].epoch = gate["inventory"].epoch /\ gate'["quote"] = gate["quote"]
        /\ \A t \in Batches!Services : gate'[t].closed = gate[t].closed
        /\ Ran("inventory", m.epoch)' = Ran("inventory", m.epoch) \cup {m.id}
        /\ \A e \in Batches!Epochs : e # m.epoch => Ran("inventory", e)' = Ran("inventory", e)
        /\ GatesAreTrue' /\ LedgersAreRead' /\ AcceptedIsOver'
    BY <1>1, <1>3, AdmissionKeeps
  <2>3. SettlementTypes'
    BY <1>1, <1>3, <2>1, <2>2 DEF SettlementInv, SettlementTypes
  <2>4. RequestsAreOfTheirBatch'
    BY <1>1, <1>3, AdmissionIsOfBatch
  <2>5. HandlersOf("inventory", workers)'
    BY <1>1, <2>1, <2>2 DEF SettlementInv, HandlersAreActive, HandlersOf
  <2>6. HandlersOf("quote", calls)'
    BY <1>1, <2>2 DEF SettlementInv, HandlersAreActive, HandlersOf
  <2>7. \A g \in calls : g.stage = "answered" => g.id \in Ran("inventory", g.epoch)'
    <3>1. calls \subseteq CallType /\ \A g \in calls : g.stage = "answered" => g.id \in Ran("inventory", g.epoch)
      BY DEF SettlementInv, HandlersAreActive, SettlementTypes
    <3>2. \A g \in calls : g.epoch \in Batches!Epochs
      BY <3>1 DEF CallType
    <3>3. \A e \in Batches!Epochs : Ran("inventory", e) \subseteq Ran("inventory", e)'
      BY ONLY <2>2
    <3>4. QED
      BY ONLY <3>1, <3>2, <3>3
  <2>8. HandlersAreActive'
    BY <1>1, <2>5, <2>6, <2>7 DEF SettlementInv, HandlersAreActive
  <2>9. FencesStand'
    BY <1>1, <2>2 DEF SettlementInv, FencesStand
  <2>10. QED
    BY <2>2, <2>3, <2>4, <2>8, <2>9 DEF SettlementInv
<1>4. CASE UNCHANGED <<gate, workers, ran>>
  BY <1>1, <1>4, WireFrame
<1>5. QED
  BY <1>3, <1>4 DEF Batches!AdmitInventory

LEMMA FinishQuoteKeeps ==
  ASSUME SettlementInv, NEW h \in calls, Batches!FinishQuote(h)
  PROVE  SettlementInv'
<1> USE Identities
<1>1. /\ UNCHANGED <<born, wire, workers, sessions, ran, ctl, conditions, accepted, faults>>
      /\ calls' = calls \ {h} /\ Batches!Finish("quote", h)
      /\ (h.stage = "answered" /\ Batches!Hears(h.id, "ok")) \/ Batches!Hears(h.id, "unavailable")
  BY DEF Batches!FinishQuote, Batches!controller
<1>2. h \in CallType /\ h.epoch \in Batches!Epochs /\ h.id \in Ids
  BY DEF SettlementInv, SettlementTypes, CallType
<1>3. /\ h.epoch = ctl.epoch /\ h.id \in Ran("quote", ctl.epoch)
      /\ h.stage = "answered" => h.id \in Ran("inventory", ctl.epoch)
  BY ActiveRan DEF SettlementInv, HandlersAreActive
<1>4. h.id \in gate["quote"].active /\ h.epoch = gate["quote"].epoch
  BY DEF SettlementInv, HandlersAreActive, HandlersOf
<1>5. /\ gate' \in Gates /\ gate'["quote"].active = gate["quote"].active \ {h.id}
      /\ \A t \in Batches!Services : gate'[t].closed = gate[t].closed /\ gate'[t].epoch = gate[t].epoch
      /\ gate'["inventory"] = gate["inventory"] /\ GatesAreTrue' /\ LedgersAreRead'
  BY <1>1, <1>2, <1>4, FinishKeeps
<1>6. /\ client' \in [Ids -> {"unsent", "sent", "ok", "unavailable", "conflict", "lost"}]
      /\ \A j \in Ids : /\ client[j] # "unsent" => client'[j] # "unsent"
                        /\ client'[j] \in {"ok", "unavailable"} =>
                             client'[j] = client[j] \/ j \in Ran("quote", ctl.epoch)
                        /\ client'[j] = "ok" => client[j] = "ok" \/ j \in Ran("inventory", ctl.epoch)
  BY <1>1, <1>2, <1>3, HearsKeeps
<1>7. RequestsAreOfTheirBatch'
  <2>1. wire' \subseteq wire /\ UNCHANGED <<ran, ctl>>
    BY <1>1
  <2>2. QED
    BY <1>6, <2>1, HeardKeeps
<1>8. SettlementTypes'
  BY <1>1, <1>5, <1>6 DEF SettlementInv, SettlementTypes
<1>9. HandlersOf("quote", calls)'
  BY <1>1, <1>5 DEF SettlementInv, HandlersAreActive, HandlersOf
<1>10. HandlersOf("inventory", workers)'
  BY <1>1, <1>5 DEF SettlementInv, HandlersAreActive, HandlersOf
<1>11. HandlersAreActive'
  BY <1>1, <1>9, <1>10 DEF SettlementInv, HandlersAreActive, Ran
<1>12. FencesStand'
  BY <1>1, <1>5 DEF SettlementInv, FencesStand
<1>13. QED
  BY <1>1, <1>5, <1>7, <1>8, <1>11, <1>12, AcceptedFrame DEF SettlementInv

LEMMA FinishInventoryKeeps ==
  ASSUME SettlementInv, NEW h \in workers, Batches!FinishInventory(h)
  PROVE  SettlementInv'
<1> USE Identities
<1> DEFINE Told(k) == IF h.stage = "read" /\ k.id = h.id /\ k.epoch = h.epoch /\ k.stage = "waiting"
                      THEN [k EXCEPT !.stage = "answered"] ELSE k
<1>1. /\ UNCHANGED <<born, wire, client, ran, ctl, conditions, accepted, faults>>
      /\ workers' = workers \ {h} /\ Batches!Finish("inventory", h) /\ sessions' \subseteq sessions
      /\ calls' = {Told(k) : k \in calls}
  BY DEF Batches!FinishInventory, Batches!controller
<1>2. h.epoch \in Batches!Epochs /\ h.id \in Ids
  BY DEF SettlementInv, SettlementTypes, WorkerType
<1>3. h.epoch = ctl.epoch /\ h.id \in Ran("inventory", ctl.epoch)
  BY ActiveRan
<1>4. h.id \in gate["inventory"].active /\ h.epoch = gate["inventory"].epoch
  BY DEF SettlementInv, HandlersAreActive, HandlersOf
<1>5. /\ gate' \in Gates /\ gate'["inventory"].active = gate["inventory"].active \ {h.id}
      /\ \A t \in Batches!Services : gate'[t].closed = gate[t].closed /\ gate'[t].epoch = gate[t].epoch
      /\ gate'["quote"] = gate["quote"] /\ GatesAreTrue' /\ LedgersAreRead'
  BY <1>1, <1>2, <1>4, FinishKeeps
<1>6. ASSUME NEW k \in calls
      PROVE  /\ Told(k) \in CallType /\ Told(k).id = k.id /\ Told(k).epoch = k.epoch
             /\ Told(k).stage = "answered" => k.stage = "answered" \/ k.id = h.id
  <2>1. k \in CallType
    BY DEF SettlementInv, SettlementTypes
  <2>2. QED
    BY <2>1 DEF CallType
<1> HIDE DEF Told
<1>7. SettlementTypes'
  <2>1. calls' \subseteq CallType
    BY <1>1, <1>6
  <2>2. QED
    BY <1>1, <1>5, <2>1 DEF SettlementInv, SettlementTypes
<1>8. HandlersOf("quote", calls)'
  <2>1. gate["quote"].active = {k.id : k \in calls} /\ (\A k \in calls : k.epoch = gate["quote"].epoch /\ k.epoch = ctl.epoch)
        /\ \A k, g \in calls : k.id = g.id => k = g
    BY DEF SettlementInv, HandlersAreActive, HandlersOf
  <2>2. {k.id : k \in calls'} = {k.id : k \in calls}
    BY <1>1, <1>6
  <2>3. \A k \in calls' : k.epoch = gate["quote"].epoch /\ k.epoch = ctl.epoch
    BY <1>1, <1>6, <2>1
  <2>4. \A k, g \in calls' : k.id = g.id => k = g
    BY <1>1, <1>6, <2>1
  <2>5. QED
    BY <1>1, <1>5, <2>1, <2>2, <2>3, <2>4 DEF HandlersOf
<1>9. HandlersOf("inventory", workers)'
  BY <1>1, <1>5 DEF SettlementInv, HandlersAreActive, HandlersOf
<1>10. \A k \in calls' : k.stage = "answered" => k.id \in Ran("inventory", k.epoch)
  <2>1. \A k \in calls : k.epoch = ctl.epoch /\ (k.stage = "answered" => k.id \in Ran("inventory", k.epoch))
    BY ActiveRan DEF SettlementInv, HandlersAreActive
  <2>2. QED
    BY <1>1, <1>3, <1>6, <2>1
<1>11. HandlersAreActive'
  BY <1>1, <1>8, <1>9, <1>10 DEF SettlementInv, HandlersAreActive, Ran
<1>12. FencesStand'
  <2>1. ctl.at \notin {"next", "done", "open inventory"}
    BY DEF SettlementInv, FencesStand
  <2>2. QED
    BY <1>1, <1>5, <2>1 DEF SettlementInv, FencesStand
<1>13. RequestsAreOfTheirBatch'
  BY <1>1, RequestsFrame DEF SettlementInv
<1>14. QED
  BY <1>1, <1>5, <1>7, <1>11, <1>12, <1>13, AcceptedFrame DEF SettlementInv

\* A service dies with its ledger, and another one is started in its place, shut.
LEMMA CrashKeeps ==
  ASSUME SettlementInv, NEW s \in Batches!Services, Batches!Crash(s)
  PROVE  SettlementInv'
<1> USE Identities
<1>1. /\ UNCHANGED <<born, wire, sessions, client, ran, ctl, conditions, accepted>> /\ faults' \in 0 .. MaxFaults
      /\ calls' = (IF s = "quote" THEN {} ELSE calls) /\ workers' = (IF s = "inventory" THEN {} ELSE workers)
  BY DEF Batches!Crash, Batches!controller, SettlementInv, SettlementTypes
<1>2. gate \in Gates /\ gate[s] \in GateType
  BY DEF SettlementInv, SettlementTypes, Gates
<1>3. /\ gate' \in Gates /\ gate'[s] = [gate[s] EXCEPT !.up = FALSE, !.active = {}, !.done = {}]
      /\ \A t \in Batches!Services : t # s => gate'[t] = gate[t]
  BY <1>2 DEF Batches!Crash, Gates, GateType
<1>4. /\ ~gate'[s].up /\ gate'[s].instance = gate[s].instance /\ gate'[s].epoch = gate[s].epoch
      /\ gate'[s].closed = gate[s].closed /\ gate'[s].downstream = gate[s].downstream
      /\ gate'[s].active = {} /\ gate'[s].done = {}
  BY <1>2, <1>3 DEF GateType
<1>5. \A t, e : Ran(t, e)' = Ran(t, e)
  BY <1>1 DEF Ran
<1>6. GatesAreTrue'
  <2> SUFFICES ASSUME NEW t \in Batches!Services PROVE GateIsTrue(t)'
    BY DEF GatesAreTrue
  <2>1. GateIsTrue(t)
    BY DEF SettlementInv, GatesAreTrue
  <2>2. CASE t = s
    BY <1>1, <1>4, <1>5, <2>1, <2>2 DEF GateIsTrue
  <2>3. CASE t # s
    BY <1>1, <1>3, <1>5, <2>1, <2>3 DEF GateIsTrue
  <2>4. QED
    BY <2>2, <2>3
<1>7. LedgersAreRead'
  <2>1. Batches!AllFinished' <=> Batches!AllFinished
    BY <1>1 DEF Batches!AllFinished
  <2>2. ASSUME NEW t \in Batches!Services
        PROVE  SeenIsTrue(t)' /\ (Batches!SameInstance(t)' <=> Batches!SameInstance(t))
    <3>1. SeenIsTrue(t) /\ (Batches!SameInstance(t)' <=> Batches!SameInstance(t))
      BY <1>1 DEF SettlementInv, LedgersAreRead, Batches!SameInstance
    <3>2. gate'[t].closed = gate[t].closed /\ (gate[t].active = {} => gate'[t].active = {})
      BY <1>3, <1>4
    <3>3. QED
      BY <1>1, <1>5, <3>1, <3>2 DEF SeenIsTrue
  <2>3. QED
    BY <1>1, <2>1, <2>2 DEF SettlementInv, LedgersAreRead
<1>8. SettlementTypes'
  BY <1>1, <1>3 DEF SettlementInv, SettlementTypes
<1>9. HandlersOf("quote", calls)' /\ HandlersOf("inventory", workers)'
  <2>1. HandlersOf("quote", calls) /\ HandlersOf("inventory", workers)
    BY DEF SettlementInv, HandlersAreActive
  <2>2. CASE s = "quote"
    <3>1. calls' = {} /\ workers' = workers /\ gate'["quote"].active = {} /\ gate'["inventory"] = gate["inventory"]
      BY <1>1, <1>3, <1>4, <2>2
    <3>2. QED
      BY <1>1, <2>1, <3>1 DEF HandlersOf
  <2>3. CASE s = "inventory"
    <3>1. calls' = calls /\ workers' = {} /\ gate'["inventory"].active = {} /\ gate'["quote"] = gate["quote"]
      BY <1>1, <1>3, <1>4, <2>3
    <3>2. QED
      BY <1>1, <2>1, <3>1 DEF HandlersOf
  <2>4. QED
    BY <2>2, <2>3
<1>10. HandlersAreActive'
  BY <1>1, <1>5, <1>9 DEF SettlementInv, HandlersAreActive
<1>11. FencesStand'
  BY <1>1, <1>3, <1>4 DEF SettlementInv, FencesStand
<1>12. RequestsAreOfTheirBatch'
  BY <1>1, RequestsFrame DEF SettlementInv
<1>13. QED
  BY <1>1, <1>6, <1>7, <1>8, <1>10, <1>11, <1>12, AcceptedFrame DEF SettlementInv

LEMMA RestartKeeps ==
  ASSUME SettlementInv, NEW s \in Batches!Services, Batches!Restart(s)
  PROVE  SettlementInv'
<1> USE Identities
<1>1. /\ UNCHANGED <<wire, calls, workers, sessions, client, ran, ctl, conditions, accepted, faults>>
      /\ born' = born + 1 /\ ~gate[s].up
  BY DEF Batches!Restart, Batches!controller
<1>2. gate \in Gates /\ gate[s] \in GateType /\ born \in Nat /\ born >= 2 /\ ctl.epoch \in Nat
  BY DEF SettlementInv, SettlementTypes, Gates
<1>3. /\ gate' \in Gates /\ gate'[s] = Batches!Fresh(born + 1, 0)
      /\ \A t \in Batches!Services : t # s => gate'[t] = gate[t]
  BY <1>2 DEF Batches!Restart, Gates, GateType, Batches!Fresh
<1>4. /\ gate'[s].up /\ gate'[s].instance = born + 1 /\ gate'[s].epoch = 0
      /\ gate'[s].closed /\ gate'[s].active = {} /\ gate'[s].done = {}
  BY <1>3 DEF Batches!Fresh
<1>5. \A t, e : Ran(t, e)' = Ran(t, e)
  BY <1>1 DEF Ran
<1>6. GatesAreTrue'
  <2> SUFFICES ASSUME NEW t \in Batches!Services PROVE GateIsTrue(t)'
    BY DEF GatesAreTrue
  <2>1. GateIsTrue(t) /\ gate[t] \in GateType
    BY <1>2 DEF SettlementInv, GatesAreTrue, Gates
  <2>2. CASE t = s
    BY <1>1, <1>2, <1>4, <2>2 DEF GateIsTrue
  <2>3. CASE t # s
    <3>1. gate'[t].instance <= born'
      BY <1>1, <1>2, <1>3, <2>1, <2>3 DEF GateIsTrue, GateType
    <3>2. QED
      BY <1>1, <1>3, <1>5, <2>1, <2>3, <3>1 DEF GateIsTrue
  <2>4. QED
    BY <2>2, <2>3
<1>7. LedgersAreRead'
  <2>1. Batches!AllFinished' <=> Batches!AllFinished
    BY <1>1 DEF Batches!AllFinished
  <2>2. ASSUME NEW t \in Batches!Services
        PROVE  SeenIsTrue(t)' /\ (Batches!SameInstance(t)' <=> Batches!SameInstance(t))
    <3>1. SeenIsTrue(t) /\ (Batches!SameInstance(t)' <=> Batches!SameInstance(t))
      BY <1>1 DEF SettlementInv, LedgersAreRead, Batches!SameInstance
    <3>2. (gate[t].closed => gate'[t].closed) /\ (gate[t].active = {} => gate'[t].active = {})
      BY <1>3, <1>4
    <3>3. QED
      BY <1>1, <1>5, <3>1, <3>2 DEF SeenIsTrue
  <2>3. QED
    BY <1>1, <2>1, <2>2 DEF SettlementInv, LedgersAreRead
<1>8. SettlementTypes'
  BY <1>1, <1>2, <1>3 DEF SettlementInv, SettlementTypes
<1>9. HandlersOf("quote", calls)' /\ HandlersOf("inventory", workers)'
  <2>1. gate[s].active = {}
    BY <1>1 DEF SettlementInv, GatesAreTrue, GateIsTrue
  <2>2. ASSUME NEW handlers, HandlersOf(s, handlers) PROVE handlers = {}
    BY <2>1, <2>2 DEF HandlersOf
  <2>3. s = "quote" => calls = {}
    BY <2>2 DEF SettlementInv, HandlersAreActive
  <2>4. s = "inventory" => workers = {}
    BY <2>2 DEF SettlementInv, HandlersAreActive
  <2>5. QED
    BY <1>1, <1>3, <1>4, <2>3, <2>4 DEF SettlementInv, HandlersAreActive, HandlersOf
<1>10. HandlersAreActive'
  BY <1>1, <1>5, <1>9 DEF SettlementInv, HandlersAreActive
<1>11. FencesStand'
  BY <1>1, <1>3, <1>4 DEF SettlementInv, FencesStand
<1>12. RequestsAreOfTheirBatch'
  BY <1>1, RequestsFrame DEF SettlementInv
<1>13. QED
  BY <1>1, <1>6, <1>7, <1>8, <1>10, <1>11, <1>12, AcceptedFrame DEF SettlementInv

\* The controller takes a step that changes nothing else.
LEMMA StationKeeps ==
  ASSUME SettlementInv, NEW p \in Stations, ctl' = [ctl EXCEPT !.at = p],
         UNCHANGED <<gate, born, wire, calls, workers, sessions, client, ran, conditions, accepted, faults>>,
         ctl.epoch > 0,
         p \notin {"batch", "close quote", "failed"} => gate["quote"].closed,
         p \notin {"open quote", "batch", "close quote", "close inventory", "failed"} => gate["inventory"].closed,
         p \in {"next", "done", "open inventory"} => calls = {} /\ workers = {} /\ sessions = {},
         p \in {"open inventory", "open quote", "batch", "close quote", "close inventory"} =>
           \A s \in Batches!Services : ctl.seen[s].epoch < ctl.epoch,
         p = "readers" =>
           Batches!AllFinished /\ \A s \in Batches!Services : Batches!SameInstance(s) /\ ctl.seen[s].closed,
         \A a \in accepted : a.epoch = ctl.epoch => p \in {"next", "done"}
  PROVE  SettlementInv'
<1>1. /\ ctl' \in [at : Stations, epoch : 0 .. MaxEpoch, seen : Gates]
      /\ ctl'.at = p /\ ctl'.epoch = ctl.epoch /\ ctl'.seen = ctl.seen
  BY DEF SettlementInv, SettlementTypes
<1>2. SettlementTypes'
  BY <1>1 DEF SettlementInv, SettlementTypes
<1>3. HandlersAreActive' /\ FencesStand'
  BY <1>1 DEF SettlementInv, HandlersAreActive, HandlersOf, FencesStand, Ran
<1>4. RequestsAreOfTheirBatch' /\ GatesAreTrue'
  BY <1>1, RequestsFrame, GatesFrame DEF SettlementInv
<1>5. LedgersAreRead'
  <2>1. Batches!AllFinished' <=> Batches!AllFinished
    BY <1>1 DEF Batches!AllFinished
  <2>2. ASSUME NEW s \in Batches!Services
        PROVE  SeenIsTrue(s)' /\ (Batches!SameInstance(s)' <=> Batches!SameInstance(s))
    <3>1. SeenIsTrue(s) /\ (Batches!SameInstance(s)' <=> Batches!SameInstance(s))
      BY <1>1 DEF SettlementInv, LedgersAreRead, Batches!SameInstance
    <3>2. \A e : Ran(s, e)' = Ran(s, e)
      BY DEF Ran
    <3>3. QED
      BY <1>1, <3>1, <3>2 DEF SeenIsTrue
  <2>3. QED
    BY <1>1, <2>1, <2>2 DEF LedgersAreRead
<1>6. AcceptedIsOver'
  <2>1. \A s, e : Ran(s, e)' = Ran(s, e)
    BY DEF Ran
  <2>2. QED
    BY <1>1, <2>1 DEF SettlementInv, AcceptedIsOver
<1>7. QED
  BY <1>2, <1>3, <1>4, <1>5, <1>6 DEF SettlementInv

\* The controller may fail at any step but between batches.
LEMMA FailureKeeps ==
  ASSUME SettlementInv, ctl' = [ctl EXCEPT !.at = "failed"], ctl.at \notin {"next", "done"},
         UNCHANGED <<gate, born, wire, calls, workers, sessions, client, ran, conditions, accepted, faults>>
  PROVE  SettlementInv'
<1>1. ctl.epoch > 0 /\ "failed" \in Stations /\ \A a \in accepted : a.epoch # ctl.epoch
  BY DEF SettlementInv, FencesStand, AcceptedIsOver, Stations
<1>2. QED
  BY <1>1, StationKeeps

LEMMA ConfigureKeeps ==
  ASSUME SettlementInv, Batches!Configure
  PROVE  SettlementInv'
<1> USE Identities
<1>1. /\ ctl.at = "next"
      /\ UNCHANGED <<gate, born, wire, calls, workers, sessions, ran, accepted, faults>>
  BY DEF Batches!Configure, Batches!At, Batches!services
<1>0. ctl \in [at : Stations, epoch : 0 .. MaxEpoch, seen : Gates]
  BY DEF SettlementInv, SettlementTypes
<1>2. /\ ctl.epoch \in Nat /\ ctl.epoch <= MaxEpoch
      /\ gate["quote"].closed /\ gate["inventory"].closed /\ calls = {} /\ workers = {} /\ sessions = {}
  BY <1>1 DEF SettlementInv, SettlementTypes, FencesStand
<1>3. CASE /\ ctl.epoch < MaxEpoch /\ conditions' = conditions + 1
           /\ ctl' = [ctl EXCEPT !.at = "open inventory", !.epoch = @ + 1]
           /\ client' = [i \in Ids |-> "unsent"]
  <2>1. /\ ctl' \in [at : Stations, epoch : 0 .. MaxEpoch, seen : Gates]
        /\ ctl'.at = "open inventory" /\ ctl'.epoch = ctl.epoch + 1 /\ ctl'.seen = ctl.seen
    <3>1. ctl'.at = "open inventory" /\ ctl'.epoch = ctl.epoch + 1 /\ ctl'.seen = ctl.seen
      BY <1>0, <1>3
    <3>2. "open inventory" \in Stations /\ ctl.epoch + 1 \in 0 .. MaxEpoch
      BY <1>2, <1>3 DEF Stations
    <3>3. QED
      BY <1>0, <1>3, <3>1, <3>2
  <2>0. ctl'.at = "open inventory" /\ ctl'.epoch = ctl.epoch + 1 /\ ctl'.seen = ctl.seen
    BY <2>1
  <2>e. /\ ctl.epoch \in Nat /\ ctl'.epoch \in Nat /\ ctl'.epoch = ctl.epoch + 1
        /\ ctl.epoch < ctl'.epoch /\ ctl'.epoch > 0
    <3>1. ctl.epoch \in Nat
      BY <1>2
    <3>2. ctl'.epoch = ctl.epoch + 1
      BY <2>0
    <3>3. QED
      BY ONLY <3>1, <3>2
  <2>2. SettlementTypes'
    BY <1>1, <1>3, <2>1 DEF SettlementInv, SettlementTypes
  <2>3. \A s, e : Ran(s, e)' = Ran(s, e)
    BY <1>1 DEF Ran
  <2>4. GatesAreTrue'
    <3> SUFFICES ASSUME NEW s \in Batches!Services PROVE GateIsTrue(s)'
      BY DEF GatesAreTrue
    <3>1. GateIsTrue(s) /\ gate[s].closed /\ gate[s].epoch \in Nat
      BY <1>2 DEF SettlementInv, GatesAreTrue, SettlementTypes, Gates, GateType
    <3>2. gate[s].epoch <= ctl.epoch
      BY <3>1 DEF GateIsTrue
    <3>3. gate[s].epoch <= ctl'.epoch
      BY ONLY <2>e, <3>1, <3>2
    <3>4. QED
      BY <1>1, <2>3, <3>1, <3>3 DEF GateIsTrue
  <2>5. HandlersAreActive'
    BY <1>1, <1>2 DEF SettlementInv, HandlersAreActive, HandlersOf
  <2>6. RequestsAreOfTheirBatch'
    <3>1. \A m \in wire : m.epoch <= ctl.epoch /\ m.epoch \in Nat
      BY DEF SettlementInv, RequestsAreOfTheirBatch, SettlementTypes
    <3>2. \A m \in wire : m.epoch <= ctl.epoch + 1 /\ m.epoch # ctl.epoch + 1
      BY <1>2, <3>1
    <3>3. \A e \in Batches!Epochs : /\ Ran("inventory", e) \subseteq Ran("quote", e)
                                    /\ e >= ctl.epoch + 1 => Ran("quote", e) = {}
      BY <1>2 DEF SettlementInv, RequestsAreOfTheirBatch
    <3>4. Batches!AdmittedOnce' /\ Batches!AnswersAreBacked'
      BY <1>1, <1>3 DEF SettlementInv, RequestsAreOfTheirBatch, Batches!AdmittedOnce, Batches!AnswersAreBacked
    <3>5. \A m \in wire : m.to = "inventory" => m.id \in Ran("quote", m.epoch)
      BY DEF SettlementInv, RequestsAreOfTheirBatch
    <3>6. \A m \in wire : m.epoch <= ctl'.epoch /\ m.epoch # ctl'.epoch
      BY <2>e, <3>2
    <3>7. \A e \in Batches!Epochs : e >= ctl'.epoch => Ran("quote", e) = {}
      BY <2>e, <3>3
    <3>8. \A e \in Batches!Epochs : /\ e > ctl'.epoch => e >= ctl'.epoch
                                    /\ e = ctl'.epoch => e >= ctl'.epoch
      BY <2>e
    <3>9. QED
      BY <1>1, <2>3, <3>3, <3>4, <3>5, <3>6, <3>7, <3>8 DEF RequestsAreOfTheirBatch
  <2>7. FencesStand'
    <3>1. gate'["quote"].closed /\ gate'["inventory"].closed /\ calls' = {} /\ workers' = {} /\ sessions' = {}
      BY <1>1, <1>2
    <3>2. QED
      BY <2>e, <3>1 DEF FencesStand
  <2>8. LedgersAreRead'
    <3> SUFFICES ASSUME NEW s \in Batches!Services PROVE SeenIsTrue(s)'
      BY <2>0 DEF LedgersAreRead
    <3>1. ctl.seen[s].epoch <= ctl.epoch /\ ctl.seen[s].epoch \in Nat
      BY <1>0 DEF SettlementInv, LedgersAreRead, SeenIsTrue, Gates, GateType
    <3>2. ctl'.seen[s].epoch = ctl.seen[s].epoch
      BY <2>0
    <3>3. ctl'.seen[s].epoch < ctl'.epoch /\ ctl'.seen[s].epoch # ctl'.epoch /\ ctl'.seen[s].epoch <= ctl'.epoch
      BY ONLY <2>e, <3>1, <3>2
    <3>4. QED
      BY <3>3 DEF SeenIsTrue, Batches!SameInstance
  <2>9. AcceptedIsOver'
    <3>1. \A a \in accepted : a.epoch <= ctl.epoch /\ a.epoch \in Nat
      BY DEF SettlementInv, AcceptedIsOver, SettlementTypes
    <3>2. \A a \in accepted : a.epoch <= ctl.epoch + 1 /\ a.epoch # ctl.epoch + 1
      BY <1>2, <3>1
    <3>3. QED
      BY <1>1, <2>0, <2>3, <3>2 DEF SettlementInv, AcceptedIsOver
  <2>10. QED
    BY <2>2, <2>4, <2>5, <2>6, <2>7, <2>8, <2>9 DEF SettlementInv
<1>4. CASE ctl.epoch = MaxEpoch /\ ctl' = [ctl EXCEPT !.at = "done"] /\ UNCHANGED <<conditions, client>>
  <2>1. "done" \in Stations /\ ctl.epoch > 0
    BY <1>4 DEF Stations
  <2>2. QED
    BY <1>1, <1>2, <1>4, <2>1, StationKeeps
<1>5. QED
  BY <1>3, <1>4 DEF Batches!Configure, Batches!Goes

\* The epochs of a run, counted from one.
LEMMA EpochsAreNumbers ==
  ASSUME NEW e, e \in Batches!Epochs
  PROVE  e \in Nat
BY BatchesAssumption DEF Batches!SettlementAssumption, Batches!Epochs

LEMMA EpochsCount ==
  ASSUME NEW e, e \in 0 .. MaxEpoch, e > 0
  PROVE  e \in Nat /\ e \in Batches!Epochs /\ e <= e
BY BatchesAssumption DEF Batches!SettlementAssumption, Batches!Epochs

\* A fence opens for the next batch: of this instance nothing ran in it yet.
LEMMA OpenKeeps ==
  ASSUME SettlementInv, NEW s \in Batches!Services, NEW step, NEW p, Batches!OpenAt(s, step, p),
         \/ s = "inventory" /\ step = "open inventory" /\ p = "open quote"
         \/ s = "quote" /\ step = "open quote" /\ p = "batch"
  PROVE  SettlementInv'
<1> USE Identities
<1>1. /\ ctl.at = step /\ UNCHANGED <<born, wire, calls, workers, sessions, ran, client, conditions, accepted, faults>>
      /\ step \notin {"next", "done"} /\ p \in Stations
  BY DEF Batches!OpenAt, Batches!At, Stations
<1>2. CASE Batches!Opens(s)
  <2>1. /\ ctl' = [ctl EXCEPT !.at = p]
        /\ gate' = [gate EXCEPT ![s].epoch = ctl.epoch, ![s].closed = FALSE, ![s].done = {},
                                ![s].downstream = IF s = "quote" THEN Batches!instances["inventory"] ELSE 0]
    BY <1>2 DEF Batches!OpenAt, Batches!Goes
  <2>2. gate \in Gates /\ gate[s] \in GateType /\ ctl \in [at : Stations, epoch : 0 .. MaxEpoch, seen : Gates]
    BY DEF SettlementInv, SettlementTypes, Gates
  <2>3. ctl.epoch \in Nat /\ ctl.epoch > 0 /\ ctl.epoch \in Batches!Epochs
    <3>1. ctl.epoch \in 0 .. MaxEpoch
      BY <2>2
    <3>2. ctl.epoch > 0
      BY <1>1 DEF SettlementInv, FencesStand
    <3>3. QED
      BY ONLY <3>1, <3>2, EpochsCount
  <2>4. /\ gate[s].up /\ gate[s].instance = Batches!instances[s] /\ gate[s].active = {}
        /\ gate[s].epoch < ctl.epoch /\ gate[s].epoch \in Nat /\ GateIsTrue(s)
    <3>1. gate[s].epoch \in Nat
      BY <2>2 DEF GateType
    <3>2. ctl.epoch = gate[s].epoch + 1
      BY <1>2 DEF Batches!Opens
    <3>3. gate[s].epoch < ctl.epoch
      BY ONLY <3>1, <3>2
    <3>4. QED
      BY <1>2, <3>1, <3>3 DEF Batches!Opens, SettlementInv, GatesAreTrue
  <2>5. /\ gate' \in Gates /\ \A t \in Batches!Services : t # s => gate'[t] = gate[t]
        /\ gate'[s].up /\ gate'[s].instance = gate[s].instance /\ gate'[s].epoch = ctl.epoch
        /\ ~gate'[s].closed /\ gate'[s].active = {} /\ gate'[s].done = {}
        /\ s = "quote" => gate'[s].downstream = 2
    <3>1. gate'[s] = [gate[s] EXCEPT !.epoch = ctl.epoch, !.closed = FALSE, !.done = {},
                                     !.downstream = IF s = "quote" THEN Batches!instances["inventory"] ELSE 0]
      BY <2>1, <2>2 DEF Gates
    <3>2. \A t \in Batches!Services : t # s => gate'[t] = gate[t]
      BY <2>1, <2>2 DEF Gates
    <3>3. gate'[s] \in GateType
      <4>1. (IF s = "quote" THEN Batches!instances["inventory"] ELSE 0) \in Nat
        BY Batches!instances["inventory"] = 2, 0 \in Nat, 2 \in Nat
      <4>2. QED
        BY <2>2, <2>3, <3>1, <4>1 DEF GateType
    <3>4. gate' = [gate EXCEPT ![s] = gate'[s]]
      BY <2>1, <2>2, <3>2 DEF Gates
    <3>5. gate' \in Gates
      BY ONLY <2>2, <3>3, <3>4 DEF Gates
    <3>6. QED
      BY <2>2, <2>4, <3>1, <3>2, <3>5 DEF GateType
  <2>6. ctl' \in [at : Stations, epoch : 0 .. MaxEpoch, seen : Gates]
    BY <1>1, <2>1, <2>2
  <2>7. ctl'.at = p /\ ctl'.epoch = ctl.epoch /\ ctl'.seen = ctl.seen
    BY <2>1, <2>2
  <2>8. SettlementTypes'
    BY <1>1, <2>5, <2>6, <2>7 DEF SettlementInv, SettlementTypes
  <2>9. \A t, e : Ran(t, e)' = Ran(t, e)
    BY <1>1 DEF Ran
  <2>10. Ran(s, ctl.epoch) = {}
    BY <2>3, <2>4 DEF GateIsTrue
  <2>11. GatesAreTrue'
    <3> SUFFICES ASSUME NEW t \in Batches!Services PROVE GateIsTrue(t)'
      BY DEF GatesAreTrue
    <3>1. CASE t = s
      <4>1. ASSUME NEW e \in Batches!Epochs, e > ctl.epoch PROVE Ran(s, e) = {}
        <5>1. e \in Nat
          BY ONLY e \in Batches!Epochs, EpochsAreNumbers
        <5>2. gate[s].epoch < ctl.epoch /\ gate[s].epoch \in Nat /\ ctl.epoch \in Nat
          BY <2>3, <2>4
        <5>3. e > gate[s].epoch
          BY ONLY <4>1, <5>1, <5>2
        <5>4. QED
          BY <2>4, <5>3 DEF GateIsTrue
      <4>2. gate[s].instance <= born
        BY <2>4 DEF GateIsTrue
      <4>3. ctl.epoch <= ctl.epoch
        BY ONLY <2>3
      <4>4. QED
        BY <1>1, <2>3, <2>4, <2>5, <2>7, <2>9, <2>10, <3>1, <4>1, <4>2, <4>3 DEF GateIsTrue
    <3>2. CASE t # s
      <4>1. GateIsTrue(t) /\ gate'[t] = gate[t] /\ born' = born /\ ctl'.epoch = ctl.epoch
        BY <1>1, <2>5, <2>7, <3>2 DEF SettlementInv, GatesAreTrue
      <4>2. QED
        BY ONLY <2>9, <4>1 DEF GateIsTrue
    <3>3. QED
      BY <3>1, <3>2
  <2>12. HandlersAreActive'
    <3>1. ASSUME NEW handlers, HandlersOf(s, handlers) PROVE handlers = {}
      BY <2>4, <3>1 DEF HandlersOf
    <3>0. ASSUME NEW t \in Batches!Services, NEW handlers, HandlersOf(t, handlers)
          PROVE  /\ gate'[t].active = {h.id : h \in handlers}
                 /\ \A h \in handlers : h.epoch = gate'[t].epoch /\ h.epoch = ctl.epoch
                 /\ \A h, k \in handlers : h.id = k.id => h = k
      <4>1. CASE t = s
        BY <2>5, <3>0, <3>1, <4>1
      <4>2. CASE t # s
        BY <2>5, <3>0, <4>2 DEF HandlersOf
      <4>3. QED
        BY <4>1, <4>2
    <3>2. HandlersOf("quote", calls)'
      BY <1>1, <2>7, <3>0 DEF SettlementInv, HandlersAreActive, HandlersOf
    <3>3. HandlersOf("inventory", workers)'
      BY <1>1, <2>7, <3>0 DEF SettlementInv, HandlersAreActive, HandlersOf
    <3>4. QED
      BY <1>1, <2>7, <2>9, <3>2, <3>3 DEF SettlementInv, HandlersAreActive
  <2>13. RequestsAreOfTheirBatch'
    BY <1>1, <2>7, RequestsFrame DEF SettlementInv
  <2>14. FencesStand'
    <3>1. s = "inventory" => gate'["quote"].closed
      BY <1>1, <2>5 DEF SettlementInv, FencesStand
    <3>2. QED
      BY <2>3, <2>7, <3>1 DEF FencesStand
  <2>15. LedgersAreRead'
    <3>1. \A t \in Batches!Services : ctl.seen[t].epoch < ctl.epoch /\ ctl.seen[t].epoch \in Nat
      BY <1>1, <2>2 DEF SettlementInv, LedgersAreRead, SeenIsTrue, Gates, GateType
    <3>2. \A t \in Batches!Services : ctl.seen[t].epoch <= ctl.epoch /\ ctl.seen[t].epoch # ctl.epoch
      BY ONLY <2>3, <3>1
    <3>3. QED
      BY <2>7, <3>1, <3>2 DEF LedgersAreRead, SeenIsTrue, Batches!SameInstance
  <2>16. AcceptedIsOver'
    BY <1>1, <2>7, <2>9 DEF SettlementInv, AcceptedIsOver
  <2>17. QED
    BY <2>8, <2>11, <2>12, <2>13, <2>14, <2>15, <2>16 DEF SettlementInv
<1>3. CASE ~Batches!Opens(s)
  BY <1>1, <1>3, FailureKeeps DEF Batches!OpenAt, Batches!Goes
<1>4. QED
  BY <1>2, <1>3

\* A fence shuts.
LEMMA CloseKeeps ==
  ASSUME SettlementInv, NEW s \in Batches!Services, NEW step, NEW p, Batches!CloseAt(s, step, p),
         \/ s = "quote" /\ step = "close quote" /\ p = "close inventory"
         \/ s = "inventory" /\ step = "close inventory" /\ p = "read quote"
  PROVE  SettlementInv'
<1> USE Identities
<1>1. /\ ctl.at = step /\ UNCHANGED <<born, wire, calls, workers, sessions, ran, client, conditions, accepted, faults>>
      /\ step \notin {"next", "done"} /\ p \in Stations
  BY DEF Batches!CloseAt, Batches!At, Stations
<1>2. CASE gate[s].up /\ gate[s].instance = Batches!instances[s] /\ gate[s].epoch = ctl.epoch
  <2>1. ctl' = [ctl EXCEPT !.at = p] /\ gate' = [gate EXCEPT ![s].closed = TRUE]
    BY <1>2 DEF Batches!CloseAt, Batches!Goes
  <2>2. gate \in Gates /\ gate[s] \in GateType /\ ctl \in [at : Stations, epoch : 0 .. MaxEpoch, seen : Gates]
    BY DEF SettlementInv, SettlementTypes, Gates
  <2>3. ctl.epoch \in Nat /\ ctl.epoch > 0
    <3>1. ctl.epoch \in 0 .. MaxEpoch
      BY <2>2
    <3>2. ctl.epoch > 0
      BY <1>1 DEF SettlementInv, FencesStand
    <3>3. QED
      BY ONLY <3>1, <3>2, EpochsCount
  <2>5. /\ gate' \in Gates /\ \A t \in Batches!Services : t # s => gate'[t] = gate[t]
        /\ gate'[s].up = gate[s].up /\ gate'[s].instance = gate[s].instance /\ gate'[s].epoch = gate[s].epoch
        /\ gate'[s].closed /\ gate'[s].active = gate[s].active /\ gate'[s].done = gate[s].done
        /\ gate'[s].downstream = gate[s].downstream
    <3>1. gate'[s] = [gate[s] EXCEPT !.closed = TRUE]
      BY <2>1, <2>2 DEF Gates
    <3>2. \A t \in Batches!Services : t # s => gate'[t] = gate[t]
      BY <2>1, <2>2 DEF Gates
    <3>3. gate'[s] \in GateType
      BY <2>2, <3>1 DEF GateType
    <3>4. gate' \in Gates
      BY <2>1, <2>2, <3>2, <3>3 DEF Gates
    <3>5. QED
      BY <2>2, <3>1, <3>2, <3>4 DEF GateType
  <2>6. ctl' \in [at : Stations, epoch : 0 .. MaxEpoch, seen : Gates]
    BY <1>1, <2>1, <2>2
  <2>7. ctl'.at = p /\ ctl'.epoch = ctl.epoch /\ ctl'.seen = ctl.seen
    BY <2>1, <2>2
  <2>8. SettlementTypes'
    BY <1>1, <2>5, <2>6, <2>7 DEF SettlementInv, SettlementTypes
  <2>9. \A t, e : Ran(t, e)' = Ran(t, e)
    BY <1>1 DEF Ran
  <2>11. GatesAreTrue'
    <3> SUFFICES ASSUME NEW t \in Batches!Services PROVE GateIsTrue(t)'
      BY DEF GatesAreTrue
    <3>0. GateIsTrue(t)
      BY DEF SettlementInv, GatesAreTrue
    <3>1. CASE t = s
      BY <1>1, <1>2, <2>5, <2>7, <2>9, <3>0, <3>1 DEF GateIsTrue
    <3>2. CASE t # s
      BY <1>1, <2>5, <2>7, <2>9, <3>0, <3>2 DEF GateIsTrue
    <3>3. QED
      BY <3>1, <3>2
  <2>12. HandlersAreActive'
    <3>1. \A t \in Batches!Services : gate'[t].active = gate[t].active /\ gate'[t].epoch = gate[t].epoch
      BY <2>5
    <3>2. HandlersOf("quote", calls)' /\ HandlersOf("inventory", workers)'
      BY <1>1, <2>7, <3>1 DEF SettlementInv, HandlersAreActive, HandlersOf
    <3>3. QED
      BY <1>1, <2>7, <2>9, <3>2 DEF SettlementInv, HandlersAreActive
  <2>13. RequestsAreOfTheirBatch'
    BY <1>1, <2>7, RequestsFrame DEF SettlementInv
  <2>14. FencesStand'
    <3>1. s = "inventory" => gate["quote"].closed
      BY <1>1 DEF SettlementInv, FencesStand
    <3>2. QED
      BY <2>3, <2>5, <2>7, <3>1 DEF FencesStand
  <2>15. LedgersAreRead'
    <3>1. \A t \in Batches!Services : ctl.seen[t].epoch < ctl.epoch /\ ctl.seen[t].epoch \in Nat
      BY <1>1, <2>2 DEF SettlementInv, LedgersAreRead, SeenIsTrue, Gates, GateType
    <3>2. \A t \in Batches!Services : ctl.seen[t].epoch <= ctl.epoch /\ ctl.seen[t].epoch # ctl.epoch
      BY ONLY <2>3, <3>1
    <3>3. QED
      BY <2>7, <3>1, <3>2 DEF LedgersAreRead, SeenIsTrue, Batches!SameInstance
  <2>16. AcceptedIsOver'
    BY <1>1, <2>7, <2>9 DEF SettlementInv, AcceptedIsOver
  <2>17. QED
    BY <2>8, <2>11, <2>12, <2>13, <2>14, <2>15, <2>16 DEF SettlementInv
<1>3. CASE ~(gate[s].up /\ gate[s].instance = Batches!instances[s] /\ gate[s].epoch = ctl.epoch)
  BY <1>1, <1>3, FailureKeeps DEF Batches!CloseAt, Batches!Goes
<1>4. QED
  BY <1>2, <1>3

\* A ledger is read.
LEMMA ReadKeeps ==
  ASSUME SettlementInv, NEW s \in Batches!Services, NEW step, NEW p, Batches!ReadAt(s, step, p),
         \/ s = "quote" /\ step = "read quote" /\ p = "read inventory"
         \/ s = "inventory" /\ step = "read inventory" /\ p = "judge"
  PROVE  SettlementInv'
<1> USE Identities
<1>1. /\ ctl.at = step /\ step \notin {"next", "done"} /\ p \in Stations
      /\ UNCHANGED <<gate, born, wire, calls, workers, sessions, client, ran, conditions, accepted, faults>>
  BY DEF Batches!ReadAt, Batches!At, Batches!OnlyController, Batches!services, Stations
<1>2. CASE gate[s].up
  <2>1. ctl' = [ctl EXCEPT !.at = p, !.seen[s] = gate[s]]
    BY <1>2 DEF Batches!ReadAt
  <2>2. gate \in Gates /\ ctl.seen \in Gates /\ ctl \in [at : Stations, epoch : 0 .. MaxEpoch, seen : Gates]
    BY DEF SettlementInv, SettlementTypes
  <2>3. /\ ctl'.at = p /\ ctl'.epoch = ctl.epoch /\ ctl'.seen[s] = gate[s]
        /\ \A t \in Batches!Services : t # s => ctl'.seen[t] = ctl.seen[t]
    BY <2>1, <2>2 DEF Gates
  <2>4. ctl' \in [at : Stations, epoch : 0 .. MaxEpoch, seen : Gates]
    <3>1. [ctl.seen EXCEPT ![s] = gate[s]] \in Gates
      BY <2>2 DEF Gates
    <3>2. ctl' = [ctl EXCEPT !.at = p, !.seen = [ctl.seen EXCEPT ![s] = gate[s]]]
      BY <2>1, <2>2
    <3>3. QED
      BY <1>1, <2>2, <3>1, <3>2
  <2>5. ctl.epoch > 0
    BY <1>1 DEF SettlementInv, FencesStand
  <2>6. SettlementTypes'
    BY <1>1, <2>3, <2>4 DEF SettlementInv, SettlementTypes
  <2>7. HandlersAreActive'
    BY <1>1, <2>3 DEF SettlementInv, HandlersAreActive, HandlersOf, Ran
  <2>8. FencesStand'
    <3>1. gate["quote"].closed /\ gate["inventory"].closed
      BY <1>1 DEF SettlementInv, FencesStand
    <3>2. p \notin {"next", "done", "open inventory"}
      OBVIOUS
    <3>3. QED
      BY <1>1, <2>3, <2>5, <3>1, <3>2 DEF FencesStand
  <2>9. RequestsAreOfTheirBatch' /\ GatesAreTrue'
    BY <1>1, <2>3, RequestsFrame, GatesFrame DEF SettlementInv
  <2>10. \A t, e : Ran(t, e)' = Ran(t, e)
    BY <1>1 DEF Ran
  <2>11. LedgersAreRead'
    <3>0. p \notin {"open inventory", "open quote", "batch", "close quote", "close inventory", "readers"}
      OBVIOUS
    <3>1. SeenIsTrue(s)'
      <4>1. GateIsTrue(s)
        BY DEF SettlementInv, GatesAreTrue
      <4>2. ctl'.seen[s].epoch <= ctl'.epoch
        BY <2>3, <4>1 DEF GateIsTrue
      <4>3. ASSUME gate[s].epoch = ctl.epoch, gate[s].closed
            PROVE  /\ Ran(s, ctl.epoch) = gate[s].active \cup gate[s].done
                   /\ s = "quote" => gate[s].downstream = 2
        BY <1>2, <2>5, <4>1, <4>3 DEF GateIsTrue
      <4>4. QED
        BY <1>1, <2>3, <2>10, <3>0, <4>2, <4>3 DEF SeenIsTrue, Batches!SameInstance
    <3>2. ASSUME NEW t \in Batches!Services, t # s PROVE SeenIsTrue(t)'
      <4>1. SeenIsTrue(t)
        BY DEF SettlementInv, LedgersAreRead
      <4>2. QED
        BY <1>1, <2>3, <2>10, <3>0, <3>2, <4>1 DEF SeenIsTrue, Batches!SameInstance
    <3>3. QED
      BY <2>3, <3>0, <3>1, <3>2 DEF LedgersAreRead
  <2>12. AcceptedIsOver'
    BY <1>1, <2>3, <2>10 DEF SettlementInv, AcceptedIsOver
  <2>13. QED
    BY <2>6, <2>7, <2>8, <2>9, <2>11, <2>12 DEF SettlementInv
<1>3. CASE ~gate[s].up
  BY <1>1, <1>3, FailureKeeps DEF Batches!ReadAt, Batches!Goes
<1>4. QED
  BY <1>2, <1>3

\* What an honest batch leaves is settled by the audit's own rule.
LEMMA HonestIsSettled ==
  ASSUME SettlementInv, ctl.epoch > 0, Batches!AllFinished,
         \A s \in Batches!Services : Batches!SameInstance(s) /\ ctl.seen[s].closed
  PROVE  Batches!settled
<1> USE Identities
<1>1. ctl.epoch \in Batches!Epochs
  <2>1. ctl.epoch \in 0 .. MaxEpoch
    BY DEF SettlementInv, SettlementTypes
  <2>2. QED
    BY <2>1, EpochsCount
<1>2. ASSUME NEW s \in Batches!Services PROVE Batches!Ledger(s) = Ran(s, ctl.epoch)
  BY DEF SettlementInv, LedgersAreRead, SeenIsTrue, Batches!AllFinished, Batches!Ledger
<1>3. ctl.seen["quote"].downstream = 2
  BY DEF SettlementInv, LedgersAreRead, SeenIsTrue
<1>4. /\ Ran("inventory", ctl.epoch) \subseteq Ran("quote", ctl.epoch)
      /\ \A i \in Ran("quote", ctl.epoch) : client[i] # "unsent"
  BY <1>1 DEF SettlementInv, RequestsAreOfTheirBatch
<1>5. /\ Batches!known \subseteq Ran("quote", ctl.epoch)
      /\ Batches!known_downstream \subseteq Ran("inventory", ctl.epoch)
  BY AnswersRan DEF SettlementInv, RequestsAreOfTheirBatch, Batches!known, Batches!known_downstream
<1>6. \A s \in Batches!Services : Batches!Ledger(s) \subseteq Batches!dispatched
  BY <1>2, <1>4 DEF Batches!dispatched, Ran
<1>7. QED
  BY <1>2, <1>3, <1>4, <1>5, <1>6 DEF Batches!settled

\* The judge waits for the ledgers, or goes on to the database.
LEMMA JudgeKeeps ==
  ASSUME SettlementInv, Batches!Judge
  PROVE  SettlementInv'
<1>1. /\ ctl.at = "judge"
      /\ UNCHANGED <<gate, born, wire, calls, workers, sessions, client, ran, conditions, accepted, faults>>
  BY DEF Batches!Judge, Batches!At, Batches!OnlyController, Batches!services
<1>2. /\ ctl.epoch > 0 /\ gate["quote"].closed /\ gate["inventory"].closed
      /\ \A a \in accepted : a.epoch # ctl.epoch
  BY <1>1 DEF SettlementInv, FencesStand, AcceptedIsOver
<1>3. CASE ctl' = [ctl EXCEPT !.at = "failed"]
  BY <1>1, <1>3, FailureKeeps
<1>4. CASE ctl' = [ctl EXCEPT !.at = "read quote"]
  <2>1. "read quote" \in Stations
    BY DEF Stations
  <2>2. QED
    BY <1>1, <1>2, <1>4, <2>1, StationKeeps
<1>5. CASE /\ Batches!AllFinished /\ \A s \in Batches!Services : Batches!SameInstance(s) /\ ctl.seen[s].closed
           /\ Batches!settled /\ ctl' = [ctl EXCEPT !.at = "readers"]
  <2>1. "readers" \in Stations
    BY DEF Stations
  <2>2. QED
    BY <1>1, <1>2, <1>5, <2>1, StationKeeps
<1>6. QED
  BY <1>2, <1>3, <1>4, <1>5, HonestIsSettled DEF Batches!Judge, Batches!Goes

LEMMA EndBatchKeeps ==
  ASSUME SettlementInv, Batches!EndBatch
  PROVE  SettlementInv'
<1>1. /\ ctl.at = "batch" /\ ctl' = [ctl EXCEPT !.at = "close quote"] /\ "close quote" \in Stations
      /\ UNCHANGED <<gate, born, wire, calls, workers, sessions, client, ran, conditions, accepted, faults>>
  BY DEF Batches!EndBatch, Batches!At, Batches!Goes, Batches!OnlyController, Batches!services, Stations
<1>2. ctl.epoch > 0 /\ \A a \in accepted : a.epoch # ctl.epoch
  BY <1>1 DEF SettlementInv, FencesStand, AcceptedIsOver
<1>3. \A s \in Batches!Services : ctl.seen[s].epoch < ctl.epoch
  BY <1>1 DEF SettlementInv, LedgersAreRead, SeenIsTrue
<1>4. QED
  BY <1>1, <1>2, <1>3, StationKeeps

\* A service whose requests are all done has no handler.
LEMMA FinishedIsQuiet ==
  ASSUME SettlementInv, ctl.epoch > 0, Batches!AllFinished,
         \A s \in Batches!Services : Batches!SameInstance(s) /\ ctl.seen[s].closed
  PROVE  calls = {} /\ workers = {}
<1> USE Identities
<1>1. \A s \in Batches!Services : gate[s].active = {}
  BY DEF SettlementInv, LedgersAreRead, SeenIsTrue, Batches!AllFinished
<1>2. gate["quote"].active = {h.id : h \in calls} /\ gate["inventory"].active = {h.id : h \in workers}
  BY DEF SettlementInv, HandlersAreActive, HandlersOf
<1>3. QED
  BY <1>1, <1>2

\* The database has no session of Inventory's: the ledgers are accepted.
LEMMA ReadersKeep ==
  ASSUME SettlementInv, Batches!CheckReaders
  PROVE  SettlementInv'
<1> USE Identities
<1>1. /\ ctl.at = "readers"
      /\ UNCHANGED <<gate, born, wire, calls, workers, sessions, client, ran, conditions, faults>>
  BY DEF Batches!CheckReaders, Batches!At, Batches!OnlyController, Batches!services
<1>2. /\ ctl.epoch > 0 /\ gate["quote"].closed /\ gate["inventory"].closed
      /\ \A a \in accepted : a.epoch # ctl.epoch
  BY <1>1 DEF SettlementInv, FencesStand, AcceptedIsOver
<1>3. /\ Batches!AllFinished
      /\ \A s \in Batches!Services : Batches!SameInstance(s) /\ ctl.seen[s].closed
  BY <1>1 DEF SettlementInv, LedgersAreRead
<1>4. CASE sessions = {}
  <2> DEFINE b == [epoch |-> ctl.epoch, ledger |-> [s \in Batches!Services |-> Batches!Ledger(s)]]
  <2>1. ctl' = [ctl EXCEPT !.at = "next"] /\ accepted' = accepted \cup {b}
    BY <1>4 DEF Batches!CheckReaders, Batches!NoReaders, Batches!Goes
  <2>2. /\ ctl \in [at : Stations, epoch : 0 .. MaxEpoch, seen : Gates] /\ "next" \in Stations
    BY DEF SettlementInv, SettlementTypes, Stations
  <2>3. ctl' \in [at : Stations, epoch : 0 .. MaxEpoch, seen : Gates]
    BY <2>1, <2>2
  <2>4. ctl'.at = "next" /\ ctl'.epoch = ctl.epoch /\ ctl'.seen = ctl.seen
    BY <2>1, <2>2
  <2>5. ctl.epoch \in Nat /\ ctl.epoch \in Batches!Epochs /\ ctl.epoch <= ctl.epoch
    BY <1>2, <2>2, EpochsCount
  <2>6. ASSUME NEW s \in Batches!Services
        PROVE  Batches!Ledger(s) = Ran(s, ctl.epoch) /\ Batches!Ledger(s) \subseteq Ids
    <3>1. Batches!Ledger(s) = Ran(s, ctl.epoch)
      BY <1>2, <1>3 DEF SettlementInv, LedgersAreRead, SeenIsTrue, Batches!AllFinished, Batches!Ledger
    <3>2. QED
      BY <3>1 DEF Ran
  <2>7. /\ b \in [epoch : Batches!Epochs, ledger : [Batches!Services -> SUBSET Ids]]
        /\ b.epoch = ctl.epoch /\ \A s \in Batches!Services : b.ledger[s] = Ran(s, ctl.epoch)
    BY <2>5, <2>6
  <2> HIDE DEF b
  <2>8. SettlementTypes'
    BY <1>1, <2>1, <2>3, <2>4, <2>7 DEF SettlementInv, SettlementTypes
  <2>9. HandlersAreActive'
    BY <1>1, <2>4 DEF SettlementInv, HandlersAreActive, HandlersOf, Ran
  <2>10. FencesStand'
    <3>1. calls = {} /\ workers = {}
      BY <1>2, <1>3, FinishedIsQuiet
    <3>2. QED
      BY <1>1, <1>2, <1>4, <2>4, <3>1 DEF FencesStand
  <2>11. RequestsAreOfTheirBatch' /\ GatesAreTrue'
    BY <1>1, <2>4, RequestsFrame, GatesFrame DEF SettlementInv
  <2>12. \A t, e : Ran(t, e)' = Ran(t, e)
    BY <1>1 DEF Ran
  <2>13. LedgersAreRead'
    <3> SUFFICES ASSUME NEW t \in Batches!Services PROVE SeenIsTrue(t)'
      BY <2>4 DEF LedgersAreRead
    <3>1. SeenIsTrue(t)
      BY DEF SettlementInv, LedgersAreRead
    <3>2. QED
      BY <1>1, <2>4, <2>12, <3>1 DEF SeenIsTrue, Batches!SameInstance
  <2>14. AcceptedIsOver'
    <3> SUFFICES ASSUME NEW a \in accepted'
                 PROVE  /\ a.epoch <= ctl.epoch
                        /\ \A s \in Batches!Services : a.ledger[s] = Ran(s, a.epoch)
      BY <2>4, <2>12 DEF AcceptedIsOver
    <3>1. CASE a \in accepted
      BY <3>1 DEF SettlementInv, AcceptedIsOver
    <3>2. CASE a = b
      BY <2>5, <2>7, <3>2
    <3>3. QED
      BY <2>1, <3>1, <3>2
  <2>15. QED
    BY <2>8, <2>9, <2>10, <2>11, <2>13, <2>14 DEF SettlementInv
<1>5. CASE sessions # {}
  <2>1. /\ "read quote" \in Stations /\ ctl' = [ctl EXCEPT !.at = "read quote"] /\ UNCHANGED accepted
    BY <1>5 DEF Stations, Batches!CheckReaders, Batches!NoReaders, Batches!Goes
  <2>2. QED
    BY <1>1, <1>2, <2>1, StationKeeps
<1>6. QED
  BY <1>4, <1>5

\* Every step of the settlement.
LEMMA SettlementStep == SettlementInv /\ [Batches!Next]_(Batches!vars) => SettlementInv'
<1> SUFFICES ASSUME SettlementInv, [Batches!Next]_(Batches!vars) PROVE SettlementInv'
  OBVIOUS
<1> USE Identities
<1>1. CASE UNCHANGED Batches!vars
  BY <1>1, WireFrame DEF Batches!vars, Batches!services, Batches!controller
<1>2. CASE Batches!Handlers
  <2>1. ASSUME NEW m \in wire, Batches!AdmitQuote(m) \/ Batches!AdmitInventory(m) PROVE SettlementInv'
    BY <2>1, AdmitQuoteKeeps, AdmitInventoryKeeps
  <2>2. ASSUME NEW h \in calls, Batches!Forward(h) \/ Batches!FinishQuote(h) PROVE SettlementInv'
    BY <2>2, ForwardKeeps, FinishQuoteKeeps
  <2>3. ASSUME NEW h \in workers, Batches!Connect(h) \/ Batches!FinishInventory(h) PROVE SettlementInv'
    BY <2>3, ConnectKeeps, FinishInventoryKeeps
  <2>4. ASSUME NEW x \in sessions, Batches!SessionEnds(x) PROVE SettlementInv'
    BY <2>4, SessionEndKeeps
  <2>5. QED
    BY <1>2, <2>1, <2>2, <2>3, <2>4 DEF Batches!Handlers
<1>3. CASE Batches!Controller
  <2>1. CASE Batches!Configure \/ Batches!EndBatch \/ Batches!Judge \/ Batches!CheckReaders
    BY <2>1, ConfigureKeeps, EndBatchKeeps, JudgeKeeps, ReadersKeep
  <2>2. CASE Batches!OpenAt("inventory", "open inventory", "open quote") \/ Batches!OpenAt("quote", "open quote", "batch")
    BY <2>2, OpenKeeps
  <2>3. CASE \/ Batches!CloseAt("quote", "close quote", "close inventory")
             \/ Batches!CloseAt("inventory", "close inventory", "read quote")
    BY <2>3, CloseKeeps
  <2>4. CASE \/ Batches!ReadAt("quote", "read quote", "read inventory")
             \/ Batches!ReadAt("inventory", "read inventory", "judge")
    BY <2>4, ReadKeeps
  <2>5. QED
    BY <1>3, <2>1, <2>2, <2>3, <2>4 DEF Batches!Controller
<1>4. CASE Batches!WaitEnds
  <2>1. /\ ctl.at \notin {"next", "done"} /\ ctl' = [ctl EXCEPT !.at = "failed"]
        /\ UNCHANGED <<gate, born, wire, calls, workers, sessions, client, ran, conditions, accepted, faults>>
    BY <1>4 DEF Batches!WaitEnds, Batches!Goes, Batches!OnlyController, Batches!services
  <2>2. QED
    BY <2>1, FailureKeeps
<1>5. ASSUME NEW s \in Batches!Services, Batches!Crash(s) \/ Batches!Restart(s) PROVE SettlementInv'
  BY <1>5, CrashKeeps, RestartKeeps
<1>6. ASSUME NEW i \in Ids, Batches!Dispatch(i) \/ Batches!GiveUp(i) \/ Batches!Repeat(i) PROVE SettlementInv'
  BY <1>6, CallersKeep
<1>7. QED
  BY <1>1, <1>2, <1>3, <1>4, <1>5, <1>6 DEF Batches!Next, Batches!Waits

LEMMA SettlementIsTyped == SettlementInv => Batches!TypeOK
<1> SUFFICES ASSUME SettlementInv PROVE Batches!TypeOK
  OBVIOUS
<1> USE Identities
<1>1. ASSUME NEW s \in Batches!Services
      PROVE  gate[s].active \cap gate[s].done = {} /\ gate[s].instance \in 1 .. born
  <2>1. /\ gate[s].active \cap gate[s].done = {} /\ gate[s].instance <= born
        /\ gate[s].instance = Batches!instances[s] \/ gate[s].instance > 2
    BY DEF SettlementInv, GatesAreTrue, GateIsTrue
  <2>2. gate[s].instance \in Nat /\ born \in Nat
    BY DEF SettlementInv, SettlementTypes, Gates, GateType
  <2>3. gate[s].instance >= 1
    <3>1. Batches!instances[s] \in {1, 2}
      OBVIOUS
    <3>2. QED
      BY ONLY <2>1, <2>2, <3>1
  <2>4. gate[s].instance \in 1 .. born
    BY ONLY <2>1, <2>2, <2>3
  <2>5. QED
    BY <2>1, <2>4
<1>2. ctl.epoch = conditions /\ conditions \in 0 .. MaxEpoch /\ faults \in 0 .. MaxFaults
  BY DEF SettlementInv, SettlementTypes
<1>3. /\ \A i \in Ids : client[i] \in {"unsent", "sent", "ok", "unavailable", "conflict", "lost"}
      /\ \A s \in Batches!Services, e \in Batches!Epochs, i \in Ids : ran[s][e][i] \in Nat
  BY DEF SettlementInv, SettlementTypes
<1>4. QED
  BY <1>1, <1>2, <1>3 DEF Batches!TypeOK

LEMMA SettlementHolds == SettlementInv => Batches!SettlementIsSound
<1> SUFFICES ASSUME SettlementInv PROVE Batches!SettlementIsSound
  OBVIOUS
<1>1. Batches!SettledIsQuiet
  <2> SUFFICES ASSUME NEW x \in calls \cup workers \cup sessions, NEW a \in accepted, x.epoch = a.epoch
               PROVE  FALSE
    BY DEF Batches!SettledIsQuiet
  <2>1. x.epoch = ctl.epoch
    BY ActiveRan DEF SettlementInv, HandlersAreActive
  <2>2. ctl.at \in {"next", "done"}
    BY <2>1 DEF SettlementInv, AcceptedIsOver
  <2>3. calls = {} /\ workers = {} /\ sessions = {}
    BY <2>2 DEF SettlementInv, FencesStand
  <2>4. QED
    BY <2>3
<1>2. Batches!SettlementIsHonest
  BY DEF SettlementInv, AcceptedIsOver, Batches!SettlementIsHonest, Ran
<1>3. Batches!AdmittedOnce /\ Batches!AnswersAreBacked
  BY DEF SettlementInv, RequestsAreOfTheirBatch
<1>4. Batches!AuditAcceptsHonest
  <2>1. ctl.at \in Stations
    BY DEF SettlementInv, SettlementTypes
  <2>2. QED
    BY <2>1 DEF Batches!AuditAcceptsHonest, Stations
<1>5. QED
  BY <1>1, <1>2, <1>3, <1>4, SettlementIsTyped DEF Batches!SettlementIsSound

LEMMA SettlementIsKept == Spec => [](part = "batches" => SettlementInv)
<1> DEFINE Inv == part = "batches" => SettlementInv
<1>1. Init => Inv
  BY SettlementStarts DEF Init
<1>2. Inv /\ [Next]_vars => Inv'
  <2> SUFFICES ASSUME Inv, [Next]_vars PROVE Inv'
    OBVIOUS
  <2>1. CASE part = "batches" /\ Batches!Next /\ UNCHANGED part
    BY <2>1, SettlementStep
  <2>2. CASE part # "batches" /\ UNCHANGED part
    BY <2>2
  <2>3. CASE UNCHANGED vars
    <3>1. UNCHANGED <<part, Batches!vars>>
      BY <2>3 DEF vars, settlement, Batches!vars, Batches!services, Batches!controller
    <3>2. QED
      BY <3>1, SettlementStep
  <2>4. QED
    BY <2>1, <2>2, <2>3 DEF Next
<1>3. QED
  BY <1>1, <1>2, PTL DEF Spec

\* BatchesAreSettled: whatever callers give up on, whatever is asked twice and
\* whichever service dies, a batch that is called settled has nothing left, its
\* ledgers name what ran, nothing ran twice, and the audit refuses none of it
\* (opportunity.py run, audit.py).
THEOREM BatchesSettle == Spec => []BatchesAreSettled
<1>1. (part = "batches" => SettlementInv) => (part = "batches" => Batches!SettlementIsSound)
  BY SettlementHolds
<1>2. QED
  BY <1>1, SettlementIsKept, PTL DEF BatchesAreSettled

\* The fence of the abstract specification, and the reads behind it.
IsOpen == gate["inventory"].up /\ ~gate["inventory"].closed
Reads == {<<x.epoch, x.id>> : x \in workers \cup sessions}

LEMMA FenceMoves ==
  /\ UNCHANGED <<conditions, IsOpen, Reads>> => Batches!KeepsFence
  /\ Reads = {} /\ ~IsOpen /\ conditions < MaxEpoch /\ conditions' = conditions + 1 /\ UNCHANGED <<IsOpen, Reads>>
       => Batches!KeepsFence
  /\ ~IsOpen /\ IsOpen' /\ UNCHANGED <<conditions, Reads>> => Batches!KeepsFence
  /\ ~IsOpen' /\ Reads' \subseteq Reads /\ UNCHANGED conditions => Batches!KeepsFence
  /\ \A i : IsOpen /\ Reads' = Reads \cup {<<conditions, i>>} /\ UNCHANGED <<conditions, IsOpen>>
       => Batches!KeepsFence
  /\ \A r \in Reads : Reads' = Reads \ {r} /\ UNCHANGED <<conditions, IsOpen>> => Batches!KeepsFence
<1> USE DEF IsOpen, Reads, Batches!KeepsFence, Batches!Fenced!vars, Batches!Fenced!Next
<1>1. UNCHANGED <<conditions, IsOpen, Reads>> => Batches!KeepsFence
  OBVIOUS
<1>2. Reads = {} /\ ~IsOpen /\ conditions < MaxEpoch /\ conditions' = conditions + 1 /\ UNCHANGED <<IsOpen, Reads>>
        => Batches!KeepsFence
  BY DEF Batches!Fenced!Prepare
<1>3. ~IsOpen /\ IsOpen' /\ UNCHANGED <<conditions, Reads>> => Batches!KeepsFence
  BY DEF Batches!Fenced!Open
<1>4. ~IsOpen' /\ Reads' \subseteq Reads /\ UNCHANGED conditions => Batches!KeepsFence
  BY DEF Batches!Fenced!Close
<1>5. ASSUME NEW i, IsOpen, Reads' = Reads \cup {<<conditions, i>>}, UNCHANGED <<conditions, IsOpen>>
      PROVE  Batches!KeepsFence
  BY <1>5 DEF Batches!Fenced!Read
<1>6. ASSUME NEW r \in Reads, Reads' = Reads \ {r}, UNCHANGED <<conditions, IsOpen>>
      PROVE  Batches!KeepsFence
  BY <1>6 DEF Batches!Fenced!End
<1>7. QED
  BY <1>1, <1>2, <1>3, <1>4, <1>5, <1>6

\* A step that leaves Inventory and its database alone.
LEMMA FenceRests ==
  ASSUME UNCHANGED <<workers, sessions, conditions>>,
         gate'["inventory"].up = gate["inventory"].up, gate'["inventory"].closed = gate["inventory"].closed
  PROVE  Batches!KeepsFence
BY FenceMoves DEF IsOpen, Reads

\* What Inventory's handlers and its database do is a read that begins or ends.
LEMMA InventoryKeepsFence ==
  ASSUME SettlementInv
  PROVE  /\ \A m \in wire : Batches!AdmitInventory(m) => Batches!KeepsFence
         /\ \A h \in workers : Batches!Connect(h) \/ Batches!FinishInventory(h) => Batches!KeepsFence
         /\ \A x \in sessions : Batches!SessionEnds(x) => Batches!KeepsFence
<1> USE Identities
<1>0. /\ gate \in Gates /\ workers \subseteq WorkerType /\ sessions \subseteq [epoch : Batches!Epochs, id : Ids]
      /\ conditions = ctl.epoch /\ gate["inventory"] \in GateType
  <2>1. gate \in Gates
    BY DEF SettlementInv, SettlementTypes
  <2>2. QED
    BY <2>1 DEF SettlementInv, SettlementTypes, Gates
<1>1. ASSUME NEW m \in wire, Batches!AdmitInventory(m) PROVE Batches!KeepsFence
  <2>1. UNCHANGED <<sessions, conditions>> /\ gate["inventory"].up
    BY <1>1 DEF Batches!AdmitInventory, Batches!Arrives, Batches!controller
  <2>2. CASE ~Batches!Admits("inventory", m)
    <3>1. UNCHANGED <<gate, workers>>
      BY <1>1, <2>2 DEF Batches!AdmitInventory
    <3>2. QED
      BY <2>1, <3>1, FenceRests
  <2>3. CASE Batches!Admits("inventory", m)
    <3>1. /\ m.epoch = gate["inventory"].epoch /\ ~gate["inventory"].closed
          /\ gate' = [gate EXCEPT !["inventory"].active = @ \cup {m.id}]
          /\ workers' = workers \cup {[epoch |-> m.epoch, id |-> m.id, stage |-> "connect"]}
      BY <1>1, <2>3 DEF Batches!AdmitInventory, Batches!Admits, Batches!Admit, Batches!FenceUp
    <3>2. gate["inventory"].epoch = conditions
      BY <1>0, <3>1 DEF SettlementInv, GatesAreTrue, GateIsTrue
    <3>3. gate'["inventory"].up = gate["inventory"].up /\ gate'["inventory"].closed = gate["inventory"].closed
      BY <1>0, <3>1 DEF Gates, GateType
    <3>4. IsOpen /\ UNCHANGED IsOpen
      BY <2>1, <3>1, <3>3 DEF IsOpen
    <3>5. Reads' = Reads \cup {<<conditions, m.id>>}
      <4> DEFINE g == [epoch |-> m.epoch, id |-> m.id, stage |-> "connect"]
      <4>1. g.epoch = conditions /\ g.id = m.id
        BY <3>1, <3>2
      <4>2. workers' = workers \cup {g} /\ sessions' = sessions
        BY <2>1, <3>1
      <4> HIDE DEF g
      <4>3. ASSUME NEW x \in workers' \cup sessions' PROVE <<x.epoch, x.id>> \in Reads \cup {<<conditions, m.id>>}
        BY <4>1, <4>2 DEF Reads
      <4>4. ASSUME NEW x \in workers \cup sessions PROVE <<x.epoch, x.id>> \in Reads'
        BY <4>2 DEF Reads
      <4>5. <<conditions, m.id>> \in Reads'
        BY <4>1, <4>2 DEF Reads
      <4>6. QED
        BY <4>3, <4>4, <4>5 DEF Reads
    <3>6. QED
      BY <2>1, <3>4, <3>5, FenceMoves
  <2>4. QED
    BY <2>2, <2>3
<1>2. ASSUME NEW h \in workers, Batches!Connect(h) PROVE Batches!KeepsFence
  <2>1. /\ UNCHANGED <<gate, conditions>> /\ sessions' = sessions \cup {[epoch |-> h.epoch, id |-> h.id]}
        /\ workers' = (workers \ {h}) \cup {[h EXCEPT !.stage = "read"]}
    BY <1>2 DEF Batches!Connect, Batches!Session, Batches!controller
  <2>2. [h EXCEPT !.stage = "read"].epoch = h.epoch /\ [h EXCEPT !.stage = "read"].id = h.id
    BY <1>0 DEF WorkerType
  <2>3. Reads' = Reads
    <3>1. ASSUME NEW x \in workers' \cup sessions' PROVE <<x.epoch, x.id>> \in Reads
      <4>1. CASE x \in workers \cup sessions
        BY <4>1 DEF Reads
      <4>2. CASE x = [epoch |-> h.epoch, id |-> h.id] \/ x = [h EXCEPT !.stage = "read"]
        <5>1. x.epoch = h.epoch /\ x.id = h.id
          <6>1. CASE x = [epoch |-> h.epoch, id |-> h.id]
            BY <6>1
          <6>2. CASE x = [h EXCEPT !.stage = "read"]
            BY <2>2, <6>2
          <6>3. QED
            BY <4>2, <6>1, <6>2
        <5>2. QED
          BY <5>1 DEF Reads
      <4>3. QED
        BY <2>1, <4>1, <4>2
    <3>2. ASSUME NEW x \in workers \cup sessions PROVE <<x.epoch, x.id>> \in Reads'
      <4>1. CASE x = h
        <5>1. [epoch |-> h.epoch, id |-> h.id] \in sessions'
          BY <2>1
        <5>2. <<[epoch |-> h.epoch, id |-> h.id].epoch, [epoch |-> h.epoch, id |-> h.id].id>> \in Reads'
          BY <5>1 DEF Reads
        <5>3. QED
          BY <4>1, <5>2
      <4>2. CASE x # h
        BY <2>1, <4>2 DEF Reads
      <4>3. QED
        BY <4>1, <4>2
    <3>3. QED
      BY <3>1, <3>2 DEF Reads
  <2>4. QED
    BY <2>1, <2>3, FenceMoves DEF IsOpen
<1>3. ASSUME NEW h \in workers, Batches!FinishInventory(h) PROVE Batches!KeepsFence
  <2> DEFINE r == <<h.epoch, h.id>>
  <2>1. /\ UNCHANGED conditions /\ workers' = workers \ {h}
        /\ sessions' = sessions \/ sessions' = sessions \ {[epoch |-> h.epoch, id |-> h.id]}
        /\ gate' = [gate EXCEPT !["inventory"].active = @ \ {h.id}, !["inventory"].done = @ \cup {h.id}]
    BY <1>3 DEF Batches!FinishInventory, Batches!Finish, Batches!Session, Batches!controller
  <2>2. UNCHANGED IsOpen
    BY <1>0, <2>1 DEF IsOpen, Gates, GateType
  <2>3. \A g \in workers : g.id = h.id => g = h
    BY DEF SettlementInv, HandlersAreActive, HandlersOf
  <2>4. \A x \in sessions : x.epoch = h.epoch /\ x.id = h.id => x = [epoch |-> h.epoch, id |-> h.id]
    BY <1>0
  <2>5. /\ Reads' \subseteq Reads /\ Reads \ {r} \subseteq Reads'
    <3>1. ASSUME NEW x \in workers \cup sessions, <<x.epoch, x.id>> # r PROVE x \in workers' \cup sessions'
      BY <2>1, <3>1
    <3>2. QED
      BY <2>1, <3>1 DEF Reads
  <2>6. CASE r \in Reads'
    <3>1. Reads' = Reads
      BY <2>5, <2>6
    <3>2. QED
      BY <2>1, <2>2, <3>1, FenceMoves
  <2>7. CASE r \notin Reads'
    <3>1. r \in Reads /\ Reads' = Reads \ {r}
      BY <2>5, <2>7 DEF Reads
    <3>2. QED
      BY <2>1, <2>2, <3>1, FenceMoves
  <2>8. QED
    BY <2>6, <2>7
<1>4. ASSUME NEW x \in sessions, Batches!SessionEnds(x) PROVE Batches!KeepsFence
  <2> DEFINE r == <<x.epoch, x.id>>
  <2>1. UNCHANGED <<gate, workers, conditions>> /\ sessions' = sessions \ {x}
    BY <1>4 DEF Batches!SessionEnds, Batches!controller
  <2>2. Reads' \subseteq Reads /\ Reads \ {r} \subseteq Reads' /\ r \in Reads
    BY <2>1 DEF Reads
  <2>3. CASE r \in Reads'
    <3>1. Reads' = Reads
      BY <2>2, <2>3
    <3>2. QED
      BY <2>1, <3>1, FenceMoves DEF IsOpen
  <2>4. CASE r \notin Reads'
    <3>1. Reads' = Reads \ {r}
      BY <2>2, <2>4
    <3>2. QED
      BY <2>1, <2>2, <3>1, FenceMoves DEF IsOpen
  <2>5. QED
    BY <2>3, <2>4
<1>5. QED
  BY <1>1, <1>2, <1>3, <1>4

\* What the controller does to Inventory opens its fence or shuts it.
LEMMA ControllerKeepsFence ==
  ASSUME SettlementInv, Batches!Controller
  PROVE  Batches!KeepsFence
<1> USE Identities
<1>0. gate \in Gates /\ gate["inventory"] \in GateType /\ conditions = ctl.epoch
  <2>1. gate \in Gates
    BY DEF SettlementInv, SettlementTypes
  <2>2. QED
    BY <2>1 DEF SettlementInv, SettlementTypes, Gates
<1>1. CASE Batches!Configure
  <2>1. ctl.at = "next" /\ UNCHANGED <<gate, workers, sessions>>
    BY <1>1 DEF Batches!Configure, Batches!At, Batches!services
  <2>2. workers = {} /\ sessions = {} /\ gate["inventory"].closed
    BY <2>1 DEF SettlementInv, FencesStand
  <2>3. Reads = {} /\ ~IsOpen /\ UNCHANGED <<Reads, IsOpen>>
    BY <2>1, <2>2 DEF Reads, IsOpen
  <2>4. \/ ctl.epoch < MaxEpoch /\ conditions' = conditions + 1
        \/ conditions' = conditions
    BY <1>1 DEF Batches!Configure
  <2>5. CASE conditions' = conditions
    BY <2>3, <2>5, FenceMoves
  <2>6. CASE ctl.epoch < MaxEpoch /\ conditions' = conditions + 1
    <3>1. conditions < MaxEpoch
      BY <1>0, <2>6
    <3>2. conditions' = conditions + 1
      BY <2>6
    <3>3. QED
      BY <2>3, <3>1, <3>2, FenceMoves
  <2>7. QED
    BY <2>4, <2>5, <2>6
<1>2. CASE Batches!OpenAt("inventory", "open inventory", "open quote")
  <2>1. UNCHANGED <<workers, sessions, conditions>>
    BY <1>2 DEF Batches!OpenAt
  <2>2. CASE Batches!Opens("inventory")
    <3>1. /\ gate["inventory"].up /\ gate["inventory"].closed
          /\ gate' = [gate EXCEPT !["inventory"].epoch = ctl.epoch, !["inventory"].closed = FALSE,
                                  !["inventory"].done = {}, !["inventory"].downstream = 0]
      BY <1>2, <2>2 DEF Batches!OpenAt, Batches!Opens
    <3>2. gate'["inventory"] = [gate["inventory"] EXCEPT !.epoch = ctl.epoch, !.closed = FALSE, !.done = {},
                                                         !.downstream = 0]
      BY <1>0, <3>1 DEF Gates
    <3>3. gate'["inventory"].up /\ ~gate'["inventory"].closed
      <4>1. gate'["inventory"].up = gate["inventory"].up
        BY <1>0, <3>2 DEF GateType
      <4>2. gate'["inventory"].closed = FALSE
        BY <1>0, <3>2 DEF GateType
      <4>3. QED
        BY <3>1, <4>1, <4>2
    <3>4. ~IsOpen /\ IsOpen' /\ UNCHANGED Reads
      BY <2>1, <3>1, <3>3 DEF IsOpen, Reads
    <3>5. QED
      BY <2>1, <3>4, FenceMoves
  <2>3. CASE ~Batches!Opens("inventory")
    <3>1. UNCHANGED gate
      BY <1>2, <2>3 DEF Batches!OpenAt
    <3>2. QED
      BY <2>1, <3>1, FenceRests
  <2>4. QED
    BY <2>2, <2>3
<1>3. CASE Batches!CloseAt("inventory", "close inventory", "read quote")
  <2>1. UNCHANGED <<workers, sessions, conditions>>
    BY <1>3 DEF Batches!CloseAt
  <2>2. CASE UNCHANGED gate
    BY <2>1, <2>2, FenceRests
  <2>3. CASE gate' = [gate EXCEPT !["inventory"].closed = TRUE]
    <3>1. gate'["inventory"].closed
      BY <1>0, <2>3 DEF Gates, GateType
    <3>2. ~IsOpen' /\ Reads' \subseteq Reads
      BY <2>1, <3>1 DEF IsOpen, Reads
    <3>3. QED
      BY <2>1, <3>2, FenceMoves
  <2>4. QED
    BY <1>3, <2>2, <2>3 DEF Batches!CloseAt
<1>4. CASE Batches!OpenAt("quote", "open quote", "batch") \/ Batches!CloseAt("quote", "close quote", "close inventory")
  <2>1. UNCHANGED <<workers, sessions, conditions>>
    BY <1>4 DEF Batches!OpenAt, Batches!CloseAt
  <2>2. gate'["inventory"] = gate["inventory"]
    BY <1>0, <1>4 DEF Batches!OpenAt, Batches!CloseAt, Gates
  <2>3. QED
    BY <2>1, <2>2, FenceRests
<1>5. CASE \/ Batches!EndBatch \/ Batches!Judge \/ Batches!CheckReaders
           \/ Batches!ReadAt("quote", "read quote", "read inventory")
           \/ Batches!ReadAt("inventory", "read inventory", "judge")
  <2>1. UNCHANGED <<gate, workers, sessions, conditions>>
    BY <1>5 DEF Batches!EndBatch, Batches!Judge, Batches!CheckReaders, Batches!ReadAt, Batches!OnlyController,
       Batches!services
  <2>2. QED
    BY <2>1, FenceRests
<1>6. QED
  BY <1>1, <1>2, <1>3, <1>4, <1>5 DEF Batches!Controller

\* A fence that falls with its process, and one that comes up shut.
LEMMA ProcessesKeepFence ==
  ASSUME SettlementInv, NEW s \in Batches!Services, Batches!Crash(s) \/ Batches!Restart(s)
  PROVE  Batches!KeepsFence
<1> USE Identities
<1>0. gate \in Gates /\ gate["inventory"] \in GateType
  <2>1. gate \in Gates
    BY DEF SettlementInv, SettlementTypes
  <2>2. QED
    BY <2>1 DEF Gates
<1>1. UNCHANGED <<sessions, conditions>>
  BY DEF Batches!Crash, Batches!Restart, Batches!controller
<1>2. CASE s = "quote"
  <2>1. UNCHANGED workers /\ gate'["inventory"] = gate["inventory"]
    BY <1>0, <1>2 DEF Batches!Crash, Batches!Restart, Gates
  <2>2. QED
    BY <1>1, <2>1, FenceRests
<1>3. CASE s = "inventory" /\ Batches!Crash(s)
  <2>1. /\ workers' = {}
        /\ gate' = [gate EXCEPT !["inventory"].up = FALSE, !["inventory"].active = {}, !["inventory"].done = {}]
    BY <1>3 DEF Batches!Crash
  <2>2. ~gate'["inventory"].up
    BY <1>0, <2>1 DEF Gates, GateType
  <2>3. ~IsOpen' /\ Reads' \subseteq Reads
    BY <1>1, <2>1, <2>2 DEF IsOpen, Reads
  <2>4. QED
    BY <1>1, <2>3, FenceMoves
<1>4. CASE s = "inventory" /\ Batches!Restart(s)
  <2>1. UNCHANGED workers /\ ~gate["inventory"].up /\ gate'["inventory"].closed
    BY <1>0, <1>4 DEF Batches!Restart, Batches!Fresh, Gates
  <2>2. UNCHANGED <<IsOpen, Reads>>
    BY <1>1, <2>1 DEF IsOpen, Reads
  <2>3. QED
    BY <1>1, <2>2, FenceMoves
<1>5. QED
  BY <1>2, <1>3, <1>4

LEMMA FenceStep == SettlementInv /\ [Batches!Next]_(Batches!vars) => Batches!KeepsFence
<1> SUFFICES ASSUME SettlementInv, [Batches!Next]_(Batches!vars) PROVE Batches!KeepsFence
  OBVIOUS
<1> USE Identities
<1>1. CASE \/ UNCHANGED Batches!vars \/ Batches!WaitEnds \/ Batches!Waits
           \/ \E i \in Ids : Batches!Dispatch(i) \/ Batches!GiveUp(i) \/ Batches!Repeat(i)
           \/ \E h \in calls : Batches!Forward(h)
  <2>1. UNCHANGED <<gate, workers, sessions, conditions>>
    BY <1>1 DEF Batches!vars, Batches!services, Batches!controller, Batches!WaitEnds, Batches!Waits,
       Batches!OnlyController, Batches!Dispatch, Batches!GiveUp, Batches!Repeat, Batches!Forward
  <2>2. QED
    BY <2>1, FenceRests
<1>2. ASSUME \/ \E m \in wire : Batches!AdmitQuote(m)
             \/ \E h \in calls : Batches!FinishQuote(h)
      PROVE  Batches!KeepsFence
  <2>1. UNCHANGED <<workers, sessions, conditions>>
    BY <1>2 DEF Batches!AdmitQuote, Batches!FinishQuote, Batches!controller
  <2>2. gate \in Gates
    BY DEF SettlementInv, SettlementTypes
  <2>3. gate'["inventory"] = gate["inventory"]
    BY <1>2, <2>2 DEF Batches!AdmitQuote, Batches!FinishQuote, Batches!Admit, Batches!Finish, Gates
  <2>4. QED
    BY <2>1, <2>3, FenceRests
<1>3. CASE Batches!Handlers
  BY <1>1, <1>2, <1>3, InventoryKeepsFence DEF Batches!Handlers
<1>4. CASE \E s \in Batches!Services : Batches!Crash(s) \/ Batches!Restart(s)
  BY <1>4, ProcessesKeepFence
<1>5. QED
  BY <1>1, <1>3, <1>4, ControllerKeepsFence DEF Batches!Next

LEMMA FenceStarts == Batches!Init => Batches!Fenced!Init
<1> SUFFICES ASSUME Batches!Init PROVE Batches!Fenced!Init
  OBVIOUS
<1>1. gate["inventory"].closed /\ workers = {} /\ sessions = {} /\ conditions = 0
  BY Identities DEF Batches!Init, Batches!Fresh
<1>2. QED
  BY <1>1 DEF Batches!Fenced!Init

\* KeepsFence: two services with a fence each, their ledgers and the database
\* keep the promise of one fence, FencedReads: the conditions of a measurement
\* change only when no read of it is left, and a read begins behind an open
\* fence alone (services.py Gate, opportunity.py run).
THEOREM BatchesKeepFence == Spec => KeepsFence
<1>1. Init => (part = "batches" => Batches!Fenced!Init)
  BY FenceStarts DEF Init
<1>2. (part = "batches" => SettlementInv) /\ [Next]_vars => [part = "batches" => Batches!KeepsFence]_vars
  <2> SUFFICES ASSUME SettlementInv, Next, part = "batches" PROVE Batches!KeepsFence
    OBVIOUS
  <2>1. Batches!Next
    BY DEF Next
  <2>2. QED
    BY <2>1, FenceStep
<1>3. QED
  BY <1>1, <1>2, SettlementIsKept, PTL DEF Spec, KeepsFence
=============================================================================
