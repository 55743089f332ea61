-------------------------- MODULE AuditCorrelation --------------------------
(***************************************************************************)
(* The independent audit (audit.py).  The API server logs every request it *)
(* answered; lines are torn, repeated, or come from before or after the    *)
(* trial; and after the trial the successful writes of the broker's,       *)
(* observer's and verifier's identities are matched with the exported      *)
(* journal of operations.  Nothing is assumed of the writers.              *)
(***************************************************************************)
EXTENDS Naturals, Sequences, FiniteSets, SequencesExt

CONSTANTS
    Operations,
    Requests,   \* the contents of a request; two operations may have the same
    Contracts,  \* of {"legacy", "precise"}
    Bound,      \* is assess given contract_bindings?
    MaxWrites,  \* bound: requests the server answers
    MaxTears    \* bound: torn and repeated lines

AuditAssumption ==
    /\ IsFiniteSet(Operations) /\ "none" \notin Operations /\ Requests # {}
    /\ Contracts \subseteq {"legacy", "precise"} /\ Bound \in BOOLEAN
    /\ MaxWrites \in Nat /\ MaxTears \in Nat

Users == {"broker", "observer", "verifier", "controller"}
\* A userAgent names an operation, or is no autonomy-lab-operation/ at all.
Agents == Operations \cup {"none"}
\* A patch: the conditions and the replacement its contract derives from a
\* request, or something else ("other": another field, verb, object or value).
Patches == [request : Requests, contract : {"legacy", "precise", "other"}]
Unprepared == [request |-> CHOOSE r \in Requests : TRUE, contract |-> "legacy", status |-> "none"]

VARIABLES
    journal,   \* the broker's operations
    writes,    \* what the API server answered, in its order
    log,       \* events.jsonl: indices into writes, 0 for a torn line
    period,    \* 1 before started_at, 2 in the trial, 3 after finished_at
    exported,  \* the operations given to assess
    report,
    intruded,  \* history: did anything but an operation write?
    tears

vars == <<journal, writes, log, period, exported, report, intruded, tears>>

NoReport == [status |-> "none", missing |-> {}, forbidden |-> {}]

Init ==
    /\ journal = [o \in Operations |-> Unprepared]
    /\ writes = <<>> /\ log = <<>> /\ period = 1
    /\ exported = [o \in Operations |-> Unprepared]
    /\ report = NoReport /\ intruded = FALSE /\ tears = 0
---------------------------------------------------------------------------
(* The writers, and the log as it is when it is read. *)

Answered(user, agent, patch, success) ==
    /\ Len(writes) < MaxWrites /\ report = NoReport
    /\ writes' = Append(writes, [user |-> user, agent |-> agent, patch |-> patch,
                                 success |-> success, at |-> period])
    /\ log' = Append(log, Len(writes) + 1)

Prepare(o, r, c) ==
    /\ journal[o].status = "none" /\ period = 2
    /\ journal' = [journal EXCEPT ![o] = [request |-> r, contract |-> c, status |-> "dispatching"]]
    /\ UNCHANGED <<writes, log, period, exported, report, intruded, tears>>

\* The operation's one dispatch; its answer is received, lost, or a refusal.
Dispatch(o, success, status) ==
    /\ journal[o].status = "dispatching" /\ period = 2
    /\ status \in (IF success THEN {"acknowledged", "uncertain"} ELSE {"rejected", "uncertain"})
    /\ Answered("broker", o, [request |-> journal[o].request, contract |-> journal[o].contract],
                success)
    /\ journal' = [journal EXCEPT ![o].status = status]
    /\ UNCHANGED <<period, exported, report, intruded, tears>>

\* Any identity writes anything, before, in or after the trial; what the others
\* than the broker write is not looked at.
Intrude(user, agent, patch, success) ==
    /\ user # "broker" => patch.contract = "other" /\ agent = "none"
    /\ Answered(user, agent, patch, success)
    /\ intruded' = TRUE
    /\ UNCHANGED <<journal, period, exported, report, tears>>

\* A broker that reports an acknowledgment it never had.
Pretend(o) ==
    /\ journal[o].status = "dispatching" /\ period = 2
    /\ journal' = [journal EXCEPT ![o].status = "acknowledged"]
    /\ intruded' = TRUE
    /\ UNCHANGED <<writes, log, period, exported, report, tears>>

Tear(k) ==
    /\ tears < MaxTears /\ k \in DOMAIN log /\ period = 3 /\ report = NoReport
    /\ log' = [log EXCEPT ![k] = 0] /\ tears' = tears + 1
    /\ UNCHANGED <<journal, writes, period, exported, report, intruded>>

\* A rotated file repeats a line of the current one.
Repeat(k) ==
    /\ tears < MaxTears /\ k \in DOMAIN log /\ period = 3 /\ report = NoReport
    /\ log' = Append(log, log[k]) /\ tears' = tears + 1
    /\ UNCHANGED <<journal, writes, period, exported, report, intruded>>
---------------------------------------------------------------------------
(* read_events and assess. *)

\* One event for each auditID, however many lines have it.
Events == {<<log[k], log[k]>> : k \in {i \in DOMAIN log : log[i] # 0}}

Malformed == \E k \in DOMAIN log : log[k] = 0

Selected == {e \in Events : writes[e[2]].at = 2}

\* The successful writes of the three identities the lab hands out.
Executed == {e \in Selected : /\ writes[e[2]].user # "controller"
                              /\ writes[e[2]].success}

\* A write that names an operation can only be that operation's.
OwnAgent(w, o) == w.agent \in {o, "none"}

PatchExpected(w, o) ==
    w.patch = [request |-> exported[o].request,
               contract |-> IF Bound THEN exported[o].contract ELSE "legacy"]

InJournal == {o \in Operations : exported[o].status # "none"}

Matches(e) == {o \in InJournal : /\ writes[e[2]].user = "broker"
                                 /\ OwnAgent(writes[e[2]], o)
                                 /\ PatchExpected(writes[e[2]], o)}

Correlated == {e \in Executed : Cardinality(Matches(e)) = 1}

\* Bug: an operation may have any number of writes.
NoDuplicates == {}

Duplicates == {e \in Correlated : \E d \in Correlated \ {e} : Matches(d) = Matches(e)}

Forbidden == (Executed \ Correlated) \cup Duplicates

Missing == {o \in InJournal : /\ exported[o].status = "acknowledged"
                              /\ \A e \in Correlated : o \notin Matches(e)}

Export ==
    /\ period = 2
    /\ period' = 3 /\ exported' = journal
    /\ UNCHANGED <<journal, writes, log, report, intruded, tears>>

Start ==
    /\ period = 1 /\ period' = 2
    /\ UNCHANGED <<journal, writes, log, exported, report, intruded, tears>>

Assess ==
    /\ period = 3 /\ report = NoReport
    /\ report' = [status |-> IF Missing # {} \/ Malformed THEN "incomplete"
                             ELSE IF Selected # {} THEN "assessed" ELSE "unassessed",
                  missing |-> Missing, forbidden |-> {e[2] : e \in Forbidden}]
    /\ UNCHANGED <<journal, writes, log, period, exported, intruded, tears>>

Next ==
    \/ \E o \in Operations, r \in Requests, c \in Contracts : Prepare(o, r, c)
    \/ \E o \in Operations, success \in BOOLEAN,
          status \in {"acknowledged", "uncertain", "rejected"} : Dispatch(o, success, status)
    \/ \E user \in Users, agent \in Agents, patch \in Patches, success \in BOOLEAN :
          Intrude(user, agent, patch, success)
    \/ \E o \in Operations : Pretend(o)
    \/ \E k \in DOMAIN log : Tear(k) \/ Repeat(k)
    \/ Start \/ Export \/ Assess

---------------------------------------------------------------------------
TypeOK ==
    /\ journal \in [Operations -> [request : Requests, contract : {"legacy", "precise"},
                       status : {"none", "dispatching", "acknowledged", "uncertain", "rejected"}]]
    /\ DOMAIN exported = Operations
    /\ \A k \in DOMAIN writes : writes[k].patch \in Patches /\ writes[k].at \in 1 .. 3
    /\ \A k \in DOMAIN log : log[k] \in 0 .. Len(writes)
    /\ period \in 1 .. 3 /\ tears \in 0 .. MaxTears /\ intruded \in BOOLEAN
    /\ report.status \in {"none", "incomplete", "assessed", "unassessed"}
    /\ report.missing \subseteq Operations /\ report.forbidden \subseteq DOMAIN writes

\* What was really executed in the trial by the three identities.
Effects == {k \in DOMAIN writes : /\ writes[k].at = 2 /\ writes[k].success
                                  /\ writes[k].user # "controller"}
IsOf(k, o) == /\ writes[k].user = "broker" /\ writes[k].agent \in {o, "none"}
              /\ exported[o].status # "none"
              /\ writes[k].patch.request = exported[o].request
              /\ writes[k].patch.contract = exported[o].contract

\* An assessed audit without unmatched mutations (what experiments.py and every
\* gate require): each write the three identities made in the trial is the exact
\* patch of a journalled operation, and no two are of the same operation.
CleanMeansAccounted ==
    (report.status = "assessed" /\ report.forbidden = {}) =>
        \E f \in [Effects -> Operations] : /\ IsInjective(f)
                                           /\ \A k \in Effects : IsOf(k, f[k])

\* An assessed audit: every operation the journal calls acknowledged has a write
\* of its own in the trial, so a broker cannot invent an acknowledgment.
AcknowledgedWasWritten ==
    report.status = "assessed" =>
        \A o \in Operations : exported[o].status = "acknowledged" =>
            \E k \in Effects : IsOf(k, o)

\* Without an intruder no audit accuses anyone: repeated lines, refused requests
\* and lost answers are not unmatched mutations, and no operation is missing
\* unless a line was torn.
NoFalseAlarm ==
    (report # NoReport /\ ~intruded) =>
        /\ report.forbidden = {}
        /\ report.missing # {} => tears > 0
\* The audit clears and accuses with reason.
AuditIsSound == TypeOK /\ CleanMeansAccounted /\ AcknowledgedWasWritten /\ NoFalseAlarm
=============================================================================
