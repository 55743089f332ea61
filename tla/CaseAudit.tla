----------------------------- MODULE CaseAudit -----------------------------
(***************************************************************************)
(* The offline judgement of one comparison case (customer_benefit,         *)
(* contract_confirmation, final_slot, shadow_selection): the evidence a    *)
(* case leaves - the controller's record, the journal, the API server's    *)
(* audit log, the customer samples - is judged check by check, and the     *)
(* first check that fails is the reason of the refusal.  Also the authored *)
(* corruptions, each with the one reason it must be refused for.           *)
(*                                                                         *)
(* Times inside a phase are positions of the audit log; the controller's   *)
(* schedule has a clock of its own (Offset).                               *)
(***************************************************************************)
EXTENDS Naturals, Sequences, FiniteSets, FiniteSetsExt, SequencesExt

\* Which worker's first operation meets which changes, and at which barrier.
Conflict(suite, phase, stage, changes) ==
    [suite |-> suite, phase |-> phase, stage |-> stage, changes |-> changes]

Context == [
    quiet                |-> Conflict("benefit", "first", "preflight", <<>>),
    heartbeat_before     |-> Conflict("benefit", "first", "intent", <<"tick-1">>),
    heartbeat_after      |-> Conflict("benefit", "first", "preflight", <<"tick-1">>),
    protected_after      |-> Conflict("benefit", "first", "preflight", <<"annotation">>),
    heartbeat_burst      |-> Conflict("confirmation", "first", "preflight", <<"tick-1", "tick-2">>),
    heartbeat_annotation |-> Conflict("confirmation", "first", "preflight", <<"tick-1", "annotation">>),
    heartbeat_return     |-> Conflict("confirmation", "first", "preflight", <<"tick-1", "initial">>),
    heartbeat_post_ack   |-> Conflict("confirmation", "first", "preflight", <<>>),
    heartbeat_final      |-> Conflict("final_slot", "second", "preflight", <<"tick-1">>),
    protected_final      |-> Conflict("final_slot", "second", "preflight", <<"tick-1", "annotation">>),
    protected_before     |-> Conflict("final_slot", "second", "preflight", <<>>)]

PostAck(c) == c = "heartbeat_post_ack"
EarlyChange(c) == c = "protected_before"
Recurrent(c) == c # "heartbeat_before"

Offset == [fixture |-> 15, stop |-> 20, fault |-> 25, first |-> 45, post_ack |-> 85,
           first_stop |-> 115, second_fault |-> 125, early_change |-> 135, second |-> 140]
Moments == DOMAIN Offset
Lateness == 3
Slots == {"fault", "r1", "r2", "r3", "refault", "late"}
Recovery == {"r1", "r2", "r3"}
Budget == 2

\* The Service: rv is its resource version.
Visible(s) == <<s.port, s.beat, s.guard>>
NoService == [port |-> "none", beat |-> "none", guard |-> "none", rv |-> 0]
Untouched == [port |-> "ok", beat |-> "none", guard |-> "plain", rv |-> 1]

\* expected_effect: what one change does to what it was based on.
Effect(s, kind) ==
    CASE kind = "fixture" -> [s EXCEPT !.beat = "initial", !.guard = "enabled"]
      [] kind \in {"fault", "second_fault"} -> [s EXCEPT !.port = "bad"]
      [] kind = "repair" -> [s EXCEPT !.port = "ok"]
      [] kind = "annotation" -> [s EXCEPT !.guard = "changed"]
      [] OTHER -> [s EXCEPT !.beat = kind]

---------------------------------------------------------------------------
(* The evidence e: arm, context, times (0: not recorded), done (end of a   *)
(* controller action), controls, samples, points, ops, firstOps, ackOp,    *)
(* the writes of the log and its reads.  The parts the checks speak of:    *)

Points(e, op, stage) == SelectSeq(e.points, LAMBDA p : p.op = op /\ p.stage = stage)
Sent(e, op) == SelectSeq(e.log, LAMBDA a : a.op = op)
Dispatched(e) == {i \in DOMAIN e.ops : Sent(e, i) # <<>>}
\* operation_rows: an operation's row, without its conditions and its events.
Row(o) == [o EXCEPT !.contract = "none", !.snapshot = NoService, !.journal = <<>>]
FirstRows(e) == [i \in DOMAIN SelectSeq(e.ops, LAMBDA o : o.phase = "first") |-> Row(e.ops[i])]
Events(o) == [i \in DOMAIN o.journal |-> o.journal[i].event]
Changed(e) == SelectSeq(e.points, LAMBDA p : p.changes # <<>>)
Has(e, moment) == e.times[moment] > 0
Controlled == {"fixture", "fault", "second_fault", "post_ack", "early_change"}
\* Every change the controller says it made.
Controls(e) ==
    {e.controls[m] : m \in {x \in Controlled : Has(e, x)}}
        \cup UNION {Range(p.changes) : p \in Range(e.points)}
\* observed: what was read after the first n writes is a read of the log.
Observed(e, state, n) == [at |-> n, state |-> state] \in e.reads
FirstIntent(e, phase) ==
    LET intents == SelectSeq(e.points, LAMBDA p : p.phase = phase /\ p.stage = "intent")
    IN IF intents = <<>> THEN 0 ELSE Head(intents).op

Calendar(e) == {s.slot : s \in Range(e.samples)} = Slots
Verified(e) == \A s \in Range(e.samples) : s.whole
OnSchedule(e) == \A m \in Moments : Has(e, m) => e.times[m] \in Offset[m] .. Offset[m] + Lateness
Recovered(e) ==
    \A slot \in Recovery : \E s \in Range(e.samples) : s.slot = slot /\ s.good
FaultSeen(e, slot) == \E s \in Range(e.samples) : s.slot = slot /\ ~s.good
RecurrenceEarned(e) ==
    Has(e, "second_fault") <=> (Recurrent(e.context) /\ Recovered(e))

\* final_slot: one acknowledged repair, and so one dispatch left.
OneSlotLeft(e) ==
    Context[e.context].suite = "final_slot" =>
        /\ Len(e.firstOps) = 1 /\ e.firstOps[1].status = "acknowledged" /\ e.firstOps[1].spent = 1
        /\ e.firstOps = FirstRows(e)
\* A binding for every operation.
Bound(e) == \A o \in Range(e.ops) : o.contract # "none"
\* Each change is one request of the log, with the effect it is declared to have.
ChangesAttributed(e) ==
    \A c \in Controls(e) :
        /\ Len(e.log) > c.at
        /\ LET a == e.log[c.at + 1] IN
            /\ a.op = 0 /\ a.kind = c.kind /\ a.code = 200 /\ a.state = c.after
            /\ Visible(a.state) = Visible(Effect(c.before, c.kind))
            /\ Observed(e, c.before, c.at)

\* require_conflict_boundary.
AtTheBoundary(e) ==
    LET x == Context[e.context] IN
    /\ Len(Changed(e)) <= (IF x.changes = <<>> THEN 0 ELSE 1)
    /\ \A p \in Range(Changed(e)) :
        p.op = FirstIntent(e, x.phase) /\ p.phase = x.phase /\ p.stage = x.stage
DeclaredSequence(e) ==
    \A p \in Range(Changed(e)) :
        [i \in DOMAIN p.changes |-> p.changes[i].kind] = Context[e.context].changes
\* require_early_change.
EarlyChangeInTime(e) ==
    /\ Has(e, "early_change") <=> EarlyChange(e.context)
    /\ EarlyChange(e.context) =>
        /\ Has(e, "second_fault") /\ e.times["second_fault"] <= e.times["early_change"]
        /\ e.done["early_change"] < e.times["second"]
PostAckAfterRepair(e) ==
    /\ Has(e, "post_ack") <=> PostAck(e.context)
    /\ PostAck(e.context) =>
        LET acked == {Row(o) : o \in {x \in Range(e.ops) :
                        x.status = "acknowledged" /\ x.updated <= e.controls["post_ack"].at}}
        IN acked = {e.ackOp}

ArmsContract(e) == \A o \in Range(e.ops) : o.contract = e.arm
JournalOrdered(e) ==
    \A o \in Range(e.ops) :
        /\ o.journal # <<>>
        /\ \A i \in 2 .. Len(o.journal) : o.journal[i-1].at <= o.journal[i].at
        /\ \A i \in DOMAIN o.journal : o.journal[i].at <= o.updated
\* Per operation one intent barrier, at most one preflight barrier, the
\* conditions as they were before and after the preparation.
OneBarrierEach(e) ==
    \A i \in DOMAIN e.ops :
        /\ Len(Points(e, i, "intent")) = (IF e.ops[i].reason = "budget_exhausted" THEN 0 ELSE 1)
        /\ Len(Points(e, i, "preflight")) <= 1
ConditionsKept(e) ==
    \A p \in Range(e.points) :
        p.snapshot = (IF p.stage = "intent" THEN NoService ELSE e.ops[p.op].snapshot)
\* Before and after each barrier were read from the API.
BarrierObserved(e) ==
    \A p \in Range(e.points) : Observed(e, p.before, p.at) /\ Observed(e, p.after, p.released)
\* Bug: only the last state is compared, not when the changes were made.
LastStateKept(e) ==
    \A p \in Range(e.points) :
        LET states == <<p.before>> \o [i \in DOMAIN p.changes |-> p.changes[i].after] IN
        /\ \A i \in DOMAIN p.changes : p.changes[i].before = states[i]
        /\ p.after = Last(states)
\* verify_sequence: each response feeds the next read.
NothingCollapsed(e) ==
    \A p \in Range(e.points) :
        LET states == <<p.before>> \o [i \in DOMAIN p.changes |-> p.changes[i].after] IN
        /\ \A i \in DOMAIN p.changes : p.changes[i].before = states[i] /\ p.lower <= p.changes[i].at
        /\ p.after = Last(states)
Resolved(e) == \A o \in Range(e.ops) : ~o.reconciled /\ o.status \in {"acknowledged", "rejected"}

SentOnce(e) ==
    \A i \in Dispatched(e) :
        Len(Sent(e, i)) = 1 /\ Points(e, i, "preflight") # <<>> /\ e.ops[i].spent = 1
\* The claim is durable before the request, after the release.
ClaimedFirst(e) ==
    \A i \in Dispatched(e) : \E k \in DOMAIN e.ops[i].journal :
        /\ e.ops[i].journal[k].event = "dispatching"
        /\ Last(Points(e, i, "preflight")).released <= e.ops[i].journal[k].at
        /\ \A n \in DOMAIN e.log : e.log[n].op = i => e.ops[i].journal[k].at < n
OutcomeTold(e) ==
    \A i \in Dispatched(e) : \A a \in Range(Sent(e, i)) :
        e.ops[i].status = (IF a.code = 200 THEN "acknowledged" ELSE "rejected")
\* A change of what the contract protects must have stopped the request.
ConflictRefused(e) ==
    \A i \in Dispatched(e) : \A p \in Range(Points(e, i, "preflight")), a \in Range(Sent(e, i)) :
        p.changes # <<>> /\ (e.arm # "precise" \/ \E c \in Range(p.changes) : c.kind = "annotation")
            => a.code # 200
OnlyThePort(e) ==
    \A i \in Dispatched(e) : \A p \in Range(Points(e, i, "preflight")), a \in Range(Sent(e, i)) :
        a.code = 200 => Visible(a.state) = Visible(Effect(p.after, "repair"))
\* The snapshot is what the broker read between the two barriers.
SnapshotRead(e) ==
    \A i \in Dispatched(e) : e.arm = "precise" =>
        /\ e.ops[i].snapshot # NoService
        /\ Observed(e, e.ops[i].snapshot, Last(Points(e, i, "intent")).released)
\* An unsent operation spent nothing, and had a reason not to be sent.
UnsentRefusals(e) ==
    \A i \in DOMAIN e.ops \ Dispatched(e) :
        LET o == e.ops[i] IN
        /\ o.status = "rejected" /\ o.spent = 0 /\ o.snapshot = NoService
        /\ Points(e, i, "preflight") = <<>>
        /\ \/ o.reason = "budget_exhausted"
           \/ /\ o.reason = "resource_version_changed" /\ e.context = "heartbeat_before"
              /\ o.phase = "first" /\ \E p \in Range(Changed(e)) : p.op = i
Transitions(e) ==
    \A i \in DOMAIN e.ops :
        Events(e.ops[i]) =
            IF i \in Dispatched(e)
            THEN <<"prepared">> \o (IF e.arm = "precise" THEN <<"conditions_recorded">> ELSE <<>>)
                    \o <<"dispatching", e.ops[i].status>>
            ELSE IF e.ops[i].reason = "budget_exhausted" THEN <<"rejected">>
            ELSE <<"prepared", "rejected", "budget_released">>
\* Every write of the log is a controller's change or an operation's request.
EveryWriteDeclared(e) ==
    \A n \in DOMAIN e.log :
        \/ e.log[n].op \in DOMAIN e.ops
        \/ \E c \in Controls(e) : c.at + 1 = n
WithinBudget(e) ==
    LET spent == Cardinality({i \in DOMAIN e.ops : e.ops[i].spent = 1}) IN
    spent = Cardinality(Dispatched(e)) /\ spent <= Budget
FirstOpsKept(e) == e.firstOps = FirstRows(e)
RefusedOnlyWhenSpent(e) ==
    \A i \in DOMAIN e.ops : e.ops[i].reason = "budget_exhausted" =>
        Cardinality({j \in Dispatched(e) : j < i}) = Budget
\* Every read is of the state the last successful write left.
Persisted(e) ==
    \A r \in e.reads :
        LET before == {n \in 1 .. r.at : e.log[n].code = 200}
        IN before # {} => Visible(r.state) = Visible(e.log[Max(before)].state)

Check(holds, reason) == [holds |-> holds, reason |-> reason]
\* evaluate, up to the audit of the operations.
CaseChecks(e) == <<
    Check(Calendar(e), "calendar"), Check(Verified(e), "verification"),
    Check(OnSchedule(e), "schedule"), Check(FaultSeen(e, "fault"), "first_fault"),
    Check(RecurrenceEarned(e), "recurrence"),
    Check(Has(e, "second_fault") => FaultSeen(e, "refault"), "second_fault")>>
\* The audit: what the controller did and where,
SetupChecks(e) == <<
    Check(OneSlotLeft(e), "one_slot"), Check(Bound(e), "binding"),
    Check(ChangesAttributed(e), "controller_effect"),
    Check(AtTheBoundary(e), "boundary"), Check(DeclaredSequence(e), "sequence"),
    Check(EarlyChangeInTime(e), "early_change"), Check(PostAckAfterRepair(e), "post_ack")>>
\* each operation up to its barriers,
BarrierChecks(e) == <<
    Check(ArmsContract(e), "contract"), Check(OneBarrierEach(e), "barrier"),
    Check(JournalOrdered(e), "journal"), Check(ConditionsKept(e), "conditions"),
    Check(BarrierObserved(e), "observation"), Check(NothingCollapsed(e), "intermediate"),
    Check(Resolved(e), "unresolved")>>
\* its request or refusal,
DispatchChecks(e) == <<
    Check(SentOnce(e), "replay"), Check(ClaimedFirst(e), "claim"),
    Check(OutcomeTold(e), "outcome"), Check(ConflictRefused(e), "conflict"),
    Check(OnlyThePort(e), "effect"), Check(SnapshotRead(e), "snapshot"),
    Check(UnsentRefusals(e), "unsent")>>
\* and what must hold of all of them together.
ClosingChecks(e) == <<
    Check(Transitions(e), "transitions"), Check(EveryWriteDeclared(e), "undeclared"),
    Check(WithinBudget(e), "budget"), Check(FirstOpsKept(e), "restart"),
    Check(RefusedOnlyWhenSpent(e), "refusal"), Check(Persisted(e), "persisted")>>
Checks(e) == CaseChecks(e) \o SetupChecks(e) \o BarrierChecks(e) \o DispatchChecks(e) \o ClosingChecks(e)

\* "accepted", or the reason of the first check that fails.
Verdict(e) ==
    LET failed == SelectSeq(Checks(e), LAMBDA c : ~c.holds)
    IN IF failed = <<>> THEN "accepted" ELSE Head(failed).reason

---------------------------------------------------------------------------
(* negative.py: the corruptions, made in a copy of accepted evidence.      *)

Expected == [
    missing_snapshot |-> "conditions", changed_contract |-> "contract",
    extra_broker_request |-> "replay", corrupted_effect |-> "effect",
    wrong_barrier_phase |-> "boundary", recurrence_timing |-> "schedule",
    unverified_recurrence |-> "recurrence", missing_corpus |-> "verification",
    missing_operation_binding |-> "binding", missing_sample |-> "calendar",
    claim_after_request |-> "journal", omitted_intermediate |-> "sequence",
    reordered_intermediate |-> "sequence", altered_intermediate |-> "controller_effect",
    broken_intermediate_time |-> "intermediate", invalid_acknowledgement |-> "post_ack",
    late_ack_intervention |-> "schedule", wrong_operation |-> "boundary",
    prior_budget |-> "one_slot", prior_acknowledgement |-> "one_slot",
    early_change_late |-> "early_change", early_change_missing |-> "early_change"]
OfRecurrence == {"recurrence_timing", "unverified_recurrence"}
OfIntermediates ==
    {"omitted_intermediate", "reordered_intermediate", "altered_intermediate", "broken_intermediate_time"}
OfFinalSlot == {"wrong_operation", "prior_budget", "prior_acknowledgement"}
OfEarlyChange == {"early_change_late", "early_change_missing"}
OfPostAck == {"invalid_acknowledgement", "late_ack_intervention"}
General == DOMAIN Expected \ (OfIntermediates \cup OfFinalSlot \cup OfEarlyChange \cup OfPostAck)

\* challenge: which case each corruption is tried on.
Challenges(arm, context) ==
    IF arm # "precise" THEN {}
    ELSE CASE context = "heartbeat_after" -> General \ {"unverified_recurrence"}
           [] context = "heartbeat_burst" -> General \cup OfIntermediates
           [] context = "heartbeat_post_ack" -> OfPostAck
           [] context = "protected_final" -> General \cup OfIntermediates \cup OfFinalSlot
           [] context = "protected_before" -> OfEarlyChange
           [] OTHER -> {}

FirstIndex(s, Test(_)) == CHOOSE i \in DOMAIN s : Test(s[i]) /\ \A j \in 1 .. i-1 : ~Test(s[j])
PointOf(e, op, stage) == FirstIndex(e.points, LAMBDA p : p.op = op /\ p.stage = stage)
\* Move the changes of one barrier to another.
Moved(points, from, to) ==
    [points EXCEPT ![to].changes = points[from].changes, ![from].changes = <<>>]

Corrupt(e, name) ==
    LET acked == FirstIndex(e.ops, LAMBDA o : o.status = "acknowledged")
        applied == FirstIndex(e.log, LAMBDA a : a.op > 0 /\ a.code = 200)
        claim == FirstIndex(e.ops[acked].journal, LAMBDA j : j.event = "dispatching")
        changed == FirstIndex(e.points, LAMBDA p : p.changes # <<>>)
        changes == e.points[changed].changes
        failed == FirstIndex(e.samples, LAMBDA s : ~s.good)
        midway == FirstIndex(e.samples, LAMBDA s : s.slot = "r2")
        ended == FirstIndex(e.samples, LAMBDA s : s.slot = "late")
    IN CASE name = "missing_snapshot" -> [e EXCEPT !.ops[acked].snapshot = NoService]
         [] name = "changed_contract" ->
                [e EXCEPT !.ops[acked].contract = "legacy", !.ops[acked].snapshot = NoService]
         [] name = "missing_operation_binding" -> [e EXCEPT !.ops[acked].contract = "none"]
         [] name = "claim_after_request" ->
                [e EXCEPT !.ops[acked].journal[claim].at = Len(e.log) + 1]
         [] name = "extra_broker_request" -> [e EXCEPT !.log = Append(@, e.log[applied])]
         [] name = "corrupted_effect" -> [e EXCEPT !.log[applied].state.guard = "undeclared"]
         [] name = "wrong_barrier_phase" ->
                [e EXCEPT !.points = Moved(@, changed, PointOf(e, e.points[changed].op, "intent"))]
         [] name = "wrong_operation" ->
                [e EXCEPT !.points =
                    Moved(@, changed, FirstIndex(e.points, LAMBDA p : p.phase = "first" /\ p.stage = "preflight"))]
         [] name = "recurrence_timing" -> [e EXCEPT !.times["second_fault"] = e.times["fault"]]
         [] name = "unverified_recurrence" -> [e EXCEPT !.samples[midway].good = FALSE]
         [] name = "missing_corpus" -> [e EXCEPT !.samples[failed].whole = FALSE]
         [] name = "missing_sample" -> [e EXCEPT !.samples = RemoveAt(@, ended)]
         [] name = "omitted_intermediate" -> [e EXCEPT !.points[changed].changes = Tail(@)]
         [] name = "reordered_intermediate" -> [e EXCEPT !.points[changed].changes = Reverse(@)]
         [] name = "altered_intermediate" ->
                [e EXCEPT !.points[changed].changes[1].after.guard = "damage"]
         [] name = "broken_intermediate_time" ->
                [e EXCEPT !.points[changed].lower = changes[1].at + 1]
         [] name = "invalid_acknowledgement" -> [e EXCEPT !.ackOp.status = "prepared"]
         [] name = "late_ack_intervention" -> [e EXCEPT !.times["post_ack"] = @ + 10]
         [] name = "prior_budget" -> [e EXCEPT !.firstOps[1].spent = 0]
         [] name = "prior_acknowledgement" -> [e EXCEPT !.firstOps[1].status = "prepared"]
         [] name = "early_change_late" -> [e EXCEPT !.done["early_change"] = e.times["second"] + 1]
         [] name = "early_change_missing" -> [e EXCEPT !.times["early_change"] = 0]
=============================================================================
