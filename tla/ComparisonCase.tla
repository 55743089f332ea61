--------------------------- MODULE ComparisonCase ---------------------------
(***************************************************************************)
(* One case of the frozen comparison, live (run_case): a controller that   *)
(* faults the Service by a schedule, holds each operation at its barriers, *)
(* makes the declared changes there and lets go; two generations of        *)
(* operators that repair under the legacy or the precise contract; and at  *)
(* the end the audit of what was recorded (CaseAudit).  A broker defect    *)
(* may be chosen, for what the audit must notice.                          *)
(***************************************************************************)
EXTENDS CaseAudit

CONSTANTS
    Arms, Contexts,   \* of this instance
    Defects,          \* what may be wrong with the broker; "none" for honest runs
    MaxOps,           \* bound: operations of one case
    MaxSlips          \* bound: late actions and damaged samples under an honest broker

CaseAssumption ==
    /\ Arms \subseteq {"legacy", "precise"} /\ Contexts \subseteq DOMAIN Context
    /\ Defects \subseteq {"none", "unconditional", "replays", "unclaimed", "unbudgeted", "overreaches"}
    /\ MaxOps \in Nat /\ MaxSlips \in Nat

\* What the controller does, in order; the loop of response runs beside the
\* steps between "first" and "first_stop", and between "second" and "end".
Timeline == <<"fixture", "stop", "fault", "sample_fault", "first", "post_ack", "r1", "r2", "r3",
              "first_stop", "decide", "sample_refault", "early_change", "second", "sample_late",
              "end", "judge", "over">>

VARIABLES
    arm, context, defect,
    pc,        \* the controller's position in Timeline
    svc,       \* the Service
    log,       \* the API server's audit log: writes
    reads,     \* and reads, each with the number of writes before it
    ops,       \* the broker's journal
    w,         \* the running operator: its place, its operation, the guard it proposed on
    rec,       \* record.json
    samples,
    verdict,   \* of the offline evaluation; "failed": the case itself failed
    authored,  \* the corruption tried, and its verdict
    harm,      \* history: what the broker really did wrong
    slips

case == <<arm, context, defect>>
vars == <<case, pc, svc, log, reads, ops, w, rec, samples, verdict, authored, harm, slips>>

NoWorker == [at |-> "none", op |-> 0, guard |-> "none"]
Idle == [at |-> "idle", op |-> 0, guard |-> "none"]
Read(s, n) == [at |-> n, state |-> s]
NoAction == [kind |-> "none", at |-> 0, before |-> NoService, after |-> NoService]
NoOp == [phase |-> "none", basis |-> 0, contract |-> "none", status |-> "none", reason |-> "none",
         spent |-> 0, snapshot |-> NoService, journal |-> <<>>, updated |-> 0, reconciled |-> FALSE]

Init ==
    /\ arm \in Arms /\ context \in Contexts /\ defect \in Defects
    /\ pc = 1 /\ svc = Untouched /\ log = <<>> /\ reads = {} /\ ops = <<>> /\ w = NoWorker
    /\ rec = [times |-> [m \in Moments |-> 0], done |-> [m \in Controlled |-> 0],
              controls |-> [m \in Controlled |-> NoAction], points |-> <<>>,
              firstOps |-> <<>>, ackOp |-> NoOp]
    /\ samples = <<>> /\ verdict = "none" /\ authored = [name |-> "none", verdict |-> "none"]
    /\ harm = {} /\ slips = IF defect = "none" THEN MaxSlips ELSE 0

Step(name) == Timeline[pc] = name /\ pc' = pc + 1
Phase ==
    CASE Timeline[pc] \in {"post_ack", "r1", "r2", "r3", "first_stop"} -> "first"
      [] Timeline[pc] \in {"sample_late", "end"} -> "second"
      [] OTHER -> "none"

---------------------------------------------------------------------------
(* The controller. *)

Evidence ==
    [arm |-> arm, context |-> context, times |-> rec.times, done |-> rec.done, controls |-> rec.controls,
     samples |-> samples, points |-> rec.points, ops |-> ops, firstOps |-> rec.firstOps,
     ackOp |-> rec.ackOp, log |-> log, reads |-> reads]

Written(s, kind) == [Effect(s, kind) EXCEPT !.rv = s.rv + 1]
ChangeOf(s, kind, n) == [kind |-> kind, at |-> n, before |-> s, after |-> Written(s, kind)]
RequestOf(c) == [op |-> 0, kind |-> c.kind, code |-> 200, state |-> c.after]

\* wait_until may return late; the moment recorded is the real one.
Moment(m, late) == Offset[m] + (IF late THEN Lateness + 1 ELSE 0)
Slip(late) == slips >= (IF late THEN 1 ELSE 0) /\ slips' = slips - (IF late THEN 1 ELSE 0)

\* change: read the Service, send one conditional request, record both.
Change(m, kind, late) ==
    LET c == ChangeOf(svc, kind, Len(log)) IN
    /\ reads' = reads \cup {Read(svc, Len(log))} /\ svc' = c.after /\ log' = Append(log, RequestOf(c))
    /\ rec' = [rec EXCEPT !.controls[m] = c, !.times[m] = Moment(m, late), !.done[m] = Moment(m, late)]

Fixture ==
    /\ Step("fixture")
    /\ \E late \in BOOLEAN : Slip(late) /\ Change("fixture", "fixture", late)
    /\ UNCHANGED <<case, ops, w, samples, verdict, authored, harm>>

StopInitial ==
    /\ Step("stop")
    /\ \E late \in BOOLEAN : Slip(late) /\ rec' = [rec EXCEPT !.times["stop"] = Moment("stop", late)]
    /\ UNCHANGED <<case, svc, log, reads, ops, w, samples, verdict, authored, harm>>

Fault ==
    /\ Step("fault")
    /\ \E late \in BOOLEAN : Slip(late) /\ Change("fault", "fault", late)
    /\ UNCHANGED <<case, ops, w, samples, verdict, authored, harm>>

\* A sample of the customer path; its evidence may be damaged.
Sample ==
    /\ \E pair \in {<<"sample_fault", "fault">>, <<"r1", "r1">>, <<"r2", "r2">>, <<"r3", "r3">>,
                    <<"sample_refault", "refault">>, <<"sample_late", "late">>} :
        /\ Step(pair[1])
        /\ \E damaged \in BOOLEAN :
            /\ Slip(damaged)
            /\ samples' = Append(samples, [slot |-> pair[2], good |-> svc.port = "ok", whole |-> ~damaged])
    /\ UNCHANGED <<case, svc, log, reads, ops, w, rec, verdict, authored, harm>>

Unresolved(o) == o.status \in {"prepared", "dispatching", "uncertain"}
\* reconcile_pending: record the present, never replay.
Reconciled(o) ==
    IF Unresolved(o)
    THEN [o EXCEPT !.reconciled = TRUE, !.updated = Len(log),
                   !.status = IF @ = "dispatching" THEN "uncertain" ELSE @,
                   !.journal = Append(@, [event |-> "reconciled", at |-> Len(log)])]
    ELSE o

\* response: a new operator, which first looks for unresolved operations.
StartOperator(phase) ==
    /\ Step(phase)
    /\ \E late \in BOOLEAN : Slip(late) /\ rec' = [rec EXCEPT !.times[phase] = Moment(phase, late)]
    /\ ops' = [i \in DOMAIN ops |-> Reconciled(ops[i])]
    /\ w' = [Idle EXCEPT !.at = IF \E o \in Range(ops) : Unresolved(o) THEN "exited" ELSE @]
    /\ UNCHANGED <<case, svc, log, reads, samples, verdict, authored, harm>>

\* Is this barrier the one at which the declared changes are made?
Conflicting(stage) ==
    LET x == Context[context] IN
    x.phase = Phase /\ x.stage = stage
        /\ w.op = FirstIntent([points |-> Append(rec.points, [phase |-> Phase, stage |-> stage, op |-> w.op])], Phase)

\* One barrier: record it, make the changes, read again, let go.
Barrier ==
    /\ Phase # "none" /\ w.at \in {"intent", "preflight"}
    /\ LET kinds == IF Conflicting(w.at) THEN Context[context].changes ELSE <<>>
           states[i \in 0 .. Len(kinds)] ==
                IF i = 0 THEN svc ELSE Written(states[i-1], kinds[i])
           changes == [i \in 1 .. Len(kinds) |-> ChangeOf(states[i-1], kinds[i], Len(log) + i - 1)]
       IN /\ svc' = states[Len(kinds)]
          /\ reads' = reads \cup {Read(states[i], Len(log) + i) : i \in 0 .. Len(kinds)}
          /\ log' = log \o [i \in 1 .. Len(kinds) |-> RequestOf(changes[i])]
          /\ rec' = [rec EXCEPT !.points = Append(@,
                [phase |-> Phase, stage |-> w.at, op |-> w.op, at |-> Len(log), lower |-> Len(log),
                 before |-> svc, snapshot |-> ops[w.op].snapshot, changes |-> changes,
                 after |-> states[Len(kinds)], released |-> Len(log) + Len(kinds)])]
    /\ w' = [w EXCEPT !.at = IF @ = "intent" THEN "allowed" ELSE "released"]
    /\ UNCHANGED <<case, pc, ops, samples, verdict, authored, harm, slips>>

\* The change after an acknowledged repair needs one, and nothing in flight.
RepairDone ==
    /\ Cardinality({i \in DOMAIN ops : ops[i].status = "acknowledged"}) = 1
    /\ \A o \in Range(ops) : o.status \in {"acknowledged", "rejected"}

PostAckChange ==
    /\ Step("post_ack") /\ PostAck(context) /\ RepairDone
    /\ \E late \in BOOLEAN : LET c == ChangeOf(svc, "tick-1", Len(log)) IN
        /\ Slip(late) /\ reads' = reads \cup {Read(svc, Len(log))}
        /\ svc' = c.after /\ log' = Append(log, RequestOf(c))
        /\ rec' = [rec EXCEPT !.controls["post_ack"] = c, !.times["post_ack"] = Moment("post_ack", late),
                              !.done["post_ack"] = Moment("post_ack", late),
                              !.ackOp = CHOOSE o \in {Row(x) : x \in Range(ops)} : o.status = "acknowledged"]
    /\ UNCHANGED <<case, ops, w, samples, verdict, authored, harm>>

\* require fails inside run_case: the case is over, as failed.
PostAckRefused ==
    /\ Timeline[pc] = "post_ack" /\ PostAck(context) /\ ~RepairDone
    /\ pc' = Len(Timeline) /\ verdict' = "failed" /\ w' = NoWorker
    /\ UNCHANGED <<case, svc, log, reads, ops, rec, samples, authored, harm, slips>>

NoPostAck ==
    /\ Step("post_ack") /\ ~PostAck(context)
    /\ UNCHANGED <<case, svc, log, reads, ops, w, rec, samples, verdict, authored, harm, slips>>

\* stop_and_reap: wherever the operator is, held at a barrier included.
StopFirst ==
    /\ Step("first_stop") /\ w' = NoWorker
    /\ \E late \in BOOLEAN :
        Slip(late) /\ rec' = [rec EXCEPT !.times["first_stop"] = Moment("first_stop", late), !.firstOps = FirstRows(Evidence)]
    /\ UNCHANGED <<case, svc, log, reads, ops, samples, verdict, authored, harm>>

\* recovered_before_recurrence, of the samples retained so far.
Earned == Recurrent(context) /\ Recovered([samples |-> samples])

Decide ==
    /\ Step("decide")
    /\ IF Earned
       THEN \E late \in BOOLEAN : Slip(late) /\ Change("second_fault", "second_fault", late)
       ELSE UNCHANGED <<svc, log, reads, rec, slips>>
    /\ UNCHANGED <<case, ops, w, samples, verdict, authored, harm>>

MakeEarlyChange ==
    /\ Step("early_change")
    /\ IF EarlyChange(context) /\ rec.times["second_fault"] > 0
       THEN \E late \in BOOLEAN : Slip(late) /\ Change("early_change", "annotation", late)
       ELSE UNCHANGED <<svc, log, reads, rec, slips>>
    /\ UNCHANGED <<case, ops, w, samples, verdict, authored, harm>>

End ==
    /\ Step("end") /\ w' = NoWorker
    /\ UNCHANGED <<case, svc, log, reads, ops, rec, samples, verdict, authored, harm, slips>>

---------------------------------------------------------------------------
(* The operator and its broker. *)

Event(name) == [event |-> name, at |-> Len(log)]
Spent == Cardinality({i \in DOMAIN ops : ops[i].spent = 1})
\* This operation now, with an event and other fields of its row.
Update(status, reason, spent, names) ==
    [ops EXCEPT ![w.op].status = status, ![w.op].reason = reason, ![w.op].spent = spent,
                ![w.op].updated = Len(log),
                ![w.op].journal = @ \o [i \in DOMAIN names |-> Event(names[i])]]

\* An episode that observes the fault proposes: prepared, or out of budget.
Propose ==
    /\ Phase # "none" /\ w.at = "idle" /\ svc.port = "bad" /\ Len(ops) < MaxOps
    /\ LET full == Spent >= Budget /\ defect # "unbudgeted"
           row == [NoOp EXCEPT !.phase = Phase, !.basis = svc.rv, !.contract = arm, !.updated = Len(log),
                        !.status = IF full THEN "rejected" ELSE "prepared",
                        !.reason = IF full THEN "budget_exhausted" ELSE "none",
                        !.spent = IF full THEN 0 ELSE 1,
                        !.journal = <<Event(IF full THEN "rejected" ELSE "prepared")>>]
       IN /\ ops' = Append(ops, row)
          /\ w' = IF full THEN w ELSE [at |-> "intent", op |-> Len(ops) + 1, guard |-> svc.guard]
    /\ UNCHANGED <<case, pc, svc, log, reads, rec, samples, verdict, authored, harm, slips>>

\* Let go of at the intent barrier, it reads the Service again.
Preflight ==
    /\ w.at = "allowed" /\ reads' = reads \cup {Read(svc, Len(log))}
    /\ IF svc.rv # ops[w.op].basis
       THEN /\ ops' = Update("rejected", "resource_version_changed", 0, <<"rejected", "budget_released">>)
            /\ w' = Idle
       ELSE /\ ops' = (IF arm = "precise"
                       THEN [Update("prepared", "none", 1, <<"conditions_recorded">>)
                                EXCEPT ![w.op].snapshot = svc]
                       ELSE ops)
            /\ w' = [w EXCEPT !.at = "preflight"]
    /\ UNCHANGED <<case, pc, svc, log, rec, samples, verdict, authored, harm, slips>>

Claim ==
    /\ w.at = "released"
    /\ ops' = IF defect = "unclaimed" THEN ops ELSE Update("dispatching", "none", 1, <<"dispatching">>)
    /\ w' = [w EXCEPT !.at = "claimed"]
    /\ UNCHANGED <<case, pc, svc, log, reads, rec, samples, verdict, authored, harm, slips>>

\* Bug: once recorded, the conditions are not tested again.
PreciseUntested(o) == o.snapshot.guard # "none"
\* The guards of the two patches: the whole version, or all but the heartbeat.
PreciseHolds(o) == svc.guard = o.snapshot.guard
Untampered(o) == IF arm = "precise" THEN PreciseHolds(o) ELSE svc.rv = o.basis
PatchApplies(o) == svc.port = "bad" /\ (Untampered(o) \/ defect = "unconditional")

\* The API server answers; the claim comes late in a broker that has that defect.
Send ==
    /\ w.at = "claimed"
    /\ LET o == ops[w.op]  ok == PatchApplies(o)
           made == Written(svc, "repair")
           new == IF ~ok THEN svc ELSE IF defect = "overreaches" THEN [made EXCEPT !.guard = "plain"] ELSE made
       IN /\ svc' = new
          /\ log' = Append(log, [op |-> w.op, kind |-> "repair", code |-> IF ok THEN 200 ELSE 409, state |-> new])
          /\ harm' = harm
                \cup (IF ok /\ svc.guard # w.guard THEN {"overwrote"} ELSE {})
                \cup (IF ok /\ new.guard # svc.guard THEN {"overreached"} ELSE {})
                \cup (IF \E a \in Range(log) : a.op = w.op THEN {"replayed"} ELSE {})
                \cup (IF Cardinality({n \in DOMAIN log : log[n].op > 0}) >= Budget THEN {"overspent"} ELSE {})
                \cup (IF o.status # "dispatching" THEN {"unclaimed"} ELSE {})
    /\ w' = [w EXCEPT !.at = "answered"]
    /\ UNCHANGED <<case, pc, reads, ops, rec, samples, verdict, authored, slips>>

\* The answer reaches the journal.
Settle ==
    /\ w.at = "answered"
    /\ LET ok == Last(log).code = 200
           status == IF ok THEN "acknowledged" ELSE "rejected"
       IN ops' = Update(status, IF ok THEN "api_acknowledged" ELSE "api_rejected", 1,
                        IF defect = "unclaimed" THEN <<"dispatching", status>> ELSE <<status>>)
    /\ w' = IF defect = "replays" /\ Len(Sent(Evidence, w.op)) < 2
            THEN [w EXCEPT !.at = "claimed"] ELSE Idle
    /\ UNCHANGED <<case, pc, svc, log, reads, rec, samples, verdict, authored, harm, slips>>

---------------------------------------------------------------------------
(* The audit, and its negative controls. *)

Judge ==
    /\ Step("judge") /\ verdict' = Verdict(Evidence)
    /\ UNCHANGED <<case, svc, log, reads, ops, w, rec, samples, authored, harm, slips>>

\* Does the evidence hold what this corruption changes?
Applicable(name) ==
    /\ \E o \in Range(ops) : o.status = "acknowledged"
    /\ name \in OfRecurrence => rec.times["second_fault"] > 0
    /\ name \in OfIntermediates \cup OfFinalSlot \cup {"wrong_barrier_phase"} => Changed(Evidence) # <<>>

Challenge ==
    /\ Timeline[pc] = "over" /\ verdict = "accepted" /\ authored.name = "none"
    /\ \E name \in Challenges(arm, context) :
        /\ Applicable(name)
        /\ authored' = [name |-> name, verdict |-> Verdict(Corrupt(Evidence, name))]
    /\ UNCHANGED <<case, pc, svc, log, reads, ops, w, rec, samples, verdict, harm, slips>>

\* The run is over; nothing moves.
Over == Timeline[pc] = "over" /\ UNCHANGED vars

Controller ==
    \/ Fixture \/ StopInitial \/ Fault \/ Sample \/ StartOperator("first") \/ StartOperator("second")
    \/ Barrier \/ PostAckChange \/ PostAckRefused \/ NoPostAck \/ StopFirst \/ Decide \/ MakeEarlyChange
    \/ End \/ Judge \/ Challenge
Operator == Propose \/ Preflight \/ Claim \/ Send \/ Settle

Next == Controller \/ Operator \/ Over
---------------------------------------------------------------------------
(* Properties. *)

Services == [port : {"ok", "bad", "none"}, beat : {"none", "initial", "tick-1", "tick-2"},
             guard : {"none", "plain", "enabled", "changed"}, rv : Nat]

TypeOK ==
    /\ pc \in DOMAIN Timeline /\ svc \in Services /\ slips \in 0 .. MaxSlips
    /\ Len(ops) <= MaxOps /\ Len(rec.points) <= 2 * MaxOps
    /\ w.at \in {"none", "exited", "idle", "intent", "allowed", "preflight", "released", "claimed", "answered"}
    /\ (w.op > 0) = (w.at \notin {"none", "exited", "idle"}) /\ w.op \in 0 .. Len(ops)
    /\ Phase = "none" => w.at \in {"none", "exited", "idle"}
    /\ authored.name \in {"none"} \cup DOMAIN Expected

\* A broker that keeps its contract never repairs over a change of what the
\* contract protects, never sends an operation twice, unclaimed or beyond the
\* budget - whatever the controller changes at its barriers and whenever it
\* is stopped.
NoHarm == harm = {}

\* The precise contract does what it was made for: a request of its is
\* refused only when something it protects was changed at its own barrier.
HeartbeatsDoNotBlock ==
    arm = "precise" =>
        \A i \in DOMAIN ops : ops[i].reason = "api_rejected" =>
            \E p \in Range(rec.points) : p.op = i /\ \E c \in Range(p.changes) : c.kind = "annotation"

\* The second fault is set only on a Service that three samples in a row
\* found recovered, and never twice.
SecondFaultIsEarned ==
    rec.times["second_fault"] > 0 =>
        /\ \A slot \in Recovery : \E s \in Range(samples) : s.slot = slot /\ s.good
        /\ rec.controls["second_fault"].before.port = "ok"
        /\ Cardinality({n \in DOMAIN log : log[n].kind = "second_fault"}) = 1

\* The audit has no false alarm: a case on schedule whose evidence is whole,
\* whose operations all settled (and, for the final slot, whose first worker
\* left one dispatch, and whose second fault was earned where a change must
\* follow it) is accepted, however barriers, changes and stops fell.
HonestCaseIsAccepted ==
    /\ verdict # "none" /\ verdict # "failed" /\ defect = "none" /\ slips = MaxSlips
    /\ \A o \in Range(ops) : o.status \in {"acknowledged", "rejected"} /\ ~o.reconciled
    /\ OneSlotLeft(Evidence) /\ (EarlyChange(context) => rec.times["second_fault"] > 0)
    => verdict = "accepted"

\* The audit misses nothing: when it accepts, the broker did no harm.
AcceptedMeansConformant == verdict = "accepted" => harm = {}

\* Each authored corruption is refused, and for its own reason.
CorruptionsAreRefused == authored.name # "none" => authored.verdict = Expected[authored.name]
\* What an honest case is, and what the audit says of it.
HonestIsSound ==
    TypeOK /\ NoHarm /\ HeartbeatsDoNotBlock /\ SecondFaultIsEarned /\ HonestCaseIsAccepted
=============================================================================
