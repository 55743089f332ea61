--------------------------- MODULE IncidentAudit ---------------------------
(***************************************************************************)
(* The offline judgement of one single-incident gate (conflict, refresh,   *)
(* ambiguity, program_lifecycle): what the controller recorded, what the   *)
(* journal, the admission ledger and the API server's log say, and what    *)
(* the customer samples saw, judged check by check.  Every time is read    *)
(* from one clock; 0 is never.                                             *)
(***************************************************************************)
EXTENDS Naturals, Sequences, FiniteSets, FiniteSetsExt, SequencesExt

\* A declared study: how each of its operations must end, whether the
\* operator runs a frozen program, whether that program is admitted (and the
\* admission withdrawn), whether the Service changes while no operator runs.
Declared(ends, programmed, admitted, withdrawn, external) ==
    [ends |-> ends, programmed |-> programmed, admitted |-> admitted,
     withdrawn |-> withdrawn, external |-> external]

Study == [
    conflict           |-> Declared(<<"rejected">>, FALSE, FALSE, FALSE, FALSE),
    refresh_stable     |-> Declared(<<"rejected", "acknowledged">>, FALSE, FALSE, FALSE, FALSE),
    refresh_continuing |-> Declared(<<"rejected", "rejected">>, TRUE, FALSE, FALSE, FALSE),
    refresh_uncertain  |-> Declared(<<"uncertain">>, TRUE, FALSE, FALSE, TRUE),
    unchanged          |-> Declared(<<"uncertain">>, FALSE, FALSE, FALSE, FALSE),
    external_change    |-> Declared(<<"uncertain">>, FALSE, FALSE, FALSE, TRUE),
    stable             |-> Declared(<<"rejected", "acknowledged">>, TRUE, TRUE, FALSE, FALSE),
    before_first       |-> Declared(<<"refused">>, TRUE, TRUE, TRUE, FALSE),
    between_attempts   |-> Declared(<<"rejected", "refused">>, TRUE, TRUE, TRUE, FALSE),
    uncertain          |-> Declared(<<"uncertain">>, TRUE, TRUE, TRUE, FALSE)]

Cut(s) == Study[s].ends = <<"uncertain">>
Ends(s, i) == IF i \in DOMAIN Study[s].ends THEN Study[s].ends[i] ELSE "none"
Refreshes(s) == Len(Study[s].ends) = 2 \/ (Study[s].programmed /\ ~Cut(s))
Recovers(s) == Last(Study[s].ends) = "acknowledged"
Refusals(s) == Last(Study[s].ends) = "refused"
Budget == 2
OpTag == <<"op1", "op2", "op3">>
BumpTag == <<"bump1", "bump2", "bump3">>
Slots(s) == {"healthy", "faulted", "repairing", "late"} \cup (IF Cut(s) THEN {"down"} ELSE {})

NoAction == [asked |-> 0, done |-> 0, port |-> "none", rv |-> 0]
NoObservation == [port |-> "none", rv |-> 0, at |-> 0]
JournalOf(end) ==
    CASE end = "refused" -> <<"prepared", "rejected", "budget_released">>
      [] end = "uncertain" -> <<"prepared", "dispatching", "reconciled">>
      [] OTHER -> <<"prepared", "dispatching", end>>
Diagnosis == <<"observe_service", "probe_backend", "probe_application", "propose_repair">>
ToolsOf(s) ==
    FlattenSeq([i \in DOMAIN Study[s].ends |-> Diagnosis])
        \o (IF Recovers(s) THEN <<"verify_recovery">> ELSE <<>>) \o <<"finish">>

---------------------------------------------------------------------------
(* Parts of the evidence e. *)

NonDecreasing(times) == \A i \in 2 .. Len(times) : times[i-1] <= times[i]
Known(times) == \A i \in DOMAIN times : times[i] > 0
Ordered(times) == Known(times) /\ NonDecreasing(times)
Matching(e, tag) == SelectSeq(e.log, LAMBDA a : a.tag = tag)
History(e, i) == SelectSeq(e.journal, LAMBDA j : j.op = i)
Spent(e) == Cardinality({i \in DOMAIN e.ops : e.ops[i].spent = 1})
Sample(e, slot) == {s \in Range(e.samples) : s.slot = slot}

Calendar(e) == \A slot \in Slots(e.study) : \E s \in Sample(e, slot) : s.known
FailureEstablished(e) ==
    \E s \in Sample(e, "faulted") :
        ~s.good /\ e.fault.done <= s.at /\ s.at <= e.times["repair_asked"]
Schedule(e) ==
    /\ e.late = {}
    /\ Ordered(<<e.times["stop_asked"], e.times["stopped"], e.fault.asked, e.fault.done,
                 e.times["repair_asked"], e.times["ready"]>>)
\* The initial operator was healthy, and at most one attempt of it is open.
InitiallyHealthy(e) ==
    LET initial == {x \in e.episodes : x.worker = "initial"}
        completed == {x \in initial : x.outcome # "none"}
    IN /\ completed # {} /\ Cardinality(initial \ completed) <= 1
       /\ \A x \in completed : x.outcome = "healthy" /\ x.finished <= e.times["stopped"]
       /\ \A x \in completed, y \in initial \ completed :
            x.finished <= y.started /\ y.started <= e.times["stopped"]

---------------------------------------------------------------------------
(* Operations held at their barriers (conflict, refresh, assess_refused).  *)

\* What the request was based on is what the API last answered.
Previous(e, i) == IF i = 1 THEN e.fault ELSE e.attempts[i-1].change
Scoped(e, i) ==
    /\ e.ops[i].basis = e.attempts[i].before.rv /\ e.attempts[i].before.port = "bad"
    /\ e.attempts[i].before.rv = Previous(e, i).rv /\ Previous(e, i).port = "bad"
\* At the barrier it was prepared and not yet owned, its predecessors spent.
PreparedAndReleased(e, i) ==
    LET prior == e.attempts[i].rows IN
    /\ e.attempts[i].op = i /\ Len(prior) = i
    /\ prior[i].status = "prepared" /\ prior[i].spent = 1 /\ ~prior[i].owned
    /\ prior[i].basis = e.ops[i].basis
    /\ \A k \in 1 .. i-1 : prior[k].status = "rejected" /\ prior[k].spent = 1
\* One version bump, made after the preparation and before the release.
BumpedInTime(e, i) ==
    LET a == e.attempts[i]  found == Matching(e, BumpTag[i]) IN
    IF Ends(e.study, i) # "rejected" THEN a.change = NoAction /\ found = <<>>
    ELSE /\ Len(found) = 1 /\ found[1].code = 200 /\ found[1].basis = a.before.rv
         /\ found[1].port = a.before.port /\ found[1].rv = a.change.rv /\ a.change.rv # a.before.rv
         /\ Ordered(<<a.at, a.change.asked, found[1].at, a.change.done, a.released>>)
\* One request, conditional on the version it was prepared for, with the
\* answer it must have had.
Answered(e, i) ==
    LET found == Matching(e, OpTag[i])  end == Ends(e.study, i) IN
    IF end = "refused" THEN found = <<>>
    ELSE Len(found) = 1 /\ found[1].basis = e.ops[i].basis
         /\ found[1].code = (IF end = "rejected" THEN 409 ELSE 200)
Terminal(e, i) ==
    LET o == e.ops[i]  end == Ends(e.study, i)  found == Matching(e, OpTag[i]) IN
    /\ ~o.reconciled /\ o.owned
    /\ o.spent = (IF end = "refused" THEN 0 ELSE 1)
    /\ o.status = (IF end = "acknowledged" THEN "acknowledged" ELSE "rejected")
    /\ o.reason = (CASE end = "refused" -> "dispatch_authorization_refused"
                     [] end = "rejected" -> "api_rejected" [] OTHER -> "api_acknowledged")
    /\ o.result = (IF end = "acknowledged" /\ Len(found) = 1 THEN found[1].rv ELSE 0)
    /\ end = "acknowledged" => (\A k \in DOMAIN found : found[k].port = "ok" /\ found[k].rv # o.basis)
Transitions(e) ==
    /\ Len(e.journal) = 3 * Len(e.ops)
    /\ \A i \in DOMAIN e.ops :
        [k \in DOMAIN History(e, i) |-> History(e, i)[k].event] = JournalOf(Ends(e.study, i))
\* Prepared, held, released, then claimed, sent, answered and told.
Causal(e, i) ==
    LET a == e.attempts[i]  h == History(e, i)  found == Matching(e, OpTag[i]) IN
    /\ Ordered(<<e.ops[i].created, a.at, a.readAt, a.released>>)
    /\ Len(h) = 3
    /\ IF Ends(e.study, i) = "refused"
       THEN Ordered(<<a.at, e.withdrawal.asked, e.withdrawal.done, a.released,
                      e.ops[i].updated, h[2].at, h[3].at>>)
       ELSE Len(found) = 1 /\ Ordered(<<a.released, h[2].at, found[1].at, e.ops[i].updated, h[3].at>>)

ExactWrites(e) ==
    /\ \A n \in DOMAIN e.log :
        e.log[n].tag \in {"fault"} \cup {OpTag[i] : i \in DOMAIN Study[e.study].ends}
            \cup {BumpTag[i] : i \in DOMAIN Study[e.study].ends}
    /\ Len(Matching(e, "fault")) = 1 /\ Matching(e, "fault")[1].rv = e.fault.rv
\* The second attempt rests on a diagnosis made after the first one failed.
FreshDiagnosis(e) ==
    /\ [i \in DOMAIN e.tools |-> e.tools[i].source] = ToolsOf(e.study)
    /\ Len(Study[e.study].ends) = 2 =>
        /\ e.ops[2].basis # e.ops[1].basis
        /\ Ordered(<<e.ops[1].updated, e.tools[4].at, e.tools[5].at, e.tools[6].at, e.tools[7].at,
                     e.ops[2].created>>)
        /\ e.tools[5].rv = e.ops[2].basis /\ e.tools[5].port = "bad"
\* What the operator was told is what the journal says.
Told(e) ==
    \A i \in DOMAIN e.ops :
        LET t == e.tools[4 * i] IN
        /\ t.op = i /\ t.status = e.ops[i].status /\ t.reason = e.ops[i].reason
        /\ Last(History(e, i)).at <= t.at
BoundedTerminal(e) ==
    \A x \in e.episodes : x.id = "repair" =>
        /\ x.outcome = (IF Recovers(e.study) THEN "resolved" ELSE "escalated")
        /\ Ordered(<<Last(e.tools).at, x.finished>>) /\ ~e.failed
\* An escalation ends the operator; after a recovery it stays healthy.
AfterTheIncident(e) ==
    LET later == {x \in e.episodes : x.worker = "repair" /\ x.id # "repair"} IN
    IF Recovers(e.study) THEN \A x \in later : x.outcome \in {"none", "healthy"} ELSE later = {}
CustomerOutcome(e) ==
    /\ \A s \in Sample(e, "late") : s.good = Recovers(e.study)
    /\ ~Recovers(e.study) => \A s \in Range(e.samples) : s.good = (s.at < e.fault.asked)
\* The controller's last read is the last state the API answered with.
FinalRead(e) ==
    LET last == IF Recovers(e.study) THEN [rv |-> Last(e.ops).result, port |-> "ok"]
                ELSE LET n == Len(e.attempts) IN
                     IF Refusals(e.study) THEN [rv |-> Previous(e, n).rv, port |-> "bad"]
                     ELSE [rv |-> e.attempts[n].change.rv, port |-> "bad"]
    IN /\ e.after.rv = last.rv /\ e.after.port = last.port
       /\ \A x \in e.episodes : x.id = "repair" => x.finished <= e.after.asked

---------------------------------------------------------------------------
(* An effect cut from its acknowledgement (ambiguity).                      *)

Op(e) == e.ops[1]
\* The broker's writes the API applied: a refused one is not counted here.
Request(e) == SelectSeq(Matching(e, "op1"), LAMBDA a : a.code = 200)
ChangesAttributed(e) ==
    /\ Len(Matching(e, "fault")) = 1 /\ e.fault.asked <= Matching(e, "fault")[1].at
    /\ Matching(e, "fault")[1].at <= e.fault.done
    /\ Study[e.study].external =>
        /\ Len(Matching(e, "external")) = 1 /\ e.external.asked <= Matching(e, "external")[1].at
        /\ Matching(e, "external")[1].at <= e.external.done
WriteBeforeBarrier(e) ==
    Len(Request(e)) = 1 /\ Ordered(<<e.times["ready"], Op(e).created, Request(e)[1].at, e.barrier.at>>)
DispatchUnacknowledged(e) ==
    /\ Len(e.beforeKill) = 1 /\ e.barrier.op = 1
    /\ e.beforeKill[1].status = "dispatching" /\ e.beforeKill[1].spent = 1 /\ e.beforeKill[1].owned
    /\ e.beforeKill[1].result = 0 /\ ~e.beforeKill[1].reconciled
    /\ Op(e).status = "uncertain" /\ Op(e).result = 0 /\ Op(e).spent = 1
\* Nothing of the journal hides an acknowledgement or a second request.
NoReplay(e) ==
    [k \in DOMAIN e.journal |-> e.journal[k].event] = JournalOf("uncertain")
        /\ \A k \in DOMAIN e.journal : e.journal[k].op = 1
InterruptedUncommitted(e) ==
    \A x \in e.episodes : x.worker = "repair" => x.id = "repair" /\ x.outcome = "none"
RestartEscalates(e) ==
    /\ e.resumed.unresolved = {1}
    /\ ~\E x \in e.episodes : x.worker = "resumed"
    /\ Op(e).reconciled
    /\ Ordered(<<e.times["resumed_ready"], Op(e).observed.at, e.times["resumed_done"]>>)
    /\ Op(e).observed.port = (IF Study[e.study].external THEN "moved" ELSE "ok")
    /\ Op(e).observed.rv =
        (IF Study[e.study].external THEN e.external.rv
         ELSE IF Request(e) = <<>> THEN 0 ELSE Request(e)[1].rv)
CutSchedule(e) ==
    /\ e.late = {}
    /\ Ordered(<<e.times["stop_asked"], e.times["stopped"], e.fault.asked>>)
    /\ Ordered(<<e.times["ready"], e.barrier.at, e.times["kill_asked"], e.times["repair_stopped"],
                 e.times["restart_asked"], e.times["resumed_ready"]>>)
    /\ Study[e.study].external =>
        Ordered(<<e.times["repair_stopped"], e.external.asked, e.external.done, e.times["restart_asked"]>>)
OnlyDeclaredWrites(e) ==
    /\ Cardinality({n \in DOMAIN e.log : e.log[n].code = 200}) = (IF Study[e.study].external THEN 3 ELSE 2)
    /\ \A n \in DOMAIN e.log : e.log[n].code = 200 => e.log[n].tag \in {"fault", "external", "op1"}
DowntimeObserved(e) ==
    LET healthy(s) == s.good = ~Study[e.study].external IN
    /\ \A s \in Sample(e, "down") :
        /\ healthy(s) /\ e.times["repair_stopped"] <= s.at /\ s.at <= e.times["restart_asked"]
    /\ \A s \in Sample(e, "late") : healthy(s) /\ e.times["resumed_ready"] <= s.at
    /\ \A s \in Sample(e, "healthy") : s.good
\* The refresh gate counts attempts, refused ones included.
ExactAttempts(e) == e.study = "refresh_uncertain" => Len(e.log) = 3
WithdrawnBeforeKill(e) ==
    Study[e.study].withdrawn =>
        Ordered(<<e.barrier.at, e.withdrawal.asked, e.withdrawal.done, e.times["kill_asked"]>>)

---------------------------------------------------------------------------
(* Admission and bindings of a program (program_lifecycle, procedure).     *)

Refused(e) == {i \in DOMAIN e.ops : e.ops[i].reason = "dispatch_authorization_refused"}
Pinned(e) == {x \in e.episodes : x.procedure > 0}
LedgerDecisions(e) ==
    /\ e.adm.decisions = <<"promoted">> \o (IF Study[e.study].withdrawn THEN <<"withdrawn">> ELSE <<>>)
    /\ e.adm.active = ~Study[e.study].withdrawn
\* The pins of the ledger are those of the executed episodes; an episode
\* without its record made no claim and owns no operation.
PinsAreEpisodes(e) ==
    /\ Pinned(e) # {} /\ e.adm.pins = {x.id : x \in Pinned(e)}
    /\ \A x \in Pinned(e) :
        /\ x.started <= x.procedure /\ (x.evidence > 0 => x.procedure <= x.evidence)
        /\ Study[e.study].withdrawn => x.procedure <= e.withdrawal.asked
    /\ \A x \in e.episodes \ Pinned(e) : x.evidence = 0 /\ x.outcome = "none"
\* Each authorization is of one operation, before its claim, under revision 1.
AuthorizedBeforeDispatch(e) ==
    /\ \A k, l \in DOMAIN e.adm.auths : e.adm.auths[k].op = e.adm.auths[l].op => k = l
    /\ \A a \in Range(e.adm.auths) :
        /\ a.op \in DOMAIN e.ops /\ a.revision = 1
        /\ \E x \in Pinned(e) : x.id = a.episode /\ x.procedure <= e.ops[a.op].created
        /\ LET claims == SelectSeq(History(e, a.op), LAMBDA j : j.event = "dispatching") IN
            Len(claims) = 1 /\ Ordered(<<e.ops[a.op].created, a.at, claims[1].at>>)
        /\ Study[e.study].withdrawn => a.at <= e.withdrawal.done
\* Bug: what was authorized is known, but not that everything sent was.
AuthorizationsAreKnown(e) ==
    {a.op : a \in Range(e.adm.auths)} \subseteq DOMAIN e.ops
EveryOperationAuthorized(e) ==
    {a.op : a \in Range(e.adm.auths)} = DOMAIN e.ops \ Refused(e)
RefusalsRetained(e) ==
    /\ Len(e.adm.refusals) = Cardinality(Refused(e))
    /\ \A i \in Refused(e) :
        /\ Study[e.study].withdrawn /\ e.ops[i].status = "rejected" /\ e.ops[i].spent = 0
        /\ e.ops[i].result = 0 /\ ~e.ops[i].reconciled
        /\ \E r \in Range(e.adm.refusals) :
            r.op = i /\ Ordered(<<e.withdrawal.done, r.at, e.ops[i].updated>>)
\* The conditions authorized are those of the one request that was sent.
ConditionsSent(e) ==
    \A a \in Range(e.adm.auths) :
        Len(Matching(e, OpTag[a.op])) = 1 /\ Matching(e, OpTag[a.op])[1].basis = a.basis
\* verify_bindings: the program was frozen before the episode's evidence, and
\* bound to each operation between its claim and its request.
BoundBeforeRequest(e) ==
    /\ \A x \in e.episodes :
        IF x.program = 0 THEN x.evidence = 0 /\ x.outcome = "none"
        ELSE x.started <= x.program /\ (x.evidence > 0 => x.program <= x.evidence)
    /\ {b.op : b \in e.bindings} = DOMAIN e.ops \ Refused(e)
    /\ \A b \in e.bindings :
        LET claims == SelectSeq(History(e, b.op), LAMBDA j : j.event = "dispatching")
            sent == Matching(e, OpTag[b.op])
        IN Len(claims) = 1 /\ Len(sent) = 1 /\ Ordered(<<claims[1].at, b.at, sent[1].at>>)

---------------------------------------------------------------------------
Check(holds, reason) == [holds |-> holds, reason |-> reason]
PerAttempt(e, Test(_, _), reason) == Check(\A i \in DOMAIN e.ops : Test(e, i), reason)

CommonChecks(e) == <<
    Check(e.closed, "closed"), Check(Calendar(e), "calendar"),
    Check(Len(e.ops) = Len(Study[e.study].ends)
            /\ (Cut(e.study) \/ Len(e.attempts) = Len(e.ops)), "operations"),
    Check(Spent(e) = Cardinality({i \in DOMAIN Study[e.study].ends : Ends(e.study, i) # "refused"}), "budget"),
    Check(FailureEstablished(e), "failure"),
    Check(Cut(e.study) \/ Refusals(e.study) \/ InitiallyHealthy(e), "initial")>>
\* Judged when there are as many attempts as declared.
HeldChecks(e) == <<
    PerAttempt(e, Scoped, "scope"), PerAttempt(e, PreparedAndReleased, "prepared"),
    Check(Transitions(e), "transitions"), PerAttempt(e, BumpedInTime, "bump"),
    PerAttempt(e, Answered, "request"), PerAttempt(e, Terminal, "terminal"),
    PerAttempt(e, Causal, "causal"), Check(ExactWrites(e), "writes"),
    Check(FreshDiagnosis(e), "diagnosis")>>
ClosingChecks(e) == <<
    Check(Told(e), "told"), Check(BoundedTerminal(e), "outcome"), Check(AfterTheIncident(e), "later"),
    Check(Schedule(e), "schedule"), Check(CustomerOutcome(e), "customer"), Check(FinalRead(e), "final_read")>>
CutChecks(e) == <<
    Check(ChangesAttributed(e), "attributed"), Check(WriteBeforeBarrier(e), "before_barrier"),
    Check(DispatchUnacknowledged(e), "acknowledged"), Check(NoReplay(e), "replay"),
    Check(InterruptedUncommitted(e), "committed"), Check(RestartEscalates(e), "restart"),
    Check(CutSchedule(e), "schedule"), Check(OnlyDeclaredWrites(e), "writes"),
    Check(DowntimeObserved(e), "downtime"), Check(ExactAttempts(e), "attempts"),
    Check(WithdrawnBeforeKill(e), "withdrawal")>>
AdmissionChecks(e) == <<
    Check(LedgerDecisions(e), "ledger"), Check(PinsAreEpisodes(e), "pins"),
    Check(AuthorizedBeforeDispatch(e), "authorization"),
    Check(EveryOperationAuthorized(e), "unauthorized"), Check(RefusalsRetained(e), "refusals"),
    Check(ConditionsSent(e), "conditions")>>

FirstFailure(checks) ==
    LET failed == SelectSeq(checks, LAMBDA c : ~c.holds)
    IN IF failed = <<>> THEN "passed" ELSE Head(failed).reason
\* The judgement of a stage is only made when those before it passed.
Verdict(e) ==
    LET common == FirstFailure(CommonChecks(e))
        base == IF common # "passed" THEN common
                ELSE IF Cut(e.study) THEN FirstFailure(CutChecks(e))
                ELSE LET held == FirstFailure(HeldChecks(e)) IN
                     IF held # "passed" THEN held ELSE FirstFailure(ClosingChecks(e))
        admitted == IF base = "passed" /\ Study[e.study].admitted
                    THEN FirstFailure(AdmissionChecks(e)) ELSE base
    IN IF admitted = "passed" /\ Study[e.study].programmed /\ ~BoundBeforeRequest(e)
       THEN "bindings" ELSE admitted

---------------------------------------------------------------------------
(* Evidence authored to be refused: what the repository's tests damage in   *)
(* evidence that passes, and what must be said of it.                       *)

Expected == [
    open_audit |-> "closed", unknown_sample |-> "calendar", missing_sample |-> "calendar",
    extra_operation |-> "operations", released_budget |-> "budget", unobserved_failure |-> "failure",
    false_ack |-> "terminal", missing_api |-> "request", extra_api |-> "request",
    extra_journal |-> "transitions", early_dispatch |-> "causal", old_version |-> "diagnosis",
    wrong_operation |-> "told", no_outcome |-> "outcome", late_outcome |-> "final_read",
    wrong_final_read |-> "final_read", failed_customer |-> "customer",
    late_withdrawal |-> "causal", spent_refused_budget |-> "budget",
    before_already_acknowledged |-> "acknowledged", hidden_acknowledgement |-> "replay",
    committed_interrupted_episode |-> "committed", resumed_new_episode |-> "restart",
    lost_escalation |-> "restart", wrong_current_version |-> "restart", late_kill |-> "schedule",
    late_api_response |-> "before_barrier", extra_controller_write |-> "writes",
    unexpected_health |-> "downtime",
    missing_auth |-> "unauthorized", duplicate_auth |-> "authorization", late_auth |-> "authorization",
    before_prepare |-> "authorization", post_withdrawal_revision |-> "authorization",
    active_after_withdrawal |-> "ledger", unpinned |-> "pins", late_pin |-> "pins",
    extra_refusal |-> "refusals", late_binding |-> "bindings"]

\* The damages that make sense of a study.
Challenges(s) ==
    {"open_audit", "unknown_sample", "missing_sample", "extra_operation", "released_budget",
     "unobserved_failure"}
    \cup (IF Cut(s) THEN {"before_already_acknowledged", "hidden_acknowledgement",
            "committed_interrupted_episode", "resumed_new_episode", "lost_escalation",
            "wrong_current_version", "late_kill", "late_api_response", "extra_controller_write",
            "unexpected_health"}
          ELSE {"extra_api", "extra_journal", "wrong_operation", "no_outcome", "late_outcome",
                "wrong_final_read", "failed_customer"})
    \cup (IF ~Cut(s) /\ ~Refusals(s) THEN {"missing_api", "early_dispatch"} ELSE {})
    \cup (IF Recovers(s) THEN {"false_ack"} ELSE {})
    \cup (IF Refusals(s) THEN {"late_withdrawal", "spent_refused_budget"} ELSE {})
    \cup (IF Len(Study[s].ends) = 2 THEN {"old_version"} ELSE {})
    \cup (IF Study[s].admitted THEN {"unpinned", "late_pin", "extra_refusal"} ELSE {})
    \cup (IF Study[s].admitted /\ Study[s].ends # <<"refused">>
          THEN {"missing_auth", "duplicate_auth", "late_auth", "before_prepare",
                "post_withdrawal_revision", "late_binding"} ELSE {})
    \cup (IF Study[s].withdrawn THEN {"active_after_withdrawal"} ELSE {})

AllEpisodes(e, id, Changed(_)) == {IF x.id = id THEN Changed(x) ELSE x : x \in e.episodes}
AllSamples(e, slot, good) ==
    [k \in DOMAIN e.samples |->
        IF e.samples[k].slot = slot THEN [e.samples[k] EXCEPT !.good = good] ELSE e.samples[k]]
CorruptAdmission(e, name) ==
    CASE name = "missing_auth" -> [e EXCEPT !.adm.auths = Tail(@)]
      [] name = "duplicate_auth" -> [e EXCEPT !.adm.auths = Append(@, @[1])]
      [] name = "late_auth" -> [e EXCEPT !.adm.auths[1].at = History(e, 1)[2].at + 1]
      [] name = "before_prepare" -> [e EXCEPT !.adm.auths[1].at = e.ops[1].created - 1]
      [] name = "post_withdrawal_revision" -> [e EXCEPT !.adm.auths[1].revision = 2]
      [] name = "active_after_withdrawal" -> [e EXCEPT !.adm.active = TRUE]
      [] name = "unpinned" -> [e EXCEPT !.adm.pins = @ \ {"repair"}]
      [] name = "late_pin" -> [e EXCEPT !.episodes =
            AllEpisodes(e, "repair", LAMBDA x : [x EXCEPT !.procedure = x.evidence + 1])]
      [] name = "extra_refusal" -> [e EXCEPT !.adm.refusals = Append(@, [op |-> 1, at |-> 1])]
      [] name = "late_binding" -> [e EXCEPT !.bindings =
            {IF b.op = 1 THEN [b EXCEPT !.at = Matching(e, "op1")[1].at + 1] ELSE b : b \in @}]
CorruptCut(e, name) ==
    CASE name = "before_already_acknowledged" -> [e EXCEPT !.beforeKill[1].status = "acknowledged"]
      [] name = "hidden_acknowledgement" ->
            [e EXCEPT !.journal = InsertAt(@, 3, [@[2] EXCEPT !.event = "acknowledged"])]
      [] name = "committed_interrupted_episode" -> [e EXCEPT !.episodes =
            AllEpisodes(e, "repair", LAMBDA x : [x EXCEPT !.outcome = "resolved"])]
      [] name = "resumed_new_episode" -> [e EXCEPT !.episodes = @ \cup
            {[x EXCEPT !.worker = "resumed", !.id = "new"] : x \in {y \in @ : y.id = "repair"}}]
      [] name = "lost_escalation" -> [e EXCEPT !.resumed.unresolved = {}]
      [] name = "wrong_current_version" -> [e EXCEPT !.ops[1].observed.rv = @ + 1]
      [] name = "late_kill" -> [e EXCEPT !.times["kill_asked"] = e.times["restart_asked"]]
      [] name = "late_api_response" -> [e EXCEPT !.log =
            [k \in DOMAIN @ |-> IF @[k].tag = "op1" THEN [@[k] EXCEPT !.at = e.barrier.at + 1] ELSE @[k]]]
      [] name = "extra_controller_write" -> [e EXCEPT !.log = Append(@, [@[1] EXCEPT !.tag = "other"])]
      [] name = "unexpected_health" -> [e EXCEPT !.samples = AllSamples(e, "late", Study[e.study].external)]
CorruptHeld(e, name) ==
    LET last == Len(e.ops) IN
    CASE name = "false_ack" -> [e EXCEPT !.ops[last].status = "uncertain"]
      [] name = "missing_api" -> [e EXCEPT !.log = SelectSeq(@, LAMBDA a : a.tag # OpTag[last])]
      [] name = "extra_api" -> [e EXCEPT !.log =
            Append(@, [@[1] EXCEPT !.tag = OpTag[last], !.code = 409, !.basis = e.ops[last].basis])]
      [] name = "extra_journal" -> [e EXCEPT !.journal = Append(@, Last(@))]
      [] name = "early_dispatch" -> [e EXCEPT !.journal[3 * last - 1].at = e.attempts[last].at]
      [] name = "late_withdrawal" -> [e EXCEPT !.withdrawal.done = e.attempts[last].released + 1]
      [] name = "spent_refused_budget" -> [e EXCEPT !.ops[last].spent = 1]
      [] name = "old_version" -> [e EXCEPT !.tools[5].rv = e.tools[1].rv]
      [] name = "wrong_operation" -> [e EXCEPT !.tools[4 * last].op = 0]
      [] name = "no_outcome" -> [e EXCEPT !.episodes =
            AllEpisodes(e, "repair", LAMBDA x : [x EXCEPT !.outcome = "none"])]
      [] name = "late_outcome" -> [e EXCEPT !.episodes =
            AllEpisodes(e, "repair", LAMBDA x : [x EXCEPT !.finished = e.after.asked + 1])]
      [] name = "wrong_final_read" -> [e EXCEPT !.after.port = "moved"]
      [] name = "failed_customer" -> [e EXCEPT !.samples = AllSamples(e, "late", ~Recovers(e.study))]
Corrupt(e, name) ==
    CASE name = "open_audit" -> [e EXCEPT !.closed = FALSE]
      [] name = "unknown_sample" -> [e EXCEPT !.samples[1].known = FALSE]
      [] name = "missing_sample" -> [e EXCEPT !.samples = Tail(@)]
      [] name = "extra_operation" -> [e EXCEPT !.ops = Append(@, @[1])]
      [] name = "released_budget" -> [e EXCEPT !.ops[1].spent = 1 - @]
      [] name = "unobserved_failure" -> [e EXCEPT !.samples = AllSamples(e, "faulted", TRUE)]
      [] name \in {"missing_auth", "duplicate_auth", "late_auth", "before_prepare",
                   "post_withdrawal_revision", "active_after_withdrawal", "unpinned", "late_pin",
                   "extra_refusal", "late_binding"} -> CorruptAdmission(e, name)
      [] OTHER -> IF Cut(e.study) THEN CorruptCut(e, name) ELSE CorruptHeld(e, name)
=============================================================================
