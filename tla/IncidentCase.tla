---------------------------- MODULE IncidentCase ----------------------------
(***************************************************************************)
(* One single-incident gate, live: a controller that stops the healthy     *)
(* operator, faults the Service, starts a new operator and then either     *)
(* holds each of its operations at the preflight barrier (to bump the      *)
(* version, to withdraw the program) or lets the request take effect,      *)
(* kills the operator before the acknowledgement and starts another.  An   *)
(* observer samples on its own; at the end the evidence is judged          *)
(* (IncidentAudit).  A defect of the broker may be chosen, for what the    *)
(* judgement must notice, and one thing may go wrong around it.            *)
(***************************************************************************)
EXTENDS IncidentAudit

CONSTANTS
    Studies,    \* the declared studies of this instance
    Defects,    \* what may be wrong with the broker; "none" for honest runs
    MaxSlips    \* bound: what fails under an honest broker: steps, samples, cleanups, operators

IncidentAssumption ==
    /\ Studies \subseteq DOMAIN Study /\ MaxSlips \in Nat
    /\ Defects \subseteq {"none", "unheeding", "unauthorised", "keeps", "stale", "unconditional",
                          "replays", "acknowledges", "misreports"}

VARIABLES
    study, defect,
    pc,        \* the controller's next step
    now,       \* the clock
    svc,       \* the Service: port and resource version
    log,       \* the API server's audit log of writes
    ops,       \* the broker's rows
    journal,   \* and its events
    adm,       \* the admission ledger
    w,         \* the running operator: where it is, what it last observed
    files,     \* what operators wrote: episodes, bindings, tools, the hook's barrier, escalation
    rec,       \* record.json
    samples,
    verdict,   \* of the evaluation; "failed": the case itself failed
    authored,  \* the corruption tried, and its verdict
    harm,      \* history: what the broker really did wrong
    slips

vars == <<study, defect, pc, now, svc, log, ops, journal, adm, w, files, rec, samples, verdict,
          authored, harm, slips>>
case == <<study, defect>>
broker == <<ops, journal, adm>>
ending == <<verdict, authored>>

S == Study[study]
NoWorker == [at |-> "none", seen |-> [port |-> "none", rv |-> 0], since |-> 0]
Read == [port |-> svc.port, rv |-> svc.rv]
Moments == {"stop_asked", "stopped", "repair_asked", "ready", "kill_asked", "repair_stopped",
            "restart_asked", "resumed_ready", "resumed_done"}
Nothing == [op |-> 0, at |-> 0]

Init ==
    /\ study \in Studies /\ defect \in Defects
    /\ pc = "stop" /\ now = 1 /\ svc = [port |-> "ok", rv |-> 1] /\ log = <<>> /\ ops = <<>>
    /\ journal = <<>>
    /\ adm = [active |-> Study[study].admitted,
              decisions |-> IF Study[study].admitted THEN <<"promoted">> ELSE <<>>,
              pins |-> {}, auths |-> <<>>, refusals |-> <<>>]
    /\ w = NoWorker
    /\ files = [episodes |-> {}, bindings |-> {}, tools |-> <<>>, barrier |-> Nothing,
                unresolved |-> {}, failed |-> FALSE]
    /\ rec = [times |-> [m \in Moments |-> 0], late |-> {}, fault |-> NoAction, external |-> NoAction,
              attempts |-> <<>>, withdrawal |-> [asked |-> 0, done |-> 0], beforeKill |-> <<>>,
              after |-> NoAction, closed |-> FALSE]
    /\ samples = <<>> /\ verdict = "none" /\ authored = [name |-> "none", verdict |-> "none"]
    /\ harm = {} /\ slips = IF defect = "none" THEN MaxSlips ELSE 0

Tick(n) == now' = now + n
Go(from, to) == pc = from /\ pc' = to
Slip(wrong) == slips >= (IF wrong THEN 1 ELSE 0) /\ slips' = slips - (IF wrong THEN 1 ELSE 0)
LateSet(late, step) == rec.late \cup (IF late THEN {step} ELSE {})
Evidence ==
    [study |-> study, times |-> rec.times, late |-> rec.late, fault |-> rec.fault, external |-> rec.external,
     attempts |-> rec.attempts, withdrawal |-> rec.withdrawal, beforeKill |-> rec.beforeKill,
     after |-> rec.after, closed |-> rec.closed, ops |-> ops, journal |-> journal, log |-> log,
     adm |-> adm, tools |-> files.tools, episodes |-> files.episodes, bindings |-> files.bindings,
     barrier |-> files.barrier, failed |-> files.failed, samples |-> samples,
     resumed |-> [unresolved |-> files.unresolved]]

---------------------------------------------------------------------------
(* The controller. *)

Episode(id, worker, at, stage, evidence, outcome, finished) ==
    [id |-> id, worker |-> worker, started |-> at,
     program |-> IF S.programmed /\ stage \notin {"empty"} THEN at + 1 ELSE 0,
     procedure |-> IF S.admitted /\ stage = "pinned" THEN at + 2 ELSE 0,
     evidence |-> evidence, outcome |-> outcome, finished |-> finished]

\* stop_and_reap, wherever the initial operator is: it finished a healthy
\* episode, and may be in the next, with or without its pins.
InterruptedAt ==
    {"none", "empty", "pinned"} \cup (IF S.programmed THEN {"programmed"} ELSE {})
        \cup (IF S.admitted THEN {"registered"} ELSE {})
StopInitial ==
    /\ Go("stop", "fault") /\ Tick(9)
    /\ \E late \in BOOLEAN, open \in InterruptedAt :
        /\ Slip(late)
        /\ files' = [files EXCEPT !.episodes =
                {Episode("first", "initial", now, "pinned", now + 3, "healthy", now + 4)}
                    \cup (IF open = "none" THEN {}
                          ELSE {Episode("open", "initial", now + 5, open, 0, "none", 0)})]
        /\ adm' = [adm EXCEPT !.pins = IF ~S.admitted THEN {} ELSE
                        {"first"} \cup (IF open \in {"registered", "pinned"} THEN {"open"} ELSE {})]
        /\ rec' = [rec EXCEPT !.times["stop_asked"] = now + 7, !.times["stopped"] = now + 8,
                              !.late = LateSet(late, "stop")]
    /\ UNCHANGED <<case, svc, log, ops, journal, w, samples, ending, harm>>

Write(tag, port) == [tag |-> tag, basis |-> svc.rv, port |-> port, rv |-> svc.rv + 1, code |-> 200, at |-> now + 1]
Made(port) == [asked |-> now, done |-> now + 2, port |-> port, rv |-> svc.rv + 1]
\* change_routing: only from the port it expects.
ChangeRouting(tag, port) ==
    /\ svc' = [port |-> port, rv |-> svc.rv + 1] /\ log' = Append(log, Write(tag, port))

Taken(slot) == \E s \in Range(samples) : s.slot = slot
Fault ==
    /\ Go("fault", "repair") /\ Taken("healthy") /\ svc.port = "ok" /\ ChangeRouting("fault", "bad") /\ Tick(3)
    /\ \E late \in BOOLEAN :
        Slip(late) /\ rec' = [rec EXCEPT !.fault = Made("bad"), !.late = LateSet(late, "fault")]
    /\ UNCHANGED <<case, broker, w, files, samples, ending, harm>>

FaultSeen == \E s \in Range(samples) : ~s.good /\ s.known /\ rec.fault.done <= s.at
StartRepair ==
    /\ Go("repair", IF S.ends = <<"uncertain">> THEN "cut" ELSE "hold") /\ FaultSeen /\ Tick(3)
    /\ \E late \in BOOLEAN :
        Slip(late) /\ rec' = [rec EXCEPT !.times["repair_asked"] = now, !.times["ready"] = now + 1,
                                         !.late = LateSet(late, "repair")]
    /\ w' = [NoWorker EXCEPT !.at = "start", !.since = now + 2]
    /\ UNCHANGED <<case, svc, log, broker, files, samples, ending, harm>>

\* await_new_barrier, operation_rows and the read of the Service.
Hold ==
    /\ Go("hold", "act") /\ w.at = "held" /\ Tick(1)
    /\ rec' = [rec EXCEPT !.attempts = Append(@,
            [op |-> Len(ops), at |-> w.since, rows |-> ops, before |-> Read, readAt |-> now,
             change |-> NoAction, released |-> 0])]
    /\ UNCHANGED <<case, svc, log, broker, w, files, samples, ending, harm, slips>>

Attempt == Len(rec.attempts)
\* The version bump: an annotation, nothing of the spec.
Bump ==
    /\ Go("act", "release") /\ Ends(study, Attempt) = "rejected" /\ Tick(3)
    /\ svc' = [svc EXCEPT !.rv = @ + 1] /\ log' = Append(log, Write(BumpTag[Attempt], svc.port))
    /\ rec' = [rec EXCEPT !.attempts[Attempt].change = Made(svc.port)]
    /\ UNCHANGED <<case, broker, w, files, samples, ending, harm, slips>>
\* withdraw, at a barrier of the operator.
Withdraw(from, to) ==
    /\ Go(from, to) /\ S.withdrawn /\ Tick(3)
    /\ adm' = [adm EXCEPT !.active = FALSE, !.decisions = Append(@, "withdrawn")]
    /\ rec' = [rec EXCEPT !.withdrawal = [asked |-> now, done |-> now + 2]]
    /\ UNCHANGED <<case, svc, log, ops, journal, w, files, samples, ending, harm, slips>>
WithdrawHeld == Ends(study, Attempt) = "refused" /\ Withdraw("act", "release")
LeaveAlone ==
    /\ Go("act", "release") /\ Ends(study, Attempt) = "acknowledged"
    /\ UNCHANGED <<case, now, svc, log, broker, w, files, rec, samples, ending, harm, slips>>
Release ==
    /\ Go("release", IF Attempt < Len(S.ends) THEN "hold" ELSE "await") /\ Tick(1)
    /\ rec' = [rec EXCEPT !.attempts[Attempt].released = now]
    /\ w' = IF w.at = "held" THEN [w EXCEPT !.at = "released"] ELSE w
    /\ UNCHANGED <<case, svc, log, broker, files, samples, ending, harm, slips>>

HasOutcome == \E x \in files.episodes : x.id = "repair" /\ x.outcome # "none"
AwaitOutcome ==
    /\ Go("await", "late") /\ Taken("repairing") /\ HasOutcome /\ (~Recovers(study) => w.at = "exited") /\ Tick(1)
    /\ rec' = [rec EXCEPT !.after = [asked |-> now, done |-> now, port |-> svc.port, rv |-> svc.rv]]
    /\ UNCHANGED <<case, svc, log, broker, w, files, samples, ending, harm, slips>>

\* What the controller waits for will not come.
InVain ==
    \/ pc \in {"hold", "cut"} /\ w.at \in {"exited", "failed", "idle"}
    \/ pc = "await" /\ w.at = "failed" /\ ~HasOutcome
    \/ pc = "await" /\ ~Recovers(study) /\ w.at \in {"idle", "waiting", "held"}
    \/ pc = "resumed" /\ w.at = "failed"
    \/ pc = "repair" /\ \E s \in Range(samples) : s.slot = "faulted" /\ ~s.known
\* Every wait has a deadline; past it the case has failed.
GiveUp ==
    /\ InVain /\ pc' = "over" /\ verdict' = "failed" /\ w' = NoWorker
    /\ UNCHANGED <<case, now, svc, log, broker, files, rec, samples, authored, harm, slips>>

\* dispatch-barrier.json: the effect is real, its acknowledgement is not.
CaughtUncertain ==
    /\ Go("cut", IF S.withdrawn THEN "withdraw" ELSE "kill") /\ w.at = "paused" /\ Taken("repairing")
    /\ rec' = [rec EXCEPT !.beforeKill = ops]
    /\ UNCHANGED <<case, now, svc, log, broker, w, files, samples, ending, harm, slips>>
WithdrawUncertain == Withdraw("withdraw", "kill")
Kill ==
    /\ Go("kill", IF S.external THEN "external" ELSE "restart") /\ w' = NoWorker /\ Tick(2)
    /\ rec' = [rec EXCEPT !.times["kill_asked"] = now, !.times["repair_stopped"] = now + 1]
    /\ UNCHANGED <<case, svc, log, broker, files, samples, ending, harm, slips>>
ExternalChange ==
    /\ Go("external", "restart") /\ svc.port = "ok" /\ ChangeRouting("external", "moved") /\ Tick(3)
    /\ rec' = [rec EXCEPT !.external = Made("moved")]
    /\ UNCHANGED <<case, broker, w, files, samples, ending, harm, slips>>
Restart ==
    /\ Go("restart", "resumed") /\ Taken("down") /\ Tick(2)
    /\ \E late \in BOOLEAN :
        Slip(late) /\ rec' = [rec EXCEPT !.times["restart_asked"] = now, !.times["resumed_ready"] = now + 1,
                                         !.late = LateSet(late, "restart")]
    /\ w' = [NoWorker EXCEPT !.at = "resuming"]
    /\ UNCHANGED <<case, svc, log, broker, files, samples, ending, harm>>
AwaitExit ==
    /\ Go("resumed", "late") /\ w.at = "exited"
    /\ UNCHANGED <<case, now, svc, log, broker, w, files, rec, samples, ending, harm, slips>>

\* The window ends, the owner cleans up, the audit log is closed.
Finish ==
    /\ Go("late", "judge") /\ Taken("late")
    /\ \E broken \in BOOLEAN : Slip(broken) /\ rec' = [rec EXCEPT !.closed = ~broken]
    /\ w' = NoWorker
    /\ UNCHANGED <<case, now, svc, log, broker, files, samples, ending, harm>>

Judge ==
    /\ Go("judge", "over") /\ verdict' = Verdict(Evidence)
    /\ UNCHANGED <<case, now, svc, log, broker, w, files, rec, samples, authored, harm, slips>>

---------------------------------------------------------------------------
(* The observer: one sample at a time, on its own.  Each phase is longer    *)
(* than the interval between samples, so each has its own.                  *)

Due(slot) ==
    CASE slot = "healthy" -> pc \in {"stop", "fault"}
      [] slot = "faulted" -> pc = "repair"
      [] slot = "repairing" -> pc \in {"hold", "act", "release", "await", "cut", "withdraw", "kill"}
      [] slot = "down" -> pc = "restart"
      [] slot = "late" -> pc = "late"
Take(slot) ==
    /\ ~Taken(slot) /\ Due(slot) /\ Tick(1)
    /\ \E lost \in BOOLEAN :
        /\ Slip(lost)
        /\ samples' = Append(samples, [slot |-> slot, at |-> now, known |-> ~lost,
                                       good |-> svc.port = "ok" /\ ~lost])
    /\ UNCHANGED <<case, pc, svc, log, broker, w, files, rec, ending, harm>>
Observe == \E slot \in Slots(study) : Take(slot)

---------------------------------------------------------------------------
(* The operator and its broker. *)

Tool(source, at, op, status, reason) ==
    [source |-> source, at |-> at, port |-> svc.port, rv |-> svc.rv, op |-> op, status |-> status, reason |-> reason]
Observation(source, at) == Tool(source, at, 0, "none", "none")
Here == Len(ops)
Event(name, at) == [op |-> Here, event |-> name, at |-> at]

\* A new episode pins its program, then observes; a refresh observes again.
Diagnose ==
    /\ w.at \in {"start", "refresh"} /\ Tick(8)
    /\ w' = [at |-> "diagnosed", seen |-> Read, since |-> now]
    /\ files' = [files EXCEPT
            !.tools = @ \o <<Observation("observe_service", now + 4), Observation("probe_backend", now + 5),
                             Observation("probe_application", now + 6)>>,
            !.episodes = IF w.at = "refresh" THEN @
                         ELSE @ \cup {Episode("repair", "repair", now, "pinned", now + 3, "none", 0)}]
    /\ adm' = [adm EXCEPT !.pins = @ \cup (IF S.admitted THEN {"repair"} ELSE {})]
    /\ UNCHANGED <<case, pc, svc, log, ops, journal, rec, samples, ending, harm, slips>>

\* The durable intent, its reservation, and the preflight barrier if there is one.
Propose ==
    /\ w.at = "diagnosed" /\ Tick(2)
    /\ LET basis == IF defect = "stale" /\ ops # <<>> THEN ops[1].basis ELSE w.seen.rv IN
        /\ ops' = Append(ops, [basis |-> basis, status |-> "prepared", reason |-> "intent_recorded", spent |-> 1,
                               owned |-> FALSE, result |-> 0, created |-> now, updated |-> now,
                               reconciled |-> FALSE, observed |-> NoObservation])
        /\ harm' = harm \cup (IF \E o \in Range(ops) : o.basis = basis THEN {"repeated"} ELSE {})
    /\ journal' = Append(journal, [op |-> Here + 1, event |-> "prepared", at |-> now])
    /\ w' = [w EXCEPT !.at = IF Cut(study) THEN "released" ELSE "held", !.since = now + 1]
    /\ UNCHANGED <<case, pc, svc, log, adm, files, rec, samples, ending, slips>>

\* A withdrawn program gets no authorization: the refusal is retained, the
\* intent is rejected and its reservation released.
Refuse ==
    /\ adm' = [adm EXCEPT !.refusals = Append(@, [op |-> Here, at |-> now])]
    /\ ops' = [ops EXCEPT ![Here].status = "rejected", ![Here].reason = "dispatch_authorization_refused",
                          ![Here].owned = TRUE, ![Here].updated = now + 1,
                          ![Here].spent = IF defect = "keeps" THEN 1 ELSE 0]
    /\ journal' = journal \o <<Event("rejected", now + 2), Event("budget_released", now + 2)>>
    /\ harm' = harm \cup (IF defect = "keeps" THEN {"kept"} ELSE {})
    /\ w' = [w EXCEPT !.at = "told"]
Active == adm.active
Authorize ==
    /\ w.at = "released" /\ S.admitted /\ defect # "unauthorised" /\ Tick(3)
    /\ IF Active \/ defect = "unheeding"
       THEN /\ adm' = [adm EXCEPT !.auths = Append(@,
                    [op |-> Here, episode |-> "repair", revision |-> 1, basis |-> ops[Here].basis, at |-> now])]
            /\ harm' = harm \cup (IF adm.active THEN {} ELSE {"authorized"})
            /\ w' = [w EXCEPT !.at = "authorized"]
            /\ UNCHANGED <<ops, journal>>
       ELSE Refuse
    /\ UNCHANGED <<case, pc, svc, log, files, rec, samples, ending, slips>>

\* The one-use claim, then (in the adapter) the binding of the program.
Claim ==
    /\ w.at = (IF S.admitted /\ defect # "unauthorised" THEN "authorized" ELSE "released") /\ Tick(2)
    /\ ops' = [ops EXCEPT ![Here].status = "dispatching", ![Here].owned = TRUE, ![Here].updated = now]
    /\ journal' = Append(journal, Event("dispatching", now))
    /\ files' = [files EXCEPT !.bindings = @ \cup (IF S.programmed THEN {[op |-> Here, at |-> now + 1]} ELSE {})]
    /\ w' = [w EXCEPT !.at = "claimed"]
    /\ UNCHANGED <<case, pc, svc, log, adm, rec, samples, ending, harm, slips>>

\* The API server applies the patch if the version it tests is the current one.
Call(i) ==
    LET applied == svc.port = "bad" /\ (svc.rv = ops[i].basis \/ defect = "unconditional") IN
    /\ svc' = IF applied THEN [port |-> "ok", rv |-> svc.rv + 1] ELSE svc
    /\ log' = Append(log, [tag |-> OpTag[i], basis |-> IF defect = "unconditional" THEN 0 ELSE ops[i].basis,
                           port |-> svc'.port, rv |-> svc'.rv, at |-> now,
                           code |-> IF applied THEN 200 ELSE 409])
    /\ harm' = harm
        \cup (IF applied /\ svc.rv # ops[i].basis THEN {"overwrote"} ELSE {})
        \cup (IF \E a \in Range(log) : a.tag = OpTag[i] THEN {"replayed"} ELSE {})
        \cup (IF S.admitted /\ ~\E a \in Range(adm.auths) : a.op = i THEN {"unauthorised"} ELSE {})
\* The test hook holds the answer back in the studies that cut it off.
Send ==
    /\ w.at = "claimed" /\ Call(Here) /\ Tick(2)
    /\ w' = [w EXCEPT !.at = IF Cut(study) THEN "paused" ELSE "answered"]
    /\ files' = IF Cut(study) THEN [files EXCEPT !.barrier = [op |-> Here, at |-> now + 1]] ELSE files
    /\ UNCHANGED <<case, pc, broker, rec, samples, ending, slips>>

Settle ==
    /\ w.at = "answered" /\ Tick(2)
    /\ LET ok == Last(log).code = 200  status == IF ok THEN "acknowledged" ELSE "rejected" IN
        /\ ops' = [ops EXCEPT ![Here].status = status, ![Here].updated = now,
                              ![Here].reason = IF ok THEN "api_acknowledged" ELSE "api_rejected",
                              ![Here].result = IF ok THEN svc.rv ELSE 0]
        /\ journal' = Append(journal, Event(status, now + 1))
    /\ w' = [w EXCEPT !.at = "told"]
    /\ UNCHANGED <<case, pc, svc, log, adm, files, rec, samples, ending, harm, slips>>

\* _refresh_proposal: only a conflict of the API, with a dispatch left.
Refreshable(o) ==
    o.status = "rejected" /\ o.reason = "api_rejected" /\ o.spent = 1
        /\ Cardinality({i \in DOMAIN ops : ops[i].spent = 1}) < Budget

\* The result reaches the program, which refreshes, verifies or escalates.
Tell ==
    /\ w.at = "told" /\ Tick(1)
    /\ LET o == ops[Here]
           heard == IF defect = "misreports" THEN "acknowledged" ELSE o.status
       IN /\ files' = [files EXCEPT !.tools = Append(@, Tool("propose_repair", now, Here, heard, o.reason))]
          /\ harm' = harm \cup (IF heard # o.status THEN {"misled"} ELSE {})
          /\ w' = [w EXCEPT !.at =
                IF heard = "acknowledged" THEN "verify"
                ELSE IF Refreshes(study) /\ Refreshable(o) THEN "refresh" ELSE "escalate"]
    /\ UNCHANGED <<case, pc, svc, log, broker, rec, samples, ending, slips>>

Outcome(outcome, at) ==
    {IF x.id = "repair" THEN [x EXCEPT !.outcome = outcome, !.finished = at] ELSE x : x \in files.episodes}
\* An episode ends: verified and resolved, or escalated, and then so does the operator.
FinishEpisode ==
    /\ w.at \in {"verify", "escalate"} /\ Tick(3)
    /\ LET resolved == w.at = "verify" /\ svc.port = "ok"
           outcome == IF resolved THEN "resolved" ELSE "escalated"
           verified == IF w.at = "verify" THEN <<Observation("verify_recovery", now)>> ELSE <<>>
       IN /\ files' = [files EXCEPT
                !.tools = @ \o verified \o <<Observation("finish", now + 1)>>,
                !.episodes = Outcome(outcome, now + 2)]
          /\ w' = [w EXCEPT !.at = IF resolved THEN "idle" ELSE "exited"]
    /\ UNCHANGED <<case, pc, svc, log, broker, rec, samples, ending, harm, slips>>

\* After a recovery the operator goes on, one healthy episode after another.
LaterEpisode ==
    /\ w.at = "idle" /\ pc \in {"await", "late"} /\ Tick(4)
    /\ files' = [files EXCEPT !.episodes = @ \cup {Episode("later", "repair", now, "pinned", now + 3, "healthy", now + 3)}]
    /\ adm' = [adm EXCEPT !.pins = @ \cup (IF S.admitted THEN {"later"} ELSE {})]
    /\ w' = [w EXCEPT !.at = "waiting"]
    /\ UNCHANGED <<case, pc, svc, log, ops, journal, rec, samples, ending, harm, slips>>

Replays == defect = "replays"
\* Started again: record the present of what is unresolved, and escalate.
Resume ==
    /\ w.at = "resuming" /\ Tick(3)
    /\ LET status == IF defect = "acknowledges" THEN "acknowledged" ELSE "uncertain" IN
        ops' = [ops EXCEPT ![1].status = status, ![1].updated = now, ![1].reconciled = TRUE,
                           ![1].reason = "dispatch_outcome_unrecorded", ![1].observed =
                                [port |-> svc.port, rv |-> svc.rv, at |-> now]]
    /\ journal' = Append(journal, Event("reconciled", now + 1))
    /\ files' = [files EXCEPT !.unresolved = {1}]
    /\ rec' = [rec EXCEPT !.times["resumed_done"] = now + 2]
    /\ IF Replays THEN Call(1)
       ELSE /\ harm' = harm \cup (IF defect = "acknowledges" THEN {"hid"} ELSE {})
            /\ UNCHANGED <<svc, log>>
    /\ w' = [w EXCEPT !.at = "exited"]
    /\ UNCHANGED <<case, pc, adm, samples, ending, slips>>

\* The operator fails where it stands.
OperatorFails ==
    /\ w.at \notin {"none", "exited", "failed", "idle", "waiting"} /\ slips > 0 /\ slips' = slips - 1
    /\ w' = [w EXCEPT !.at = "failed"] /\ files' = [files EXCEPT !.failed = TRUE]
    /\ UNCHANGED <<case, pc, now, svc, log, broker, rec, samples, ending, harm>>

---------------------------------------------------------------------------
\* The case is over; its evidence may be corrupted and judged again.
Corrupted ==
    /\ pc = "over" /\ verdict = "passed" /\ authored.name = "none"
    /\ \E name \in Challenges(study) :
        authored' = [name |-> name, verdict |-> Verdict(Corrupt(Evidence, name))]
    /\ UNCHANGED <<case, pc, now, svc, log, broker, w, files, rec, samples, verdict, harm, slips>>
\* A wait looks, sleeps and looks again; a finished case stays as it is.
Poll == pc \in {"repair", "hold", "cut", "await", "resumed", "over"} /\ UNCHANGED vars

Controller ==
    \/ StopInitial \/ Fault \/ StartRepair \/ Hold \/ Bump \/ WithdrawHeld \/ LeaveAlone \/ Release
    \/ AwaitOutcome \/ GiveUp \/ CaughtUncertain \/ WithdrawUncertain \/ Kill \/ ExternalChange
    \/ Restart \/ AwaitExit \/ Finish \/ Judge
Operator ==
    \/ Diagnose \/ Propose \/ Authorize \/ Claim \/ Send \/ Settle \/ Tell \/ FinishEpisode
    \/ LaterEpisode \/ Resume

Next == Controller \/ Operator \/ Observe \/ OperatorFails \/ Corrupted \/ Poll

---------------------------------------------------------------------------
(* Properties. *)

TypeOK ==
    /\ now \in Nat /\ svc \in [port : {"ok", "bad", "moved"}, rv : Nat] /\ slips \in 0 .. MaxSlips
    /\ Len(ops) <= Budget /\ Len(rec.attempts) <= Budget /\ Cardinality({s.slot : s \in Range(samples)}) = Len(samples)
    /\ \A o \in Range(ops) :
        o.status \in {"prepared", "dispatching", "acknowledged", "rejected", "uncertain"} /\ o.spent \in {0, 1}
    /\ \A j \in Range(journal) : j.op \in DOMAIN ops
    /\ (verdict = "none" <=> pc # "over")
    /\ authored.name # "none" => verdict = "passed"

\* A withdrawal closes dispatch for good: whatever the operator was doing at
\* its barrier, an operation that was not authorized when the program was
\* withdrawn is never sent, gives its reservation back and ends rejected.
WithdrawalClosesDispatch ==
    S.withdrawn /\ ~adm.active =>
        \A i \in DOMAIN ops :
            ~(\E a \in Range(adm.auths) : a.op = i /\ a.at < rec.withdrawal.done) =>
                /\ ~\E a \in Range(log) : a.tag = OpTag[i]
                /\ ops[i].status # "prepared" => (ops[i].status = "rejected" /\ ops[i].spent = 0)

\* A restarted operator adds no request: every request of the log is one the
\* journal claimed, once, and before it; and what is spent is what was
\* claimed or may still be.
RequestsAreClaimed ==
    /\ \A n \in DOMAIN log, i \in DOMAIN ops : log[n].tag = OpTag[i] =>
        /\ \E k \in DOMAIN journal : journal[k] = [op |-> i, event |-> "dispatching", at |-> journal[k].at]
                /\ journal[k].at < log[n].at
        /\ \A m \in DOMAIN log : log[m].tag = OpTag[i] => m = n
    /\ \A i \in DOMAIN ops : ops[i].spent = 0 <=> ops[i].reason = "dispatch_authorization_refused"

\* The gate has no false alarm: a study on schedule, observed and cleaned up,
\* passes wherever the initial operator was stopped (but between the two
\* writes of its admission pin) and however the observer's samples fell.
HonestStudyPasses ==
    /\ pc = "over" /\ defect = "none" /\ slips = MaxSlips
    /\ S.admitted => ~\E x \in files.episodes : x.id \in adm.pins /\ x.procedure = 0
    => verdict = "passed"

\* What the comment beside verify_bindings says: a scheduled kill may land
\* between the attempt and its pins, and such an empty attempt makes no claim.
InterruptedStartIsTolerated ==
    pc = "over" /\ defect = "none" /\ slips = MaxSlips => verdict = "passed"

\* The gate misses nothing: when it passes, the broker did no harm - but for
\* a replay the API server refused, which the ambiguity gate does not count.
PassedMeansConformant ==
    verdict = "passed" =>
        harm \subseteq (IF study \in {"unchanged", "external_change"} THEN {"replayed"} ELSE {})

\* Each authored corruption of the evidence of a passed study is refused.
CorruptionsAreRefused == authored.name # "none" => authored.verdict = Expected[authored.name]

\* Every study comes to a verdict, whatever fails under it.
Ended == verdict # "none"
\* What an honest study is, and what the gate says of it.
HonestIsSound == TypeOK /\ WithdrawalClosesDispatch /\ RequestsAreClaimed /\ HonestStudyPasses
=============================================================================
