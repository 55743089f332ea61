--------------------------- MODULE DeclaredStudy ---------------------------
(***************************************************************************)
(* The books of a declared study: each of its cases is run once, in order; *)
(* a case starts a campaign owner, watches it, finalises what it started,  *)
(* exports and judges its evidence, and its receipt and the study's ledger *)
(* are saved along the way.  Any step may fail, be interrupted (Ctrl-C, a  *)
(* termination) or be the last before the process dies.  What the live     *)
(* campaign does is IncidentCase's matter.                                 *)
(***************************************************************************)
EXTENDS Naturals, Sequences, FiniteSets

CONSTANTS
    Gates,      \* the studies of this instance
    MaxFaults   \* bound: failures, interrupts and crashes of a run

StudyAssumption ==
    Gates \subseteq {"ambiguity", "refresh", "withdrawal", "program"} /\ MaxFaults \in Nat

Order(g) ==
    CASE g = "ambiguity" -> <<"unchanged", "external_change">>
      [] g = "refresh" -> <<"stable", "continuing", "uncertain">>
      [] g = "withdrawal" -> <<"healthy", "uncertain">>
      [] g = "program" -> <<"stable", "before_first", "between_attempts", "uncertain">>
Cases == UNION {{Order(g)[i] : i \in DOMAIN Order(g)} : g \in Gates}
\* check_ambiguity and check_withdrawal judge a case before they finalise it.
JudgedFirst(c) == c \in {"unchanged", "external_change", "uncertain", "healthy"}
Calibrated(g) == g \in {"program", "withdrawal"}

VARIABLES
    gate,
    pc,
    n,          \* the running case, by its place in the order
    ledger,     \* the study's result.json
    receipts,   \* the cases' result.json; status "none": no file
    mem,        \* the running case's receipt, in memory
    raised,     \* the exception on its way out of the case
    world,      \* of each case: its owner, its cluster, whether its window opened
    promoted,   \* whether the admission registry's program is active
    aborted,    \* history: the study was interrupted
    faults

vars == <<gate, pc, n, ledger, receipts, mem, raised, world, promoted, aborted, faults>>

NoReceipt == [status |-> "none", error |-> "none", executed |-> FALSE, finalized |-> FALSE,
              cleanup |-> FALSE, evaluation |-> "none", identical |-> FALSE]
Opened == [NoReceipt EXCEPT !.status = "failed"]
Untouched == [owner |-> "none", cluster |-> "none", window |-> FALSE]

Init ==
    /\ gate \in Gates /\ pc = (IF Calibrated(gate) THEN "calibrate" ELSE "next") /\ n = 0
    /\ ledger = [status |-> "running", error |-> "none", cases |-> [c \in Cases |-> "unrun"]]
    /\ receipts = [c \in Cases |-> NoReceipt] /\ mem = NoReceipt /\ raised = "none"
    /\ world = [c \in Cases |-> Untouched] /\ promoted = FALSE /\ aborted = FALSE
    /\ faults = MaxFaults

Case == Order(gate)[n]
Costs(happens) == faults >= (IF happens THEN 1 ELSE 0) /\ faults' = faults - (IF happens THEN 1 ELSE 0)
Notice(interrupted) == aborted' = (aborted \/ interrupted)
Kinds == {"error", "interrupt"}
Ended(error) == [ledger EXCEPT !.status = "failed", !.error = error]
Saved(receipt) == [receipts EXCEPT ![Case] = receipt]

---------------------------------------------------------------------------
(* The study. *)

\* The adverse program must be turned down before the maintained one is promoted.
Calibrate ==
    /\ pc = "calibrate"
    /\ \E how \in {"qualified"} \cup Kinds :
        /\ Costs(how # "qualified") /\ Notice(how = "interrupt")
        /\ promoted' = (how = "qualified")
        /\ pc' = (IF how = "qualified" THEN "next" ELSE "ended")
        /\ ledger' = IF how = "qualified" THEN ledger ELSE Ended(how)
    /\ UNCHANGED <<gate, n, receipts, mem, raised, world>>

Upcoming == Order(gate)[n + 1]
\* refresh's run_case saves a failed receipt before it starts anything.
Begin ==
    /\ pc = "next" /\ n < Len(Order(gate))
    /\ LET c == Upcoming IN
        /\ n' = n + 1 /\ pc' = "execute"
        /\ ledger' = [ledger EXCEPT !.cases[c] = "running"]
        /\ receipts' = [receipts EXCEPT ![c] = IF JudgedFirst(c) THEN @ ELSE Opened]
        /\ mem' = Opened /\ raised' = "none"
    /\ UNCHANGED <<gate, world, promoted, aborted, faults>>

Close ==
    /\ pc = "next" /\ n = Len(Order(gate)) /\ pc' = "ended"
    /\ ledger' = IF \A i \in 1 .. n : ledger.cases[Order(gate)[i]] = "passed"
                 THEN [ledger EXCEPT !.status = "passed"] ELSE Ended("error")
    /\ UNCHANGED <<gate, n, receipts, mem, raised, world, promoted, aborted, faults>>

InterruptedBetween ==
    /\ pc = "next" /\ Costs(TRUE) /\ Notice(TRUE) /\ pc' = "ended" /\ ledger' = Ended("interrupt")
    /\ UNCHANGED <<gate, n, receipts, mem, raised, world, promoted>>

\* Bug: the receipt is not looked at again when nothing was raised.
ExceptionLeftIt == raised # "none"
\* A case failed if an exception left it, or if its receipt does not say passed.
CaseFailed == raised # "none" \/ (~JudgedFirst(Case) /\ mem.status # "passed")
\* Only what is not an Exception leaves the study, if it is still on its way.
Stops == raised = "interrupt"
Settle ==
    /\ pc = "settle"
    /\ LET noted == [ledger EXCEPT !.cases[Case] = IF CaseFailed THEN "failed" ELSE "passed"] IN
        IF Stops
        THEN ledger' = [noted EXCEPT !.status = "failed", !.error = "interrupt"] /\ pc' = "ended"
        ELSE ledger' = noted /\ pc' = "next"
    /\ mem' = NoReceipt /\ raised' = "none"
    /\ UNCHANGED <<gate, n, receipts, world, promoted, aborted, faults>>

---------------------------------------------------------------------------
(* A case. *)

\* How its campaign may end: watched to the end of a clean owner, or not.
Completed == [owner |-> "exited", cluster |-> "deleted", window |-> TRUE]
Broken ==
    {[owner |-> "exited", cluster |-> k, window |-> TRUE] : k \in {"up", "deleted"}}
        \cup {[owner |-> "running", cluster |-> "up", window |-> o] : o \in BOOLEAN}
Complete ==
    /\ pc = "execute" /\ world' = [world EXCEPT ![Case] = Completed]
    /\ mem' = [mem EXCEPT !.executed = TRUE] /\ pc' = (IF JudgedFirst(Case) THEN "judge" ELSE "finalize")
    /\ UNCHANGED <<gate, n, ledger, receipts, raised, promoted, aborted, faults>>
Break ==
    /\ pc = "execute" /\ Costs(TRUE) /\ pc' = "finalize"
    /\ \E left \in Broken, kind \in Kinds :
        /\ world' = [world EXCEPT ![Case] = left] /\ Notice(kind = "interrupt")
        /\ mem' = [mem EXCEPT !.error = kind] /\ raised' = kind
    /\ UNCHANGED <<gate, n, ledger, receipts, promoted>>
\* The owner could not be started: only the receipt opened before can tell.
NotStarted ==
    /\ pc = "execute" /\ Costs(TRUE)
    /\ \E kind \in Kinds : Notice(kind = "interrupt") /\ raised' = kind /\ mem' = [mem EXCEPT !.error = kind]
    /\ pc' = (IF JudgedFirst(Case) THEN "settle" ELSE "export")
    /\ UNCHANGED <<gate, n, ledger, receipts, world, promoted>>

\* Two exports, compared, and the evaluation's verdict.
Judge ==
    /\ pc = "judge" /\ pc' = "finalize"
    /\ \E what \in {"passed", "failed"} \cup Kinds :
        /\ Costs(what # "passed") /\ Notice(what = "interrupt")
        /\ IF what = "passed"
           THEN /\ mem' = [mem EXCEPT !.status = "passed", !.identical = TRUE, !.evaluation = "passed"]
                /\ UNCHANGED raised
           ELSE /\ raised' = (IF what = "interrupt" THEN what ELSE "error")
                /\ mem' = [mem EXCEPT !.error = raised',
                                      !.evaluation = IF what = "failed" THEN what ELSE @]
    /\ UNCHANGED <<gate, n, ledger, receipts, world, promoted>>

Collected(errors) == errors
\* finalize_gate: every stage is attempted, its errors are collected, the
\* receipt is saved - and the errors raised, in place of what was on its way.
Finalize ==
    /\ pc = "finalize" /\ pc' = "export"
    /\ \E errors, clean \in BOOLEAN :
        /\ Costs(errors) /\ (~errors => clean)
        /\ world' = [world EXCEPT ![Case].owner = IF @ = "running" /\ clean THEN "killed" ELSE @,
                                  ![Case].cluster = IF clean THEN "deleted" ELSE @]
        /\ mem' = [mem EXCEPT !.finalized = ~Collected(errors), !.cleanup = Collected(errors),
                              !.status = IF Collected(errors) THEN "failed" ELSE @]
        /\ raised' = (IF Collected(errors) THEN "error" ELSE raised)
        /\ receipts' = Saved(mem')
    /\ UNCHANGED <<gate, n, ledger, promoted, aborted>>
InterruptedFinalizing ==
    /\ pc = "finalize" /\ pc' = "export" /\ Costs(TRUE) /\ Notice(TRUE) /\ raised' = "interrupt"
    /\ \E killed \in BOOLEAN :
        world' = [world EXCEPT ![Case].owner = IF @ = "running" /\ killed THEN "killed" ELSE @]
    /\ UNCHANGED <<gate, n, ledger, receipts, mem, promoted>>

\* What must have gone well besides the evaluation.
Earned == mem.finalized /\ mem.executed /\ mem.error = "none" /\ ~mem.cleanup

\* The exports of a case that is finalised first, and its status.
Export ==
    /\ pc = "export" /\ ~JudgedFirst(Case) /\ pc' = "settle"
    /\ IF ~world[Case].window THEN UNCHANGED <<mem, raised, aborted, faults>>
       ELSE \E what \in {"passed", "failed"} \cup Kinds :
            /\ Costs(what # "passed") /\ Notice(what = "interrupt")
            /\ mem' = (CASE what = "passed" ->
                            [mem EXCEPT !.evaluation = what, !.identical = TRUE,
                                        !.status = IF Earned THEN "passed" ELSE @]
                         [] what = "failed" -> [mem EXCEPT !.evaluation = what, !.identical = TRUE]
                         [] what = "error" -> [mem EXCEPT !.status = "failed"]
                         [] OTHER -> mem)
            /\ raised' = (IF what = "interrupt" THEN what ELSE raised)
    /\ receipts' = Saved(mem')
    /\ UNCHANGED <<gate, n, ledger, world, promoted>>
\* The final exports of a case that was judged first: a failure is only
\* raised, in place of what was on its way, where the case had passed.
ExportAgain ==
    /\ pc = "export" /\ JudgedFirst(Case) /\ pc' = "settle"
    /\ IF ~world[Case].window THEN UNCHANGED <<mem, raised, aborted, faults>>
       ELSE \E what \in {"exported"} \cup Kinds :
            /\ Costs(what # "exported") /\ Notice(what = "interrupt")
            /\ LET spoilt == what = "error" /\ mem.status = "passed" IN
                /\ mem' = IF spoilt THEN [mem EXCEPT !.status = "failed"] ELSE mem
                /\ raised' = (IF spoilt THEN "error" ELSE IF what = "interrupt" THEN what ELSE raised)
    /\ receipts' = Saved(mem')
    /\ UNCHANGED <<gate, n, ledger, world, promoted>>

Crash ==
    /\ pc \notin {"ended", "crashed"} /\ Costs(TRUE) /\ pc' = "crashed" /\ mem' = NoReceipt
    /\ raised' = "none"
    /\ UNCHANGED <<gate, n, ledger, receipts, world, promoted, aborted>>
Over == pc \in {"ended", "crashed"} /\ UNCHANGED vars

Next ==
    \/ Calibrate \/ Begin \/ Close \/ InterruptedBetween \/ Settle \/ Complete \/ Break \/ NotStarted
    \/ Judge \/ Finalize \/ InterruptedFinalizing \/ Export \/ ExportAgain \/ Crash \/ Over

---------------------------------------------------------------------------
(* Properties. *)

TypeOK ==
    /\ n \in 0 .. Len(Order(gate)) /\ faults \in 0 .. MaxFaults
    /\ raised \in {"none"} \cup Kinds
    /\ \A c \in Cases :
        /\ ledger.cases[c] \in {"unrun", "running", "passed", "failed"}
        /\ receipts[c].status \in {"none", "failed", "passed"}
        /\ world[c].owner \in {"none", "running", "exited", "killed"}
    /\ pc \in {"execute", "judge", "finalize", "export", "settle"} <=> mem.status # "none"

\* A receipt that says passed, at any moment the process may die or be
\* stopped at, is of a campaign watched to the end of a clean owner, whose
\* cluster is gone, whose exports agree and whose evaluation passed, with no
\* error on the way and none in its cleanup.
PassedIsEarned ==
    \A c \in Cases : receipts[c].status = "passed" =>
        /\ receipts[c].executed /\ receipts[c].error = "none" /\ ~receipts[c].cleanup
        /\ receipts[c].identical /\ receipts[c].evaluation = "passed"
        /\ world[c].owner = "exited" /\ world[c].cluster = "deleted"

\* The ledger says of a case no more than its receipt does, and of the study
\* no more than of its cases; an ended study is never left "running".
LedgerFollowsReceipts ==
    /\ \A c \in Cases : ledger.cases[c] = "passed" => receipts[c].status = "passed"
    /\ ledger.status = "passed" =>
        \A i \in DOMAIN Order(gate) : ledger.cases[Order(gate)[i]] = "passed"
    /\ pc = "ended" => ledger.status # "running"
    /\ pc = "ended" /\ ledger.error # "interrupt" =>
        \A c \in Cases : receipts[c].status = "passed" => ledger.cases[c] = "passed"

\* The cases are run in the declared order, one at a time and never again,
\* and none before the program it is about was promoted.
EachCaseOnce ==
    \A c \in Cases : ledger.cases[c] # ledger'.cases[c] =>
        \/ /\ ledger.cases[c] = "unrun" /\ ledger'.cases[c] = "running"
           /\ ~\E d \in Cases : ledger.cases[d] = "running"
           /\ Calibrated(gate) => promoted
           /\ \A i, j \in DOMAIN Order(gate) :
                i < j /\ Order(gate)[j] = c => ledger.cases[Order(gate)[i]] # "unrun"
        \/ ledger.cases[c] = "running" /\ ledger'.cases[c] \in {"passed", "failed"}

\* A cluster left behind by a study that ended is on record: its receipt
\* names the cleanup that failed, or the ledger the interrupt.
LeftoversAreRecorded ==
    pc = "ended" /\ ledger.error # "interrupt" =>
        \A c \in Cases :
            world[c].cluster = "up" \/ world[c].owner = "running" => receipts[c].cleanup

\* An execution that failed is kept: neither its cleanup nor a good
\* evaluation of what it left turns its receipt, nor its place in the ledger.
FailureIsKept ==
    \A c \in Cases :
        receipts[c].error # "none" => receipts[c].status = "failed" /\ ledger.cases[c] # "passed"

\* An interrupt ends the study: a later case only begins where the finally
\* blocks of the interrupted one raised another exception in its place, and
\* its receipt then shows what that was.
InterruptStops ==
    aborted /\ n' # n =>
        \E c \in Cases :
            \/ receipts[c].cleanup
            \/ JudgedFirst(c) /\ receipts[c].identical /\ receipts[c].status = "failed"

\* Receipts, ledger and what is left behind agree.
StudyIsSound ==
    TypeOK /\ PassedIsEarned /\ LedgerFollowsReceipts /\ LeftoversAreRecorded /\ FailureIsKept
=============================================================================
