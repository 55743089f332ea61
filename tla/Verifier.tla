------------------------------ MODULE Verifier ------------------------------
(***************************************************************************)
(* A verification window (verifier.run_window and collect) over a system   *)
(* that changes while it is measured: every observation of a probe is read *)
(* at its own moment and found as expected, differing or missing, and each *)
(* snapshot is judged (evaluate_snapshot).  A fault is what an operator    *)
(* would repair; an outage only blinds the verifier.                       *)
(***************************************************************************)
EXTENDS Naturals

CONSTANTS
    Cases,      \* the quote cases of fixtures/expectations.json
    Window,     \* window_seconds, in ticks of the clock
    MaxTime,    \* bound of the clock
    Changes,    \* bound on how often faults and outages come or go, and probes crash
    SteadyMeasurement   \* do outages come and go only between probes?

WindowAssumption ==
    /\ "available-single" \in Cases
    /\ Window \in Nat \ {0} /\ MaxTime \in Nat /\ Window <= MaxTime
    /\ Changes \in Nat /\ SteadyMeasurement \in BOOLEAN

Controls == {"quote_control", "inventory_control"}

Success == "verified_success"
Failure == "verified_failure"
Indeterminate == "indeterminate"

Snapshots == [controls : [Controls -> {"expected", "error"}],
              database : {"expected", "differs", "error"},
              service : {"expected", "differs", "error"},
              quotes : [Cases -> {"expected", "http_503", "wrong_body", "error", "absent"}]]

ControlsHealthy(s) == \A c \in Controls : s.controls[c] = "expected"
Quotes(s) == {s.quotes[c] : c \in Cases}
Wrong == {"http_503", "wrong_body"}

\* A failed client path counts only while the measurement is known to work.
PathCounts(s) == ControlsHealthy(s) /\ "error" \in Quotes(s)

\* What contradicts the independent expectations.
Failures(s) ==
    {<<k, "differs">> : k \in {x \in {"database", "service"} : s[x] = "differs"}}
      \cup {<<"quote", q>> : q \in Quotes(s) \cap Wrong}
      \cup {<<"quote", q>> : q \in {x \in {"error"} : PathCounts(s)}}

\* What could not be observed.
Unknowns(s) ==
    {<<c, "error">> : c \in {x \in Controls : s.controls[x] = "error"}}
      \cup {<<k, "error">> : k \in {x \in {"database", "service"} : s[x] = "error"}}
      \cup {<<"quote", q>> : q \in {x \in Quotes(s) \cap {"error", "absent"} :
                                    x = "error" => ~PathCounts(s)}}

Reasons(s) == Failures(s) \cup Unknowns(s)

\* Damage that was seen stays a failure, whatever else could not be seen.
Evaluate(s) == IF Failures(s) # {} THEN Failure
               ELSE IF Unknowns(s) # {} THEN Indeterminate ELSE Success

\* A later success cannot erase a failure, nor an unknown.
WindowVerdict(vs) ==
    IF Failure \in vs THEN Failure
    ELSE IF Indeterminate \in vs THEN Indeterminate ELSE Success
---------------------------------------------------------------------------
Faults == {"route", "arithmetic", "data"}
Outages == {"quote_control", "inventory_control", "database", "service"}
Steps == {"idle", "quote_control", "inventory_control", "database", "service",
          "quotes", "judge", "done"}

VARIABLES
    now,        \* the verifier's monotonic clock
    broken,     \* the faults and outages of this moment
    step,       \* what the running probe reads next
    snapshot,   \* what it has read
    probe,      \* when it started, and how many there were (2: or more)
    verdicts,   \* the verdicts of the probes so far
    result,     \* the verdict of the window
    lasting,    \* history: the faults of all of this probe
    overlooked, \* history: the faults that outlasted some probe
    since,      \* history: the faults that have lasted since the deadline
    ever,       \* history: the faults of the window so far
    left        \* remaining changes

world == <<now, broken, left>>
seen == <<snapshot, probe, verdicts, result>>
history == <<lasting, overlooked, since, ever>>
vars == <<world, step, seen, history>>

Blank == [controls |-> [c \in Controls |-> "error"], database |-> "error",
          service |-> "error", quotes |-> [c \in Cases |-> "absent"]]

Init ==
    /\ now = 0 /\ broken \in SUBSET Faults /\ left = Changes
    /\ step = "idle" /\ snapshot = Blank
    /\ probe = [started |-> 0, count |-> 0] /\ verdicts = {} /\ result = "none"
    /\ lasting = {} /\ overlooked = {} /\ since = {} /\ ever = broken \cap Faults

TypeOK ==
    /\ now \in 0 .. MaxTime /\ broken \subseteq Faults \cup Outages
    /\ left \in 0 .. Changes /\ step \in Steps /\ snapshot \in Snapshots
    /\ probe \in [started : 0 .. MaxTime, count : 0 .. 2]
    /\ verdicts \subseteq {Success, Failure, Indeterminate}
    /\ result \in {"none", Success, Failure, Indeterminate}
    /\ (result = "none") = (step # "done")
    /\ \A h \in {lasting, overlooked, since, ever} : h \subseteq Faults

Done == step = "done"

\* The world: something breaks or is repaired, between any two reads.
Change(x) ==
    /\ ~Done /\ left > 0 /\ left' = left - 1
    /\ (SteadyMeasurement /\ x \in Outages) => step = "idle"
    /\ broken' = IF x \in broken THEN broken \ {x} ELSE broken \cup {x}
    /\ lasting' = lasting \cap broken'
    /\ since' = since \cap broken'
    /\ ever' = ever \cup (broken' \cap Faults)
    /\ UNCHANGED <<now, step, seen, overlooked>>

\* sleep(min(interval_seconds, remaining)), and reads that take time.
Tick ==
    /\ ~Done /\ now < MaxTime /\ now' = now + 1
    /\ since' = IF now' = Window THEN broken \cap Faults ELSE since
    /\ UNCHANGED <<broken, left, step, seen, lasting, overlooked, ever>>

StartProbe ==
    /\ step = "idle" /\ step' = "quote_control" /\ UNCHANGED snapshot
    /\ probe' = [started |-> now, count |-> IF probe.count < 2 THEN probe.count + 1 ELSE 2]
    /\ lasting' = broken \cap Faults
    /\ UNCHANGED <<world, verdicts, result, overlooked, since, ever>>

Seen(outage, value) == IF outage \in broken THEN "error" ELSE value
Differs(faults) == IF faults \cap broken # {} THEN "differs" ELSE "expected"

\* The client's path is the port-forward of the quote's own control.
Quoted(case) ==
    Seen("quote_control",
         IF "route" \in broken THEN "http_503"
         ELSE IF "arithmetic" \in broken /\ case = "available-single"
              THEN "wrong_body" ELSE "expected")

\* One observation of collect, in its order.
Reads(name, next, update) ==
    /\ step = name /\ step' = next /\ snapshot' = update
    /\ UNCHANGED <<world, probe, verdicts, result, history>>

ReadQuoteControl ==
    Reads("quote_control", "inventory_control",
          [snapshot EXCEPT !.controls["quote_control"] = Seen("quote_control", "expected")])
ReadInventoryControl ==
    Reads("inventory_control", "database",
          [snapshot EXCEPT !.controls["inventory_control"] = Seen("inventory_control", "expected")])
ReadDatabase ==
    Reads("database", "service", [snapshot EXCEPT !.database = Seen("database", Differs({"data"}))])
ReadService ==
    Reads("service", "quotes",
          [snapshot EXCEPT !.service = Seen("service", Differs({"route"}))])
ReadQuote(case) ==
    /\ snapshot.quotes[case] = "absent"
    /\ Reads("quotes", IF \A c \in Cases \ {case} : snapshot.quotes[c] # "absent"
                       THEN "judge" ELSE "quotes",
             [snapshot EXCEPT !.quotes[case] = Quoted(case)])

Read == \/ ReadQuoteControl \/ ReadInventoryControl \/ ReadDatabase \/ ReadService
        \/ \E c \in Cases : ReadQuote(c)

\* Bug: the window closes when the deadline passes, whenever the probe began.
LastByClock == now >= Window /\ probe.count >= 2
\* The last probe is one that started at or after the deadline.
Last == probe.started >= Window /\ probe.count >= 2

Judge(verdict) ==
    /\ verdicts' = verdicts \cup {verdict}
    /\ step' = IF Last THEN "done" ELSE "idle"
    /\ result' = IF Last THEN WindowVerdict(verdicts') ELSE result
    /\ overlooked' = overlooked \cup lasting
    /\ snapshot' = Blank /\ lasting' = {}
    /\ UNCHANGED <<now, broken, probe, since, ever>>

EndProbe == step = "judge" /\ Judge(Evaluate(snapshot)) /\ UNCHANGED left

\* An exception of the collector makes the probe indeterminate.
CollectorFails ==
    /\ step \notin {"idle", "judge", "done"} /\ left > 0 /\ left' = left - 1
    /\ Judge(Indeterminate)

Next ==
    \/ \E x \in Faults \cup Outages : Change(x)
    \/ Tick \/ StartProbe \/ Read \/ EndProbe \/ CollectorFails

(***************************************************************************)
(* Properties.                                                             *)
(***************************************************************************)

\* A fault that outlasted one whole probe, anywhere in the window, is never
\* reported as success, whatever later probes saw (run_window).
LastingFaultIsNoSuccess == result = Success => overlooked = {}

\* A fault that is there from the deadline on is never reported as success: the
\* last probe begins at or after the deadline (run_window).
FaultAtTheDeadlineIsSeen == result = Success => since = {}

\* BUILD_PLAN.md:64: a broken dependency of the verifier is indeterminate, so a
\* reported failure was a fault of the service and not of the measurement.
FailureWasAFault == result = Failure => ever # {}

\* A verdict says no more than was seen, and no less.
VerdictIsSound ==
    /\ TypeOK /\ LastingFaultIsNoSuccess /\ FaultAtTheDeadlineIsSeen /\ FailureWasAFault

Ended == result # "none"
=============================================================================
