--------------------------- MODULE SampleCalendar ---------------------------
(***************************************************************************)
(* The frozen measurement calendar of a campaign: the observer's loop      *)
(* (campaign.observe), which may be stopped, delayed or killed, and the    *)
(* scorecard computed from what it saved (campaign_report.scorecard).      *)
(* Time is counted from the start of the window; health is what the        *)
(* service really was, which no program reads but through a measurement.   *)
(***************************************************************************)
EXTENDS Naturals

CONSTANTS
    Slots,      \* duration_seconds // sample_interval_seconds
    Interval,   \* sample_interval_seconds
    Lateness,   \* sample_lateness_seconds
    Changes     \* how often the health of the service may change

CalendarAssumption ==
    /\ Slots \in Nat \ {0} /\ Interval \in Nat /\ Lateness \in Nat
    /\ Lateness < Interval /\ Changes \in Nat

VARIABLES
    now,        \* seconds since the window opened
    healthy,    \* the service's health at this moment
    sick,       \* the moments at which it was not healthy
    observer,   \* the observer: its slot, what it does, when it started
    samples,    \* samples/NNNN.json
    left        \* remaining changes of health

vars == <<now, healthy, sick, observer, samples, left>>

Calendar == 0 .. (Slots - 1)
End == Slots * Interval
Scheduled(slot) == slot * Interval
Verdicts == {"verified_success", "verified_failure", "indeterminate", "error"}
Missing == [started |-> 0, finished |-> 0, observed |-> "missing"]

Init ==
    /\ now = 0 /\ healthy \in BOOLEAN
    /\ sick = IF healthy THEN {} ELSE {0}
    /\ observer = [slot |-> 0, pc |-> "sleep", started |-> 0]
    /\ samples = [s \in Calendar |-> Missing]
    /\ left = Changes

TypeOK ==
    /\ now \in 0 .. (End + Interval) /\ healthy \in BOOLEAN
    /\ sick \subseteq 0 .. (End + Interval)
    /\ observer \in [slot : 0 .. Slots, started : 0 .. End,
                     pc : {"sleep", "measure", "save", "finished", "failed"}]
    /\ samples \in [Calendar -> [started : 0 .. End, finished : 0 .. End,
                                 observed : Verdicts \cup {"missing"}]]
    /\ left \in 0 .. Changes

\* The clock goes on while the observer sleeps, measures, is stopped by a
\* signal or waits for a slow disk; the health of the service may change.
Tick ==
    /\ now < End + Interval
    /\ now' = now + 1
    /\ \E h \in BOOLEAN :
        /\ left >= IF h = healthy THEN 0 ELSE 1
        /\ left' = IF h = healthy THEN left ELSE left - 1
        /\ healthy' = h
        /\ sick' = IF h THEN sick ELSE sick \cup {now + 1}
    /\ UNCHANGED <<observer, samples>>

\* The owner ends the window: owner_alive refuses, or the observer is killed.
Ended == now >= End

\* Bug: any start before the next slot is good enough.
NeverTooLate(started, slot) == started >= Scheduled(slot) + Interval
TooLate(started, slot) == started - Scheduled(slot) > Lateness

\* The loop goes on to its next slot, and ends after the last one.
Advance == IF observer.slot + 1 = Slots
           THEN [observer EXCEPT !.slot = Slots, !.pc = "finished"]
           ELSE [observer EXCEPT !.slot = @ + 1, !.pc = "sleep"]

\* sleep until the slot's time, ask for the owner, and start or leave the slot
\* missing.
StartSlot ==
    /\ observer.pc = "sleep"
    /\ now >= Scheduled(observer.slot) /\ ~Ended
    /\ observer' = IF TooLate(now, observer.slot) THEN Advance
                   ELSE [observer EXCEPT !.pc = "measure", !.started = now]
    /\ UNCHANGED <<now, healthy, sick, samples, left>>

\* A measurement takes time, and whoever is still measuring when the window ends
\* is killed.
Measured == now > observer.started /\ now <= End

\* verify() may be indeterminate or raise; a success or a
\* failure is what the service showed while it ran.
Shows(verdict, from, to) ==
    CASE verdict = "verified_success" -> \A t \in from .. to : t \notin sick
      [] verdict = "verified_failure" -> \E t \in from .. to : t \in sick
      [] OTHER -> TRUE

SaveSample ==
    /\ observer.pc = "measure" /\ Measured
    /\ \E verdict \in Verdicts :
        /\ Shows(verdict, observer.started, now)
        /\ samples' = [samples EXCEPT ![observer.slot] =
              [started |-> observer.started, finished |-> now,
               observed |-> verdict]]
    /\ observer' = Advance
    /\ UNCHANGED <<now, healthy, sick, left>>

ObserverEnds ==
    /\ observer.pc \in {"sleep", "measure"} /\ Ended
    /\ observer' = [observer EXCEPT !.pc = "failed"]
    /\ UNCHANGED <<now, healthy, sick, samples, left>>

\* The observer's process group is killed; there is no second start.
ObserverKilled ==
    /\ observer.pc \in {"sleep", "measure"}
    /\ observer' = [observer EXCEPT !.pc = "failed"]
    /\ UNCHANGED <<now, healthy, sick, samples, left>>

Next == \/ Tick \/ StartSlot \/ SaveSample
        \/ ObserverEnds \/ ObserverKilled

(***************************************************************************)
(* scorecard().                                                            *)
(***************************************************************************)
Timely(slot) ==
    LET s == samples[slot]
        limit == IF Scheduled(slot) + Interval < End
                 THEN Scheduled(slot) + Interval ELSE End
    IN  /\ Scheduled(slot) <= s.started /\ s.started <= Scheduled(slot) + Lateness
        /\ s.started <= s.finished /\ s.finished <= limit

Coverage(slot) == IF samples[slot] = Missing THEN "missing"
                  ELSE IF Timely(slot) THEN "on_time" ELSE "late"

Verdict(slot) ==
    IF Coverage(slot) = "on_time"
       /\ samples[slot].observed \in {"verified_success", "verified_failure"}
    THEN samples[slot].observed ELSE "unknown"

(***************************************************************************)
(* Properties: of states, and of steps.                                    *)
(***************************************************************************)

\* A slot is credited only with what the service was during that slot, never
\* with an earlier failure or a later recovery (observe, scorecard).
During(slot) == {t \in 0 .. End : Scheduled(slot) <= t /\ t <= Scheduled(slot) + Interval}
CreditIsAboutTheSlot ==
    \A slot \in Calendar :
        /\ Verdict(slot) = "verified_success" => During(slot) \ sick # {}
        /\ Verdict(slot) = "verified_failure" => During(slot) \cap sick # {}

\* Once a slot's lateness has passed without a measurement of it running, it is
\* unknown for ever: no later healthy sample fills it (observe).
GivenUp(slot) ==
    /\ now > Scheduled(slot) + Lateness /\ Coverage(slot) = "missing"
    /\ ~(observer.pc = "measure" /\ observer.slot = slot)
MissedStaysUnknown ==
    \A slot \in Calendar : GivenUp(slot) => GivenUp(slot)'

\* A measurement that outlasts its slot costs the next ones, not the calendar:
\* when the loop finished, every slot it left missing was reached too late.
OnlyLateSlotsAreSkipped ==
    \A slot \in Calendar :
        observer.slot = slot /\ observer'.slot > slot /\ samples'[slot] = Missing
            => now > Scheduled(slot) + Lateness

CalendarIsKept == MissedStaysUnknown /\ OnlyLateSlotsAreSkipped
=============================================================================
