---------------------------- MODULE CrashBarrier ----------------------------
(***************************************************************************)
(* The acceptance of crash recovery: a controller starts a real broker     *)
(* process (crash_worker.py) that stops at a barrier of one dispatch,      *)
(* kills it there (harness.kill_at_barrier), reopens its journal and       *)
(* judges what a restarted broker does with it (sigkill_acceptance).  The  *)
(* worker may hang, exit or write something else at any point; its journal *)
(* may be unreadable or empty afterwards.                                  *)
(***************************************************************************)
EXTENDS Naturals

CONSTANTS
    Timeout,    \* the controller's timeout_seconds, in ticks
    Misdeeds    \* bound on what goes wrong with the worker or its journal

BarrierAssumption == Timeout \in Nat \ {0} /\ Misdeeds \in Nat

Stages == {"after_intent", "after_dispatch"}
\* What the worker's broker has done so far.
Progress == {"nothing", "prepared", "dispatching", "patched"}

VARIABLES
    stage,      \* the stage under test
    worker,     \* "running", "barrier", "paused", "hung", "exited" or "killed"
    progress,   \* how far its broker came
    pipe,       \* its standard output: "empty", "part", "barrier", "other"
    sent,       \* PATCH calls on the wire: the worker's and the reopened broker's
    journal,    \* status of its operation, "none" or "unreadable"
    controller, \* "waiting", "kill", "raise", "reap", "inspect", "recover" or "over"
    waited,     \* ticks the controller has waited
    verdict,    \* "none", "passed", "failed" or "error"
    killedAt,   \* history: the progress at the kill
    left        \* remaining misdeeds

vars == <<stage, worker, progress, pipe, sent, journal, controller, waited,
          verdict, killedAt, left>>
child == <<worker, progress, pipe, sent, journal>>

Init ==
    /\ stage \in Stages
    /\ worker = "running" /\ progress = "nothing" /\ pipe = "empty"
    /\ sent = [worker |-> 0, reopened |-> 0] /\ journal = "none"
    /\ controller = "waiting" /\ waited = 0 /\ verdict = "none"
    /\ killedAt = "alive" /\ left = Misdeeds

TypeOK ==
    /\ stage \in Stages /\ worker \in {"running", "barrier", "paused", "hung", "exited", "killed"}
    /\ progress \in Progress /\ pipe \in {"empty", "part", "barrier", "other"}
    /\ sent \in [worker : 0 .. 1, reopened : 0 .. 1]
    /\ journal \in {"none", "prepared", "dispatching", "rejected", "uncertain", "unreadable"}
    /\ controller \in {"waiting", "kill", "raise", "reap", "inspect", "recover", "over"}
    /\ waited \in 0 .. Timeout
    /\ verdict \in {"none", "passed", "failed", "error"}
    /\ killedAt \in Progress \cup {"alive"} /\ left \in 0 .. Misdeeds
    /\ (controller = "over") = (verdict # "none")

(***************************************************************************)
(* The worker.                                                             *)
(***************************************************************************)

\* Where the hook of the stage stops the worker.
Barrier(point) == \/ stage = "after_intent" /\ point = "prepared"
                  \/ stage = "after_dispatch" /\ point = "patched"

Advances(from, to) ==
    /\ worker = "running" /\ progress = from /\ progress' = to
    /\ worker' = IF Barrier(to) THEN "barrier" ELSE "running"
    /\ UNCHANGED pipe

Prepare == Advances("nothing", "prepared") /\ journal' = "prepared" /\ UNCHANGED sent
Claim == Advances("prepared", "dispatching") /\ journal' = "dispatching" /\ UNCHANGED sent
Patch == /\ Advances("dispatching", "patched")
         /\ sent' = [sent EXCEPT !.worker = 1] /\ UNCHANGED journal
\* print(..., flush=True): the line may arrive in two reads; then the worker
\* pauses until it is killed.
Report ==
    /\ worker = "barrier" /\ worker' = "paused"
    /\ pipe' \in IF pipe = "empty" THEN {"part", "barrier"} ELSE {pipe}
    /\ UNCHANGED <<progress, sent, journal>>
Deliver == pipe = "part" /\ pipe' = "barrier" /\ UNCHANGED <<worker, progress, sent, journal>>
\* It hangs, dies, or something else is the first line it writes.
Misbehave ==
    /\ worker \in {"running", "barrier"} /\ left > 0
    /\ \/ worker' \in {"hung", "exited"} /\ UNCHANGED pipe
       \/ pipe = "empty" /\ pipe' = "other" /\ UNCHANGED worker
    /\ UNCHANGED <<progress, sent, journal>>

WorkerSteps ==
    /\ \/ (Prepare \/ Claim \/ Patch \/ Report \/ Deliver) /\ UNCHANGED left
       \/ Misbehave /\ left' = left - 1
    /\ UNCHANGED <<stage, controller, waited, verdict, killedAt>>

(***************************************************************************)
(* The controller.                                                         *)
(***************************************************************************)

Controls(from, to) == controller = from /\ controller' = to
Quiet == UNCHANGED <<stage, left>>

\* The first whole line is the barrier of this stage, operation and process.
ReadLine ==
    /\ controller = "waiting" /\ pipe \in {"barrier", "other"}
    /\ controller' = IF pipe = "barrier" THEN "kill" ELSE "raise"
    /\ Quiet /\ UNCHANGED <<child, waited, verdict, killedAt>>
EndOfFile ==
    /\ Controls("waiting", "raise") /\ worker = "exited" /\ pipe \in {"empty", "part"}
    /\ Quiet /\ UNCHANGED <<child, waited, verdict, killedAt>>
Wait ==
    /\ controller = "waiting" /\ waited < Timeout /\ waited' = waited + 1
    /\ Quiet /\ UNCHANGED <<child, controller, verdict, killedAt>>
\* Bug: the deadline binds only a worker that wrote nothing.
ExpireSilent ==
    /\ Controls("waiting", "raise") /\ waited = Timeout /\ pipe = "empty"
    /\ Quiet /\ UNCHANGED <<child, waited, verdict, killedAt>>
Expire ==
    /\ Controls("waiting", "raise") /\ waited = Timeout
    /\ Quiet /\ UNCHANGED <<child, waited, verdict, killedAt>>

Dead(state) == IF state \in {"exited", "killed"} THEN state ELSE "killed"

\* process.kill() and wait: only a death by SIGKILL goes on.
Kill ==
    /\ controller = "kill"
    /\ worker' = Dead(worker) /\ killedAt' = progress
    /\ controller' = IF worker' = "killed" THEN "inspect" ELSE "raise"
    /\ Quiet /\ UNCHANGED <<progress, pipe, sent, journal, waited, verdict>>
\* The finally clause: whatever went wrong, the worker is killed and reaped.
CleanUp ==
    /\ Controls("raise", "over") /\ verdict' = "error"
    /\ worker' = Dead(worker)
    /\ killedAt' = IF worker' = "killed" /\ killedAt = "alive" THEN progress ELSE killedAt
    /\ Quiet /\ UNCHANGED <<progress, pipe, sent, journal, waited>>

\* The journal is read on its own before a broker opens it: unreadable, or
\* without the operation, the check fails.
Inspect ==
    /\ controller = "inspect"
    /\ \/ /\ controller' = "recover" /\ UNCHANGED <<verdict, journal, left>>
       \/ /\ left > 0 /\ left' = left - 1 /\ journal' \in {"unreadable", "none"}
          /\ controller' = "over" /\ verdict' = "failed"
    /\ UNCHANGED <<stage, worker, progress, pipe, sent, waited, killedAt>>

Accepted(before) ==
    /\ before = IF stage = "after_intent" THEN "prepared" ELSE "dispatching"
    /\ sent'.reopened = 0
    /\ sent'.worker = IF stage = "after_intent" THEN 0 ELSE 1

\* What a reopened broker does: a disabled policy rejects the resumed intent;
\* an open dispatch is reconciled to uncertain and neither proposed again nor
\* resumed.  A faulty broker would send it again: the check must not pass then.
Recover ==
    /\ Controls("recover", "over")
    /\ journal' = IF stage = "after_intent" /\ journal = "prepared" THEN "rejected"
                  ELSE IF stage = "after_dispatch" /\ journal = "dispatching" THEN "uncertain"
                  ELSE journal
    /\ \/ UNCHANGED <<sent, left>>
       \/ left > 0 /\ left' = left - 1 /\ sent' = [sent EXCEPT !.reopened = 1]
    /\ verdict' = IF Accepted(journal) THEN "passed" ELSE "failed"
    /\ UNCHANGED <<stage, worker, progress, pipe, waited, killedAt>>

\* The controller works through, whatever the worker does.
Controller ==
    \/ ReadLine \/ EndOfFile \/ Wait \/ Expire \/ Kill \/ CleanUp \/ Inspect \/ Recover
Next == WorkerSteps \/ Controller

(***************************************************************************)
(* Properties.                                                             *)
(***************************************************************************)

\* A passed check is evidence of what its name says: the process died exactly
\* at its stage, its call was sent as often as the stage implies, and nothing
\* was sent after the restart (sigkill_acceptance).
PassedIsEvidence ==
    verdict = "passed" =>
        /\ killedAt = IF stage = "after_intent" THEN "prepared" ELSE "patched"
        /\ sent = [worker |-> IF stage = "after_intent" THEN 0 ELSE 1, reopened |-> 0]

\* A kill that is not an error's clean-up never lands between two stages: the
\* worker waits at its barrier however slow the controller is (crash_worker).
KilledAtItsBarrier ==
    controller \in {"inspect", "recover"} =>
        killedAt = IF stage = "after_intent" THEN "prepared" ELSE "patched"

\* Whatever happened, no worker outlives its check, free to send later.
NoWorkerLeft == controller = "over" => worker \in {"exited", "killed"}

\* A check passes for what it claims only, and leaves no worker.
CheckIsSound == TypeOK /\ PassedIsEvidence /\ KilledAtItsBarrier /\ NoWorkerLeft

Ended == controller = "over"
=============================================================================
