---------------------------- MODULE FixedActors ----------------------------
(***************************************************************************)
(* The authored decision actors: the runbook under a program's decisions   *)
(* (runbook.py, procedure.py) and the reconciler with a fixed intent       *)
(* (desired_state.py).  Each uses the toolbox once, in a fresh workspace.  *)
(* The toolbox may answer anything that the world admits; the actor must   *)
(* not repair twice, nor claim what it has not verified.                   *)
(***************************************************************************)
EXTENDS Naturals, Sequences

Choices == [backend_unavailable : {"escalate", "verify"},
            repairable_routing : {"escalate", "repair"},
            conditional_rejection : {"escalate", "refresh"}]

Kinds == {"runbook", "reconciler"}

\* How an operation is reported.  api_rejected_409 and _422 are rejections of
\* a conditional patch ("conflict"); "error" is no report at all.
Statuses == {"acknowledged", "conflict", "rejected", "uncertain", "desired", "dispatching",
             "prepared", "error"}

VARIABLES
  kind, decisions,  \* the actor
  pc,
  seen,             \* the last service, backend and application observations
  operation,        \* what the actor knows of its last proposal
  landed,           \* for each proposal, whether the Service was changed by it
  verdicts,         \* verdicts of the verifier, with the number of proposals before
  claim             \* "none", "healthy", "resolved", "escalated"

vars == <<kind, decisions, pc, seen, operation, landed, verdicts, claim>>

Observations == [scope : BOOLEAN,                        \* _service_scope found the one port
                 backend : {"works", "broken", "error"}, \* _backend_works; no response
                 application : {"correct", "unavailable", "other"},
                 target : BOOLEAN]                       \* the port is the backend's, or the intent's

TypeOK ==
  /\ kind \in Kinds /\ decisions \in Choices
  /\ pc \in {"observe", "decide", "propose", "reply", "reobserve", "refresh", "lookup",
             "judge", "verify", "conclude", "done"}
  /\ seen \in Observations /\ operation \in Statuses \cup {"none"}
  /\ landed \in Seq(BOOLEAN)
  /\ \A k \in DOMAIN verdicts : verdicts[k] \in [passed : BOOLEAN, after : Nat]
  /\ claim \in {"none", "healthy", "resolved", "escalated"}

\* A workspace with earlier calls is refused (runbook.py:138, procedure.py:82).
Init ==
  /\ kind \in Kinds /\ decisions \in Choices
  /\ pc = "observe" /\ operation = "none" /\ landed = <<>> /\ verdicts = <<>> /\ claim = "none"
  /\ seen = [scope |-> FALSE, backend |-> "error", application |-> "other", target |-> FALSE]

Goto(label) == pc' = label /\ UNCHANGED <<kind, decisions>>

\* finish: a claim the toolbox refuses leaves none.
Finish(outcome) ==
  /\ claim' \in {outcome, "none"} /\ Goto("done")
  /\ UNCHANGED <<seen, operation, landed, verdicts>>

\* The three observations come before every first decision.
Observe ==
  /\ pc = "observe"
  /\ seen' \in Observations /\ Goto("decide")
  /\ UNCHANGED <<operation, landed, verdicts, claim>>

Correct == seen.application = "correct"

\* The cases in which the runbook asks the verifier without a repair.
LooksHealthy == seen.scope /\ seen.backend = "works" /\ Correct /\ seen.target
Unobservable == /\ seen.scope /\ seen.backend = "error"
                /\ decisions.backend_unavailable = "verify"

Repairable == /\ seen.scope /\ seen.backend = "works" /\ ~Correct /\ ~seen.target
              /\ decisions.repairable_routing = "repair"

Decide ==
  /\ pc = "decide" /\ kind = "runbook"
  /\ \/ (LooksHealthy \/ Unobservable) /\ Goto("verify")
     \/ Repairable /\ Goto("propose")
  /\ UNCHANGED <<seen, operation, landed, verdicts, claim>>

Decline ==
  /\ pc = "decide" /\ kind = "runbook"
  /\ ~LooksHealthy /\ ~Unobservable /\ ~Repairable
  /\ Finish("escalated")

\* The reconciler knows what the port should be and asks nobody.
Reconcile ==
  /\ pc = "decide" /\ kind = "reconciler"
  /\ \/ seen.scope /\ Goto(IF seen.target THEN "verify" ELSE "propose")
        /\ UNCHANGED <<seen, operation, landed, verdicts, claim>>
     \/ ~seen.scope /\ Finish("escalated")

\* What a report says of the effect: it was had, it was not, or either.
Truths(status) == CASE status = "acknowledged" -> {TRUE}
                    [] status \in {"conflict", "rejected"} -> {FALSE}
                    [] OTHER -> BOOLEAN

Propose ==
  /\ pc = "propose"
  /\ \E status \in Statuses \ {"desired"}, truth \in BOOLEAN :
       /\ truth \in Truths(status)
       /\ operation' = status
       /\ landed' = Append(landed, truth)
  /\ Goto("reply")
  /\ UNCHANGED <<seen, verdicts, claim>>

\* Bug: a report without a definite rejection is refreshed too.
RefreshAnything == decisions.conditional_rejection = "refresh" /\ kind = "runbook"

\* One new decision, and only after the first proposal's own rejection.
MayRefresh == /\ kind = "runbook" /\ decisions.conditional_rejection = "refresh"
              /\ operation = "conflict" /\ Len(landed) = 1

Refresh ==
  /\ pc = "reply" /\ MayRefresh
  /\ seen' \in Observations /\ Goto("refresh")
  /\ UNCHANGED <<operation, landed, verdicts, claim>>

\* The new observations must show the same fault at a newer version.
SameFault == /\ seen.scope /\ seen.backend = "works" /\ ~seen.target
             /\ seen.application = "unavailable"

\* Either the second proposal, or the first one's rejection stands.
RefreshDecided ==
  /\ pc = "refresh"
  /\ \/ SameFault /\ Goto("propose")
     \/ Goto("lookup")          \* a version that did not change, an observation lost
  /\ UNCHANGED <<seen, operation, landed, verdicts, claim>>

Open == {"uncertain", "dispatching", "prepared", "error"}

\* get_operation once, for a report that is open.
Lookup ==
  /\ pc \in {"reply", "lookup"}     \* also when the report shows no free slot to refresh in
  /\ IF operation \in Open
     THEN \E status \in Statuses :
            landed[Len(landed)] \in Truths(status) /\ operation' = status
     ELSE UNCHANGED operation
  /\ Goto("judge")
  /\ UNCHANGED <<seen, landed, verdicts, claim>>

\* Acknowledged, or uncertain with the desired state observed.
Settled == operation \in {"acknowledged", "desired"}

Judge ==
  /\ pc = "judge"
  /\ \/ /\ Settled /\ Goto("verify") /\ UNCHANGED <<seen, operation, landed, verdicts, claim>>
     \/ ~Settled /\ Finish("escalated")

Verify ==
  /\ pc = "verify"
  /\ \E passed \in BOOLEAN :
       verdicts' = Append(verdicts, [passed |-> passed, after |-> Len(landed)])
  /\ Goto("conclude")
  /\ UNCHANGED <<seen, operation, landed, claim>>

Conclusion == IF ~verdicts[Len(verdicts)].passed THEN "escalated"
              ELSE IF landed = <<>> THEN "healthy" ELSE "resolved"

Conclude == pc = "conclude" /\ Finish(Conclusion)

Next == \/ Observe \/ Decide \/ Decline \/ Reconcile \/ Propose \/ Refresh \/ RefreshDecided
        \/ Lookup \/ Judge \/ Verify \/ Conclude
---------------------------------------------------------------------------
(* Properties: of states, and of a step. *)

\* Whatever the world and the broker answer, one proposal at most lands
\* (runbook.py:79: a new decision is never a replay of an effect).
OneEffect == \A j, k \in DOMAIN landed : landed[j] /\ landed[k] => j = k

\* A claim of health rests on a verdict with no proposal before it, a claim of
\* recovery on a verdict after the last proposal, which may have landed.
ClaimsAreVerified ==
  LET last == verdicts[Len(verdicts)]
  IN /\ claim \in {"healthy", "resolved"} =>
           verdicts # <<>> /\ last.passed /\ last.after = Len(landed)
     /\ claim = "healthy" => landed = <<>>
     /\ claim = "resolved" => operation \in {"acknowledged", "desired"}

\* The runbook leaves an application that answers correctly alone, whatever the
\* Service says; a declining program never proposes (runbook.py:192).
WorkingIsLeftAlone ==
  kind = "runbook" /\ landed' # landed => ~Correct /\ decisions.repairable_routing = "repair"

\* Two proposals and one verification are all an actor makes of a run.
AttemptsAreFew == Len(landed) <= 2 /\ Len(verdicts) <= 1

ActorIsCareful == TypeOK /\ OneEffect /\ ClaimsAreVerified /\ AttemptsAreFew
===========================================================================
