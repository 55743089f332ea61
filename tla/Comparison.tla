----------------------------- MODULE Comparison -----------------------------
(***************************************************************************)
(* The frozen comparison of the two operation contracts (customer benefit  *)
(* and contract confirmation): every case of the plan runs once, in one of *)
(* the shards, whose process may be killed; the shards' artifacts are      *)
(* collected, may be lost or damaged, are reproduced from raw evidence and *)
(* only then yield a selection.                                            *)
(***************************************************************************)
EXTENDS Naturals, FiniteSets, Sequences, SequencesExt

CONSTANTS
    Contexts,     \* the contexts of this instance
    GainContext,  \* the one in which precise must do strictly better
    Order,        \* plan: for each shard, the order of its cases
    MaxHealthy,   \* bound: healthy slots of the calendar
    MaxDamage     \* bound: damaged artifacts

ComparisonAssumption ==
    /\ GainContext \in Contexts /\ MaxHealthy \in Nat /\ MaxDamage \in Nat

Arms == {"legacy", "precise"}
Cases == Arms \X Contexts
Shards == DOMAIN Order
Mine(s) == Range(Order[s])
\* What the evaluation of a gate says, as far as a selection looks at it.
Evaluations == [eligible : BOOLEAN, healthy : 0 .. MaxHealthy, spent : 1 .. 2]
NoEvaluation == [eligible |-> FALSE, healthy |-> 0, spent |-> 0]

PlanAssumption == \A c \in Cases : Cardinality({s \in Shards : c \in Mine(s)}) = 1

VARIABLES
    shard,     \* each shard's process: "new", "between", "running", "ended", "killed"
    ledger,    \* result.json of each shard, on disk
    gate,      \* each case's gate: status, raw evidence and the two exports
    receipt,   \* reproduction.json
    attempts,  \* history: how often a case was provisioned
    measured,  \* history: what each passed case measured
    damage

vars == <<shard, ledger, gate, receipt, attempts, measured, damage>>

NoGate == [status |-> "none", raw |-> NoEvaluation, a |-> NoEvaluation, b |-> NoEvaluation]
NoReceipt == [status |-> "none", selected |-> "none", evaluations |-> [c \in Cases |-> NoEvaluation]]

Init ==
    /\ shard = [s \in Shards |-> "new"]
    /\ ledger = [s \in Shards |-> [status |-> "absent", unrun |-> {}, cases |-> <<>>]]
    /\ gate = [c \in Cases |-> NoGate] /\ receipt = NoReceipt
    /\ attempts = [c \in Cases |-> 0] /\ measured = [c \in Cases |-> NoEvaluation]
    /\ damage = 0
---------------------------------------------------------------------------
(* run_shard: every step ends with its ledger on disk. *)

\* mkdir with exist_ok=False: a destination serves one start.
MayStart(s) == shard[s] = "new"

Start(s) ==
    /\ MayStart(s) /\ receipt = NoReceipt
    /\ shard' = [shard EXCEPT ![s] = "between"]
    /\ ledger' = [ledger EXCEPT ![s] =
                    [status |-> "failed", unrun |-> Mine(s), cases |-> <<>>]]
    /\ UNCHANGED <<gate, receipt, attempts, measured, damage>>

Position(s) == Len(ledger[s].cases)
Current(s) == Order[s][Position(s)]

Taken(s) == [ledger[s] EXCEPT !.unrun = @ \ {Order[s][Position(s) + 1]},
                              !.cases = Append(@, "attempting")]

\* The next case is listed as attempted, and then provisioned.
Take(s) ==
    /\ shard[s] = "between" /\ Position(s) < Len(Order[s])
    /\ shard' = [shard EXCEPT ![s] = "running"]
    /\ ledger' = [ledger EXCEPT ![s] = Taken(s)]
    /\ attempts' = [attempts EXCEPT ![Order[s][Position(s) + 1]] = @ + 1]
    /\ UNCHANGED <<gate, receipt, measured, damage>>

Listed(s, status) == [ledger EXCEPT ![s].cases[Position(s)] = status]

\* run_case: both exports are of the raw evidence, and equal.
Passes(s, e) ==
    /\ shard[s] = "running" /\ Position(s) > 0
    /\ shard' = [shard EXCEPT ![s] = "between"]
    /\ ledger' = Listed(s, "passed")
    /\ gate' = [gate EXCEPT ![Current(s)] = [status |-> "passed", raw |-> e, a |-> e, b |-> e]]
    /\ measured' = [measured EXCEPT ![Current(s)] = e]
    /\ UNCHANGED <<receipt, attempts, damage>>

\* A failed attempt is retained, with whatever its gate holds.
Fails(s) ==
    /\ shard[s] = "running" /\ Position(s) > 0
    /\ shard' = [shard EXCEPT ![s] = "between"]
    /\ ledger' = Listed(s, "failed")
    /\ gate' = [gate EXCEPT ![Current(s)].status = "failed"]
    /\ UNCHANGED <<receipt, attempts, measured, damage>>

End(s) ==
    /\ shard[s] = "between" /\ Position(s) = Len(Order[s])
    /\ shard' = [shard EXCEPT ![s] = "ended"]
    /\ ledger' = [ledger EXCEPT ![s].status =
                    IF \A k \in DOMAIN ledger[s].cases : ledger[s].cases[k] = "passed"
                    THEN "passed" ELSE "failed"]
    /\ UNCHANGED <<gate, receipt, attempts, measured, damage>>

\* The shard's process or its machine is lost; its artifacts are not.
Kill(s) ==
    /\ shard[s] \in {"between", "running"} /\ damage < MaxDamage
    /\ shard' = [shard EXCEPT ![s] = "killed"] /\ damage' = damage + 1
    /\ UNCHANGED <<ledger, gate, receipt, attempts, measured>>
---------------------------------------------------------------------------
(* The artifacts on their way to the reproduction. *)

Collected == receipt = NoReceipt /\ \A s \in Shards : shard[s] \in {"ended", "killed"}

Damage(c) ==
    /\ Collected /\ damage < MaxDamage /\ gate[c] # NoGate
    /\ damage' = damage + 1
    /\ \/ gate' = [gate EXCEPT ![c] = NoGate]
       \/ \E e \in Evaluations : \/ gate' = [gate EXCEPT ![c].raw = e]
                                 \/ gate' = [gate EXCEPT ![c].a = e]
    /\ UNCHANGED <<shard, ledger, receipt, attempts, measured>>
---------------------------------------------------------------------------
(* reproduce and select. *)

CompleteLedger(s) == ledger[s].status = "passed" /\ ledger[s].unrun = {}

\* The raw evidence is evaluated again, and gives both original exports.
Reproduces(c) == gate[c].status = "passed" /\ gate[c].raw = gate[c].a /\ gate[c].raw = gate[c].b

Complete == \A s \in Shards : CompleteLedger(s) /\ \A c \in Mine(s) : Reproduces(c)

\* Bug: more healthy slots in all are enough.
GainInAll(e) == \E x \in Contexts : e[<<"precise", x>>].healthy > e[<<"legacy", x>>].healthy

\* No fewer healthy slots and no more dispatches anywhere, and more in one context.
Gain(e) ==
    /\ \A x \in Contexts : /\ e[<<"precise", x>>].healthy >= e[<<"legacy", x>>].healthy
                           /\ e[<<"precise", x>>].spent <= e[<<"legacy", x>>].spent
    /\ e[<<"precise", GainContext>>].healthy > e[<<"legacy", GainContext>>].healthy

Selected(e) == IF \E c \in Cases : ~e[c].eligible THEN "withheld"
               ELSE IF Gain(e) THEN "precise" ELSE "legacy"

\* The negative controls may fail, which withholds the selection.
Reproduce(qualified) ==
    /\ Collected
    /\ receipt' = LET e == [c \in Cases |-> gate[c].raw]
                  IN IF Complete /\ qualified
                     THEN [status |-> "complete", selected |-> Selected(e), evaluations |-> e]
                     ELSE [NoReceipt EXCEPT !.status = "incomplete"]
    /\ UNCHANGED <<shard, ledger, gate, attempts, measured, damage>>

Works(s) == Start(s) \/ Take(s) \/ (\E e \in Evaluations : Passes(s, e)) \/ Fails(s) \/ End(s)

Next ==
    \/ \E s \in Shards : Works(s) \/ Kill(s)
    \/ \E c \in Cases : Damage(c)
    \/ \E qualified \in BOOLEAN : Reproduce(qualified)

---------------------------------------------------------------------------
TypeOK ==
    /\ shard \in [Shards -> {"new", "between", "running", "ended", "killed"}]
    /\ \A s \in Shards : /\ ledger[s].status \in {"absent", "failed", "passed"}
                         /\ ledger[s].unrun \subseteq Mine(s)
                         /\ Range(ledger[s].cases) \subseteq {"attempting", "passed", "failed"}
    /\ \A c \in Cases : gate[c].status \in {"none", "failed", "passed"}
    /\ receipt.status \in {"none", "incomplete", "complete"}
    /\ receipt.selected \in {"none", "withheld", "legacy", "precise"}
    /\ damage \in 0 .. MaxDamage

\* attempts_per_case is 1: no case is provisioned twice, whatever happened to the
\* first attempt and to the shard that made it.
OneAttempt == \A c \in Cases : attempts[c] <= 1

\* Every attempt is in its shard's ledger on disk while it runs and for ever after,
\* and the cases listed and those still unrun are always the whole shard.
AttemptsAreRetained ==
    \A s \in Shards : ledger[s].status # "absent" =>
        LET listed == {Order[s][k] : k \in DOMAIN ledger[s].cases}
        IN /\ {c \in Mine(s) : attempts[c] > 0} \subseteq listed
           /\ listed \cup ledger[s].unrun = Mine(s) /\ listed \cap ledger[s].unrun = {}

\* A complete reproduction rests on what the one attempt of every case measured.
CompleteIsWhatWasMeasured ==
    receipt.status = "complete" =>
        /\ \A c \in Cases : attempts[c] = 1
        /\ receipt.evaluations = measured

\* A contract is selected over the other only when every case was eligible, and it
\* was nowhere worse; without a complete reproduction nothing is selected.
SelectedIsNowhereWorse ==
    /\ receipt.selected # "none" => receipt.status = "complete"
    /\ receipt.selected = "precise" =>
          \A x \in Contexts : /\ measured[<<"precise", x>>].eligible
                              /\ measured[<<"legacy", x>>].eligible
                              /\ measured[<<"precise", x>>].healthy >= measured[<<"legacy", x>>].healthy
                              /\ measured[<<"precise", x>>].spent <= measured[<<"legacy", x>>].spent

\* What a comparison selects was measured, once, and is nowhere worse.
SelectionIsSound ==
    /\ TypeOK /\ OneAttempt /\ AttemptsAreRetained /\ CompleteIsWhatWasMeasured
    /\ SelectedIsNowhereWorse

Ended == receipt.status # "none"
=============================================================================
