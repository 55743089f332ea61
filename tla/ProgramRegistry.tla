-------------------------- MODULE ProgramRegistry --------------------------
(***************************************************************************)
(* The admission registry: the SQLite ledger in which controllers promote  *)
(* and withdraw evaluated procedures, episodes pin the active one, and the *)
(* broker gets a one-use authorization for each dispatch.                  *)
(*                                                                         *)
(* Every method is one transaction under the ledger's write lock, hence    *)
(* one action here.  What lies between two of them is the point: a         *)
(* controller decides on a revision it read earlier, and an episode holds  *)
(* the pin it was given however the ledger moves on.                       *)
(***************************************************************************)
EXTENDS Integers, Sequences

CONSTANTS
  Versions,       \* digests of evaluated definitions
  Selectable,     \* those _selection accepts, frozen from the running sources
  Episodes,       \* episode identifiers
  Ops,            \* operation identifiers
  Controllers,    \* administrative processes
  MaxRevision,    \* bound: the decisions explored
  Nil             \* no version, no pin, no authorization

ASSUME SelectableAssumption == Selectable \subseteq Versions
ASSUME NoVersionAssumption  == Nil \notin Versions
ASSUME RevisionAssumption   == MaxRevision \in Nat

VARIABLES
  revision, active, activeRevision,   \* the state row
  admitted, withdrawn,                \* the rows of versions, those marked
  decisions,                          \* the decision ledger, by revision
  pins, grants,                       \* the rows of pins and authorizations
  seen                                \* the revision a controller last read

vars == <<revision, active, activeRevision, admitted, withdrawn, decisions,
          pins, grants, seen>>

Kinds    == {"promoted", "rejected", "withdrawn"}
Decision == [kind : Kinds, version : Versions]
Pin      == [version : Versions, revision : 1..MaxRevision]
Grant    == [episode : Episodes, version : Versions,
             activation : 1..MaxRevision, decision : 1..MaxRevision]

Init ==
  /\ revision       = 0
  /\ active         = Nil
  /\ activeRevision = 0
  /\ admitted       = {}
  /\ withdrawn      = {}
  /\ decisions      = <<>>
  /\ pins           = [e \in Episodes |-> Nil]
  /\ grants         = [o \in Ops |-> Nil]
  /\ seen           = [c \in Controllers |-> 0]

-----------------------------------------------------------------------------
(* Administration.                                                         *)

\* state: the revision a later decision will be conditional on.
ReadState(c) ==
  /\ seen' = [seen EXCEPT ![c] = revision]
  /\ UNCHANGED <<revision, active, activeRevision, admitted, withdrawn,
                 decisions, pins, grants>>

\* Bug: a withdrawn version may be promoted again on new evidence.
PromoteAnything(c, v, eligible) ==
  /\ seen[c] = revision
  /\ revision < MaxRevision
  /\ revision'  = revision + 1
  /\ decisions' = Append(decisions,
       [kind |-> IF eligible THEN "promoted" ELSE "rejected", version |-> v])
  /\ IF eligible
     THEN /\ admitted'       = admitted \cup {v}
          /\ active'         = v
          /\ activeRevision' = revision + 1
     ELSE UNCHANGED <<admitted, active, activeRevision>>
  /\ UNCHANGED <<withdrawn, pins, grants, seen>>

\* promote: the evidence is evaluated outside the transaction, which decides
\* on the revision the controller saw and never on a withdrawn version.  An
\* ineligible candidate is a recorded decision that activates nothing.
Promote(c, v, eligible) ==
  /\ seen[c] = revision
  /\ v \notin withdrawn
  /\ revision < MaxRevision
  /\ revision'  = revision + 1
  /\ decisions' = Append(decisions,
       [kind |-> IF eligible THEN "promoted" ELSE "rejected", version |-> v])
  /\ IF eligible
     THEN /\ admitted'       = admitted \cup {v}
          /\ active'         = v
          /\ activeRevision' = revision + 1
     ELSE UNCHANGED <<admitted, active, activeRevision>>
  /\ UNCHANGED <<withdrawn, pins, grants, seen>>

\* withdraw: terminal for the active version, silent on every pin.
Withdraw(c) ==
  /\ seen[c] = revision
  /\ active # Nil
  /\ revision < MaxRevision
  /\ revision'       = revision + 1
  /\ decisions'      = Append(decisions, [kind |-> "withdrawn", version |-> active])
  /\ withdrawn'      = withdrawn \cup {active}
  /\ active'         = Nil
  /\ activeRevision' = 0
  /\ UNCHANGED <<admitted, pins, grants, seen>>

-----------------------------------------------------------------------------
(* Episodes and authorizations.                                            *)

\* start_episode: a fresh episode pins the active version and activation.
StartEpisode(e) ==
  /\ pins[e] = Nil
  /\ active # Nil
  /\ active \notin withdrawn
  /\ active \in Selectable
  /\ pins' = [pins EXCEPT ![e] = [version |-> active, revision |-> activeRevision]]
  /\ UNCHANGED <<revision, active, activeRevision, admitted, withdrawn,
                 decisions, grants, seen>>

\* authorize, its checks: the very activation the episode pinned is still in
\* force and the operation has never been authorized.
MayAuthorize(o, e) ==
  /\ pins[e] # Nil
  /\ active = pins[e].version
  /\ activeRevision = pins[e].revision
  /\ active \notin withdrawn
  /\ active \in Selectable
  /\ grants[o] = Nil

\* authorize: the broker, for an operation of episode e and with its pin.
Authorize(o, e) ==
  /\ MayAuthorize(o, e)
  /\ grants' = [grants EXCEPT ![o] =
       [episode |-> e, version |-> pins[e].version,
        activation |-> pins[e].revision, decision |-> revision]]
  /\ UNCHANGED <<revision, active, activeRevision, admitted, withdrawn,
                 decisions, pins, seen>>

\* authorization: read back just before the one API call, whatever the
\* ledger has decided since.
Authorized(o, e) ==
  /\ grants[o] # Nil
  /\ pins[e] # Nil
  /\ grants[o].episode = e
  /\ grants[o].version = pins[e].version
  /\ grants[o].activation = pins[e].revision

-----------------------------------------------------------------------------
Administration ==
  \E c \in Controllers :
    \/ ReadState(c)
    \/ \E v \in Versions, eligible \in BOOLEAN : Promote(c, v, eligible)
    \/ Withdraw(c)

Next ==
  \/ Administration
  \/ \E e \in Episodes : StartEpisode(e) \/ \E o \in Ops : Authorize(o, e)

Spec == Init /\ [][Next]_vars

-----------------------------------------------------------------------------
TypeOK ==
  /\ revision       \in 0..MaxRevision
  /\ active         \in Versions \cup {Nil}
  /\ activeRevision \in 0..MaxRevision
  /\ admitted       \in SUBSET Versions
  /\ withdrawn      \in SUBSET Versions
  /\ decisions      \in Seq(Decision)
  /\ pins           \in [Episodes -> Pin \cup {Nil}]
  /\ grants         \in [Ops -> Grant \cup {Nil}]
  /\ seen           \in [Controllers -> 0..MaxRevision]

\* In the ledger's first n decisions, v was promoted at `since` and every
\* decision from then on left it active.
ActiveSince(ledger, v, since, n) ==
  /\ since \in 1..n
  /\ ledger[since] = [kind |-> "promoted", version |-> v]
  /\ \A r \in since + 1..n : ledger[r].kind = "rejected"

\* The state row is what replaying the ledger gives: the last promotion
\* unless it was withdrawn, and nothing else.
StateReplays ==
  /\ revision = Len(decisions)
  /\ active # Nil => ActiveSince(decisions, active, activeRevision, revision) /\ active \notin withdrawn
  /\ active = Nil =>
       \A r \in 1..revision : decisions[r].kind = "promoted" =>
         \E s \in r + 1..revision : decisions[s].kind = "withdrawn"

\* An authorization is ordered by the ledger, not by a clock: at the decision
\* it names, the version and activation it names were in force.  An auditor
\* who has the ledger can tell it from one that lost against a withdrawal.
GrantsWereActive ==
  \A o \in Ops : grants[o] # Nil =>
    /\ grants[o].decision <= revision
    /\ ActiveSince(decisions, grants[o].version, grants[o].activation, grants[o].decision)

\* A pin names a promotion the ledger holds.
PinsWerePromoted ==
  \A e \in Episodes : pins[e] # Nil =>
    /\ pins[e].revision <= revision
    /\ decisions[pins[e].revision] = [kind |-> "promoted", version |-> pins[e].version]

\* What the ledger withdrew is marked in its row.
WithdrawnAreMarked ==
  \A r \in 1..Len(decisions) :
    decisions[r].kind = "withdrawn" => decisions[r].version \in withdrawn

\* Withdrawal is terminal: the ledger holds no later decision on the version.
WithdrawalIsTerminal ==
  \A i, j \in 1..Len(decisions) :
    i < j /\ decisions[i].kind = "withdrawn" => decisions[j].version # decisions[i].version

\* What the ledger said stays said: decisions are only appended, no pin and no
\* authorization is ever changed or withdrawn.
LedgerOnlyGrows ==
  [][/\ \A r \in 1..Len(decisions) : r <= Len(decisions') /\ decisions'[r] = decisions[r]
     /\ \A e \in Episodes : pins[e] # Nil => pins'[e] = pins[e]
     /\ \A o \in Ops : grants[o] # Nil => grants'[o] = grants[o]]_vars

\* Over any interleaving of controllers and episodes the ledger is replayable,
\* ordered and final, and nothing written to it is taken back.
LedgerStands ==
  [](TypeOK /\ StateReplays /\ GrantsWereActive /\ WithdrawalIsTerminal) /\ LedgerOnlyGrows

=============================================================================
