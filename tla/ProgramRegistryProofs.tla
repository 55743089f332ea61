------------------------ MODULE ProgramRegistryProofs ------------------------
(***************************************************************************)
(* Theorems of ProgramRegistry, for any versions, episodes, operations and *)
(* controllers and any number of decisions.  The ledger is only appended   *)
(* to, so what was so of its first n decisions stays so; the invariant     *)
(* ties the state row, the pins and the authorizations to that prefix.     *)
(***************************************************************************)
EXTENDS ProgramRegistry, TLAPS

Inv ==
  /\ TypeOK
  /\ StateReplays
  /\ GrantsWereActive
  /\ PinsWerePromoted
  /\ WithdrawnAreMarked
  /\ WithdrawalIsTerminal

\* The ledger, and what is checked against it, after one more decision.
Decided(kind, v) ==
  /\ revision < MaxRevision
  /\ revision' = revision + 1
  /\ decisions' = Append(decisions, [kind |-> kind, version |-> v])
  /\ UNCHANGED <<pins, grants>>

\* A new registry satisfies the invariant (Registry.__init__).
LEMMA InitInv == Init => Inv
BY RevisionAssumption DEF Init, Inv, TypeOK, StateReplays, GrantsWereActive, PinsWerePromoted,
   WithdrawnAreMarked, WithdrawalIsTerminal, Decision

\* A decision leaves the ones before it in place.
LEMMA DecidedFacts ==
  ASSUME TypeOK, revision = Len(decisions), NEW kind \in Kinds, NEW v \in Versions, Decided(kind, v)
  PROVE  /\ decisions' \in Seq(Decision)
         /\ revision' \in 1..MaxRevision /\ revision' = Len(decisions')
         /\ decisions'[revision'] = [kind |-> kind, version |-> v]
         /\ \A r \in 1..revision : decisions'[r] = decisions[r]
BY RevisionAssumption DEF TypeOK, Decided, Decision

\* What was active in a prefix of the ledger is so in every extension.
LEMMA PrefixStays ==
  ASSUME NEW ledger, NEW longer, NEW n \in Nat, NEW v, NEW since \in Nat,
         \A r \in 1..n : longer[r] = ledger[r],
         ActiveSince(ledger, v, since, n)
  PROVE  ActiveSince(longer, v, since, n)
BY DEF ActiveSince

\* Pins and authorizations survive a decision.
LEMMA DecidedKeepsRows ==
  ASSUME Inv, NEW kind \in Kinds, NEW v \in Versions, Decided(kind, v)
  PROVE  GrantsWereActive' /\ PinsWerePromoted'
<1>1. TypeOK /\ revision = Len(decisions)
  BY DEF Inv, StateReplays
<1>2. ASSUME NEW o \in Ops, grants'[o] # Nil
      PROVE  /\ grants'[o].decision <= revision'
             /\ ActiveSince(decisions', grants'[o].version, grants'[o].activation,
                            grants'[o].decision)
  <2>1. grants'[o] = grants[o] /\ grants[o] \in Grant
    BY <1>1, <1>2 DEF Decided, TypeOK
  <2>2. /\ grants[o].decision \in 1..revision
        /\ ActiveSince(decisions, grants[o].version, grants[o].activation, grants[o].decision)
    BY <1>2, <2>1 DEF Inv, GrantsWereActive, Grant, TypeOK
  <2>3. \A r \in 1..revision : decisions'[r] = decisions[r]
    BY <1>1, DecidedFacts
  <2>4. ActiveSince(decisions', grants[o].version, grants[o].activation, grants[o].decision)
    <3>1. /\ grants[o].decision \in Nat /\ grants[o].activation \in Nat
          /\ \A r \in 1..grants[o].decision : decisions'[r] = decisions[r]
      BY <1>1, <2>1, <2>2, <2>3 DEF Grant, TypeOK
    <3>2. QED
      BY <2>2, <3>1, PrefixStays
  <2>5. QED
    BY <1>1, <2>1, <2>2, <2>4 DEF Decided, TypeOK, Grant
<1>3. ASSUME NEW e \in Episodes, pins'[e] # Nil
      PROVE  /\ pins'[e].revision <= revision'
             /\ decisions'[pins'[e].revision] = [kind |-> "promoted", version |-> pins'[e].version]
  <2>1. pins'[e] = pins[e] /\ pins[e] \in Pin
    BY <1>1, <1>3 DEF Decided, TypeOK
  <2>2. /\ pins[e].revision \in 1..revision
        /\ decisions[pins[e].revision] = [kind |-> "promoted", version |-> pins[e].version]
    BY <1>3, <2>1 DEF Inv, PinsWerePromoted, Pin, TypeOK
  <2>3. \A r \in 1..revision : decisions'[r] = decisions[r]
    BY <1>1, DecidedFacts
  <2>4. QED
    BY <1>1, <2>1, <2>2, <2>3 DEF Decided, TypeOK
<1>4. QED
  BY <1>2, <1>3 DEF GrantsWereActive, PinsWerePromoted

\* A decision on a version that is not withdrawn keeps withdrawal terminal,
\* and marks what it withdraws.
LEMMA DecidedKeepsWithdrawals ==
  ASSUME Inv, NEW kind \in Kinds, NEW v \in Versions \ withdrawn, Decided(kind, v),
         withdrawn \subseteq withdrawn', kind = "withdrawn" => v \in withdrawn'
  PROVE  WithdrawnAreMarked' /\ WithdrawalIsTerminal'
<1>1. TypeOK /\ revision = Len(decisions)
  BY DEF Inv, StateReplays
<1>2. /\ Len(decisions') = revision + 1 /\ revision \in Nat
      /\ decisions'[revision + 1] = [kind |-> kind, version |-> v]
      /\ \A r \in 1..revision : decisions'[r] = decisions[r]
  BY <1>1, DecidedFacts DEF TypeOK, Decided
<1>3. WithdrawnAreMarked'
  <2>1. ASSUME NEW r \in 1..revision + 1, decisions'[r].kind = "withdrawn"
        PROVE  decisions'[r].version \in withdrawn'
    <3>1. CASE r \in 1..revision
      BY <1>1, <1>2, <2>1, <3>1 DEF Inv, WithdrawnAreMarked
    <3>2. CASE r = revision + 1
      BY <1>2, <2>1, <3>2
    <3>3. QED
      BY <1>2, <3>1, <3>2
  <2>2. QED
    BY <1>2, <2>1 DEF WithdrawnAreMarked
<1>4. ASSUME NEW i \in 1..revision + 1, NEW j \in 1..revision + 1, i < j,
             decisions'[i].kind = "withdrawn"
      PROVE  decisions'[j].version # decisions'[i].version
  <2>1. i \in 1..revision /\ decisions'[i] = decisions[i] /\ decisions[i].version \in withdrawn
    BY <1>1, <1>2, <1>4 DEF Inv, WithdrawnAreMarked
  <2>2. CASE j \in 1..revision
    BY <1>1, <1>2, <1>4, <2>1, <2>2 DEF Inv, WithdrawalIsTerminal
  <2>3. CASE j = revision + 1
    BY <1>2, <2>1, <2>3
  <2>4. QED
    BY <1>2, <2>2, <2>3
<1>5. WithdrawalIsTerminal'
  BY <1>2, <1>4 DEF WithdrawalIsTerminal
<1>6. QED
  BY <1>3, <1>5

-----------------------------------------------------------------------------
(* One lemma per method of the registry.                                   *)

\* Evaluated candidates: a promotion becomes the state row, a rejection
\* leaves what was active, or what was not, as it is.
LEMMA PromoteInv ==
  ASSUME Inv, NEW c \in Controllers, NEW v \in Versions, NEW eligible \in BOOLEAN,
         Promote(c, v, eligible)
  PROVE  Inv'
<1> DEFINE kind == IF eligible THEN "promoted" ELSE "rejected"
<1>1. TypeOK /\ revision = Len(decisions) /\ revision \in 0..MaxRevision
  BY DEF Inv, StateReplays, TypeOK
<1>2. kind \in Kinds /\ Decided(kind, v) /\ v \in Versions \ withdrawn /\ kind # "withdrawn"
  BY DEF Promote, Decided, Kinds
<1>3. UNCHANGED withdrawn
  BY DEF Promote
<1>4. /\ decisions' \in Seq(Decision) /\ revision' = revision + 1 /\ revision' \in 1..MaxRevision
      /\ revision' = Len(decisions')
      /\ decisions'[revision + 1] = [kind |-> kind, version |-> v]
      /\ \A r \in 1..revision : decisions'[r] = decisions[r]
  BY <1>1, <1>2, DecidedFacts DEF Decided
<1>5. TypeOK'
  BY <1>1, <1>4 DEF TypeOK, Promote
<1>6. GrantsWereActive' /\ PinsWerePromoted'
  BY <1>2, DecidedKeepsRows
<1>7. WithdrawnAreMarked' /\ WithdrawalIsTerminal'
  BY <1>2, <1>3, DecidedKeepsWithdrawals
<1>8. StateReplays'
  <2>1. CASE eligible
    <3>1. active' = v /\ activeRevision' = revision + 1 /\ v # Nil
      BY <2>1, NoVersionAssumption DEF Promote
    <3>2. ActiveSince(decisions', v, revision + 1, revision + 1)
      BY <1>1, <1>4, <2>1 DEF ActiveSince
    <3>3. QED
      BY <1>2, <1>3, <1>4, <3>1, <3>2 DEF StateReplays
  <2>2. CASE ~eligible
    <3>1. UNCHANGED <<active, activeRevision>> /\ kind = "rejected"
      BY <2>2 DEF Promote
    <3>2. ASSUME active # Nil
          PROVE  ActiveSince(decisions', active, activeRevision, revision + 1)
      BY <1>1, <1>4, <3>1, <3>2 DEF Inv, StateReplays, ActiveSince
    <3>3. ASSUME active = Nil, NEW r \in 1..revision + 1, decisions'[r].kind = "promoted"
          PROVE  \E s \in r + 1..revision + 1 : decisions'[s].kind = "withdrawn"
      <4>1. r \in 1..revision
        BY <1>1, <1>4, <3>1, <3>3
      <4>2. PICK s \in r + 1..revision : decisions[s].kind = "withdrawn"
        BY <1>1, <1>4, <3>3, <4>1 DEF Inv, StateReplays
      <4>3. QED
        BY <1>1, <1>4, <4>1, <4>2
    <3>4. QED
      BY <1>1, <1>3, <1>4, <3>1, <3>2, <3>3 DEF StateReplays, Inv
  <2>3. QED
    BY <2>1, <2>2
<1>9. QED
  BY <1>5, <1>6, <1>7, <1>8 DEF Inv

\* Withdrawal empties the state row and is the last word on its version.
LEMMA WithdrawInv ==
  ASSUME Inv, NEW c \in Controllers, Withdraw(c)
  PROVE  Inv'
<1>1. TypeOK /\ revision = Len(decisions) /\ revision \in 0..MaxRevision
  BY DEF Inv, StateReplays, TypeOK
<1>2. /\ active \in Versions \ withdrawn /\ "withdrawn" \in Kinds /\ Decided("withdrawn", active)
      /\ withdrawn' = withdrawn \cup {active} /\ active' = Nil /\ activeRevision' = 0
  BY <1>1 DEF Withdraw, Decided, Kinds, Inv, StateReplays, TypeOK
<1>4. /\ decisions' \in Seq(Decision) /\ revision' = revision + 1 /\ revision' \in 1..MaxRevision
      /\ revision' = Len(decisions')
      /\ decisions'[revision + 1] = [kind |-> "withdrawn", version |-> active]
      /\ \A r \in 1..revision : decisions'[r] = decisions[r]
  BY <1>1, <1>2, DecidedFacts DEF Decided
<1>5. TypeOK'
  BY <1>1, <1>2, <1>4, RevisionAssumption DEF TypeOK, Withdraw
<1>6. GrantsWereActive' /\ PinsWerePromoted'
  BY <1>2, DecidedKeepsRows
<1>7. WithdrawnAreMarked' /\ WithdrawalIsTerminal'
  BY <1>2, DecidedKeepsWithdrawals
<1>8. StateReplays'
  <2>1. ASSUME NEW r \in 1..revision + 1, decisions'[r].kind = "promoted"
        PROVE  \E s \in r + 1..revision + 1 : decisions'[s].kind = "withdrawn"
    <3>1. r # revision + 1
      BY <1>4, <2>1
    <3>2. revision + 1 \in r + 1..revision + 1
      BY <1>1, <3>1
    <3>3. QED
      BY <1>4, <3>2
  <2>2. QED
    BY <1>2, <1>4, <2>1 DEF StateReplays
<1>9. QED
  BY <1>5, <1>6, <1>7, <1>8 DEF Inv

\* A fresh pin names the activation in force.
LEMMA StartEpisodeInv ==
  ASSUME Inv, NEW e \in Episodes, StartEpisode(e)
  PROVE  Inv'
<1>1. TypeOK /\ UNCHANGED <<revision, active, activeRevision, admitted, withdrawn, decisions, grants, seen>>
  BY DEF Inv, StartEpisode
<1>2. /\ pins' = [pins EXCEPT ![e] = [version |-> active, revision |-> activeRevision]]
      /\ active \in Versions
      /\ activeRevision \in 1..revision
      /\ decisions[activeRevision] = [kind |-> "promoted", version |-> active]
  BY <1>1 DEF StartEpisode, Inv, StateReplays, ActiveSince, TypeOK
<1>3. [version |-> active, revision |-> activeRevision] \in Pin
  BY <1>1, <1>2 DEF Pin, TypeOK
<1>4. TypeOK'
  BY <1>1, <1>2, <1>3 DEF TypeOK
<1>5. PinsWerePromoted'
  BY <1>1, <1>2, <1>3 DEF Inv, PinsWerePromoted, TypeOK, Pin
<1>6. StateReplays' /\ GrantsWereActive' /\ WithdrawnAreMarked' /\ WithdrawalIsTerminal'
  BY <1>1 DEF Inv, StateReplays, GrantsWereActive, WithdrawnAreMarked, WithdrawalIsTerminal
<1>7. QED
  BY <1>4, <1>5, <1>6 DEF Inv

\* An authorization names the activation in force at the last decision.
LEMMA AuthorizeInv ==
  ASSUME Inv, NEW e \in Episodes, NEW o \in Ops, Authorize(o, e)
  PROVE  Inv'
<1> DEFINE g == [episode |-> e, version |-> active, activation |-> activeRevision,
                 decision |-> revision]
<1>1. TypeOK /\ UNCHANGED <<revision, active, activeRevision, admitted, withdrawn, decisions, pins, seen>>
  BY DEF Inv, Authorize
<1>2. grants' = [grants EXCEPT ![o] = g] /\ active # Nil /\ active \in Versions
  <2>1. pins[e] \in Pin /\ pins[e].version = active /\ pins[e].revision = activeRevision
    BY <1>1 DEF Authorize, MayAuthorize, TypeOK
  <2>2. QED
    BY <2>1, NoVersionAssumption DEF Authorize, Pin
<1>3. ActiveSince(decisions, active, activeRevision, revision)
  BY <1>2 DEF Inv, StateReplays
<1>4. g \in Grant
  BY <1>1, <1>2, <1>3 DEF ActiveSince, Grant, TypeOK
<1>5. TypeOK'
  BY <1>1, <1>2, <1>4 DEF TypeOK
<1>6. GrantsWereActive'
  <2>1. ASSUME NEW x \in Ops, grants'[x] # Nil
        PROVE  /\ grants'[x].decision <= revision
               /\ ActiveSince(decisions, grants'[x].version, grants'[x].activation,
                              grants'[x].decision)
    <3>1. CASE x = o
      <4>1. grants'[x] = g
        BY <1>1, <1>2, <3>1 DEF TypeOK
      <4>2. QED
        BY <1>1, <1>3, <4>1 DEF TypeOK
    <3>2. CASE x # o
      <4>1. grants'[x] = grants[x]
        BY <1>1, <1>2, <3>2 DEF TypeOK
      <4>2. QED
        BY <2>1, <4>1 DEF Inv, GrantsWereActive
    <3>3. QED
      BY <3>1, <3>2
  <2>2. QED
    BY <1>1, <2>1 DEF GrantsWereActive
<1>7. StateReplays' /\ PinsWerePromoted' /\ WithdrawnAreMarked' /\ WithdrawalIsTerminal'
  BY <1>1 DEF Inv, StateReplays, PinsWerePromoted, WithdrawnAreMarked, WithdrawalIsTerminal
<1>8. QED
  BY <1>5, <1>6, <1>7 DEF Inv

\* Every step of the registry preserves the invariant.
LEMMA NextInv == Inv /\ [Next]_vars => Inv'
<1> SUFFICES ASSUME Inv, [Next]_vars PROVE Inv'
  OBVIOUS
<1>1. ASSUME NEW c \in Controllers, ReadState(c) PROVE Inv'
  BY <1>1 DEF ReadState, Inv, TypeOK, StateReplays, GrantsWereActive, PinsWerePromoted,
     WithdrawnAreMarked, WithdrawalIsTerminal
<1>2. CASE UNCHANGED vars
  BY <1>2 DEF vars, Inv, TypeOK, StateReplays, GrantsWereActive, PinsWerePromoted,
     WithdrawnAreMarked, WithdrawalIsTerminal
<1>3. CASE Administration
  BY <1>1, <1>3, PromoteInv, WithdrawInv DEF Administration
<1>4. CASE \E e \in Episodes : StartEpisode(e) \/ \E o \in Ops : Authorize(o, e)
  BY <1>4, StartEpisodeInv, AuthorizeInv
<1>5. QED
  BY <1>2, <1>3, <1>4 DEF Next

-----------------------------------------------------------------------------
\* The ledger, the state row, the pins and the authorizations agree.
THEOREM RegistryInv == Spec => []Inv
<1>1. QED
  BY InitInv, NextInv, PTL DEF Spec

\* Every variable keeps its type (ProgramRegistry's TypeOK).
THEOREM RegistryTypes == Spec => []TypeOK
<1>1. Inv => TypeOK
  BY DEF Inv
<1>2. QED
  BY <1>1, RegistryInv, PTL

\* The state row is the ledger's last word (StateReplays).
THEOREM StateIsReplayed == Spec => []StateReplays
<1>1. Inv => StateReplays
  BY DEF Inv
<1>2. QED
  BY <1>1, RegistryInv, PTL

\* Authorizations are ordered against withdrawals and promotions by the ledger
\* alone (GrantsWereActive).
THEOREM AuthorizationsAreOrdered == Spec => []GrantsWereActive
<1>1. Inv => GrantsWereActive
  BY DEF Inv
<1>2. QED
  BY <1>1, RegistryInv, PTL

\* No decision follows a version's withdrawal (WithdrawalIsTerminal).
THEOREM NothingAfterWithdrawal == Spec => []WithdrawalIsTerminal
<1>1. Inv => WithdrawalIsTerminal
  BY DEF Inv
<1>2. QED
  BY <1>1, RegistryInv, PTL

\* Decisions, pins and authorizations are never rewritten (LedgerOnlyGrows).
THEOREM LedgerIsAppendOnly == Spec => LedgerOnlyGrows
<1> DEFINE Grows ==
      /\ \A r \in 1..Len(decisions) : r <= Len(decisions') /\ decisions'[r] = decisions[r]
      /\ \A e \in Episodes : pins[e] # Nil => pins'[e] = pins[e]
      /\ \A o \in Ops : grants[o] # Nil => grants'[o] = grants[o]
<1>1. ASSUME Inv, Next PROVE Grows
  <2>1. TypeOK /\ revision = Len(decisions) /\ revision \in Nat
    BY <1>1 DEF Inv, StateReplays, TypeOK
  <2>2. ASSUME NEW kind \in Kinds, NEW v \in Versions, Decided(kind, v) PROVE Grows
    BY <2>1, <2>2, DecidedFacts DEF Decided
  <2>3. ASSUME NEW c \in Controllers, NEW v \in Versions, NEW eligible \in BOOLEAN,
               Promote(c, v, eligible)
        PROVE  Decided("promoted", v) \/ Decided("rejected", v)
    BY <2>3 DEF Promote, Decided
  <2>4. ASSUME NEW c \in Controllers, Withdraw(c)
        PROVE  active \in Versions /\ Decided("withdrawn", active)
    BY <2>1, <2>4 DEF Withdraw, Decided, TypeOK
  <2>5. ASSUME NEW c \in Controllers, ReadState(c) PROVE Grows
    BY <2>1, <2>5 DEF ReadState
  <2>6. ASSUME NEW e \in Episodes, StartEpisode(e) PROVE Grows
    BY <2>1, <2>6 DEF StartEpisode, TypeOK
  <2>7. ASSUME NEW e \in Episodes, NEW o \in Ops, Authorize(o, e) PROVE Grows
    BY <2>1, <2>7 DEF Authorize, MayAuthorize, TypeOK
  <2>8. {"promoted", "rejected", "withdrawn"} \subseteq Kinds
    BY DEF Kinds
  <2>9. QED
    BY <1>1, <2>2, <2>3, <2>4, <2>5, <2>6, <2>7, <2>8 DEF Next, Administration
<1>2. Inv /\ [Next]_vars => [Grows]_vars
  BY <1>1
<1>3. QED
  BY <1>2, RegistryInv, PTL DEF Spec, LedgerOnlyGrows

\* The ledger stands, whoever decides and whenever (LedgerStands).
THEOREM LedgerAlwaysStands == Spec => LedgerStands
<1>1. QED
  BY RegistryTypes, StateIsReplayed, AuthorizationsAreOrdered, NothingAfterWithdrawal,
     LedgerIsAppendOnly, PTL DEF LedgerStands

=============================================================================
