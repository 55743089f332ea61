---------------------------- MODULE RepairPromise ----------------------------
(***************************************************************************)
(* What the broker promises about an operation, without journal, worker,   *)
(* policy or network.  An intent is refused or committed; a commitment     *)
(* lands on the Service at most once, at any time after it was made; it is *)
(* confirmed only if it landed, denied only if it never will, and          *)
(* otherwise stays open for ever: nobody makes it a second time.           *)
(***************************************************************************)
EXTENDS Naturals

CONSTANT Ops

VARIABLES stage, landed

vars == <<stage, landed>>

Init ==
  /\ stage  = [o \in Ops |-> "unknown"]
  /\ landed = [o \in Ops |-> 0]

Move(o, from, to) ==
  /\ stage[o] = from
  /\ stage' = [stage EXCEPT ![o] = to]
  /\ UNCHANGED landed

Intend(o) == Move(o, "unknown", "intended")
Refuse(o) == Move(o, "unknown", "refused") \/ Move(o, "intended", "refused")
Commit(o) == Move(o, "intended", "committed")

Land(o) ==
  /\ stage[o] = "committed"
  /\ landed[o] = 0
  /\ landed' = [landed EXCEPT ![o] = 1]
  /\ UNCHANGED stage

Confirm(o) == landed[o] = 1 /\ Move(o, "committed", "confirmed")
Deny(o)    == landed[o] = 0 /\ Move(o, "committed", "denied")

Next == \E o \in Ops :
  Intend(o) \/ Refuse(o) \/ Commit(o) \/ Land(o) \/ Confirm(o) \/ Deny(o)

Spec == Init /\ [][Next]_vars

=============================================================================
