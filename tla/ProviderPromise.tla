--------------------------- MODULE ProviderPromise ---------------------------
(***************************************************************************)
(* What a keeper of a provider's requests promises, whatever crashes and   *)
(* whoever asks it: a request is sent only when every earlier one is on    *)
(* record with its response.  Of requests of unknown outcome there is      *)
(* one at most, and it is the last.                                        *)
(***************************************************************************)
EXTENDS Naturals

VARIABLES asked, answered  \* requests sent, responses on record

Init == asked = 0 /\ answered = 0

Ask    == asked = answered /\ asked' = asked + 1 /\ UNCHANGED answered
Record == asked = answered + 1 /\ answered' = asked /\ UNCHANGED asked

Spec == Init /\ [][Ask \/ Record]_<<asked, answered>>
=============================================================================
