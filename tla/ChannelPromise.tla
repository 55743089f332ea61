-------------------------- MODULE ChannelPromise --------------------------
(***************************************************************************)
(* What the mailbox promises the agent about its requests: each is served  *)
(* at most once and answered only after that, and only while the process   *)
(* that made it has not been replaced.  Hosts, files and polling are gone. *)
(***************************************************************************)
EXTENDS Naturals

CONSTANT Ids                \* identities of requests

VARIABLES stage,            \* [Ids -> {"unsent", "asked", "served", "answered"}]
          open              \* the requests of the process that runs now

pvars == <<stage, open>>

Init == stage = [i \in Ids |-> "unsent"] /\ open = {}

Ask(i) == /\ stage[i] = "unsent"
          /\ stage' = [stage EXCEPT ![i] = "asked"]
          /\ open' = open \cup {i}

Serve(i) == /\ stage[i] = "asked" /\ i \in open
            /\ stage' = [stage EXCEPT ![i] = "served"]
            /\ UNCHANGED open

Answer(i) == /\ stage[i] = "served" /\ i \in open
             /\ stage' = [stage EXCEPT ![i] = "answered"]
             /\ UNCHANGED open

\* The process is replaced: what it asked for is closed for good.
Replace == open' = {} /\ UNCHANGED stage

Next == Replace \/ \E i \in Ids : Ask(i) \/ Serve(i) \/ Answer(i)

Spec == Init /\ [][Next]_pvars
===========================================================================
