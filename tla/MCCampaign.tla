----------------------------- MODULE MCCampaign -----------------------------
(* Instances of Campaign for TLC.                                           *)
EXTENDS Campaign, TLC

CONSTANTS o1, o2, w1, w2, e1, e2, v1, v2, c1, r1, svc1, fixture, altered

\* A repair of the fault, based on one of the Service's versions.
Repair(o, v) == [op |-> o, run |-> r1, uid |-> svc1, rv |-> v,
                 expected |-> BrokenPort, target |-> HealthyPort]

MCProposals == {Repair(o, v) : o \in Ops, v \in 1..2}

MCPolicies == {[run |-> r1, uid |-> svc1, allowed |-> {HealthyPort}, max |-> 2,
                enabled |-> TRUE, contract |-> LEGACY]}

Symmetry == Permutations(Ops) \cup Permutations(Workers) \cup Permutations(Episodes)
=============================================================================
