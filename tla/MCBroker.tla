------------------------------ MODULE MCBroker ------------------------------
(* Instances of Broker for TLC: the sets of proposals, policies and Service *)
(* contents, and the symmetries.                                            *)
EXTENDS Broker, TLC

CONSTANTS o1, o2, w1, w2, r1, svc1, svc2, fixture, altered

\* The one action of the experiments, on the first Service version.
Repair(o) == [op |-> o, run |-> r1, uid |-> svc1, rv |-> 1,
              expected |-> BrokenPort, target |-> HealthyPort]

Grant(contractId, limit) ==
  [run |-> r1, uid |-> svc1, allowed |-> {HealthyPort}, max |-> limit,
   enabled |-> TRUE, contract |-> contractId]

Revoked == [Grant(LEGACY, 1) EXCEPT !.enabled = FALSE]

MCProposals == {Repair(o) : o \in Ops}
LegacyPolicies == {Grant(LEGACY, 2), Grant(LEGACY, 1), Revoked}
MixedPolicies  == {Grant(LEGACY, 1), Grant(PRECISE, 1)}

Symmetry == Permutations(Workers) \cup Permutations(Ops)
=============================================================================
