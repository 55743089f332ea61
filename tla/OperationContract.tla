------------------------- MODULE OperationContract -------------------------
(***************************************************************************)
(* The data of a bounded Service repair: the proposal an agent makes, the  *)
(* trusted policy of a broker instance, the versioned conditions bound to  *)
(* an operation, and the JSON Patch tests the API evaluates for them.      *)
(*                                                                         *)
(* A Service version is [uid, port, rest]: its identity, the targetPort of *)
(* the named port, and `rest`, everything else the precise contract        *)
(* compares (normalised metadata, the other fields of spec, status).  The  *)
(* resourceVersion is kept beside it as a number, and the value of the     *)
(* heartbeat annotation and managedFields, which neither contract          *)
(* compares, are no part of it: a heartbeat is a new version with the same *)
(* content.                                                                *)
(***************************************************************************)
EXTENDS Naturals

CONSTANTS
  Ops,            \* operation identifiers
  Runs,           \* run identifiers: the scope of a dispatch budget
  Uids,           \* identities of the Service (recreation gives a new one)
  Ports,          \* targetPort values, an ambiguous port list included
  Rests,          \* the other content of a Service
  ScopedRests,    \* the contents repair_patch accepts as its frozen scope
  BrokenPort,     \* 9999, the only expected port of the precise contract
  HealthyPort,    \* 8080, its only target port
  Proposals,      \* the proposals agents make
  Policies,       \* the policies controllers give their brokers
  NoSnapshot      \* a binding without recorded conditions

LEGACY  == "service-resource-version-v1"
PRECISE == "service-routing-heartbeat-v1"
CONTRACTS == {LEGACY, PRECISE}

Content == [uid : Uids, port : Ports, rest : Rests]

Proposal == [op : Ops, run : Runs, uid : Uids, rv : Nat \ {0},
             expected : Ports, target : Ports]

BrokerPolicy == [run : Runs, uid : Uids, allowed : SUBSET Ports, max : Nat,
                 enabled : BOOLEAN, contract : CONTRACTS]

ASSUME ProposalsAssumption == Proposals \subseteq Proposal
ASSUME PoliciesAssumption  == Policies \subseteq BrokerPolicy
ASSUME ScopeAssumption     == /\ ScopedRests \subseteq Rests
                              /\ NoSnapshot \notin Rests

-----------------------------------------------------------------------------
(* What the broker decides from a policy.                                  *)

InScope(policy, p) == p.run = policy.run /\ p.uid = policy.uid

PolicyAllows(policy, p) ==
  /\ policy.enabled
  /\ InScope(policy, p)
  /\ p.target \in policy.allowed
  /\ p.target # p.expected

-----------------------------------------------------------------------------
(* What the broker decides from a Service it has read.                     *)

\* Bug: only identity and port are compared, not the version.
SameIdentity(p, rv, s) == s.uid = p.uid /\ s.port = p.expected

\* The observed Service is the one the proposal's evidence names.
SameVersion(p, rv, s) == rv = p.rv /\ s.uid = p.uid /\ s.port = p.expected

\* The precise contract recognises one complete action on one kind of
\* Service, never a partial allowlist.
PreciselyScoped(p, s) ==
  /\ p.expected = BrokenPort
  /\ p.target = HealthyPort
  /\ s.rest \in ScopedRests

-----------------------------------------------------------------------------
(* The tests of the JSON Patch, evaluated by the API on the version it     *)
(* holds.  The legacy patch tests identity, version and port; the precise  *)
(* one tests the recorded snapshot's whole content, not its version.       *)

PatchAccepted(p, contract, snapshot, rv, s) ==
  /\ s.uid = p.uid
  /\ s.port = p.expected
  /\ IF contract = LEGACY THEN rv = p.rv ELSE s.rest = snapshot

Repaired(p, s) == [uid |-> s.uid, port |-> p.target, rest |-> s.rest]

=============================================================================
