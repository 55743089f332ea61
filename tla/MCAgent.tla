------------------------------ MODULE MCAgent ------------------------------
(* An instance of Agent for TLC: two requests for one identifier.  A         *)
(* behaviour has Ctrl-C between any two statements, or, in quiet ones,       *)
(* between two steps only.                                                   *)
EXTENDS Agent, TLC

CONSTANTS op1, a, b
VARIABLE quiet

Plain(name)  == [tool |-> name, repair |-> Nil]
Proposal(x)  == [tool |-> "propose_repair", repair |-> [op |-> op1, args |-> x]]

\* Turns of one or two calls: every call alone, and the pairs that matter to
\* one another.
MCTurns ==
  {<<c>> : c \in {Proposal(a), Proposal(b), Plain("finish")}} \cup
  {<<Plain("observe"), Plain("finish")>>,
   <<Plain("record_incident"), Proposal(a)>>,
   <<Proposal(a), Proposal(b)>>,
   <<Proposal(a), Plain("finish")>>}

MCLimits == {[turns |-> 2, tokens |-> 3], [turns |-> 1, tokens |-> 4]}

mcvars == <<vars, quiet>>

MCInit == Init /\ quiet \in BOOLEAN
MCNext == /\ (quiet /\ QuietNext) \/ (~quiet /\ Next)
          /\ UNCHANGED quiet

\* A live process goes on, in either kind of behaviour.
MCSpec == MCInit /\ [][MCNext]_mcvars /\ WF_mcvars(Step /\ UNCHANGED quiet)

\* A proposal whose fate the checkpoint does not know is looked up before it
\* is made again, unless Ctrl-C came inside a step (agent.py:291, "Read the
\* broker's independent journal before any possible redispatch").
QuietlyNoBlindRetry == [][quiet => LookedUpFirst]_mcvars
=============================================================================
