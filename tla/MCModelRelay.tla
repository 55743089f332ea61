---------------------------- MODULE MCModelRelay ----------------------------
(* An instance of ModelRelay for TLC: two inputs, two sets of options.  The  *)
(* two saves of an overrun may come apart, except in whole behaviours.       *)
EXTENDS ModelRelay, TLC

CONSTANTS i1, i2
VARIABLE whole

MCOptions == {[turns |-> 2, tokens |-> 5, output |-> 1], [turns |-> 1, tokens |-> 4, output |-> 1]}

mcvars == <<vars, whole>>

MCInit == Init /\ whole \in BOOLEAN
MCNext == Next /\ (whole => OverrunIsWhole) /\ UNCHANGED whole
MCSpec == MCInit /\ [][MCNext]_mcvars

\* Once its usage exceeded a reservation the provider is not asked again, by
\* this run or a later one, unless the two saves of the overrun came apart
\* (record: "fail closed on provider accounting overrun").
WholeOverrunIsFinal == [][whole => NotAskedAgain]_mcvars

Symmetry == Permutations(Inputs)
=============================================================================
