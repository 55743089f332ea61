---------------------------- MODULE FencedReads ----------------------------
(* What settlement promises of two services behind it: the conditions of a *)
(* measurement change only when no read of it is left, and a read that     *)
(* begins belongs to the measurement that is open.                         *)
EXTENDS Naturals

CONSTANT MaxEpoch

VARIABLES conditions, open, reads

vars == <<conditions, open, reads>>

Init == conditions = 0 /\ open = FALSE /\ reads = {}

\* The next measurement: nothing of the one before it is left.
Prepare ==
    /\ reads = {} /\ ~open /\ conditions < MaxEpoch
    /\ conditions' = conditions + 1 /\ UNCHANGED <<open, reads>>
Open == ~open /\ open' = TRUE /\ UNCHANGED <<conditions, reads>>
\* A fence that has shut lets no new read in; one that falls with its process
\* may take reads with it.
Close == open' = FALSE /\ reads' \subseteq reads /\ UNCHANGED conditions
Read(id) == open /\ reads' = reads \cup {<<conditions, id>>} /\ UNCHANGED <<conditions, open>>
End(r) == r \in reads /\ reads' = reads \ {r} /\ UNCHANGED <<conditions, open>>

Next ==
    \/ Prepare \/ Open \/ Close
    \/ \E r \in reads : End(r)
    \/ \E r \in reads' : Read(r[2])
Spec == Init /\ [][Next]_vars
=============================================================================
