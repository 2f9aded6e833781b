--------------------------- MODULE MCRequestIds ---------------------------
(* RequestIds with concrete requests, for TLC. *)
EXTENDS RequestIds, TLC

CONSTANTS r1, r2, r3

\* Two clock ticks a day, and one a conversation may idle.
TwoTicksADay == [t \in 1 .. MaxTime |-> (t + 1) \div 2]

Symmetry == Permutations(Req)
=============================================================================
