------------------------------ MODULE PairSwap ------------------------------
(***************************************************************************)
(* What internal/agent/renewal promises: the client key and certificate    *)
(* an agent would start with are one pair, replaced by a newer pair in one *)
(* step.                                                                   *)
(***************************************************************************)
EXTENDS Integers

CONSTANT MaxPairs    \* bound: pairs birdcage ever issues

VARIABLE pair

Init == pair = 1

Replace ==
    /\ pair' \in 1..MaxPairs
    /\ pair' > pair

Spec == Init /\ [][Replace]_pair
=============================================================================
