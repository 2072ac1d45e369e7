------------------------------- MODULE MCTile -------------------------------
(* Instances of Tile for TLC.                                              *)
EXTENDS Tile, TLC

CONSTANTS k1, k2, w1, w2

(* an object that two places share, and one of a single place              *)
Neighbours == [p \in Places |-> IF p = 0 THEN {k1} ELSE {k1, k2}]
Symmetry == Permutations({w1, w2})
=============================================================================
