----------------------------- MODULE MCInstances ----------------------------
(* Instances of Instances for TLC.                                         *)
EXTENDS Instances, TLC

CONSTANTS t1, t2, t3, d1, d2, w1, w2, m, frame

(* two tiles share a building, one has its own                             *)
Shared == [i \in Tiles |-> IF i = t3 THEN d2 ELSE d1]
Symmetry == Permutations({w1, w2})
=============================================================================
