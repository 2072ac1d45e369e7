------------------------------ MODULE MCLoader ------------------------------
(* Instances of Loader for TLC.                                            *)
EXTENDS Loader, TLC

CONSTANTS b1, b2, m1, m2, a1, a2, g1, main_thread, tile_worker, w1, w2

(* the resources of a kind compete for one file name                       *)
OneKeyAKind == [o \in Counted |-> KindOf(o)]
OneGroup == [w \in Wmo |-> IF w = a1 THEN <<g1>> ELSE <<>>]
NoGroups == [w \in Wmo |-> <<>>]
Symmetry == Permutations({w1, w2})

(* A behaviour brings resources of one kind to life: the kinds share the   *)
(* workers, and nothing else that the state of a resource depends on.      *)
Alive == {o \in Counted : mem'[o] # "unborn"}
OneKind == \A o, p \in Alive : KindOf(o) = KindOf(p)
=============================================================================
