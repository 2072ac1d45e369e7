---------------------------- MODULE MCInterface ----------------------------
(* An instance of Interface for TLC.                                       *)
EXTENDS Interface

(* a frame in another, and with a third beside them, next to it or in it   *)
FewTrees == {<<0, 1>>, <<0, 0, 1>>, <<0, 1, 1>>, <<0, 1, 2>>}

(* A drawing, or an event, whose scripts call nothing changes nothing.     *)
SomeCalls == Idle /\ calls = 0 /\ ~Idle' => Head(stack').do \notin {"draw", "event"}
=============================================================================
