------------------------------ MODULE MCFrames ------------------------------
(* Instances of Frames for TLC.                                            *)
EXTENDS Frames, TLC

CONSTANTS u1, o1, d1, d2, w1, w2

(* Units, and the instances of tiles, in separate behaviours               *)
Made == {o \in Instances : life'[o] # "unborn"}
UnitsAlone == Made \subseteq Units \/ Made \subseteq Doodads \cup Details
=============================================================================
