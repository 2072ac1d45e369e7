------------------------------ MODULE Resource ------------------------------
(***************************************************************************)
(* What the loader and the caches promise together about a shared          *)
(* resource, without counts, queues, workers or frames: it exists exactly  *)
(* while somebody needs it.  A holder needs it, and so does a load that    *)
(* was asked for, so that the thread that finishes the load finds it.      *)
(***************************************************************************)
EXTENDS Naturals

CONSTANTS Objects, Users

VARIABLES
  holders,  \* who holds a reference
  loads,    \* how many loads were asked for and have not ended
  phase,    \* unborn, live or freed
  ready     \* those that may be drawn

vars == <<holders, loads, phase, ready>>

Needed(o) == holders[o] # {} \/ loads[o] > 0

Init ==
  /\ holders = [o \in Objects |-> {}]
  /\ loads = [o \in Objects |-> 0]
  /\ phase = [o \in Objects |-> "unborn"]
  /\ ready = {}

(* a resource nobody needs any more is never handed out again              *)
Acquire(u, o) ==
  /\ u \notin holders[o] /\ (phase[o] = "unborn" \/ Needed(o))
  /\ holders' = [holders EXCEPT ![o] = @ \cup {u}]
  /\ phase' = [phase EXCEPT ![o] = "live"]
  /\ UNCHANGED <<loads, ready>>

Drop(u, o) ==
  /\ u \in holders[o]
  /\ holders' = [holders EXCEPT ![o] = @ \ {u}]
  /\ UNCHANGED <<loads, phase, ready>>

StartLoad(o) ==
  /\ Needed(o)
  /\ loads' = [loads EXCEPT ![o] = @ + 1]
  /\ UNCHANGED <<holders, phase, ready>>

(* only a load makes a resource ready                                      *)
EndLoad(o) ==
  /\ loads[o] > 0
  /\ loads' = [loads EXCEPT ![o] = @ - 1]
  /\ ready' \in {ready, ready \cup {o}}
  /\ UNCHANGED <<holders, phase>>

Free(o) ==
  /\ phase[o] = "live" /\ ~Needed(o)
  /\ phase' = [phase EXCEPT ![o] = "freed"]
  /\ UNCHANGED <<holders, loads, ready>>

Next ==
  \E o \in Objects :
    \/ \E u \in Users : Acquire(u, o) \/ Drop(u, o)
    \/ StartLoad(o) \/ EndLoad(o) \/ Free(o)

Spec == Init /\ [][Next]_vars

-----------------------------------------------------------------------------
TypeOK ==
  /\ holders \in [Objects -> SUBSET Users]
  /\ loads \in [Objects -> Nat]
  /\ phase \in [Objects -> {"unborn", "live", "freed"}]
  /\ ready \subseteq Objects

(* nothing that is needed is missing                                       *)
NeededIsLive == \A o \in Objects : Needed(o) => phase[o] = "live"
=============================================================================
