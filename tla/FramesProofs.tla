---------------------------- MODULE FramesProofs ----------------------------
(* Type correctness of Frames, the exclusion of the two cullers, the       *)
(* balance of the gc mutexes and why the ring of three frames is long      *)
(* enough, for any number of instances and workers.                        *)
EXTENDS Frames, TLAPS

(* two slots of the ring                                                   *)
LEMMA SlotsType ==
  ASSUME slot \in Slots
  PROVE  NextSlot(slot) \in Slots /\ CullSlot \in Slots /\ GcSlot \in Slots
         /\ NextSlot(NextSlot(slot)) \in Slots
BY DEF Slots, NextSlot, CullSlot, GcSlot, GcSlotOf

LEMMA TouchType ==
  ASSUME StaleTypeOK, NEW S \in SUBSET Instances,
         NEW site \in {"clear", "draw", "release", "delete"}, Touch(site, S)
  PROVE  StaleTypeOK'
BY DEF StaleTypeOK, Touch, Uses

LEMMA AttachedType ==
  ASSUME NEW S
  PROVE  Attached(S) \subseteq S
BY DEF Attached

LEMMA BecomesType ==
  ASSUME ListTypeOK, NEW S, NEW l \in Lives
  PROVE  Becomes(S, l) \in [Instances -> Lives]
BY DEF ListTypeOK, Becomes

LEMMA CollectType ==
  ASSUME ListTypeOK, slot \in Slots, NEW S \in SUBSET Instances, NEW T,
         CollectAndPark(S, T)
  PROVE  /\ life' \in [Instances -> Lives]
         /\ gc' \in [Slots -> SUBSET Instances]
         /\ together' \subseteq Instances
<1>1. GcSlot \in Slots /\ CullSlot \in Slots
    BY SlotsType
<1>2. life' \in [Instances -> Lives]
    BY DEF CollectAndPark, ListTypeOK, Lives
<1>3. gc' \in [Slots -> SUBSET Instances]
    BY <1>1 DEF CollectAndPark, ListTypeOK
<1>4. together' \subseteq Instances
    BY <1>1 DEF CollectAndPark, ListTypeOK
<1>5. QED
    BY <1>2, <1>3, <1>4

LEMMA InitType == Init => TypeOK
<1> SUFFICES ASSUME Init PROVE TypeOK
    OBVIOUS
<1>1. MainTypeOK /\ StaleTypeOK
    BY DEF Init, MainTypeOK, StaleTypeOK, Slots
<1>2. CullTypeOK
    BY DEF Init, CullTypeOK, Cullers
<1>3. ListTypeOK
    BY DEF Init, ListTypeOK, Lives
<1>4. LockTypeOK
    BY DEF Init, LockTypeOK
<1>5. QED
    BY <1>1, <1>2, <1>3, <1>4 DEF TypeOK

-----------------------------------------------------------------------------
(* The steps of the main thread                                            *)

LEMMA GotoType ==
  ASSUME MainTypeOK,
         NEW at \in {"top", "objects", "start", "draw", "net", "cull", "wait",
                     "tick", "gc", "drain", "load", "async", "stop", "join",
                     "free", "gone"},
         Goto(at), UNCHANGED <<slot, running>>
  PROVE  MainTypeOK'
BY DEF MainTypeOK, Goto

LEMMA WokenType ==
  ASSUME CullTypeOK, cull' = Woken(cull)
  PROVE  cull' \in [at : {"test", "ready", "blocked", "physics", "scene", "end", "exit"},
                    todo : SUBSET Units]
                \cup [at : {"move"}, todo : SUBSET Units, obj : Units]
BY DEF CullTypeOK, Woken

LEMMA FrameStepType ==
  ASSUME TypeOK, FrameStep
  PROVE  TypeOK'
<1> USE DEF TypeOK
<1>0. slot \in Slots
    BY DEF MainTypeOK
<1>1. CASE NewFrame
  <2>1. slot' = NextSlot(slot) /\ NextSlot(slot') \in Slots /\ slot' \in Slots
      BY <1>0, <1>1, SlotsType DEF NewFrame
  <2>2. MainTypeOK'
      BY <1>1, <2>1 DEF NewFrame, MainTypeOK
  <2>3. ListTypeOK'
      BY <1>1, <2>1 DEF NewFrame, ListTypeOK
  <2>4. StaleTypeOK'
      BY <1>1, <2>1, TouchType DEF NewFrame, ListTypeOK
  <2>5. CullTypeOK' /\ LockTypeOK'
      BY <1>1 DEF NewFrame, CullTypeOK, LockTypeOK, cullVars, workerVars
  <2>6. QED
      BY <2>2, <2>3, <2>4, <2>5
<1>2. CASE AddUnits
  <2>1. ListTypeOK'
    <3>1. CullSlot \in Slots
        BY <1>0, SlotsType
    <3>2. QED
        BY <1>2, <3>1 DEF AddUnits, ListTypeOK, Instances
  <2>2. MainTypeOK'
      BY <1>2, GotoType DEF AddUnits
  <2>3. CullTypeOK' /\ LockTypeOK' /\ StaleTypeOK'
      BY <1>2 DEF AddUnits, CullTypeOK, LockTypeOK, StaleTypeOK, cullVars, workerVars
  <2>4. QED
      BY <2>1, <2>2, <2>3
<1>3. CASE StartCull
  <2>1. MainTypeOK'
      BY <1>3, GotoType DEF StartCull
  <2>2. CullTypeOK'
    <3>1. CASE main.async
      <4>1. cull' = Woken(cull) /\ cullReady' = TRUE /\ cullEnded' = 0 /\ scene' = scene
          BY <1>3, <3>1 DEF StartCull
      <4>2. QED
          BY <4>1, WokenType DEF CullTypeOK
    <3>2. CASE ~main.async
        BY <1>3, <3>2 DEF StartCull, CullTypeOK, cullVars
    <3>3. QED
        BY <3>1, <3>2
  <2>3. ListTypeOK' /\ LockTypeOK' /\ StaleTypeOK'
      BY <1>3 DEF StartCull, ListTypeOK, LockTypeOK, StaleTypeOK, workerVars
  <2>4. QED
      BY <2>1, <2>2, <2>3
<1>4. CASE Draw
  <2>1. MainTypeOK'
      BY <1>4, GotoType DEF Draw
  <2>2. StaleTypeOK'
      BY <1>0, <1>4, TouchType DEF Draw, ListTypeOK
  <2>3. CullTypeOK' /\ ListTypeOK' /\ LockTypeOK'
      BY <1>4 DEF Draw, CullTypeOK, ListTypeOK, LockTypeOK, cullVars, workerVars
  <2>4. QED
      BY <2>1, <2>2, <2>3
<1>5. CASE NetEnd
  <2>1. MainTypeOK'
      BY <1>5, GotoType DEF NetEnd
  <2>2. CullTypeOK'
      BY <1>5 DEF NetEnd, CullTypeOK, cullVars
  <2>3. ListTypeOK' /\ LockTypeOK' /\ StaleTypeOK'
      BY <1>5 DEF NetEnd, ListTypeOK, LockTypeOK, StaleTypeOK, workerVars
  <2>4. QED
      BY <2>1, <2>2, <2>3
<1>6. CASE WaitCull
  <2>1. MainTypeOK'
      BY <1>6, GotoType DEF WaitCull
  <2>2. CullTypeOK' /\ ListTypeOK' /\ LockTypeOK' /\ StaleTypeOK'
      BY <1>6 DEF WaitCull, CullTypeOK, ListTypeOK, LockTypeOK, StaleTypeOK, cullVars, workerVars
  <2>3. QED
      BY <2>1, <2>2
<1>7. CASE LoaderTick
  <2>1. MainTypeOK'
      BY <1>7, GotoType DEF LoaderTick
  <2>2. ListTypeOK'
    <3>1. life' \in [Instances -> Lives]
        BY <1>7, BecomesType DEF LoaderTick, Lives
    <3>2. QED
        BY <1>0, <1>7, <3>1 DEF LoaderTick, ListTypeOK
  <2>3. CullTypeOK' /\ LockTypeOK' /\ StaleTypeOK'
      BY <1>7 DEF LoaderTick, CullTypeOK, LockTypeOK, StaleTypeOK, cullVars, workerVars
  <2>4. QED
      BY <2>1, <2>2, <2>3
<1>8. CASE RenderGc
  <2>1. MainTypeOK'
      BY <1>8, GotoType DEF RenderGc
  <2>2. ListTypeOK'
    <3>1. life' \in [Instances -> Lives]
        BY <1>8, BecomesType DEF RenderGc, Lives
    <3>2. QED
        BY <1>0, <1>8, <3>1 DEF RenderGc, ListTypeOK
  <2>3. StaleTypeOK'
      BY <1>0, <1>8, TouchType DEF RenderGc, ListTypeOK
  <2>4. CullTypeOK' /\ LockTypeOK'
      BY <1>8 DEF RenderGc, CullTypeOK, LockTypeOK, cullVars, workerVars
  <2>5. QED
      BY <2>1, <2>2, <2>3, <2>4
<1>9. QED
    BY <1>1, <1>2, <1>3, <1>4, <1>5, <1>6, <1>7, <1>8 DEF FrameStep

LEMMA NetStepType ==
  ASSUME TypeOK, NEW u \in Units, Spawn(u) \/ Destroy(u)
  PROVE  TypeOK'
<1> USE DEF TypeOK
<1>1. u \in Instances /\ slot \in Slots
    BY DEF Instances, MainTypeOK
<1>2. ListTypeOK'
  <2>1. CASE Spawn(u)
    <3>1. life' \in [Instances -> Lives]
        BY <2>1, BecomesType DEF Spawn, Lives
    <3>2. QED
        BY <2>1, <3>1 DEF Spawn, ListTypeOK
  <2>2. CASE Destroy(u)
    <3>1. /\ life' \in [Instances -> Lives]
          /\ gc' \in [Slots -> SUBSET Instances]
          /\ together' \subseteq Instances
        BY <1>1, <2>2, CollectType DEF Destroy, Collect
    <3>2. QED
        BY <2>2, <3>1 DEF Destroy, ListTypeOK
  <2>3. QED
      BY <2>1, <2>2
<1>3. MainTypeOK' /\ CullTypeOK' /\ LockTypeOK' /\ StaleTypeOK'
    BY DEF Spawn, Destroy, MainTypeOK, CullTypeOK, LockTypeOK, StaleTypeOK, cullVars, workerVars
<1>4. QED
    BY <1>2, <1>3

LEMMA ShutdownType ==
  ASSUME TypeOK, Quit \/ ShutdownStep
  PROVE  TypeOK'
<1> USE DEF TypeOK
<1>1. CASE Quit
  <2>1. slot \in Slots /\ CullSlot \in Slots
      BY SlotsType DEF MainTypeOK
  <2>2. Attached(Doodads) \in SUBSET Instances /\ Attached(Details) \subseteq Details
      BY AttachedType DEF Instances
  <2>3. /\ life' \in [Instances -> Lives]
        /\ gc' \in [Slots -> SUBSET Instances]
        /\ together' \subseteq Instances
      BY <1>1, <2>1, <2>2, CollectType DEF Quit
  <2>4. ListTypeOK'
      BY <1>1, <2>1, <2>2, <2>3 DEF Quit, ShutIdle, ListTypeOK
  <2>5. MainTypeOK'
      BY <1>1, GotoType DEF Quit, ShutIdle
  <2>6. CullTypeOK' /\ LockTypeOK' /\ StaleTypeOK'
      BY <1>1 DEF Quit, ShutIdle, CullTypeOK, LockTypeOK, StaleTypeOK, workerVars
  <2>7. QED
      BY <2>4, <2>5, <2>6
<1>2. CASE DrainGc \/ DrainLoader
  <2>1. MainTypeOK'
      BY <1>2 DEF DrainGc, DrainLoader, ShutIdle, MainTypeOK
  <2>2. ListTypeOK'
    <3>1. life' \in [Instances -> Lives]
        BY <1>2, BecomesType DEF DrainGc, DrainLoader, Lives, ListTypeOK
    <3>2. QED
        BY <1>2, <3>1 DEF DrainGc, DrainLoader, ShutIdle, ListTypeOK
  <2>3. CullTypeOK' /\ LockTypeOK' /\ StaleTypeOK'
      BY <1>2 DEF DrainGc, DrainLoader, ShutIdle, CullTypeOK, LockTypeOK, StaleTypeOK, workerVars
  <2>4. QED
      BY <2>1, <2>2, <2>3
<1>3. CASE DrainTasks \/ Stop \/ JoinWorkers \/ FreeLoader
  <2>1. MainTypeOK'
      BY <1>3 DEF DrainTasks, Stop, JoinWorkers, FreeLoader, ShutIdle, MainTypeOK, Goto
  <2>2. CullTypeOK'
      BY <1>3, WokenType DEF DrainTasks, Stop, JoinWorkers, FreeLoader, ShutIdle, CullTypeOK
  <2>3. ListTypeOK' /\ LockTypeOK' /\ StaleTypeOK'
      BY <1>3 DEF DrainTasks, Stop, JoinWorkers, FreeLoader, ShutIdle, ListTypeOK, LockTypeOK,
                  StaleTypeOK, workerVars
  <2>4. QED
      BY <2>1, <2>2, <2>3
<1>4. QED
    BY <1>1, <1>2, <1>3 DEF ShutdownStep

-----------------------------------------------------------------------------
(* The steps of the cullers and of the workers                             *)

LEMMA MapCullType ==
  ASSUME TypeOK, NEW c \in Cullers, MapCull(c)
  PROVE  TypeOK'
<1> USE DEF TypeOK
<1>1. slot \in Slots /\ CullSlot \in Slots
    BY SlotsType DEF MainTypeOK
<1>2. LockTypeOK'
    BY DEF MapCull, LoadTick, UnloadDetail, LoadDetail, ListObject, ReleaseObjects,
           CullerIdle, workerVars, LockTypeOK
<1>3. CASE LoadTick(c)
  <2>1. PICK D \in SUBSET Attached(Doodads), T \in SUBSET Attached(Details) :
          /\ CollectAndPark(D, T)
          /\ parked' = [parked EXCEPT ![CullSlot] = @ \cup T]
      BY <1>3 DEF LoadTick
  <2>2. D \in SUBSET Instances /\ T \subseteq Details
      BY AttachedType DEF Instances
  <2>3. /\ life' \in [Instances -> Lives]
        /\ gc' \in [Slots -> SUBSET Instances]
        /\ together' \subseteq Instances
      BY <1>1, <2>1, <2>2, CollectType
  <2>4. ListTypeOK'
      BY <1>1, <1>3, <2>1, <2>2, <2>3 DEF LoadTick, CullerIdle, ListTypeOK
  <2>5. MainTypeOK' /\ CullTypeOK' /\ StaleTypeOK'
      BY <1>3 DEF LoadTick, CullerIdle, MainTypeOK, CullTypeOK, StaleTypeOK
  <2>6. QED
      BY <1>2, <2>4, <2>5
<1>4. ASSUME NEW o \in Instances, UnloadDetail(c, o) \/ LoadDetail(c, o) \/ ListObject(c, o)
      PROVE  TypeOK'
  <2>1. MainTypeOK' /\ CullTypeOK' /\ StaleTypeOK'
      BY <1>4 DEF UnloadDetail, LoadDetail, ListObject, CullerIdle, MainTypeOK, CullTypeOK,
                  StaleTypeOK
  <2>2. CASE UnloadDetail(c, o)
    <3>1. /\ life' \in [Instances -> Lives]
          /\ gc' \in [Slots -> SUBSET Instances]
          /\ together' \subseteq Instances
        BY <1>1, <2>2, CollectType DEF UnloadDetail, Collect
    <3>2. QED
        BY <1>2, <2>1, <2>2, <3>1 DEF UnloadDetail, CullerIdle, ListTypeOK
  <2>3. CASE LoadDetail(c, o)
    <3>1. life' \in [Instances -> Lives]
        BY <2>3, BecomesType DEF LoadDetail, Lives
    <3>2. QED
        BY <1>2, <2>1, <2>3, <3>1 DEF LoadDetail, CullerIdle, ListTypeOK
  <2>4. CASE ListObject(c, o)
      BY <1>1, <1>2, <2>1, <2>4 DEF ListObject, CullerIdle, ListTypeOK
  <2>5. QED
      BY <1>4, <2>2, <2>3, <2>4
<1>5. CASE ReleaseObjects(c)
  <2>1. MainTypeOK'
    <3>1. main' = main \/ Goto("tick")
        BY <1>5 DEF ReleaseObjects
    <3>2. QED
        BY <1>5, <3>1 DEF ReleaseObjects, CullerIdle, MainTypeOK, Goto
  <2>2. CullTypeOK'
    <3>1. cull' = cull \/ cull' = [at |-> "end", todo |-> {}]
        BY <1>5 DEF ReleaseObjects
    <3>2. scene' \in [Cullers -> {"idle", "tick", "list"}]
        BY <1>5 DEF ReleaseObjects, CullTypeOK
    <3>3. QED
        BY <1>5, <3>1, <3>2 DEF ReleaseObjects, CullerIdle, CullTypeOK
  <2>3. StaleTypeOK'
      BY <1>1, <1>5, TouchType DEF ReleaseObjects, ListTypeOK
  <2>4. ListTypeOK'
      BY <1>5 DEF ReleaseObjects, CullerIdle, ListTypeOK
  <2>5. QED
      BY <1>2, <2>1, <2>2, <2>3, <2>4
<1>6. QED
    BY <1>3, <1>4, <1>5 DEF MapCull

LEMMA CullStepType ==
  ASSUME TypeOK, CullStep \/ SpuriousWakeup
  PROVE  TypeOK'
<1> USE DEF TypeOK
<1> DEFINE Thread == [at : {"test", "ready", "blocked", "physics", "scene", "end", "exit"},
                      todo : SUBSET Units]
                     \cup [at : {"move"}, todo : SUBSET Units, obj : Units]
<1>1. CASE CullRunning \/ CullReady \/ SpuriousWakeup
  <2>1. cull' \in Thread
      BY <1>1, WokenType DEF CullRunning, CullReady, SpuriousWakeup, CullTypeOK
  <2>2. stale' \subseteq stale \cup {<<"loader", "cull">>}
      BY <1>1 DEF CullRunning, CullReady, SpuriousWakeup, TouchLoader
  <2>3. UNCHANGED <<slot, main, cullEnded, running, life, units, list, gc, parked,
                    dying, workerVars, together, scene>> /\ cullReady' \in BOOLEAN
      BY <1>1 DEF CullRunning, CullReady, SpuriousWakeup, CullAlone, CullTypeOK
  <2>4. QED
      BY <2>1, <2>2, <2>3 DEF MainTypeOK, CullTypeOK, ListTypeOK, LockTypeOK, StaleTypeOK,
                              workerVars
<1>2. CASE MoveUnit \/ EndPhysics \/ EndCull \/ \E u \in Units : PickUnit(u)
  <2>1. cull' \in Thread
    <3>1. CASE \E u \in Units : PickUnit(u)
        BY <3>1 DEF PickUnit, CullTypeOK
    <3>2. CASE MoveUnit
        BY <3>2 DEF MoveUnit, CullTypeOK
    <3>3. CASE EndPhysics \/ EndCull
        BY <3>3 DEF EndPhysics, EndCull, CullTypeOK
    <3>4. QED
        BY <1>2, <3>1, <3>2, <3>3
  <2>2. scene' \in [Cullers -> {"idle", "tick", "list"}]
      BY <1>2 DEF MoveUnit, EndPhysics, EndCull, PickUnit, CullTypeOK
  <2>3. stale' \subseteq stale \cup ({"physics"} \X Units)
    <3>1. CASE MoveUnit
        BY <3>1 DEF MoveUnit, CullTypeOK
    <3>2. CASE ~MoveUnit
        BY <1>2, <3>2 DEF EndPhysics, EndCull, PickUnit
    <3>3. QED
        BY <3>1, <3>2
  <2>4. /\ UNCHANGED <<slot, main, cullReady, running, life, units, list, gc, parked,
                       dying, workerVars, together>>
        /\ cullEnded' \in Nat
      BY <1>2 DEF MoveUnit, EndPhysics, EndCull, PickUnit, CullAlone, CullTypeOK
  <2>5. QED
      BY <2>1, <2>2, <2>3, <2>4 DEF MainTypeOK, CullTypeOK, ListTypeOK, LockTypeOK,
                                    StaleTypeOK, workerVars
<1>3. QED
    BY <1>1, <1>2 DEF CullStep

LEMMA WorkerStepType ==
  ASSUME TypeOK, NEW w \in Workers, WorkerStep(w)
  PROVE  TypeOK'
<1> USE DEF TypeOK
<1>1. slot \in Slots /\ CullSlot \in Slots /\ GcSlot \in Slots
    BY SlotsType DEF MainTypeOK
<1>2. WorkerAlone /\ straddled' \subseteq Workers
    BY DEF WorkerStep, GcAim, GcLock, GcPush, GcUnlock, Straddles, LockTypeOK
<1>3. MainTypeOK' /\ CullTypeOK' /\ StaleTypeOK'
    BY <1>2 DEF WorkerAlone, MainTypeOK, CullTypeOK, StaleTypeOK, cullVars
<1>4. ASSUME NEW o \in Details, GcAim(w, o) PROVE TypeOK'
  <2>1. ListTypeOK'
      BY <1>4 DEF GcAim, WorkerAlone, ListTypeOK
  <2>2. LockTypeOK'
      BY <1>1, <1>4 DEF GcAim, LockTypeOK
  <2>3. QED
      BY <1>3, <2>1, <2>2
<1>5. CASE GcLock(w)
  <2>1. worker[w] \in [at : {"lock", "push", "unlock"}, obj : Details, slot : Slots]
      BY <1>5 DEF GcLock, LockTypeOK, NoWork
  <2>2. LockTypeOK'
      BY <1>5, <2>1 DEF GcLock, LockTypeOK
  <2>3. ListTypeOK'
      BY <1>5 DEF GcLock, WorkerAlone, ListTypeOK
  <2>4. QED
      BY <1>3, <2>2, <2>3
<1>6. CASE GcPush(w)
  <2>1. worker[w] \in [at : {"lock", "push", "unlock"}, obj : Details, slot : Slots]
      BY <1>6 DEF GcPush, LockTypeOK, NoWork
  <2>2. worker[w].obj \in Instances
      BY <2>1 DEF Instances
  <2>3. ListTypeOK'
    <3>1. life' \in [Instances -> Lives]
        BY <1>6, BecomesType DEF GcPush, Lives
    <3>2. gc' \in [Slots -> SUBSET Instances]
        BY <1>1, <1>6, <2>2 DEF GcPush, ListTypeOK
    <3>3. together' \subseteq Instances
        BY <1>1, <1>6, <2>2 DEF GcPush, ListTypeOK
    <3>4. QED
        BY <1>6, <3>1, <3>2, <3>3 DEF GcPush, WorkerAlone, ListTypeOK
  <2>4. LockTypeOK'
      BY <1>2, <1>6, <2>1 DEF GcPush, LockTypeOK
  <2>5. QED
      BY <1>3, <2>3, <2>4
<1>7. CASE GcUnlock(w)
  <2>1. LockTypeOK'
      BY <1>1, <1>2, <1>7 DEF GcUnlock, LockTypeOK, Unlocked
  <2>2. ListTypeOK'
      BY <1>7 DEF GcUnlock, WorkerAlone, ListTypeOK
  <2>3. QED
      BY <1>3, <2>1, <2>2
<1>8. QED
    BY <1>4, <1>5, <1>6, <1>7 DEF WorkerStep

LEMMA StutterType == ASSUME TypeOK, UNCHANGED vars PROVE TypeOK'
BY DEF vars, TypeOK, MainTypeOK, CullTypeOK, ListTypeOK, LockTypeOK, StaleTypeOK

LEMMA NextType == TypeOK /\ [Next]_vars => TypeOK'
BY FrameStepType, NetStepType, ShutdownType, MapCullType, CullStepType, WorkerStepType,
   StutterType DEF Next, NetStep, Hung, Gone

(* The lists of a frame, the lists of what is to be freed and the depths   *)
(* of the mutexes stay what they are, for any number of threads and        *)
(* instances: in particular no mutex is unlocked more than it was locked.  *)
THEOREM TypeCorrect == Spec => []TypeOK
<1>1. QED
    BY InitType, NextType, PTL DEF Spec

-----------------------------------------------------------------------------
(* The handshake of loader_start_cull, loader_cull_run and loader_wait_cull*)

LEMMA MainKeepsExclusive ==
  ASSUME TypeOK, CullExclusive, FrameStep
  PROVE  CullExclusive'
<1> USE DEF TypeOK, MainTypeOK, CullTypeOK, CullExclusive, PassDone, PassAsked, PassRuns,
            InPass, Cullers
<1>1. CASE NewFrame
    BY <1>1 DEF NewFrame, cullVars
<1>2. CASE AddUnits \/ LoaderTick \/ RenderGc
    BY <1>2 DEF AddUnits, LoaderTick, RenderGc, Goto, cullVars
<1>3. CASE StartCull
  <2>1. main.at = "start" /\ main' = [main EXCEPT !.at = "draw"] /\ scene' = scene
      BY <1>3 DEF StartCull, Goto
  <2>2. CASE main.async
    <3>1. cullEnded' = 0 /\ cullReady' = TRUE /\ cull.at # "ready" /\ cull' = Woken(cull)
        BY <1>3, <2>2 DEF StartCull
    <3>2. PassAsked'
        BY <2>1, <3>1 DEF Woken
    <3>3. scene["cull"] = "idle" /\ cull'.at # "scene"
        BY <2>1, <3>1 DEF Woken
    <3>4. QED
        BY <2>1, <2>2, <3>2, <3>3
  <2>3. CASE ~main.async
      BY <1>3, <2>1, <2>3 DEF StartCull, cullVars
  <2>4. QED
      BY <2>2, <2>3
<1>4. CASE Draw
    BY <1>4 DEF Draw, Goto, cullVars
<1>5. CASE NetEnd
    BY <1>5 DEF NetEnd, Goto, cullVars
<1>6. CASE WaitCull
    BY <1>6 DEF WaitCull, CullDone, Goto, cullVars
<1>7. QED
    BY <1>1, <1>2, <1>3, <1>4, <1>5, <1>6 DEF FrameStep

LEMMA CullerKeepsExclusive ==
  ASSUME TypeOK, CullExclusive,
         (\E c \in Cullers : MapCull(c)) \/ CullStep \/ SpuriousWakeup
  PROVE  CullExclusive'
<1> USE DEF TypeOK, MainTypeOK, CullTypeOK, CullExclusive, PassDone, PassAsked, PassRuns,
            InPass, Cullers
<1>1. ASSUME NEW c \in Cullers, MapCull(c) PROVE CullExclusive'
  <2>1. CASE LoadTick(c)
      BY <2>1 DEF LoadTick, CullerIdle
  <2>2. CASE \E o \in Instances : UnloadDetail(c, o) \/ LoadDetail(c, o) \/ ListObject(c, o)
      BY <2>2 DEF UnloadDetail, LoadDetail, ListObject, CullerIdle
  <2>3. CASE ReleaseObjects(c)
    <3>1. scene[c] = "list" /\ scene' = [scene EXCEPT ![c] = "idle"]
          /\ UNCHANGED <<cullReady, cullEnded>>
        BY <2>3 DEF ReleaseObjects, CullerIdle
    <3>2. CASE c = "main"
        BY <2>3, <3>1, <3>2 DEF ReleaseObjects, Goto
    <3>3. CASE c = "cull"
        BY <2>3, <3>1, <3>3 DEF ReleaseObjects
    <3>4. QED
        BY <3>2, <3>3
  <2>4. QED
      BY <1>1, <2>1, <2>2, <2>3 DEF MapCull
<1>2. CASE CullRunning \/ SpuriousWakeup
    BY <1>2 DEF CullRunning, SpuriousWakeup, Woken, CullAlone
<1>3. CASE CullReady
    BY <1>3 DEF CullReady, CullAlone
<1>4. CASE MoveUnit \/ \E u \in Units : PickUnit(u)
    BY <1>4 DEF MoveUnit, PickUnit, CullAlone
<1>5. CASE EndPhysics
    BY <1>5 DEF EndPhysics, CullAlone
<1>6. CASE EndCull
    BY <1>6 DEF EndCull
<1>7. QED
    BY <1>1, <1>2, <1>3, <1>4, <1>5, <1>6 DEF CullStep

(* what the rest of the program does leaves the handshake alone            *)
LEMMA OthersKeepExclusive ==
  ASSUME TypeOK, CullExclusive,
         NetStep \/ Quit \/ ShutdownStep \/ (\E w \in Workers : WorkerStep(w)) \/ UNCHANGED vars
  PROVE  CullExclusive'
<1> USE DEF TypeOK, MainTypeOK, CullTypeOK, CullExclusive, PassDone, PassAsked, PassRuns,
            InPass, Cullers
<1>1. CASE NetStep
    BY <1>1 DEF NetStep, Spawn, Destroy, cullVars
<1>2. CASE Quit
    BY <1>2 DEF Quit, ShutIdle, Goto
<1>3. CASE ShutdownStep
  <2>1. UNCHANGED <<cullReady, cullEnded, scene>>
        /\ main.at \notin {"draw", "net", "wait", "cull"}
        /\ main'.at # "cull"
      BY <1>3 DEF ShutdownStep, DrainGc, DrainLoader, DrainTasks, Stop, JoinWorkers,
                  FreeLoader, ShutIdle, Goto
  <2>2. cull' = cull \/ cull' = Woken(cull)
      BY <1>3 DEF ShutdownStep, DrainGc, DrainLoader, DrainTasks, Stop, JoinWorkers, FreeLoader
  <2>3. InPass' = InPass /\ (cull'.at = "scene" <=> cull.at = "scene")
      BY <2>2 DEF Woken
  <2>4. QED
      BY <2>1, <2>3
<1>4. CASE \E w \in Workers : WorkerStep(w)
    BY <1>4 DEF WorkerStep, GcAim, GcLock, GcPush, GcUnlock, WorkerAlone, cullVars
<1>5. CASE UNCHANGED vars
    BY <1>5 DEF vars
<1>6. QED
    BY <1>1, <1>2, <1>3, <1>4, <1>5

(* Nobody reads or writes the lists of the frame to cull, or the map, but  *)
(* one culler at a time: the cull thread is never in its pass when the     *)
(* main thread ends a frame, clears the next one or culls itself.          *)
THEOREM CullersExclude == Spec => []CullExclusive
<1>1. Init => CullExclusive
    BY DEF Init, CullExclusive, PassDone, InPass, Cullers
<1>2. TypeOK /\ CullExclusive /\ [Next]_vars => CullExclusive'
    BY MainKeepsExclusive, CullerKeepsExclusive, OthersKeepExclusive DEF Next, Hung, Gone
<1>3. QED
    BY <1>1, <1>2, TypeCorrect, PTL DEF Spec

-----------------------------------------------------------------------------
(* The gc mutexes                                                          *)

LEMMA WorkerKeepsLocks ==
  ASSUME TypeOK, LocksBalanced, NEW w \in Workers, WorkerStep(w)
  PROVE  LocksBalanced'
<1> SUFFICES ASSUME straddled' = {}, NEW s \in Slots, NEW v \in Workers
             PROVE  (depth[s][v] = IF worker[v].at \in {"push", "unlock"} /\ worker[v].slot = s
                                   THEN 1 ELSE 0)'
    BY DEF LocksBalanced
<1> USE DEF TypeOK, LockTypeOK, MainTypeOK, NoWork
<1>1. straddled = {}
    BY DEF WorkerStep, GcAim, GcLock, GcPush, GcUnlock, Straddles
<1>2. \A u \in Workers : depth[s][u] = IF worker[u].at \in {"push", "unlock"} /\ worker[u].slot = s
                                       THEN 1 ELSE 0
    BY <1>1 DEF LocksBalanced
<1>3. GcSlot \in Slots
    BY SlotsType
<1>4. CASE \E o \in Details : GcAim(w, o)
    BY <1>2, <1>3, <1>4 DEF GcAim
<1>5. CASE GcLock(w)
    BY <1>2, <1>5 DEF GcLock
<1>6. CASE GcPush(w)
    BY <1>2, <1>6 DEF GcPush
<1>7. CASE GcUnlock(w)
  <2>1. GcSlot = worker[w].slot
      BY <1>1, <1>7 DEF GcUnlock, Straddles
  <2>2. QED
      BY <1>2, <1>3, <1>7, <2>1 DEF GcUnlock, Unlocked
<1>8. QED
    BY <1>4, <1>5, <1>6, <1>7 DEF WorkerStep

(* render_gc_m2 leaves every mutex as it found it, for any number of       *)
(* workers, unless a frame began under one of them: the one way a mutex    *)
(* the main thread needs can stay locked.                                  *)
THEOREM LocksStayBalanced == Spec => []LocksBalanced
<1>1. Init => LocksBalanced
    BY DEF Init, LocksBalanced, NoWork
<1>2. TypeOK /\ LocksBalanced /\ [Next]_vars => LocksBalanced'
  <2> SUFFICES ASSUME TypeOK, LocksBalanced, [Next]_vars PROVE LocksBalanced'
      OBVIOUS
  <2>1. CASE \E w \in Workers : WorkerStep(w)
      BY <2>1, WorkerKeepsLocks
  <2>2. CASE UNCHANGED workerVars
      BY <2>2 DEF LocksBalanced, workerVars
  <2>3. FrameStep \/ NetStep \/ Quit \/ ShutdownStep \/ UNCHANGED vars => UNCHANGED workerVars
      BY DEF FrameStep, NewFrame, AddUnits, StartCull, Draw, NetEnd, WaitCull, LoaderTick,
             RenderGc, NetStep, Spawn, Destroy, Quit, ShutdownStep, DrainGc, DrainLoader,
             DrainTasks, Stop, JoinWorkers, FreeLoader, ShutIdle, vars, workerVars
  <2>4. (\E c \in Cullers : MapCull(c)) \/ CullStep \/ SpuriousWakeup => UNCHANGED workerVars
      BY DEF MapCull, LoadTick, UnloadDetail, LoadDetail, ListObject, ReleaseObjects, CullerIdle,
             CullStep, CullRunning, CullReady, SpuriousWakeup, PickUnit, MoveUnit, EndPhysics,
             EndCull, CullAlone
  <2>5. QED
      BY <2>1, <2>2, <2>3, <2>4 DEF Next, Hung, Gone
<1>3. QED
    BY <1>1, <1>2, TypeCorrect, PTL DEF Spec

-----------------------------------------------------------------------------
(* Why the ring is long enough: Frames never uses a freed instance but     *)
(* where StaleUsesKnown says.                                              *)
LEMMA SlotsTurn ==
  ASSUME slot \in Slots
  PROVE  /\ Slots = {slot, CullSlot, GcSlot}
         /\ slot # CullSlot /\ slot # GcSlot /\ CullSlot # GcSlot
         /\ slot' = NextSlot(slot) =>
              /\ slot' = CullSlot /\ CullSlot' = GcSlot /\ GcSlot' = slot
              /\ NextSlot(slot') = GcSlot
         /\ slot' = slot => CullSlot' = CullSlot /\ GcSlot' = GcSlot
<1>1. CASE slot = 0
    BY <1>1 DEF Slots, CullSlot, GcSlot, GcSlotOf, NextSlot
<1>2. CASE slot = 1
    BY <1>2 DEF Slots, CullSlot, GcSlot, GcSlotOf, NextSlot
<1>3. CASE slot = 2
    BY <1>3 DEF Slots, CullSlot, GcSlot, GcSlotOf, NextSlot
<1>4. QED
    BY <1>1, <1>2, <1>3 DEF Slots

(* what TypeOK and the assumptions say of what the ring holds              *)
LEMMA Types ==
  ASSUME TypeOK
  PROVE  /\ slot \in Slots /\ CullSlot \in Slots /\ GcSlot \in Slots
         /\ life \in [Instances -> Lives]
         /\ gc \in [Slots -> SUBSET Instances] /\ list \in [Slots -> SUBSET Instances]
         /\ units \subseteq Instances /\ dying \subseteq Instances
         /\ parked \in [Slots -> SUBSET Instances]
         /\ \A w \in Workers : Deleting(w) => worker[w].obj \in Instances
         /\ \A s \in Slots : \A o \in gc[s] \cup list[s] \cup parked[s] : o \in Instances
<1>1. \A w \in Workers : Deleting(w) => worker[w].obj \in Instances
    BY DEF TypeOK, LockTypeOK, Deleting, NoWork, Instances
<1>2. QED
    BY <1>1, SlotsType DEF TypeOK, MainTypeOK, ListTypeOK, Instances

-----------------------------------------------------------------------------
(* Each part of RingInv under the steps that hardly touch it               *)

(* a step that collects nothing, frees nothing and only lists what is      *)
(* attached                                                                *)
LEMMA RingKept ==
  ASSUME TypeOK, Ring, CollectedOnce, UNCHANGED <<slot, gc, together>>,
         \A o \in Instances, s \in Slots : o \in list'[s] => o \in list[s] \/ life[o] = "attached",
         \A o \in Instances : life'[o] = "freed" => life[o] = "freed",
         InFrames' => InFrames /\ (main.at = "top" => main'.at = "top")
  PROVE  Ring'
<1> SUFFICES ASSUME InFrames', NEW o \in Instances
             PROVE (/\ o \in gc[GcSlot] => LateOnly(o, CullSlot)
                    /\ o \in gc[CullSlot] => o \notin list[CullSlot] /\ LateOnly(o, slot)
                    /\ o \in gc[slot] => Unlisted(o) /\ LateOnly(o, GcSlot)
                    /\ life[o] = "freed" => Unlisted(o)
                         /\ (o \in list[GcSlot] => main.at = "top" /\ o \in together))'
    BY DEF Ring
<1>1. /\ slot \in Slots /\ CullSlot \in Slots /\ GcSlot \in Slots
      /\ CullSlot' = CullSlot /\ GcSlot' = GcSlot
    BY Types, SlotsTurn
<1>2. \A s \in Slots : o \in gc[s] => life[o] # "attached"
    BY DEF CollectedOnce
<1>3. /\ o \in gc[GcSlot] => LateOnly(o, CullSlot)
      /\ o \in gc[CullSlot] => o \notin list[CullSlot] /\ LateOnly(o, slot)
      /\ o \in gc[slot] => Unlisted(o) /\ LateOnly(o, GcSlot)
      /\ life[o] = "freed" => Unlisted(o) /\ (o \in list[GcSlot] => main.at = "top" /\ o \in together)
    BY DEF Ring
<1>4. QED
    BY <1>1, <1>2, <1>3 DEF LateOnly, Unlisted

(* a step that leaves what was collected as it is                          *)
LEMMA CollectedKept ==
  ASSUME TypeOK, CollectedOnce, UNCHANGED gc,
         \A o \in Instances : life[o] = "collected" => life'[o] = "collected",
         \A u \in units' : life'[u] = "attached"
  PROVE  CollectedOnce'
BY Types DEF CollectedOnce

(* a step that leaves what was parked as it is                             *)
LEMMA ParkedKept ==
  ASSUME TypeOK, ParkedOnce, UNCHANGED <<parked, dying>>,
         \A o \in Instances : life[o] = "parked" => life'[o] = "parked",
         \A w \in Workers : Deleting(w)' => Deleting(w) /\ worker'[w].obj = worker[w].obj
  PROVE  ParkedOnce'
<1>1. /\ \A s \in Slots : \A o \in parked[s] : life'[o] = "parked" /\ o \notin dying
      /\ \A s, t \in Slots : s # t => parked[s] \cap parked[t] = {}
      /\ \A o \in dying : life'[o] = "parked"
    BY Types DEF ParkedOnce
<1>2. ASSUME NEW w \in Workers, Deleting(w)'
      PROVE  /\ life'[worker'[w].obj] = "parked" /\ worker'[w].obj \notin dying
             /\ \A s \in Slots : worker'[w].obj \notin parked[s]
             /\ \A v \in Workers \ {w} : Deleting(v)' => worker'[v].obj # worker'[w].obj
    BY <1>2, Types DEF ParkedOnce
<1>3. QED
    BY <1>1, <1>2 DEF ParkedOnce

(* render_gc_m2 of what is attached, S, and the parking of T               *)
LEMMA CollectKeeps ==
  ASSUME TypeOK, RingInv, NEW S \in SUBSET Instances, NEW T \in SUBSET Instances,
         S \cap T = {}, \A o \in S \cup T : life[o] = "attached",
         CollectAndPark(S, T), UNCHANGED <<slot, list, dying, worker>>,
         \A u \in units' : u \in units \ (S \cup T),
         \A s \in Slots : parked'[s] = IF s = CullSlot THEN parked[s] \cup T ELSE parked[s],
         InFrames' => InFrames /\ main.at # "top"
  PROVE  Ring' /\ CollectedOnce' /\ ParkedOnce'
<1>1. /\ slot \in Slots /\ CullSlot \in Slots /\ GcSlot \in Slots
      /\ CullSlot' = CullSlot /\ GcSlot' = GcSlot
      /\ slot # CullSlot /\ slot # GcSlot /\ CullSlot # GcSlot
    BY Types, SlotsTurn
<1>2. \A s \in Slots : gc'[s] = IF s = GcSlot THEN gc[s] \cup S ELSE gc[s]
    BY <1>1, Types DEF CollectAndPark
<1>3. \A o \in Instances : life'[o] = IF o \in S THEN "collected"
                                      ELSE IF o \in T THEN "parked" ELSE life[o]
    BY DEF CollectAndPark
<1>4. together' = together \cup (S \cap list[CullSlot])
    BY DEF CollectAndPark
<1>5. CollectedOnce /\ ParkedOnce /\ Ring
    BY DEF RingInv
<1>6. Ring'
  <2> SUFFICES ASSUME InFrames', NEW o \in Instances
               PROVE (/\ o \in gc[GcSlot] => LateOnly(o, CullSlot)
                      /\ o \in gc[CullSlot] => o \notin list[CullSlot] /\ LateOnly(o, slot)
                      /\ o \in gc[slot] => Unlisted(o) /\ LateOnly(o, GcSlot)
                      /\ life[o] = "freed" => Unlisted(o)
                           /\ (o \in list[GcSlot] => main.at = "top" /\ o \in together))'
      BY DEF Ring
  <2>1. /\ o \in gc[GcSlot] => LateOnly(o, CullSlot)
        /\ o \in gc[CullSlot] => o \notin list[CullSlot] /\ LateOnly(o, slot)
        /\ o \in gc[slot] => Unlisted(o) /\ LateOnly(o, GcSlot)
        /\ life[o] = "freed" => Unlisted(o) /\ (o \in list[GcSlot] => main.at = "top" /\ o \in together)
      BY <1>5 DEF Ring
  <2>2. life'[o] = "freed" => life[o] = "freed"
      BY <1>3
  <2>3. QED
      BY <1>1, <1>2, <1>4, <2>1, <2>2 DEF LateOnly, Unlisted
<1>7. CollectedOnce'
  <2>1. \A s \in Slots : \A o \in gc[s] : o \notin S /\ o \notin T
      BY <1>5 DEF CollectedOnce
  <2>2. \A s \in Slots : \A o \in gc'[s] : life'[o] = "collected"
    <3> SUFFICES ASSUME NEW s \in Slots, NEW o \in gc'[s] PROVE life'[o] = "collected"
        OBVIOUS
    <3>1. CASE o \in gc[s]
      <4>1. life[o] = "collected" /\ o \in Instances
          BY <1>5, <3>1, Types DEF CollectedOnce
      <4>2. QED
          BY <1>3, <2>1, <3>1, <4>1
    <3>2. CASE o \in S
        BY <1>3, <3>2
    <3>3. QED
        BY <1>2, <3>1, <3>2
  <2>3. \A s, t \in Slots : s # t => gc'[s] \cap gc'[t] = {}
      BY <1>2, <1>5, <2>1 DEF CollectedOnce
  <2>4. \A u \in units' : life'[u] = "attached"
      BY <1>3, <1>5, Types DEF CollectedOnce
  <2>5. QED
      BY <2>2, <2>3, <2>4 DEF CollectedOnce
<1>8. ParkedOnce'
  <2>1. \A o \in Instances : life[o] = "parked" => o \notin S /\ o \notin T /\ life'[o] = "parked"
      BY <1>3
  <2>2. \A s \in Slots : \A o \in parked'[s] : life'[o] = "parked" /\ o \notin dying
    <3> SUFFICES ASSUME NEW s \in Slots, NEW o \in parked'[s]
                 PROVE  life'[o] = "parked" /\ o \notin dying
        OBVIOUS
    <3>1. CASE o \in parked[s]
      <4>1. life[o] = "parked" /\ o \notin dying /\ o \in Instances
          BY <1>5, <3>1, Types DEF ParkedOnce
      <4>2. QED
          BY <2>1, <4>1
    <3>2. CASE o \in T
      <4>1. \A p \in dying : life[p] = "parked"
          BY <1>5 DEF ParkedOnce
      <4>2. o \notin dying
          BY <3>2, <4>1
      <4>3. QED
          BY <1>3, <3>2, <4>2
    <3>3. QED
        BY <3>1, <3>2
  <2>3. \A s, t \in Slots : s # t => parked'[s] \cap parked'[t] = {}
    <3>1. \A s \in Slots : parked[s] \cap T = {}
        BY <1>5 DEF ParkedOnce
    <3>2. \A s, t \in Slots : s # t => parked[s] \cap parked[t] = {}
        BY <1>5 DEF ParkedOnce
    <3>3. QED
        BY <3>1, <3>2
  <2>4. \A o \in dying : life'[o] = "parked"
      BY <1>5, <2>1, Types DEF ParkedOnce
  <2>5. ASSUME NEW w \in Workers, Deleting(w)
        PROVE  /\ life'[worker[w].obj] = "parked" /\ worker[w].obj \notin dying
               /\ \A s \in Slots : worker[w].obj \notin parked'[s]
               /\ \A v \in Workers \ {w} : Deleting(v) => worker[v].obj # worker[w].obj
    <3>1. worker[w].obj \in Instances
        BY <2>5, Types
    <3>2. /\ life[worker[w].obj] = "parked" /\ worker[w].obj \notin dying
          /\ \A s \in Slots : worker[w].obj \notin parked[s]
          /\ \A v \in Workers \ {w} : Deleting(v) => worker[v].obj # worker[w].obj
        BY <1>5, <2>5 DEF ParkedOnce
    <3>3. life'[worker[w].obj] = "parked" /\ worker[w].obj \notin T
        BY <2>1, <3>1, <3>2
    <3>4. \A s \in Slots : worker[w].obj \notin parked'[s]
        BY <3>2, <3>3
    <3>5. QED
        BY <3>2, <3>3, <3>4
  <2>6. QED
      BY <2>2, <2>3, <2>4, <2>5 DEF ParkedOnce, Deleting
<1>9. QED
    BY <1>6, <1>7, <1>8

-----------------------------------------------------------------------------
(* RingInv is inductive                                                    *)

LEMMA InitRing == Init => RingInv
<1> SUFFICES ASSUME Init PROVE RingInv
    OBVIOUS
<1>1. slot \in Slots
    BY DEF Init, Slots
<1>2. CullSlot \in Slots /\ GcSlot \in Slots
    BY <1>1, SlotsType
<1>3. Ring
    BY <1>1, <1>2 DEF Init, Ring, LateOnly, Unlisted
<1>4. CollectedOnce /\ ParkedOnce /\ Stopped
    BY DEF Init, CollectedOnce, ParkedOnce, Stopped, Deleting, NoWork
<1>5. QED
    BY <1>3, <1>4 DEF RingInv

(* steps that touch nothing of the ring                                    *)
LEMMA RingIdle ==
  ASSUME TypeOK, RingInv, UNCHANGED <<slot, life, units, list, gc, parked, dying, together>>,
         \A w \in Workers : Deleting(w)' => Deleting(w) /\ worker'[w].obj = worker[w].obj,
         InFrames' => InFrames /\ (main.at = "top" => main'.at = "top"),
         Stopped'
  PROVE  RingInv'
<1>1. Ring /\ CollectedOnce /\ ParkedOnce
    BY DEF RingInv
<1>2. Ring'
    BY <1>1, RingKept
<1>3. CollectedOnce'
    BY <1>1, CollectedKept DEF CollectedOnce
<1>4. ParkedOnce'
    BY <1>1, ParkedKept
<1>5. QED
    BY <1>2, <1>3, <1>4 DEF RingInv

(* The turn of the ring: the list to be culled was drawn a frame ago.      *)
LEMMA NewFrameRing ==
  ASSUME TypeOK, RingInv, NewFrame
  PROVE  RingInv'
<1>1. /\ slot' = CullSlot /\ CullSlot' = GcSlot /\ GcSlot' = slot
      /\ slot \in Slots /\ CullSlot \in Slots /\ GcSlot \in Slots
      /\ slot # CullSlot /\ slot # GcSlot /\ CullSlot # GcSlot
      /\ NextSlot(slot') = GcSlot
    BY Types, SlotsTurn DEF NewFrame
<1>2. /\ list' = [list EXCEPT ![GcSlot] = {}]
      /\ UNCHANGED <<running, life, units, gc, parked, dying, worker, together>>
      /\ main'.at = "objects" /\ main.at = "top"
    BY <1>1 DEF NewFrame, workerVars, TypeOK, MainTypeOK
<1>3. list'[GcSlot] = {} /\ list'[CullSlot] = list[CullSlot] /\ list'[slot] = list[slot]
    BY <1>1, <1>2, Types
<1>4. Ring'
  <2> SUFFICES ASSUME NEW o \in Instances
               PROVE (/\ o \in gc[GcSlot] => LateOnly(o, CullSlot)
                      /\ o \in gc[CullSlot] => o \notin list[CullSlot] /\ LateOnly(o, slot)
                      /\ o \in gc[slot] => Unlisted(o) /\ LateOnly(o, GcSlot)
                      /\ life[o] = "freed" => Unlisted(o)
                           /\ (o \in list[GcSlot] => main.at = "top" /\ o \in together))'
      BY DEF Ring
  <2>1. /\ o \in gc[GcSlot] => LateOnly(o, CullSlot)
        /\ o \in gc[CullSlot] => o \notin list[CullSlot] /\ LateOnly(o, slot)
        /\ life[o] = "freed" => Unlisted(o)
      BY <1>2 DEF RingInv, Ring, InFrames
  <2>2. QED
      BY <1>1, <1>2, <1>3, <2>1 DEF LateOnly, Unlisted
<1>5. CollectedOnce' /\ ParkedOnce' /\ Stopped'
    BY <1>2 DEF RingInv, CollectedOnce, ParkedOnce, Stopped, Deleting
<1>6. QED
    BY <1>4, <1>5 DEF RingInv

(* render_gc: what it frees has been off the lists for two frames          *)
LEMMA RenderGcRing ==
  ASSUME TypeOK, RingInv, RenderGc
  PROVE  RingInv'
<1>1. /\ slot' = slot /\ CullSlot' = CullSlot /\ GcSlot' = GcSlot
      /\ slot \in Slots /\ CullSlot \in Slots /\ GcSlot \in Slots
      /\ slot # CullSlot /\ slot # GcSlot /\ CullSlot # GcSlot
    BY Types, SlotsTurn DEF RenderGc
<1>2. /\ UNCHANGED <<running, units, list, parked, dying, worker, together>>
      /\ main'.at = "top" /\ main.at = "gc"
    BY DEF RenderGc, Goto, workerVars, TypeOK, MainTypeOK
<1>3. \A o \in Instances : life'[o] = IF o \in gc[slot] THEN "freed" ELSE life[o]
    BY DEF RenderGc, Becomes
<1>4. \A s \in Slots : gc'[s] = IF s = slot THEN {} ELSE gc[s]
    BY <1>1, Types DEF RenderGc
<1>5. Ring /\ CollectedOnce /\ ParkedOnce
    BY DEF RingInv
<1>6. Ring'
  <2> SUFFICES ASSUME NEW o \in Instances
               PROVE (/\ o \in gc[GcSlot] => LateOnly(o, CullSlot)
                      /\ o \in gc[CullSlot] => o \notin list[CullSlot] /\ LateOnly(o, slot)
                      /\ o \in gc[slot] => Unlisted(o) /\ LateOnly(o, GcSlot)
                      /\ life[o] = "freed" => Unlisted(o)
                           /\ (o \in list[GcSlot] => main.at = "top" /\ o \in together))'
      BY DEF Ring
  <2>1. /\ o \in gc[GcSlot] => LateOnly(o, CullSlot)
        /\ o \in gc[CullSlot] => o \notin list[CullSlot] /\ LateOnly(o, slot)
        /\ o \in gc[slot] => Unlisted(o) /\ LateOnly(o, GcSlot)
        /\ life[o] = "freed" => Unlisted(o) /\ o \notin list[GcSlot]
      BY <1>2, <1>5 DEF Ring, InFrames
  <2>2. QED
      BY <1>1, <1>2, <1>3, <1>4, <2>1 DEF LateOnly, Unlisted
<1>7. CollectedOnce'
  <2>1. \A s \in Slots : \A o \in gc'[s] : o \in gc[s] /\ o \notin gc[slot] /\ o \in Instances
      BY <1>1, <1>4, <1>5, Types DEF CollectedOnce
  <2>2. \A u \in units : u \notin gc[slot] /\ u \in Instances
      BY <1>1, <1>5, Types DEF CollectedOnce
  <2>3. QED
      BY <1>2, <1>3, <1>4, <1>5, <2>1, <2>2 DEF CollectedOnce
<1>8. ParkedOnce'
  <2>1. \A o \in Instances : life[o] = "parked" => life'[o] = "parked"
      BY <1>1, <1>3, <1>5 DEF CollectedOnce
  <2>2. QED
      BY <1>2, <1>5, <2>1, ParkedKept DEF Deleting
<1>9. QED
    BY <1>2, <1>6, <1>7, <1>8 DEF RingInv, Stopped

(* loader_tick attaches what was never listed, and hands to the workers    *)
(* what was parked two frames ago                                          *)
LEMMA LoaderTickRing ==
  ASSUME TypeOK, RingInv, LoaderTick
  PROVE  RingInv'
<1>1. /\ UNCHANGED <<slot, running, units, list, gc, worker, together>>
      /\ main.at = "tick" /\ main'.at = "gc" /\ slot \in Slots
    BY Types DEF LoaderTick, Goto, workerVars, TypeOK, MainTypeOK
<1>2. PICK S \in SUBSET {o \in Doodads : life[o] = "unborn"} : life' = Becomes(S, "attached")
    BY DEF LoaderTick
<1>3. \A o \in Instances : life[o] # "unborn" => life'[o] = life[o]
    BY <1>2 DEF Becomes
<1>4. \A o \in Instances : life'[o] = "freed" => life[o] = "freed"
    BY <1>2 DEF Becomes
<1>5. Ring /\ CollectedOnce /\ ParkedOnce
    BY DEF RingInv
<1>6. Ring'
    BY <1>1, <1>4, <1>5, RingKept DEF InFrames
<1>7. CollectedOnce'
  <2>1. \A u \in units : life'[u] = "attached"
      BY <1>3, <1>5, Types DEF CollectedOnce
  <2>2. \A o \in Instances : life[o] = "collected" => life'[o] = "collected"
      BY <1>3
  <2>3. QED
      BY <1>1, <1>5, <2>1, <2>2, CollectedKept
<1>8. ParkedOnce'
  <2>1. /\ dying' = dying \cup parked[slot]
        /\ \A s \in Slots : parked'[s] = IF s = slot THEN {} ELSE parked[s]
      BY <1>1, Types DEF LoaderTick
  <2>2. /\ \A s \in Slots : \A o \in parked[s] : life'[o] = "parked" /\ o \notin dying
        /\ \A s, t \in Slots : s # t => parked[s] \cap parked[t] = {}
        /\ \A o \in dying : life'[o] = "parked"
      BY <1>3, <1>5, Types DEF ParkedOnce
  <2>3. /\ \A s \in Slots : \A o \in parked'[s] : life'[o] = "parked" /\ o \notin dying'
        /\ \A s, t \in Slots : s # t => parked'[s] \cap parked'[t] = {}
        /\ \A o \in dying' : life'[o] = "parked"
      BY <1>1, <2>1, <2>2
  <2>4. ASSUME NEW w \in Workers, Deleting(w)
        PROVE  /\ life'[worker[w].obj] = "parked" /\ worker[w].obj \notin dying'
               /\ \A s \in Slots : worker[w].obj \notin parked'[s]
               /\ \A v \in Workers \ {w} : Deleting(v) => worker[v].obj # worker[w].obj
    <3>1. worker[w].obj \in Instances
        BY <2>4, Types
    <3>2. /\ life[worker[w].obj] = "parked" /\ worker[w].obj \notin dying
          /\ \A s \in Slots : worker[w].obj \notin parked[s]
          /\ \A v \in Workers \ {w} : Deleting(v) => worker[v].obj # worker[w].obj
        BY <1>5, <2>4 DEF ParkedOnce
    <3>3. QED
        BY <1>1, <1>3, <2>1, <3>1, <3>2
  <2>5. QED
      BY <1>1, <2>3, <2>4 DEF ParkedOnce, Deleting
<1>9. QED
    BY <1>1, <1>6, <1>7, <1>8 DEF RingInv, Stopped

LEMMA FrameKeepsRing ==
  ASSUME TypeOK, RingInv, FrameStep
  PROVE  RingInv'
<1>1. CASE AddUnits
  <2>1. /\ UNCHANGED <<slot, running, life, units, gc, parked, dying, worker, together>>
        /\ main.at = "objects" /\ main'.at = "start"
      BY <1>1 DEF AddUnits, Goto, workerVars, TypeOK, MainTypeOK
  <2>2. \A o \in Instances, s \in Slots : o \in list'[s] => o \in list[s] \/ life[o] = "attached"
    <3>1. PICK S \in SUBSET units : list' = [list EXCEPT ![CullSlot] = @ \cup S]
        BY <1>1 DEF AddUnits
    <3>2. \A u \in S : life[u] = "attached"
        BY DEF RingInv, CollectedOnce
    <3>3. QED
        BY <3>1, <3>2, Types
  <2>3. Ring /\ CollectedOnce /\ ParkedOnce
      BY DEF RingInv
  <2>4. Ring'
      BY <2>1, <2>2, <2>3, RingKept DEF InFrames
  <2>5. CollectedOnce' /\ ParkedOnce'
      BY <2>1, <2>3, CollectedKept, ParkedKept DEF CollectedOnce, Deleting
  <2>6. QED
      BY <2>1, <2>4, <2>5 DEF RingInv, Stopped
<1>2. CASE StartCull \/ Draw \/ NetEnd \/ WaitCull
  <2>1. UNCHANGED <<slot, running, life, units, list, gc, parked, dying, worker, together>>
      BY <1>2 DEF StartCull, Draw, NetEnd, WaitCull, workerVars
  <2>2. main.at \in {"start", "draw", "net", "wait"} /\ main'.at \in {"draw", "net", "wait", "cull", "tick"}
      BY <1>2 DEF StartCull, Draw, NetEnd, WaitCull, Goto, TypeOK, MainTypeOK
  <2>3. QED
      BY <2>1, <2>2, RingIdle DEF Stopped, InFrames, Deleting
<1>3. QED
    BY <1>1, <1>2, NewFrameRing, RenderGcRing, LoaderTickRing DEF FrameStep

LEMMA NetKeepsRing ==
  ASSUME TypeOK, RingInv, NetStep
  PROVE  RingInv'
<1>1. ASSUME NEW u \in Units, Spawn(u) PROVE RingInv'
  <2>1. /\ UNCHANGED <<slot, main, running, list, gc, parked, dying, worker, together>>
        /\ units' = units \cup {u} /\ life[u] = "unborn" /\ u \in Instances
        /\ \A o \in Instances : life'[o] = IF o = u THEN "attached" ELSE life[o]
      BY <1>1 DEF Spawn, Becomes, workerVars, Instances
  <2>2. Ring' /\ CollectedOnce' /\ ParkedOnce'
      BY <2>1, RingKept, CollectedKept, ParkedKept, Types
         DEF RingInv, CollectedOnce, InFrames, Deleting
  <2>3. QED
      BY <2>1, <2>2 DEF RingInv, Stopped
<1>2. ASSUME NEW u \in Units, Destroy(u) PROVE RingInv'
  <2>1. /\ UNCHANGED <<slot, main, running, list, parked, dying, worker>>
        /\ units' = units \ {u} /\ u \in units /\ main.at = "net"
        /\ CollectAndPark({u}, {})
      BY <1>2 DEF Destroy, Collect, workerVars
  <2>2. life[u] = "attached" /\ {u} \in SUBSET Instances
      BY <2>1, Types DEF RingInv, CollectedOnce
  <2>3. Ring' /\ CollectedOnce' /\ ParkedOnce'
    <3>1. \A o \in {u} \cup {} : life[o] = "attached"
        BY <2>2
    <3>2. \A s \in Slots : parked'[s] = IF s = CullSlot THEN parked[s] \cup {} ELSE parked[s]
        BY <2>1
    <3>3. \A v \in units' : v \in units \ ({u} \cup {})
        BY <2>1
    <3>4. InFrames' => InFrames /\ main.at # "top"
        BY <2>1 DEF InFrames
    <3>5. QED
        BY <2>1, <2>2, <3>1, <3>2, <3>3, <3>4, CollectKeeps, SMTT(30)
  <2>4. QED
      BY <2>1, <2>3 DEF RingInv, Stopped
<1>3. QED
    BY <1>1, <1>2 DEF NetStep

LEMMA MapCullKeepsRing ==
  ASSUME TypeOK, RingInv, CullExclusive, NEW c \in Cullers, MapCull(c)
  PROVE  RingInv'
<1>1. InFrames /\ main.at # "top" /\ Ring /\ CollectedOnce /\ ParkedOnce /\ Stopped
  <2>1. scene[c] # "idle"
      BY DEF MapCull, LoadTick, ReleaseObjects, UnloadDetail, LoadDetail, ListObject
  <2>2. main.at \in {"cull", "draw", "net", "wait"}
      BY <2>1 DEF CullExclusive, PassDone, InPass, Cullers
  <2>3. QED
      BY <2>2 DEF InFrames, RingInv
<1>2. ASSUME LoadTick(c) PROVE RingInv'
  <2>1. UNCHANGED <<slot, main, running, units, list, dying, worker>>
      BY <1>2 DEF LoadTick, CullerIdle, workerVars
  <2>2. PICK D \in SUBSET Attached(Doodads), T \in SUBSET Attached(Details) :
          CollectAndPark(D, T) /\ parked' = [parked EXCEPT ![CullSlot] = @ \cup T]
      BY <1>2 DEF LoadTick
  <2>3. /\ D \in SUBSET Instances /\ T \in SUBSET Instances /\ D \cap T = {}
        /\ \A o \in D \cup T : life[o] = "attached"
      BY InstancesDisjoint DEF Attached, Instances
  <2>4. \A u \in units' : u \in units \ (D \cup T)
      BY <2>1, InstancesDisjoint DEF Attached, TypeOK, ListTypeOK
  <2>5. \A s \in Slots : parked'[s] = IF s = CullSlot THEN parked[s] \cup T ELSE parked[s]
      BY <2>2, Types
  <2>6. Ring' /\ CollectedOnce' /\ ParkedOnce'
      BY <1>1, <2>1, <2>2, <2>3, <2>4, <2>5, CollectKeeps
  <2>7. QED
      BY <1>1, <2>1, <2>6 DEF RingInv, Stopped
<1>3. ASSUME NEW o \in Instances, UnloadDetail(c, o) PROVE RingInv'
  <2>1. /\ UNCHANGED <<slot, main, running, units, list, parked, dying, worker>>
        /\ CollectAndPark({o}, {}) /\ o \in Attached(Details)
      BY <1>3 DEF UnloadDetail, CullerIdle, Collect, workerVars
  <2>2. {o} \in SUBSET Instances /\ \A p \in {o} \cup {} : life[p] = "attached"
      BY <2>1 DEF Attached
  <2>3. \A u \in units' : u \in units \ ({o} \cup {})
      BY <2>1, InstancesDisjoint DEF Attached, TypeOK, ListTypeOK
  <2>4. \A s \in Slots : parked'[s] = IF s = CullSlot THEN parked[s] \cup {} ELSE parked[s]
      BY <2>1
  <2>5. InFrames' => InFrames /\ main.at # "top"
      BY <1>1
  <2>6. Ring' /\ CollectedOnce' /\ ParkedOnce'
    <3>1. {o} \cap {} = {} /\ {} \in SUBSET Instances
        OBVIOUS
    <3>2. QED
        BY <2>1, <2>2, <2>3, <2>4, <2>5, <3>1, CollectKeeps
  <2>7. QED
      BY <1>1, <2>1, <2>6 DEF RingInv, Stopped
<1>4. ASSUME NEW o \in Instances, LoadDetail(c, o) PROVE RingInv'
  <2>1. /\ UNCHANGED <<slot, main, running, units, list, gc, parked, dying, worker, together>>
        /\ life[o] = "unborn"
        /\ \A p \in Instances : life'[p] = IF p = o THEN "attached" ELSE life[p]
      BY <1>4 DEF LoadDetail, CullerIdle, Becomes, workerVars
  <2>2. Ring'
      BY <1>1, <2>1, RingKept
  <2>3. CollectedOnce' /\ ParkedOnce'
      BY <1>1, <2>1, Types, CollectedKept, ParkedKept DEF CollectedOnce, Deleting
  <2>4. QED
      BY <1>1, <2>1, <2>2, <2>3 DEF RingInv, Stopped
<1>5. ASSUME NEW o \in Instances, ListObject(c, o) PROVE RingInv'
  <2>1. /\ UNCHANGED <<slot, main, running, life, units, gc, parked, dying, worker, together>>
        /\ list' = [list EXCEPT ![CullSlot] = @ \cup {o}] /\ life[o] = "attached"
      BY <1>5 DEF ListObject, CullerIdle, Attached, workerVars
  <2>2. \A p \in Instances, s \in Slots : p \in list'[s] => p \in list[s] \/ life[p] = "attached"
      BY <2>1, Types
  <2>3. Ring'
      BY <1>1, <2>1, <2>2, RingKept
  <2>4. CollectedOnce' /\ ParkedOnce'
      BY <1>1, <2>1, CollectedKept, ParkedKept DEF CollectedOnce, Deleting
  <2>5. QED
      BY <1>1, <2>1, <2>3, <2>4 DEF RingInv, Stopped
<1>6. ASSUME ReleaseObjects(c) PROVE RingInv'
  <2>1. /\ UNCHANGED <<slot, running, life, units, list, gc, parked, dying, worker, together>>
        /\ main' = main \/ main'.at = "tick"
      BY <1>6 DEF ReleaseObjects, CullerIdle, Goto, workerVars, TypeOK, MainTypeOK
  <2>2. QED
      BY <1>1, <2>1, RingIdle DEF Stopped, InFrames, Deleting
<1>7. QED
    BY <1>2, <1>3, <1>4, <1>5, <1>6 DEF MapCull

LEMMA CullKeepsRing ==
  ASSUME TypeOK, RingInv, CullStep \/ SpuriousWakeup
  PROVE  RingInv'
<1>1. UNCHANGED <<slot, main, running, life, units, list, gc, parked, dying, worker, together>>
    BY DEF CullStep, SpuriousWakeup, CullRunning, CullReady, PickUnit, MoveUnit, EndPhysics,
           EndCull, CullAlone, workerVars
<1>2. QED
    BY <1>1, RingIdle DEF RingInv, Stopped, InFrames, Deleting

(* The delete of a tile: what the worker collects is in no list of         *)
(* collected instances yet.                                                *)
LEMMA GcPushRing ==
  ASSUME TypeOK, RingInv, NEW w \in Workers, GcPush(w)
  PROVE  RingInv'
<1> DEFINE obj == worker[w].obj
<1>1. /\ UNCHANGED <<slot, main, running, units, list, parked, dying>>
      /\ worker[w].at = "push" /\ worker'[w].at = "unlock"
      /\ \A v \in Workers \ {w} : worker'[v] = worker[v]
      /\ together' = together \cup ({obj} \cap list[CullSlot])
    BY DEF GcPush, WorkerAlone, TypeOK, LockTypeOK, NoWork
<1>2. /\ slot \in Slots /\ CullSlot \in Slots /\ GcSlot \in Slots
      /\ CullSlot' = CullSlot /\ GcSlot' = GcSlot
      /\ slot # CullSlot /\ slot # GcSlot /\ CullSlot # GcSlot
    BY <1>1, Types, SlotsTurn
<1>3. Ring /\ CollectedOnce /\ ParkedOnce
    BY DEF RingInv
<1>4. obj \in Instances /\ life[obj] = "parked"
    BY <1>1, <1>3, Types DEF ParkedOnce, Deleting
<1>5. \A o \in Instances : life'[o] = IF o = obj THEN "collected" ELSE life[o]
    BY DEF GcPush, Becomes
<1>6. \A s \in Slots : obj \notin gc[s]
    BY <1>3, <1>4 DEF CollectedOnce
<1>7. /\ \A s \in Slots \ {GcSlot} : gc'[s] = gc[s]
      /\ gc'[GcSlot] = gc[GcSlot] \/ gc'[GcSlot] = gc[GcSlot] \cup {obj}
    BY <1>2, Types DEF GcPush
<1>8. Ring'
  <2> SUFFICES ASSUME InFrames', NEW o \in Instances
               PROVE (/\ o \in gc[GcSlot] => LateOnly(o, CullSlot)
                      /\ o \in gc[CullSlot] => o \notin list[CullSlot] /\ LateOnly(o, slot)
                      /\ o \in gc[slot] => Unlisted(o) /\ LateOnly(o, GcSlot)
                      /\ life[o] = "freed" => Unlisted(o)
                           /\ (o \in list[GcSlot] => main.at = "top" /\ o \in together))'
      BY DEF Ring
  <2>1. /\ o \in gc[GcSlot] => LateOnly(o, CullSlot)
        /\ o \in gc[CullSlot] => o \notin list[CullSlot] /\ LateOnly(o, slot)
        /\ o \in gc[slot] => Unlisted(o) /\ LateOnly(o, GcSlot)
        /\ life[o] = "freed" => Unlisted(o) /\ (o \in list[GcSlot] => main.at = "top" /\ o \in together)
      BY <1>1, <1>3 DEF Ring, InFrames
  <2>2. life'[o] = "freed" => life[o] = "freed"
      BY <1>5
  <2>3. QED
      BY <1>1, <1>2, <1>7, <2>1, <2>2 DEF LateOnly, Unlisted
<1>9. CollectedOnce'
  <2>1. \A s \in Slots : \A o \in gc'[s] : life'[o] = "collected"
    <3> SUFFICES ASSUME NEW s \in Slots, NEW o \in gc'[s] PROVE life'[o] = "collected"
        OBVIOUS
    <3>1. CASE o \in gc[s]
      <4>1. life[o] = "collected" /\ o \in Instances
          BY <1>3, <3>1, Types DEF CollectedOnce
      <4>2. QED
          BY <1>5, <4>1
    <3>2. CASE o = obj
        BY <1>4, <1>5, <3>2
    <3>3. QED
        BY <1>7, <3>1, <3>2
  <2>2. \A s, t \in Slots : s # t => gc'[s] \cap gc'[t] = {}
      BY <1>3, <1>6, <1>7 DEF CollectedOnce
  <2>3. \A u \in units' : life'[u] = "attached"
      BY <1>1, <1>3, <1>4, <1>5, Types DEF CollectedOnce
  <2>4. QED
      BY <2>1, <2>2, <2>3 DEF CollectedOnce
<1>10. ParkedOnce'
  <2>1. \A o \in Instances : life[o] = "parked" /\ o # obj => life'[o] = "parked"
      BY <1>5
  <2>2. obj \notin dying /\ \A s \in Slots : obj \notin parked[s]
      BY <1>1, <1>3 DEF ParkedOnce, Deleting
  <2>3. /\ \A s \in Slots : \A o \in parked[s] : life'[o] = "parked" /\ o \notin dying
        /\ \A o \in dying : life'[o] = "parked"
      BY <1>3, <2>1, <2>2, Types DEF ParkedOnce
  <2>4. \A s, t \in Slots : s # t => parked[s] \cap parked[t] = {}
      BY <1>3 DEF ParkedOnce
  <2>5. ASSUME NEW x \in Workers, Deleting(x)'
        PROVE  /\ life'[worker'[x].obj] = "parked" /\ worker'[x].obj \notin dying
               /\ \A s \in Slots : worker'[x].obj \notin parked[s]
               /\ \A v \in Workers \ {x} : Deleting(v)' => worker'[v].obj # worker'[x].obj
    <3>1. x # w /\ worker'[x] = worker[x] /\ Deleting(x) /\ Deleting(w)
        BY <1>1, <2>5 DEF Deleting
    <3>2. /\ life[worker[x].obj] = "parked" /\ worker[x].obj \notin dying
          /\ \A s \in Slots : worker[x].obj \notin parked[s]
          /\ \A v \in Workers \ {x} : Deleting(v) => worker[v].obj # worker[x].obj
        BY <1>3, <3>1 DEF ParkedOnce
    <3>3. worker[x].obj \in Instances /\ worker[x].obj # obj
        BY <3>1, <3>2, Types
    <3>4. \A v \in Workers \ {x} : Deleting(v)' => worker'[v].obj # worker[x].obj
        BY <1>1, <3>2 DEF Deleting
    <3>5. QED
        BY <2>1, <3>1, <3>2, <3>3, <3>4
  <2>6. QED
      BY <1>1, <2>3, <2>4, <2>5 DEF ParkedOnce
<1>11. QED
    BY <1>1, <1>8, <1>9, <1>10 DEF RingInv, Stopped

LEMMA GcAimRing ==
  ASSUME TypeOK, RingInv, NEW w \in Workers, NEW o \in Details, GcAim(w, o)
  PROVE  RingInv'
<1>1. /\ UNCHANGED <<slot, main, running, life, units, list, gc, parked, together>>
      /\ o \in dying /\ dying' = dying \ {o}
      /\ worker[w] = NoWork /\ worker'[w].at = "lock" /\ worker'[w].obj = o
      /\ \A v \in Workers \ {w} : worker'[v] = worker[v]
    BY DEF GcAim, WorkerAlone, TypeOK, LockTypeOK
<1>2. Ring /\ CollectedOnce /\ ParkedOnce
    BY DEF RingInv
<1>3. Ring' /\ CollectedOnce'
    BY <1>1, <1>2, RingKept, CollectedKept DEF InFrames, CollectedOnce
<1>4. ParkedOnce'
  <2>1. life[o] = "parked" /\ \A s \in Slots : o \notin parked[s]
      BY <1>1, <1>2 DEF ParkedOnce
  <2>2. ASSUME NEW v \in Workers \ {w}, Deleting(v)
        PROVE  worker[v].obj # o
      BY <1>1, <1>2, <2>2 DEF ParkedOnce
  <2>3. \A x \in Workers : Deleting(x)' => x = w \/ Deleting(x)
      BY <1>1 DEF Deleting
  <2>4. ASSUME NEW x \in Workers, Deleting(x)'
        PROVE  /\ life[worker'[x].obj] = "parked" /\ worker'[x].obj \notin dying'
               /\ \A s \in Slots : worker'[x].obj \notin parked[s]
               /\ \A v \in Workers \ {x} : Deleting(v)' => worker'[v].obj # worker'[x].obj
    <3>1. CASE x = w
        BY <1>1, <2>1, <2>2, <2>3, <3>1
    <3>2. CASE x # w
      <4>1. /\ life[worker[x].obj] = "parked" /\ worker[x].obj \notin dying
            /\ \A s \in Slots : worker[x].obj \notin parked[s]
            /\ \A v \in Workers \ {x} : Deleting(v) => worker[v].obj # worker[x].obj
          BY <1>2, <2>3, <2>4, <3>2 DEF ParkedOnce
      <4>2. QED
          BY <1>1, <2>2, <2>3, <2>4, <3>2, <4>1
    <3>3. QED
        BY <3>1, <3>2
  <2>5. QED
      BY <1>1, <1>2, <2>4 DEF ParkedOnce
<1>5. QED
    BY <1>1, <1>3, <1>4 DEF RingInv, Stopped

LEMMA WorkerKeepsRing ==
  ASSUME TypeOK, RingInv, NEW w \in Workers, WorkerStep(w)
  PROVE  RingInv'
<1>1. CASE GcLock(w) \/ GcUnlock(w)
  <2>1. UNCHANGED <<slot, main, running, life, units, list, gc, parked, dying, together>>
      BY <1>1 DEF GcLock, GcUnlock, WorkerAlone
  <2>2. ASSUME NEW v \in Workers, Deleting(v)'
        PROVE  Deleting(v) /\ worker'[v].obj = worker[v].obj
    <3>1. CASE GcLock(w)
        BY <2>2, <3>1 DEF GcLock, Deleting, TypeOK, LockTypeOK, NoWork
    <3>2. CASE GcUnlock(w)
        BY <2>2, <3>2 DEF GcUnlock, Deleting, TypeOK, LockTypeOK, NoWork
    <3>3. QED
        BY <1>1, <3>1, <3>2
  <2>3. QED
      BY <2>1, <2>2, RingIdle DEF RingInv, Stopped, InFrames
<1>2. QED
    BY <1>1, GcPushRing, GcAimRing DEF WorkerStep

LEMMA DrainGcRing ==
  ASSUME TypeOK, RingInv, DrainGc
  PROVE  RingInv'
<1>1. /\ UNCHANGED <<slot, running, units, parked, dying, worker>>
      /\ main'.at = "load" /\ \A s \in Slots : gc'[s] = {}
    BY DEF DrainGc, ShutIdle, workerVars, TypeOK, MainTypeOK
<1>2. \A o \in Instances : life'[o] = IF \E s \in Slots : o \in gc[s] THEN "freed" ELSE life[o]
    BY DEF DrainGc, Becomes
<1>3. CollectedOnce /\ ParkedOnce
    BY DEF RingInv
<1>4. CollectedOnce'
    BY <1>1, <1>2, <1>3, Types DEF CollectedOnce
<1>5. ParkedOnce'
  <2>1. \A o \in Instances : life[o] = "parked" => life'[o] = "parked"
      BY <1>2, <1>3 DEF CollectedOnce
  <2>2. QED
      BY <1>1, <1>3, <2>1, ParkedKept DEF Deleting
<1>6. QED
    BY <1>1, <1>4, <1>5 DEF RingInv, Ring, InFrames, Stopped

LEMMA DrainLoaderRing ==
  ASSUME TypeOK, RingInv, DrainLoader
  PROVE  RingInv'
<1>1. /\ UNCHANGED <<slot, running, life, units, gc, worker>>
      /\ main'.at = "async" /\ \A s \in Slots : parked'[s] = {}
      /\ dying' = dying \cup UNION {parked[s] : s \in Slots}
    BY DEF DrainLoader, ShutIdle, workerVars, TypeOK, MainTypeOK
<1>2. CollectedOnce /\ ParkedOnce
    BY DEF RingInv
<1>3. ParkedOnce'
  <2>1. \A o \in dying' : o \in dying \/ \E s \in Slots : o \in parked[s]
      BY <1>1
  <2>2. \A o \in dying' : life[o] = "parked"
      BY <1>2, <2>1 DEF ParkedOnce
  <2>3. ASSUME NEW w \in Workers, Deleting(w)
        PROVE  /\ life[worker[w].obj] = "parked" /\ worker[w].obj \notin dying'
               /\ \A v \in Workers \ {w} : Deleting(v) => worker[v].obj # worker[w].obj
      BY <1>2, <2>1, <2>3 DEF ParkedOnce
  <2>4. QED
      BY <1>1, <2>2, <2>3 DEF ParkedOnce, Deleting
<1>4. QED
    BY <1>1, <1>2, <1>3 DEF RingInv, Ring, CollectedOnce, InFrames, Stopped

LEMMA ShutdownKeepsRing ==
  ASSUME TypeOK, RingInv, Quit \/ ShutdownStep
  PROVE  RingInv'
<1>1. Ring /\ CollectedOnce /\ ParkedOnce /\ Stopped
    BY DEF RingInv
<1>2. CASE Quit
  <2> DEFINE D == Attached(Doodads)
             T == Attached(Details)
  <2>1. /\ UNCHANGED <<slot, running, units, list, dying, worker>> /\ main'.at = "drain"
        /\ CollectAndPark(D, T) /\ parked' = [parked EXCEPT ![CullSlot] = @ \cup T]
      BY <1>2 DEF Quit, ShutIdle, Goto, workerVars, TypeOK, MainTypeOK
  <2>2. /\ D \in SUBSET Instances /\ T \in SUBSET Instances /\ D \cap T = {}
        /\ \A o \in D \cup T : life[o] = "attached"
      BY InstancesDisjoint DEF Attached, Instances
  <2>3. \A u \in units' : u \in units \ (D \cup T)
      BY <2>1, InstancesDisjoint DEF Attached, TypeOK, ListTypeOK
  <2>4. \A s \in Slots : parked'[s] = IF s = CullSlot THEN parked[s] \cup T ELSE parked[s]
      BY <2>1, Types
  <2>5. InFrames' => InFrames /\ main.at # "top"
      BY <2>1 DEF InFrames
  <2> HIDE DEF D, T
  <2>6. Ring' /\ CollectedOnce' /\ ParkedOnce'
      BY <1>1, <2>1, <2>2, <2>3, <2>4, <2>5, CollectKeeps
  <2>7. QED
      BY <2>1, <2>6 DEF RingInv, Stopped
<1>3. CASE DrainTasks \/ Stop \/ JoinWorkers \/ FreeLoader
  <2>1. UNCHANGED <<slot, life, units, list, gc, parked, dying, worker, together>>
      BY <1>3 DEF DrainTasks, Stop, JoinWorkers, FreeLoader, ShutIdle, workerVars
  <2>2. /\ main'.at \in {"drain", "stop", "join", "free", "gone"}
        /\ Stopped'
      BY <1>1, <1>3 DEF DrainTasks, Stop, JoinWorkers, FreeLoader, Goto, Stopped, TypeOK, MainTypeOK
  <2>3. QED
      BY <2>1, <2>2, RingIdle DEF InFrames, Deleting
<1>4. QED
    BY <1>2, <1>3, DrainGcRing, DrainLoaderRing DEF ShutdownStep

(* RingInv holds in every step.                                            *)
LEMMA RingStep ==
  ASSUME TypeOK, CullExclusive, RingInv, [Next]_vars
  PROVE  RingInv'
<1>1. CASE UNCHANGED vars \/ Hung \/ Gone
    BY <1>1, RingIdle DEF vars, Hung, Gone, RingInv, Stopped, InFrames, Deleting
<1>2. QED
    BY <1>1, FrameKeepsRing, NetKeepsRing, ShutdownKeepsRing, MapCullKeepsRing,
       CullKeepsRing, WorkerKeepsRing DEF Next

-----------------------------------------------------------------------------
(* What a step uses                                                        *)

LEMMA TouchLive ==
  ASSUME NEW S, NEW site, Touch(site, S), \A o \in S : life[o] # "freed"
  PROVE  stale' = stale
BY DEF Touch, Uses

(* A use is of a unit, or of what was collected in the frame that listed   *)
(* it, or of the loader once it has stopped.                               *)
LEMMA FrameStale ==
  ASSUME TypeOK, RingInv, FrameStep
  PROVE  stale' \subseteq stale \cup ({"clear"} \X together)
<1>1. /\ slot \in Slots /\ CullSlot \in Slots /\ GcSlot \in Slots
      /\ \A s \in Slots : list[s] \subseteq Instances /\ gc[s] \subseteq Instances
    BY Types
<1>2. Ring /\ CollectedOnce
    BY DEF RingInv
<1>3. CASE NewFrame
  <2>1. main.at = "top" /\ Touch("clear", list[GcSlot])
      BY <1>1, <1>3, SlotsTurn DEF NewFrame
  <2>2. \A o \in list[GcSlot] : life[o] = "freed" => o \in together
      BY <1>1, <1>2, <2>1 DEF Ring, InFrames
  <2>3. QED
      BY <2>1, <2>2 DEF Touch, Uses
<1>4. CASE Draw
  <2>1. \A o \in list[slot] : life[o] # "freed"
      BY <1>1, <1>2, <1>4 DEF Draw, Ring, InFrames, Unlisted
  <2>2. QED
      BY <1>4, <2>1, TouchLive DEF Draw
<1>5. CASE RenderGc
  <2>1. \A o \in gc[slot] : life[o] # "freed"
      BY <1>1, <1>2 DEF CollectedOnce
  <2>2. QED
      BY <1>5, <2>1, TouchLive DEF RenderGc
<1>6. QED
    BY <1>3, <1>4, <1>5 DEF FrameStep, AddUnits, StartCull, NetEnd, WaitCull, LoaderTick

LEMMA MapCullStale ==
  ASSUME TypeOK, RingInv, CullExclusive, NEW c \in Cullers, MapCull(c)
  PROVE  stale' = stale
<1>1. CASE ReleaseObjects(c)
  <2>1. scene[c] # "idle"
      BY <1>1 DEF ReleaseObjects
  <2>2. InFrames
      BY <2>1 DEF CullExclusive, PassDone, InPass, Cullers, InFrames
  <2>3. \A o \in list[CullSlot] : life[o] # "freed"
      BY <2>2, Types DEF RingInv, Ring, Unlisted
  <2>4. QED
      BY <1>1, <2>3, TouchLive DEF ReleaseObjects
<1>2. QED
    BY <1>1 DEF MapCull, LoadTick, UnloadDetail, LoadDetail, ListObject

LEMMA CullStale ==
  ASSUME TypeOK, RingInv, CullStep \/ SpuriousWakeup
  PROVE  stale' \subseteq stale \cup ({"physics"} \X Units)
                       \cup (IF running THEN {} ELSE {<<"loader", "cull">>})
<1>1. CASE CullRunning \/ CullReady
    BY <1>1 DEF CullRunning, CullReady, TouchLoader, RingInv, Stopped
<1>2. CASE MoveUnit
  <2>1. cull.obj \in Units
      BY <1>2 DEF MoveUnit, TypeOK, CullTypeOK
  <2>2. QED
      BY <1>2, <2>1 DEF MoveUnit
<1>3. QED
    BY <1>1, <1>2 DEF CullStep, SpuriousWakeup, PickUnit, EndPhysics, EndCull

(* the history of what was collected in the frame that listed it only      *)
(* grows, and the loader does not start again                              *)
LEMMA HistoryGrows ==
  ASSUME [Next]_vars
  PROVE  together \subseteq together' /\ (running' => running)
<1>1. \A S, T : CollectAndPark(S, T) => together \subseteq together'
    BY DEF CollectAndPark
<1>2. CASE FrameStep \/ UNCHANGED vars
  <2>1. UNCHANGED <<together, running>>
      BY <1>2 DEF FrameStep, NewFrame, AddUnits, StartCull, Draw, NetEnd, WaitCull, LoaderTick,
                  RenderGc, vars
  <2>2. QED
      BY <2>1
<1>3. CASE NetStep \/ Quit
  <2>1. UNCHANGED running
      BY <1>3 DEF NetStep, Spawn, Destroy, Quit
  <2>2. together \subseteq together'
      BY <1>1, <1>3 DEF NetStep, Spawn, Destroy, Quit, Collect
  <2>3. QED
      BY <2>1, <2>2
<1>4. CASE ShutdownStep
  <2>1. UNCHANGED together
      BY <1>4 DEF ShutdownStep, DrainGc, DrainLoader, DrainTasks, Stop, JoinWorkers, FreeLoader
  <2>2. running' = FALSE \/ running' = running
      BY <1>4 DEF ShutdownStep, DrainGc, DrainLoader, DrainTasks, Stop, JoinWorkers, FreeLoader
  <2>3. QED
      BY <2>1, <2>2
<1>5. ASSUME NEW c \in Cullers, MapCull(c)
      PROVE  together \subseteq together' /\ UNCHANGED running
  <2>1. UNCHANGED running
      BY <1>5 DEF MapCull, LoadTick, UnloadDetail, LoadDetail, ListObject, ReleaseObjects, CullerIdle
  <2>2. UNCHANGED together \/ \E S, T : CollectAndPark(S, T)
      BY <1>5 DEF MapCull, LoadTick, UnloadDetail, LoadDetail, ListObject, ReleaseObjects, Collect
  <2>3. QED
      BY <1>1, <2>1, <2>2
<1>6. CASE CullStep \/ SpuriousWakeup
  <2>1. UNCHANGED <<together, running>>
      BY <1>6 DEF CullStep, SpuriousWakeup, CullRunning, CullReady, PickUnit, MoveUnit,
                  EndPhysics, EndCull, CullAlone
  <2>2. QED
      BY <2>1
<1>7. CASE \E w \in Workers : WorkerStep(w)
    BY <1>7 DEF WorkerStep, GcAim, GcLock, GcPush, GcUnlock, WorkerAlone
<1>8. QED
    BY <1>2, <1>3, <1>4, <1>5, <1>6, <1>7 DEF Next, Hung, Gone, vars

LEMMA StaleStep ==
  ASSUME TypeOK, CullExclusive, RingInv, StaleUsesKnown, [Next]_vars
  PROVE  StaleUsesKnown'
<1>1. stale' \subseteq stale \cup ({"clear"} \X together) \cup ({"physics"} \X Units)
                \cup (IF running THEN {} ELSE {<<"loader", "cull">>})
  <2>1. CASE NetStep \/ Quit \/ ShutdownStep
      BY <2>1 DEF NetStep, Spawn, Destroy, Quit, ShutdownStep, DrainGc, DrainLoader,
                  DrainTasks, Stop, JoinWorkers, FreeLoader
  <2>2. CASE \E w \in Workers : WorkerStep(w)
      BY <2>2 DEF WorkerStep, GcAim, GcLock, GcPush, GcUnlock, WorkerAlone
  <2>3. CASE Hung \/ Gone \/ UNCHANGED vars
      BY <2>3 DEF Hung, Gone, vars
  <2>4. CASE FrameStep
      BY <2>4, FrameStale
  <2>5. CASE \E c \in Cullers : MapCull(c)
      BY <2>5, MapCullStale
  <2>6. CASE CullStep \/ SpuriousWakeup
      BY <2>6, CullStale
  <2>7. QED
      BY <2>1, <2>2, <2>3, <2>4, <2>5, <2>6 DEF Next
<1>2. together \subseteq together' /\ (running' => running)
    BY HistoryGrows
<1>3. QED
    BY <1>1, <1>2 DEF StaleUsesKnown

-----------------------------------------------------------------------------
(* What is collected leaves the lists in use before it is freed, and is    *)
(* freed once (render_gc_m2, loader_gc_mcnk, render_gc, and the turn of    *)
(* the slots in loop).                                                     *)
THEOREM RingTurns == Spec => []RingInv
<1>1. TypeOK /\ CullExclusive /\ RingInv /\ [Next]_vars => RingInv'
    BY RingStep
<1>2. QED
    BY <1>1, InitRing, TypeCorrect, CullersExclude, PTL DEF Spec

(* Three frames are enough: no instance is drawn, released or deleted      *)
(* after it was freed.                                                     *)
THEOREM RingLongEnough == Spec => []StaleUsesKnown
<1>1. Init => StaleUsesKnown
    BY DEF Init, StaleUsesKnown
<1>2. TypeOK /\ CullExclusive /\ RingInv /\ StaleUsesKnown /\ [Next]_vars => StaleUsesKnown'
    BY StaleStep
<1>3. QED
    BY <1>1, <1>2, TypeCorrect, CullersExclude, RingTurns, PTL DEF Spec

=============================================================================
