------------------------------- MODULE Frames -------------------------------
(***************************************************************************)
(* The ring of frames (wow.c:loop, src/gx/frame.c) and the thread that     *)
(* culls (src/loader.c:loader_cull_run).                                   *)
(*                                                                         *)
(* In frame n the main thread draws the lists that were culled in frame    *)
(* n-1 while the cull thread fills those of frame n+1; what is collected   *)
(* goes to the list frame n-1 left behind and is freed two frames later.   *)
(* Workers collect too, whenever they delete a tile.                       *)
(*                                                                         *)
(* The members of Units, Doodads and Details are model instances           *)
(* (struct gx_m2_instance).  Those of Units belong to a unit of the world, *)
(* created and destroyed by packets; Doodads to a tile, collected by the   *)
(* culler when it unloads the tile; Details to the ground of a tile,       *)
(* collected by the culler when they are far, or by the worker that        *)
(* deletes the tile.  Addresses are not reused.                            *)
(***************************************************************************)
EXTENDS Integers, FiniteSets

CONSTANTS
  Units, Doodads, Details,
  Workers,      \* threads running loader_run
  MayQuit       \* whether the window may be closed

Instances == Units \cup Doodads \cup Details
Slots     == 0..2                \* RENDER_FRAMES_COUNT = 3, src/Makefile
Cullers   == {"main", "cull"}    \* the threads that may run map_cull

ASSUME InstancesDisjoint ==
  Units \cap Doodads = {} /\ Units \cap Details = {} /\ Doodads \cap Details = {}
ASSUME MayQuitType == MayQuit \in BOOLEAN

VARIABLES
  slot,         \* draw_frame_id
  main,         \* where the main thread is; culled_async; done, of the shutdown
  cull,         \* where the cull thread is, the units it has still to move
  cullReady, cullEnded, running,
  scene,        \* where each culler is in map_cull
  life,         \* what became of each instance
  units,        \* the units in g_wow->objects
  list,         \* by frame: the render lists and backrefs
  gc,           \* by frame: gc_lists
  parked,       \* by frame: the tiles condemned, loader->objects_gc
  dying,        \* the tiles a worker is to delete
  depth,        \* how often a worker locked the gc_mutex of a frame
  worker,       \* where each worker is in render_gc_m2
  together,     \* history: collected in the frame that had listed them
  straddled,    \* history: workers whose gc_frame changed under render_gc_m2
  stale         \* history: <<site, address>> of the uses of freed memory

cullVars   == <<cull, cullReady, cullEnded>>
workerVars == <<depth, worker, straddled>>
vars == <<slot, main, cull, cullReady, cullEnded, running, scene, life, units,
          list, gc, parked, dying, depth, worker, together, straddled, stale>>

-----------------------------------------------------------------------------
(* wow_frame_id(1) and wow_frame_id(-1) when wow_frame_id(0) is s          *)
NextSlotStays(s) == s       \* mutant
NextSlot(s) == (s + 1) % 3
CullSlot == NextSlot(slot)
GcSlotIsDrawn(s) == s       \* mutant
GcSlotOf(s) == (s + 2) % 3
GcSlot == GcSlotOf(slot)

Uses(site, S)  == {<<site, o>> : o \in {p \in S : life[p] = "freed"}}
Touch(site, S) == stale' = stale \cup Uses(site, S)

(* in the array of its owner, which empties it when it unloads             *)
Attached(S) == {o \in S : life[o] = "attached"}
Becomes(S, l) == [o \in Instances |-> IF o \in S THEN l ELSE life[o]]

Free(s) == \A w \in Workers : depth[s][w] = 0

(* render_gc_m2 of S by a thread that no new frame can overtake, while the  *)
(* details in T await the delete of their tile: life, gc, together         *)
CollectAndPark(S, T) ==
  /\ S # {} => Free(GcSlot)
  /\ life' = [o \in Instances |-> IF o \in S THEN "collected"
                                 ELSE IF o \in T THEN "parked" ELSE life[o]]
  /\ gc' = [gc EXCEPT ![GcSlot] = @ \cup S]
  /\ together' = together \cup (S \cap list[CullSlot])
Collect(S) == CollectAndPark(S, {})

NoWork == [at |-> "idle"]

Init ==
  /\ slot = 2
  /\ main = [at |-> "top", async |-> FALSE, done |-> TRUE]
  /\ cull = [at |-> "test", todo |-> {}]
  /\ cullReady = FALSE /\ cullEnded = 1 /\ running = TRUE
  /\ scene = [c \in Cullers |-> "idle"]
  /\ life = [o \in Instances |-> "unborn"]
  /\ units = {}
  /\ list = [s \in Slots |-> {}] /\ gc = [s \in Slots |-> {}]
  /\ parked = [s \in Slots |-> {}] /\ dying = {}
  /\ depth = [s \in Slots |-> [w \in Workers |-> 0]]
  /\ worker = [w \in Workers |-> NoWork]
  /\ together = {} /\ straddled = {} /\ stale = {}

-----------------------------------------------------------------------------
(* The frame of the main thread, in the order of loop                      *)

Goto(at) == main' = [main EXCEPT !.at = at]

(* the slots of the frame, and render_clear_scene of the one to cull: it   *)
(* writes to every instance the slot last listed                           *)
NewFrame ==
  /\ main.at = "top"
  /\ slot' = NextSlot(slot)
  /\ \E a \in BOOLEAN : main' = [main EXCEPT !.at = "objects", !.async = a]
  /\ list' = [list EXCEPT ![NextSlot(slot')] = {}]
  /\ Touch("clear", list[NextSlot(slot')])
  /\ UNCHANGED <<cullVars, running, scene, life, units, gc, parked, dying,
                 workerVars, together>>

(* worldobj_add_to_render lists the units in sight                         *)
AddUnits ==
  /\ main.at = "objects"
  /\ \E S \in SUBSET units : list' = [list EXCEPT ![CullSlot] = @ \cup S]
  /\ Goto("start")
  /\ UNCHANGED <<slot, cullVars, running, scene, life, units, gc, parked, dying,
                 workerVars, together, stale>>

WokenNever(c) == c          \* mutant
Woken(c) == IF c.at = "blocked" THEN [c EXCEPT !.at = "test"] ELSE c

(* loader_start_cull.  The cull thread owns cull_mutex between its two     *)
(* tests.                                                                  *)
StartCull ==
  /\ main.at = "start"
  /\ IF main.async
     THEN /\ cull.at # "ready"
          /\ cullEnded' = 0 /\ cullReady' = TRUE /\ cull' = Woken(cull)
     ELSE UNCHANGED cullVars
  /\ Goto("draw")
  /\ UNCHANGED <<slot, running, scene, life, units, list, gc, parked, dying,
                 workerVars, together, stale>>

(* map_render draws the lists of the previous frame                        *)
Draw ==
  /\ main.at = "draw"
  /\ Touch("draw", list[slot])
  /\ Goto("net")
  /\ UNCHANGED <<slot, cullVars, running, scene, life, units, list, gc, parked,
                 dying, workerVars, together>>

(* net_tick: a packet creates a unit ...                                   *)
Spawn(u) ==
  /\ main.at = "net" /\ life[u] = "unborn"
  /\ life' = Becomes({u}, "attached") /\ units' = units \cup {u}
  /\ UNCHANGED <<slot, main, cullVars, running, scene, list, gc, parked, dying,
                 workerVars, together, stale>>

(* ... or destroys one, SMSG_DESTROY_OBJECT: its model is collected and    *)
(* the unit freed at once                                                  *)
Destroy(u) ==
  /\ main.at = "net" /\ u \in units
  /\ Collect({u}) /\ units' = units \ {u}
  /\ UNCHANGED <<slot, main, cullVars, running, scene, list, parked, dying,
                 workerVars, stale>>

(* The packets are handled: without the cull thread, the main thread culls *)
NetEnd ==
  /\ main.at = "net"
  /\ IF main.async THEN Goto("wait") /\ UNCHANGED scene
                   ELSE Goto("cull") /\ scene' = [scene EXCEPT !["main"] = "tick"]
  /\ UNCHANGED <<slot, cullVars, running, life, units, list, gc, parked, dying,
                 workerVars, together, stale>>

(* loader_wait_cull                                                        *)
CullNotAwaited(ended) == TRUE   \* mutant
CullDone(ended) == ended >= 1   \* CULL_THREADS = 1
WaitCull ==
  /\ main.at = "wait" /\ cull.at # "ready" /\ CullDone(cullEnded)
  /\ Goto("tick")
  /\ UNCHANGED <<slot, cullVars, running, scene, life, units, list, gc, parked,
                 dying, workerVars, together, stale>>

(* loader_tick initialises tiles, whose doodads the culler may then list,  *)
(* and hands to the workers the tiles condemned two frames ago             *)
LoaderTick ==
  /\ main.at = "tick"
  /\ \E S \in SUBSET {o \in Doodads : life[o] = "unborn"} : life' = Becomes(S, "attached")
  /\ dying' = dying \cup parked[slot]
  /\ parked' = [parked EXCEPT ![slot] = {}]
  /\ Goto("gc")
  /\ UNCHANGED <<slot, cullVars, running, scene, units, list, gc, workerVars,
                 together, stale>>

(* render_gc(draw_frame)                                                   *)
RenderGc ==
  /\ main.at = "gc" /\ Free(slot)
  /\ life' = Becomes(gc[slot], "freed") /\ Touch("delete", gc[slot])
  /\ gc' = [gc EXCEPT ![slot] = {}]
  /\ Goto("top")
  /\ UNCHANGED <<slot, cullVars, running, scene, units, list, parked, dying,
                 workerVars, together>>

(* A worker that straddled two frames left a mutex locked: the main thread *)
(* waits for it for ever, or for another worker that does.                 *)
Hung ==
  /\ straddled # {}
  /\ \/ main.at = "gc" /\ ~Free(slot)
     \/ main.at = "drain" /\ \E s \in Slots : ~Free(s)
     \/ main.at \in {"async", "join"} /\ \E w \in Workers : worker[w].at = "lock"
  /\ UNCHANGED vars

FrameStep == NewFrame \/ AddUnits \/ StartCull \/ Draw \/ NetEnd \/ WaitCull \/ LoaderTick \/ RenderGc
NetStep   == \E u \in Units : Spawn(u) \/ Destroy(u)

-----------------------------------------------------------------------------
(* map_cull, by the main thread or by the cull thread                      *)

CullerIdle == UNCHANGED <<slot, cullReady, cullEnded, running, units, dying, workerVars>>

(* map_load_tick unloads the tiles out of range: their doodads are         *)
(* collected, the tiles parked with the details they still have            *)
LoadTick(c) ==
  /\ scene[c] = "tick"
  /\ \E D \in SUBSET Attached(Doodads), T \in SUBSET Attached(Details) :
       /\ CollectAndPark(D, T)
       /\ parked' = [parked EXCEPT ![CullSlot] = @ \cup T]
  /\ scene' = [scene EXCEPT ![c] = "list"]
  /\ UNCHANGED <<main, cull, list, stale>>
  /\ CullerIdle

(* gx_mcnk_add_objects_to_render: for the details of a batch, unload those *)
(* that are far ...                                                        *)
UnloadDetail(c, o) ==
  /\ scene[c] = "list" /\ o \in Attached(Details) \ list[CullSlot]
  /\ Collect({o})
  /\ UNCHANGED <<main, cull, scene, list, parked, stale>>
  /\ CullerIdle

(* ... load those that are near ...                                        *)
LoadDetail(c, o) ==
  /\ scene[c] = "list" /\ o \in Details /\ life[o] = "unborn"
  /\ life' = Becomes({o}, "attached")
  /\ UNCHANGED <<main, cull, scene, list, gc, parked, together, stale>>
  /\ CullerIdle

(* ... and list what is in sight                                           *)
ListObject(c, o) ==
  /\ scene[c] = "list" /\ o \in Attached(Doodads \cup Details) \ list[CullSlot]
  /\ list' = [list EXCEPT ![CullSlot] = @ \cup {o}]
  /\ UNCHANGED <<main, cull, scene, life, gc, parked, together, stale>>
  /\ CullerIdle

(* render_release_obj resets the in_render_list of every instance listed   *)
ReleaseObjects(c) ==
  /\ scene[c] = "list"
  /\ Touch("release", list[CullSlot])
  /\ scene' = [scene EXCEPT ![c] = "idle"]
  /\ IF c = "main" THEN Goto("tick") /\ UNCHANGED cull
                   ELSE cull' = [at |-> "end", todo |-> {}] /\ UNCHANGED main
  /\ UNCHANGED <<life, list, gc, parked, together>>
  /\ CullerIdle

MapCull(c) ==
  \/ LoadTick(c) \/ ReleaseObjects(c)
  \/ \E o \in Instances : UnloadDetail(c, o) \/ LoadDetail(c, o) \/ ListObject(c, o)

-----------------------------------------------------------------------------
(* loader_cull_run                                                         *)

CullAlone == UNCHANGED <<slot, main, cullEnded, running, life, units, list, gc,
                         parked, dying, workerVars, together>>
(* the fields of the loader, which the shutdown frees                      *)
TouchLoader == stale' = stale \cup (IF main.at = "gone" THEN {<<"loader", "cull">>} ELSE {})

(* while (loader->running), with cull_mutex                                *)
CullRunning ==
  /\ cull.at = "test"
  /\ cull' = [cull EXCEPT !.at = IF running THEN "ready" ELSE "exit"]
  /\ TouchLoader
  /\ CullAlone /\ UNCHANGED <<cullReady, scene>>

CullReady ==
  /\ cull.at = "ready"
  /\ IF cullReady THEN cull' = [at |-> "physics", todo |-> Units]
                  ELSE cull' = [cull EXCEPT !.at = "blocked"]
  /\ cullReady' = FALSE
  /\ TouchLoader
  /\ CullAlone /\ UNCHANGED scene

(* pthread_cond_wait may return though nobody signalled                    *)
SpuriousWakeup ==
  /\ cull.at = "blocked"
  /\ cull' = Woken(cull)
  /\ CullAlone /\ UNCHANGED <<cullReady, scene, stale>>

(* The walk of g_wow->objects reads the pointer of a unit, then moves it.  *)
(* The main thread may destroy the unit, and frees the node the walk is at.*)
PickUnit(u) ==
  /\ cull.at = "physics" /\ u \in units \cap cull.todo
  /\ cull' = [at |-> "move", todo |-> cull.todo \ {u}, obj |-> u]
  /\ CullAlone /\ UNCHANGED <<cullReady, scene, stale>>

MoveUnit ==
  /\ cull.at = "move"
  /\ cull' = [at |-> "physics", todo |-> cull.todo]
  /\ stale' = stale \cup (IF cull.obj \in units THEN {} ELSE {<<"physics", cull.obj>>})
  /\ CullAlone /\ UNCHANGED <<cullReady, scene>>

EndPhysics ==
  /\ cull.at = "physics" /\ units \cap cull.todo = {}
  /\ cull' = [at |-> "scene", todo |-> {}]
  /\ scene' = [scene EXCEPT !["cull"] = "tick"]
  /\ CullAlone /\ UNCHANGED <<cullReady, stale>>

EndCull ==
  /\ cull.at = "end"
  /\ cull' = [cull EXCEPT !.at = "test"]
  /\ cullEnded' = cullEnded + 1
  /\ UNCHANGED <<slot, main, cullReady, running, scene, life, units, list, gc,
                 parked, dying, workerVars, together, stale>>

CullStep ==
  \/ CullRunning \/ CullReady \/ MoveUnit \/ EndPhysics \/ EndCull
  \/ \E u \in Units : PickUnit(u)

-----------------------------------------------------------------------------
(* A worker in the delete of a tile: render_gc_m2 reads g_wow->gc_frame    *)
(* three times, to lock, to push and to unlock, and the main thread may    *)
(* start a frame in between.                                               *)

WorkerAlone == UNCHANGED <<slot, main, cullVars, running, scene, units, list,
                           parked, stale>>
Straddles(w) ==
  straddled' = IF GcSlot = worker[w].slot THEN straddled ELSE straddled \cup {w}

GcAim(w, o) ==
  /\ worker[w] = NoWork /\ running /\ o \in dying
  /\ worker' = [worker EXCEPT ![w] = [at |-> "lock", obj |-> o, slot |-> GcSlot]]
  /\ dying' = dying \ {o}
  /\ UNCHANGED <<life, gc, depth, together, straddled>>
  /\ WorkerAlone

(* the mutex is recursive                                                  *)
GcLock(w) ==
  /\ worker[w].at = "lock"
  /\ \A v \in Workers \ {w} : depth[worker[w].slot][v] = 0
  /\ depth' = [depth EXCEPT ![worker[w].slot][w] = @ + 1]
  /\ worker' = [worker EXCEPT ![w].at = "push"]
  /\ UNCHANGED <<life, gc, dying, together, straddled>>
  /\ WorkerAlone

(* the push to a list whose mutex another thread may have can be lost      *)
GcPush(w) ==
  /\ worker[w].at = "push"
  /\ LET o == worker[w].obj IN
     /\ \/ gc' = [gc EXCEPT ![GcSlot] = @ \cup {o}]
        \/ depth[GcSlot][w] = 0 /\ UNCHANGED gc
     /\ life' = Becomes({o}, "collected")
     /\ together' = together \cup ({o} \cap list[CullSlot])
  /\ worker' = [worker EXCEPT ![w].at = "unlock"]
  /\ Straddles(w)
  /\ UNCHANGED <<depth, dying>>
  /\ WorkerAlone

(* unlocking a mutex it does not own fails and changes nothing             *)
UnlockUnowned(d) == d - 1   \* mutant
Unlocked(d) == IF d > 0 THEN d - 1 ELSE 0
GcUnlock(w) ==
  /\ worker[w].at = "unlock"
  /\ depth' = [depth EXCEPT ![GcSlot][w] = Unlocked(@)]
  /\ worker' = [worker EXCEPT ![w] = NoWork]
  /\ Straddles(w)
  /\ UNCHANGED <<life, gc, dying, together>>
  /\ WorkerAlone

WorkerStep(w) ==
  GcLock(w) \/ GcPush(w) \/ GcUnlock(w) \/ \E o \in Details : GcAim(w, o)

-----------------------------------------------------------------------------
(* The shutdown                                                            *)

ShutIdle == UNCHANGED <<slot, cullReady, cullEnded, scene, units, list, workerVars>>

(* the window is closed: map_delete unloads every tile                     *)
Quit ==
  /\ MayQuit /\ main.at = "top"
  /\ CollectAndPark(Attached(Doodads), Attached(Details))
  /\ parked' = [parked EXCEPT ![CullSlot] = @ \cup Attached(Details)]
  /\ Goto("drain")
  /\ UNCHANGED <<cull, running, dying, stale>> /\ ShutIdle

(* the loop of the shutdown: render_gc of every frame ...                  *)
DrainGc ==
  /\ main.at = "drain" /\ \A s \in Slots : Free(s)
  /\ life' = Becomes(UNION {gc[s] : s \in Slots}, "freed")
  /\ gc' = [s \in Slots |-> {}]
  /\ main' = [main EXCEPT !.at = "load", !.done = FALSE]
  /\ UNCHANGED <<cull, running, parked, dying, together, stale>> /\ ShutIdle

(* ... loader_tick until the loader has nothing parked ...                 *)
DrainLoader ==
  /\ main.at = "load"
  /\ dying' = dying \cup UNION {parked[s] : s \in Slots}
  /\ parked' = [s \in Slots |-> {}]
  /\ main' = [main EXCEPT !.at = "async", !.done = dying' # {}]
  /\ UNCHANGED <<cull, running, life, gc, together, stale>> /\ ShutIdle

(* ... wait for the tasks, and again until a pass found nothing to do      *)
DrainTasks ==
  /\ main.at = "async" /\ dying = {}
  /\ Goto(IF main.done THEN "drain" ELSE "stop")
  /\ UNCHANGED <<cull, running, life, gc, parked, dying, together, stale>> /\ ShutIdle

(* loader_delete: stop, join the workers, wake the cull thread and, as     *)
(* cull_threads was reserved but never sized, join no cull thread          *)
Stop ==
  /\ main.at = "stop"
  /\ running' = FALSE
  /\ Goto("join")
  /\ UNCHANGED <<cull, life, gc, parked, dying, together, stale>> /\ ShutIdle

JoinWorkers ==
  /\ main.at = "join" /\ \A w \in Workers : worker[w] = NoWork
  /\ cull' = Woken(cull)
  /\ Goto("free")
  /\ UNCHANGED <<running, life, gc, parked, dying, together, stale>> /\ ShutIdle

FreeLoader ==
  /\ main.at = "free"
  /\ Goto("gone")
  /\ UNCHANGED <<cull, running, life, gc, parked, dying, together, stale>> /\ ShutIdle

Gone == main.at = "gone" /\ UNCHANGED vars

ShutdownStep == DrainGc \/ DrainLoader \/ DrainTasks \/ Stop \/ JoinWorkers \/ FreeLoader

Next ==
  \/ FrameStep \/ NetStep \/ Quit \/ ShutdownStep
  \/ \E c \in Cullers : MapCull(c)
  \/ CullStep \/ SpuriousWakeup
  \/ \E w \in Workers : WorkerStep(w)
  \/ Hung \/ Gone

Spec == Init /\ [][Next]_vars

(* Every thread runs; a walk of the map ends and the packets of a tick are *)
(* handled, whatever they say.  The main thread gets cull_mutex though the *)
(* cull thread takes it again and again.                                   *)
FairSpec ==
  /\ Spec
  /\ WF_vars(FrameStep \/ ShutdownStep)
  /\ SF_vars(StartCull \/ WaitCull)
  /\ \A c \in Cullers : WF_vars(LoadTick(c) \/ ReleaseObjects(c))
  /\ WF_vars(CullStep)
  /\ \A w \in Workers : WF_vars(WorkerStep(w))

-----------------------------------------------------------------------------
(* Properties                                                              *)

Lives == {"unborn", "attached", "parked", "collected", "freed"}

MainTypeOK ==
  /\ slot \in Slots /\ running \in BOOLEAN
  /\ main \in [at : {"top", "objects", "start", "draw", "net", "cull", "wait",
                     "tick", "gc", "drain", "load", "async", "stop", "join",
                     "free", "gone"}, async : BOOLEAN, done : BOOLEAN]

CullTypeOK ==
  /\ cull \in [at : {"test", "ready", "blocked", "physics", "scene", "end", "exit"},
               todo : SUBSET Units]
            \cup [at : {"move"}, todo : SUBSET Units, obj : Units]
  /\ cullReady \in BOOLEAN /\ cullEnded \in Nat
  /\ scene \in [Cullers -> {"idle", "tick", "list"}]

ListTypeOK ==
  /\ life \in [Instances -> Lives] /\ units \subseteq Units
  /\ list \in [Slots -> SUBSET Instances] /\ gc \in [Slots -> SUBSET Instances]
  /\ parked \in [Slots -> SUBSET Details] /\ dying \subseteq Details
  /\ together \subseteq Instances

LockTypeOK ==
  /\ depth \in [Slots -> [Workers -> Nat]]
  /\ worker \in [Workers -> {NoWork} \cup [at : {"lock", "push", "unlock"},
                                           obj : Details, slot : Slots]]
  /\ straddled \subseteq Workers

StaleTypeOK ==
  stale \subseteq ({"clear", "draw", "release", "delete"} \X Instances)
                  \cup ({"physics"} \X Units) \cup {<<"loader", "cull">>}

TypeOK == MainTypeOK /\ CullTypeOK /\ ListTypeOK /\ LockTypeOK /\ StaleTypeOK

(* The culler has the lists and the map to itself.  Between                *)
(* loader_start_cull and loader_wait_cull of a frame that culls            *)
(* asynchronously the pass of the cull thread is asked for, or under way,  *)
(* or done; at any other time it is done, and so never meets the end of a  *)
(* frame, the next one or a pass of the main thread.                       *)
InPass    == cull.at \in {"physics", "move", "scene", "end"}
PassAsked == cullReady /\ ~InPass /\ cullEnded = 0
PassRuns  == ~cullReady /\ InPass /\ cullEnded = 0
PassDone  == ~cullReady /\ ~InPass /\ cullEnded = 1
CullExclusive ==
  /\ \/ PassDone
     \/ (PassAsked \/ PassRuns) /\ main.async /\ main.at \in {"draw", "net", "wait"}
  /\ scene["main"] # "idle" <=> main.at = "cull"
  /\ scene["cull"] # "idle" <=> cull.at = "scene"

(* The ring is long enough for whatever is drawn, listed or released: an   *)
(* instance is freed only when no list names it but, by one frame, that of *)
(* a frame that listed it and collected it; render_clear_scene then writes *)
(* to it.  The physics moves units that a packet has just freed.           *)
StaleUsesKnown ==
  stale \subseteq ({"clear"} \X together) \cup ({"physics"} \X Units)
                  \cup (IF running THEN {} ELSE {<<"loader", "cull">>})

(* The ring is why two frames are enough.  What is freed, or about to be,  *)
(* has left the lists of the frames drawn and culled: an instance is       *)
(* collected at most once, by one thread, and from then on each frame that *)
(* begins takes the lists that name it one slot further away from those    *)
(* in use.  Only the list being filled when it was collected is late.      *)
Unlisted(o) == o \notin list[CullSlot] \cup list[slot]
LateOnly(o, s) == o \in list[s] => o \in together
InFrames == main.at \notin {"drain", "load", "async", "stop", "join", "free", "gone"}
Ring ==
  InFrames => \A o \in Instances :
    /\ o \in gc[GcSlot] => LateOnly(o, CullSlot)
    /\ o \in gc[CullSlot] => o \notin list[CullSlot] /\ LateOnly(o, slot)
    /\ o \in gc[slot] => Unlisted(o) /\ LateOnly(o, GcSlot)
    /\ life[o] = "freed" => Unlisted(o) /\ (o \in list[GcSlot] => main.at = "top" /\ o \in together)

CollectedOnce ==
  /\ \A s \in Slots : \A o \in gc[s] : life[o] = "collected"
  /\ \A s, t \in Slots : s # t => gc[s] \cap gc[t] = {}
  /\ \A u \in units : life[u] = "attached"

Deleting(w) == worker[w].at \in {"lock", "push"}
ParkedOnce ==
  /\ \A s \in Slots : \A o \in parked[s] : life[o] = "parked" /\ o \notin dying
  /\ \A s, t \in Slots : s # t => parked[s] \cap parked[t] = {}
  /\ \A o \in dying : life[o] = "parked"
  /\ \A w \in Workers : Deleting(w) =>
       /\ life[worker[w].obj] = "parked" /\ worker[w].obj \notin dying
       /\ \A s \in Slots : worker[w].obj \notin parked[s]
       /\ \A v \in Workers \ {w} : Deleting(v) => worker[v].obj # worker[w].obj

Stopped == main.at \in {"join", "free", "gone"} => ~running

RingInv == Ring /\ CollectedOnce /\ ParkedOnce /\ Stopped

(* A collection leaves the mutexes as it found them, unless a frame began  *)
(* while it ran; only then may the main thread be kept waiting for ever.   *)
LocksBalanced ==
  \A s \in Slots, w \in Workers :
    depth[s][w] = (IF worker[w].at \in {"push", "unlock"} /\ worker[w].slot = s THEN 1 ELSE 0)
    \/ straddled # {}

(* loader_delete frees the loader when the cull thread has ended           *)
CullThreadsJoined == main.at = "gone" => cull.at = "exit"

(* Frames go on for ever: the handshake with the cull thread and the       *)
(* mutexes of the lists never stop the main thread, unless a collection    *)
(* straddled two frames, until the window is closed.                       *)
FramesGoOn == []<>(main.at = "top" \/ straddled # {} \/ ~running)

(* While frames go on, what is collected or parked is freed, whichever     *)
(* thread collected it.                                                    *)
CollectedFreed ==
  \A o \in Instances :
    life[o] \in {"parked", "collected"} ~>
      (life[o] = "freed" \/ straddled # {} \/ ~running)
=============================================================================
