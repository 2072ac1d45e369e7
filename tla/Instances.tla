------------------------------ MODULE Instances -----------------------------
(***************************************************************************)
(* The instances of a building: gx_wmo->instances, the doodads that each   *)
(* instance makes when the building is loaded, and the mutexes that are    *)
(* taken on the way (src/gx/wmo.c, src/gx/wmo_group.c, src/gx/m2.c, the    *)
(* loads of src/map/tile.c, the lists of src/gx/frame.c).                  *)
(*                                                                         *)
(* An instance is made by a worker that loads a tile, or by the main       *)
(* thread for a map that is one building.  It enters the list of its       *)
(* building at once and gets its place later, under another hold of the    *)
(* mutex.  Whoever comes second, the instance or the load of the building, *)
(* tells the instance that the building is loaded.                         *)
(*                                                                         *)
(* There is one building with one group, and one model for its doodads.    *)
(* Files are found and fine, and others hold the building and the model,   *)
(* which stay: how they go is in Loader.  The main thread and the cull     *)
(* thread, which wait for each other, are one thread here; what the        *)
(* garbage lists hold until their frame has come round may be deleted at   *)
(* any time (Frames has the ring).                                         *)
(***************************************************************************)
EXTENDS Integers, Sequences, FiniteSets, SequencesExt

CONSTANTS
  Tiles,    \* loads of a tile with a building; its instance has its name
  Maps,     \* maps that are one building (map->wmo)
  Ids,      \* modf->unique_id
  IdOf,     \* that of each tile
  Workers,
  Frame,    \* the thread of the frames: main and cull
  None

Instances == Tiles \cup Maps
Threads == Workers \cup {Frame}

(* cache->map_wmo.mutex, the gc_mutex of the frame that is emptied, that   *)
(* of g_wow->gc_frame, cache->wmo.mutex and cache->m2.mutex, in the order  *)
(* in which they are taken                                                 *)
Locks == {"map_wmo", "frame", "gc", "wmo", "m2"}
Rank == [map_wmo |-> 1, frame |-> 2, gc |-> 3, wmo |-> 4, m2 |-> 5]

ASSUME TilesAndMaps == Tiles \cap Maps = {} /\ None \notin Instances \cup Threads \cup Locks
ASSUME ThreadsDiffer == Frame \notin Workers
ASSUME IdsOfTiles == IdOf \in [Tiles -> Ids]
ASSUME FewTiles == IsFiniteSet(Tiles)

VARIABLES
  owner,    \* of each mutex
  thread,   \* what each thread does, and the mutex it needs for it
  tile,     \* whether the tile is loaded and lists its building
  handle,   \* the cache map_wmo: references, and map_wmo->instance
  list,     \* gx_wmo->instances
  stage,    \* of each instance
  told,     \* times gx_wmo_instance_on_load was called
  grouped,  \* gx_wmo_group_instance_on_load was called since
  doodads,  \* instance->m2: times each doodad was told of its model
  file,     \* how far the building, its group and the model are loaded
  garbage,  \* gc_lists.wmo and gc_lists.m2
  early,    \* history: instances told before they had their place
  fault     \* history: the first undefined behaviour

listVars == <<list, stage, told, grouped, early>>
vars == <<owner, thread, tile, handle, list, stage, told, grouped, doodads,
          file, garbage, early, fault>>

NoFault == [at |-> "none", i |-> None]
Doing(at, wait, task, i, pos) == [at |-> at, wait |-> wait, task |-> task, i |-> i, pos |-> pos]
Resting == Doing("idle", None, "none", None, 0)

Init ==
  /\ owner = [l \in Locks |-> None]
  /\ thread = [t \in Threads |-> Resting]
  /\ tile = [i \in Tiles |-> "new"]
  /\ handle = [d \in Ids |-> [refs |-> 0, inst |-> None]]
  /\ list = <<>>
  /\ stage = [i \in Instances |-> "unborn"]
  /\ told = [i \in Instances |-> 0]
  /\ grouped = [i \in Instances |-> FALSE]
  /\ doodads = [i \in Instances |-> <<>>]
  /\ file = [wmo |-> "new", group |-> "new", m2 |-> "new"]
  /\ garbage = [wmo |-> {}, m2 |-> {}]
  /\ early = {}
  /\ fault = NoFault

-----------------------------------------------------------------------------
(* Mutexes.                                                                *)

(* pthread_mutex_lock: the thread goes on once the mutex is free           *)
Lock(t) ==
  /\ thread[t].wait # None /\ owner[thread[t].wait] = None
  /\ owner' = [owner EXCEPT ![thread[t].wait] = t]
  /\ thread' = [thread EXCEPT ![t].wait = None]
  /\ UNCHANGED <<tile, handle, listVars, doodads, file, garbage, fault>>

UnlockedNotWmo(S) == [l \in Locks |-> IF l \in S \ {"wmo"} THEN None ELSE owner[l]]  \* mutant
Unlocked(S) == [l \in Locks |-> IF l \in S THEN None ELSE owner[l]]

At(t, at) == thread[t].at = at /\ thread[t].wait = None
Goto(t, at, wait) == [thread EXCEPT ![t] = Doing(at, wait, @.task, @.i, @.pos)]
Rest(t) == [thread EXCEPT ![t] = Resting]

(* a load is asked for once                                                *)
Asked(k) == [file EXCEPT ![k] = IF @ = "new" THEN "asked" ELSE @]

(* the instance a thread calls on_load for: its own, or the one its walk   *)
(* has come to                                                             *)
Subject(t) == IF thread[t].task = "tile" THEN thread[t].i ELSE list[thread[t].pos]

-----------------------------------------------------------------------------
(* A worker loads a tile: map_tile_load_childs.                            *)

LoadTile(w) ==
  \E i \in Tiles :
    /\ At(w, "idle") /\ tile[i] = "new"
    /\ tile' = [tile EXCEPT ![i] = "loading"]
    /\ thread' = [thread EXCEPT ![w] = Doing("handle", "map_wmo", "tile", i, 0)]
    /\ UNCHANGED <<owner, handle, listVars, doodads, file, garbage, fault>>

(* cache_ref_by_key_map_wmo; the instance is made if there is none         *)
ReferencedOnce(d) == [handle EXCEPT ![d] = [refs |-> 1, inst |-> @.inst]]  \* mutant
Referenced(d) == [handle EXCEPT ![d] = [refs |-> @.refs + 1, inst |-> @.inst]]
RefHandle(w) ==
  LET i == thread[w].i IN
  /\ At(w, "handle")
  /\ handle' = Referenced(IdOf[i])
  /\ IF handle[IdOf[i]].inst = None
     THEN thread' = Goto(w, "new", "wmo") /\ UNCHANGED <<owner, tile>>
     ELSE /\ thread' = Rest(w)
          /\ owner' = Unlocked({"map_wmo"})
          /\ tile' = [tile EXCEPT ![i] = "listed"]
  /\ UNCHANGED <<listVars, doodads, file, garbage, fault>>

(* gx_wmo_instance_new, called by map_wmo_load                             *)
Enlist(i) ==
  /\ list' = Append(list, i)
  /\ stage' = [stage EXCEPT ![i] = "made"]
  /\ UNCHANGED <<told, grouped, early>>

NewInstance(w) ==
  LET i == thread[w].i IN
  /\ At(w, "new")
  /\ Enlist(i)
  /\ handle' = [handle EXCEPT ![IdOf[i]] = [refs |-> @.refs, inst |-> i]]
  /\ owner' = Unlocked({"wmo", "map_wmo"})
  /\ thread' = Goto(w, "place", "wmo")
  /\ UNCHANGED <<tile, doodads, file, garbage, fault>>

(* the instance gets its place and its set of doodads, and is told if the  *)
(* building is loaded                                                      *)
ParentLoadedUnseen == FALSE  \* mutant
ParentLoaded == file.wmo = "loaded"
Place(w) ==
  LET i == thread[w].i IN
  /\ At(w, "place")
  /\ stage' = [stage EXCEPT ![i] = "placed"]
  /\ IF ParentLoaded
     THEN thread' = Goto(w, "doodad", "m2") /\ UNCHANGED <<owner, tile, file>>
     ELSE /\ file' = Asked("wmo")
          /\ thread' = Rest(w)
          /\ owner' = Unlocked({"wmo"})
          /\ tile' = [tile EXCEPT ![i] = "listed"]
  /\ UNCHANGED <<handle, list, told, grouped, early, doodads, garbage, fault>>

-----------------------------------------------------------------------------
(* gx_wmo_instance_on_load, under the mutex of the buildings.  One doodad  *)
(* stands for the set.                                                     *)

(* The thread goes on with its walk, or ends the load of its tile.         *)
Return(t, S) ==
  IF thread[t].task = "tile"
  THEN /\ thread' = Rest(t)
       /\ owner' = Unlocked(S \cup {"wmo"})
       /\ tile' = [tile EXCEPT ![thread[t].i] = "listed"]
  ELSE /\ thread' = [thread EXCEPT ![t] = Doing("walk", None, @.task, None, @.pos + 1)]
       /\ owner' = Unlocked(S)
       /\ UNCHANGED tile

(* gx_m2_instance_new_filename tells the doodad if its model is loaded     *)
NewDoodad(w) ==
  /\ At(w, "doodad")
  /\ doodads' = [doodads EXCEPT ![Subject(w)] = Append(@, IF file.m2 = "loaded" THEN 1 ELSE 0)]
  /\ owner' = Unlocked({"m2"})
  /\ thread' = Goto(w, "settle", "m2")
  /\ UNCHANGED <<tile, handle, listVars, file, garbage, fault>>

(* and gx_wmo_instance_load_doodad_set again, or it asks for the load      *)
LastTold(s) == [s EXCEPT ![Len(s)] = @ + 1]
SettleDoodad(w) ==
  /\ At(w, "settle")
  /\ IF file.m2 = "loaded"
     THEN /\ doodads' = [doodads EXCEPT ![Subject(w)] = LastTold(@)]
          /\ UNCHANGED file
     ELSE file' = Asked("m2") /\ UNCHANGED doodads
  /\ owner' = Unlocked({"m2"})
  /\ thread' = Goto(w, "groups", None)
  /\ UNCHANGED <<tile, handle, listVars, garbage, fault>>

(* the instance of the group is made anew, and told if its group is loaded *)
TellInstance(w) ==
  LET i == Subject(w) IN
  /\ At(w, "groups")
  /\ told' = [told EXCEPT ![i] = @ + 1]
  /\ grouped' = [grouped EXCEPT ![i] = FALSE]
  /\ early' = IF stage[i] = "made" THEN early \cup {i} ELSE early
  /\ IF file.group = "loaded"
     THEN thread' = Goto(w, "group", "m2") /\ UNCHANGED <<owner, tile>>
     ELSE Return(w, {})
  /\ UNCHANGED <<handle, list, stage, doodads, file, garbage, fault>>

(* gx_wmo_group_instance_on_load lights the doodads, under their mutex     *)
TellGroup(w) ==
  /\ At(w, "group")
  /\ grouped' = [grouped EXCEPT ![Subject(w)] = TRUE]
  /\ Return(w, {"m2"})
  /\ UNCHANGED <<handle, list, stage, told, early, doodads, file, garbage, fault>>

-----------------------------------------------------------------------------
(* Workers load files: execute_task.                                       *)

TakeTask(w) ==
  \E k \in {"wmo", "group", "m2"} :
    /\ At(w, "idle") /\ file[k] = "asked"
    /\ file' = [file EXCEPT ![k] = "loading"]
    /\ thread' = [thread EXCEPT ![w] =
                    IF k = "m2" THEN Doing("post", "m2", k, None, 0)
                                ELSE Doing("walk", "wmo", k, None, 1)]
    /\ UNCHANGED <<owner, tile, handle, listVars, doodads, garbage, fault>>

(* gx_wmo_load tells the instances one after another                       *)
WalkedEarly(w) == thread[w].pos >= Len(list)  \* mutant
Walked(w) == thread[w].pos > Len(list)
WalkOn(w) ==
  /\ At(w, "walk") /\ ~Walked(w)
  /\ IF thread[w].task = "wmo"
     THEN thread' = Goto(w, "doodad", "m2") /\ UNCHANGED fault
     \* gx_wmo_group_load: the groups of an instance are an array of on_load
     ELSE IF told[list[thread[w].pos]] = 0
          THEN fault' = [at |-> "untold", i |-> list[thread[w].pos]] /\ UNCHANGED thread
          ELSE thread' = Goto(w, "group", "m2") /\ UNCHANGED fault
  /\ UNCHANGED <<owner, tile, handle, listVars, doodads, file, garbage>>

WalkEnd(w) ==
  /\ At(w, "walk") /\ Walked(w)
  /\ file' = IF thread[w].task = "wmo" THEN [file EXCEPT !.wmo = "loaded", !.group = "asked"]
                                       ELSE [file EXCEPT !.group = "loaded"]
  /\ owner' = Unlocked({"wmo"})
  /\ thread' = Rest(w)
  /\ UNCHANGED <<tile, handle, listVars, doodads, garbage, fault>>

(* gx_m2_post_load                                                         *)
PostLoad(w) ==
  /\ At(w, "post")
  /\ file' = [file EXCEPT !.m2 = "loaded"]
  /\ doodads' = [i \in Instances |-> [n \in DOMAIN doodads[i] |-> doodads[i][n] + 1]]
  /\ owner' = Unlocked({"m2"})
  /\ thread' = Rest(w)
  /\ UNCHANGED <<tile, handle, listVars, garbage, fault>>

-----------------------------------------------------------------------------
(* The cull thread gives back the building of a tile: map_tile_ask_unload, *)
(* and map_wmo_delete when nobody else has it.                             *)

Release ==
  \E i \in Tiles :
    /\ At(Frame, "idle") /\ tile[i] = "listed"
    /\ tile' = [tile EXCEPT ![i] = "released"]
    /\ thread' = [thread EXCEPT ![Frame] = Doing("unref", "map_wmo", "none", i, 0)]
    /\ UNCHANGED <<owner, handle, listVars, doodads, file, garbage, fault>>

UnrefHandle ==
  LET d == IdOf[thread[Frame].i] IN
  /\ At(Frame, "unref")
  /\ handle' = [handle EXCEPT ![d] = [refs |-> @.refs - 1, inst |-> @.inst]]
  /\ IF handle[d].refs = 1
     THEN /\ thread' = [thread EXCEPT ![Frame] = Doing("collect", "gc", "none", handle[d].inst, 0)]
          /\ UNCHANGED owner
     ELSE thread' = Rest(Frame) /\ owner' = Unlocked({"map_wmo"})
  /\ UNCHANGED <<tile, listVars, doodads, file, garbage, fault>>

(* render_gc_wmo, called by gx_wmo_instance_gc                             *)
Collect ==
  LET i == thread[Frame].i IN
  /\ At(Frame, "collect")
  /\ garbage' = [garbage EXCEPT !.wmo = @ \cup {i}]
  /\ stage' = [stage EXCEPT ![i] = "collected"]
  /\ handle' = [d \in Ids |-> IF handle[d].inst = i THEN [refs |-> 0, inst |-> None] ELSE handle[d]]
  /\ owner' = Unlocked({"gc", "map_wmo"} \ (IF i \in Maps THEN {"map_wmo"} ELSE {}))
  /\ thread' = Rest(Frame)
  /\ UNCHANGED <<tile, list, told, grouped, early, doodads, file, fault>>

(* The main thread opens and leaves a map that is one building.            *)
OpenMap ==
  \E i \in Maps :
    /\ At(Frame, "idle") /\ stage[i] = "unborn"
    /\ thread' = [thread EXCEPT ![Frame] = Doing("open", "wmo", "none", i, 0)]
    /\ UNCHANGED <<owner, tile, handle, listVars, doodads, file, garbage, fault>>

NewMapInstance ==
  /\ At(Frame, "open")
  /\ Enlist(thread[Frame].i)
  /\ owner' = Unlocked({"wmo"})
  /\ thread' = Goto(Frame, "ask", None)
  /\ UNCHANGED <<tile, handle, doodads, file, garbage, fault>>

(* without the mutex, and whether the building is loaded or not            *)
PlaceMap ==
  /\ At(Frame, "ask")
  /\ stage' = [stage EXCEPT ![thread[Frame].i] = "placed"]
  /\ file' = Asked("wmo")
  /\ thread' = Rest(Frame)
  /\ UNCHANGED <<owner, tile, handle, list, told, grouped, early, doodads, garbage, fault>>

LeaveMap ==
  \E i \in Maps :
    /\ At(Frame, "idle") /\ stage[i] = "placed"
    /\ thread' = [thread EXCEPT ![Frame] = Doing("collect", "gc", "none", i, 0)]
    /\ UNCHANGED <<owner, tile, handle, listVars, doodads, file, garbage, fault>>

-----------------------------------------------------------------------------
(* render_gc: first the doodads, then the buildings.                       *)

StartGc ==
  /\ At(Frame, "idle") /\ garbage # [wmo |-> {}, m2 |-> {}]
  /\ thread' = Goto(Frame, "models", "frame")
  /\ UNCHANGED <<owner, tile, handle, listVars, doodads, file, garbage, fault>>

PickModel ==
  \E i \in garbage.m2 :
    /\ At(Frame, "models")
    /\ thread' = [thread EXCEPT ![Frame] = Doing("delete", "m2", "none", i, 0)]
    /\ UNCHANGED <<owner, tile, handle, listVars, doodads, file, garbage, fault>>

(* gx_m2_instance_delete leaves the list of its model                      *)
DeleteModel ==
  LET i == thread[Frame].i IN
  /\ At(Frame, "delete")
  /\ doodads' = [doodads EXCEPT ![i] = Tail(@)]
  /\ garbage' = [garbage EXCEPT !.m2 = IF Len(doodads[i]) = 1 THEN @ \ {i} ELSE @]
  /\ owner' = Unlocked({"m2"})
  /\ thread' = Goto(Frame, "models", None)
  /\ UNCHANGED <<tile, handle, listVars, file, fault>>

ModelsEnd ==
  /\ At(Frame, "models")
  /\ thread' = Goto(Frame, "buildings", None)
  /\ UNCHANGED <<owner, tile, handle, listVars, doodads, file, garbage, fault>>

PickInstance ==
  \E i \in garbage.wmo :
    /\ At(Frame, "buildings")
    /\ thread' = [thread EXCEPT ![Frame] = Doing("find", "wmo", "none", i, 0)]
    /\ UNCHANGED <<owner, tile, handle, listVars, doodads, file, garbage, fault>>

(* gx_wmo_instance_delete finds its place in the list                      *)
FindInstance ==
  \E n \in DOMAIN list :
    /\ At(Frame, "find") /\ list[n] = thread[Frame].i
    /\ owner' = Unlocked({"wmo"})
    /\ thread' = [thread EXCEPT ![Frame] = Doing("erase", None, "none", @.i, n)]
    /\ UNCHANGED <<tile, handle, listVars, doodads, file, garbage, fault>>

(* and erases it after the mutex was given back                            *)
InList(t) ==
  owner["wmo"] = t /\ (thread[t].task \in {"wmo", "group"} \/ thread[t].at = "new")
EraseInstance ==
  LET i == thread[Frame].i IN
  /\ At(Frame, "erase")
  /\ list' = RemoveAt(list, thread[Frame].pos)
  /\ fault' = IF \E w \in Workers : InList(w) THEN [at |-> "erase", i |-> i] ELSE fault
  /\ stage' = [stage EXCEPT ![i] = "freed"]
  /\ garbage' = [garbage EXCEPT !.wmo = @ \ {i}]
  /\ thread' = IF doodads[i] = <<>> THEN Goto(Frame, "buildings", None)
                                   ELSE Goto(Frame, "drop", "gc")
  /\ UNCHANGED <<owner, tile, handle, told, grouped, early, doodads, file>>

(* its doodads are collected by the end of its array                       *)
DropDoodads ==
  /\ At(Frame, "drop")
  /\ garbage' = [garbage EXCEPT !.m2 = @ \cup {thread[Frame].i}]
  /\ owner' = Unlocked({"gc"})
  /\ thread' = Goto(Frame, "buildings", None)
  /\ UNCHANGED <<tile, handle, listVars, doodads, file, fault>>

GcEnd ==
  /\ At(Frame, "buildings")
  /\ owner' = Unlocked({"frame"})
  /\ thread' = Rest(Frame)
  /\ UNCHANGED <<tile, handle, listVars, doodads, file, garbage, fault>>

-----------------------------------------------------------------------------
TileStep(w) == RefHandle(w) \/ NewInstance(w) \/ Place(w)
TellStep(w) == NewDoodad(w) \/ SettleDoodad(w) \/ TellInstance(w) \/ TellGroup(w)
TaskStep(w) == TakeTask(w) \/ WalkOn(w) \/ WalkEnd(w) \/ PostLoad(w)
WorkerStep(w) == TileStep(w) \/ TellStep(w) \/ TaskStep(w)
MapStep == NewMapInstance \/ PlaceMap
CollectStep == UnrefHandle \/ Collect
GcStep == PickModel \/ DeleteModel \/ ModelsEnd \/ PickInstance \/ FindInstance
          \/ EraseInstance \/ DropDoodads \/ GcEnd
FrameStep == CollectStep \/ MapStep \/ StartGc \/ GcStep
Chosen == Release \/ OpenMap \/ LeaveMap \/ \E w \in Workers : LoadTile(w)

Steps == Chosen \/ FrameStep \/ (\E w \in Workers : WorkerStep(w)) \/ \E t \in Threads : Lock(t)

(* Every tile and map has gone, and nothing is left to do.                 *)
Over ==
  /\ \A t \in Threads : thread[t] = Resting
  /\ \A i \in Tiles : tile[i] = "released"
  /\ \A i \in Instances : stage[i] \in {"unborn", "freed"}
  /\ UNCHANGED vars

(* What follows undefined behaviour is not modelled.                       *)
Undefined == fault # NoFault /\ UNCHANGED vars
Next == (fault = NoFault /\ Steps) \/ Over \/ Undefined

Spec == Init /\ [][Next]_vars

-----------------------------------------------------------------------------
Stages == {"unborn", "made", "placed", "collected", "freed"}
Phases == {"new", "asked", "loading", "loaded"}
TileAts == {"handle", "new", "place"}
TellAts == {"doodad", "settle", "groups", "group"}
FrameAts == {"unref", "collect", "open", "ask", "models", "delete", "buildings", "find", "erase",
             "drop"}
Ats == {"idle", "walk", "post"} \cup TileAts \cup TellAts \cup FrameAts

TypeOK ==
  /\ owner \in [Locks -> Threads \cup {None}]
  /\ thread \in [Threads -> [at : Ats, wait : Locks \cup {None},
                             task : {"none", "tile", "wmo", "group", "m2"},
                             i : Instances \cup {None}, pos : Nat]]
  /\ tile \in [Tiles -> {"new", "loading", "listed", "released"}]
  /\ handle \in [Ids -> [refs : Nat, inst : Instances \cup {None}]]
  /\ list \in Seq(Instances)
  /\ stage \in [Instances -> Stages]
  /\ told \in [Instances -> Nat]
  /\ grouped \in [Instances -> BOOLEAN]
  /\ doodads \in [Instances -> Seq(Nat)]
  /\ file \in [{"wmo", "group", "m2"} -> Phases]
  /\ garbage \in [{"wmo", "m2"} -> SUBSET Instances]
  /\ early \subseteq Instances

(* A thread waits for a mutex only while those it holds come before it, so *)
(* that no threads wait for each other: whoever ends a load inside another *)
(* or deletes one inside render_gc.                                        *)
LocksRanked ==
  \A t \in Threads : thread[t].wait # None =>
    \A l \in Locks : owner[l] = t => Rank[l] < Rank[thread[t].wait]

(* What tiles hold of the handles: a tile from the moment its worker has   *)
(* referenced the handle to the moment the cull thread gives it back.      *)
Holds(i) ==
  \/ tile[i] = "listed"
  \/ \E w \in Workers : thread[w].task = "tile" /\ thread[w].at # "handle" /\ thread[w].i = i
  \/ thread[Frame].at = "unref" /\ thread[Frame].i = i
Holders(d) == {i \in Tiles : IdOf[i] = d /\ Holds(i)}

(* A building of the map is there for all the tiles that list it, however  *)
(* their loads and unloads cross: its handle counts them, and its instance *)
(* is neither collected nor freed while one has it.                        *)
HandlesKept ==
  \A d \in Ids :
    /\ handle[d].refs = Cardinality(Holders(d))
    /\ handle[d].inst # None => stage[handle[d].inst] \in {"made", "placed"}
    /\ Holders(d) # {} => \/ handle[d].inst # None
                          \/ \E w \in Workers : thread[w].at = "new" /\ IdOf[thread[w].i] = d

(* The threads that are in the middle of telling an instance.              *)
Telling(t, i) == owner["wmo"] = t /\ thread[t].at \in TellAts /\ Subject(t) = i

(* Nobody misses the end of a load, whoever comes first: an instance that  *)
(* has its place has been told of the building, its group instance of the  *)
(* group and its doodads of the model.  The building is told of twice only *)
(* to an instance that its load met before it had its place.  The one      *)
(* instance that can stay untold is that of a map opened when the building *)
(* was loaded.                                                             *)
LoadsTold ==
  fault = NoFault => \A i \in Instances :
    /\ told[i] <= 2 /\ (told[i] = 2 => i \in early)
    /\ stage[i] = "placed" /\ (\A t \in Threads : ~Telling(t, i)) =>
         /\ file.wmo = "loaded" /\ i \in Tiles => told[i] > 0
         /\ file.group = "loaded" /\ told[i] > 0 => grouped[i]
         /\ file.m2 = "loaded" => \A n \in DOMAIN doodads[i] : doodads[i][n] > 0

(* The mutex of the buildings keeps their lists whole, but for two things: *)
(* a group is loaded while an instance is in the list without its arrays;  *)
(* and an instance is erased while a worker is in the list.                *)
FaultsKnown ==
  /\ fault.at \in {"none", "untold", "erase"}
  /\ fault.at = "untold" => stage[fault.i] = "made" \/ fault.i \in Maps
=============================================================================
