-------------------------------- MODULE Tile --------------------------------
(***************************************************************************)
(* The tiles of the terrain: src/map/tile.c, what src/map/map.c does to    *)
(* the tiles round the camera, and the tasks and lists of src/loader.c     *)
(* that carry a tile from its creation to its deletion.                    *)
(*                                                                         *)
(* Three kinds of threads touch a tile and no lock covers its flags or its *)
(* lists of objects.  The cull thread creates a tile, asks for its load,   *)
(* draws it once it is initialised and condemns it when the camera has     *)
(* gone; a worker fills it; the main thread initialises it.  A step here   *)
(* is what one thread does between two accesses that another can see; a    *)
(* read and a write of the flags are two steps where the difference can    *)
(* be seen: in the worker that ends a load, and in map_tile_ask_unload.    *)
(*                                                                         *)
(* A place is the number of a tile along one axis of the map, and the      *)
(* camera is at one.  The buildings and models of a place are keys of the  *)
(* caches map_wmo and map_m2, of which only the counts are kept here.      *)
(***************************************************************************)
EXTENDS Occurrences, Integers, Sequences, FiniteSets, SequencesExt

CONSTANTS
  Places,    \* where the map has a tile
  Distance,  \* of view, in tiles
  Keys,      \* unique_ids of buildings and models
  KeysAt,    \* those of each place
  Workers,
  Tiles,     \* the tiles that memory is found for, a bound
  MaxMoves   \* bound on the moves of the camera

None == 0

ASSUME PlacesAreNat == Places \subseteq Nat /\ Distance \in Nat /\ MaxMoves \in Nat
ASSUME KeysOfPlaces == KeysAt \in [Places -> SUBSET Keys]
ASSUME TilesAreNat == Tiles \subseteq Nat \ {None}
ASSUME WorkersAndTilesAreFinite == IsFiniteSet(Workers) /\ IsFiniteSet(Tiles)

VARIABLES
  main,      \* where the main thread is
  phase,     \* "loop", then "drain" or, its done being set, "drained"
  camera,    \* cull_frame->cull_pos, as a place
  last,      \* map->last_pos
  moves,
  cull,      \* where the cull thread is, and the tile it is condemning
  tiles,     \* map->tiles
  tileAt,    \* map->tile_array
  tile,      \* the tiles: see TileType
  refs,      \* counts of the caches map_wmo and map_m2
  drawn,     \* render_lists.mcnk of the frame drawn and of the one culled
  loads, unloads,  \* tasks of the loader
  inits,     \* objects_to_init, then objects_to_init_buffer
  ready,     \* how many of them queue_buffers has moved
  gc,        \* objects_gc, by slot
  worker,    \* what each worker is doing
  faults,    \* history: undefined behaviour, by where and to which tile
  hidden     \* history: tiles that are wanted and will never be drawn

loaderVars == <<loads, unloads, inits, ready, gc>>
mapVars == <<last, tiles, tileAt, drawn>>
vars == <<main, phase, camera, last, moves, cull, tiles, tileAt, tile, refs,
          drawn, loads, unloads, inits, ready, gc, worker, faults, hidden>>

(* A slot of the ring of frames is named by its distance from the frame    *)
(* being drawn, draw_frame_id; the ring turns when a frame begins.         *)
Slots == 0..2
DrawSlot == 0
CullSlot == 1
TurnedNot(f) == f  \* mutant
Turned(f) == [s \in Slots |-> f[(s + 1) % 3]]

Near(p) == {q \in Places : q \in (p - Distance)..(p + Distance)}
Kept(p) == {q \in Places : q \in (p - Distance - 1)..(p + Distance + 1)}

(* nb: wmo_nb and m2_nb are stored; lists: wmo and m2 are; cut: where its  *)
(* load was, as OnItsWay names it, when its unload was asked               *)
Unborn == [mem |-> "unborn", place |-> 0, flags |-> {}, nb |-> FALSE,
           lists |-> FALSE, cut |-> "no"]

(* a thread: what it does next, to which tile, with which flags it has read *)
Doing(at, t, saw) == [at |-> at, t |-> t, saw |-> saw]
Idle == Doing("idle", None, {})

Init ==
  /\ main = "frame" /\ phase = "loop" /\ camera \in Places /\ last = -1 /\ moves = 0
  /\ cull = Idle
  /\ tiles = <<>> /\ tileAt = [p \in Places |-> None]
  /\ tile = [t \in Tiles |-> Unborn]
  /\ refs = [k \in Keys |-> 0]
  /\ drawn = <<{}, {}>>
  /\ loads = <<>> /\ unloads = <<>> /\ inits = <<>> /\ ready = 0
  /\ gc = [s \in Slots |-> <<>>]
  /\ worker = [w \in Workers |-> Idle]
  /\ faults = {} /\ hidden = {}

Live(t) == tile[t].mem = "live"
Fault(at, t) == faults' = faults \cup {[at |-> at, t |-> t]}
Hides(t) == IF tile[t].cut = "no" THEN hidden \cup {t} ELSE hidden
KeysOf(t) == KeysAt[tile[t].place]
Reffed(ks) == [k \in Keys |-> IF k \in ks THEN refs[k] + 1 ELSE refs[k]]
UnreffedNot(ks) == refs  \* mutant
Unreffed(ks) == [k \in Keys |-> IF k \in ks THEN refs[k] - 1 ELSE refs[k]]

OnItsWay(t) ==
  IF t \in Range(loads) THEN "queued"
  ELSE IF \E w \in Workers : worker[w].t = t THEN "loading"
  ELSE IF t \in Range(inits) THEN "waiting" ELSE "over"

-----------------------------------------------------------------------------
(* The cull thread: map_cull, from loader_start_cull to loader_wait_cull.  *)

(* map_load_tick.  A tile is not known to another thread before its task   *)
(* is queued.  map_tile_new fails when no tile is left.                    *)
Missing == {p \in Near(camera) : tileAt[p] = None}
Fresh == {t \in Tiles : tile[t].mem = "unborn"}

CullStart ==
  /\ cull.at = "start"
  /\ last' = camera
  /\ cull' = Doing(IF last = camera THEN "draw" ELSE "load", None, {})
  /\ UNCHANGED <<main, phase, camera, moves, tiles, tileAt, tile, refs, drawn, loaderVars,
                 worker, faults, hidden>>

LoadTile(p, t) ==
  /\ tiles' = Append(tiles, p)
  /\ tileAt' = [tileAt EXCEPT ![p] = t]
  /\ tile' = [tile EXCEPT ![t] = [Unborn EXCEPT !.mem = "live", !.place = p, !.flags = {"loading"}]]
  /\ loads' = Append(loads, t)

CullLoad ==
  /\ cull.at = "load"
  /\ IF Missing = {} \/ Fresh = {}
     THEN cull' = Doing("unload", None, {}) /\ UNCHANGED <<tiles, tileAt, tile, loads>>
     ELSE /\ \E p \in Missing, t \in Fresh :
               /\ \A q \in Missing : p <= q
               /\ \A u \in Fresh : t <= u
               /\ LoadTile(p, t)
          /\ UNCHANGED cull
  /\ UNCHANGED <<main, phase, camera, last, moves, refs, drawn, unloads, inits, ready, gc,
                 worker, faults, hidden>>

(* Its second loop, and that of map_delete, which the main thread runs     *)
(* when the cull thread has nothing to do any more: a tile leaves the      *)
(* array and map_tile_ask_unload begins, by reading the flags.             *)
Leaving == {i \in DOMAIN tiles : main = "delete" \/ tiles[i] \notin Kept(camera)}

CondemnInList(i) ==  \* mutant
  LET t == tileAt[tiles[i]] IN
  /\ tiles' = RemoveAt(tiles, i)
  /\ tile' = [tile EXCEPT ![t].cut = OnItsWay(t)]
  /\ cull' = Doing("ask", t, tile[t].flags)
  /\ UNCHANGED <<tileAt, hidden>>
Condemn(i) ==
  LET t == tileAt[tiles[i]] IN
  /\ tiles' = RemoveAt(tiles, i)
  /\ tileAt' = [tileAt EXCEPT ![tiles[i]] = None]
  /\ tile' = [tile EXCEPT ![t].cut = OnItsWay(t)]
  /\ cull' = Doing("ask", t, tile[t].flags)
  /\ hidden' = hidden \ {t}

CullUnload ==
  /\ cull.at = "unload" /\ Leaving # {}
  /\ \E i \in Leaving : (\A j \in Leaving : i <= j) /\ Condemn(i)
  /\ UNCHANGED <<main, phase, camera, last, moves, refs, drawn, loaderVars, worker, faults>>

CullUnloaded ==
  /\ cull.at = "unload" /\ Leaving = {}
  /\ IF main = "delete"
     THEN cull' = Idle /\ main' = "look" /\ phase' = "drain"
     ELSE cull' = Doing("draw", None, {}) /\ UNCHANGED <<main, phase>>
  /\ UNCHANGED <<camera, moves, mapVars, tile, refs, loaderVars, worker, faults, hidden>>

(* map_tile_ask_unload: the flags are written back, whatever a worker has  *)
(* made of them, and the tile goes to the list of the frame being culled.  *)
AskUnload ==
  /\ cull.at = "ask"
  /\ tile' = [tile EXCEPT ![cull.t].flags = cull.saw \ {"loading"}]
  /\ gc' = [gc EXCEPT ![CullSlot] = Append(@, cull.t)]
  /\ cull' = Doing("objects", cull.t, {})
  /\ UNCHANGED <<main, phase, camera, moves, mapVars, refs, loads, unloads, inits,
                 ready, worker, faults, hidden>>

(* Then the objects of the tile are given back, if they are there yet: the *)
(* count is stored before the list it counts.                              *)
Listed(t) == tile[t].nb /\ tile[t].lists

AskObjects ==
  /\ cull.at = "objects"
  /\ LET t == cull.t IN
     /\ tile' = [tile EXCEPT ![t].nb = FALSE, ![t].lists = FALSE]
     /\ refs' = IF Listed(t) THEN Unreffed(KeysOf(t)) ELSE refs
     /\ IF tile[t].nb /\ ~tile[t].lists THEN Fault("objects", t) ELSE UNCHANGED faults
  /\ cull' = Doing("unload", None, {})
  /\ UNCHANGED <<main, phase, camera, moves, mapVars, loaderVars, worker, hidden>>

(* cull_tiles.  Every tile that is initialised is in sight.                *)
CullDraw ==
  /\ cull.at = "draw"
  /\ LET seen == {tileAt[tiles[i]] : i \in DOMAIN tiles} IN
     /\ drawn' = [drawn EXCEPT ![2] = {t \in seen : "init" \in tile[t].flags}]
     /\ faults' = faults \cup {[at |-> "cull", t |-> t] : t \in {u \in seen : ~Live(u)}}
  /\ cull' = Idle
  /\ UNCHANGED <<main, phase, camera, last, moves, tiles, tileAt, tile, refs, loaderVars,
                 worker, hidden>>

-----------------------------------------------------------------------------
(* The workers.                                                            *)

(* a worker at work on a tile that another has freed                       *)
Strays(w, at) == Fault(at, worker[w].t) /\ UNCHANGED worker

Goes(w, at) == worker' = [worker EXCEPT ![w].at = at]

(* find_task: loads before unloads, and the oldest first.  It marks a tile *)
(* as loading again, whoever has asked for its unload.                     *)
TakeLoad(w) ==
  /\ loads # <<>>
  /\ LET t == Head(loads) IN
     /\ loads' = Tail(loads)
     /\ worker' = [worker EXCEPT ![w] = Doing("file", t, {})]
     /\ tile' = [tile EXCEPT ![t].flags = @ \cup {"loading"}]
     /\ IF Live(t) THEN UNCHANGED faults ELSE Fault("take", t)
     /\ UNCHANGED unloads

LoadsFirstNot == TRUE  \* mutant
LoadsFirst == loads = <<>>

TakeUnload(w) ==
  /\ LoadsFirst /\ unloads # <<>>
  /\ worker' = [worker EXCEPT ![w] = Doing("unload", Head(unloads), {})]
  /\ unloads' = Tail(unloads)
  /\ UNCHANGED <<loads, tile, faults>>

FindTask(w) ==
  /\ worker[w].at = "idle" /\ main # "end"
  /\ TakeLoad(w) \/ TakeUnload(w)
  /\ UNCHANGED <<main, phase, camera, moves, cull, mapVars, refs, inits, ready, gc, hidden>>

(* The file is missing, or is no map tile, in which case the tile is left  *)
(* marked as loading; or it is read, and map_tile_load_childs takes a      *)
(* reference of each of its objects.                                       *)
ReadFile(w) ==
  /\ worker[w].at = "file"
  /\ LET t == worker[w].t IN
     IF ~Live(t) THEN Strays(w, "load") /\ UNCHANGED <<refs, hidden>>
     ELSE /\ \/ Goes(w, "clear") /\ hidden' = Hides(t) /\ UNCHANGED refs
             \/ worker' = [worker EXCEPT ![w] = Idle] /\ hidden' = Hides(t) /\ UNCHANGED refs
             \/ Goes(w, "nb") /\ refs' = Reffed(KeysOf(t)) /\ UNCHANGED hidden
          /\ UNCHANGED faults
  /\ UNCHANGED <<main, phase, camera, moves, cull, mapVars, tile, loaderVars>>

(* It ends by storing the count, then the list.                            *)
StoreNb(w) ==
  /\ worker[w].at = "nb"
  /\ LET t == worker[w].t IN
     IF ~Live(t) THEN Strays(w, "load") /\ UNCHANGED tile
     ELSE Goes(w, "lists") /\ tile' = [tile EXCEPT ![t].nb = TRUE] /\ UNCHANGED faults
  /\ UNCHANGED <<main, phase, camera, moves, cull, mapVars, refs, loaderVars, hidden>>

StoreLists(w) ==
  /\ worker[w].at = "lists"
  /\ LET t == worker[w].t IN
     IF ~Live(t) THEN Strays(w, "load") /\ UNCHANGED tile
     ELSE Goes(w, "check") /\ tile' = [tile EXCEPT ![t].lists = TRUE] /\ UNCHANGED faults
  /\ UNCHANGED <<main, phase, camera, moves, cull, mapVars, refs, loaderVars, hidden>>

(* map_tile_load gives up when the flag it looks at has been taken away.   *)
CheckFlags(w) ==
  /\ worker[w].at = "check"
  /\ LET t == worker[w].t IN
     IF ~Live(t) THEN Strays(w, "load")
     ELSE /\ Goes(w, IF "loading" \in tile[t].flags /\ "loaded" \notin tile[t].flags
                     THEN "mcnk" ELSE "clear")
          /\ UNCHANGED faults
  /\ UNCHANGED <<main, phase, camera, moves, cull, mapVars, tile, refs, loaderVars, hidden>>

(* The terrain is made, which may fail, and the tile goes to the main      *)
(* thread.  The layers are made as the flags of the map say.               *)
MapGone == phase # "loop"

MakeTerrain(w) ==
  /\ worker[w].at = "mcnk"
  /\ LET t == worker[w].t IN
     IF ~Live(t) THEN Strays(w, "load") /\ UNCHANGED <<tile, inits, hidden>>
     ELSE /\ tile' = [tile EXCEPT ![t].flags = @ \cup {"loaded"}]
          /\ Goes(w, "clear")
          /\ \/ inits' = Append(inits, t) /\ UNCHANGED hidden
             \/ hidden' = Hides(t) /\ UNCHANGED inits
          /\ IF MapGone THEN Fault("map", t) ELSE UNCHANGED faults
  /\ UNCHANGED <<main, phase, camera, moves, cull, mapVars, refs, loads, unloads, ready, gc>>

(* execute_task ends by clearing a flag of a tile the main thread may be   *)
(* initialising: what it read before is what it writes.                    *)
ReadFlags(w) ==
  /\ worker[w].at = "clear"
  /\ LET t == worker[w].t IN
     IF ~Live(t) THEN Strays(w, "load")
     ELSE worker' = [worker EXCEPT ![w] = Doing("write", t, tile[t].flags)] /\ UNCHANGED faults
  /\ UNCHANGED <<main, phase, camera, moves, cull, mapVars, tile, refs, loaderVars, hidden>>

WriteFlags(w) ==
  /\ worker[w].at = "write"
  /\ LET t == worker[w].t IN
     IF ~Live(t) THEN Strays(w, "load") /\ UNCHANGED <<tile, hidden>>
     ELSE /\ worker' = [worker EXCEPT ![w] = Idle]
          /\ tile' = [tile EXCEPT ![t].flags = worker[w].saw \ {"loading"}]
          /\ hidden' = IF "init" \in tile[t].flags \ worker[w].saw THEN Hides(t) ELSE hidden
          /\ UNCHANGED faults
  /\ UNCHANGED <<main, phase, camera, moves, cull, mapVars, refs, loaderVars>>

(* map_tile_delete                                                         *)
Delete(w) ==
  /\ worker[w].at = "unload"
  /\ LET t == worker[w].t IN
     IF ~Live(t) THEN Strays(w, "unload") /\ UNCHANGED tile
     ELSE /\ tile' = [tile EXCEPT ![t] = [Unborn EXCEPT !.mem = "freed", !.place = tile[t].place, !.cut = tile[t].cut]]
          /\ worker' = [worker EXCEPT ![w] = Idle]
          /\ UNCHANGED faults
  /\ UNCHANGED <<main, phase, camera, moves, cull, mapVars, refs, loaderVars, hidden>>

Execute(w) == ReadFile(w) \/ StoreNb(w) \/ StoreLists(w) \/ CheckFlags(w) \/ MakeTerrain(w)
              \/ ReadFlags(w) \/ WriteFlags(w) \/ Delete(w)

-----------------------------------------------------------------------------
(* The main thread: a frame of loop, then the end of wow_main.             *)

NewFrame ==
  /\ main = "frame"
  /\ main' = "render"
  /\ gc' = Turned(gc) /\ drawn' = <<drawn[2], {}>>
  /\ \/ UNCHANGED <<camera, moves>>
     \/ moves < MaxMoves /\ camera' \in Places \ {camera} /\ moves' = moves + 1
  /\ cull' = Doing("start", None, {})
  /\ UNCHANGED <<phase, last, tiles, tileAt, tile, refs, loads, unloads, inits, ready, worker,
                 faults, hidden>>

Render ==
  /\ main = "render"
  /\ main' = "wait"
  /\ faults' = faults \cup {[at |-> "render", t |-> t] : t \in {u \in drawn[1] : ~Live(u)}}
  /\ UNCHANGED <<phase, camera, moves, cull, mapVars, tile, refs, loaderVars, worker, hidden>>

QueueBuffersNot == ready' = 0  \* mutant
QueueBuffersPast == ready' = Len(inits) + 1  \* mutant
QueueBuffers == ready' = Len(inits)

WaitCull ==
  /\ main = "wait" /\ cull.at = "idle"
  /\ main' = "init" /\ QueueBuffers
  /\ UNCHANGED <<phase, camera, moves, cull, mapVars, tile, refs, loads, unloads,
                 inits, gc, worker, faults, hidden>>

(* map_tile_initialize, of the oldest tile; what is asserted of its flags  *)
(* may have been undone by map_tile_ask_unload.                            *)
InitTile ==
  /\ main = "init" /\ ready > 0
  /\ ready' = ready - 1 /\ inits' = Tail(inits)
  /\ LET t == Head(inits) IN
     IF ~Live(t) THEN Fault("init", t) /\ UNCHANGED <<tile, hidden>>
     ELSE IF "loaded" \notin tile[t].flags THEN Fault("assert", t) /\ UNCHANGED <<tile, hidden>>
     ELSE /\ \/ tile' = [tile EXCEPT ![t].flags = @ \cup {"init"}] /\ UNCHANGED hidden
             \/ hidden' = Hides(t) /\ UNCHANGED tile
          /\ IF MapGone THEN Fault("map", t) ELSE UNCHANGED faults
  /\ UNCHANGED <<main, phase, camera, moves, cull, mapVars, refs, loads, unloads, gc, worker>>

(* There is no tile left, or the time of the frame is over: a tile takes   *)
(* as many calls as it has layers.                                         *)
InitOver ==
  /\ main = "init"
  /\ main' = "gc" /\ ready' = 0
  /\ UNCHANGED <<phase, camera, moves, cull, mapVars, tile, refs, loads, unloads, inits,
                 gc, worker, faults, hidden>>

DrainedNot == gc  \* mutant
Drained == [gc EXCEPT ![DrawSlot] = <<>>]

DoGc ==
  /\ main = "gc"
  /\ unloads' = unloads \o gc[DrawSlot]
  /\ IF phase = "loop" THEN main' = "frame" /\ gc' = Drained
                       ELSE main' = "look" /\ gc' = Turned(Drained)
  /\ UNCHANGED <<phase, camera, moves, cull, mapVars, tile, refs, loads, inits, ready, worker,
                 faults, hidden>>

(* The window is closed: map_delete.                                       *)
Quit ==
  /\ main = "frame"
  /\ main' = "delete"
  /\ cull' = Doing("unload", None, {})
  /\ UNCHANGED <<phase, camera, moves, mapVars, tile, refs, loaderVars, worker, faults, hidden>>

(* loader_has_loading, loader_has_gc: ticks go on while something waits.   *)
Waiting == inits # <<>> \/ \E s \in Slots : gc[s] # <<>>

Look ==
  /\ main = "look"
  /\ IF Waiting THEN main' = "init" /\ phase' = "drained" /\ QueueBuffers
                ELSE main' = "async" /\ UNCHANGED <<phase, ready>>
  /\ UNCHANGED <<camera, moves, cull, mapVars, tile, refs, loads, unloads, inits, gc,
                 worker, faults, hidden>>

(* loader_has_async                                                        *)
LookAsync ==
  /\ main = "async"
  /\ IF loads # <<>> \/ unloads # <<>>
     THEN phase' = "drained" /\ UNCHANGED main
     ELSE /\ phase' = "drain"
          /\ main' = IF phase = "drained" THEN "look" ELSE "end"
  /\ UNCHANGED <<camera, moves, cull, mapVars, tile, refs, loaderVars, worker, faults, hidden>>

(* The program ends when the workers have.                                 *)
Ended == main = "end" /\ (\A w \in Workers : worker[w] = Idle) /\ UNCHANGED vars

Culling == CullStart \/ CullLoad \/ CullUnload \/ CullUnloaded \/ AskUnload \/ AskObjects \/ CullDraw
Main == NewFrame \/ Render \/ WaitCull \/ InitTile \/ InitOver \/ DoGc \/ Look \/ LookAsync
Steps == Culling \/ Main \/ Quit \/ \E w \in Workers : FindTask(w) \/ Execute(w)

(* What follows undefined behaviour is not modelled.                       *)
Undefined == faults # {} /\ UNCHANGED vars
Next == (faults = {} /\ Steps) \/ Ended \/ Undefined

Spec == Init /\ [][Next]_vars

(* Threads run.  The time a frame spends on initialisation always suffices *)
(* for a call, and a tile needs a finite number of them.                   *)
FairSpec ==
  /\ Spec
  /\ WF_vars(faults = {} /\ Culling) /\ WF_vars(faults = {} /\ Main)
  /\ SF_vars(faults = {} /\ InitTile)
  /\ \A w \in Workers : WF_vars(faults = {} /\ (FindTask(w) \/ Execute(w)))

-----------------------------------------------------------------------------
Stages == {"queued", "loading", "waiting", "over"}
Flags == {"loading", "loaded", "init"}
TileType == [mem : {"unborn", "live", "freed"}, place : Nat, flags : SUBSET Flags,
             nb : BOOLEAN, lists : BOOLEAN, cut : Stages \cup {"no"}]
DoingType(ats) == [at : ats, t : Tiles \cup {None}, saw : SUBSET Flags]

TypeOK ==
  /\ main \in {"frame", "render", "wait", "init", "gc", "delete", "look", "async", "end"}
  /\ phase \in {"loop", "drain", "drained"}
  /\ camera \in Places /\ last \in Places \cup {-1} /\ moves \in Nat
  /\ cull \in DoingType({"idle", "start", "load", "unload", "ask", "objects", "draw"})
  /\ tiles \in Seq(Places) /\ tileAt \in [Places -> Tiles \cup {None}]
  /\ tile \in [Tiles -> TileType]
  /\ refs \in [Keys -> Int]
  /\ drawn \in Seq(SUBSET Tiles) /\ Len(drawn) = 2
  /\ loads \in Seq(Tiles) /\ unloads \in Seq(Tiles) /\ inits \in Seq(Tiles)
  /\ ready \in 0..Len(inits)
  /\ gc \in [Slots -> Seq(Tiles)]
  /\ worker \in [Workers -> DoingType({"idle", "file", "nb", "lists", "check", "mcnk",
                                       "clear", "write", "unload"})]
  /\ hidden \subseteq Tiles

(* The list and the array of the map name the same tiles, each once, and   *)
(* none of them has been condemned: map_cull never meets a tile whose      *)
(* deletion is under way, wherever the workers and the lists are.          *)
ArrayListed ==
  /\ Range(tiles) = {p \in Places : tileAt[p] # None}
  /\ \A i, j \in DOMAIN tiles : tiles[i] = tiles[j] => i = j
  /\ \A p \in Places : tileAt[p] # None =>
       LET x == tile[tileAt[p]] IN x.mem = "live" /\ x.cut = "no" /\ x.place = p

(* where a tile waits to be deleted                                        *)
Condemnations(t) ==
  Times(t, gc[0]) + Times(t, gc[1]) + Times(t, gc[2]) + Times(t, unloads)
  + Cardinality({w \in Workers : worker[w].at = "unload" /\ worker[w].t = t})

(* A tile that was condemned waits to be deleted in one place, or has been *)
(* deleted; no other does.                                                 *)
CondemnedOnce ==
  \A t \in Tiles :
    Condemnations(t) = IF tile[t].cut # "no" /\ tile[t].mem = "live" /\ cull # Doing("ask", t, cull.saw)
                       THEN 1 ELSE 0

(* Nothing goes wrong with a tile whose load was over when it was          *)
(* condemned: two frames in the lists are enough for its drawing to end.   *)
(* Otherwise a load can outlive its tile; the initialisation can meet a    *)
(* tile that is gone, or one whose flag the unload took away, and          *)
(* map_tile_ask_unload the count of a list that is not there yet.          *)
FaultsKnown ==
  \A f \in faults :
    CASE f.at \in {"objects", "assert", "load"} -> tile[f.t].cut \in {"queued", "loading"}
      [] f.at = "init" -> tile[f.t].cut \in {"queued", "loading", "waiting"}
      [] f.at = "map" -> MapGone /\ tile[f.t].cut \in {"queued", "loading", "waiting"}
      [] OTHER -> FALSE

(* The references held on an object are those of the tiles that list it    *)
(* and of the loads under way.  Only a tile condemned before its load was  *)
(* over can leave one behind, and none is given back twice.                *)
Holds(t) ==
  \/ Listed(t)
  \/ \E w \in Workers : worker[w].t = t /\ worker[w].at \in {"nb", "lists"}
RefsAccounted ==
  \A k \in Keys :
    LET of == {t \in Tiles : Live(t) /\ k \in KeysOf(t)}
        held == Cardinality({t \in of : tile[t].cut \notin {"queued", "loading"} /\ Holds(t)})
        lost == Cardinality({t \in Tiles : tile[t].cut \in {"queued", "loading"} /\ k \in KeysOf(t)})
    IN refs[k] \in held..(held + lost)

(* What is condemned is deleted, the window being closed or not.           *)
CondemnedFreed == \A t \in Tiles : (tile[t].cut # "no") ~> (tile[t].mem = "freed" \/ faults # {})

(* A tile the camera stays near is drawn, unless its load failed, or the   *)
(* worker that ended its load took away the flag the main thread had set.  *)
NearDrawn ==
  \A t \in Tiles : (tile[t].mem = "live") ~>
    (t \in drawn[2] \/ t \in hidden \/ tile[t].cut # "no" \/ faults # {})
=============================================================================
