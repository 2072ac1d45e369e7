----------------------------- MODULE TileProofs -----------------------------
(* What holds of Tile for any map, any number of workers and any camera.   *)
EXTENDS Tile, OccurrencesProofs

(* The parts of TypeOK.                                                    *)
TypeMain ==
  /\ main \in {"frame", "render", "wait", "init", "gc", "delete", "look", "async", "end"}
  /\ phase \in {"loop", "drain", "drained"}
  /\ camera \in Places /\ last \in Places \cup {-1} /\ moves \in Nat
  /\ hidden \subseteq Tiles
TypeMap == tiles \in Seq(Places) /\ tileAt \in [Places -> Tiles \cup {None}]
TypeTile == tile \in [Tiles -> TileType]
TypeRefs == refs \in [Keys -> Int]
TypeDrawn == drawn \in Seq(SUBSET Tiles) /\ Len(drawn) = 2
TypeTasks == loads \in Seq(Tiles) /\ unloads \in Seq(Tiles)
TypeInits == inits \in Seq(Tiles) /\ ready \in 0..Len(inits)
TypeGc == gc \in [Slots -> Seq(Tiles)]
CullAts == {"idle", "start", "load", "unload", "ask", "objects", "draw"}
WorkerAts == {"idle", "file", "nb", "lists", "check", "mcnk", "clear", "write", "unload"}
TypeCull == cull \in DoingType(CullAts)
TypeWorker == worker \in [Workers -> DoingType(WorkerAts)]

(* A thread that is not idle, or is in the middle of a condemnation, has a *)
(* tile.                                                                   *)
Busy ==
  /\ cull.at \in {"ask", "objects"} => cull.t \in Tiles
  /\ \A w \in Workers : worker[w].at # "idle" => worker[w].t \in Tiles

(* What is on its way to be deleted has been cut off from the map; a tile  *)
(* that does not exist yet has not.                                        *)
CutOff ==
  /\ \A t \in Tiles : tile[t].mem = "unborn" => tile[t].cut = "no"
  /\ \A s \in Slots : \A i \in DOMAIN gc[s] : tile[gc[s][i]].cut # "no"
  /\ \A i \in DOMAIN unloads : tile[unloads[i]].cut # "no"
  /\ \A w \in Workers : worker[w].at = "unload" => tile[worker[w].t].cut # "no"
  /\ cull.at \in {"ask", "objects"} => tile[cull.t].cut # "no"

Types == /\ TypeMain /\ TypeMap /\ TypeTile /\ TypeRefs /\ TypeDrawn /\ TypeTasks /\ TypeInits
         /\ TypeGc /\ TypeCull /\ TypeWorker
IInv == Types /\ Busy /\ ArrayListed /\ CutOff

USE DEF None
USE PlacesAreNat, KeysOfPlaces, TilesAreNat

LEMMA TypeParts == TypeOK <=> Types
  BY Zenon DEF TypeOK, Types, TypeMain, TypeMap, TypeTile, TypeRefs, TypeDrawn, TypeTasks,
     TypeInits,
     TypeGc, TypeCull, TypeWorker, CullAts, WorkerAts

(* the steps, a worker being named                                         *)
LEMMA NextCases ==
  ASSUME [Next]_vars
  PROVE  \/ CullStart \/ CullLoad \/ CullUnload \/ CullUnloaded \/ AskUnload \/ AskObjects \/ CullDraw
         \/ NewFrame \/ Render \/ WaitCull \/ InitTile \/ InitOver \/ DoGc \/ Look \/ LookAsync
         \/ Quit \/ UNCHANGED vars
         \/ \E w \in Workers :
              \/ FindTask(w) /\ TakeLoad(w)
              \/ FindTask(w) /\ TakeUnload(w)
              \/ ReadFile(w) \/ StoreNb(w) \/ StoreLists(w) \/ CheckFlags(w) \/ MakeTerrain(w)
              \/ ReadFlags(w) \/ WriteFlags(w) \/ Delete(w)
  BY Zenon DEF Next, Steps, Culling, Main, FindTask, Execute, Undefined, Ended

(* what the list of the map names                                          *)
LEMMA ListedPlace ==
  ASSUME TypeMap, ArrayListed, NEW i \in DOMAIN tiles
  PROVE  tiles[i] \in {p \in Places : tileAt[p] # None}
<1>1. tiles[i] \in Range(tiles)
  BY Zenon DEF Range
<1> QED BY <1>1 DEF ArrayListed

LEMMA ListedTile ==
  ASSUME TypeMap, TypeTile, ArrayListed, NEW i \in DOMAIN tiles
  PROVE  /\ tileAt[tiles[i]] \in Tiles
         /\ tile[tileAt[tiles[i]]] \in TileType
         /\ tile[tileAt[tiles[i]]].mem = "live" /\ tile[tileAt[tiles[i]]].place = tiles[i]
<1>1. tiles[i] \in {p \in Places : tileAt[p] # None}
  BY ListedPlace
<1>2. tileAt[tiles[i]] \in Tiles
  BY <1>1 DEF TypeMap
<1>3. LET x == tile[tileAt[tiles[i]]] IN x.mem = "live" /\ x.cut = "no" /\ x.place = tiles[i]
  BY <1>1 DEF ArrayListed
<1> QED BY <1>2, <1>3 DEF TypeTile

LEMMA OnItsWayType ==
  ASSUME NEW t PROVE OnItsWay(t) \in Stages
  BY DEF OnItsWay, Stages

(* a tile of which one field changes                                       *)
LEMMA TileSet ==
  ASSUME TypeTile, NEW t \in Tiles, NEW x \in TileType, tile' = [tile EXCEPT ![t] = x]
  PROVE  TypeTile'
  BY DEF TypeTile

LEMMA FlagsSet ==
  ASSUME TypeTile, NEW t \in Tiles, NEW fs \in SUBSET Flags, tile' = [tile EXCEPT ![t].flags = fs]
  PROVE  TypeTile'
<1>1. [tile[t] EXCEPT !.flags = fs] \in TileType
  BY DEF TypeTile, TileType
<1>2. tile' = [tile EXCEPT ![t] = [tile[t] EXCEPT !.flags = fs]]
  OBVIOUS
<1> QED BY <1>1, <1>2, TileSet

LEMMA ListsSet ==
  ASSUME NEW x \in TileType, NEW a \in BOOLEAN, NEW b \in BOOLEAN
  PROVE  /\ [x EXCEPT !.nb = a] \in TileType /\ [x EXCEPT !.lists = b] \in TileType
         /\ [x EXCEPT !.nb = a, !.lists = b] \in TileType
<1>1. [x EXCEPT !.nb = a] \in TileType /\ [x EXCEPT !.lists = b] \in TileType
  BY DEF TileType
<1>2. [x EXCEPT !.nb = a, !.lists = b] \in TileType
  BY DEF TileType
<1> QED BY <1>1, <1>2

LEMMA FlagsType ==
  ASSUME TypeTile, NEW t \in Tiles PROVE tile[t].flags \in SUBSET Flags /\ tile[t] \in TileType
  BY DEF TypeTile, TileType

LEMMA MainKept ==
  ASSUME TypeMain, TypeMap, TypeTile, TypeInits, Busy, [Next]_vars
  PROVE  TypeMain'
<1> USE DEF loaderVars, mapVars, TypeMain
<1>1. CASE CullUnload
  BY <1>1 DEF CullUnload, Condemn
<1>2. CASE CullUnloaded
  BY <1>2 DEF CullUnloaded
<1>3. CASE NewFrame
  BY <1>3 DEF NewFrame
<1>4. CASE InitTile
  <2>1. Head(inits) \in Tiles
    BY <1>4 DEF InitTile, TypeInits
  <2>2. hidden' \in {hidden, hidden \cup {Head(inits)}}
    BY <1>4 DEF InitTile, Hides
  <2>3. UNCHANGED <<main, phase, camera, last, moves>>
    BY <1>4 DEF InitTile
  <2> QED BY <2>1, <2>2, <2>3
<1>5. CASE Look
  BY <1>5 DEF Look
<1>6. CASE LookAsync
  BY <1>6 DEF LookAsync
<1>7. CASE CullStart \/ CullLoad \/ AskUnload \/ AskObjects \/ CullDraw \/ Render \/ WaitCull
        \/ InitOver \/ DoGc \/ Quit
  BY <1>7 DEF CullStart, CullLoad, LoadTile, Fresh, Missing, Unborn, AskUnload, AskObjects,
              Listed, Unreffed, CullDraw, Render, WaitCull, InitOver, DoGc, Quit
<1>8. CASE UNCHANGED vars
  BY <1>8 DEF vars
<1>9. ASSUME NEW w \in Workers,
            \/ FindTask(w) /\ TakeLoad(w)
            \/ FindTask(w) /\ TakeUnload(w)
            \/ ReadFile(w) \/ StoreNb(w) \/ StoreLists(w) \/ CheckFlags(w) \/ MakeTerrain(w)
            \/ ReadFlags(w) \/ WriteFlags(w) \/ Delete(w)
     PROVE  TypeMain'
  <2>1. CASE ReadFile(w)
    <3>1. worker[w].t \in Tiles /\ hidden' \in {hidden, hidden \cup {worker[w].t}}
      BY <2>1 DEF ReadFile, Hides, Busy
    <3>2. UNCHANGED <<main, phase, camera, last, moves>>
      BY <2>1 DEF ReadFile
    <3> QED BY <3>1, <3>2
  <2>2. CASE MakeTerrain(w)
    <3>1. worker[w].t \in Tiles /\ hidden' \in {hidden, hidden \cup {worker[w].t}}
      BY <2>2 DEF MakeTerrain, Hides, Busy
    <3>2. UNCHANGED <<main, phase, camera, last, moves>>
      BY <2>2 DEF MakeTerrain
    <3> QED BY <3>1, <3>2
  <2>3. CASE WriteFlags(w)
    <3>1. worker[w].t \in Tiles /\ hidden' \in {hidden, hidden \cup {worker[w].t}}
      BY <2>3 DEF WriteFlags, Hides, Busy
    <3>2. UNCHANGED <<main, phase, camera, last, moves>>
      BY <2>3 DEF WriteFlags
    <3> QED BY <3>1, <3>2
  <2>4. CASE (FindTask(w) /\ TakeLoad(w)) \/ (FindTask(w) /\ TakeUnload(w)) \/ StoreNb(w)
        \/ StoreLists(w) \/ CheckFlags(w) \/ ReadFlags(w) \/ Delete(w)
    BY <2>4 DEF FindTask, TakeLoad, TakeUnload, StoreNb, Goes, StoreLists, CheckFlags,
                ReadFlags, Delete, Unborn
  <2> QED BY <1>9, <2>1, <2>2, <2>3, <2>4
<1> QED
  BY <1>1, <1>2, <1>3, <1>4, <1>5, <1>6, <1>7, <1>8, <1>9, NextCases

LEMMA DrawnKept ==
  ASSUME TypeMap, TypeDrawn, ArrayListed, [Next]_vars
  PROVE  TypeDrawn'
<1> USE DEF loaderVars, mapVars, TypeDrawn
<1>1. CASE CullDraw
  <2> DEFINE seen == {tileAt[tiles[i]] : i \in DOMAIN tiles}
  <2>1. seen \subseteq Tiles
    <3> SUFFICES ASSUME NEW i \in DOMAIN tiles PROVE tileAt[tiles[i]] \in Tiles
      OBVIOUS
    <3>1. tiles[i] \in {p \in Places : tileAt[p] # None}
      BY ListedPlace
    <3> QED BY <3>1 DEF TypeMap
  <2> DEFINE x == {t \in seen : "init" \in tile[t].flags}
  <2>2. x \in SUBSET Tiles
    BY <2>1
  <2>3. drawn' = [drawn EXCEPT ![2] = x]
    BY <1>1 DEF CullDraw
  <2> HIDE DEF x
  <2> QED BY <2>2, <2>3
<1>2. CASE NewFrame
  BY <1>2 DEF NewFrame
<1>3. CASE CullStart \/ CullLoad \/ CullUnload \/ CullUnloaded \/ AskUnload \/ AskObjects
        \/ Render \/ WaitCull \/ InitTile \/ InitOver \/ DoGc \/ Look \/ LookAsync \/ Quit
  BY <1>3 DEF CullStart, CullLoad, LoadTile, Fresh, Missing, Unborn, CullUnload, Condemn,
              CullUnloaded, AskUnload, AskObjects, Listed, Unreffed, Render, WaitCull,
              QueueBuffers, InitTile, InitOver, DoGc, Look, LookAsync, Quit
<1>4. CASE UNCHANGED vars
  BY <1>4 DEF vars
<1>5. ASSUME NEW w \in Workers,
            \/ FindTask(w) /\ TakeLoad(w)
            \/ FindTask(w) /\ TakeUnload(w)
            \/ ReadFile(w) \/ StoreNb(w) \/ StoreLists(w) \/ CheckFlags(w) \/ MakeTerrain(w)
            \/ ReadFlags(w) \/ WriteFlags(w) \/ Delete(w)
     PROVE  TypeDrawn'
  <2>1. CASE (FindTask(w) /\ TakeLoad(w)) \/ (FindTask(w) /\ TakeUnload(w)) \/ ReadFile(w)
        \/ StoreNb(w) \/ StoreLists(w) \/ CheckFlags(w) \/ MakeTerrain(w) \/ ReadFlags(w)
        \/ WriteFlags(w) \/ Delete(w)
    BY <2>1 DEF FindTask, TakeLoad, TakeUnload, ReadFile, Strays, Goes, Reffed, StoreNb,
                StoreLists, CheckFlags, MakeTerrain, ReadFlags, WriteFlags, Delete, Unborn
  <2> QED BY <1>5, <2>1
<1> QED
  BY <1>1, <1>2, <1>3, <1>4, <1>5, NextCases

LEMMA TasksKept ==
  ASSUME TypeTasks, TypeGc, TypeMap, TypeTile, [Next]_vars
  PROVE  TypeTasks'
<1> USE DEF loaderVars, mapVars, TypeTasks
<1>1. CASE CullLoad
  <2>1. loads' = loads \/ \E t \in Tiles : loads' = Append(loads, t)
    BY <1>1 DEF CullLoad, LoadTile, Fresh
  <2>2. UNCHANGED unloads
    BY <1>1 DEF CullLoad
  <2> QED BY <2>1, <2>2
<1>2. CASE DoGc
  <2>1. gc[DrawSlot] \in Seq(Tiles)
    BY DEF TypeGc, DrawSlot, Slots
  <2>2. unloads' = unloads \o gc[DrawSlot] /\ UNCHANGED loads
    BY <1>2 DEF DoGc
  <2> QED BY <2>1, <2>2
<1>3. CASE CullStart \/ CullUnload \/ CullUnloaded \/ AskUnload \/ AskObjects \/ CullDraw
        \/ NewFrame \/ Render \/ WaitCull \/ InitTile \/ InitOver \/ Look \/ LookAsync \/ Quit
  BY <1>3 DEF CullStart, CullUnload, Condemn, CullUnloaded, AskUnload, AskObjects, Listed,
              Unreffed, CullDraw, NewFrame, Render, WaitCull, QueueBuffers, InitTile, InitOver,
              Look, LookAsync, Quit
<1>4. CASE UNCHANGED vars
  BY <1>4 DEF vars
<1>5. ASSUME NEW w \in Workers,
            \/ FindTask(w) /\ TakeLoad(w)
            \/ FindTask(w) /\ TakeUnload(w)
            \/ ReadFile(w) \/ StoreNb(w) \/ StoreLists(w) \/ CheckFlags(w) \/ MakeTerrain(w)
            \/ ReadFlags(w) \/ WriteFlags(w) \/ Delete(w)
     PROVE  TypeTasks'
  <2>1. CASE FindTask(w) /\ TakeLoad(w)
    BY <2>1 DEF FindTask, TakeLoad
  <2>2. CASE FindTask(w) /\ TakeUnload(w)
    BY <2>2 DEF FindTask, TakeUnload
  <2>3. CASE ReadFile(w) \/ StoreNb(w) \/ StoreLists(w) \/ CheckFlags(w) \/ MakeTerrain(w)
        \/ ReadFlags(w) \/ WriteFlags(w) \/ Delete(w)
    BY <2>3 DEF ReadFile, Strays, Goes, Reffed, StoreNb, StoreLists, CheckFlags, MakeTerrain,
                ReadFlags, WriteFlags, Delete, Unborn
  <2> QED BY <1>5, <2>1, <2>2, <2>3
<1> QED
  BY <1>1, <1>2, <1>3, <1>4, <1>5, NextCases

LEMMA InitsKept ==
  ASSUME TypeInits, Busy, [Next]_vars
  PROVE  TypeInits'
<1> USE DEF loaderVars, mapVars, TypeInits, Busy
<1>1. CASE CullLoad
  BY <1>1 DEF CullLoad, LoadTile, Fresh, Missing, Unborn
<1>2. CASE WaitCull
  BY <1>2 DEF WaitCull, QueueBuffers
<1>3. CASE InitTile
  BY <1>3 DEF InitTile
<1>4. CASE InitOver
  BY <1>4 DEF InitOver
<1>5. CASE Look
  BY <1>5 DEF Look, QueueBuffers
<1>6. CASE CullStart \/ CullUnload \/ CullUnloaded \/ AskUnload \/ AskObjects \/ CullDraw
        \/ NewFrame \/ Render \/ DoGc \/ LookAsync \/ Quit
  BY <1>6 DEF CullStart, CullUnload, Condemn, CullUnloaded, AskUnload, AskObjects, Listed,
              CullDraw, NewFrame, Render, DoGc, LookAsync, Quit
<1>7. CASE UNCHANGED vars
  BY <1>7 DEF vars
<1>8. ASSUME NEW w \in Workers,
            \/ FindTask(w) /\ TakeLoad(w)
            \/ FindTask(w) /\ TakeUnload(w)
            \/ ReadFile(w) \/ StoreNb(w) \/ StoreLists(w) \/ CheckFlags(w) \/ MakeTerrain(w)
            \/ ReadFlags(w) \/ WriteFlags(w) \/ Delete(w)
     PROVE  TypeInits'
  <2>1. CASE MakeTerrain(w)
    <3>1. worker[w].t \in Tiles /\ UNCHANGED ready
      BY <2>1 DEF MakeTerrain
    <3>2. inits' = inits \/ inits' = Append(inits, worker[w].t)
      BY <2>1 DEF MakeTerrain, Strays
    <3> QED BY <3>1, <3>2
  <2>2. CASE (FindTask(w) /\ TakeLoad(w)) \/ (FindTask(w) /\ TakeUnload(w)) \/ ReadFile(w)
        \/ StoreNb(w) \/ StoreLists(w) \/ CheckFlags(w) \/ ReadFlags(w) \/ WriteFlags(w)
        \/ Delete(w)
    BY <2>2 DEF FindTask, TakeLoad, TakeUnload, ReadFile, Strays, Goes, StoreNb, StoreLists,
                CheckFlags, ReadFlags, WriteFlags, Delete, Unborn
  <2> QED BY <1>8, <2>1, <2>2
<1> QED
  BY <1>1, <1>2, <1>3, <1>4, <1>5, <1>6, <1>7, <1>8, NextCases

LEMMA GcKept ==
  ASSUME TypeGc, Busy, [Next]_vars
  PROVE  TypeGc'
<1> USE DEF loaderVars, mapVars, TypeGc, Slots
<1>1. CASE AskUnload
  <2>1. cull.t \in Tiles /\ gc' = [gc EXCEPT ![CullSlot] = Append(gc[CullSlot], cull.t)]
    BY <1>1 DEF AskUnload, Busy
  <2>2. Append(gc[CullSlot], cull.t) \in Seq(Tiles)
    BY <2>1 DEF CullSlot
  <2> QED BY <2>1, <2>2
<1>2. CASE NewFrame
  BY <1>2 DEF NewFrame, Turned
<1>3. CASE DoGc
  <2>1. Drained \in [Slots -> Seq(Tiles)]
    <3>1. <<>> \in Seq(Tiles)
      OBVIOUS
    <3> QED BY <3>1 DEF Drained
  <2>2. gc' \in {Drained, Turned(Drained)}
    BY <1>3 DEF DoGc
  <2> QED BY <2>1, <2>2 DEF Turned
<1>4. CASE CullStart \/ CullLoad \/ CullUnload \/ CullUnloaded \/ AskObjects \/ CullDraw
        \/ Render \/ WaitCull \/ InitTile \/ InitOver \/ Look \/ LookAsync \/ Quit
  BY <1>4 DEF CullStart, CullLoad, LoadTile, Fresh, Missing, Unborn, CullUnload, Condemn,
              CullUnloaded, AskObjects, Listed, CullDraw, Render, WaitCull, QueueBuffers,
              InitTile, InitOver, Look, LookAsync, Quit
<1>5. CASE UNCHANGED vars
  BY <1>5 DEF vars
<1>6. ASSUME NEW w \in Workers,
            \/ FindTask(w) /\ TakeLoad(w)
            \/ FindTask(w) /\ TakeUnload(w)
            \/ ReadFile(w) \/ StoreNb(w) \/ StoreLists(w) \/ CheckFlags(w) \/ MakeTerrain(w)
            \/ ReadFlags(w) \/ WriteFlags(w) \/ Delete(w)
     PROVE  TypeGc'
  <2>1. CASE (FindTask(w) /\ TakeLoad(w)) \/ (FindTask(w) /\ TakeUnload(w)) \/ ReadFile(w)
        \/ StoreNb(w) \/ StoreLists(w) \/ CheckFlags(w) \/ MakeTerrain(w) \/ ReadFlags(w)
        \/ WriteFlags(w) \/ Delete(w)
    BY <2>1 DEF FindTask, TakeLoad, TakeUnload, ReadFile, Strays, Goes, StoreNb, StoreLists,
                CheckFlags, MakeTerrain, ReadFlags, WriteFlags, Delete, Unborn
  <2> QED BY <1>6, <2>1
<1> QED
  BY <1>1, <1>2, <1>3, <1>4, <1>5, <1>6, NextCases

LEMMA RefsKept ==
  ASSUME TypeRefs, [Next]_vars
  PROVE  TypeRefs'
<1> USE DEF loaderVars, mapVars, TypeRefs
<1>1. CASE AskObjects
  BY <1>1 DEF AskObjects, Listed, Unreffed
<1>2. CASE CullStart \/ CullLoad \/ CullUnload \/ CullUnloaded \/ AskUnload \/ CullDraw
        \/ NewFrame \/ Render \/ WaitCull \/ InitTile \/ InitOver \/ DoGc \/ Look \/ LookAsync
        \/ Quit
  BY <1>2 DEF CullStart, CullLoad, LoadTile, Fresh, Missing, Unborn, CullUnload, Condemn,
              CullUnloaded, AskUnload, CullDraw, NewFrame, Render, WaitCull, QueueBuffers,
              InitTile, InitOver, DoGc, Look, LookAsync, Quit
<1>3. CASE UNCHANGED vars
  BY <1>3 DEF vars
<1>4. ASSUME NEW w \in Workers,
            \/ FindTask(w) /\ TakeLoad(w)
            \/ FindTask(w) /\ TakeUnload(w)
            \/ ReadFile(w) \/ StoreNb(w) \/ StoreLists(w) \/ CheckFlags(w) \/ MakeTerrain(w)
            \/ ReadFlags(w) \/ WriteFlags(w) \/ Delete(w)
     PROVE  TypeRefs'
  <2>1. CASE ReadFile(w)
    BY <2>1 DEF ReadFile, Strays, Goes, Reffed
  <2>2. CASE (FindTask(w) /\ TakeLoad(w)) \/ (FindTask(w) /\ TakeUnload(w)) \/ StoreNb(w)
        \/ StoreLists(w) \/ CheckFlags(w) \/ MakeTerrain(w) \/ ReadFlags(w) \/ WriteFlags(w)
        \/ Delete(w)
    BY <2>2 DEF FindTask, TakeLoad, TakeUnload, StoreNb, Strays, Goes, StoreLists, CheckFlags,
                MakeTerrain, ReadFlags, WriteFlags, Delete, Unborn
  <2> QED BY <1>4, <2>1, <2>2
<1> QED
  BY <1>1, <1>2, <1>3, <1>4, NextCases

LEMMA TileKept ==
  ASSUME TypeMap, TypeTile, TypeCull, TypeWorker, TypeInits, TypeTasks, Busy, ArrayListed,
         [Next]_vars
  PROVE  TypeTile'
<1> USE DEF loaderVars, mapVars
<1>1. CASE CullLoad
  <2>1. CASE UNCHANGED tile
    BY <2>1 DEF TypeTile
  <2>2. ASSUME NEW p \in Places, NEW t \in Tiles, LoadTile(p, t) PROVE TypeTile'
    <3> DEFINE x == [Unborn EXCEPT !.mem = "live", !.place = p, !.flags = {"loading"}]
    <3>1. x \in TileType
      BY DEF Unborn, TileType, Flags
    <3>2. tile' = [tile EXCEPT ![t] = x]
      BY <2>2 DEF LoadTile
    <3> HIDE DEF x
    <3> QED BY <3>1, <3>2, TileSet
  <2> QED BY <1>1, <2>1, <2>2 DEF CullLoad, Missing, Fresh, Near
<1>2. CASE CullUnload
  <2>1. PICK i \in DOMAIN tiles : Condemn(i)
    BY <1>2 DEF CullUnload, Leaving
  <2> DEFINE t == tileAt[tiles[i]]
             x == [tile[t] EXCEPT !.cut = OnItsWay(t)]
  <2>2. t \in Tiles /\ tile[t] \in TileType
    BY ListedTile
  <2>3. x \in TileType
    BY <2>2, OnItsWayType DEF TileType
  <2>4. tile' = [tile EXCEPT ![t] = x]
    BY <2>1 DEF Condemn
  <2> HIDE DEF x, t
  <2> QED BY <2>2, <2>3, <2>4, TileSet
<1>3. CASE AskUnload
  <2>1. cull.t \in Tiles /\ cull.saw \ {"loading"} \in SUBSET Flags
    BY <1>3 DEF AskUnload, Busy, TypeCull, DoingType
  <2>2. tile' = [tile EXCEPT ![cull.t].flags = cull.saw \ {"loading"}]
    BY <1>3 DEF AskUnload
  <2> QED BY <2>1, <2>2, FlagsSet
<1>4. CASE AskObjects
  <2> DEFINE x == [tile[cull.t] EXCEPT !.nb = FALSE, !.lists = FALSE]
  <2>1. cull.t \in Tiles
    BY <1>4 DEF AskObjects, Busy
  <2>2. x \in TileType
    <3>1. PICK y \in TileType : y = tile[cull.t]
      BY <2>1 DEF TypeTile
    <3>2. [y EXCEPT !.nb = FALSE, !.lists = FALSE] \in TileType
      BY ListsSet
    <3> QED BY <3>1, <3>2
  <2>3. tile' = [tile EXCEPT ![cull.t] = x]
    BY <1>4 DEF AskObjects
  <2> HIDE DEF x
  <2> QED BY <2>1, <2>2, <2>3, TileSet
<1>5. CASE InitTile
  <2>1. Head(inits) \in Tiles
    BY <1>5 DEF InitTile, TypeInits
  <2>2. tile[Head(inits)].flags \cup {"init"} \in SUBSET Flags
    BY <2>1, FlagsType DEF Flags
  <2>3. \/ UNCHANGED tile
        \/ tile' = [tile EXCEPT ![Head(inits)].flags = tile[Head(inits)].flags \cup {"init"}]
    BY <1>5 DEF InitTile
  <2> QED BY <2>1, <2>2, <2>3, FlagsSet DEF TypeTile
<1>6. CASE CullStart \/ CullUnloaded \/ CullDraw \/ NewFrame \/ Render \/ WaitCull \/ InitOver
        \/ DoGc \/ Look \/ LookAsync \/ Quit
  BY <1>6 DEF TypeTile, CullStart, CullUnloaded, CullDraw, NewFrame, Render, WaitCull, QueueBuffers,
              InitOver, DoGc, Look, LookAsync, Quit
<1>7. CASE UNCHANGED vars
  BY <1>7 DEF vars, TypeTile
<1>8. ASSUME NEW w \in Workers,
            \/ FindTask(w) /\ TakeLoad(w)
            \/ FindTask(w) /\ TakeUnload(w)
            \/ ReadFile(w) \/ StoreNb(w) \/ StoreLists(w) \/ CheckFlags(w) \/ MakeTerrain(w)
            \/ ReadFlags(w) \/ WriteFlags(w) \/ Delete(w)
     PROVE  TypeTile'
  <2> DEFINE t == worker[w].t
  <2>1. CASE FindTask(w) /\ TakeLoad(w)
    <3>1. Head(loads) \in Tiles
      BY <2>1 DEF TakeLoad, TypeTasks
    <3>2. tile[Head(loads)].flags \cup {"loading"} \in SUBSET Flags
      BY <3>1, FlagsType DEF Flags
    <3>3. tile' = [tile EXCEPT ![Head(loads)].flags = tile[Head(loads)].flags \cup {"loading"}]
      BY <2>1 DEF TakeLoad
    <3> QED BY <3>1, <3>2, <3>3, FlagsSet
  <2>2. CASE StoreNb(w)
    <3>1. t \in Tiles
      BY <2>2 DEF StoreNb, Busy
    <3>2. [tile[t] EXCEPT !.nb = TRUE] \in TileType
      <4>1. PICK y \in TileType : y = tile[t]
        BY <3>1 DEF TypeTile
      <4>2. [y EXCEPT !.nb = TRUE] \in TileType
        BY ListsSet
      <4> QED BY <4>1, <4>2
    <3>3. UNCHANGED tile \/ tile' = [tile EXCEPT ![t] = [tile[t] EXCEPT !.nb = TRUE]]
      BY <2>2 DEF StoreNb
    <3> QED BY <3>1, <3>2, <3>3, TileSet DEF TypeTile
  <2>3. CASE StoreLists(w)
    <3>1. t \in Tiles
      BY <2>3 DEF StoreLists, Busy
    <3>2. [tile[t] EXCEPT !.lists = TRUE] \in TileType
      <4>1. PICK y \in TileType : y = tile[t]
        BY <3>1 DEF TypeTile
      <4>2. [y EXCEPT !.lists = TRUE] \in TileType
        BY ListsSet
      <4> QED BY <4>1, <4>2
    <3>3. UNCHANGED tile \/ tile' = [tile EXCEPT ![t] = [tile[t] EXCEPT !.lists = TRUE]]
      BY <2>3 DEF StoreLists
    <3> QED BY <3>1, <3>2, <3>3, TileSet DEF TypeTile
  <2>4. CASE MakeTerrain(w)
    <3>1. t \in Tiles
      BY <2>4 DEF MakeTerrain, Busy
    <3>2. tile[t].flags \cup {"loaded"} \in SUBSET Flags
      BY <3>1, FlagsType DEF Flags
    <3>3. UNCHANGED tile \/ tile' = [tile EXCEPT ![t].flags = tile[t].flags \cup {"loaded"}]
      BY <2>4 DEF MakeTerrain
    <3> QED BY <3>1, <3>2, <3>3, FlagsSet DEF TypeTile
  <2>5. CASE WriteFlags(w)
    <3>1. t \in Tiles
      BY <2>5 DEF WriteFlags, Busy
    <3>2. worker[w].saw \ {"loading"} \in SUBSET Flags
      BY DEF TypeWorker, DoingType
    <3>3. UNCHANGED tile \/ tile' = [tile EXCEPT ![t].flags = worker[w].saw \ {"loading"}]
      BY <2>5 DEF WriteFlags
    <3> QED BY <3>1, <3>2, <3>3, FlagsSet DEF TypeTile
  <2>6. CASE Delete(w)
    <3> DEFINE x == [Unborn EXCEPT !.mem = "freed", !.place = tile[t].place, !.cut = tile[t].cut]
    <3>1. t \in Tiles
      BY <2>6 DEF Delete, Busy
    <3>2. x \in TileType
      BY <3>1, FlagsType DEF Unborn, TileType, Flags
    <3>3. UNCHANGED tile \/ tile' = [tile EXCEPT ![t] = x]
      BY <2>6 DEF Delete
    <3> HIDE DEF x
    <3> QED BY <3>1, <3>2, <3>3, TileSet DEF TypeTile
  <2>7. CASE (FindTask(w) /\ TakeUnload(w)) \/ ReadFile(w) \/ CheckFlags(w) \/ ReadFlags(w)
    BY <2>7 DEF TypeTile, FindTask, TakeUnload, ReadFile, CheckFlags, ReadFlags
  <2> QED BY <1>8, <2>1, <2>2, <2>3, <2>4, <2>5, <2>6, <2>7
<1> QED
  BY <1>1, <1>2, <1>3, <1>4, <1>5, <1>6, <1>7, <1>8, NextCases

LEMMA CullKept ==
  ASSUME TypeMap, TypeTile, TypeCull, ArrayListed, [Next]_vars
  PROVE  TypeCull'
<1> USE DEF loaderVars, mapVars
<1>1. CASE CullUnload
  <2>1. PICK i \in DOMAIN tiles : Condemn(i)
    BY <1>1 DEF CullUnload, Leaving
  <2>2. cull' = Doing("ask", tileAt[tiles[i]], tile[tileAt[tiles[i]]].flags)
    BY <2>1 DEF Condemn
  <2>3. tileAt[tiles[i]] \in Tiles /\ tile[tileAt[tiles[i]]].flags \in SUBSET Flags
    BY ListedTile, FlagsType
  <2> QED BY <2>2, <2>3 DEF Doing, TypeCull, DoingType, CullAts
<1>2. CASE AskUnload
  <2>1. cull' = Doing("objects", cull.t, {})
    BY <1>2 DEF AskUnload
  <2> QED BY <2>1 DEF Doing, TypeCull, DoingType, CullAts
<1>3. CASE CullStart \/ CullLoad \/ CullUnloaded \/ AskObjects \/ CullDraw \/ NewFrame \/ Quit
  <2>1. cull' = cull \/ \E at \in CullAts : cull' = Doing(at, None, {})
    BY <1>3 DEF CullStart, CullLoad, CullUnloaded, AskObjects, CullDraw, NewFrame, Quit, Idle,
       CullAts
  <2> QED BY <2>1 DEF Doing, TypeCull, DoingType
<1>4. CASE Render \/ WaitCull \/ InitTile \/ InitOver \/ DoGc \/ Look \/ LookAsync
  BY <1>4 DEF TypeCull, Render, WaitCull, QueueBuffers, InitTile, InitOver, DoGc, Look, LookAsync
<1>5. CASE UNCHANGED vars
  BY <1>5 DEF vars, TypeCull
<1>6. ASSUME NEW w \in Workers,
            \/ FindTask(w) /\ TakeLoad(w)
            \/ FindTask(w) /\ TakeUnload(w)
            \/ ReadFile(w) \/ StoreNb(w) \/ StoreLists(w) \/ CheckFlags(w) \/ MakeTerrain(w)
            \/ ReadFlags(w) \/ WriteFlags(w) \/ Delete(w)
     PROVE  TypeCull'
  BY <1>6 DEF TypeCull, FindTask, TakeLoad, TakeUnload, ReadFile, StoreNb, StoreLists, CheckFlags,
              MakeTerrain, ReadFlags, WriteFlags, Delete
<1> QED
  BY <1>1, <1>2, <1>3, <1>4, <1>5, <1>6, NextCases

(* what a worker becomes                                                   *)
LEMMA WorkerSteps ==
  ASSUME TypeTile, TypeWorker, TypeTasks, Busy, NEW w \in Workers,
         \/ FindTask(w) /\ TakeLoad(w)
         \/ FindTask(w) /\ TakeUnload(w)
         \/ ReadFile(w) \/ StoreNb(w) \/ StoreLists(w) \/ CheckFlags(w) \/ MakeTerrain(w)
         \/ ReadFlags(w) \/ WriteFlags(w) \/ Delete(w)
  PROVE  /\ cull' = cull
         /\ \/ worker' = worker
            \/ \E x \in DoingType(WorkerAts) :
                 /\ worker' = [worker EXCEPT ![w] = x]
                 /\ x.at # "idle" => x.t \in Tiles
                 /\ x.at = "unload" => FindTask(w) /\ TakeUnload(w) /\ x.t = Head(unloads)
<1>0. cull' = cull
  BY DEF FindTask, TakeLoad, TakeUnload, ReadFile, StoreNb, StoreLists, CheckFlags,
         MakeTerrain, ReadFlags, WriteFlags, Delete
<1>1. CASE FindTask(w) /\ TakeLoad(w)
  <2>1. Head(loads) \in Tiles /\ worker' = [worker EXCEPT ![w] = Doing("file", Head(loads), {})]
    BY <1>1 DEF TakeLoad, TypeTasks
  <2> DEFINE x == Doing("file", Head(loads), {})
  <2>2. x \in DoingType(WorkerAts) /\ x.at # "unload" /\ x.t \in Tiles
    BY <2>1 DEF Doing, DoingType, WorkerAts
  <2>3. worker' = [worker EXCEPT ![w] = x]
    BY <2>1
  <2> HIDE DEF x
  <2> QED BY <1>0, <2>2, <2>3
<1>2. CASE FindTask(w) /\ TakeUnload(w)
  <2>1. Head(unloads) \in Tiles /\ worker' = [worker EXCEPT ![w] = Doing("unload", Head(unloads), {})]
    BY <1>2 DEF TakeUnload, TypeTasks
  <2> DEFINE x == Doing("unload", Head(unloads), {})
  <2>2. x \in DoingType(WorkerAts) /\ x.t = Head(unloads) /\ x.t \in Tiles
    BY <2>1 DEF Doing, DoingType, WorkerAts
  <2>3. worker' = [worker EXCEPT ![w] = x]
    BY <2>1
  <2> HIDE DEF x
  <2> QED BY <1>0, <1>2, <2>2, <2>3
<1>3. CASE ReadFlags(w)
  <2>1. worker[w].t \in Tiles /\ tile[worker[w].t].flags \in SUBSET Flags
    BY <1>3, FlagsType DEF ReadFlags, Busy
  <2>2. \/ worker' = worker
        \/ worker' = [worker EXCEPT ![w] = Doing("write", worker[w].t, tile[worker[w].t].flags)]
    BY <1>3 DEF ReadFlags, Strays
  <2> DEFINE x == Doing("write", worker[w].t, tile[worker[w].t].flags)
  <2>3. x \in DoingType(WorkerAts) /\ x.t \in Tiles /\ x.at # "unload"
    BY <2>1 DEF Doing, DoingType, WorkerAts
  <2> HIDE DEF x
  <2>4. worker' = worker \/ worker' = [worker EXCEPT ![w] = x]
    BY <2>2 DEF x
  <2> QED BY <1>0, <2>3, <2>4
<1>4. CASE WriteFlags(w) \/ Delete(w)
  <2>1. worker' = worker \/ worker' = [worker EXCEPT ![w] = Idle]
    BY <1>4 DEF WriteFlags, Delete, Strays
  <2>2. Idle \in DoingType(WorkerAts) /\ Idle.at = "idle"
    BY DEF Idle, Doing, DoingType, WorkerAts
  <2> QED BY <1>0, <2>1, <2>2
<1>5. CASE ReadFile(w) \/ StoreNb(w) \/ StoreLists(w) \/ CheckFlags(w) \/ MakeTerrain(w)
  <2>1. worker[w].t \in Tiles /\ worker[w] \in DoingType(WorkerAts)
    BY <1>5 DEF ReadFile, StoreNb, StoreLists, CheckFlags, MakeTerrain, Busy, TypeWorker
  <2>2. \/ worker' = worker
        \/ worker' = [worker EXCEPT ![w] = Idle]
        \/ \E at \in {"clear", "nb", "lists", "check", "mcnk"} :
              worker' = [worker EXCEPT ![w] = [worker[w] EXCEPT !.at = at]]
    BY <1>5 DEF ReadFile, StoreNb, StoreLists, CheckFlags, MakeTerrain, Strays, Goes
  <2>3. Idle \in DoingType(WorkerAts) /\ Idle.at = "idle"
    BY DEF Idle, Doing, DoingType, WorkerAts
  <2>4. ASSUME NEW at \in {"clear", "nb", "lists", "check", "mcnk"}
        PROVE  LET x == [worker[w] EXCEPT !.at = at]
               IN x \in DoingType(WorkerAts) /\ x.t \in Tiles /\ x.at # "unload"
    BY <2>1 DEF DoingType, WorkerAts
  <2> QED BY <1>0, <2>2, <2>3, <2>4
<1> QED BY <1>1, <1>2, <1>3, <1>4, <1>5

(* the other steps leave the workers alone                                 *)
LEMMA WorkersIdle ==
  ASSUME \/ CullStart \/ CullLoad \/ CullUnload \/ CullUnloaded \/ AskUnload \/ AskObjects \/ CullDraw
         \/ NewFrame \/ Render \/ WaitCull \/ InitTile \/ InitOver \/ DoGc \/ Look \/ LookAsync
         \/ Quit \/ UNCHANGED vars
  PROVE  worker' = worker
  BY DEF CullStart, CullLoad, CullUnload, CullUnloaded, AskUnload, AskObjects, CullDraw, NewFrame,
         Render, WaitCull, InitTile, InitOver, DoGc, Look, LookAsync, Quit, vars

LEMMA WorkerKept ==
  ASSUME TypeTile, TypeWorker, TypeTasks, Busy, [Next]_vars
  PROVE  TypeWorker'
<1>1. ASSUME NEW w \in Workers,
            \/ FindTask(w) /\ TakeLoad(w)
            \/ FindTask(w) /\ TakeUnload(w)
            \/ ReadFile(w) \/ StoreNb(w) \/ StoreLists(w) \/ CheckFlags(w) \/ MakeTerrain(w)
            \/ ReadFlags(w) \/ WriteFlags(w) \/ Delete(w)
     PROVE  TypeWorker'
  <2>1. worker' = worker \/ \E x \in DoingType(WorkerAts) : worker' = [worker EXCEPT ![w] = x]
    BY <1>1, WorkerSteps
  <2> QED BY <2>1 DEF TypeWorker
<1>2. CASE worker' = worker
  BY <1>2 DEF TypeWorker
<1> QED BY <1>1, <1>2, NextCases, WorkersIdle

LEMMA BusyKept ==
  ASSUME TypeMap, TypeTile, TypeTasks, TypeWorker, TypeCull, ArrayListed, Busy, [Next]_vars
  PROVE  Busy'
<1>1. ASSUME NEW w \in Workers,
            \/ FindTask(w) /\ TakeLoad(w)
            \/ FindTask(w) /\ TakeUnload(w)
            \/ ReadFile(w) \/ StoreNb(w) \/ StoreLists(w) \/ CheckFlags(w) \/ MakeTerrain(w)
            \/ ReadFlags(w) \/ WriteFlags(w) \/ Delete(w)
     PROVE  Busy'
  <2>1. /\ cull' = cull
        /\ \/ worker' = worker
           \/ \E x \in DoingType(WorkerAts) :
                worker' = [worker EXCEPT ![w] = x] /\ (x.at # "idle" => x.t \in Tiles)
    BY <1>1, WorkerSteps
  <2> QED BY <2>1 DEF Busy, TypeWorker
<1>2. ASSUME worker' = worker, [Next]_vars PROVE Busy'
  <2>1. cull'.at \in {"ask", "objects"} => cull'.t \in Tiles
    <3> USE DEF Doing, Idle
    <3>1. CASE CullUnload
      <4>1. PICK i \in DOMAIN tiles : Condemn(i)
        BY <3>1 DEF CullUnload, Leaving
      <4> QED BY <4>1, ListedTile DEF Condemn
    <3>2. CASE CullStart \/ CullLoad \/ CullUnloaded \/ AskUnload \/ AskObjects \/ CullDraw
            \/ NewFrame \/ Quit
      BY <3>2 DEF Busy, CullStart, CullLoad, CullUnloaded, AskUnload, AskObjects, CullDraw,
                  NewFrame, Quit
    <3>3. CASE cull' = cull
      BY <3>3 DEF Busy
    <3>4. CASE Render \/ WaitCull \/ InitTile \/ InitOver \/ DoGc \/ Look \/ LookAsync
      <4>1. cull' = cull
        BY <3>4 DEF Render, WaitCull, InitTile, InitOver, DoGc, Look, LookAsync
      <4> QED BY <4>1, <3>3
    <3>5. CASE UNCHANGED vars
      BY <3>5, <3>3 DEF vars
    <3> QED BY <3>1, <3>2, <3>3, <3>4, <3>5, NextCases, WorkerSteps
  <2> QED BY <1>2, <2>1 DEF Busy
<1> QED BY <1>1, <1>2, NextCases, WorkersIdle

-----------------------------------------------------------------------------
(* The list and the array of the map.                                      *)

LEMMA RemoveAtFacts ==
  ASSUME NEW S, NEW s \in Seq(S), NEW i \in 1..Len(s)
  PROVE  /\ RemoveAt(s, i) \in Seq(S) /\ Len(RemoveAt(s, i)) = Len(s) - 1
         /\ \A j \in 1..(Len(s) - 1) : RemoveAt(s, i)[j] = IF j < i THEN s[j] ELSE s[j + 1]
<1> DEFINE a == SubSeq(s, 1, i - 1)
           b == SubSeq(s, i + 1, Len(s))
<1>1. a \in Seq(S) /\ Len(a) = i - 1 /\ \A j \in 1..(i - 1) : a[j] = s[j]
  OBVIOUS
<1>2. b \in Seq(S) /\ Len(b) = Len(s) - i /\ \A j \in 1..(Len(s) - i) : b[j] = s[i + j]
  OBVIOUS
<1>3. RemoveAt(s, i) = a \o b
  BY DEF RemoveAt
<1> HIDE DEF a, b
<1>4. a \o b \in Seq(S) /\ Len(a \o b) = Len(s) - 1
  <2>1. a \o b \in Seq(S) /\ Len(a \o b) = Len(a) + Len(b)
    BY <1>1, <1>2, ConcatProperties
  <2>2. Len(s) \in Nat
    OBVIOUS
  <2> QED BY <2>1, <2>2, <1>1, <1>2
<1>5. ASSUME NEW j \in 1..(Len(s) - 1)
      PROVE  (a \o b)[j] = IF j < i THEN s[j] ELSE s[j + 1]
  <2>1. CASE j < i
    BY <2>1, <1>1, <1>2
  <2>2. CASE ~(j < i)
    <3>1. (a \o b)[j] = b[j - (i - 1)] /\ j - (i - 1) \in 1..(Len(s) - i)
      BY <2>2, <1>1, <1>2
    <3>2. b[j - (i - 1)] = s[i + (j - (i - 1))] /\ i + (j - (i - 1)) = j + 1
      BY <3>1, <1>2
    <3> QED BY <3>1, <3>2, <2>2
  <2> QED BY <2>1, <2>2
<1> QED BY <1>3, <1>4, <1>5

(* of what the map's list says, only the condemned place is gone           *)
LEMMA RemoveAtRange ==
  ASSUME NEW S, NEW s \in Seq(S), NEW i \in DOMAIN s,
         \A j, k \in DOMAIN s : s[j] = s[k] => j = k
  PROVE  /\ Range(RemoveAt(s, i)) = Range(s) \ {s[i]}
         /\ \A j, k \in DOMAIN RemoveAt(s, i) : RemoveAt(s, i)[j] = RemoveAt(s, i)[k] => j = k
<1> DEFINE r == RemoveAt(s, i)
<1>1. /\ r \in Seq(S) /\ Len(r) = Len(s) - 1
      /\ \A j \in 1..(Len(s) - 1) : r[j] = IF j < i THEN s[j] ELSE s[j + 1]
  BY RemoveAtFacts
<1>2. DOMAIN r = 1..(Len(s) - 1) /\ DOMAIN s = 1..Len(s)
  BY <1>1
<1> HIDE DEF r
<1>3. \A j, k \in DOMAIN r : r[j] = r[k] => j = k
  BY <1>1, <1>2
<1>4. ASSUME NEW j \in DOMAIN r PROVE \E k \in DOMAIN s : k # i /\ r[j] = s[k]
  <2>1. CASE j < i
    BY <2>1, <1>1, <1>2
  <2>2. CASE ~(j < i)
    BY <2>2, <1>1, <1>2
  <2> QED BY <2>1, <2>2
<1>5. ASSUME NEW k \in DOMAIN s, k # i PROVE \E j \in DOMAIN r : r[j] = s[k]
  <2>1. CASE k < i
    BY <2>1, <1>1, <1>2
  <2>2. CASE ~(k < i)
    <3>1. k - 1 \in DOMAIN r /\ r[k - 1] = s[k]
      BY <2>2, <1>1, <1>2, <1>5
    <3> QED BY <3>1
  <2> QED BY <2>1, <2>2
<1>6. Range(r) = Range(s) \ {s[i]}
  BY <1>4, <1>5 DEF Range
<1> QED BY <1>3, <1>6 DEF r

(* who changes the list and the array                                      *)
LEMMA MapSteps ==
  ASSUME [Next]_vars
  PROVE  CullLoad \/ CullUnload \/ UNCHANGED <<tiles, tileAt>>
<1>1. CASE CullStart \/ CullUnloaded \/ AskUnload \/ AskObjects \/ CullDraw \/ NewFrame \/ Render
        \/ WaitCull \/ InitTile \/ InitOver \/ DoGc \/ Look \/ LookAsync \/ Quit
  BY <1>1 DEF CullStart, CullUnloaded, AskUnload, AskObjects, CullDraw, NewFrame, Render, WaitCull,
              InitTile, InitOver, DoGc, Look, LookAsync, Quit, mapVars
<1>2. ASSUME NEW w \in Workers,
            \/ FindTask(w) /\ TakeLoad(w)
            \/ FindTask(w) /\ TakeUnload(w)
            \/ ReadFile(w) \/ StoreNb(w) \/ StoreLists(w) \/ CheckFlags(w) \/ MakeTerrain(w)
            \/ ReadFlags(w) \/ WriteFlags(w) \/ Delete(w)
      PROVE UNCHANGED <<tiles, tileAt>>
  BY <1>2 DEF FindTask, ReadFile, StoreNb, StoreLists, CheckFlags, MakeTerrain, ReadFlags,
     WriteFlags,
              Delete, mapVars
<1>3. CASE UNCHANGED vars
  BY <1>3 DEF vars
<1> QED BY <1>1, <1>2, <1>3, NextCases

LEMMA MapKept ==
  ASSUME TypeMap, TypeTile, ArrayListed, [Next]_vars
  PROVE  TypeMap'
<1>1. CASE CullLoad
  <2>1. ASSUME NEW p \in Places, NEW t \in Tiles, LoadTile(p, t) PROVE TypeMap'
    BY <2>1 DEF LoadTile, TypeMap
  <2> QED BY <1>1, <2>1 DEF CullLoad, Missing, Fresh, Near, TypeMap
<1>2. CASE CullUnload
  <2>1. PICK i \in DOMAIN tiles : Condemn(i)
    BY <1>2 DEF CullUnload, Leaving
  <2>2. tiles' = RemoveAt(tiles, i) /\ tileAt' = [tileAt EXCEPT ![tiles[i]] = None]
    BY <2>1 DEF Condemn
  <2>3. RemoveAt(tiles, i) \in Seq(Places)
    BY RemoveAtFacts DEF TypeMap
  <2> QED BY <2>2, <2>3 DEF TypeMap
<1>3. CASE UNCHANGED <<tiles, tileAt>>
  BY <1>3 DEF TypeMap
<1> QED BY <1>1, <1>2, <1>3, MapSteps

(* what the map and the lists know of a tile is as it was                  *)
SameLife == \A t \in Tiles : /\ tile'[t].mem = tile[t].mem /\ tile'[t].cut = tile[t].cut
                             /\ tile'[t].place = tile[t].place

LEMMA FlagsSame ==
  ASSUME TypeTile, NEW t \in Tiles, NEW fs, tile' = [tile EXCEPT ![t].flags = fs]
  PROVE  SameLife
<1>1. tile[t] \in TileType
  BY DEF TypeTile
<1> QED BY <1>1 DEF SameLife, TypeTile, TileType

LEMMA ListsSame ==
  ASSUME TypeTile, NEW t \in Tiles, NEW a \in BOOLEAN, NEW b \in BOOLEAN,
         tile' = [tile EXCEPT ![t].nb = a, ![t].lists = b]
  PROVE  SameLife
<1>1. tile[t] \in TileType
  BY DEF TypeTile
<1> QED BY <1>1 DEF SameLife, TypeTile, TileType

(* a worker that deletes, and the others                                   *)
LEMMA WorkerLifeSteps ==
  ASSUME TypeTile, TypeTasks, Busy, NEW w \in Workers,
         \/ FindTask(w) /\ TakeLoad(w)
         \/ FindTask(w) /\ TakeUnload(w)
         \/ ReadFile(w) \/ StoreNb(w) \/ StoreLists(w) \/ CheckFlags(w) \/ MakeTerrain(w)
         \/ ReadFlags(w) \/ WriteFlags(w) \/ Delete(w)
  PROVE  Delete(w) \/ SameLife
<1>0. ASSUME UNCHANGED tile PROVE SameLife
  BY <1>0 DEF SameLife
<1> DEFINE t == worker[w].t
<1>1. CASE FindTask(w) /\ TakeLoad(w)
  <2>1. Head(loads) \in Tiles
    BY <1>1 DEF TakeLoad, TypeTasks
  <2>2. tile' = [tile EXCEPT ![Head(loads)].flags = tile[Head(loads)].flags \cup {"loading"}]
    BY <1>1 DEF TakeLoad
  <2> QED BY <2>1, <2>2, FlagsSame
<1>2. CASE StoreNb(w)
  <2>1. t \in Tiles /\ tile[t] \in TileType
    BY <1>2 DEF StoreNb, Busy, TypeTile
  <2>2. UNCHANGED tile \/ tile' = [tile EXCEPT ![t].nb = TRUE]
    BY <1>2 DEF StoreNb
  <2> QED BY <2>1, <2>2 DEF SameLife, TypeTile, TileType
<1>3. CASE StoreLists(w)
  <2>1. t \in Tiles /\ tile[t] \in TileType
    BY <1>3 DEF StoreLists, Busy, TypeTile
  <2>2. UNCHANGED tile \/ tile' = [tile EXCEPT ![t].lists = TRUE]
    BY <1>3 DEF StoreLists
  <2> QED BY <2>1, <2>2 DEF SameLife, TypeTile, TileType
<1>4. CASE MakeTerrain(w)
  <2>1. t \in Tiles
    BY <1>4 DEF MakeTerrain, Busy
  <2>2. UNCHANGED tile \/ tile' = [tile EXCEPT ![t].flags = tile[t].flags \cup {"loaded"}]
    BY <1>4 DEF MakeTerrain
  <2> QED BY <2>1, <2>2, <1>0, FlagsSame
<1>5. CASE WriteFlags(w)
  <2>1. t \in Tiles
    BY <1>5 DEF WriteFlags, Busy
  <2>2. UNCHANGED tile \/ tile' = [tile EXCEPT ![t].flags = worker[w].saw \ {"loading"}]
    BY <1>5 DEF WriteFlags
  <2> QED BY <2>1, <2>2, <1>0, FlagsSame
<1>6. CASE (FindTask(w) /\ TakeUnload(w)) \/ ReadFile(w) \/ CheckFlags(w) \/ ReadFlags(w)
  <2>1. UNCHANGED tile
    BY <1>6 DEF FindTask, TakeUnload, ReadFile, CheckFlags, ReadFlags
  <2> QED BY <2>1, <1>0
<1> QED BY <1>1, <1>2, <1>3, <1>4, <1>5, <1>6

(* who creates, condemns and deletes                                       *)
LEMMA LifeSteps ==
  ASSUME TypeTile, TypeInits, TypeTasks, Busy, [Next]_vars
  PROVE  CullLoad \/ CullUnload \/ (\E w \in Workers : Delete(w)) \/ SameLife
<1>1. ASSUME UNCHANGED tile PROVE SameLife
  BY <1>1 DEF SameLife
<1>2. CASE AskUnload
  <2>1. cull.t \in Tiles /\ tile' = [tile EXCEPT ![cull.t].flags = cull.saw \ {"loading"}]
    BY <1>2 DEF AskUnload, Busy
  <2> QED BY <2>1, FlagsSame
<1>3. CASE AskObjects
  <2>1. cull.t \in Tiles /\ tile' = [tile EXCEPT ![cull.t].nb = FALSE, ![cull.t].lists = FALSE]
    BY <1>3 DEF AskObjects, Busy
  <2> QED BY <2>1, ListsSame
<1>4. CASE InitTile
  <2>1. Head(inits) \in Tiles
    BY <1>4 DEF InitTile, TypeInits
  <2>2. \/ UNCHANGED tile
        \/ tile' = [tile EXCEPT ![Head(inits)].flags = tile[Head(inits)].flags \cup {"init"}]
    BY <1>4 DEF InitTile
  <2> QED BY <2>1, <2>2, <1>1, FlagsSame
<1>5. CASE CullStart \/ CullUnloaded \/ CullDraw \/ NewFrame \/ Render \/ WaitCull \/ InitOver
        \/ DoGc \/ Look \/ LookAsync \/ Quit \/ UNCHANGED vars
  <2>1. UNCHANGED tile
    BY <1>5 DEF CullStart, CullUnloaded, CullDraw, NewFrame, Render, WaitCull, InitOver, DoGc, Look,
                LookAsync, Quit, vars
  <2> QED BY <2>1, <1>1
<1>6. ASSUME NEW w \in Workers,
            \/ FindTask(w) /\ TakeLoad(w)
            \/ FindTask(w) /\ TakeUnload(w)
            \/ ReadFile(w) \/ StoreNb(w) \/ StoreLists(w) \/ CheckFlags(w) \/ MakeTerrain(w)
            \/ ReadFlags(w) \/ WriteFlags(w) \/ Delete(w)
      PROVE Delete(w) \/ SameLife
  BY <1>6, WorkerLifeSteps
<1> QED BY <1>2, <1>3, <1>4, <1>5, <1>6, NextCases

(* A tile is created for a place that has none; a tile that is condemned   *)
(* leaves the list and the array in one step; and what is deleted has been *)
(* cut off before.                                                         *)
LEMMA ArrayListedKept ==
  ASSUME TypeMap, TypeTile, TypeInits, TypeTasks, TypeWorker, Busy, CutOff, ArrayListed, [Next]_vars
  PROVE  ArrayListed'
<1> DEFINE Said(p) == tileAt[p] # None =>
             /\ tile[tileAt[p]].mem = "live" /\ tile[tileAt[p]].cut = "no"
             /\ tile[tileAt[p]].place = p
<1>0. \A p \in Places : Said(p)
  BY DEF ArrayListed
<1>1. CASE CullLoad
  <2>1. CASE UNCHANGED <<tiles, tileAt, tile>>
    BY <2>1 DEF ArrayListed
  <2>2. ASSUME NEW p \in Places, NEW t \in Tiles, tileAt[p] = None, tile[t].mem = "unborn", LoadTile(p, t)
        PROVE  ArrayListed'
    <3>1. /\ tiles' = Append(tiles, p) /\ tileAt' = [tileAt EXCEPT ![p] = t]
          /\ tile' = [tile EXCEPT ![t] = [Unborn EXCEPT !.mem = "live", !.place = p, !.flags = {"loading"}]]
      BY <2>2 DEF LoadTile
    <3>2. p \notin Range(tiles)
      BY <2>2 DEF ArrayListed
    <3>3. Range(tiles') = Range(tiles) \cup {p}
      <4>1. /\ DOMAIN tiles' = 1..(Len(tiles) + 1) /\ DOMAIN tiles = 1..Len(tiles) /\ Len(tiles) \in Nat
            /\ \A i \in 1..Len(tiles) : tiles'[i] = tiles[i]
            /\ tiles'[Len(tiles) + 1] = p
        BY <3>1 DEF TypeMap
      <4>2. DOMAIN tiles' = DOMAIN tiles \cup {Len(tiles) + 1}
        BY <4>1
      <4> DEFINE D == DOMAIN tiles
                 e == Len(tiles) + 1
      <4>3. \A i \in D : tiles'[i] = tiles[i]
        BY <4>1
      <4>4. tiles'[e] = p /\ DOMAIN tiles' = D \cup {e}
        BY <4>1, <4>2
      <4> HIDE DEF e
      <4>5. {tiles'[i] : i \in D \cup {e}} = {tiles[i] : i \in D} \cup {p}
        BY <4>3, <4>4
      <4> QED BY <4>4, <4>5 DEF Range
    <3>4. \A i, j \in DOMAIN tiles' : tiles'[i] = tiles'[j] => i = j
      BY <3>1, <3>2 DEF TypeMap, Range, ArrayListed
    <3>5. Range(tiles') = {q \in Places : tileAt'[q] # None}
      BY <3>1, <3>3 DEF TypeMap, ArrayListed
    <3>6. ASSUME NEW q \in Places PROVE Said(q)'
      <4>1. CASE q = p
        BY <3>1, <4>1 DEF TypeMap, TypeTile, Unborn
      <4>2. CASE q # p
        <5>1. tileAt'[q] = tileAt[q]
          BY <3>1, <4>2 DEF TypeMap
        <5>2. CASE tileAt[q] = None
          BY <5>1, <5>2
        <5>3. CASE tileAt[q] # None
          <6>1. tileAt[q] \in Tiles /\ tileAt[q] # t
            BY <1>0, <5>3, <2>2 DEF TypeMap
          <6> QED BY <6>1, <3>1, <5>1, <1>0 DEF TypeTile
        <5> QED BY <5>2, <5>3
      <4> QED BY <4>1, <4>2
    <3> QED BY <3>4, <3>5, <3>6 DEF ArrayListed
  <2> QED BY <1>1, <2>1, <2>2 DEF CullLoad, Missing, Fresh, Near
<1>2. CASE CullUnload
  <2>1. PICK i \in DOMAIN tiles : Condemn(i)
    BY <1>2 DEF CullUnload, Leaving
  <2> DEFINE p == tiles[i]
             t == tileAt[p]
  <2>2. p \in Places /\ t \in Tiles /\ tile[t].place = p
    BY ListedTile, ListedPlace
  <2>3. /\ tiles' = RemoveAt(tiles, i) /\ tileAt' = [tileAt EXCEPT ![p] = None]
        /\ tile' = [tile EXCEPT ![t].cut = OnItsWay(t)]
    BY <2>1 DEF Condemn
  <2> HIDE DEF p, t
  <2>4. /\ Range(RemoveAt(tiles, i)) = Range(tiles) \ {p}
        /\ \A j, k \in DOMAIN RemoveAt(tiles, i) : RemoveAt(tiles, i)[j] = RemoveAt(tiles, i)[k] => j = k
    BY RemoveAtRange DEF p, TypeMap, ArrayListed
  <2>5. Range(tiles') = {q \in Places : tileAt'[q] # None}
    BY <2>2, <2>3, <2>4 DEF TypeMap, ArrayListed
  <2>6. ASSUME NEW q \in Places PROVE Said(q)'
    <3>1. CASE q = p \/ tileAt[q] = None
      BY <3>1, <2>2, <2>3 DEF TypeMap
    <3>2. CASE q # p /\ tileAt[q] # None
      <4>1. tileAt'[q] = tileAt[q]
        BY <3>2, <2>3 DEF TypeMap
      <4>2. tileAt[q] \in Tiles /\ tileAt[q] # t
        BY <1>0, <3>2, <2>2 DEF TypeMap
      <4> QED BY <4>1, <4>2, <2>3, <1>0 DEF TypeTile
    <3> QED BY <3>1, <3>2
  <2> QED BY <2>3, <2>4, <2>5, <2>6 DEF ArrayListed
<1>3. ASSUME NEW w \in Workers, Delete(w), UNCHANGED <<tiles, tileAt>> PROVE ArrayListed'
  <2> DEFINE t == worker[w].t
  <2>1. t \in Tiles /\ tile[t].cut # "no"
    BY <1>3 DEF Delete, Busy, CutOff
  <2>2. \A u \in Tiles : u # t => tile'[u] = tile[u]
    BY <1>3, <2>1 DEF Delete, TypeTile
  <2>3. ASSUME NEW q \in Places PROVE Said(q)'
    <3>1. tileAt'[q] = tileAt[q]
      BY <1>3
    <3>2. CASE tileAt[q] = None
      BY <3>1, <3>2
    <3>3. CASE tileAt[q] # None
      <4>1. tile[tileAt[q]].mem = "live" /\ tile[tileAt[q]].cut = "no" /\ tile[tileAt[q]].place = q
        BY <1>0, <3>3
      <4>2. tileAt[q] \in Tiles
        BY <3>3 DEF TypeMap
      <4>3. tile'[tileAt[q]] = tile[tileAt[q]]
        BY <4>1, <4>2, <2>1, <2>2
      <4> QED BY <4>1, <4>3, <3>1
    <3> QED BY <3>2, <3>3
  <2> QED BY <1>3, <2>3 DEF ArrayListed
<1>4. CASE SameLife /\ UNCHANGED <<tiles, tileAt>>
  <2>1. ASSUME NEW q \in Places PROVE Said(q)'
    <3>1. tileAt'[q] = tileAt[q]
      BY <1>4
    <3>2. CASE tileAt[q] = None
      BY <3>1, <3>2
    <3>3. CASE tileAt[q] # None
      <4>1. tile[tileAt[q]].mem = "live" /\ tile[tileAt[q]].cut = "no" /\ tile[tileAt[q]].place = q
        BY <1>0, <3>3
      <4>2. tileAt[q] \in Tiles
        BY <3>3 DEF TypeMap
      <4> QED BY <4>1, <4>2, <3>1, <1>4 DEF SameLife
    <3> QED BY <3>2, <3>3
  <2> QED BY <1>4, <2>1 DEF ArrayListed
<1>5. ASSUME NEW w \in Workers, Delete(w) PROVE UNCHANGED <<tiles, tileAt>>
  BY <1>5 DEF Delete, mapVars
<1> QED BY <1>1, <1>2, <1>3, <1>4, <1>5, MapSteps, LifeSteps

(* A tile that was cut off stays so.                                       *)
LEMMA StaysCut ==
  ASSUME TypeMap, TypeTile, TypeInits, TypeTasks, Busy, ArrayListed, CutOff, [Next]_vars,
         NEW t \in Tiles
  PROVE  /\ tile[t].cut # "no" => tile'[t].cut # "no"
         /\ tile'[t].mem = "unborn" => tile'[t].cut = "no"
<1>0. tile[t] \in TileType /\ (tile[t].mem = "unborn" => tile[t].cut = "no")
  BY DEF TypeTile, CutOff
<1>1. CASE CullLoad
  <2>1. CASE UNCHANGED tile
    BY <2>1, <1>0
  <2>2. ASSUME NEW p, NEW u \in Tiles, tile[u].mem = "unborn", LoadTile(p, u)
        PROVE  /\ tile[t].cut # "no" => tile'[t].cut # "no"
               /\ tile'[t].mem = "unborn" => tile'[t].cut = "no"
    <3>1. tile' = [tile EXCEPT ![u] = [Unborn EXCEPT !.mem = "live", !.place = p, !.flags = {"loading"}]]
      BY <2>2 DEF LoadTile
    <3>2. CASE t = u
      BY <3>1, <3>2, <2>2, <1>0 DEF TypeTile, Unborn
    <3>3. CASE t # u
      BY <3>1, <3>3, <1>0 DEF TypeTile
    <3> QED BY <3>2, <3>3
  <2> QED BY <1>1, <2>1, <2>2 DEF CullLoad, Fresh
<1>2. CASE CullUnload
  <2>1. PICK i \in DOMAIN tiles : Condemn(i)
    BY <1>2 DEF CullUnload, Leaving
  <2> DEFINE u == tileAt[tiles[i]]
  <2>2. u \in Tiles /\ tile[u] \in TileType /\ tile[u].mem = "live"
    BY ListedTile
  <2>3. tile' = [tile EXCEPT ![u].cut = OnItsWay(u)]
    BY <2>1 DEF Condemn
  <2>4. OnItsWay(u) # "no"
    BY OnItsWayType DEF Stages
  <2> HIDE DEF u
  <2> QED BY <2>2, <2>3, <2>4, <1>0 DEF TypeTile, TileType
<1>3. ASSUME NEW w \in Workers, Delete(w)
      PROVE  /\ tile[t].cut # "no" => tile'[t].cut # "no"
             /\ tile'[t].mem = "unborn" => tile'[t].cut = "no"
  <2> DEFINE u == worker[w].t
  <2>1. \/ UNCHANGED tile
        \/ tile' = [tile EXCEPT ![u] = [Unborn EXCEPT !.mem = "freed", !.place = tile[u].place,
                                                      !.cut = tile[u].cut]]
    BY <1>3 DEF Delete
  <2>2. CASE UNCHANGED tile
    BY <2>2, <1>0
  <2>3. CASE tile' = [tile EXCEPT ![u] = [Unborn EXCEPT !.mem = "freed", !.place = tile[u].place,
                                                      !.cut = tile[u].cut]]
    <3>1. CASE t = u
      <4>1. tile'[t].mem = "freed" /\ tile'[t].cut = tile[t].cut
        BY <2>3, <3>1 DEF TypeTile, Unborn
      <4> QED BY <4>1
    <3>2. CASE t # u
      <4>1. tile'[t] = tile[t]
        BY <2>3, <3>2 DEF TypeTile
      <4> QED BY <4>1, <1>0
    <3> QED BY <3>1, <3>2
  <2> QED BY <2>1, <2>2, <2>3
<1>4. CASE SameLife
  BY <1>4, <1>0 DEF SameLife
<1> QED BY <1>1, <1>2, <1>3, <1>4, LifeSteps

(* who changes the lists of the condemned                                  *)
LEMMA GcSteps ==
  ASSUME [Next]_vars
  PROVE  AskUnload \/ NewFrame \/ DoGc \/ UNCHANGED gc
<1>1. CASE CullStart \/ CullLoad \/ CullUnload \/ CullUnloaded \/ AskObjects \/ CullDraw \/ Render
        \/ WaitCull \/ InitTile \/ InitOver \/ Look \/ LookAsync \/ Quit \/ UNCHANGED vars
  BY <1>1 DEF CullStart, CullLoad, CullUnload, CullUnloaded, AskObjects, CullDraw, Render, WaitCull,
              InitTile, InitOver, Look, LookAsync, Quit, vars, loaderVars
<1>2. ASSUME NEW w \in Workers,
            \/ FindTask(w) /\ TakeLoad(w)
            \/ FindTask(w) /\ TakeUnload(w)
            \/ ReadFile(w) \/ StoreNb(w) \/ StoreLists(w) \/ CheckFlags(w) \/ MakeTerrain(w)
            \/ ReadFlags(w) \/ WriteFlags(w) \/ Delete(w)
      PROVE UNCHANGED gc
  BY <1>2 DEF FindTask, ReadFile, StoreNb, StoreLists, CheckFlags, MakeTerrain, ReadFlags,
     WriteFlags,
              Delete, loaderVars
<1> QED BY <1>1, <1>2, NextCases

LEMMA UnloadsSteps ==
  ASSUME [Next]_vars
  PROVE  DoGc \/ (\E w \in Workers : TakeUnload(w)) \/ UNCHANGED unloads
<1>1. CASE CullStart \/ CullLoad \/ CullUnload \/ CullUnloaded \/ AskUnload \/ AskObjects \/ CullDraw
        \/ NewFrame \/ Render \/ WaitCull \/ InitTile \/ InitOver \/ Look \/ LookAsync \/ Quit
        \/ UNCHANGED vars
  BY <1>1 DEF CullStart, CullLoad, CullUnload, CullUnloaded, AskUnload, AskObjects, CullDraw,
     NewFrame,
              Render, WaitCull, InitTile, InitOver, Look, LookAsync, Quit, vars, loaderVars
<1>2. ASSUME NEW w \in Workers,
            \/ FindTask(w) /\ TakeLoad(w)
            \/ FindTask(w) /\ TakeUnload(w)
            \/ ReadFile(w) \/ StoreNb(w) \/ StoreLists(w) \/ CheckFlags(w) \/ MakeTerrain(w)
            \/ ReadFlags(w) \/ WriteFlags(w) \/ Delete(w)
      PROVE TakeUnload(w) \/ UNCHANGED unloads
  BY <1>2 DEF TakeLoad, ReadFile, StoreNb, StoreLists, CheckFlags, MakeTerrain, ReadFlags,
     WriteFlags,
              Delete, loaderVars
<1> QED BY <1>1, <1>2, NextCases

LEMMA CullSteps ==
  ASSUME [Next]_vars
  PROVE  \/ CullUnload \/ AskUnload \/ UNCHANGED cull
         \/ cull'.at \notin {"ask", "objects"}
<1>1. CASE CullStart \/ CullLoad \/ CullUnloaded \/ AskObjects \/ CullDraw \/ NewFrame \/ Quit
  <2>1. cull' = cull \/ \E at \in CullAts \ {"ask", "objects"} : cull' = Doing(at, None, {})
    BY <1>1 DEF CullStart, CullLoad, CullUnloaded, AskObjects, CullDraw, NewFrame, Quit, Idle,
       CullAts
  <2> QED BY <2>1 DEF Doing
<1>2. CASE Render \/ WaitCull \/ InitTile \/ InitOver \/ DoGc \/ Look \/ LookAsync \/ UNCHANGED vars
  BY <1>2 DEF Render, WaitCull, InitTile, InitOver, DoGc, Look, LookAsync, vars
<1>3. ASSUME NEW w \in Workers,
            \/ FindTask(w) /\ TakeLoad(w)
            \/ FindTask(w) /\ TakeUnload(w)
            \/ ReadFile(w) \/ StoreNb(w) \/ StoreLists(w) \/ CheckFlags(w) \/ MakeTerrain(w)
            \/ ReadFlags(w) \/ WriteFlags(w) \/ Delete(w)
      PROVE UNCHANGED cull
  BY <1>3 DEF FindTask, ReadFile, StoreNb, StoreLists, CheckFlags, MakeTerrain, ReadFlags,
     WriteFlags,
              Delete
<1> QED BY <1>1, <1>2, <1>3, NextCases

LEMMA CutOffKept ==
  ASSUME Types, Busy, ArrayListed, CutOff, [Next]_vars
  PROVE  CutOff'
<1> USE DEF Types
<1>1. \A t \in Tiles : tile[t].cut # "no" => tile'[t].cut # "no"
  BY StaysCut
<1>2. \A t \in Tiles : tile'[t].mem = "unborn" => tile'[t].cut = "no"
  BY StaysCut
<1>3. ASSUME NEW s \in Slots, NEW i \in DOMAIN gc'[s] PROVE tile'[gc'[s][i]].cut # "no"
  <2>0. ASSUME NEW u \in Slots, NEW j \in DOMAIN gc[u] PROVE gc[u][j] \in Tiles /\ tile'[gc[u][j]].cut # "no"
    <3>1. gc[u][j] \in Tiles
      BY DEF TypeGc
    <3>2. tile[gc[u][j]].cut # "no"
      BY DEF CutOff
    <3> QED BY <3>1, <3>2, <1>1
  <2>1. CASE UNCHANGED gc
    BY <2>0, <2>1
  <2>2. CASE NewFrame
    <3>1. gc' = Turned(gc)
      BY <2>2 DEF NewFrame
    <3>2. gc'[s] = gc[(s + 1) % 3] /\ (s + 1) % 3 \in Slots
      BY <3>1 DEF Turned, Slots
    <3> QED BY <3>2, <2>0
  <2>3. CASE DoGc
    <3>1. gc' \in {Drained, Turned(Drained)}
      BY <2>3 DEF DoGc
    <3>2. PICK u \in Slots : gc'[s] = Drained[u]
      BY <3>1 DEF Turned, Slots
    <3>3. Drained[u] = <<>> \/ Drained[u] = gc[u]
      BY DEF Drained, TypeGc
    <3> QED BY <3>2, <3>3, <2>0
  <2>4. CASE AskUnload
    <3>1. gc' = [gc EXCEPT ![CullSlot] = Append(gc[CullSlot], cull.t)]
      BY <2>4 DEF AskUnload
    <3>2. cull.t \in Tiles /\ tile'[cull.t].cut # "no"
      BY <2>4, <1>1 DEF AskUnload, Busy, CutOff
    <3>3. CullSlot \in Slots /\ gc[CullSlot] \in Seq(Tiles)
      BY DEF CullSlot, Slots, TypeGc
    <3>4. CASE s # CullSlot
      <4>1. gc'[s] = gc[s]
        BY <3>1, <3>4 DEF TypeGc
      <4> QED BY <4>1, <2>0
    <3>5. CASE s = CullSlot
      <4>1. gc'[s] = Append(gc[CullSlot], cull.t)
        BY <3>1, <3>3, <3>5 DEF TypeGc
      <4>2. gc'[s][i] = cull.t \/ (i \in DOMAIN gc[CullSlot] /\ gc'[s][i] = gc[CullSlot][i])
        BY <4>1, <3>3
      <4> QED BY <4>2, <3>2, <3>3, <2>0
    <3> QED BY <3>4, <3>5
  <2> QED BY <2>1, <2>2, <2>3, <2>4, GcSteps
<1>4. ASSUME NEW i \in DOMAIN unloads' PROVE tile'[unloads'[i]].cut # "no"
  <2>0. ASSUME NEW j \in DOMAIN unloads PROVE tile'[unloads[j]].cut # "no"
    <3>1. unloads[j] \in Tiles
      BY DEF TypeTasks
    <3>2. tile[unloads[j]].cut # "no"
      BY DEF CutOff
    <3> QED BY <3>1, <3>2, <1>1
  <2>1. CASE UNCHANGED unloads
    BY <2>0, <2>1
  <2>2. ASSUME NEW w \in Workers, TakeUnload(w) PROVE tile'[unloads'[i]].cut # "no"
    <3>1. unloads # <<>> /\ unloads' = Tail(unloads)
      BY <2>2 DEF TakeUnload
    <3>2. i + 1 \in DOMAIN unloads /\ unloads'[i] = unloads[i + 1]
      BY <3>1 DEF TypeTasks
    <3> QED BY <3>2, <2>0
  <2>3. CASE DoGc
    <3>1. unloads' = unloads \o gc[DrawSlot]
      BY <2>3 DEF DoGc
    <3>2. DrawSlot \in Slots /\ gc[DrawSlot] \in Seq(Tiles) /\ unloads \in Seq(Tiles)
      BY DEF DrawSlot, Slots, TypeGc, TypeTasks
    <3>3. \/ i \in DOMAIN unloads /\ unloads'[i] = unloads[i]
          \/ /\ i - Len(unloads) \in DOMAIN gc[DrawSlot]
             /\ unloads'[i] = gc[DrawSlot][i - Len(unloads)]
      BY <3>1, <3>2
    <3>4. ASSUME NEW j \in DOMAIN gc[DrawSlot] PROVE tile'[gc[DrawSlot][j]].cut # "no"
      <4>1. gc[DrawSlot][j] \in Tiles
        BY <3>2
      <4>2. tile[gc[DrawSlot][j]].cut # "no"
        BY <3>2 DEF CutOff
      <4> QED BY <4>1, <4>2, <1>1
    <3> QED BY <3>3, <3>4, <2>0
  <2> QED BY <2>1, <2>2, <2>3, UnloadsSteps
<1>5. ASSUME NEW v \in Workers, worker'[v].at = "unload" PROVE tile'[worker'[v].t].cut # "no"
  <2>1. ASSUME NEW u \in Workers, worker[u].at = "unload" PROVE tile'[worker[u].t].cut # "no"
    <3>1. worker[u].t \in Tiles
      BY <2>1 DEF Busy
    <3>2. tile[worker[u].t].cut # "no"
      BY <2>1 DEF CutOff
    <3> QED BY <3>1, <3>2, <1>1
  <2>2. CASE worker' = worker
    BY <2>1, <2>2, <1>5
  <2>3. ASSUME NEW w \in Workers,
               \/ FindTask(w) /\ TakeLoad(w)
               \/ FindTask(w) /\ TakeUnload(w)
               \/ ReadFile(w) \/ StoreNb(w) \/ StoreLists(w) \/ CheckFlags(w) \/ MakeTerrain(w)
               \/ ReadFlags(w) \/ WriteFlags(w) \/ Delete(w)
        PROVE tile'[worker'[v].t].cut # "no"
    <3>1. CASE worker' = worker
      BY <3>1, <2>2
    <3>2. ASSUME NEW x, worker' = [worker EXCEPT ![w] = x],
                 x.at = "unload" => TakeUnload(w) /\ x.t = Head(unloads)
          PROVE  tile'[worker'[v].t].cut # "no"
      <4>1. CASE v # w
        <5>1. worker'[v] = worker[v]
          BY <3>2, <4>1 DEF TypeWorker
        <5> QED BY <5>1, <2>1, <1>5
      <4>2. CASE v = w
        <5>1. worker'[v] = x
          BY <3>2, <4>2 DEF TypeWorker
        <5>2. unloads # <<>> /\ x.t = Head(unloads)
          BY <5>1, <3>2, <1>5 DEF TakeUnload
        <5>3. 1 \in DOMAIN unloads /\ x.t = unloads[1] /\ unloads[1] \in Tiles
          BY <5>2 DEF TypeTasks
        <5>4. tile[unloads[1]].cut # "no"
          BY <5>3 DEF CutOff
        <5> QED BY <5>1, <5>3, <5>4, <1>1
      <4> QED BY <4>1, <4>2
    <3>3. \/ worker' = worker
          \/ \E x \in DoingType(WorkerAts) :
               /\ worker' = [worker EXCEPT ![w] = x]
               /\ x.at = "unload" => TakeUnload(w) /\ x.t = Head(unloads)
      BY <2>3, WorkerSteps
    <3> QED BY <3>1, <3>2, <3>3
  <2> QED BY <2>2, <2>3, NextCases, WorkersIdle
<1>6. ASSUME cull'.at \in {"ask", "objects"} PROVE tile'[cull'.t].cut # "no"
  <2>1. ASSUME cull.at \in {"ask", "objects"} PROVE tile'[cull.t].cut # "no"
    BY <2>1, <1>1 DEF Busy, CutOff
  <2>2. CASE CullUnload
    <3>1. PICK i \in DOMAIN tiles : Condemn(i)
      BY <2>2 DEF CullUnload, Leaving
    <3> DEFINE u == tileAt[tiles[i]]
    <3>2. u \in Tiles /\ tile[u] \in TileType
      BY ListedTile
    <3>3. cull'.t = u /\ tile' = [tile EXCEPT ![u].cut = OnItsWay(u)]
      BY <3>1 DEF Condemn, Doing
    <3>4. OnItsWay(u) # "no"
      BY OnItsWayType DEF Stages
    <3> HIDE DEF u
    <3> QED BY <3>2, <3>3, <3>4 DEF TypeTile, TileType
  <2>3. CASE AskUnload
    <3>1. cull'.t = cull.t /\ cull.at = "ask"
      BY <2>3 DEF AskUnload, Doing
    <3> QED BY <3>1, <2>1
  <2>4. CASE UNCHANGED cull
    BY <2>4, <2>1, <1>6
  <2> QED BY <1>6, <2>2, <2>3, <2>4, CullSteps
<1> QED BY <1>2, <1>3, <1>4, <1>5, <1>6 DEF CutOff

-----------------------------------------------------------------------------
LEMMA InitHolds == Init => IInv
<1> SUFFICES ASSUME Init PROVE IInv
  OBVIOUS
<1>1. TypeMain /\ TypeMap /\ TypeRefs /\ TypeTasks /\ TypeInits /\ TypeGc
  BY DEF Init, TypeMain, TypeMap, TypeRefs, TypeTasks, TypeInits, TypeGc
<1>2. TypeTile
  BY DEF Init, TypeTile, TileType, Unborn, Flags, Stages
<1>3. TypeDrawn
  BY DEF Init, TypeDrawn
<1>4. TypeCull /\ TypeWorker
  BY DEF Init, TypeCull, TypeWorker, DoingType, Doing, Idle, CullAts, WorkerAts
<1>5. Busy
  BY DEF Init, Busy, Idle, Doing
<1>6. ArrayListed
  <2>1. DOMAIN tiles = {} /\ \A p \in Places : tileAt[p] = None
    BY DEF Init
  <2> QED BY <2>1 DEF ArrayListed, Range
<1>7. CutOff
  <2>1. \A t \in Tiles : tile[t].cut = "no"
    BY DEF Init, Unborn
  <2>2. DOMAIN unloads = {} /\ \A s \in Slots : DOMAIN gc[s] = {}
    BY DEF Init
  <2>3. \A w \in Workers : worker[w].at # "unload"
    BY DEF Init, Idle, Doing
  <2>4. cull.at = "idle"
    BY DEF Init, Idle, Doing
  <2> QED BY <2>1, <2>2, <2>3, <2>4 DEF CutOff
<1> QED BY <1>1, <1>2, <1>3, <1>4, <1>5, <1>6, <1>7 DEF IInv, Types

LEMMA IInvKept == IInv /\ [Next]_vars => IInv'
<1> SUFFICES ASSUME IInv, [Next]_vars PROVE IInv'
  OBVIOUS
<1> USE DEF IInv, Types
<1>1. TypeMain' /\ TypeMap' /\ TypeTile' /\ TypeRefs' /\ TypeDrawn'
  BY MainKept, MapKept, TileKept, RefsKept, DrawnKept
<1>2. TypeTasks' /\ TypeInits' /\ TypeGc' /\ TypeCull' /\ TypeWorker'
  BY TasksKept, InitsKept, GcKept, CullKept, WorkerKept
<1>3. Busy' /\ ArrayListed'
  BY BusyKept, ArrayListedKept
<1>4. CutOff'
  BY CutOffKept
<1> QED BY <1>1, <1>2, <1>3, <1>4

(* Every variable of Tile keeps its type, for any map, camera and workers. *)
THEOREM TypeCorrect == Spec => []TypeOK
<1>1. IInv => TypeOK
  BY TypeParts DEF IInv
<1> QED BY <1>1, InitHolds, IInvKept, PTL DEF Spec

(* The list and the array of the map name the same tiles, and map_cull     *)
(* never meets one whose deletion is under way, however the workers run.   *)
THEOREM MapNamesLiveTiles == Spec => []ArrayListed
<1>1. IInv => ArrayListed
  BY DEF IInv
<1> QED BY <1>1, InitHolds, IInvKept, PTL DEF Spec

-----------------------------------------------------------------------------
(* What the invariants about deletion, faults and references rest on.      *)
HIDE PlacesAreNat
HIDE KeysOfPlaces
HIDE TilesAreNat
HIDE DEF None

(* the places of a worker that loads a tile                                *)
LoadAts == {"file", "nb", "lists", "check", "mcnk", "clear", "write"}
Cut(t, stages) == tile[t].cut \in stages
Early == {"queued", "loading"}

(* The cull thread runs between the beginning of a frame and its end, and  *)
(* does the work of the main thread when the map is deleted; then the map  *)
(* has no tile.                                                            *)
Handshake ==
  /\ cull.at # "idle" => main \in {"render", "wait", "delete"}
  /\ main = "delete" => phase = "loop" /\ cull.at \in {"unload", "ask", "objects"}
  /\ phase # "loop" => main \in {"init", "gc", "look", "async", "end"} /\ tiles = <<>>
  /\ main \in {"look", "async", "end"} => phase # "loop"

(* What was condemned is in one place until it is deleted, and what is     *)
(* being condemned is alive.                                               *)
Asked(t) == cull.at = "ask" /\ cull.t = t
Condemning == cull.at \in {"ask", "objects"}
Expected(t) == IF tile[t].cut # "no" /\ Live(t) /\ ~Asked(t) THEN 1 ELSE 0
DeletedOnce == \A t \in Tiles : Condemnations(t) = Expected(t)
Deletion ==
  /\ DeletedOnce
  /\ Condemning => Live(cull.t)
  /\ cull.at = "objects" => \E i \in DOMAIN gc[CullSlot] : gc[CullSlot][i] = cull.t
  /\ \A t \in Tiles : tile[t].mem = "freed" => tile[t].cut # "no"

(* One load of a tile is queued or under way, and none once it was over.   *)
LoadedOnce ==
  /\ \A i, j \in DOMAIN loads : loads[i] = loads[j] => i = j
  /\ \A i \in DOMAIN loads, w \in Workers : worker[w].t # loads[i]
  /\ \A v, w \in Workers : worker[v].at \in LoadAts /\ worker[w].at \in LoadAts
                          /\ worker[v].t = worker[w].t => v = w
  /\ \A i \in DOMAIN loads : Live(loads[i]) /\ Cut(loads[i], {"no", "queued", "loading"})
  /\ \A w \in Workers : worker[w].at \in LoadAts =>
       tile[worker[w].t].mem # "unborn" /\ Cut(worker[w].t, {"no", "queued", "loading"})
  /\ \A w \in Workers : worker[w].at = "idle" => worker[w].t = None

(* What a tile has of its objects follows where its load is, and they are  *)
(* given back when it is condemned after that.                             *)
Stored(t) == tile[t].nb \/ tile[t].lists
ListsStored ==
  /\ \A t \in Tiles : tile[t].mem = "unborn" => ~Stored(t) /\ t \notin Range(inits)
  /\ \A i \in DOMAIN loads : ~Stored(loads[i])
  /\ \A w \in Workers : worker[w].at \in {"file", "nb"} => ~Stored(worker[w].t)
  /\ \A w \in Workers : worker[w].at = "lists" => ~tile[worker[w].t].lists
  /\ faults = {} =>
       \A w \in Workers : worker[w].at = "lists" /\ Live(worker[w].t) => tile[worker[w].t].nb
  /\ \A t \in Tiles : tile[t].nb /\ ~tile[t].lists =>
       \E w \in Workers : worker[w].at = "lists" /\ worker[w].t = t
  /\ \A t \in Tiles : Cut(t, {"waiting", "over"}) /\ ~(Condemning /\ cull.t = t) => ~Listed(t)

(* What waits for the main thread was loaded, by all the threads know.     *)
InitsLoaded ==
  \A t \in Tiles : t \in Range(inits) /\ ~Cut(t, Early) =>
    /\ tile[t].cut # "over"
    /\ tile[t].mem = "live" => "loaded" \in tile[t].flags
    /\ \A w \in Workers : worker[w].t = t /\ worker[w].at = "write" => "loaded" \in worker[w].saw
    /\ Asked(t) => "loaded" \in cull.saw

(* A tile that was not condemned is on the map, and what is drawn lives.   *)
MapListed ==
  \A t \in Tiles : Live(t) =>
    tile[t].place \in Places /\ (tile[t].cut = "no" => tileAt[tile[t].place] = t)
DrawnLive ==
  /\ main # "delete" /\ phase = "loop" => \A t \in drawn[2] : Live(t) /\ tile[t].cut = "no"
  /\ cull.at # "idle" /\ main # "delete" => drawn[2] = {}
  /\ main = "render" => \A t \in drawn[1] :
       Live(t) /\ (tile[t].cut = "no" \/ (\E i \in DOMAIN gc[CullSlot] : gc[CullSlot][i] = t) \/ Asked(t))

-----------------------------------------------------------------------------
(* What each step makes of a tile and of a worker.                         *)

LEMMA Born ==
  ASSUME TypeTile, NEW t \in Tiles, NEW p, LoadTile(p, t)
  PROVE  /\ \A u \in Tiles : u # t => tile'[u] = tile[u]
         /\ tile'[t].mem = "live" /\ tile'[t].place = p /\ tile'[t].flags = {"loading"}
         /\ tile'[t].nb = FALSE /\ tile'[t].lists = FALSE /\ tile'[t].cut = "no"
  BY DEF LoadTile, TypeTile, Unborn

LEMMA Loading ==
  ASSUME CullLoad
  PROVE  /\ UNCHANGED <<main, phase, camera, last, moves, refs, drawn, unloads, inits, ready, gc,
                        worker, faults, hidden>>
         /\ cull'.at # "idle" /\ cull.at = "load" /\ cull'.at \in {"unload", "load"}
         /\ \/ UNCHANGED <<tiles, tileAt, tile, loads>>
            \/ \E p \in Places, t \in Tiles :
                 tileAt[p] = None /\ tile[t].mem = "unborn" /\ LoadTile(p, t)
<1>1. cull'.at # "idle" /\ cull.at = "load" /\ cull'.at \in {"unload", "load"}
  BY DEF CullLoad, Doing
<1> QED BY <1>1 DEF CullLoad, Missing, Fresh, Near

LEMMA Condemned ==
  ASSUME TypeMap, TypeTile, ArrayListed, CullUnload
  PROVE  \E i \in DOMAIN tiles, p \in Places, t \in Tiles :
           /\ p = tiles[i] /\ tileAt[p] = t
           /\ tiles' = RemoveAt(tiles, i) /\ tileAt' = [tileAt EXCEPT ![p] = None]
           /\ tile[t].mem = "live" /\ tile[t].cut = "no" /\ tile[t].place = p
           /\ tile'[t].mem = "live" /\ tile'[t].place = p /\ tile'[t].cut = OnItsWay(t)
           /\ tile'[t].flags = tile[t].flags
           /\ tile'[t].nb = tile[t].nb /\ tile'[t].lists = tile[t].lists
           /\ \A u \in Tiles : u # t => tile'[u] = tile[u]
           /\ cull.at = "unload" /\ cull'.at = "ask" /\ cull'.t = t /\ cull'.saw = tile[t].flags
           /\ UNCHANGED <<main, phase, refs, drawn, loads, unloads, inits, gc, worker, faults>>
<1>1. PICK i \in DOMAIN tiles : Condemn(i)
  BY DEF CullUnload, Leaving
<1>2. PICK p \in Places : p = tiles[i] /\ tileAt[p] # None
  BY ListedPlace
<1>3. PICK t \in Tiles : tileAt[p] = t
  BY <1>2 DEF TypeMap
<1>4. tile[t].mem = "live" /\ tile[t].cut = "no" /\ tile[t].place = p /\ tile[t] \in TileType
  BY <1>2, <1>3 DEF ArrayListed, TypeTile
<1>5. /\ tiles' = RemoveAt(tiles, i) /\ tileAt' = [tileAt EXCEPT ![p] = None]
      /\ tile' = [tile EXCEPT ![t].cut = OnItsWay(t)]
      /\ cull' = Doing("ask", t, tile[t].flags)
  BY <1>1, <1>2, <1>3 DEF Condemn
<1>6. /\ tile'[t].mem = "live" /\ tile'[t].place = p /\ tile'[t].cut = OnItsWay(t)
      /\ tile'[t].flags = tile[t].flags
      /\ tile'[t].nb = tile[t].nb /\ tile'[t].lists = tile[t].lists
      /\ \A u \in Tiles : u # t => tile'[u] = tile[u]
  BY <1>4, <1>5 DEF TypeTile, TileType
<1>7. cull'.at = "ask" /\ cull'.t = t /\ cull'.saw = tile[t].flags
  BY <1>5 DEF Doing
<1>8. cull.at = "unload"
      /\ UNCHANGED <<main, phase, refs, drawn, loads, unloads, inits, gc, worker, faults>>
  BY DEF CullUnload, loaderVars
<1> QED BY <1>2, <1>3, <1>4, <1>5, <1>6, <1>7, <1>8

LEMMA Deleted ==
  ASSUME TypeTile, TypeWorker, Busy, NEW w \in Workers, Delete(w)
  PROVE  \E t \in Tiles :
           /\ t = worker[w].t /\ worker[w].at = "unload"
           /\ \A u \in Tiles : u # t => tile'[u] = tile[u]
           /\ \/ ~Live(t) /\ UNCHANGED <<tile, worker>> /\ Fault("unload", t)
              \/ /\ Live(t) /\ worker' = [worker EXCEPT ![w] = Idle] /\ UNCHANGED faults
                 /\ tile'[t].mem = "freed" /\ tile'[t].cut = tile[t].cut
                 /\ tile'[t].place = tile[t].place
                 /\ tile'[t].nb = FALSE /\ tile'[t].lists = FALSE /\ tile'[t].flags = {}
           /\ UNCHANGED <<main, phase, cull, tiles, tileAt, drawn, refs, loads, unloads, inits, gc>>
<1>1. PICK t \in Tiles : t = worker[w].t
  BY DEF Delete, Busy
<1>2. worker[w].at = "unload"
      /\ UNCHANGED <<main, phase, cull, tiles, tileAt, drawn, refs, loads, unloads, inits, gc>>
  BY DEF Delete, mapVars, loaderVars
<1>3. CASE ~Live(t)
  BY <1>1, <1>2, <1>3 DEF Delete, Strays
<1>4. CASE Live(t)
  <2>1. /\ tile' = [tile EXCEPT ![t] = [Unborn EXCEPT !.mem = "freed", !.place = tile[t].place,
                                                      !.cut = tile[t].cut]]
        /\ worker' = [worker EXCEPT ![w] = Idle] /\ UNCHANGED faults
    BY <1>1, <1>4 DEF Delete
  <2>2. /\ \A u \in Tiles : u # t => tile'[u] = tile[u]
        /\ tile'[t].mem = "freed" /\ tile'[t].cut = tile[t].cut /\ tile'[t].place = tile[t].place
        /\ tile'[t].nb = FALSE /\ tile'[t].lists = FALSE /\ tile'[t].flags = {}
    BY <2>1 DEF TypeTile, Unborn
  <2> QED BY <1>1, <1>2, <1>4, <2>1, <2>2
<1> QED BY <1>3, <1>4

WorkerStep(w) ==
  \/ FindTask(w) /\ TakeLoad(w)
  \/ FindTask(w) /\ TakeUnload(w)
  \/ ReadFile(w) \/ StoreNb(w) \/ StoreLists(w) \/ CheckFlags(w) \/ MakeTerrain(w)
  \/ ReadFlags(w) \/ WriteFlags(w) \/ Delete(w)

(* where a load goes                                                       *)
Onward == {<<"file", "clear">>, <<"file", "nb">>, <<"nb", "lists">>, <<"lists", "check">>,
           <<"check", "mcnk">>, <<"check", "clear">>, <<"mcnk", "clear">>, <<"clear", "write">>}

LEMMA Moves ==
  ASSUME TypeTile, TypeWorker, TypeTasks, Busy, NEW w \in Workers, WorkerStep(w)
  PROVE  /\ \A v \in Workers : v # w => worker'[v] = worker[v]
         /\ \/ UNCHANGED worker
            \/ /\ TakeLoad(w) /\ FindTask(w) /\ worker[w].at = "idle"
               /\ worker'[w].at = "file" /\ worker'[w].t = Head(loads)
            \/ /\ TakeUnload(w) /\ FindTask(w) /\ worker[w].at = "idle"
               /\ worker'[w].at = "unload" /\ worker'[w].t = Head(unloads)
            \/ /\ worker[w].at \in {"file", "write", "unload"} /\ (worker[w].at = "unload" => Delete(w))
               /\ worker'[w].at = "idle" /\ worker'[w].t = None
            \/ worker'[w].t = worker[w].t /\ <<worker[w].at, worker'[w].at>> \in Onward
<1> USE DEF TypeWorker, WorkerStep
<1>0. worker[w] \in DoingType(WorkerAts)
  OBVIOUS
<1>1. CASE FindTask(w) /\ TakeLoad(w)
  BY <1>1 DEF FindTask, TakeLoad, Doing
<1>2. CASE FindTask(w) /\ TakeUnload(w)
  BY <1>2 DEF FindTask, TakeUnload, Doing
<1>3. CASE ReadFlags(w)
  <2>1. worker[w].at = "clear" /\ (UNCHANGED worker \/
           worker' = [worker EXCEPT ![w] = Doing("write", worker[w].t, tile[worker[w].t].flags)])
    BY <1>3 DEF ReadFlags, Strays
  <2> QED BY <2>1 DEF Doing, Onward
<1>4. CASE WriteFlags(w) \/ Delete(w)
  <2>1. worker[w].at \in {"write", "unload"} /\ (worker[w].at = "unload" => Delete(w))
        /\ (UNCHANGED worker \/ worker' = [worker EXCEPT ![w] = Idle])
    BY <1>4 DEF WriteFlags, Delete, Strays
  <2> QED BY <2>1 DEF Doing, Idle
<1>5. ASSUME NEW a, NEW b, <<a, b>> \in Onward, worker[w].at = a, worker' = [worker EXCEPT ![w].at = b]
      PROVE  /\ \A v \in Workers : v # w => worker'[v] = worker[v]
             /\ worker'[w].t = worker[w].t /\ <<worker[w].at, worker'[w].at>> \in Onward
  <2>1. worker'[w] = [worker[w] EXCEPT !.at = b] /\ \A v \in Workers : v # w => worker'[v] = worker[v]
    BY <1>5
  <2>2. worker'[w].t = worker[w].t /\ worker'[w].at = b
    BY <2>1, <1>0 DEF DoingType
  <2> QED BY <2>1, <2>2, <1>5
<1>6. CASE ReadFile(w)
  <2>1. worker[w].at = "file" /\ \/ UNCHANGED worker
                                 \/ worker' = [worker EXCEPT ![w].at = "clear"]
                                 \/ worker' = [worker EXCEPT ![w].at = "nb"]
                                 \/ worker' = [worker EXCEPT ![w] = Idle]
    BY <1>6 DEF ReadFile, Strays, Goes
  <2>2. <<"file", "clear">> \in Onward /\ <<"file", "nb">> \in Onward
    BY DEF Onward
  <2>3. CASE worker' = [worker EXCEPT ![w] = Idle]
    BY <2>1, <2>3 DEF Idle, Doing
  <2> QED BY <2>1, <2>2, <2>3, <1>5
<1>7. CASE StoreNb(w)
  <2>1. worker[w].at = "nb" /\ (UNCHANGED worker \/ worker' = [worker EXCEPT ![w].at = "lists"])
    BY <1>7 DEF StoreNb, Strays, Goes
  <2>2. <<"nb", "lists">> \in Onward
    BY DEF Onward
  <2> QED BY <2>1, <2>2, <1>5
<1>8. CASE StoreLists(w)
  <2>1. worker[w].at = "lists" /\ (UNCHANGED worker \/ worker' = [worker EXCEPT ![w].at = "check"])
    BY <1>8 DEF StoreLists, Strays, Goes
  <2>2. <<"lists", "check">> \in Onward
    BY DEF Onward
  <2> QED BY <2>1, <2>2, <1>5
<1>9. CASE CheckFlags(w)
  <2>1. worker[w].at = "check" /\ \/ UNCHANGED worker
                                  \/ worker' = [worker EXCEPT ![w].at = "clear"]
                                  \/ worker' = [worker EXCEPT ![w].at = "mcnk"]
    BY <1>9 DEF CheckFlags, Strays, Goes
  <2>2. <<"check", "clear">> \in Onward /\ <<"check", "mcnk">> \in Onward
    BY DEF Onward
  <2> QED BY <2>1, <2>2, <1>5
<1>10. CASE MakeTerrain(w)
  <2>1. worker[w].at = "mcnk" /\ (UNCHANGED worker \/ worker' = [worker EXCEPT ![w].at = "clear"])
    BY <1>10 DEF MakeTerrain, Strays, Goes
  <2>2. <<"mcnk", "clear">> \in Onward
    BY DEF Onward
  <2> QED BY <2>1, <2>2, <1>5
<1> QED BY <1>1, <1>2, <1>3, <1>4, <1>6, <1>7, <1>8, <1>9, <1>10

-----------------------------------------------------------------------------
(* The handshake.                                                          *)

LEMMA HandshakeKept ==
  ASSUME Types, Handshake, [Next]_vars
  PROVE  Handshake'
<1> USE DEF Handshake, Types, TypeMain, TypeCull, DoingType, CullAts
<1>1. CASE CullStart
  BY <1>1 DEF CullStart, Doing
<1>2. CASE CullLoad
  BY <1>2, Loading
<1>3. CASE CullUnload
  <2>1. PICK i \in DOMAIN tiles : Condemn(i)
    BY <1>3 DEF CullUnload, Leaving
  <2>2. cull'.at = "ask" /\ cull.at = "unload" /\ UNCHANGED <<main, phase>>
    BY <1>3, <2>1 DEF CullUnload, Condemn, Doing
  <2>3. phase = "loop"
    BY <2>2
  <2> QED BY <2>2, <2>3
<1>4. CASE CullUnloaded
  <2>1. cull.at = "unload" /\ tiles' = tiles /\ cull'.at \in {"idle", "draw"} /\ Leaving = {}
    BY <1>4 DEF CullUnloaded, mapVars, Doing, Idle
  <2>2. CASE main = "delete"
    <3>1. DOMAIN tiles = {}
      BY <2>1, <2>2 DEF Leaving
    <3>2. tiles = <<>>
      BY <3>1 DEF TypeMap
    <3>3. cull'.at = "idle" /\ main' = "look" /\ phase' = "drain"
      BY <1>4, <2>2 DEF CullUnloaded, Idle, Doing
    <3> QED BY <2>1, <3>2, <3>3
  <2>3. CASE main # "delete"
    BY <1>4, <2>1, <2>3 DEF CullUnloaded, Doing
  <2> QED BY <2>2, <2>3
<1>5. CASE AskUnload
  BY <1>5 DEF AskUnload, Doing, mapVars
<1>6. CASE AskObjects
  BY <1>6 DEF AskObjects, Doing, mapVars
<1>7. CASE CullDraw
  BY <1>7 DEF CullDraw, Doing, Idle
<1>8. CASE NewFrame
  BY <1>8 DEF NewFrame, Doing
<1>9. CASE Render \/ WaitCull \/ InitTile \/ InitOver \/ DoGc \/ Look \/ LookAsync
  BY <1>9 DEF Render, WaitCull, InitTile, InitOver, DoGc, Look, LookAsync, mapVars
<1>10. CASE Quit
  BY <1>10 DEF Quit, Doing, mapVars
<1>11. CASE UNCHANGED vars
  BY <1>11 DEF vars
<1>12. ASSUME NEW w \in Workers, WorkerStep(w) PROVE UNCHANGED <<main, phase, cull, tiles>>
  BY <1>12 DEF WorkerStep, FindTask, ReadFile, StoreNb, StoreLists, CheckFlags, MakeTerrain,
               ReadFlags, WriteFlags, Delete, mapVars
<1> QED BY <1>1, <1>2, <1>3, <1>4, <1>5, <1>6, <1>7, <1>8, <1>9, <1>10, <1>11, <1>12, NextCases
        DEF WorkerStep

-----------------------------------------------------------------------------
(* Where a tile waits for its deletion.                                    *)

Unloading(t) == {w \in Workers : worker[w].at = "unload" /\ worker[w].t = t}

LEMMA Places3 ==
  ASSUME TypeTasks, TypeGc, NEW t
  PROVE  /\ Times(t, gc[0]) \in Nat /\ Times(t, gc[1]) \in Nat /\ Times(t, gc[2]) \in Nat
         /\ Times(t, unloads) \in Nat
         /\ Cardinality(Unloading(t)) \in Nat
         /\ Condemnations(t) = Times(t, gc[0]) + Times(t, gc[1]) + Times(t, gc[2])
                               + Times(t, unloads) + Cardinality(Unloading(t))
<1>1. ASSUME NEW s \in Seq(Tiles) PROVE Times(t, s) \in Nat
  BY PlacesFinite
<1>2. gc[0] \in Seq(Tiles) /\ gc[1] \in Seq(Tiles) /\ gc[2] \in Seq(Tiles) /\ unloads \in Seq(Tiles)
  BY DEF TypeGc, TypeTasks, Slots
<1>3. IsFiniteSet(Unloading(t))
  BY WorkersAndTilesAreFinite, FS_Subset DEF Unloading
<1> QED BY <1>1, <1>2, <1>3, CardinalityNat DEF Condemnations, Unloading

LEMMA CondemnationsNat == TypeTasks /\ TypeGc => \A t \in Tiles : Condemnations(t) \in Nat
<1> SUFFICES ASSUME TypeTasks, TypeGc, NEW t \in Tiles PROVE Condemnations(t) \in Nat
  OBVIOUS
<1> QED BY Places3

LEMMA CondemnationsNext ==
  (TypeTasks /\ TypeGc)' => (\A t \in Tiles : Condemnations(t) \in Nat)'
BY CondemnationsNat, PTL

(* a tile that a worker deletes is nowhere else, and nobody asks for it    *)
LEMMA WorkerUnloads ==
  ASSUME Types, DeletedOnce, NEW w \in Workers, worker[w].at = "unload", NEW t \in Tiles, worker[w].t = t
  PROVE  /\ Live(t) /\ ~Asked(t) /\ tile[t].cut # "no"
         /\ \A i \in DOMAIN gc[CullSlot] : gc[CullSlot][i] # t
         /\ \A v \in Workers : v # w /\ worker[v].at = "unload" => worker[v].t # t
<1> USE DEF Types
<1>1. Condemnations(t) \in {0, 1} /\ (Condemnations(t) = 1 => Live(t) /\ ~Asked(t) /\ tile[t].cut # "no")
  BY DEF DeletedOnce, Expected
<1>2. w \in Unloading(t) /\ IsFiniteSet(Unloading(t))
  BY WorkersAndTilesAreFinite, FS_Subset DEF Unloading
<1>3. Cardinality(Unloading(t)) >= 1
  BY <1>2, CardinalityNat
<1>4. Condemnations(t) = 1 /\ Cardinality(Unloading(t)) = 1 /\ Times(t, gc[1]) = 0
  BY <1>1, <1>3, Places3
<1>5. ASSUME NEW i \in DOMAIN gc[CullSlot], gc[CullSlot][i] = t PROVE FALSE
  <2>1. gc[CullSlot] \in Seq(Tiles)
    BY DEF TypeGc, CullSlot, Slots
  <2>2. Times(t, gc[CullSlot]) > 0
    BY <1>5, <2>1, PlacesFinite
  <2> QED BY <2>2, <1>4 DEF CullSlot
<1>6. ASSUME NEW v \in Workers, v # w, worker[v].at = "unload", worker[v].t = t PROVE FALSE
  <2>1. v \in Unloading(t)
    BY <1>6 DEF Unloading
  <2>2. Cardinality(Unloading(t) \ {w}) = 0 /\ IsFiniteSet(Unloading(t) \ {w})
    BY <1>2, <1>4, FS_RemoveElement
  <2>3. Unloading(t) \ {w} = {}
    BY <2>2, CardinalityNat
  <2> QED BY <2>1, <2>3, <1>6
<1> QED BY <1>1, <1>4, <1>5, <1>6

LEMMA UnloadingSame ==
  ASSUME NEW t,
         \A v \in Workers : (worker'[v].at = "unload" /\ worker'[v].t = t)
                            <=> (worker[v].at = "unload" /\ worker[v].t = t)
  PROVE  Unloading(t)' = Unloading(t)
  BY DEF Unloading

(* a step that leaves the lists of the condemned alone, and the workers    *)
(* that delete                                                             *)
LEMMA CondemnationsSame ==
  ASSUME TypeTasks, TypeGc, UNCHANGED <<gc, unloads>>, NEW t, Unloading(t)' = Unloading(t)
  PROVE  Condemnations(t)' = Condemnations(t)
<1>1. Condemnations(t) = Times(t, gc[0]) + Times(t, gc[1]) + Times(t, gc[2])
                         + Times(t, unloads) + Cardinality(Unloading(t))
  BY Places3
<1>2. Condemnations(t)' = (Times(t, gc[0]) + Times(t, gc[1]) + Times(t, gc[2])
                          + Times(t, unloads) + Cardinality(Unloading(t)))'
  BY DEF Condemnations, Unloading
<1>3. (Times(t, gc[0]))' = Times(t, gc[0]) /\ (Times(t, gc[1]))' = Times(t, gc[1])
      /\ (Times(t, gc[2]))' = Times(t, gc[2]) /\ (Times(t, unloads))' = Times(t, unloads)
  OBVIOUS
<1> QED BY <1>1, <1>2, <1>3

(* who changes what is said of deletion                                    *)
LEMMA DeletionSteps ==
  ASSUME Types, Busy, Handshake, [Next]_vars
  PROVE  \/ CullLoad \/ CullUnload \/ AskUnload \/ AskObjects \/ NewFrame \/ DoGc
         \/ \E w \in Workers : (FindTask(w) /\ TakeUnload(w)) \/ Delete(w)
         \/ /\ SameLife /\ UNCHANGED <<gc, unloads>>
            /\ \A v \in Workers : (worker[v].at # "unload" /\ worker'[v].at # "unload")
                                  \/ worker'[v] = worker[v]
            /\ cull' = cull \/ (~Condemning /\ ~Condemning')
<1> USE DEF Types
<1>1. CASE CullStart \/ CullUnloaded \/ CullDraw \/ Quit
  <2>1. UNCHANGED <<gc, unloads, worker, tile>>
    BY <1>1 DEF CullStart, CullUnloaded, CullDraw, Quit, loaderVars
  <2>2. cull.at \notin {"ask", "objects"}
    BY <1>1 DEF CullStart, CullUnloaded, CullDraw, Quit, Handshake
  <2>3. cull'.at \notin {"ask", "objects"}
    BY <1>1 DEF CullStart, CullUnloaded, CullDraw, Quit, Doing, Idle
  <2> QED BY <2>1, <2>2, <2>3 DEF SameLife, Condemning
<1>2. CASE Render \/ WaitCull \/ InitTile \/ InitOver \/ Look \/ LookAsync \/ UNCHANGED vars
  <2>1. UNCHANGED <<gc, unloads, worker, cull>>
    BY <1>2 DEF Render, WaitCull, InitTile, InitOver, Look, LookAsync, vars, loaderVars
  <2>2. (~CullLoad /\ ~CullUnload) \/ UNCHANGED vars
    BY <1>2, <2>1 DEF Handshake, CullLoad, CullUnload, Render, WaitCull, InitTile, InitOver, Look, LookAsync
  <2>3. CullLoad \/ CullUnload \/ (\E w \in Workers : Delete(w)) \/ SameLife
    BY LifeSteps
  <2> QED BY <2>1, <2>3
<1>3. ASSUME NEW w \in Workers, WorkerStep(w)
      PROVE  \/ FindTask(w) /\ TakeUnload(w)
             \/ Delete(w)
             \/ /\ UNCHANGED <<gc, unloads, cull>>
                /\ \A v \in Workers : (worker[v].at # "unload" /\ worker'[v].at # "unload")
                                      \/ worker'[v] = worker[v]
  <2>1. UNCHANGED <<gc, cull>>
    BY <1>3 DEF WorkerStep, FindTask, ReadFile, StoreNb, StoreLists, CheckFlags, MakeTerrain,
               ReadFlags, WriteFlags, Delete, loaderVars
  <2>2. UNCHANGED unloads \/ (FindTask(w) /\ TakeUnload(w))
    BY <1>3 DEF WorkerStep, FindTask, TakeLoad, ReadFile, StoreNb, StoreLists, CheckFlags, MakeTerrain,
               ReadFlags, WriteFlags, Delete, loaderVars
  <2>3. \/ FindTask(w) /\ TakeUnload(w)
        \/ Delete(w)
        \/ worker' = worker
        \/ worker[w].at # "unload" /\ worker'[w].at # "unload"
    BY <1>3, Moves DEF Onward
  <2>4. \A v \in Workers : v # w => worker'[v] = worker[v]
    BY <1>3, Moves
  <2> QED BY <2>1, <2>2, <2>3, <2>4
<1>4. ASSUME NEW w \in Workers, WorkerStep(w)
      PROVE  SameLife \/ (\E v \in Workers : Delete(v)) \/ CullLoad \/ CullUnload
  BY LifeSteps
<1> QED BY <1>1, <1>2, <1>3, <1>4, NextCases DEF WorkerStep

(* the tile that begins to wait, the ring that turns, the tiles a worker   *)
(* takes                                                                   *)
LEMMA AskUnloadCounts ==
  ASSUME Types, Busy, AskUnload, NEW t \in Tiles
  PROVE  Condemnations(t)' = Condemnations(t) + (IF t = cull.t THEN 1 ELSE 0)
<1> USE DEF Types
<1>1. gc' = [gc EXCEPT ![CullSlot] = Append(gc[CullSlot], cull.t)] /\ cull.t \in Tiles
      /\ UNCHANGED <<unloads, worker>>
  BY DEF AskUnload, Busy
<1>2. gc'[0] = gc[0] /\ gc'[2] = gc[2] /\ gc'[1] = Append(gc[1], cull.t) /\ gc[1] \in Seq(Tiles)
  BY <1>1 DEF TypeGc, CullSlot, Slots
<1>3. PICK u \in Tiles : u = cull.t
  BY <1>1
<1>4. Times(t, Append(gc[1], u)) = Times(t, gc[1]) + (IF t = u THEN 1 ELSE 0)
  BY <1>2, TimesAppend
<1>5. Condemnations(t)' = Times(t, gc'[0]) + Times(t, gc'[1]) + Times(t, gc'[2])
                          + Times(t, unloads') + Cardinality(Unloading(t)')
  BY DEF Condemnations, Unloading
<1>6. Unloading(t)' = Unloading(t)
  BY <1>1 DEF Unloading
<1> QED BY <1>1, <1>2, <1>3, <1>4, <1>5, <1>6, Places3, SMTT(30)

LEMMA NewFrameCounts ==
  ASSUME Types, NewFrame, NEW t \in Tiles
  PROVE  Condemnations(t)' = Condemnations(t)
<1> USE DEF Types
<1>1. gc' = Turned(gc) /\ UNCHANGED <<unloads, worker>>
  BY DEF NewFrame
<1>2. gc'[0] = gc[1] /\ gc'[1] = gc[2] /\ gc'[2] = gc[0]
  BY <1>1 DEF Turned, Slots
<1>3. Condemnations(t)' = Times(t, gc'[0]) + Times(t, gc'[1]) + Times(t, gc'[2])
                          + Times(t, unloads') + Cardinality(Unloading(t)')
  BY DEF Condemnations, Unloading
<1>4. Unloading(t)' = Unloading(t)
  BY <1>1 DEF Unloading
<1> QED BY <1>1, <1>2, <1>3, <1>4, Places3

LEMMA DoGcCounts ==
  ASSUME Types, DoGc, NEW t \in Tiles
  PROVE  Condemnations(t)' = Condemnations(t)
<1> USE DEF Types
<1>1. unloads' = unloads \o gc[0] /\ UNCHANGED worker /\ gc' \in {Drained, Turned(Drained)}
  BY DEF DoGc, DrawSlot
<1>2. Drained[0] = <<>> /\ Drained[1] = gc[1] /\ Drained[2] = gc[2]
  BY DEF Drained, DrawSlot, TypeGc, Slots
<1>3. \/ gc'[0] = <<>> /\ gc'[1] = gc[1] /\ gc'[2] = gc[2]
      \/ gc'[0] = gc[1] /\ gc'[1] = gc[2] /\ gc'[2] = <<>>
  BY <1>1, <1>2 DEF Turned, Slots
<1>4. unloads \in Seq(Tiles) /\ gc[0] \in Seq(Tiles)
  BY DEF TypeTasks, TypeGc, Slots
<1>5. Times(t, unloads \o gc[0]) = Times(t, unloads) + Times(t, gc[0])
  BY <1>4, TimesConcat
<1>6. Condemnations(t)' = Times(t, gc'[0]) + Times(t, gc'[1]) + Times(t, gc'[2])
                          + Times(t, unloads') + Cardinality(Unloading(t)')
  BY DEF Condemnations, Unloading
<1>7. Unloading(t)' = Unloading(t)
  BY <1>1 DEF Unloading
<1>8. Times(t, <<>>) = 0
  BY TimesEmpty
<1> QED BY <1>1, <1>3, <1>5, <1>6, <1>7, <1>8, Places3

LEMMA TakeUnloadCounts ==
  ASSUME Types, Busy, NEW w \in Workers, FindTask(w), TakeUnload(w), NEW t \in Tiles
  PROVE  Condemnations(t)' = Condemnations(t)
<1> USE DEF Types
<1>1. unloads # <<>> /\ unloads' = Tail(unloads) /\ UNCHANGED gc /\ worker[w].at = "idle"
      /\ worker' = [worker EXCEPT ![w] = Doing("unload", Head(unloads), {})]
  BY DEF FindTask, TakeUnload, loaderVars
<1>2. unloads \in Seq(Tiles)
  BY DEF TypeTasks
<1>3. Times(t, unloads) = Times(t, Tail(unloads)) + (IF t = Head(unloads) THEN 1 ELSE 0)
  BY <1>1, <1>2, TimesTail
<1>4. PICK h \in Tiles : h = Head(unloads)
  BY <1>1, <1>2
<1>5. worker'[w].at = "unload" /\ worker'[w].t = h /\ \A v \in Workers : v # w => worker'[v] = worker[v]
  BY <1>1, <1>4 DEF TypeWorker, Doing
<1>6. PICK B \in SUBSET Workers : B = Unloading(t)'
  BY DEF Unloading
<1>7. /\ \A v \in Workers : v # w => (v \in Unloading(t) <=> v \in B)
      /\ w \notin Unloading(t) /\ (w \in B <=> t = h)
  BY <1>1, <1>5, <1>6 DEF Unloading
<1>8. Cardinality(B) + (IF w \in Unloading(t) THEN 1 ELSE 0)
        = Cardinality(Unloading(t)) + (IF w \in B THEN 1 ELSE 0)
      /\ Cardinality(B) \in Nat
  <2>1. Unloading(t) \in SUBSET Workers
    BY DEF Unloading
  <2>2. IsFiniteSet(Workers)
    BY WorkersAndTilesAreFinite
  <2> QED BY <1>7, <2>1, <2>2, CountChange
<1>9. Cardinality(B) = Cardinality(Unloading(t)) + (IF t = h THEN 1 ELSE 0)
  BY <1>7, <1>8
<1>10. Condemnations(t)' = Times(t, gc'[0]) + Times(t, gc'[1]) + Times(t, gc'[2])
                          + Times(t, unloads') + Cardinality(Unloading(t)')
  BY DEF Condemnations, Unloading
<1>11. PICK r \in Seq(Tiles) : r = Tail(unloads)
  BY <1>1, <1>2
<1>12. Times(t, r) \in Nat
  BY PlacesFinite
<1>13. Times(t, unloads) = Times(t, r) + (IF t = h THEN 1 ELSE 0) /\ unloads' = r
  BY <1>1, <1>3, <1>4, <1>11
<1>14. Condemnations(t)' = Times(t, gc[0]) + Times(t, gc[1]) + Times(t, gc[2])
                          + Times(t, r) + Cardinality(B)
  BY <1>1, <1>6, <1>10, <1>13
<1> QED BY <1>9, <1>12, <1>13, <1>14, Places3

LEMMA DeleteCounts ==
  ASSUME Types, Busy, NEW w \in Workers, Delete(w), NEW t \in Tiles
  PROVE  \/ UNCHANGED <<tile, worker>> /\ Condemnations(t)' = Condemnations(t)
         \/ Condemnations(t) = Condemnations(t)' + (IF t = worker[w].t THEN 1 ELSE 0)
<1> USE DEF Types
<1>1. PICK u \in Tiles :
        /\ u = worker[w].t /\ worker[w].at = "unload"
        /\ UNCHANGED <<tile, worker>> \/ worker' = [worker EXCEPT ![w] = Idle]
        /\ UNCHANGED <<gc, unloads>>
  BY Deleted
<1>2. CASE UNCHANGED <<tile, worker>>
  <2>1. Unloading(t)' = Unloading(t)
    BY <1>2 DEF Unloading
  <2> QED BY <1>1, <1>2, <2>1, CondemnationsSame
<1>3. CASE worker' = [worker EXCEPT ![w] = Idle]
  <2>1. worker'[w].at = "idle" /\ \A v \in Workers : v # w => worker'[v] = worker[v]
    BY <1>3 DEF TypeWorker, Idle, Doing
  <2>2. PICK B \in SUBSET Workers : B = Unloading(t)'
    BY DEF Unloading
  <2>3. /\ \A v \in Workers : v # w => (v \in Unloading(t) <=> v \in B)
        /\ w \notin B /\ (w \in Unloading(t) <=> t = u)
    BY <1>1, <2>1, <2>2 DEF Unloading
  <2>4. Cardinality(B) + (IF w \in Unloading(t) THEN 1 ELSE 0)
          = Cardinality(Unloading(t)) + (IF w \in B THEN 1 ELSE 0)
        /\ Cardinality(B) \in Nat
    <3>1. Unloading(t) \in SUBSET Workers
      BY DEF Unloading
    <3>2. IsFiniteSet(Workers)
      BY WorkersAndTilesAreFinite
    <3> QED BY <2>3, <3>1, <3>2, CountChange
  <2>5. Condemnations(t)' = Times(t, gc'[0]) + Times(t, gc'[1]) + Times(t, gc'[2])
                            + Times(t, unloads') + Cardinality(Unloading(t)')
    BY DEF Condemnations, Unloading
  <2> QED BY <1>1, <2>2, <2>3, <2>4, <2>5, Places3
<1> QED BY <1>1, <1>2, <1>3

LEMMA AskObjectsSame ==
  ASSUME Types, Busy, AskObjects
  PROVE  /\ SameLife /\ UNCHANGED <<main, phase, gc, unloads, loads, inits, worker, drawn, tiles, tileAt>>
         /\ cull.at = "objects" /\ ~Condemning' /\ cull'.at = "unload"
<1>1. cull.t \in Tiles /\ tile' = [tile EXCEPT ![cull.t].nb = FALSE, ![cull.t].lists = FALSE]
  BY DEF AskObjects, Busy
<1>2. SameLife
  BY <1>1, ListsSame DEF Types
<1>3. ~CullLoad /\ ~CullUnload
  BY DEF AskObjects, CullLoad, CullUnload
<1> QED BY <1>2 DEF AskObjects, Condemning, Doing, loaderVars, mapVars

LEMMA AskUnloadSame ==
  ASSUME Types, Busy, AskUnload
  PROVE  /\ SameLife /\ UNCHANGED <<main, phase, unloads, loads, inits, worker, drawn, tiles, tileAt, faults, refs>>
         /\ cull.at = "ask" /\ cull'.at = "objects" /\ cull'.t = cull.t
         /\ gc' = [gc EXCEPT ![CullSlot] = Append(gc[CullSlot], cull.t)] /\ cull.t \in Tiles
         /\ tile' = [tile EXCEPT ![cull.t].flags = cull.saw \ {"loading"}]
<1>1. cull.t \in Tiles /\ tile' = [tile EXCEPT ![cull.t].flags = cull.saw \ {"loading"}]
  BY DEF AskUnload, Busy
<1>2. SameLife
  BY <1>1, FlagsSame DEF Types
<1> QED BY <1>1, <1>2 DEF AskUnload, Doing, mapVars

LEMMA DeletedOnceKept ==
  ASSUME Types, Busy, ArrayListed, CutOff, Handshake, Deletion, [Next]_vars
  PROVE  DeletedOnce'
<1> USE DEF Types
<1> SUFFICES ASSUME NEW t \in Tiles PROVE Condemnations(t)' = Expected(t)'
  BY DEF DeletedOnce
<1>0. Condemnations(t) = Expected(t)
  BY DEF Deletion, DeletedOnce
<1>1. CASE CullLoad
  <2>1. UNCHANGED <<gc, unloads, worker>> /\ ~Condemning /\ ~Condemning'
    BY <1>1, Loading DEF Condemning
  <2>2. Condemnations(t)' = Condemnations(t)
    BY <2>1, CondemnationsSame DEF Unloading
  <2>3. CASE UNCHANGED tile
    BY <1>0, <2>1, <2>2, <2>3 DEF Expected, Live, Asked, Condemning
  <2>4. ASSUME NEW p \in Places, NEW u \in Tiles, tile[u].mem = "unborn", LoadTile(p, u)
        PROVE  Condemnations(t)' = Expected(t)'
    <3>1. CASE t = u
      <4>1. Expected(t) = 0 /\ Expected(t)' = 0
        BY <2>4, <3>1, Born DEF Expected, Live
      <4> QED BY <1>0, <2>2, <4>1
    <3>2. CASE t # u
      <4>1. tile'[t] = tile[t]
        BY <2>4, <3>2, Born
      <4> QED BY <1>0, <2>1, <2>2, <4>1 DEF Expected, Live, Asked, Condemning
    <3> QED BY <3>1, <3>2
  <2> QED BY <1>1, <2>3, <2>4, Loading
<1>2. CASE CullUnload
  <2>1. PICK u \in Tiles :
          /\ tile[u].cut = "no" /\ \A v \in Tiles : v # u => tile'[v] = tile[v]
          /\ cull.at = "unload" /\ cull'.at = "ask" /\ cull'.t = u
          /\ UNCHANGED <<gc, unloads, worker>>
    BY <1>2, Condemned
  <2>2. Condemnations(t)' = Condemnations(t)
    BY <2>1, CondemnationsSame DEF Unloading
  <2>3. CASE t = u
    BY <1>0, <2>1, <2>2, <2>3 DEF Expected, Live, Asked
  <2>4. CASE t # u
    BY <1>0, <2>1, <2>2, <2>4 DEF Expected, Live, Asked
  <2> QED BY <2>3, <2>4
<1>3. CASE AskUnload
  <2>1. Condemnations(t)' = Condemnations(t) + (IF t = cull.t THEN 1 ELSE 0)
    BY <1>3, AskUnloadCounts
  <2>2. cull.at = "ask" /\ cull'.at = "objects" /\ SameLife
    BY <1>3, AskUnloadSame
  <2>3. Live(cull.t) /\ tile[cull.t].cut # "no"
    BY <2>2 DEF Deletion, Condemning, CutOff
  <2> QED BY <1>0, <2>1, <2>2, <2>3 DEF Expected, Live, Asked, SameLife
<1>4. CASE AskObjects
  <2>1. SameLife /\ UNCHANGED <<gc, unloads, worker>> /\ cull.at = "objects" /\ cull'.at = "unload"
    BY <1>4, AskObjectsSame
  <2>2. Condemnations(t)' = Condemnations(t)
    BY <2>1, CondemnationsSame DEF Unloading
  <2> QED BY <1>0, <2>1, <2>2 DEF Expected, Live, Asked, SameLife
<1>5. CASE NewFrame
  <2>1. Condemnations(t)' = Condemnations(t)
    BY <1>5, NewFrameCounts
  <2>2. UNCHANGED tile /\ cull.at = "idle" /\ cull'.at = "start"
    BY <1>5 DEF NewFrame, Doing, Handshake
  <2> QED BY <1>0, <2>1, <2>2 DEF Expected, Live, Asked
<1>6. CASE DoGc
  <2>1. Condemnations(t)' = Condemnations(t)
    BY <1>6, DoGcCounts
  <2>2. UNCHANGED <<tile, cull>>
    BY <1>6 DEF DoGc
  <2> QED BY <1>0, <2>1, <2>2 DEF Expected, Live, Asked
<1>7. ASSUME NEW w \in Workers, FindTask(w), TakeUnload(w) PROVE Condemnations(t)' = Expected(t)'
  <2>1. Condemnations(t)' = Condemnations(t)
    BY <1>7, TakeUnloadCounts
  <2>2. UNCHANGED <<tile, cull>>
    BY <1>7 DEF FindTask, TakeUnload
  <2> QED BY <1>0, <2>1, <2>2 DEF Expected, Live, Asked
<1>8. ASSUME NEW w \in Workers, Delete(w) PROVE Condemnations(t)' = Expected(t)'
  <2>1. PICK u \in Tiles :
          /\ u = worker[w].t /\ worker[w].at = "unload"
          /\ \A v \in Tiles : v # u => tile'[v] = tile[v]
          /\ ~Live(u) \/ tile'[u].mem = "freed"
          /\ UNCHANGED cull
    BY <1>8, Deleted
  <2>2. Live(u) /\ ~Asked(u) /\ tile[u].cut # "no"
    BY <2>1, WorkerUnloads DEF Deletion
  <2>3. tile'[u].mem = "freed"
    BY <2>1, <2>2
  <2>4. Condemnations(t) = Condemnations(t)' + (IF t = u THEN 1 ELSE 0)
    <3>1. ~UNCHANGED tile
      BY <2>2, <2>3 DEF Live
    <3> QED BY <1>8, <2>1, <3>1, DeleteCounts
  <2>5. Condemnations(t)' \in Nat
    <3>1. UNCHANGED <<gc, unloads>> /\ TypeWorker'
      BY <1>8, Deleted, WorkerKept
    <3>2. (TypeTasks /\ TypeGc)'
      BY TasksKept, GcKept
    <3> QED BY <3>2, CondemnationsNext
  <2>6. CASE t = u
    BY <1>0, <2>2, <2>3, <2>4, <2>5, <2>6 DEF Expected, Live
  <2>7. CASE t # u
    BY <1>0, <2>1, <2>4, <2>5, <2>7 DEF Expected, Live, Asked
  <2> QED BY <2>6, <2>7
<1>9. ASSUME SameLife, UNCHANGED <<gc, unloads>>,
             \A v \in Workers : (worker[v].at # "unload" /\ worker'[v].at # "unload")
                                  \/ worker'[v] = worker[v],
             cull' = cull \/ (~Condemning /\ ~Condemning')
      PROVE  Condemnations(t)' = Expected(t)'
  <2>1. Unloading(t)' = Unloading(t)
    BY <1>9, UnloadingSame
  <2>2. Condemnations(t)' = Condemnations(t)
    BY <1>9, <2>1, CondemnationsSame
  <2> QED BY <1>0, <1>9, <2>2 DEF Expected, Live, Asked, SameLife, Condemning
<1> QED BY <1>1, <1>2, <1>3, <1>4, <1>5, <1>6, <1>7, <1>8, <1>9, DeletionSteps

LEMMA WorkerSame ==
  ASSUME Types, Busy, NEW w \in Workers, WorkerStep(w), ~Delete(w), [Next]_vars
  PROVE  SameLife
  BY WorkerLifeSteps DEF Types, WorkerStep

(* what a worker does to the life of a tile                                *)
LEMMA WorkerLife ==
  ASSUME Types, Busy, NEW w \in Workers, WorkerStep(w), [Next]_vars
  PROVE  /\ UNCHANGED <<main, phase, cull, tiles, tileAt, drawn, gc>>
         /\ \A t \in Tiles :
              /\ tile'[t].cut = tile[t].cut /\ tile'[t].place = tile[t].place
              /\ \/ tile'[t].mem = tile[t].mem
                 \/ /\ Delete(w) /\ worker[w].at = "unload" /\ worker[w].t = t
                    /\ tile[t].mem = "live" /\ tile'[t].mem = "freed"
<1> USE DEF Types
<1>1. UNCHANGED <<main, phase, cull, tiles, tileAt, drawn, gc>>
  BY DEF WorkerStep, FindTask, ReadFile, StoreNb, StoreLists, CheckFlags, MakeTerrain,
         ReadFlags, WriteFlags, Delete, mapVars, loaderVars
<1>2. CASE Delete(w)
  <2>1. PICK u \in Tiles :
          /\ u = worker[w].t /\ worker[w].at = "unload"
          /\ \A v \in Tiles : v # u => tile'[v] = tile[v]
          /\ \/ UNCHANGED tile
             \/ /\ tile[u].mem = "live" /\ tile'[u].mem = "freed" /\ tile'[u].cut = tile[u].cut
                /\ tile'[u].place = tile[u].place
    BY <1>2, Deleted DEF Live
  <2> QED BY <1>1, <1>2, <2>1
<1>3. CASE ~Delete(w)
  <2>1. SameLife
    BY <1>3, WorkerSame DEF WorkerStep
  <2> QED BY <1>1, <2>1 DEF SameLife
<1> QED BY <1>2, <1>3

LEMMA DeletionKept ==
  ASSUME Types, Busy, ArrayListed, CutOff, Handshake, Deletion, [Next]_vars
  PROVE  Deletion'
<1> USE DEF Types
<1>1. DeletedOnce'
  BY DeletedOnceKept
<1>2. ASSUME Condemning' PROVE Live(cull.t)'
  <2>1. CASE CullUnload
    BY <2>1, Condemned DEF Live
  <2>2. CASE AskUnload
    BY <2>2, AskUnloadSame DEF Live, SameLife, Deletion, Condemning
  <2>3. CASE cull' = cull
    <3>1. Live(cull.t) /\ cull.t \in Tiles /\ cull.at \in {"ask", "objects"}
      BY <1>2, <2>3 DEF Deletion, Condemning, Busy
    <3>2. CASE CullLoad \/ CullUnload
      BY <3>1, <3>2 DEF CullLoad, CullUnload
    <3>3. CASE SameLife
      BY <3>1, <3>3, <2>3 DEF SameLife, Live
    <3>4. ASSUME NEW w \in Workers, Delete(w) PROVE Live(cull.t)'
      <4>1. PICK u \in Tiles :
              /\ u = worker[w].t /\ worker[w].at = "unload"
              /\ \A v \in Tiles : v # u => tile'[v] = tile[v]
        BY <3>4, Deleted
      <4>2. ~Asked(u) /\ \A i \in DOMAIN gc[CullSlot] : gc[CullSlot][i] # u
        BY <4>1, WorkerUnloads DEF Deletion
      <4>3. u # cull.t
        BY <3>1, <4>2 DEF Asked, Deletion
      <4> QED BY <3>1, <4>1, <4>3, <2>3 DEF Live
    <3> QED BY <3>2, <3>3, <3>4, LifeSteps
  <2> QED BY <1>2, <2>1, <2>2, <2>3, CullSteps DEF Condemning
<1>3. ASSUME cull'.at = "objects" PROVE \E i \in DOMAIN gc'[CullSlot] : gc'[CullSlot][i] = cull'.t
  <2>1. CASE CullUnload
    BY <1>3, <2>1, Condemned
  <2>2. CASE AskUnload
    <3>1. gc'[1] = Append(gc[1], cull.t) /\ cull'.t = cull.t /\ gc[1] \in Seq(Tiles) /\ cull.t \in Tiles
      BY <2>2, AskUnloadSame DEF CullSlot, TypeGc, Slots
    <3>2. Len(gc[1]) + 1 \in DOMAIN gc'[1] /\ gc'[1][Len(gc[1]) + 1] = cull.t
      BY <3>1
    <3> QED BY <3>1, <3>2 DEF CullSlot
  <2>3. CASE cull' = cull
    <3>1. cull.at = "objects" /\ main \in {"render", "wait", "delete"}
      BY <1>3, <2>3 DEF Handshake
    <3>2. ~AskUnload /\ ~DoGc /\ ~NewFrame
      BY <3>1 DEF AskUnload, DoGc, NewFrame
    <3>3. gc' = gc
      BY <3>2, GcSteps
    <3> QED BY <3>1, <3>3, <2>3 DEF Deletion
  <2> QED BY <1>3, <2>1, <2>2, <2>3, CullSteps
<1>4. ASSUME NEW t \in Tiles, tile'[t].mem = "freed" PROVE tile'[t].cut # "no"
  <2>1. CASE tile[t].mem = "freed"
    <3>1. tile[t].cut # "no"
      BY <2>1 DEF Deletion
    <3> QED BY <3>1, StaysCut
  <2>2. CASE CullLoad /\ tile[t].mem # "freed"
    <3>1. CASE UNCHANGED tile
      BY <1>4, <2>2, <3>1
    <3>2. ASSUME NEW p \in Places, NEW u \in Tiles, LoadTile(p, u) PROVE FALSE
      <4>1. tile'[t] = tile[t] \/ tile'[t].mem = "live"
        BY <3>2, Born
      <4> QED BY <4>1, <1>4, <2>2
    <3> QED BY <2>2, <3>1, <3>2, Loading
  <2>3. CASE CullUnload /\ tile[t].mem # "freed"
    <3>1. tile'[t] = tile[t] \/ tile'[t].mem = "live"
      BY <2>3, Condemned
    <3> QED BY <3>1, <1>4, <2>3
  <2>4. CASE SameLife /\ tile[t].mem # "freed"
    BY <1>4, <2>4 DEF SameLife
  <2>5. ASSUME NEW w \in Workers, Delete(w), tile[t].mem # "freed" PROVE tile'[t].cut # "no"
    <3>1. PICK u \in Tiles :
            /\ u = worker[w].t /\ worker[w].at = "unload"
            /\ \A v \in Tiles : v # u => tile'[v] = tile[v]
      BY <2>5, Deleted
    <3>2. t = u
      BY <3>1, <1>4, <2>5
    <3>3. tile[t].cut # "no"
      BY <3>1, <3>2, WorkerUnloads DEF Deletion
    <3> QED BY <3>3, StaysCut
  <2> QED BY <2>1, <2>2, <2>3, <2>4, <2>5, LifeSteps
<1> QED BY <1>1, <1>2, <1>3, <1>4 DEF Deletion

-----------------------------------------------------------------------------
(* The loads.                                                              *)

(* the steps that leave the tiles, the workers and their tasks alone       *)
Quiet == /\ UNCHANGED <<tile, worker, loads, inits, refs, tiles, tileAt>>
         /\ cull' = cull \/ (~Condemning /\ ~Condemning')

LEMMA QuietSteps ==
  ASSUME Handshake, [Next]_vars
  PROVE  \/ CullLoad \/ CullUnload \/ AskUnload \/ AskObjects \/ InitTile
         \/ \E w \in Workers : WorkerStep(w)
         \/ Quiet
<1>1. CASE CullStart \/ CullUnloaded \/ CullDraw \/ NewFrame \/ Quit
  <2>1. UNCHANGED <<tile, worker, loads, inits, refs, tiles, tileAt>>
    BY <1>1 DEF CullStart, CullUnloaded, CullDraw, NewFrame, Quit, loaderVars, mapVars
  <2>2. cull.at \notin {"ask", "objects"}
    BY <1>1 DEF CullStart, CullUnloaded, CullDraw, NewFrame, Quit, Handshake
  <2>3. cull'.at \notin {"ask", "objects"}
    BY <1>1 DEF CullStart, CullUnloaded, CullDraw, NewFrame, Quit, Doing, Idle
  <2> QED BY <2>1, <2>2, <2>3 DEF Quiet, Condemning
<1>2. CASE Render \/ WaitCull \/ InitOver \/ DoGc \/ Look \/ LookAsync \/ UNCHANGED vars
  BY <1>2 DEF Quiet, Render, WaitCull, InitOver, DoGc, Look, LookAsync, vars, loaderVars, mapVars
<1> QED BY <1>1, <1>2, NextCases DEF WorkerStep

LEMMA LoadsSteps ==
  ASSUME NEW w \in Workers, WorkerStep(w)
  PROVE  (FindTask(w) /\ TakeLoad(w)) \/ UNCHANGED loads
  BY DEF WorkerStep, FindTask, TakeUnload, ReadFile, StoreNb, StoreLists, CheckFlags, MakeTerrain,
         ReadFlags, WriteFlags, Delete, mapVars, loaderVars

(* the load taken is that of the head of the queue                         *)
LEMMA LoadTaken ==
  ASSUME Types, NEW w \in Workers, FindTask(w), TakeLoad(w)
  PROVE  /\ loads # <<>> /\ loads' = Tail(loads) /\ Head(loads) \in Tiles /\ Head(loads) = loads[1]
         /\ 1 \in DOMAIN loads
         /\ DOMAIN loads' = 1..(Len(loads) - 1) /\ DOMAIN loads = 1..Len(loads) /\ Len(loads) \in Nat
         /\ \A i \in DOMAIN loads' : i + 1 \in DOMAIN loads /\ loads'[i] = loads[i + 1]
         /\ worker[w].at = "idle" /\ worker'[w].at = "file" /\ worker'[w].t = Head(loads)
         /\ \A v \in Workers : v # w => worker'[v] = worker[v]
         /\ tile' = [tile EXCEPT ![Head(loads)].flags = tile[Head(loads)].flags \cup {"loading"}]
         /\ UNCHANGED <<inits, refs>>
<1>1. loads # <<>> /\ loads' = Tail(loads) /\ worker[w].at = "idle"
      /\ worker' = [worker EXCEPT ![w] = Doing("file", Head(loads), {})]
      /\ tile' = [tile EXCEPT ![Head(loads)].flags = tile[Head(loads)].flags \cup {"loading"}]
      /\ UNCHANGED <<inits, refs>>
  BY DEF FindTask, TakeLoad
<1>2. loads \in Seq(Tiles)
  BY DEF Types, TypeTasks
<1>3. /\ Head(loads) \in Tiles /\ Head(loads) = loads[1] /\ 1 \in DOMAIN loads
      /\ DOMAIN loads' = 1..(Len(loads) - 1) /\ DOMAIN loads = 1..Len(loads) /\ Len(loads) \in Nat
      /\ \A i \in DOMAIN loads' : i + 1 \in DOMAIN loads /\ loads'[i] = loads[i + 1]
  BY <1>1, <1>2
<1>4. worker'[w].at = "file" /\ worker'[w].t = Head(loads) /\ \A v \in Workers : v # w => worker'[v] = worker[v]
  BY <1>1 DEF Types, TypeWorker, Doing
<1> QED BY <1>1, <1>3, <1>4

LEMMA FreshUnloaded ==
  ASSUME Types, Busy, CutOff, LoadedOnce, NEW t \in Tiles, tile[t].mem = "unborn"
  PROVE  /\ \A i \in DOMAIN loads : loads[i] # t
         /\ \A w \in Workers : worker[w].t # t
<1>1. \A i \in DOMAIN loads : loads[i] # t
  BY DEF LoadedOnce, Live
<1>2. ASSUME NEW w \in Workers, worker[w].t = t PROVE FALSE
  <2>1. worker[w].at \in WorkerAts
    BY DEF Types, TypeWorker, DoingType
  <2>2. CASE worker[w].at = "idle"
    BY <1>2, <2>2, TilesAreNat DEF LoadedOnce, None
  <2>3. CASE worker[w].at = "unload"
    BY <1>2, <2>3 DEF CutOff
  <2>4. CASE worker[w].at \in LoadAts
    BY <1>2, <2>4 DEF LoadedOnce
  <2> QED BY <2>1, <2>2, <2>3, <2>4 DEF WorkerAts, LoadAts
<1> QED BY <1>1, <1>2

LEMMA InitTileSame ==
  ASSUME Types, InitTile
  PROVE  /\ SameLife /\ UNCHANGED <<main, phase, cull, gc, unloads, loads, worker, refs, tiles, tileAt, drawn>>
         /\ inits' = Tail(inits) /\ Head(inits) \in Tiles /\ inits # <<>>
         /\ \/ UNCHANGED tile
            \/ tile' = [tile EXCEPT ![Head(inits)].flags = tile[Head(inits)].flags \cup {"init"}]
<1>1. Head(inits) \in Tiles /\ inits # <<>>
  BY DEF InitTile, Types, TypeInits
<1>2. \/ UNCHANGED tile
      \/ tile' = [tile EXCEPT ![Head(inits)].flags = tile[Head(inits)].flags \cup {"init"}]
  BY DEF InitTile
<1>3. SameLife
  <2>1. CASE UNCHANGED tile
    BY <2>1 DEF SameLife
  <2>2. CASE tile' = [tile EXCEPT ![Head(inits)].flags = tile[Head(inits)].flags \cup {"init"}]
    BY <1>1, <2>2, FlagsSame DEF Types
  <2> QED BY <1>2, <2>1, <2>2
<1> QED BY <1>1, <1>2, <1>3 DEF InitTile, mapVars

LEMMA LoadedOnceSame ==
  ASSUME Types, Busy, LoadedOnce, UNCHANGED <<loads, worker>>, SameLife
  PROVE  LoadedOnce'
<1> USE DEF Types
<1>1. \A i \in DOMAIN loads : loads[i] \in Tiles
  BY DEF TypeTasks
<1>2. \A w \in Workers : worker[w].at \in LoadAts => worker[w].t \in Tiles
  BY DEF Busy, LoadAts
<1> QED BY <1>1, <1>2 DEF LoadedOnce, Live, Cut, SameLife

LEMMA LoadedOnceKept ==
  ASSUME Types, Busy, ArrayListed, CutOff, Handshake, LoadedOnce, [Next]_vars
  PROVE  LoadedOnce'
<1> USE DEF Types
<1>1. /\ \A i \in DOMAIN loads : loads[i] \in Tiles
      /\ \A w \in Workers : worker[w].at \in LoadAts => worker[w].t \in Tiles
      /\ \A w \in Workers : worker[w].at \in WorkerAts
  BY DEF TypeTasks, Busy, LoadAts, TypeWorker, DoingType
<1>2. CASE CullLoad
  <2>1. UNCHANGED worker
    BY <1>2, Loading
  <2>2. CASE UNCHANGED <<tile, loads>>
    BY <2>1, <2>2, LoadedOnceSame DEF SameLife
  <2>3. ASSUME NEW p \in Places, NEW t \in Tiles, tile[t].mem = "unborn", LoadTile(p, t)
        PROVE  LoadedOnce'
    <3>1. /\ \A u \in Tiles : u # t => tile'[u] = tile[u]
          /\ tile'[t].mem = "live" /\ tile'[t].cut = "no"
      BY <2>3, Born
    <3>2. /\ \A i \in DOMAIN loads : loads[i] # t
          /\ \A w \in Workers : worker[w].t # t
      BY <2>3, FreshUnloaded
    <3>3. /\ DOMAIN loads' = 1..(Len(loads) + 1) /\ DOMAIN loads = 1..Len(loads) /\ Len(loads) \in Nat
          /\ loads'[Len(loads) + 1] = t /\ \A i \in 1..Len(loads) : loads'[i] = loads[i]
      BY <2>3 DEF LoadTile, TypeTasks
    <3>4. \A i, j \in DOMAIN loads' : loads'[i] = loads'[j] => i = j
      BY <3>2, <3>3 DEF LoadedOnce
    <3>5. ASSUME NEW i \in DOMAIN loads'
          PROVE  /\ Live(loads[i])' /\ Cut(loads[i], {"no", "queued", "loading"})'
                 /\ \A w \in Workers : worker'[w].t # loads'[i]
      <4>1. CASE i = Len(loads) + 1
        BY <4>1, <2>1, <3>1, <3>2, <3>3 DEF Live, Cut
      <4>2. CASE i \in DOMAIN loads
        <5>1. loads'[i] = loads[i] /\ loads[i] \in Tiles /\ tile'[loads[i]] = tile[loads[i]]
          BY <4>2, <1>1, <3>1, <3>2, <3>3
        <5> QED BY <4>2, <5>1, <2>1 DEF LoadedOnce, Live, Cut
      <4> QED BY <4>1, <4>2, <3>3
    <3>6. ASSUME NEW w \in Workers, worker'[w].at \in LoadAts
          PROVE  tile'[worker'[w].t].mem # "unborn" /\ Cut(worker[w].t, {"no", "queued", "loading"})'
      BY <1>1, <2>1, <3>1, <3>2, <3>6 DEF LoadedOnce, Cut
    <3> QED BY <2>1, <3>4, <3>5, <3>6 DEF LoadedOnce
  <2> QED BY <1>2, <2>2, <2>3, Loading
<1>3. CASE CullUnload
  <2>1. PICK t \in Tiles :
          /\ tile'[t].mem = "live" /\ tile[t].mem = "live" /\ tile'[t].cut = OnItsWay(t)
          /\ \A u \in Tiles : u # t => tile'[u] = tile[u]
          /\ UNCHANGED <<loads, worker>>
    BY <1>3, Condemned
  <2>2. ASSUME NEW i \in DOMAIN loads
        PROVE  tile'[loads[i]].mem = "live" /\ tile'[loads[i]].cut \in {"no", "queued", "loading"}
    <3>1. CASE loads[i] = t
      BY <2>1, <3>1 DEF OnItsWay, Range
    <3>2. CASE loads[i] # t
      BY <1>1, <2>1, <3>2 DEF LoadedOnce, Live, Cut
    <3> QED BY <3>1, <3>2
  <2>3. ASSUME NEW w \in Workers, worker[w].at \in LoadAts
        PROVE  tile'[worker[w].t].mem # "unborn" /\ tile'[worker[w].t].cut \in {"no", "queued", "loading"}
    <3>1. CASE worker[w].t = t
      BY <2>1, <3>1 DEF OnItsWay
    <3>2. CASE worker[w].t # t
      BY <1>1, <2>1, <2>3, <3>2 DEF LoadedOnce, Cut
    <3> QED BY <3>1, <3>2
  <2> QED BY <2>1, <2>2, <2>3 DEF LoadedOnce, Live, Cut
<1>4. ASSUME NEW w \in Workers, WorkerStep(w) PROVE LoadedOnce'
  <2>1. /\ \A v \in Workers : v # w => worker'[v] = worker[v]
        /\ \A t \in Tiles :
              /\ tile'[t].cut = tile[t].cut
              /\ \/ tile'[t].mem = tile[t].mem
                 \/ /\ Delete(w) /\ worker[w].at = "unload" /\ worker[w].t = t
                    /\ tile[t].mem = "live" /\ tile'[t].mem = "freed"
    BY <1>4, Moves, WorkerLife
  <2>2. CASE FindTask(w) /\ TakeLoad(w)
    <3>1. /\ loads' = Tail(loads) /\ Head(loads) \in Tiles /\ Head(loads) = loads[1]
          /\ 1 \in DOMAIN loads
          /\ DOMAIN loads' = 1..(Len(loads) - 1) /\ DOMAIN loads = 1..Len(loads) /\ Len(loads) \in Nat
          /\ \A i \in DOMAIN loads' : i + 1 \in DOMAIN loads /\ loads'[i] = loads[i + 1]
          /\ worker[w].at = "idle" /\ worker'[w].at = "file" /\ worker'[w].t = Head(loads)
      BY <2>2, LoadTaken
    <3>2. SameLife
      BY <2>1, <3>1, WorkerLife, <1>4 DEF SameLife
    <3>3. \A i, j \in DOMAIN loads' : loads'[i] = loads'[j] => i = j
      BY <3>1 DEF LoadedOnce
    <3>4. \A i \in DOMAIN loads' : loads'[i] # loads[1]
      <4> SUFFICES ASSUME NEW i \in DOMAIN loads', loads'[i] = loads[1] PROVE FALSE
        OBVIOUS
      <4>1. i + 1 = 1
        BY <3>1 DEF LoadedOnce
      <4> QED BY <4>1, <3>1
    <3>5. \A i \in DOMAIN loads', v \in Workers : worker'[v].t # loads'[i]
      BY <2>1, <3>1, <3>4 DEF LoadedOnce
    <3>6. ASSUME NEW u \in Workers, NEW v \in Workers, worker'[u].at \in LoadAts, worker'[v].at \in LoadAts,
                 worker'[u].t = worker'[v].t
          PROVE  u = v
      BY <2>1, <3>1, <3>6 DEF LoadedOnce
    <3>7. \A i \in DOMAIN loads' : Live(loads[i])' /\ Cut(loads[i], {"no", "queued", "loading"})'
      BY <1>1, <3>1, <3>2 DEF LoadedOnce, Live, Cut, SameLife
    <3>8. \A v \in Workers : worker'[v].at \in LoadAts =>
            tile'[worker'[v].t].mem # "unborn" /\ Cut(worker[v].t, {"no", "queued", "loading"})'
      BY <1>1, <2>1, <3>1, <3>2 DEF LoadedOnce, Live, Cut, SameLife
    <3>9. \A v \in Workers : worker'[v].at = "idle" => worker'[v].t = None
      BY <2>1, <3>1 DEF LoadedOnce
    <3> QED BY <3>3, <3>5, <3>6, <3>7, <3>8, <3>9 DEF LoadedOnce
  <2>3. CASE UNCHANGED loads
    <3>1. \/ worker'[w] = worker[w]
          \/ /\ loads = <<>> /\ worker'[w].at = "unload"
          \/ worker'[w].at = "idle" /\ worker'[w].t = None
          \/ worker'[w].t = worker[w].t /\ worker[w].at \in LoadAts /\ worker'[w].at \in LoadAts
      BY <1>4, <2>3, Moves, LoadTaken DEF Onward, LoadAts, TakeUnload, LoadsFirst
    <3>2. ASSUME NEW i \in DOMAIN loads', NEW v \in Workers PROVE worker'[v].t # loads'[i]
      <4>1. i \in DOMAIN loads /\ loads'[i] = loads[i] /\ loads[i] # None /\ worker[v].t # loads[i]
        BY <1>1, <2>3, TilesAreNat DEF LoadedOnce
      <4>2. CASE loads = <<>>
        BY <4>1, <4>2
      <4>3. CASE loads # <<>>
        <5>1. worker'[w] = worker[w] \/ worker'[w].t = None \/ worker'[w].t = worker[w].t
          BY <3>1, <4>3
        <5>2. worker[w].t # loads[i]
          BY <4>1 DEF LoadedOnce
        <5> QED BY <2>1, <4>1, <5>1, <5>2
      <4> QED BY <4>2, <4>3
    <3>3. ASSUME NEW u \in Workers, NEW v \in Workers, worker'[u].at \in LoadAts, worker'[v].at \in LoadAts,
                 worker'[u].t = worker'[v].t
          PROVE  u = v
      <4>1. ASSUME NEW x \in Workers, worker'[x].at \in LoadAts
            PROVE  worker[x].at \in LoadAts /\ worker'[x].t = worker[x].t
        BY <2>1, <3>1, <4>1 DEF LoadAts
      <4> QED BY <3>3, <4>1 DEF LoadedOnce
    <3>4. \A i \in DOMAIN loads' : Live(loads[i])' /\ Cut(loads[i], {"no", "queued", "loading"})'
      BY <1>1, <2>1, <2>3 DEF LoadedOnce, Live, Cut
    <3>5. ASSUME NEW v \in Workers, worker'[v].at \in LoadAts
          PROVE  tile'[worker'[v].t].mem # "unborn" /\ Cut(worker[v].t, {"no", "queued", "loading"})'
      <4>1. worker[v].at \in LoadAts /\ worker'[v].t = worker[v].t
        BY <2>1, <3>1, <3>5 DEF LoadAts
      <4> QED BY <4>1, <1>1, <2>1 DEF LoadedOnce, Cut
    <3>6. \A v \in Workers : worker'[v].at = "idle" => worker'[v].t = None
      <4>1. worker'[w].at = "idle" => worker'[w].t = None
        BY <3>1 DEF LoadedOnce, LoadAts
      <4> QED BY <2>1, <4>1 DEF LoadedOnce
    <3> QED BY <2>3, <3>2, <3>3, <3>4, <3>5, <3>6 DEF LoadedOnce
  <2> QED BY <1>4, <2>2, <2>3, LoadsSteps
<1>5. CASE AskUnload
  BY <1>5, AskUnloadSame, LoadedOnceSame
<1>6. CASE AskObjects
  BY <1>6, AskObjectsSame, LoadedOnceSame
<1>7. CASE InitTile
  <2>1. UNCHANGED <<loads, worker>> /\ SameLife
    BY <1>7, InitTileSame
  <2> QED BY <2>1, LoadedOnceSame
<1>8. CASE Quiet
  BY <1>8, LoadedOnceSame DEF Quiet, SameLife
<1> QED BY <1>2, <1>3, <1>4, <1>5, <1>6, <1>7, <1>8, QuietSteps

-----------------------------------------------------------------------------
(* What a tile has of its objects.                                         *)

LEMMA FaultsStay ==
  ASSUME [Next]_vars PROVE faults = {} \/ UNCHANGED vars
  BY DEF Next, Ended, Undefined

LEMMA RangeAppend ==
  ASSUME NEW S, NEW s \in Seq(S), NEW e \in S PROVE Range(Append(s, e)) = Range(s) \cup {e}
<1>1. /\ DOMAIN Append(s, e) = DOMAIN s \cup {Len(s) + 1}
      /\ \A i \in DOMAIN s : Append(s, e)[i] = s[i]
      /\ Append(s, e)[Len(s) + 1] = e
  OBVIOUS
<1> DEFINE a == Append(s, e)
           m == Len(s) + 1
<1>2. DOMAIN a = DOMAIN s \cup {m} /\ (\A i \in DOMAIN s : a[i] = s[i]) /\ a[m] = e
  BY <1>1
<1> HIDE DEF a, m
<1> QED BY <1>2 DEF Range, a

LEMMA RangeTail ==
  ASSUME NEW S, NEW s \in Seq(S), s # <<>> PROVE Range(Tail(s)) \subseteq Range(s)
<1>1. \A i \in DOMAIN Tail(s) : i + 1 \in DOMAIN s /\ Tail(s)[i] = s[i + 1]
  OBVIOUS
<1> QED BY <1>1 DEF Range

(* what the steps of a worker do to the lists of a tile                    *)
WorkerLists(w, t) ==
  \/ tile'[t].nb = tile[t].nb /\ tile'[t].lists = tile[t].lists
  \/ /\ worker[w].t = t /\ worker[w].at = "nb" /\ worker'[w].at = "lists" /\ worker'[w].t = t
     /\ Live(t) /\ tile'[t].nb = TRUE /\ tile'[t].lists = tile[t].lists
  \/ /\ worker[w].t = t /\ worker[w].at = "lists" /\ worker'[w].at = "check" /\ worker'[w].t = t
     /\ Live(t) /\ tile'[t].lists = TRUE /\ tile'[t].nb = tile[t].nb
  \/ /\ worker[w].t = t /\ Delete(w) /\ tile'[t].mem = "freed"
     /\ tile'[t].nb = FALSE /\ tile'[t].lists = FALSE

LEMMA FlagsObjects ==
  ASSUME TypeTile, NEW u \in Tiles, NEW fs, tile' = [tile EXCEPT ![u].flags = fs], NEW t \in Tiles
  PROVE  tile'[t].nb = tile[t].nb /\ tile'[t].lists = tile[t].lists
<1>1. tile[u] \in TileType
  BY DEF TypeTile
<1> QED BY <1>1 DEF TypeTile, TileType

LEMMA WorkerStores ==
  ASSUME Types, Busy, NEW w \in Workers, WorkerStep(w)
  PROVE  /\ \A t \in Tiles : WorkerLists(w, t)
         /\ worker[w].at = "nb" /\ worker'[w].at = "lists" => tile'[worker[w].t].nb = TRUE
         /\ worker[w].at = "lists" /\ worker'[w].at # "lists" => tile'[worker[w].t].lists = TRUE
         /\ \/ inits' = inits
            \/ /\ inits' = Append(inits, worker[w].t) /\ Live(worker[w].t) /\ worker[w].t \in Tiles
               /\ MakeTerrain(w)
<1> USE DEF Types
<1>0. worker[w] \in DoingType(WorkerAts)
  BY DEF TypeWorker
<1>1. CASE FindTask(w) /\ TakeLoad(w)
  <2>1. /\ worker[w].at = "idle" /\ Head(loads) \in Tiles /\ inits' = inits
        /\ tile' = [tile EXCEPT ![Head(loads)].flags = tile[Head(loads)].flags \cup {"loading"}]
    BY <1>1, LoadTaken
  <2>2. \A t \in Tiles : WorkerLists(w, t)
    BY <2>1, FlagsObjects DEF WorkerLists
  <2> QED BY <2>1, <2>2
<1>2. CASE StoreNb(w)
  <2>1. worker[w].t \in Tiles /\ tile[worker[w].t] \in TileType /\ inits' = inits /\ worker[w].at = "nb"
    BY <1>2 DEF StoreNb, Busy, TypeTile, loaderVars
  <2>2. CASE ~Live(worker[w].t)
    <3>1. UNCHANGED <<tile, worker>>
      BY <1>2, <2>2 DEF StoreNb, Strays
    <3> QED BY <2>1, <3>1 DEF WorkerLists
  <2>3. CASE Live(worker[w].t)
    <3>1. worker' = [worker EXCEPT ![w].at = "lists"] /\ tile' = [tile EXCEPT ![worker[w].t].nb = TRUE]
      BY <1>2, <2>3 DEF StoreNb, Goes
    <3>2. worker'[w].at = "lists" /\ worker'[w].t = worker[w].t
      BY <1>0, <3>1 DEF TypeWorker, DoingType
    <3>3. PICK t \in Tiles : t = worker[w].t
      BY <2>1
    <3>4. /\ tile'[t].nb = TRUE /\ tile'[t].lists = tile[t].lists
          /\ \A u \in Tiles : u # t => tile'[u] = tile[u]
      BY <2>1, <3>1, <3>3 DEF TypeTile, TileType
    <3> QED BY <2>1, <2>3, <3>2, <3>3, <3>4 DEF WorkerLists
  <2> QED BY <2>2, <2>3
<1>3. CASE StoreLists(w)
  <2>1. worker[w].t \in Tiles /\ tile[worker[w].t] \in TileType /\ inits' = inits /\ worker[w].at = "lists"
    BY <1>3 DEF StoreLists, Busy, TypeTile, loaderVars
  <2>2. CASE ~Live(worker[w].t)
    <3>1. UNCHANGED <<tile, worker>>
      BY <1>3, <2>2 DEF StoreLists, Strays
    <3> QED BY <2>1, <3>1 DEF WorkerLists
  <2>3. CASE Live(worker[w].t)
    <3>1. worker' = [worker EXCEPT ![w].at = "check"] /\ tile' = [tile EXCEPT ![worker[w].t].lists = TRUE]
      BY <1>3, <2>3 DEF StoreLists, Goes
    <3>2. worker'[w].at = "check" /\ worker'[w].t = worker[w].t
      BY <1>0, <3>1 DEF TypeWorker, DoingType
    <3>3. PICK t \in Tiles : t = worker[w].t
      BY <2>1
    <3>4. /\ tile'[t].lists = TRUE /\ tile'[t].nb = tile[t].nb
          /\ \A u \in Tiles : u # t => tile'[u] = tile[u]
      BY <2>1, <3>1, <3>3 DEF TypeTile, TileType
    <3> QED BY <2>1, <2>3, <3>2, <3>3, <3>4 DEF WorkerLists
  <2> QED BY <2>2, <2>3
<1>4. CASE MakeTerrain(w)
  <2>1. worker[w].t \in Tiles /\ worker[w].at = "mcnk"
    BY <1>4 DEF MakeTerrain, Busy
  <2>2. UNCHANGED tile \/ tile' = [tile EXCEPT ![worker[w].t].flags = tile[worker[w].t].flags \cup {"loaded"}]
    BY <1>4 DEF MakeTerrain
  <2>3. \A t \in Tiles : WorkerLists(w, t)
    BY <2>1, <2>2, FlagsObjects DEF WorkerLists
  <2>4. inits' = inits \/ (inits' = Append(inits, worker[w].t) /\ Live(worker[w].t))
    BY <1>4 DEF MakeTerrain
  <2> QED BY <1>4, <2>1, <2>3, <2>4
<1>5. CASE WriteFlags(w)
  <2>1. worker[w].t \in Tiles /\ worker[w].at = "write" /\ inits' = inits
    BY <1>5 DEF WriteFlags, Busy, loaderVars
  <2>2. UNCHANGED tile \/ tile' = [tile EXCEPT ![worker[w].t].flags = worker[w].saw \ {"loading"}]
    BY <1>5 DEF WriteFlags
  <2>3. \A t \in Tiles : WorkerLists(w, t)
    BY <2>1, <2>2, FlagsObjects DEF WorkerLists
  <2> QED BY <2>1, <2>3
<1>6. CASE Delete(w)
  <2>1. PICK u \in Tiles :
          /\ u = worker[w].t /\ worker[w].at = "unload" /\ inits' = inits
          /\ \A v \in Tiles : v # u => tile'[v] = tile[v]
          /\ \/ UNCHANGED tile
             \/ tile'[u].mem = "freed" /\ tile'[u].nb = FALSE /\ tile'[u].lists = FALSE
    BY <1>6, Deleted
  <2>2. \A t \in Tiles : WorkerLists(w, t)
    BY <1>6, <2>1 DEF WorkerLists
  <2> QED BY <2>1, <2>2
<1>7. CASE (FindTask(w) /\ TakeUnload(w)) \/ ReadFile(w) \/ CheckFlags(w) \/ ReadFlags(w)
  <2>1. UNCHANGED <<tile, inits>> /\ worker[w].at \notin {"nb", "lists"}
    BY <1>7 DEF FindTask, TakeUnload, ReadFile, CheckFlags, ReadFlags, loaderVars
  <2> QED BY <2>1 DEF WorkerLists
<1> QED BY <1>1, <1>2, <1>3, <1>4, <1>5, <1>6, <1>7 DEF WorkerStep

(* a step that leaves the lists of every tile alone                        *)
LEMMA ListsStoredSame ==
  ASSUME Types, Busy, ListsStored, UNCHANGED <<loads, worker>>, SameLife,
         faults' = {} => faults = {},
         \A t \in Tiles : tile'[t].nb = tile[t].nb /\ tile'[t].lists = tile[t].lists,
         Range(inits') \subseteq Range(inits),
         \A t \in Tiles : Cut(t, {"waiting", "over"}) /\ Condemning /\ cull.t = t => Condemning' /\ cull'.t = t
  PROVE  ListsStored'
<1> USE DEF Types
<1>1. \A i \in DOMAIN loads : loads[i] \in Tiles
  BY DEF TypeTasks
<1>2. \A w \in Workers : worker[w].at \in {"file", "nb", "lists"} => worker[w].t \in Tiles
  BY DEF Busy
<1>3. \A t \in Tiles : tile'[t].mem = "unborn" => ~Stored(t)' /\ t \notin Range(inits')
  BY DEF ListsStored, Stored, SameLife
<1>4. \A i \in DOMAIN loads' : ~Stored(loads[i])'
  BY <1>1 DEF ListsStored, Stored
<1>5. \A w \in Workers : /\ worker'[w].at \in {"file", "nb"} => ~Stored(worker[w].t)'
                         /\ worker'[w].at = "lists" => ~tile'[worker'[w].t].lists
  BY <1>2 DEF ListsStored, Stored
<1>6. faults' = {} =>
       \A w \in Workers : worker'[w].at = "lists" /\ Live(worker[w].t)' => tile'[worker'[w].t].nb
  BY <1>2 DEF ListsStored, Live, SameLife
<1>7. \A t \in Tiles : tile'[t].nb /\ ~tile'[t].lists =>
       \E w \in Workers : worker'[w].at = "lists" /\ worker'[w].t = t
  BY DEF ListsStored
<1>8. \A t \in Tiles : Cut(t, {"waiting", "over"})' /\ ~(Condemning' /\ cull'.t = t) => ~Listed(t)'
  BY DEF ListsStored, Cut, Listed, SameLife
<1> QED BY <1>3, <1>4, <1>5, <1>6, <1>7, <1>8 DEF ListsStored

LEMMA LoadStores ==
  ASSUME Types, Busy, CutOff, LoadedOnce, ListsStored, NEW p \in Places, NEW t \in Tiles,
         tile[t].mem = "unborn", LoadTile(p, t), UNCHANGED <<worker, inits, faults>>, ~Condemning
  PROVE  ListsStored'
<1> USE DEF Types
<1>1. /\ \A u \in Tiles : u # t => tile'[u] = tile[u]
      /\ tile'[t].mem = "live" /\ tile'[t].cut = "no" /\ tile'[t].nb = FALSE /\ tile'[t].lists = FALSE
  BY Born
<1>2. \A w \in Workers : worker[w].t # t
  BY FreshUnloaded
<1>3. \A w \in Workers : worker[w].at \in {"file", "nb", "lists"} => worker[w].t \in Tiles
  BY DEF Busy
<1>4. \A u \in Tiles : tile'[u].mem = "unborn" => ~Stored(u)' /\ u \notin Range(inits')
  BY <1>1 DEF ListsStored, Stored
<1>5. ASSUME NEW i \in DOMAIN loads' PROVE ~Stored(loads[i])'
  <2>1. loads'[i] = t \/ (i \in DOMAIN loads /\ loads'[i] = loads[i] /\ loads[i] \in Tiles)
    BY DEF LoadTile, TypeTasks
  <2> QED BY <1>1, <2>1 DEF ListsStored, Stored
<1>6. \A w \in Workers : /\ worker'[w].at \in {"file", "nb"} => ~Stored(worker[w].t)'
                         /\ worker'[w].at = "lists" => ~tile'[worker'[w].t].lists
  BY <1>1, <1>2, <1>3 DEF ListsStored, Stored
<1>7. faults' = {} =>
       \A w \in Workers : worker'[w].at = "lists" /\ Live(worker[w].t)' => tile'[worker'[w].t].nb
  BY <1>1, <1>2, <1>3 DEF ListsStored, Live
<1>8. \A u \in Tiles : tile'[u].nb /\ ~tile'[u].lists =>
       \E w \in Workers : worker'[w].at = "lists" /\ worker'[w].t = u
  BY <1>1 DEF ListsStored
<1>9. \A u \in Tiles : Cut(u, {"waiting", "over"})' /\ ~(Condemning' /\ cull'.t = u) => ~Listed(u)'
  BY <1>1 DEF ListsStored, Cut, Listed
<1> QED BY <1>4, <1>5, <1>6, <1>7, <1>8, <1>9 DEF ListsStored

LEMMA CondemnStores ==
  ASSUME Types, Busy, ArrayListed, ListsStored, CullUnload
  PROVE  ListsStored'
<1> USE DEF Types
<1>1. PICK t \in Tiles :
        /\ tile[t].mem = "live" /\ tile'[t].mem = "live"
        /\ tile'[t].nb = tile[t].nb /\ tile'[t].lists = tile[t].lists
        /\ \A u \in Tiles : u # t => tile'[u] = tile[u]
        /\ cull.at = "unload" /\ cull'.at = "ask" /\ cull'.t = t
        /\ UNCHANGED <<loads, inits, worker, faults>>
  BY Condemned
<1>2. \A u \in Tiles : tile'[u].nb = tile[u].nb /\ tile'[u].lists = tile[u].lists
                       /\ tile'[u].mem = tile[u].mem
  BY <1>1
<1>3. \A i \in DOMAIN loads : loads[i] \in Tiles
  BY DEF TypeTasks
<1>4. \A w \in Workers : worker[w].at \in {"file", "nb", "lists"} => worker[w].t \in Tiles
  BY DEF Busy
<1>5. \A u \in Tiles : tile'[u].mem = "unborn" => ~Stored(u)' /\ u \notin Range(inits')
  BY <1>1, <1>2 DEF ListsStored, Stored
<1>6. \A i \in DOMAIN loads' : ~Stored(loads[i])'
  BY <1>1, <1>2, <1>3 DEF ListsStored, Stored
<1>7. \A w \in Workers : /\ worker'[w].at \in {"file", "nb"} => ~Stored(worker[w].t)'
                         /\ worker'[w].at = "lists" => ~tile'[worker'[w].t].lists
  BY <1>1, <1>2, <1>4 DEF ListsStored, Stored
<1>8. faults' = {} =>
       \A w \in Workers : worker'[w].at = "lists" /\ Live(worker[w].t)' => tile'[worker'[w].t].nb
  BY <1>1, <1>2, <1>4 DEF ListsStored, Live
<1>9. \A u \in Tiles : tile'[u].nb /\ ~tile'[u].lists =>
       \E w \in Workers : worker'[w].at = "lists" /\ worker'[w].t = u
  BY <1>1, <1>2 DEF ListsStored
<1>10. \A u \in Tiles : Cut(u, {"waiting", "over"})' /\ ~(Condemning' /\ cull'.t = u) => ~Listed(u)'
  BY <1>1 DEF ListsStored, Cut, Listed, Condemning
<1> QED BY <1>5, <1>6, <1>7, <1>8, <1>9, <1>10 DEF ListsStored

LEMMA AskObjectsStores ==
  ASSUME Types, Busy, ListsStored, AskObjects, faults' = {} => faults = {}
  PROVE  ListsStored'
<1> USE DEF Types
<1>1. PICK t \in Tiles : t = cull.t
  BY DEF AskObjects, Busy
<1>2. SameLife /\ UNCHANGED <<loads, inits, worker>> /\ ~Condemning' /\ cull.at = "objects"
  BY AskObjectsSame
<1>3. /\ tile'[t].nb = FALSE /\ tile'[t].lists = FALSE
      /\ \A u \in Tiles : u # t => tile'[u] = tile[u]
      /\ tile[t].nb /\ ~tile[t].lists => faults' # {}
  <2>1. tile' = [tile EXCEPT ![t].nb = FALSE, ![t].lists = FALSE]
        /\ (tile[t].nb /\ ~tile[t].lists => Fault("objects", t))
    BY <1>1 DEF AskObjects
  <2> QED BY <2>1 DEF TypeTile, TileType, Fault
<1>4. \A i \in DOMAIN loads : loads[i] \in Tiles
  BY DEF TypeTasks
<1>5. \A w \in Workers : worker[w].at \in {"file", "nb", "lists"} => worker[w].t \in Tiles
  BY DEF Busy
<1>6. \A u \in Tiles : tile'[u].mem = "unborn" => ~Stored(u)' /\ u \notin Range(inits')
  BY <1>2, <1>3 DEF ListsStored, Stored, SameLife
<1>7. \A i \in DOMAIN loads' : ~Stored(loads[i])'
  BY <1>2, <1>3, <1>4 DEF ListsStored, Stored
<1>8. \A w \in Workers : /\ worker'[w].at \in {"file", "nb"} => ~Stored(worker[w].t)'
                         /\ worker'[w].at = "lists" => ~tile'[worker'[w].t].lists
  BY <1>2, <1>3, <1>5 DEF ListsStored, Stored
<1>9. ASSUME faults' = {}, NEW w \in Workers, worker'[w].at = "lists", Live(worker[w].t)'
      PROVE  tile'[worker'[w].t].nb
  <2>1. worker[w].at = "lists" /\ worker'[w] = worker[w] /\ worker[w].t \in Tiles /\ Live(worker[w].t)
    BY <1>2, <1>5, <1>9 DEF Live, SameLife
  <2>2. tile[worker[w].t].nb /\ ~tile[worker[w].t].lists
    BY <1>9, <2>1 DEF ListsStored
  <2>3. worker[w].t # t
    BY <1>3, <1>9, <2>2
  <2> QED BY <1>3, <2>1, <2>2, <2>3
<1>10. \A u \in Tiles : tile'[u].nb /\ ~tile'[u].lists =>
       \E w \in Workers : worker'[w].at = "lists" /\ worker'[w].t = u
  BY <1>2, <1>3 DEF ListsStored
<1>11. \A u \in Tiles : Cut(u, {"waiting", "over"})' /\ ~(Condemning' /\ cull'.t = u) => ~Listed(u)'
  BY <1>1, <1>3 DEF ListsStored, Cut, Listed
<1> QED BY <1>6, <1>7, <1>8, <1>9, <1>10, <1>11 DEF ListsStored

LEMMA WorkerStoresKept ==
  ASSUME Types, Busy, CutOff, LoadedOnce, ListsStored, [Next]_vars, NEW w \in Workers, WorkerStep(w),
         faults' = {} => faults = {}
  PROVE  ListsStored'
<1> USE DEF Types
<1>1. /\ \A t \in Tiles : WorkerLists(w, t)
      /\ worker[w].at = "nb" /\ worker'[w].at = "lists" => tile'[worker[w].t].nb = TRUE
      /\ worker[w].at = "lists" /\ worker'[w].at # "lists" => tile'[worker[w].t].lists = TRUE
  BY WorkerStores
<1>2. /\ UNCHANGED cull
      /\ \A t \in Tiles : tile'[t].cut = tile[t].cut /\ (tile'[t].mem = "unborn" => tile[t].mem = "unborn")
                          /\ (tile'[t].mem = "live" => tile[t].mem = "live")
  BY WorkerLife
<1>3. \A v \in Workers : v # w => worker'[v] = worker[v]
  BY Moves
<1>4. \/ worker'[w] = worker[w]
      \/ /\ TakeLoad(w) /\ FindTask(w) /\ worker[w].at = "idle"
         /\ worker'[w].at = "file" /\ worker'[w].t = Head(loads)
      \/ worker'[w].at \in {"unload", "idle"}
      \/ worker'[w].t = worker[w].t /\ <<worker[w].at, worker'[w].at>> \in Onward
  BY Moves
<1>5. \A i \in DOMAIN loads : loads[i] \in Tiles
  BY DEF TypeTasks
<1>6. \A v \in Workers : worker[v].at \in LoadAts => worker[v].t \in Tiles
  BY DEF Busy, LoadAts
<1>7. ASSUME NEW t \in Tiles, tile'[t].mem = "unborn" PROVE ~Stored(t)' /\ t \notin Range(inits')
  <2>1. tile[t].mem = "unborn" /\ ~Stored(t) /\ t \notin Range(inits)
    BY <1>2, <1>7 DEF ListsStored
  <2>2. ~Stored(t)'
    BY <1>1, <1>7, <2>1 DEF WorkerLists, Stored, Live
  <2>3. inits' = inits \/ (inits' = Append(inits, worker[w].t) /\ worker[w].t \in Tiles /\ worker[w].t # t)
    BY <2>1, WorkerStores DEF Live
  <2>4. inits \in Seq(Tiles)
    BY DEF TypeInits
  <2>5. CASE inits' = inits
    BY <2>1, <2>2, <2>5
  <2>6. CASE inits' = Append(inits, worker[w].t) /\ worker[w].t \in Tiles /\ worker[w].t # t
    <3>1. PICK e \in Tiles : e = worker[w].t
      BY <2>6
    <3>2. Range(Append(inits, e)) = Range(inits) \cup {e}
      BY <2>4, RangeAppend
    <3> QED BY <2>1, <2>2, <2>6, <3>1, <3>2
  <2> QED BY <2>3, <2>5, <2>6
(* a tile whose load is queued, or has read nothing yet                    *)
<1>8. ASSUME NEW t \in Tiles, ~Stored(t), worker[w].t # t PROVE ~Stored(t)' /\ tile'[t].nb = tile[t].nb
  BY <1>1, <1>8 DEF WorkerLists, Stored
<1>9. ASSUME NEW i \in DOMAIN loads' PROVE ~Stored(loads[i])'
  <2>1. PICK j \in DOMAIN loads : loads'[i] = loads[j]
    BY <1>9, LoadsSteps, LoadTaken
  <2>2. ~Stored(loads[j]) /\ loads[j] \in Tiles /\ worker[w].t # loads[j]
    BY <1>5 DEF ListsStored, LoadedOnce
  <2>3. PICK t \in Tiles : t = loads[j]
    BY <2>2
  <2>4. ~Stored(t)'
    BY <1>8, <2>2, <2>3
  <2> QED BY <2>1, <2>3, <2>4 DEF Stored
<1>10. ASSUME NEW v \in Workers, v # w, worker[v].at \in LoadAts, NEW t \in Tiles, t = worker[v].t
       PROVE  \/ tile'[t].nb = tile[t].nb /\ tile'[t].lists = tile[t].lists
              \/ tile'[t].nb = FALSE /\ tile'[t].lists = FALSE /\ ~Live(t)'
  <2>1. ~(worker[w].at \in LoadAts /\ worker[w].t = t)
    BY <1>10 DEF LoadedOnce
  <2> QED BY <1>1, <2>1 DEF WorkerLists, LoadAts, Live
<1>11. ASSUME NEW v \in Workers, worker'[v].at \in {"file", "nb"} PROVE ~Stored(worker[v].t)'
  <2>1. CASE v # w
    <3>1. worker'[v] = worker[v] /\ worker[v].at \in LoadAts /\ ~Stored(worker[v].t)
      BY <1>3, <1>11, <2>1 DEF LoadAts, ListsStored
    <3>2. PICK t \in Tiles : t = worker[v].t
      BY <1>6, <3>1
    <3> QED BY <2>1, <3>1, <3>2, <1>10 DEF Stored
  <2>2. CASE v = w /\ TakeLoad(w) /\ FindTask(w)
    <3>1. Head(loads) \in Tiles /\ Head(loads) = loads[1] /\ 1 \in DOMAIN loads /\ worker'[w].t = Head(loads)
      BY <2>2, LoadTaken
    <3>2. PICK t \in Tiles : t = Head(loads)
      BY <3>1
    <3>3. ~Stored(t) /\ worker[w].t # t
      BY <3>1, <3>2 DEF ListsStored, LoadedOnce
    <3>4. ~Stored(t)'
      BY <3>3, <1>8
    <3> QED BY <2>2, <3>1, <3>2, <3>4 DEF Stored
  <2>3. CASE v = w /\ ~(TakeLoad(w) /\ FindTask(w))
    <3>1. worker'[w].t = worker[w].t /\ worker[w].at \in {"file", "nb"}
      BY <1>4, <1>11, <2>3 DEF Onward
    <3>2. PICK t \in Tiles : t = worker[w].t
      BY <3>1, <1>6 DEF LoadAts
    <3>3. ~Stored(t)
      BY <3>1, <3>2 DEF ListsStored
    <3>4. ~Stored(t)'
      BY <1>1, <1>11, <2>3, <3>3 DEF WorkerLists, Stored
    <3> QED BY <2>3, <3>1, <3>2, <3>4 DEF Stored
  <2> QED BY <2>1, <2>2, <2>3
<1>12. ASSUME NEW v \in Workers, worker'[v].at = "lists"
       PROVE  /\ ~tile'[worker'[v].t].lists
              /\ faults' = {} /\ Live(worker[v].t)' => tile'[worker'[v].t].nb
  <2>1. CASE v # w
    <3>1. worker'[v] = worker[v] /\ worker[v].at = "lists"
      BY <1>3, <1>12, <2>1
    <3>2. PICK t \in Tiles : t = worker[v].t
      BY <1>6, <3>1 DEF LoadAts
    <3>3. ~tile[t].lists /\ (faults = {} /\ Live(t) => tile[t].nb)
      BY <3>1, <3>2 DEF ListsStored
    <3>4. Live(t)' => Live(t)
      BY <1>2 DEF Live
    <3>5. \/ tile'[t].nb = tile[t].nb /\ tile'[t].lists = tile[t].lists
          \/ tile'[t].nb = FALSE /\ tile'[t].lists = FALSE /\ ~Live(t)'
      BY <1>10, <2>1, <3>1, <3>2 DEF LoadAts
    <3> QED BY <3>1, <3>2, <3>3, <3>4, <3>5 DEF Live
  <2>2. CASE v = w /\ worker[w].at = "lists" /\ worker'[w].t = worker[w].t
    <3>1. PICK t \in Tiles : t = worker[w].t
      BY <1>6, <2>2 DEF LoadAts
    <3>2. ~tile[t].lists /\ (faults = {} /\ Live(t) => tile[t].nb)
      BY <2>2, <3>1 DEF ListsStored
    <3>3. Live(t)' => Live(t)
      BY <1>2 DEF Live
    <3>4. \/ tile'[t].nb = tile[t].nb /\ tile'[t].lists = tile[t].lists
          \/ ~Live(t)' /\ ~tile'[t].lists
      BY <1>1, <1>12, <2>2, <3>1 DEF WorkerLists, Live
    <3> QED BY <2>2, <3>1, <3>2, <3>3, <3>4 DEF Live
  <2>3. CASE v = w /\ ~(worker[w].at = "lists" /\ worker'[w].t = worker[w].t)
    <3>1. worker'[w].t = worker[w].t /\ worker[w].at = "nb"
      BY <1>4, <1>12, <2>3 DEF Onward
    <3>2. PICK t \in Tiles : t = worker[w].t
      BY <3>1, <1>6 DEF LoadAts
    <3>3. ~Stored(t) /\ tile'[t].nb = TRUE
      BY <1>1, <1>12, <2>3, <3>1, <3>2 DEF ListsStored
    <3>4. ~tile'[t].lists
      BY <1>1, <3>1, <3>3 DEF WorkerLists, Stored
    <3> QED BY <2>3, <3>1, <3>2, <3>3, <3>4
  <2> QED BY <2>1, <2>2, <2>3
<1>13. ASSUME NEW t \in Tiles, tile'[t].nb, ~tile'[t].lists
       PROVE  \E v \in Workers : worker'[v].at = "lists" /\ worker'[v].t = t
  <2>1. CASE tile'[t].nb = tile[t].nb /\ tile'[t].lists = tile[t].lists
    <3>1. PICK v \in Workers : worker[v].at = "lists" /\ worker[v].t = t
      BY <1>13, <2>1 DEF ListsStored
    <3>2. CASE v # w
      BY <1>3, <3>1, <3>2
    <3>3. CASE v = w
      <4>1. worker'[w].at = "lists"
        BY <1>1, <1>13, <3>1, <3>3
      <4>2. worker'[w].t = worker[w].t
        BY <1>4, <3>1, <3>3, <4>1
      <4> QED BY <3>1, <3>3, <4>1, <4>2
    <3> QED BY <3>2, <3>3
  <2>2. CASE worker'[w].at = "lists" /\ worker'[w].t = t
    BY <2>2
  <2> QED BY <1>1, <1>13, <2>1, <2>2 DEF WorkerLists
<1>14. ASSUME NEW t \in Tiles, Cut(t, {"waiting", "over"})', ~(Condemning' /\ cull'.t = t) PROVE ~Listed(t)'
  <2>1. Cut(t, {"waiting", "over"}) /\ ~(Condemning /\ cull.t = t)
    BY <1>2, <1>14 DEF Cut, Condemning
  <2>2. ~Listed(t)
    BY <2>1 DEF ListsStored
  <2>3. ~(worker[w].at \in LoadAts /\ worker[w].t = t)
    BY <2>1 DEF LoadedOnce, Cut
  <2> QED BY <1>1, <2>2, <2>3 DEF WorkerLists, LoadAts, Listed
<1> QED BY <1>7, <1>9, <1>11, <1>12, <1>13, <1>14 DEF ListsStored

LEMMA ListsStoredKept ==
  ASSUME Types, Busy, ArrayListed, CutOff, Handshake, LoadedOnce, ListsStored, [Next]_vars
  PROVE  ListsStored'
<1>0. faults' = {} => faults = {}
  BY FaultsStay DEF vars
<1>1. CASE CullLoad
  <2>1. UNCHANGED <<worker, inits, faults>> /\ ~Condemning
    BY <1>1, Loading DEF Condemning
  <2>2. CASE UNCHANGED <<tile, loads>>
    BY <2>1, <2>2, ListsStoredSame DEF SameLife
  <2> QED BY <1>1, <2>1, <2>2, Loading, LoadStores
<1>2. CASE CullUnload
  BY <1>2, CondemnStores
<1>3. CASE AskUnload
  <2>1. /\ SameLife /\ UNCHANGED <<loads, inits, worker>>
        /\ cull'.at = "objects" /\ cull'.t = cull.t /\ cull.t \in Tiles
        /\ tile' = [tile EXCEPT ![cull.t].flags = cull.saw \ {"loading"}]
    BY <1>3, AskUnloadSame
  <2>2. \A t \in Tiles : tile'[t].nb = tile[t].nb /\ tile'[t].lists = tile[t].lists
    BY <2>1, FlagsObjects DEF Types
  <2> QED BY <1>0, <2>1, <2>2, ListsStoredSame DEF Condemning
<1>4. CASE AskObjects
  BY <1>0, <1>4, AskObjectsStores
<1>5. CASE InitTile
  <2>1. /\ SameLife /\ UNCHANGED <<loads, worker, cull>>
        /\ inits' = Tail(inits) /\ Head(inits) \in Tiles /\ inits # <<>>
        /\ \/ UNCHANGED tile
           \/ tile' = [tile EXCEPT ![Head(inits)].flags = tile[Head(inits)].flags \cup {"init"}]
    BY <1>5, InitTileSame
  <2>2. \A t \in Tiles : tile'[t].nb = tile[t].nb /\ tile'[t].lists = tile[t].lists
    BY <2>1, FlagsObjects DEF Types
  <2>3. Range(inits') \subseteq Range(inits)
    BY <2>1, RangeTail DEF Types, TypeInits
  <2> QED BY <1>0, <2>1, <2>2, <2>3, ListsStoredSame DEF Condemning
<1>6. ASSUME NEW w \in Workers, WorkerStep(w) PROVE ListsStored'
  BY <1>0, <1>6, WorkerStoresKept
<1>7. CASE Quiet
  BY <1>0, <1>7, ListsStoredSame DEF Quiet, SameLife, Condemning
<1> QED BY <1>1, <1>2, <1>3, <1>4, <1>5, <1>6, <1>7, QuietSteps

-----------------------------------------------------------------------------
(* What waits for the main thread.                                         *)

(* what the steps of a worker do to the flags of a tile, and what it reads *)
WorkerFlags(w, t) ==
  \/ tile[t].flags \subseteq tile'[t].flags
  \/ /\ worker[w].t = t /\ worker[w].at = "write" /\ tile'[t].flags = worker[w].saw \ {"loading"}
  \/ tile'[t].mem = "freed"

LEMMA FlagsAt ==
  ASSUME TypeTile, NEW u \in Tiles, NEW fs, tile' = [tile EXCEPT ![u].flags = fs]
  PROVE  tile'[u].flags = fs /\ \A t \in Tiles : t # u => tile'[t] = tile[t]
<1>1. tile[u] \in TileType
  BY DEF TypeTile
<1> QED BY <1>1 DEF TypeTile, TileType

LEMMA WorkerMarks ==
  ASSUME Types, Busy, NEW w \in Workers, WorkerStep(w)
  PROVE  /\ \A t \in Tiles : WorkerFlags(w, t)
         /\ \/ worker'[w].at # "write"
            \/ worker'[w] = worker[w]
            \/ /\ worker'[w].t = worker[w].t /\ worker[w].at = "clear" /\ Live(worker[w].t)
               /\ worker'[w].saw = tile[worker[w].t].flags
         /\ MakeTerrain(w) /\ Live(worker[w].t) =>
              /\ "loaded" \in tile'[worker[w].t].flags
              /\ worker'[w].at = "clear" /\ worker[w].at = "mcnk"
<1> USE DEF Types
<1>0. worker[w] \in DoingType(WorkerAts)
  BY DEF TypeWorker
<1>1. CASE FindTask(w) /\ TakeLoad(w)
  <2>1. /\ worker[w].at = "idle" /\ Head(loads) \in Tiles /\ worker'[w].at = "file"
        /\ tile' = [tile EXCEPT ![Head(loads)].flags = tile[Head(loads)].flags \cup {"loading"}]
    BY <1>1, LoadTaken
  <2>2. tile'[Head(loads)].flags = tile[Head(loads)].flags \cup {"loading"}
        /\ \A t \in Tiles : t # Head(loads) => tile'[t] = tile[t]
    BY <2>1, FlagsAt
  <2>3. \A t \in Tiles : WorkerFlags(w, t)
    BY <2>2 DEF WorkerFlags
  <2> QED BY <2>1, <2>3 DEF MakeTerrain
<1>2. CASE StoreNb(w)
  <2>1. /\ worker[w].t \in Tiles /\ tile[worker[w].t] \in TileType /\ worker[w].at = "nb"
        /\ UNCHANGED worker \/ worker' = [worker EXCEPT ![w].at = "lists"]
        /\ UNCHANGED tile \/ tile' = [tile EXCEPT ![worker[w].t].nb = TRUE]
    BY <1>2 DEF StoreNb, Busy, TypeTile, Strays, Goes
  <2>2. \A t \in Tiles : tile'[t].flags = tile[t].flags
    BY <2>1 DEF TypeTile, TileType
  <2>3. worker'[w].at # "write"
    BY <1>0, <2>1 DEF TypeWorker, DoingType
  <2> QED BY <2>1, <2>2, <2>3 DEF WorkerFlags, MakeTerrain
<1>3. CASE StoreLists(w)
  <2>1. /\ worker[w].t \in Tiles /\ tile[worker[w].t] \in TileType /\ worker[w].at = "lists"
        /\ UNCHANGED worker \/ worker' = [worker EXCEPT ![w].at = "check"]
        /\ UNCHANGED tile \/ tile' = [tile EXCEPT ![worker[w].t].lists = TRUE]
    BY <1>3 DEF StoreLists, Busy, TypeTile, Strays, Goes
  <2>2. \A t \in Tiles : tile'[t].flags = tile[t].flags
    BY <2>1 DEF TypeTile, TileType
  <2>3. worker'[w].at # "write"
    BY <1>0, <2>1 DEF TypeWorker, DoingType
  <2> QED BY <2>1, <2>2, <2>3 DEF WorkerFlags, MakeTerrain
<1>4. CASE MakeTerrain(w)
  <2>1. worker[w].t \in Tiles /\ worker[w].at = "mcnk"
    BY <1>4 DEF MakeTerrain, Busy
  <2>2. CASE ~Live(worker[w].t)
    <3>1. UNCHANGED <<tile, worker>>
      BY <1>4, <2>2 DEF MakeTerrain, Strays
    <3> QED BY <2>1, <2>2, <3>1 DEF WorkerFlags
  <2>3. CASE Live(worker[w].t)
    <3>1. worker' = [worker EXCEPT ![w].at = "clear"]
          /\ tile' = [tile EXCEPT ![worker[w].t].flags = tile[worker[w].t].flags \cup {"loaded"}]
      BY <1>4, <2>3 DEF MakeTerrain, Goes
    <3>2. tile'[worker[w].t].flags = tile[worker[w].t].flags \cup {"loaded"}
          /\ \A t \in Tiles : t # worker[w].t => tile'[t] = tile[t]
      BY <2>1, <3>1, FlagsAt
    <3>3. worker'[w].at = "clear"
      BY <1>0, <3>1 DEF TypeWorker, DoingType
    <3>4. \A t \in Tiles : WorkerFlags(w, t)
      BY <3>2 DEF WorkerFlags
    <3> QED BY <2>1, <3>2, <3>3, <3>4
  <2> QED BY <2>2, <2>3
<1>5. CASE WriteFlags(w)
  <2>1. worker[w].t \in Tiles /\ worker[w].at = "write"
    BY <1>5 DEF WriteFlags, Busy
  <2>2. UNCHANGED tile \/ tile' = [tile EXCEPT ![worker[w].t].flags = worker[w].saw \ {"loading"}]
    BY <1>5 DEF WriteFlags
  <2>3. UNCHANGED worker \/ worker'[w].at = "idle"
    BY <1>5 DEF WriteFlags, Strays, Idle, Doing, TypeWorker
  <2>4. \A t \in Tiles : WorkerFlags(w, t)
    <3>1. CASE UNCHANGED tile
      BY <3>1 DEF WorkerFlags
    <3>2. CASE tile' = [tile EXCEPT ![worker[w].t].flags = worker[w].saw \ {"loading"}]
      <4>1. tile'[worker[w].t].flags = worker[w].saw \ {"loading"}
            /\ \A t \in Tiles : t # worker[w].t => tile'[t] = tile[t]
        BY <2>1, <3>2, FlagsAt
      <4> QED BY <2>1, <4>1 DEF WorkerFlags
    <3> QED BY <2>2, <3>1, <3>2
  <2> QED BY <2>1, <2>3, <2>4 DEF MakeTerrain
<1>6. CASE Delete(w)
  <2>1. PICK u \in Tiles :
          /\ u = worker[w].t /\ worker[w].at = "unload"
          /\ \A v \in Tiles : v # u => tile'[v] = tile[v]
          /\ UNCHANGED tile \/ tile'[u].mem = "freed"
          /\ UNCHANGED worker \/ worker' = [worker EXCEPT ![w] = Idle]
    BY <1>6, Deleted
  <2>2. \A t \in Tiles : WorkerFlags(w, t)
    BY <2>1 DEF WorkerFlags
  <2>3. worker'[w].at # "write"
    BY <2>1 DEF TypeWorker, Idle, Doing
  <2> QED BY <2>1, <2>2, <2>3 DEF MakeTerrain
<1>7. CASE ReadFlags(w)
  <2>1. UNCHANGED tile /\ worker[w].at = "clear" /\ worker[w].t \in Tiles
    BY <1>7 DEF ReadFlags, Busy
  <2>2. \/ UNCHANGED worker
        \/ /\ Live(worker[w].t)
           /\ worker' = [worker EXCEPT ![w] = Doing("write", worker[w].t, tile[worker[w].t].flags)]
    BY <1>7 DEF ReadFlags, Strays
  <2>3. \/ worker'[w] = worker[w]
        \/ /\ worker'[w].t = worker[w].t /\ Live(worker[w].t)
           /\ worker'[w].saw = tile[worker[w].t].flags
    BY <2>2 DEF TypeWorker, Doing
  <2> QED BY <2>1, <2>3 DEF WorkerFlags, MakeTerrain
<1>8. CASE (FindTask(w) /\ TakeUnload(w)) \/ ReadFile(w) \/ CheckFlags(w)
  <2>1. UNCHANGED tile /\ worker[w].at \in {"idle", "file", "check"}
    BY <1>8 DEF FindTask, TakeUnload, ReadFile, CheckFlags
  <2>2. worker'[w].at # "write"
    BY <1>8, <2>1, Moves DEF WorkerStep, Onward
  <2> QED BY <2>1, <2>2 DEF WorkerFlags, MakeTerrain
<1> QED BY <1>1, <1>2, <1>3, <1>4, <1>5, <1>6, <1>7, <1>8 DEF WorkerStep

LEMMA WorkerInits ==
  ASSUME Types, Busy, CutOff, LoadedOnce, InitsLoaded, [Next]_vars, NEW w \in Workers, WorkerStep(w)
  PROVE  InitsLoaded'
<1> USE DEF Types
<1> SUFFICES ASSUME NEW t \in Tiles, t \in Range(inits'), ~Cut(t, Early)'
             PROVE  /\ tile'[t].cut # "over"
                    /\ tile'[t].mem = "live" => "loaded" \in tile'[t].flags
                    /\ \A v \in Workers : worker'[v].t = t /\ worker'[v].at = "write" => "loaded" \in worker'[v].saw
                    /\ Asked(t)' => "loaded" \in cull'.saw
  BY DEF InitsLoaded
<1>1. tile'[t].cut = tile[t].cut /\ cull' = cull /\ ~Cut(t, Early)
      /\ (tile'[t].mem = "live" => tile[t].mem = "live")
  BY WorkerLife DEF Cut
<1>2. \A v \in Workers : v # w => worker'[v] = worker[v]
  BY Moves
<1>3. /\ WorkerFlags(w, t)
      /\ \/ worker'[w].at # "write"
         \/ worker'[w] = worker[w]
         \/ /\ worker'[w].t = worker[w].t /\ Live(worker[w].t)
            /\ worker'[w].saw = tile[worker[w].t].flags
      /\ MakeTerrain(w) /\ Live(worker[w].t) =>
           /\ "loaded" \in tile'[worker[w].t].flags
           /\ worker'[w].at = "clear" /\ worker[w].at = "mcnk"
  BY WorkerMarks
<1>4. CASE t \in Range(inits)
  <2>1. /\ tile[t].cut # "over"
        /\ tile[t].mem = "live" => "loaded" \in tile[t].flags
        /\ \A v \in Workers : worker[v].t = t /\ worker[v].at = "write" => "loaded" \in worker[v].saw
        /\ Asked(t) => "loaded" \in cull.saw
    BY <1>1, <1>4 DEF InitsLoaded
  <2>2. tile'[t].mem = "live" => "loaded" \in tile'[t].flags
    BY <1>1, <1>3, <2>1 DEF WorkerFlags
  <2>3. \A v \in Workers : worker'[v].t = t /\ worker'[v].at = "write" => "loaded" \in worker'[v].saw
    BY <1>2, <1>3, <2>1 DEF Live
  <2> QED BY <1>1, <2>1, <2>2, <2>3 DEF Asked
<1>5. CASE t \notin Range(inits)
  <2>1. inits' # inits
    BY <1>5
  <2>2. inits' = Append(inits, worker[w].t) /\ MakeTerrain(w) /\ Live(worker[w].t) /\ worker[w].t \in Tiles
    BY <2>1, WorkerStores
  <2>3. t = worker[w].t
    <3>1. PICK e \in Tiles : e = worker[w].t
      BY <2>2
    <3>2. inits \in Seq(Tiles)
      BY DEF TypeInits
    <3>3. Range(Append(inits, e)) = Range(inits) \cup {e}
      BY <3>2, RangeAppend
    <3> QED BY <1>5, <2>2, <3>1, <3>3
  <2>4. "loaded" \in tile'[t].flags /\ worker'[w].at = "clear" /\ worker[w].at = "mcnk"
    BY <1>3, <2>2, <2>3
  <2>5. tile[t].cut = "no"
    BY <1>1, <2>3, <2>4 DEF LoadedOnce, LoadAts, Cut, Early
  <2>6. ~Asked(t)
    BY <2>5 DEF CutOff, Asked
  <2>7. \A v \in Workers : ~(worker'[v].t = t /\ worker'[v].at = "write")
    BY <1>2, <2>3, <2>4 DEF LoadedOnce, LoadAts
  <2> QED BY <1>1, <2>4, <2>5, <2>6, <2>7 DEF Asked
<1> QED BY <1>4, <1>5

LEMMA InitsLoadedKept ==
  ASSUME Types, Busy, ArrayListed, CutOff, Handshake, LoadedOnce, ListsStored, InitsLoaded, [Next]_vars
  PROVE  InitsLoaded'
<1> USE DEF Types
<1>1. CASE CullLoad
  <2>1. UNCHANGED <<worker, inits>> /\ cull'.at # "ask"
    BY <1>1, Loading
  <2>2. CASE UNCHANGED tile
    BY <2>1, <2>2 DEF InitsLoaded, Cut, Asked
  <2>3. ASSUME NEW p \in Places, NEW u \in Tiles, tile[u].mem = "unborn", LoadTile(p, u)
        PROVE  InitsLoaded'
    <3>1. u \notin Range(inits)
      BY <2>3 DEF ListsStored
    <3>2. \A t \in Tiles : t # u => tile'[t] = tile[t]
      BY <2>3, Born
    <3> QED BY <2>1, <3>1, <3>2 DEF InitsLoaded, Cut, Asked
  <2> QED BY <1>1, <2>2, <2>3, Loading
<1>2. CASE CullUnload
  <2>1. PICK u \in Tiles :
          /\ tile[u].mem = "live" /\ tile[u].cut = "no" /\ tile'[u].cut = OnItsWay(u)
          /\ tile'[u].flags = tile[u].flags
          /\ \A t \in Tiles : t # u => tile'[t] = tile[t]
          /\ cull'.at = "ask" /\ cull'.t = u /\ cull'.saw = tile[u].flags
          /\ UNCHANGED <<inits, worker>>
    BY <1>2, Condemned
  <2> SUFFICES ASSUME NEW t \in Tiles, t \in Range(inits'), ~Cut(t, Early)'
               PROVE  /\ tile'[t].cut # "over"
                      /\ tile'[t].mem = "live" => "loaded" \in tile'[t].flags
                      /\ \A v \in Workers : worker'[v].t = t /\ worker'[v].at = "write" => "loaded" \in worker'[v].saw
                      /\ Asked(t)' => "loaded" \in cull'.saw
    BY DEF InitsLoaded
  <2>2. CASE t = u
    <3>1. ~Cut(t, Early) /\ t \in Range(inits)
      BY <2>1, <2>2 DEF Cut, Early
    <3>2. /\ "loaded" \in tile[t].flags
          /\ \A v \in Workers : worker[v].t = t /\ worker[v].at = "write" => "loaded" \in worker[v].saw
      BY <2>1, <2>2, <3>1 DEF InitsLoaded
    <3>3. OnItsWay(u) # "over"
      BY <2>2, <3>1 DEF OnItsWay
    <3> QED BY <2>1, <2>2, <3>2, <3>3
  <2>3. CASE t # u
    <3>1. tile'[t] = tile[t] /\ ~Cut(t, Early) /\ t \in Range(inits) /\ ~Asked(t)'
      BY <2>1, <2>3 DEF Cut, Asked
    <3> QED BY <2>1, <3>1 DEF InitsLoaded
  <2> QED BY <2>2, <2>3
<1>3. CASE AskUnload
  <2>1. /\ SameLife /\ UNCHANGED <<inits, worker>>
        /\ cull.at = "ask" /\ cull'.at = "objects" /\ cull.t \in Tiles
        /\ tile' = [tile EXCEPT ![cull.t].flags = cull.saw \ {"loading"}]
    BY <1>3, AskUnloadSame
  <2>2. tile'[cull.t].flags = cull.saw \ {"loading"}
        /\ \A t \in Tiles : t # cull.t => tile'[t] = tile[t]
    BY <2>1, FlagsAt
  <2> QED BY <2>1, <2>2 DEF InitsLoaded, Cut, Asked, SameLife
<1>4. CASE AskObjects
  <2>1. SameLife /\ UNCHANGED <<inits, worker>> /\ cull'.at = "unload"
    BY <1>4, AskObjectsSame
  <2>2. \A t \in Tiles : tile'[t].flags = tile[t].flags
    <3>1. cull.t \in Tiles /\ tile' = [tile EXCEPT ![cull.t].nb = FALSE, ![cull.t].lists = FALSE]
      BY <1>4 DEF AskObjects, Busy
    <3>2. tile[cull.t] \in TileType
      BY <3>1 DEF TypeTile
    <3> QED BY <3>1, <3>2 DEF TypeTile, TileType
  <2> QED BY <2>1, <2>2 DEF InitsLoaded, Cut, Asked, SameLife
<1>5. CASE InitTile
  <2>1. /\ SameLife /\ UNCHANGED <<worker, cull>>
        /\ inits' = Tail(inits) /\ Head(inits) \in Tiles /\ inits # <<>>
        /\ \/ UNCHANGED tile
           \/ tile' = [tile EXCEPT ![Head(inits)].flags = tile[Head(inits)].flags \cup {"init"}]
    BY <1>5, InitTileSame
  <2>2. Range(inits') \subseteq Range(inits)
    BY <2>1, RangeTail DEF TypeInits
  <2>3. \A t \in Tiles : tile[t].flags \subseteq tile'[t].flags
    <3>1. CASE UNCHANGED tile
      BY <3>1
    <3>2. CASE tile' = [tile EXCEPT ![Head(inits)].flags = tile[Head(inits)].flags \cup {"init"}]
      <4>1. tile'[Head(inits)].flags = tile[Head(inits)].flags \cup {"init"}
            /\ \A t \in Tiles : t # Head(inits) => tile'[t] = tile[t]
        BY <2>1, <3>2, FlagsAt
      <4> QED BY <4>1
    <3> QED BY <2>1, <3>1, <3>2
  <2> QED BY <2>1, <2>2, <2>3 DEF InitsLoaded, Cut, Asked, SameLife
<1>6. ASSUME NEW w \in Workers, WorkerStep(w) PROVE InitsLoaded'
  BY <1>6, WorkerInits
<1>7. CASE Quiet
  BY <1>7 DEF Quiet, InitsLoaded, Cut, Asked, Condemning
<1> QED BY <1>1, <1>2, <1>3, <1>4, <1>5, <1>6, <1>7, QuietSteps

-----------------------------------------------------------------------------
(* The map and what is drawn.                                              *)

LEMMA MapListedKept ==
  ASSUME Types, Busy, ArrayListed, CutOff, Handshake, Deletion, MapListed, [Next]_vars
  PROVE  MapListed'
<1> USE DEF Types
<1>1. CASE CullLoad
  <2>1. CASE UNCHANGED <<tile, tileAt>>
    BY <2>1 DEF MapListed, Live
  <2>2. ASSUME NEW p \in Places, NEW u \in Tiles, tileAt[p] = None, LoadTile(p, u)
        PROVE  MapListed'
    <3>1. /\ \A t \in Tiles : t # u => tile'[t] = tile[t]
          /\ tile'[u].mem = "live" /\ tile'[u].place = p
      BY <2>2, Born
    <3>2. tileAt' = [tileAt EXCEPT ![p] = u]
      BY <2>2 DEF LoadTile
    <3>3. \A t \in Tiles : t # None
      BY TilesAreNat
    <3> QED BY <2>2, <3>1, <3>2, <3>3 DEF MapListed, Live, TypeMap
  <2> QED BY <1>1, <2>1, <2>2, Loading
<1>2. CASE CullUnload
  <2>1. PICK p \in Places, u \in Tiles :
          /\ tileAt[p] = u /\ tileAt' = [tileAt EXCEPT ![p] = None]
          /\ tile'[u].place = p /\ tile'[u].cut = OnItsWay(u)
          /\ \A t \in Tiles : t # u => tile'[t] = tile[t]
    BY <1>2, Condemned
  <2>2. OnItsWay(u) # "no"
    BY OnItsWayType DEF Stages
  <2> QED BY <2>1, <2>2 DEF MapListed, Live, TypeMap
<1>3. ASSUME UNCHANGED tileAt, NEW w \in Workers, Delete(w) PROVE MapListed'
  <2>1. PICK u \in Tiles :
          /\ \A t \in Tiles : t # u => tile'[t] = tile[t]
          /\ UNCHANGED tile \/ tile'[u].mem = "freed"
    BY <1>3, Deleted
  <2> QED BY <1>3, <2>1 DEF MapListed, Live
<1>4. CASE UNCHANGED tileAt /\ SameLife
  BY <1>4 DEF MapListed, Live, SameLife
<1>5. ASSUME NEW w \in Workers, Delete(w) PROVE UNCHANGED tileAt
  BY <1>5, Deleted
<1> QED BY <1>1, <1>2, <1>3, <1>4, <1>5, MapSteps, LifeSteps

(* who changes what is drawn                                               *)
LEMMA DrawnSteps ==
  ASSUME [Next]_vars
  PROVE  CullDraw \/ NewFrame \/ UNCHANGED drawn
<1>1. CASE CullStart \/ CullLoad \/ CullUnload \/ CullUnloaded \/ AskUnload \/ AskObjects
        \/ Render \/ WaitCull \/ InitTile \/ InitOver \/ DoGc \/ Look \/ LookAsync \/ Quit
        \/ UNCHANGED vars
  BY <1>1 DEF CullStart, CullLoad, CullUnload, CullUnloaded, AskUnload, AskObjects, Render, WaitCull,
              InitTile, InitOver, DoGc, Look, LookAsync, Quit, vars, mapVars
<1>2. ASSUME NEW w \in Workers, WorkerStep(w) PROVE UNCHANGED drawn
  BY <1>2 DEF WorkerStep, FindTask, ReadFile, StoreNb, StoreLists, CheckFlags, MakeTerrain,
              ReadFlags, WriteFlags, Delete, mapVars
<1> QED BY <1>1, <1>2, NextCases DEF WorkerStep

(* who moves the main thread and the cull thread                           *)
LEMMA HandSteps ==
  ASSUME [Next]_vars
  PROVE  \/ CullUnload \/ AskUnload \/ AskObjects \/ CullDraw \/ NewFrame
         \/ CullUnloaded \/ Quit
         \/ UNCHANGED <<phase, main, cull>>
         \/ /\ UNCHANGED <<phase, main, drawn, gc>>
            /\ cull.at # "idle" /\ cull'.at # "idle" /\ ~Condemning /\ ~Condemning'
         \/ UNCHANGED <<cull, drawn>> /\ main' \notin {"render", "delete"}
            /\ (phase' = "loop" => phase = "loop") /\ main # "delete"
<1>1. CASE CullStart \/ CullLoad
  <2>1. UNCHANGED <<phase, main, drawn, gc>> /\ cull.at \in {"start", "load"}
    BY <1>1 DEF CullStart, CullLoad, loaderVars
  <2>2. cull'.at \in {"draw", "load", "unload"}
    BY <1>1 DEF CullStart, CullLoad, Doing
  <2> QED BY <2>1, <2>2 DEF Condemning
<1>2. CASE Render \/ WaitCull \/ InitTile \/ InitOver \/ DoGc \/ Look \/ LookAsync
  BY <1>2 DEF Render, WaitCull, InitTile, InitOver, DoGc, Look, LookAsync, mapVars
<1>3. CASE UNCHANGED vars
  BY <1>3 DEF vars
<1>4. ASSUME NEW w \in Workers, WorkerStep(w) PROVE UNCHANGED <<phase, main, cull>>
  BY <1>4 DEF WorkerStep, FindTask, ReadFile, StoreNb, StoreLists, CheckFlags, MakeTerrain,
              ReadFlags, WriteFlags, Delete
<1> QED BY <1>1, <1>2, <1>3, <1>4, NextCases DEF WorkerStep

(* a tile that is on the map, or not yet handed to the workers             *)
NotHandedOver(t) == tile[t].cut = "no" \/ (\E i \in DOMAIN gc[CullSlot] : gc[CullSlot][i] = t) \/ Asked(t)

LEMMA DrawnStay ==
  ASSUME Types, Busy, Deletion, [Next]_vars, NEW t \in Tiles, Live(t), NotHandedOver(t)
  PROVE  CullUnload \/ (Live(t)' /\ tile'[t].cut = tile[t].cut)
<1> USE DEF Types
<1>1. CASE CullLoad
  <2>1. CASE UNCHANGED tile
    BY <2>1 DEF Live
  <2>2. ASSUME NEW p \in Places, NEW u \in Tiles, tile[u].mem = "unborn", LoadTile(p, u)
        PROVE  tile'[t] = tile[t]
    BY <2>2, Born DEF Live
  <2> QED BY <1>1, <2>1, <2>2, Loading DEF Live
<1>2. CASE SameLife
  BY <1>2 DEF SameLife, Live
<1>3. ASSUME NEW w \in Workers, Delete(w) PROVE tile'[t] = tile[t]
  <2>1. PICK u \in Tiles :
          /\ u = worker[w].t /\ worker[w].at = "unload"
          /\ \A v \in Tiles : v # u => tile'[v] = tile[v]
    BY <1>3, Deleted
  <2>2. ~NotHandedOver(u)
    BY <2>1, WorkerUnloads DEF Deletion, NotHandedOver
  <2> QED BY <2>1, <2>2
<1> QED BY <1>1, <1>2, <1>3, LifeSteps DEF Live

LEMMA DrawnLiveKept ==
  ASSUME Types, Busy, ArrayListed, CutOff, Handshake, Deletion, DrawnLive, [Next]_vars
  PROVE  DrawnLive'
<1> USE DEF Types
<1>0. /\ drawn[1] \in SUBSET Tiles /\ drawn[2] \in SUBSET Tiles
      /\ main = "render" => \A t \in drawn[1] : Live(t) /\ NotHandedOver(t)
  BY DEF TypeDrawn, DrawnLive, NotHandedOver
<1>1. CASE CullDraw
  <2>1. cull.at = "draw" /\ cull'.at = "idle" /\ UNCHANGED <<main, phase, tile, gc>>
    BY <1>1 DEF CullDraw, Idle, Doing, loaderVars
  <2> DEFINE seen == {tileAt[tiles[i]] : i \in DOMAIN tiles}
             x == {t \in seen : "init" \in tile[t].flags}
  <2>2. drawn' = [drawn EXCEPT ![2] = x]
    BY <1>1 DEF CullDraw
  <2>3. \A t \in x : tile[t].mem = "live" /\ tile[t].cut = "no"
    <3> SUFFICES ASSUME NEW i \in DOMAIN tiles
                 PROVE  tile[tileAt[tiles[i]]].mem = "live" /\ tile[tileAt[tiles[i]]].cut = "no"
      OBVIOUS
    <3> QED BY ListedPlace DEF ArrayListed
  <2> HIDE DEF x
  <2>4. drawn'[1] = drawn[1] /\ drawn'[2] = x
    BY <2>2 DEF TypeDrawn
  <2> QED BY <2>1, <2>3, <2>4 DEF DrawnLive, Live, Asked
<1>2. CASE NewFrame
  <2>1. main = "frame" /\ main' = "render" /\ drawn' = <<drawn[2], {}>> /\ UNCHANGED <<tile, phase>>
        /\ cull'.at = "start"
    BY <1>2 DEF NewFrame, Doing
  <2>2. phase = "loop"
    BY <2>1 DEF Handshake
  <2>3. \A t \in drawn[2] : Live(t) /\ tile[t].cut = "no"
    BY <2>1, <2>2 DEF DrawnLive
  <2>4. drawn'[1] = drawn[2] /\ drawn'[2] = {}
    BY <2>1
  <2> QED BY <2>1, <2>3, <2>4 DEF DrawnLive, Live
<1>3. CASE CullUnload
  <2>1. PICK u \in Tiles :
          /\ tile'[u].mem = "live"
          /\ \A t \in Tiles : t # u => tile'[t] = tile[t]
          /\ cull.at = "unload" /\ cull'.at = "ask" /\ cull'.t = u
          /\ UNCHANGED <<main, phase, drawn, gc>>
    BY <1>3, Condemned
  <2>2. main # "delete" => drawn[2] = {}
    BY <2>1 DEF DrawnLive
  <2>3. ASSUME main = "render", NEW t \in drawn[1]
        PROVE  Live(t)' /\ (tile'[t].cut = "no" \/ (\E i \in DOMAIN gc[CullSlot] : gc[CullSlot][i] = t) \/ Asked(t)')
    <3>1. t \in Tiles /\ Live(t) /\ NotHandedOver(t)
      BY <1>0, <2>3
    <3>2. CASE t = u
      BY <2>1, <3>2 DEF Live, Asked
    <3>3. CASE t # u
      BY <2>1, <3>1, <3>3 DEF Live, Asked, NotHandedOver
    <3> QED BY <3>2, <3>3
  <2> QED BY <2>1, <2>2, <2>3 DEF DrawnLive
<1>4. ASSUME UNCHANGED drawn, ~CullUnload, ~NewFrame, ~CullDraw,
             main' = "render" => main = "render",
             main' # "delete" /\ phase' = "loop" => main # "delete" /\ phase = "loop",
             cull'.at # "idle" /\ main' # "delete" => cull.at # "idle" /\ main # "delete",
             main = "render" => \A t \in Tiles : NotHandedOver(t) =>
               \/ tile[t].cut = "no"
               \/ \E i \in DOMAIN gc'[CullSlot] : gc'[CullSlot][i] = t
               \/ Asked(t)'
      PROVE  DrawnLive'
  <2>1. ASSUME main' # "delete", phase' = "loop", NEW t \in drawn'[2]
        PROVE  Live(t)' /\ tile'[t].cut = "no"
    <3>1. t \in Tiles /\ Live(t) /\ tile[t].cut = "no"
      BY <1>0, <1>4, <2>1 DEF DrawnLive
    <3> QED BY <1>4, <3>1, DrawnStay DEF NotHandedOver
  <2>2. cull'.at # "idle" /\ main' # "delete" => drawn'[2] = {}
    BY <1>4 DEF DrawnLive
  <2>3. ASSUME main' = "render", NEW t \in drawn'[1] PROVE Live(t)' /\ NotHandedOver(t)'
    <3>1. t \in Tiles /\ Live(t) /\ NotHandedOver(t)
      BY <1>0, <1>4, <2>3
    <3>2. Live(t)' /\ tile'[t].cut = tile[t].cut
      BY <1>4, <3>1, DrawnStay
    <3> QED BY <1>4, <2>3, <3>1, <3>2 DEF NotHandedOver
  <2> QED BY <2>1, <2>2, <2>3 DEF DrawnLive, NotHandedOver
<1>5. CASE AskUnload
  <2>1. /\ UNCHANGED <<main, phase, drawn>> /\ cull.at = "ask" /\ cull'.at = "objects"
        /\ gc' = [gc EXCEPT ![CullSlot] = Append(gc[CullSlot], cull.t)] /\ cull.t \in Tiles
    BY <1>5, AskUnloadSame
  <2>2. gc[1] \in Seq(Tiles) /\ gc'[1] = Append(gc[1], cull.t)
    BY <2>1 DEF CullSlot, TypeGc, Slots
  <2>3. /\ gc'[1][Len(gc[1]) + 1] = cull.t /\ Len(gc[1]) + 1 \in DOMAIN gc'[1]
        /\ \A i \in DOMAIN gc[1] : i \in DOMAIN gc'[1] /\ gc'[1][i] = gc[1][i]
    BY <2>1, <2>2
  <2>4. ASSUME NEW t \in Tiles, NotHandedOver(t)
        PROVE  tile[t].cut = "no" \/ \E i \in DOMAIN gc'[CullSlot] : gc'[CullSlot][i] = t
    BY <2>3, <2>4 DEF NotHandedOver, Asked, CullSlot
  <2>5. ~CullUnload /\ ~NewFrame /\ ~CullDraw
    BY <2>1 DEF CullUnload, NewFrame, CullDraw, Handshake
  <2> QED BY <2>1, <2>4, <2>5, <1>4
<1>6. CASE AskObjects
  <2>1. UNCHANGED <<main, phase, gc, drawn>> /\ cull.at = "objects" /\ cull'.at = "unload"
    BY <1>6, AskObjectsSame
  <2>2. ~CullUnload /\ ~NewFrame /\ ~CullDraw
    BY <2>1 DEF CullUnload, NewFrame, CullDraw, Handshake
  <2> QED BY <2>1, <2>2, <1>4 DEF NotHandedOver, Asked
<1>7. CASE CullUnloaded
  <2>1. cull.at = "unload" /\ UNCHANGED <<gc, drawn, tile>>
    BY <1>7 DEF CullUnloaded, loaderVars, mapVars
  <2>2. \/ main' = "look" /\ phase' = "drain" /\ cull'.at = "idle"
        \/ UNCHANGED <<main, phase>> /\ cull'.at = "draw" /\ main # "delete"
    BY <1>7 DEF CullUnloaded, Idle, Doing
  <2> QED BY <2>1, <2>2 DEF DrawnLive, Live, Asked
<1>8. CASE Quit
  BY <1>8 DEF Quit, DrawnLive
<1>9. CASE DoGc
  <2>1. main = "gc" /\ main' \in {"frame", "look"} /\ UNCHANGED <<phase, cull, drawn, tile>>
    BY <1>9 DEF DoGc, mapVars
  <2> QED BY <2>1 DEF DrawnLive, Live, Handshake
<1>10. ASSUME UNCHANGED drawn, UNCHANGED gc, ~CullUnload, ~NewFrame, ~CullDraw,
              UNCHANGED <<phase, main, cull>>
       PROVE  DrawnLive'
  BY <1>4, <1>10 DEF NotHandedOver, Asked
<1>11. ASSUME UNCHANGED <<phase, main, drawn, gc>>, ~CullUnload, ~NewFrame, ~CullDraw,
              cull.at # "idle", cull'.at # "idle", ~Condemning, ~Condemning'
       PROVE  DrawnLive'
  BY <1>4, <1>11 DEF NotHandedOver, Asked, Condemning
<1>12. ASSUME UNCHANGED <<cull, drawn>>, main' \notin {"render", "delete"}, ~CullUnload, ~NewFrame, ~CullDraw,
              phase' = "loop" => phase = "loop", main # "delete"
       PROVE  DrawnLive'
  <2>1. ASSUME phase' = "loop", NEW t \in drawn'[2] PROVE Live(t)' /\ tile'[t].cut = "no"
    <3>1. t \in Tiles /\ Live(t) /\ tile[t].cut = "no"
      BY <1>0, <1>12, <2>1 DEF DrawnLive
    <3> QED BY <1>12, <3>1, DrawnStay DEF NotHandedOver
  <2> QED BY <1>12, <2>1 DEF DrawnLive
<1> QED BY <1>1, <1>2, <1>3, <1>5, <1>6, <1>7, <1>8, <1>9, <1>10, <1>11, <1>12,
           HandSteps, DrawnSteps, GcSteps

-----------------------------------------------------------------------------
(* Where it goes wrong.                                                    *)

LEMMA FaultOf ==
  ASSUME faults = {}, NEW at, NEW t, Fault(at, t), NEW f \in faults'
  PROVE  f.at = at /\ f.t = t
  BY DEF Fault

(* a load that outlives its tile                                           *)
LEMMA StrayLoads ==
  ASSUME Types, Busy, Deletion, LoadedOnce, NEW w \in Workers, worker[w].at \in LoadAts, ~Live(worker[w].t)
  PROVE  tile[worker[w].t].cut \in {"queued", "loading"}
<1>1. worker[w].t \in Tiles
  BY DEF Busy, LoadAts
<1>2. tile[worker[w].t].mem = "freed"
  <2>1. tile[worker[w].t].mem \in {"unborn", "live", "freed"}
    BY <1>1 DEF Types, TypeTile, TileType
  <2> QED BY <2>1 DEF LoadedOnce, Live
<1>3. tile[worker[w].t].cut # "no"
  BY <1>1, <1>2 DEF Deletion
<1> QED BY <1>3 DEF LoadedOnce, Cut

(* once the map is gone, every tile was condemned                          *)
LEMMA MapGoneCut ==
  ASSUME Types, ArrayListed, Handshake, MapListed, MapGone, NEW t \in Tiles, Live(t)
  PROVE  tile[t].cut # "no"
<1>1. tiles = <<>>
  BY DEF Handshake, MapGone
<1>2. \A p \in Places : tileAt[p] = None
  <2>1. Range(tiles) = {}
    BY <1>1 DEF Range
  <2> QED BY <2>1 DEF ArrayListed
<1>3. t # None
  BY TilesAreNat
<1> QED BY <1>2, <1>3 DEF MapListed

LEMMA FaultsKnownKept ==
  ASSUME Types, Busy, ArrayListed, CutOff, Handshake, Deletion, LoadedOnce, ListsStored, InitsLoaded,
         MapListed, DrawnLive, FaultsKnown, [Next]_vars
  PROVE  FaultsKnown'
<1> USE DEF Types
<1>0. ASSUME faults' = {} PROVE FaultsKnown'
  BY <1>0 DEF FaultsKnown
<1>1. CASE UNCHANGED vars
  BY <1>1 DEF FaultsKnown, MapGone, vars
<1> SUFFICES ASSUME faults = {} PROVE FaultsKnown'
  BY <1>1, FaultsStay
<1>2. CASE AskObjects
  <2>1. PICK t \in Tiles : t = cull.t
    BY <1>2 DEF AskObjects, Busy
  <2>2. CASE ~(tile[t].nb /\ ~tile[t].lists)
    <3>1. faults' = faults
      BY <1>2, <2>1, <2>2 DEF AskObjects
    <3> QED BY <3>1, <1>0
  <2>3. CASE tile[t].nb /\ ~tile[t].lists
    <3>1. Fault("objects", t)
      BY <1>2, <2>1, <2>3 DEF AskObjects
    <3>2. PICK w \in Workers : worker[w].at = "lists" /\ worker[w].t = t
      BY <2>3 DEF ListsStored
    <3>3. tile[t].cut \in {"no", "queued", "loading"}
      BY <3>2 DEF LoadedOnce, LoadAts, Cut
    <3>4. tile[t].cut # "no" /\ tile'[t].cut = tile[t].cut
      BY <1>2, <2>1, AskObjectsSame DEF CutOff, SameLife
    <3> QED BY <3>1, <3>3, <3>4, FaultOf DEF FaultsKnown
  <2> QED BY <2>2, <2>3
<1>3. CASE CullDraw
  <2> DEFINE seen == {tileAt[tiles[i]] : i \in DOMAIN tiles}
  <2>1. \A t \in seen : Live(t)
    BY ListedTile DEF Live
  <2>2. faults' = faults \cup {[at |-> "cull", t |-> t] : t \in {u \in seen : ~Live(u)}}
    BY <1>3 DEF CullDraw
  <2> HIDE DEF seen
  <2> QED BY <2>1, <2>2, <1>0
<1>4. CASE Render
  <2>1. faults' = faults \cup {[at |-> "render", t |-> t] : t \in {u \in drawn[1] : ~Live(u)}} /\ main = "render"
    BY <1>4 DEF Render
  <2>2. \A t \in drawn[1] : Live(t)
    BY <2>1 DEF DrawnLive
  <2> QED BY <2>1, <2>2, <1>0
<1>5. CASE InitTile
  <2>1. /\ SameLife /\ UNCHANGED phase /\ Head(inits) \in Tiles /\ inits # <<>>
    BY <1>5, InitTileSame
  <2>2. PICK t \in Tiles : t = Head(inits)
    BY <2>1
  <2>3. t \in Range(inits)
    <3>1. 1 \in DOMAIN inits /\ inits[1] = t
      BY <2>1, <2>2 DEF TypeInits
    <3> QED BY <3>1 DEF Range
  <2>4. tile'[t].cut = tile[t].cut /\ tile[t].cut \in Stages \cup {"no"}
        /\ tile[t].mem \in {"unborn", "live", "freed"}
    BY <2>1 DEF SameLife, TypeTile, TileType
  <2>5. tile[t].mem # "unborn" /\ tile[t].cut # "over"
    BY <2>3 DEF ListsStored, InitsLoaded, Cut, Early
  <2>6. CASE ~Live(t)
    <3>1. Fault("init", t)
      BY <1>5, <2>2, <2>6 DEF InitTile
    <3>2. tile[t].cut # "no"
      BY <2>4, <2>5, <2>6 DEF Deletion, Live
    <3>3. tile'[t].cut \in {"queued", "loading", "waiting"}
      BY <2>4, <2>5, <3>2 DEF Stages
    <3> QED BY <3>1, <3>3, FaultOf DEF FaultsKnown
  <2>7. CASE Live(t) /\ "loaded" \notin tile[t].flags
    <3>1. Fault("assert", t)
      BY <1>5, <2>2, <2>7 DEF InitTile
    <3>2. tile'[t].cut \in {"queued", "loading"}
      BY <2>3, <2>4, <2>7 DEF InitsLoaded, Cut, Early, Live
    <3> QED BY <3>1, <3>2, FaultOf DEF FaultsKnown
  <2>8. CASE Live(t) /\ "loaded" \in tile[t].flags /\ MapGone
    <3>1. Fault("map", t) /\ MapGone'
      BY <1>5, <2>1, <2>2, <2>8 DEF InitTile, MapGone
    <3>2. tile[t].cut # "no"
      BY <2>8, MapGoneCut
    <3>3. tile'[t].cut \in {"queued", "loading", "waiting"}
      BY <2>4, <2>5, <3>2 DEF Stages
    <3> QED BY <3>1, <3>3, FaultOf DEF FaultsKnown
  <2>9. CASE Live(t) /\ "loaded" \in tile[t].flags /\ ~MapGone
    <3>1. faults' = faults
      BY <1>5, <2>2, <2>9 DEF InitTile
    <3> QED BY <3>1, <1>0
  <2> QED BY <2>6, <2>7, <2>8, <2>9
<1>6. ASSUME NEW w \in Workers, WorkerStep(w) PROVE FaultsKnown'
  <2>1. /\ UNCHANGED phase
        /\ \A t \in Tiles : tile'[t].cut = tile[t].cut
    BY <1>6, WorkerLife
  <2>2. CASE FindTask(w) /\ TakeLoad(w)
    <3>1. Head(loads) = loads[1] /\ 1 \in DOMAIN loads
      BY <2>2, LoadTaken
    <3>2. Live(Head(loads))
      BY <3>1 DEF LoadedOnce
    <3>3. faults' = faults
      BY <2>2, <3>2 DEF TakeLoad
    <3> QED BY <3>3, <1>0
  <2>3. CASE Delete(w)
    <3>1. PICK u \in Tiles :
            /\ u = worker[w].t /\ worker[w].at = "unload"
            /\ ~Live(u) \/ UNCHANGED faults
      BY <2>3, Deleted
    <3>2. Live(u)
      BY <3>1, WorkerUnloads DEF Deletion
    <3> QED BY <3>1, <3>2, <1>0
  <2>4. CASE MakeTerrain(w) /\ Live(worker[w].t) /\ MapGone
    <3>1. worker[w].at = "mcnk" /\ Fault("map", worker[w].t) /\ worker[w].t \in Tiles /\ MapGone'
      BY <2>1, <2>4 DEF MakeTerrain, MapGone, Busy
    <3>2. tile[worker[w].t].cut \in {"no", "queued", "loading"}
      BY <3>1 DEF LoadedOnce, LoadAts, Cut
    <3>3. tile[worker[w].t].cut # "no"
      BY <2>4, <3>1, MapGoneCut
    <3>4. PICK t \in Tiles : t = worker[w].t
      BY <3>1
    <3> QED BY <2>1, <3>1, <3>2, <3>3, <3>4, FaultOf DEF FaultsKnown
  <2>5. CASE UNCHANGED faults
    BY <2>5, <1>0
  <2>6. CASE Fault("load", worker[w].t) /\ ~Live(worker[w].t) /\ worker[w].at \in LoadAts
    <3>1. PICK t \in Tiles : t = worker[w].t
      BY <2>6 DEF Busy, LoadAts
    <3>2. tile[t].cut \in {"queued", "loading"}
      BY <2>6, <3>1, StrayLoads
    <3> QED BY <2>1, <2>6, <3>1, <3>2, FaultOf DEF FaultsKnown
  <2>7. \/ FindTask(w) /\ TakeLoad(w)
        \/ Delete(w)
        \/ MakeTerrain(w) /\ Live(worker[w].t) /\ MapGone
        \/ UNCHANGED faults
        \/ Fault("load", worker[w].t) /\ ~Live(worker[w].t) /\ worker[w].at \in LoadAts
    BY <1>6 DEF WorkerStep, FindTask, TakeUnload, ReadFile, StoreNb, StoreLists, CheckFlags, MakeTerrain,
                ReadFlags, WriteFlags, Strays, LoadAts
  <2> QED BY <2>2, <2>3, <2>4, <2>5, <2>6, <2>7
<1>7. CASE CullStart \/ CullLoad \/ CullUnload \/ CullUnloaded \/ AskUnload
        \/ NewFrame \/ WaitCull \/ InitOver \/ DoGc \/ Look \/ LookAsync \/ Quit
  <2>1. UNCHANGED faults
    BY <1>7 DEF CullStart, CullLoad, CullUnload, CullUnloaded, AskUnload, NewFrame, WaitCull,
                InitOver, DoGc, Look, LookAsync, Quit
  <2> QED BY <2>1, <1>0
<1> QED BY <1>1, <1>2, <1>3, <1>4, <1>5, <1>6, <1>7, NextCases DEF WorkerStep

-----------------------------------------------------------------------------
(* The references, told by tile.                                           *)

HeldFor(t, k) == Live(t) /\ k \in KeysOf(t) /\ Holds(t)
LeftFor(t, k) == tile[t].mem = "freed" /\ Cut(t, Early) /\ k \in KeysOf(t)
Holders(k) == {t \in Tiles : HeldFor(t, k)}
Leavers(k) == {t \in Tiles : LeftFor(t, k)}
Held(k) ==
  refs[k] \in Cardinality(Holders(k))..(Cardinality(Holders(k)) + Cardinality(Leavers(k)))
RefsHeld == \A k \in Keys : Held(k)

LEMMA HeldSame ==
  ASSUME NEW k, Held(k), refs'[k] = refs[k],
         \A t \in Tiles : (HeldFor(t, k)' <=> HeldFor(t, k)) /\ (LeftFor(t, k)' <=> LeftFor(t, k))
  PROVE  Held(k)'
<1>1. Holders(k)' = Holders(k)
  BY DEF Holders
<1>2. Leavers(k)' = Leavers(k)
  BY DEF Leavers
<1> QED BY <1>1, <1>2 DEF Held

(* a reference that comes and goes with what one tile holds                *)
LEMMA HeldMoved ==
  ASSUME NEW k \in Keys, Held(k), TypeRefs, TypeRefs', NEW u \in Tiles,
         \A t \in Tiles : t # u => /\ HeldFor(t, k)' <=> HeldFor(t, k)
                                   /\ LeftFor(t, k)' <=> LeftFor(t, k),
         \/ /\ LeftFor(u, k)' <=> LeftFor(u, k)
            /\ refs'[k] + (IF HeldFor(u, k) THEN 1 ELSE 0)
                 = refs[k] + (IF HeldFor(u, k)' THEN 1 ELSE 0)
         \/ ~LeftFor(u, k) /\ LeftFor(u, k)' /\ ~HeldFor(u, k)' /\ refs'[k] = refs[k]
  PROVE  Held(k)'
<1> DEFINE A == Holders(k)
           C == Leavers(k)
<1>1. PICK B \in SUBSET Tiles : B = Holders(k)'
  BY DEF Holders
<1>2. PICK D \in SUBSET Tiles : D = Leavers(k)'
  BY DEF Leavers
<1>3. /\ A \in SUBSET Tiles /\ C \in SUBSET Tiles
      /\ \A t \in Tiles : t # u => (t \in A <=> t \in B) /\ (t \in C <=> t \in D)
      /\ u \in A <=> HeldFor(u, k)
      /\ u \in B <=> HeldFor(u, k)'
      /\ u \in C <=> LeftFor(u, k)
      /\ u \in D <=> LeftFor(u, k)'
  BY <1>1, <1>2 DEF Holders, Leavers
<1>4. IsFiniteSet(Tiles)
  BY WorkersAndTilesAreFinite
<1>5. refs[k] \in Cardinality(A)..(Cardinality(A) + Cardinality(C)) /\ refs[k] \in Int /\ refs'[k] \in Int
  BY DEF Held, TypeRefs
<1> HIDE DEF A, C
<1>6. /\ Cardinality(A) \in Nat /\ Cardinality(B) \in Nat
      /\ Cardinality(B) + (IF u \in A THEN 1 ELSE 0) = Cardinality(A) + (IF u \in B THEN 1 ELSE 0)
  BY <1>3, <1>4, CountChange
<1>7. /\ Cardinality(C) \in Nat /\ Cardinality(D) \in Nat
      /\ Cardinality(D) + (IF u \in C THEN 1 ELSE 0) = Cardinality(C) + (IF u \in D THEN 1 ELSE 0)
  BY <1>3, <1>4, CountChange
<1>8. refs'[k] \in Cardinality(B)..(Cardinality(B) + Cardinality(D))
  <2>1. CASE /\ u \in D <=> u \in C
             /\ refs'[k] + (IF u \in A THEN 1 ELSE 0) = refs[k] + (IF u \in B THEN 1 ELSE 0)
    <3>1. Cardinality(D) = Cardinality(C)
      BY <1>7, <2>1
    <3> QED BY <1>5, <1>6, <1>7, <2>1, <3>1
  <2>2. CASE u \notin C /\ u \in D /\ u \notin B /\ refs'[k] = refs[k]
    BY <1>5, <1>6, <1>7, <2>2
  <2> QED BY <1>3, <2>1, <2>2
<1> QED BY <1>1, <1>2, <1>8 DEF Held

(* who changes the counts of the caches                                    *)
LEMMA RefsSteps ==
  ASSUME [Next]_vars
  PROVE  \/ AskObjects
         \/ \E w \in Workers : ReadFile(w) /\ worker' = [worker EXCEPT ![w].at = "nb"]
                               /\ Live(worker[w].t)
         \/ UNCHANGED refs
<1>1. CASE CullStart \/ CullLoad \/ CullUnload \/ CullUnloaded \/ AskUnload \/ CullDraw
        \/ Render \/ WaitCull \/ InitTile \/ InitOver \/ DoGc \/ Look \/ LookAsync \/ Quit
        \/ NewFrame \/ UNCHANGED vars
  BY <1>1 DEF CullStart, CullLoad, CullUnload, CullUnloaded, AskUnload, CullDraw, Render, WaitCull,
              InitTile, InitOver, DoGc, Look, LookAsync, Quit, NewFrame, vars
<1>2. ASSUME NEW w \in Workers, WorkerStep(w)
      PROVE  \/ ReadFile(w) /\ worker' = [worker EXCEPT ![w].at = "nb"] /\ Live(worker[w].t)
             \/ UNCHANGED refs
  BY <1>2 DEF WorkerStep, FindTask, ReadFile, StoreNb, StoreLists, CheckFlags, MakeTerrain,
              ReadFlags, WriteFlags, Delete, Goes
<1> QED BY <1>1, <1>2, NextCases DEF WorkerStep

(* a step that leaves what each tile has, and the counts, alone            *)
LEMMA RefsHeldSame ==
  ASSUME RefsHeld, UNCHANGED refs,
         \A t \in Tiles : /\ tile'[t].cut = tile[t].cut \/ (Live(t) /\ Live(t)')
                          /\ tile'[t].place = tile[t].place /\ tile'[t].mem = tile[t].mem
                          /\ Live(t) => (Holds(t)' <=> Holds(t))
  PROVE  RefsHeld'
<1> SUFFICES ASSUME NEW k \in Keys PROVE Held(k)'
  BY DEF RefsHeld
<1>1. \A t \in Tiles : (HeldFor(t, k)' <=> HeldFor(t, k)) /\ (LeftFor(t, k)' <=> LeftFor(t, k))
  BY DEF HeldFor, LeftFor, Live, KeysOf, Cut
<1> QED BY <1>1, HeldSame DEF RefsHeld

(* a load that goes on holds what it held                                  *)
Loads(w) == worker[w].at \in {"nb", "lists"}

LEMMA HoldsByWorkers ==
  ASSUME NEW t, tile'[t].nb = tile[t].nb, tile'[t].lists = tile[t].lists,
         \A w \in Workers : (worker'[w].t = t /\ Loads(w)') <=> (worker[w].t = t /\ Loads(w))
  PROVE  Holds(t)' <=> Holds(t)
  BY DEF Holds, Listed, Loads

LEMMA WorkerHolds ==
  ASSUME Types, Busy, LoadedOnce, ListsStored, faults = {}, NEW w \in Workers, WorkerStep(w), ~Delete(w),
         ~(worker[w].at = "file" /\ worker'[w].at = "nb"),
         NEW t \in Tiles, Live(t)
  PROVE  Holds(t)' <=> Holds(t)
<1> USE DEF Types
<1>1. /\ WorkerLists(w, t)
      /\ worker[w].at = "lists" /\ worker'[w].at # "lists" => tile'[worker[w].t].lists = TRUE
  BY WorkerStores
<1>2. \A v \in Workers : v # w => worker'[v] = worker[v]
  BY Moves
<1>3. \/ UNCHANGED worker
      \/ worker[w].at \in {"idle", "file", "write"} /\ worker'[w].at \in {"idle", "file", "unload"}
      \/ worker'[w].t = worker[w].t /\ <<worker[w].at, worker'[w].at>> \in Onward
  <2>1. \/ UNCHANGED worker
        \/ worker[w].at = "idle" /\ worker'[w].at \in {"file", "unload"}
        \/ /\ worker[w].at \in {"file", "write", "unload"} /\ (worker[w].at = "unload" => Delete(w))
           /\ worker'[w].at = "idle"
        \/ worker'[w].t = worker[w].t /\ <<worker[w].at, worker'[w].at>> \in Onward
    BY Moves
  <2> QED BY <2>1
<1>4. CASE worker[w].at = "nb" /\ worker'[w].at = "lists" /\ worker'[w].t = t /\ worker[w].t = t
  <2>1. Holds(t) /\ Holds(t)'
    BY <1>4 DEF Holds
  <2> QED BY <2>1
<1>5. CASE worker[w].at = "lists" /\ worker'[w].at = "check" /\ worker[w].t = t
  <2>1. Holds(t)
    BY <1>5 DEF Holds
  <2>2. tile[t].nb
    BY <1>5 DEF ListsStored
  <2>3. tile'[t].nb /\ tile'[t].lists
    BY <1>1, <1>5, <2>2 DEF WorkerLists
  <2> QED BY <2>1, <2>3 DEF Holds, Listed
<1>6. CASE /\ ~(worker[w].at = "nb" /\ worker'[w].at = "lists" /\ worker'[w].t = t /\ worker[w].t = t)
           /\ ~(worker[w].at = "lists" /\ worker'[w].at = "check" /\ worker[w].t = t)
  <2>1. tile'[t].nb = tile[t].nb /\ tile'[t].lists = tile[t].lists
    BY <1>1, <1>6 DEF WorkerLists
  <2>2. (worker'[w].t = t /\ Loads(w)') <=> (worker[w].t = t /\ Loads(w))
    BY <1>3, <1>6 DEF Loads, Onward
  <2>3. \A v \in Workers : (worker'[v].t = t /\ Loads(v)') <=> (worker[v].t = t /\ Loads(v))
    BY <1>2, <2>2 DEF Loads
  <2> QED BY <2>1, <2>3, HoldsByWorkers
<1> QED BY <1>4, <1>5, <1>6

(* the references that a load takes                                        *)
LEMMA ReadFileHeld ==
  ASSUME Types, Types', Busy, LoadedOnce, ListsStored, RefsHeld, NEW w \in Workers, ReadFile(w),
         worker' = [worker EXCEPT ![w].at = "nb"], Live(worker[w].t)
  PROVE  RefsHeld'
<1> USE DEF Types
<1> SUFFICES ASSUME NEW k \in Keys PROVE Held(k)'
  BY DEF RefsHeld
<1>1. PICK u \in Tiles : u = worker[w].t
  BY DEF ReadFile, Busy
<1>2. worker[w].at = "file" /\ UNCHANGED tile /\ worker[w] \in DoingType(WorkerAts)
  BY DEF ReadFile, TypeWorker
<1>3. /\ worker'[w].at = "nb" /\ worker'[w].t = u
      /\ \A v \in Workers : v # w => worker'[v] = worker[v]
  BY <1>1, <1>2 DEF TypeWorker, DoingType
<1>4. refs' = Reffed(KeysOf(u))
  <2>1. worker' # [worker EXCEPT ![w] = Idle]
    BY <1>3 DEF TypeWorker, Idle, Doing
  <2>2. ASSUME worker' = [worker EXCEPT ![w].at = "clear"] PROVE FALSE
    <3>1. worker'[w].at = "clear"
      BY <1>2, <2>2 DEF TypeWorker, DoingType
    <3> QED BY <1>3, <3>1
  <2> QED BY <1>1, <2>1, <2>2 DEF ReadFile, Goes
<1>5. ASSUME NEW t \in Tiles, t # u
      PROVE  (HeldFor(t, k)' <=> HeldFor(t, k)) /\ (LeftFor(t, k)' <=> LeftFor(t, k))
  <2>1. \A v \in Workers : (worker'[v].t = t /\ Loads(v)') <=> (worker[v].t = t /\ Loads(v))
    BY <1>1, <1>3, <1>5 DEF Loads
  <2>2. Holds(t)' <=> Holds(t)
    BY <1>2, <2>1, HoldsByWorkers
  <2> QED BY <1>2, <2>2 DEF HeldFor, LeftFor, Live, KeysOf, Cut
<1>6. ~Holds(u)
  <2>1. ~Listed(u)
    BY <1>1, <1>2 DEF ListsStored, Stored, Listed
  <2>2. ASSUME NEW v \in Workers, worker[v].t = u, worker[v].at \in {"nb", "lists"} PROVE FALSE
    BY <1>1, <1>2, <2>2 DEF LoadedOnce, LoadAts
  <2> QED BY <2>1, <2>2 DEF Holds
<1>7. Holds(u)'
  BY <1>3 DEF Holds
<1>8. HeldFor(u, k)' <=> k \in KeysOf(u)
  BY <1>1, <1>2, <1>7 DEF HeldFor, Live, KeysOf
<1>9. ~HeldFor(u, k) /\ (LeftFor(u, k)' <=> LeftFor(u, k))
  BY <1>2, <1>6 DEF HeldFor, LeftFor, Cut, KeysOf
<1>10. refs'[k] = refs[k] + (IF HeldFor(u, k)' THEN 1 ELSE 0) /\ refs[k] \in Int /\ refs'[k] \in Int
  BY <1>4, <1>8 DEF Reffed, TypeRefs
<1>11. Held(k)
  BY DEF RefsHeld
<1>12. refs'[k] + (IF HeldFor(u, k) THEN 1 ELSE 0) = refs[k] + (IF HeldFor(u, k)' THEN 1 ELSE 0)
  BY <1>9, <1>10
<1> QED BY <1>5, <1>9, <1>11, <1>12, HeldMoved

(* and those that map_tile_ask_unload gives back                           *)
LEMMA AskObjectsHeld ==
  ASSUME Types, Types', Busy, Deletion, ListsStored, RefsHeld, AskObjects
  PROVE  RefsHeld'
<1> USE DEF Types
<1> SUFFICES ASSUME NEW k \in Keys PROVE Held(k)'
  BY DEF RefsHeld
<1>1. PICK u \in Tiles : u = cull.t
  BY DEF AskObjects, Busy
<1>2. SameLife /\ UNCHANGED worker /\ Condemning
  BY AskObjectsSame DEF Condemning
<1>3. tile' = [tile EXCEPT ![u].nb = FALSE, ![u].lists = FALSE] /\ tile[u] \in TileType
  BY <1>1 DEF AskObjects, TypeTile
<1>4. /\ tile'[u].nb = FALSE /\ tile'[u].lists = FALSE
      /\ \A t \in Tiles : t # u => tile'[t] = tile[t]
  BY <1>3 DEF TypeTile, TileType
<1>5. ASSUME NEW t \in Tiles, t # u
      PROVE  (HeldFor(t, k)' <=> HeldFor(t, k)) /\ (LeftFor(t, k)' <=> LeftFor(t, k))
  <2>1. tile'[t] = tile[t] /\ worker' = worker
    BY <1>2, <1>4, <1>5
  <2>2. Holds(t)' <=> Holds(t)
    BY <2>1 DEF Holds, Listed
  <2> QED BY <2>1, <2>2 DEF HeldFor, LeftFor, Live, KeysOf, Cut
<1>6. Live(u) /\ (LeftFor(u, k)' <=> LeftFor(u, k))
  BY <1>1, <1>2 DEF Deletion, LeftFor, SameLife, Cut, KeysOf
<1>7. Held(k)
  BY DEF RefsHeld
<1>8. CASE Listed(u)
  <2>1. \A v \in Workers : ~(worker[v].t = u /\ worker[v].at \in {"nb", "lists"})
    BY <1>8 DEF Listed, ListsStored, Stored
  <2>2. Holds(u) /\ ~Holds(u)'
    BY <1>2, <1>4, <1>8, <2>1 DEF Holds, Listed
  <2>3. refs' = Unreffed(KeysOf(u))
    BY <1>1, <1>8 DEF AskObjects
  <2>4. (HeldFor(u, k) <=> k \in KeysOf(u)) /\ ~HeldFor(u, k)'
    BY <1>6, <2>2 DEF HeldFor
  <2>5. refs'[k] = refs[k] - (IF HeldFor(u, k) THEN 1 ELSE 0) /\ refs[k] \in Int /\ refs'[k] \in Int
    BY <2>3, <2>4 DEF Unreffed, TypeRefs
  <2>6. refs'[k] + (IF HeldFor(u, k) THEN 1 ELSE 0) = refs[k] + (IF HeldFor(u, k)' THEN 1 ELSE 0)
    BY <2>4, <2>5
  <2> QED BY <1>5, <1>6, <1>7, <2>6, HeldMoved
<1>9. CASE ~Listed(u)
  <2>1. Holds(u)' <=> Holds(u)
    BY <1>2, <1>4, <1>9 DEF Holds, Listed
  <2>2. HeldFor(u, k)' <=> HeldFor(u, k)
    BY <1>2, <2>1 DEF HeldFor, SameLife, Live, KeysOf
  <2>3. refs' = refs
    BY <1>1, <1>9 DEF AskObjects
  <2> QED BY <1>5, <1>6, <1>7, <2>2, <2>3, HeldSame
<1> QED BY <1>8, <1>9

(* a tile that is deleted while something is held for it was condemned     *)
(* before its load was over                                                *)
LEMMA DeleteHeld ==
  ASSUME Types, Types', Busy, Deletion, LoadedOnce, ListsStored, RefsHeld, [Next]_vars,
         NEW w \in Workers, Delete(w)
  PROVE  RefsHeld'
<1> USE DEF Types
<1> SUFFICES ASSUME NEW k \in Keys PROVE Held(k)'
  BY DEF RefsHeld
<1>1. PICK u \in Tiles :
        /\ u = worker[w].t /\ worker[w].at = "unload" /\ UNCHANGED refs
        /\ \A t \in Tiles : t # u => tile'[t] = tile[t]
        /\ \/ ~Live(u)
           \/ /\ worker' = [worker EXCEPT ![w] = Idle]
              /\ tile'[u].mem = "freed" /\ tile'[u].cut = tile[u].cut /\ tile'[u].place = tile[u].place
  BY Deleted
<1>2. /\ Live(u) /\ ~Asked(u) /\ tile[u].cut # "no"
      /\ \A i \in DOMAIN gc[CullSlot] : gc[CullSlot][i] # u
  BY <1>1, WorkerUnloads DEF Deletion
<1>3. /\ worker'[w].at = "idle" /\ \A v \in Workers : v # w => worker'[v] = worker[v]
  BY <1>1, <1>2 DEF TypeWorker, Idle, Doing
<1>4. ASSUME NEW t \in Tiles, t # u
      PROVE  (HeldFor(t, k)' <=> HeldFor(t, k)) /\ (LeftFor(t, k)' <=> LeftFor(t, k))
  <2>1. tile'[t] = tile[t]
    BY <1>1, <1>4
  <2>2. \A v \in Workers : (worker'[v].t = t /\ Loads(v)') <=> (worker[v].t = t /\ Loads(v))
    BY <1>1, <1>3 DEF Loads
  <2>3. Holds(t)' <=> Holds(t)
    BY <2>1, <2>2, HoldsByWorkers
  <2> QED BY <2>1, <2>3 DEF HeldFor, LeftFor, Live, KeysOf, Cut
<1>5. ASSUME Holds(u) PROVE tile[u].cut \in Early
  <2>1. ~(Condemning /\ cull.t = u)
    BY <1>2 DEF Condemning, Asked, Deletion
  <2>2. CASE Listed(u)
    <3>1. ~Cut(u, {"waiting", "over"})
      BY <2>1, <2>2 DEF ListsStored
    <3>2. tile[u].cut \in Stages \cup {"no"}
      BY DEF TypeTile, TileType
    <3> QED BY <1>2, <3>1, <3>2 DEF Cut, Stages, Early
  <2>3. ASSUME NEW v \in Workers, worker[v].t = u, worker[v].at \in {"nb", "lists"}
        PROVE  tile[u].cut \in Early
    BY <1>2, <2>3 DEF LoadedOnce, LoadAts, Cut, Early
  <2> QED BY <1>5, <2>2, <2>3 DEF Holds
<1>6. ~HeldFor(u, k)' /\ ~LeftFor(u, k)
  BY <1>1, <1>2 DEF HeldFor, LeftFor, Live
<1>7. LeftFor(u, k)' <=> tile[u].cut \in Early /\ k \in KeysOf(u)
  BY <1>1, <1>2 DEF LeftFor, Cut, KeysOf
<1>8. Held(k) /\ refs'[k] = refs[k]
  BY <1>1 DEF RefsHeld
<1>9. CASE LeftFor(u, k)'
  BY <1>4, <1>6, <1>8, <1>9, HeldMoved
<1>10. CASE ~LeftFor(u, k)'
  <2>1. ~HeldFor(u, k)
    BY <1>5, <1>7, <1>10 DEF HeldFor
  <2> QED BY <1>4, <1>6, <1>8, <1>10, <2>1, HeldSame
<1> QED BY <1>9, <1>10

LEMMA RefsHeldKept ==
  ASSUME Types, Types', Busy, ArrayListed, CutOff, Handshake, Deletion, LoadedOnce, ListsStored, RefsHeld,
         [Next]_vars
  PROVE  RefsHeld'
<1> USE DEF Types
<1>0. CASE UNCHANGED vars
  BY <1>0, RefsHeldSame DEF vars, Live, Holds, Listed
<1> SUFFICES ASSUME faults = {} PROVE RefsHeld'
  BY <1>0, FaultsStay
<1>1. CASE CullLoad
  <2>1. UNCHANGED <<worker, refs>>
    BY <1>1, Loading
  <2>2. CASE UNCHANGED tile
    BY <2>1, <2>2, RefsHeldSame DEF Live, Holds, Listed
  <2>3. ASSUME NEW p \in Places, NEW u \in Tiles, tile[u].mem = "unborn", LoadTile(p, u)
        PROVE  RefsHeld'
    <3>1. /\ \A t \in Tiles : t # u => tile'[t] = tile[t]
          /\ tile'[u].mem = "live" /\ tile'[u].lists = FALSE
      BY <2>3, Born
    <3>2. \A w \in Workers : worker[w].t # u
      BY <2>3, FreshUnloaded
    <3>3. ~Holds(u)'
      BY <2>1, <3>1, <3>2 DEF Holds, Listed
    <3> SUFFICES ASSUME NEW k \in Keys PROVE Held(k)'
      BY DEF RefsHeld
    <3>4. ASSUME NEW t \in Tiles
          PROVE  (HeldFor(t, k)' <=> HeldFor(t, k)) /\ (LeftFor(t, k)' <=> LeftFor(t, k))
      <4>1. CASE t = u
        BY <2>3, <3>1, <3>3, <4>1 DEF HeldFor, LeftFor, Live
      <4>2. CASE t # u
        BY <2>1, <3>1, <4>2 DEF HeldFor, LeftFor, Live, Holds, Listed, KeysOf, Cut
      <4> QED BY <4>1, <4>2
    <3> QED BY <2>1, <3>4, HeldSame DEF RefsHeld
  <2> QED BY <1>1, <2>2, <2>3, Loading
<1>2. CASE CullUnload
  <2>1. PICK p \in Places, u \in Tiles :
          /\ tile[u].mem = "live" /\ tile'[u].mem = "live"
          /\ tile[u].place = p /\ tile'[u].place = p
          /\ tile'[u].nb = tile[u].nb /\ tile'[u].lists = tile[u].lists
          /\ \A t \in Tiles : t # u => tile'[t] = tile[t]
          /\ UNCHANGED <<refs, worker>>
    BY <1>2, Condemned
  <2>2. ASSUME NEW t \in Tiles
        PROVE  /\ tile'[t].cut = tile[t].cut \/ (Live(t) /\ Live(t)')
               /\ tile'[t].place = tile[t].place /\ tile'[t].mem = tile[t].mem
               /\ tile'[t].nb = tile[t].nb /\ tile'[t].lists = tile[t].lists
    BY <2>1 DEF Live
  <2> QED BY <2>1, <2>2, RefsHeldSame DEF Holds, Listed
<1>3. CASE AskUnload
  <2>1. /\ SameLife /\ UNCHANGED <<refs, worker>> /\ cull.t \in Tiles
        /\ tile' = [tile EXCEPT ![cull.t].flags = cull.saw \ {"loading"}]
    BY <1>3, AskUnloadSame
  <2>2. \A t \in Tiles : tile'[t].nb = tile[t].nb /\ tile'[t].lists = tile[t].lists
    BY <2>1, FlagsObjects
  <2> QED BY <2>1, <2>2, RefsHeldSame DEF Holds, Listed, SameLife
<1>4. CASE AskObjects
  BY <1>4, AskObjectsHeld
<1>5. CASE InitTile
  <2>1. /\ SameLife /\ UNCHANGED <<refs, worker>> /\ Head(inits) \in Tiles
        /\ \/ UNCHANGED tile
           \/ tile' = [tile EXCEPT ![Head(inits)].flags = tile[Head(inits)].flags \cup {"init"}]
    BY <1>5, InitTileSame
  <2>2. \A t \in Tiles : tile'[t].nb = tile[t].nb /\ tile'[t].lists = tile[t].lists
    BY <2>1, FlagsObjects
  <2> QED BY <2>1, <2>2, RefsHeldSame DEF Holds, Listed, SameLife
<1>6. ASSUME NEW w \in Workers, WorkerStep(w) PROVE RefsHeld'
  <2>1. CASE Delete(w)
    BY <2>1, DeleteHeld
  <2>2. CASE ReadFile(w) /\ worker' = [worker EXCEPT ![w].at = "nb"] /\ Live(worker[w].t)
    BY <2>2, ReadFileHeld
  <2>3. CASE ~Delete(w) /\ ~(ReadFile(w) /\ worker' = [worker EXCEPT ![w].at = "nb"] /\ Live(worker[w].t))
    <3>1. UNCHANGED refs
      BY <1>6, <2>3 DEF WorkerStep, FindTask, ReadFile, StoreNb, StoreLists, CheckFlags, MakeTerrain,
                        ReadFlags, WriteFlags, Goes
    <3>2. SameLife
      BY <1>6, <2>3, WorkerSame
    <3>3. ~(worker[w].at = "file" /\ worker'[w].at = "nb")
      <4>1. CASE ReadFile(w)
        <5>1. \/ UNCHANGED worker
              \/ worker' = [worker EXCEPT ![w].at = "clear"]
              \/ worker' = [worker EXCEPT ![w] = Idle]
          BY <2>3, <4>1 DEF ReadFile, Strays, Goes
        <5>2. worker[w] \in DoingType(WorkerAts)
          BY DEF TypeWorker
        <5>3. CASE worker' = [worker EXCEPT ![w].at = "clear"]
          BY <5>2, <5>3 DEF TypeWorker, DoingType
        <5>4. CASE worker' = [worker EXCEPT ![w] = Idle]
          BY <5>4 DEF TypeWorker, Idle, Doing
        <5>5. CASE UNCHANGED worker
          BY <5>5
        <5> QED BY <5>1, <5>3, <5>4, <5>5
      <4>2. CASE ~ReadFile(w)
        BY <1>6, <4>2 DEF WorkerStep, FindTask, StoreNb, StoreLists, CheckFlags, MakeTerrain,
                          ReadFlags, WriteFlags, Delete
      <4> QED BY <4>1, <4>2
    <3>4. \A t \in Tiles : Live(t) => (Holds(t)' <=> Holds(t))
      BY <1>6, <2>3, <3>3, WorkerHolds
    <3> QED BY <3>1, <3>2, <3>4, RefsHeldSame DEF SameLife
  <2> QED BY <2>1, <2>2, <2>3
<1>7. CASE Quiet
  BY <1>7, RefsHeldSame DEF Quiet, Live, Holds, Listed
<1> QED BY <1>1, <1>2, <1>3, <1>4, <1>5, <1>6, <1>7, QuietSteps

-----------------------------------------------------------------------------
(* What the invariants say of those that the runs check.                   *)

(* what a tile holds, and what one that was condemned early may have left  *)
LEMMA HeldAccounted == RefsHeld /\ TypeRefs => RefsAccounted
<1> SUFFICES ASSUME RefsHeld, TypeRefs, NEW k \in Keys
             PROVE  LET of == {t \in Tiles : Live(t) /\ k \in KeysOf(t)}
                        held == Cardinality({t \in of : tile[t].cut \notin {"queued", "loading"} /\ Holds(t)})
                        lost == Cardinality({t \in Tiles : tile[t].cut \in {"queued", "loading"} /\ k \in KeysOf(t)})
                    IN refs[k] \in held..(held + lost)
  BY DEF RefsAccounted
<1> DEFINE of == {t \in Tiles : Live(t) /\ k \in KeysOf(t)}
           A == {t \in of : tile[t].cut \notin {"queued", "loading"} /\ Holds(t)}
           L == {t \in Tiles : tile[t].cut \in {"queued", "loading"} /\ k \in KeysOf(t)}
           E == {t \in Tiles : HeldFor(t, k) /\ tile[t].cut \in {"queued", "loading"}}
           H == Holders(k)
           F == Leavers(k)
<1>1. /\ H = A \cup E /\ A \cap E = {} /\ E \cap F = {} /\ E \cup F \subseteq L
      /\ A \subseteq Tiles /\ E \subseteq Tiles /\ F \subseteq Tiles /\ L \subseteq Tiles
  BY DEF Holders, Leavers, HeldFor, LeftFor, Live, Cut, Early
<1>2. IsFiniteSet(Tiles) /\ refs[k] \in Int /\ refs[k] \in Cardinality(H)..(Cardinality(H) + Cardinality(F))
  BY WorkersAndTilesAreFinite DEF RefsHeld, Held, TypeRefs
<1> SUFFICES refs[k] \in Cardinality(A)..(Cardinality(A) + Cardinality(L))
  OBVIOUS
<1> HIDE DEF A, L, E, H, F
<1>3. IsFiniteSet(A) /\ IsFiniteSet(E) /\ IsFiniteSet(F) /\ IsFiniteSet(L)
  BY <1>1, <1>2, FS_Subset
<1>4. Cardinality(H) = Cardinality(A) + Cardinality(E)
  BY <1>1, <1>3, CardinalityDisjoint
<1>5. Cardinality(E \cup F) = Cardinality(E) + Cardinality(F)
  BY <1>1, <1>3, CardinalityDisjoint
<1>6. Cardinality(E \cup F) <= Cardinality(L)
  BY <1>1, <1>3, FS_Subset
<1>7. Cardinality(A) \in Nat /\ Cardinality(E) \in Nat /\ Cardinality(F) \in Nat /\ Cardinality(L) \in Nat
  BY <1>3, CardinalityNat
<1> QED BY <1>2, <1>4, <1>5, <1>6, <1>7

LEMMA DeletedCondemned == DeletedOnce /\ TypeCull => CondemnedOnce
<1> SUFFICES ASSUME DeletedOnce, TypeCull, NEW t \in Tiles
             PROVE  Condemnations(t) = IF tile[t].cut # "no" /\ tile[t].mem = "live" /\ cull # Doing("ask", t, cull.saw)
                                       THEN 1 ELSE 0
  BY DEF CondemnedOnce
<1>1. cull = Doing("ask", t, cull.saw) <=> Asked(t)
  BY DEF Asked, Doing, TypeCull, DoingType
<1> QED BY <1>1 DEF DeletedOnce, Expected, Live

-----------------------------------------------------------------------------
(* The invariant that the theorems about deletion, faults and references   *)
(* rest on.                                                                *)
Threads == Handshake /\ Deletion /\ LoadedOnce /\ ListsStored
Known == InitsLoaded /\ MapListed /\ DrawnLive /\ RefsHeld /\ FaultsKnown
TileInv == IInv /\ Threads /\ Known

LEMMA ThreadsInit == Init => Threads
<1> SUFFICES ASSUME Init PROVE Threads
  OBVIOUS
<1> USE InitHolds DEF IInv
<1>1. Handshake
  BY DEF Init, Handshake, Idle, Doing
<1>2. /\ \A t \in Tiles : tile[t] = Unborn
      /\ \A w \in Workers : worker[w] = Idle
      /\ cull = Idle /\ loads = <<>> /\ unloads = <<>> /\ inits = <<>> /\ \A s \in Slots : gc[s] = <<>>
  BY DEF Init
<1>3. Deletion
  <2>1. ASSUME NEW t \in Tiles PROVE Condemnations(t) = Expected(t)
    <3>1. Unloading(t) = {}
      BY <1>2 DEF Unloading, Idle, Doing
    <3>2. Cardinality(Unloading(t)) = 0
      BY <3>1, FS_EmptySet
    <3>3. gc[0] = <<>> /\ gc[1] = <<>> /\ gc[2] = <<>>
      BY <1>2 DEF Slots
    <3>4. Condemnations(t) = 0
      BY <1>2, <3>2, <3>3, TimesEmpty DEF Condemnations, Unloading
    <3>5. Expected(t) = 0
      BY <1>2 DEF Expected, Live, Unborn
    <3> QED BY <3>4, <3>5
  <2>2. DeletedOnce
    BY <2>1 DEF DeletedOnce
  <2>3. cull.at = "idle" /\ \A t \in Tiles : tile[t].mem = "unborn"
    BY <1>2 DEF Idle, Doing, Unborn
  <2> QED BY <2>2, <2>3 DEF Deletion, Condemning
<1>4. DOMAIN loads = {} /\ Range(inits) = {}
  BY <1>2 DEF Range
<1>5. /\ \A w \in Workers : worker[w].at = "idle" /\ worker[w].t = None
      /\ \A t \in Tiles : tile[t].nb = FALSE /\ tile[t].lists = FALSE
  BY <1>2 DEF Idle, Doing, Unborn
<1>6. LoadedOnce
  BY <1>4, <1>5 DEF LoadedOnce, LoadAts
<1>7. ListsStored
  BY <1>4, <1>5 DEF ListsStored, Stored, Listed
<1> QED BY <1>1, <1>3, <1>6, <1>7 DEF Threads

LEMMA KnownInit == Init => Known
<1> SUFFICES ASSUME Init PROVE Known
  OBVIOUS
<1>1. /\ \A t \in Tiles : tile[t].mem = "unborn" /\ tile[t].cut = "no"
      /\ main = "frame" /\ drawn[2] = {} /\ faults = {} /\ cull.at = "idle"
  BY DEF Init, Unborn, Idle, Doing
<1>2. InitsLoaded
  <2>1. Range(inits) = {}
    BY DEF Init, Range
  <2> QED BY <2>1 DEF InitsLoaded
<1>3. MapListed /\ DrawnLive /\ FaultsKnown
  BY <1>1 DEF MapListed, DrawnLive, FaultsKnown, Live
<1>4. RefsHeld
  <2> SUFFICES ASSUME NEW k \in Keys PROVE Held(k)
    BY DEF RefsHeld
  <2>1. Holders(k) = {} /\ Leavers(k) = {}
    BY <1>1 DEF Holders, Leavers, HeldFor, LeftFor, Live
  <2>2. Cardinality(Holders(k)) = 0 /\ Cardinality(Leavers(k)) = 0
    BY <2>1, FS_EmptySet
  <2>3. refs[k] = 0
    BY DEF Init
  <2> QED BY <2>2, <2>3 DEF Held
<1> QED BY <1>2, <1>3, <1>4 DEF Known

LEMMA TileInvKept == TileInv /\ [Next]_vars => TileInv'
<1> SUFFICES ASSUME TileInv, [Next]_vars PROVE TileInv'
  OBVIOUS
<1> USE DEF TileInv, IInv, Threads, Known
<1>1. IInv'
  BY IInvKept
<1>2. Handshake' /\ Deletion' /\ LoadedOnce'
  BY HandshakeKept, DeletionKept, LoadedOnceKept
<1>3. ListsStored' /\ InitsLoaded'
  BY ListsStoredKept, InitsLoadedKept
<1>4. MapListed' /\ DrawnLive'
  BY MapListedKept, DrawnLiveKept
<1>5. RefsHeld'
  BY <1>1, RefsHeldKept
<1>6. FaultsKnown'
  BY FaultsKnownKept
<1> QED BY <1>1, <1>2, <1>3, <1>4, <1>5, <1>6

LEMMA TileInvHolds == Spec => []TileInv
<1>1. Init => TileInv
  BY InitHolds, ThreadsInit, KnownInit DEF TileInv
<1> QED BY <1>1, TileInvKept, PTL DEF Spec

(* A tile that was condemned waits for its deletion in one place, a list   *)
(* of map_tile_ask_unload, the queue of loader_add_async or a worker's     *)
(* hands, until it is deleted, for any number of tiles and workers.        *)
THEOREM CondemnedInOnePlace == Spec => []CondemnedOnce
<1>1. TileInv => CondemnedOnce
  BY DeletedCondemned DEF TileInv, IInv, Types, Threads, Deletion
<1> QED BY <1>1, TileInvHolds, PTL

(* Nothing goes wrong with a tile whose load and initialisation were over  *)
(* when map_cull condemned it: what it was drawn from is alive, and the    *)
(* loads that outlive their tile are those of the tiles condemned early.   *)
THEOREM FaultsAreKnown == Spec => []FaultsKnown
<1>1. TileInv => FaultsKnown
  BY DEF TileInv, Known
<1> QED BY <1>1, TileInvHolds, PTL

(* The references counted by the caches map_wmo and map_m2 are those that  *)
(* tiles and loads hold, but for what a tile condemned before the end of   *)
(* its load may have left behind; none is given back twice.                *)
THEOREM RefsAreAccounted == Spec => []RefsAccounted
<1>1. TileInv => RefsAccounted
  BY HeldAccounted DEF TileInv, IInv, Types, Known
<1> QED BY <1>1, TileInvHolds, PTL
=============================================================================
