--------------------------- MODULE InstancesProofs --------------------------
(* What holds of Instances for any number of tiles, maps and workers.      *)
EXTENDS Instances, FiniteSetTheorems, SequenceTheorems, TLAPS

(* The parts of TypeOK.                                                    *)
ThreadType == [at : Ats, wait : Locks \cup {None}, task : {"none", "tile", "wmo", "group", "m2"},
               i : Instances \cup {None}, pos : Nat]
TypeThread == owner \in [Locks -> Threads \cup {None}] /\ thread \in [Threads -> ThreadType]
TypeHandle == /\ tile \in [Tiles -> {"new", "loading", "listed", "released"}]
              /\ handle \in [Ids -> [refs : Nat, inst : Instances \cup {None}]]
TypeList == /\ list \in Seq(Instances) /\ stage \in [Instances -> Stages]
            /\ told \in [Instances -> Nat] /\ grouped \in [Instances -> BOOLEAN]
            /\ early \subseteq Instances
TypeModels == /\ doodads \in [Instances -> Seq(Nat)]
              /\ file \in [{"wmo", "group", "m2"} -> Phases]
              /\ garbage \in [{"wmo", "m2"} -> SUBSET Instances]
Types == TypeThread /\ TypeHandle /\ TypeList /\ TypeModels

(* The mutexes a thread needs where it is: it has them all, or waits for   *)
(* the last of them.                                                       *)
Needs(th) ==
  {l \in Locks :
     \/ l = "map_wmo" /\ (th.at \in {"handle", "new", "unref"} \/ (th.at = "collect" /\ th.i \notin Maps))
     \/ l = "frame" /\ th.at \in {"models", "delete", "buildings", "find", "erase", "drop"}
     \/ l = "gc" /\ th.at \in {"collect", "drop"}
     \/ l = "wmo" /\ th.at \in {"new", "place", "walk", "open", "find"} \cup TellAts
     \/ l = "m2" /\ th.at \in {"doodad", "settle", "group", "post", "delete"}}
Held(th) == Needs(th) \ {th.wait}
Waits(th) == th.wait \in Needs(th) /\ \A l \in Needs(th) : Rank[l] <= Rank[th.wait]
Owned ==
  \A t \in Threads :
    /\ thread[t].wait = None \/ Waits(thread[t])
    /\ \A l \in Locks : owner[l] = t <=> l \in Held(thread[t])

(* What a worker may be at, and for whom.                                  *)
WorkerOk(th) ==
  /\ th.at \in {"idle", "walk", "post"} \cup TileAts \cup TellAts
  /\ th.at \in TileAts => th.task = "tile"
  /\ th.at \in TellAts => th.task \in {"tile", "wmo", "group"} /\ th.wait # "wmo"
  /\ th.at = "walk" => th.task \in {"wmo", "group"}
  /\ th.at = "post" => th.task = "m2"
  /\ th.at = "idle" => th = Resting
  /\ th.task = "tile" => th.i \in Tiles /\ tile[th.i] = "loading"
  /\ th.task \in {"wmo", "group"} =>
       th.pos > 0 /\ (th.at \in TellAts /\ fault = NoFault => th.pos \in DOMAIN list)
WorkerInv == \A w \in Workers : WorkerOk(thread[w])
OneWorker ==
  \A w, v \in Workers : thread[w].task = "tile" /\ thread[v].task = "tile"
                        /\ thread[w].i = thread[v].i => w = v

(* The same for the thread of the frames.                                  *)
FrameOk(f) ==
  /\ f.at \in {"idle"} \cup FrameAts /\ f.task = "none"
  /\ f.at = "unref" => f.i \in Tiles /\ tile[f.i] = "released"
  /\ f.at \in {"open", "ask"} => f.i \in Maps
  /\ f.at \in {"collect", "delete", "find", "erase", "drop"} => f.i \in Instances
  /\ f.at = "delete" => f.i \in garbage.m2
  /\ f.at \in {"find", "erase"} => f.i \in garbage.wmo
  /\ f.at = "erase" => f.pos \in DOMAIN list
  /\ f.at = "drop" => doodads[f.i] # <<>>
FrameInv == FrameOk(thread[Frame])

Garbage == \A i \in garbage.m2 : doodads[i] # <<>>

(* A handle counts the tiles that hold it, and names the instance of one   *)
(* of them; only the worker that makes the instance holds a handle that    *)
(* names none.  The instance that is collected is that of a handle nobody  *)
(* holds, or that of a map.                                                *)
Counted == \A d \in Ids : handle[d].refs = Cardinality(Holders(d))
Named ==
  \A i \in Tiles : Holds(i) => \/ handle[IdOf[i]].inst # None
                              \/ \E w \in Workers : thread[w].at = "new" /\ thread[w].i = i
Names == \A d \in Ids : handle[d].inst # None => handle[d].inst \in Tiles /\ IdOf[handle[d].inst] = d
Nobodys == \A i \in Tiles : thread[Frame].at = "collect" /\ thread[Frame].i = i =>
                           handle[IdOf[i]].refs = 0 /\ handle[IdOf[i]].inst = i
Counts == Counted /\ Named /\ Names /\ Nobodys

(* The instance of a handle lives, and no tile gets an instance twice.     *)
Alive == \A d \in Ids : handle[d].inst # None => stage[handle[d].inst] \in {"made", "placed"}
Fresh ==
  \A i \in Tiles : tile[i] = "new" \/ (\E w \in Workers : thread[w].at \in {"handle", "new"}
                                                       /\ thread[w].i = i)
                   => stage[i] = "unborn"
Gone == \A i \in garbage.wmo : stage[i] # "unborn" /\ \A d \in Ids : handle[d].inst # i
Lives == Alive /\ Fresh /\ Gone

Base == Types /\ Owned /\ WorkerInv /\ OneWorker /\ FrameInv /\ Garbage
IInv == Base /\ Counts /\ Lives

-----------------------------------------------------------------------------
USE TilesAndMaps, ThreadsDiffer, IdsOfTiles

LEMMA TypeParts == TypeOK <=> Types
  BY Zenon DEF TypeOK, Types, TypeThread, ThreadType, TypeHandle, TypeList, TypeModels

(* the steps, a thread being named                                         *)
LEMMA NextCases ==
  ASSUME [Next]_vars
  PROVE  \/ UNCHANGED vars
         \/ fault = NoFault /\
              \/ \E w \in Workers :
                   \/ LoadTile(w) \/ RefHandle(w) \/ NewInstance(w) \/ Place(w)
                   \/ NewDoodad(w) \/ SettleDoodad(w) \/ TellInstance(w) \/ TellGroup(w)
                   \/ TakeTask(w) \/ WalkOn(w) \/ WalkEnd(w) \/ PostLoad(w)
              \/ \E t \in Threads : Lock(t)
              \/ Release \/ OpenMap \/ LeaveMap \/ UnrefHandle \/ Collect
              \/ NewMapInstance \/ PlaceMap \/ StartGc
              \/ PickModel \/ DeleteModel \/ ModelsEnd \/ PickInstance \/ FindInstance
              \/ EraseInstance \/ DropDoodads \/ GcEnd
  BY Zenon DEF Next, Steps, Chosen, FrameStep, CollectStep, MapStep, GcStep, WorkerStep, TileStep,
     TellStep, TaskStep, Over, Undefined

-----------------------------------------------------------------------------
(* A step of one thread: it goes on as th, with the mutexes of S unlocked. *)
Moves(t, th, S) ==
  /\ thread' = [thread EXCEPT ![t] = th]
  /\ owner' = Unlocked(S)

LEMMA MovesTypes ==
  ASSUME TypeThread, NEW t \in Threads, NEW th \in ThreadType, NEW S, Moves(t, th, S)
  PROVE  TypeThread' /\ thread'[t] = th /\ \A u \in Threads \ {t} : thread'[u] = thread[u]
  BY DEF TypeThread, Moves, Unlocked

LEMMA MovesOwned ==
  ASSUME TypeThread, Owned, NEW t \in Threads, NEW th \in ThreadType, NEW S, Moves(t, th, S),
         S \subseteq Held(thread[t]), Held(th) = Held(thread[t]) \ S, th.wait = None \/ Waits(th)
  PROVE  Owned'
<1>1. ASSUME NEW u \in Threads PROVE thread'[u].wait = None \/ Waits(thread'[u])
  BY <1>1 DEF Owned, Moves, TypeThread
<1>2. ASSUME NEW u \in Threads, NEW l \in Locks
      PROVE  owner'[l] = u <=> l \in Held(thread'[u])
  <2>1. CASE u = t
    <3>1. owner'[l] = t <=> l \in Held(thread[t]) \ S
      BY DEF Owned, Moves, Unlocked, TypeThread, Threads
    <3>2. QED
      BY <2>1, <3>1 DEF Moves, TypeThread
  <2>2. CASE u # t
    <3>1. thread'[u] = thread[u]
      BY <2>2 DEF Moves, TypeThread
    <3>2. l \in S => owner[l] = t
      BY DEF Owned, Held, Needs
    <3>3. owner'[l] = u <=> owner[l] = u
      BY <2>2, <3>2 DEF Moves, Unlocked, TypeThread
    <3>4. QED
      BY <3>1, <3>3 DEF Owned
  <2>3. QED
    BY <2>1, <2>2
<1>3. QED
  BY <1>1, <1>2 DEF Owned, Waits, Needs, Held

(* A step of a worker keeps the base if the worker goes on where it may,   *)
(* and takes nothing from the thread of the frames nor from the others.    *)
LEMMA WorkerMoves ==
  ASSUME Base, Types', NEW w \in Workers, NEW th \in ThreadType, NEW S, Moves(w, th, S),
         S \subseteq Held(thread[w]), Held(th) = Held(thread[w]) \ S, th.wait = None \/ Waits(th),
         fault' = NoFault => fault = NoFault,
         WorkerOk(th)',
         th.task = "tile" => \/ thread[w].task = "tile" /\ th.i = thread[w].i
                             \/ tile[th.i] = "new",
         \A i \in Tiles : tile'[i] = tile[i] \/ tile[i] = "new"
                           \/ (thread[w].task = "tile" /\ thread[w].i = i /\ th.task # "tile"),
         \A i \in Instances : doodads[i] # <<>> => doodads'[i] # <<>>,
         DOMAIN list \subseteq DOMAIN list', garbage' = garbage
  PROVE  Base'
<1> USE DEF Base, Types
<1>1. w \in Threads /\ Frame \in Threads /\ w # Frame
  BY DEF Threads
<1>2. Owned'
  BY <1>1, MovesOwned
<1>3. thread'[w] = th /\ \A u \in Threads \ {w} : thread'[u] = thread[u]
  BY <1>1, MovesTypes
<1>4. WorkerInv'
  <2>1. ASSUME NEW v \in Workers, v # w PROVE WorkerOk(thread[v])'
    <3>1. thread'[v] = thread[v] /\ WorkerOk(thread[v])
      BY <1>3, <2>1 DEF Threads, WorkerInv
    <3>2. thread[v].task = "tile" => thread[v].i \in Tiles /\ tile'[thread[v].i] = "loading"
      BY <2>1, <3>1 DEF WorkerOk, OneWorker
    <3>3. QED
      BY <3>1, <3>2 DEF WorkerOk
  <2>2. WorkerOk(thread[w])'
    BY <1>3 DEF WorkerOk
  <2>3. QED
    BY <2>1, <2>2 DEF WorkerInv
<1>5. OneWorker'
  <2>1. ASSUME NEW v \in Workers, v # w, thread[v].task = "tile", th.task = "tile"
        PROVE thread[v].i # th.i
    BY <2>1 DEF OneWorker, WorkerInv, WorkerOk
  <2>2. QED
    BY <1>3, <2>1 DEF OneWorker, Threads
<1>6. FrameInv'
  <2>1. thread'[Frame] = thread[Frame] /\ FrameOk(thread[Frame])
    BY <1>1, <1>3 DEF FrameInv
  <2>2. thread[Frame].at = "unref" => tile'[thread[Frame].i] = "released"
    BY <2>1 DEF FrameOk, WorkerInv, WorkerOk
  <2>3. QED
    BY <2>1, <2>2 DEF FrameOk, FrameInv
<1>7. Garbage'
  BY DEF Garbage, TypeModels
<1>8. QED
  BY <1>2, <1>4, <1>5, <1>6, <1>7

(* A step of the thread of the frames.                                     *)
LEMMA FrameMoves ==
  ASSUME Base, Types', NEW th \in ThreadType, NEW S, Moves(Frame, th, S),
         S \subseteq Held(thread[Frame]), Held(th) = Held(thread[Frame]) \ S,
         th.wait = None \/ Waits(th),
         fault' = NoFault =>
           /\ fault = NoFault
           /\ \/ DOMAIN list \subseteq DOMAIN list'
              \/ \A w \in Workers : thread[w].task \in {"wmo", "group"} => thread[w].at \notin TellAts,
         FrameOk(th)', Garbage',
         \A i \in Tiles : tile'[i] = tile[i] \/ tile[i] # "loading"
  PROVE  Base'
<1> USE DEF Base, Types
<1>1. Frame \in Threads
  BY DEF Threads
<1>2. Owned'
  BY <1>1, MovesOwned
<1>3. thread'[Frame] = th /\ \A w \in Workers : thread'[w] = thread[w]
  BY <1>1, MovesTypes DEF Threads
<1>4. WorkerInv'
  <2>1. ASSUME NEW w \in Workers PROVE WorkerOk(thread[w])'
    BY <1>3 DEF WorkerInv, WorkerOk
  <2>2. QED
    BY <2>1 DEF WorkerInv
<1>5. OneWorker'
  BY <1>3 DEF OneWorker
<1>6. FrameInv'
  BY <1>3 DEF FrameInv, FrameOk
<1>7. QED
  BY <1>2, <1>4, <1>5, <1>6

LEMMA NoUnlock == ASSUME TypeThread PROVE Unlocked({}) = owner
  BY DEF TypeThread, Unlocked

LEMMA RestingType == Resting \in ThreadType
  BY DEF Resting, Doing, ThreadType, Ats

-----------------------------------------------------------------------------
(* The base is kept by every step.                                         *)

LEMMA LockBase ==
  ASSUME Base, NEW t \in Threads, Lock(t)
  PROVE  Base'
<1> USE DEF Base, Types
<1> DEFINE l == thread[t].wait
           th == Doing(thread[t].at, None, thread[t].task, thread[t].i, thread[t].pos)
<1>1. /\ l \in Locks /\ l # None /\ owner[l] = None
      /\ owner' = [owner EXCEPT ![l] = t] /\ thread' = [thread EXCEPT ![t] = th]
      /\ UNCHANGED <<tile, handle, listVars, doodads, file, garbage, fault>>
      /\ thread[t] \in ThreadType /\ th \in ThreadType
  <2>1. thread[t] \in ThreadType
    BY DEF TypeThread
  <2>2. [thread[t] EXCEPT !.wait = None] = th
    BY <2>1 DEF ThreadType, Doing
  <2>3. th \in ThreadType
    BY <2>1 DEF ThreadType, Doing
  <2>4. [thread EXCEPT ![t].wait = None] = [thread EXCEPT ![t] = [thread[t] EXCEPT !.wait = None]]
    BY DEF TypeThread
  <2>5. l \in Locks
    BY <2>1 DEF Lock, ThreadType
  <2>6. QED
    BY <2>1, <2>2, <2>3, <2>4, <2>5 DEF Lock
<1>2. Types'
  BY <1>1 DEF TypeThread, TypeHandle, TypeList, TypeModels, listVars
<1>3. thread'[t] = th /\ \A u \in Threads \ {t} : thread'[u] = thread[u]
  BY <1>1 DEF TypeThread
<1>4. /\ th.at = thread[t].at /\ th.task = thread[t].task /\ th.i = thread[t].i
      /\ th.pos = thread[t].pos /\ th.wait = None
  BY DEF Doing
<1> HIDE DEF th
<1>5. Owned'
  <2>1. Held(th) = Held(thread[t]) \cup {l}
    <3>1. l \in Needs(thread[t]) /\ None \notin Locks
      BY <1>1 DEF Owned, Waits
    <3>2. Needs(th) = Needs(thread[t])
      BY <1>4 DEF Needs
    <3>3. QED
      BY <1>4, <3>1, <3>2 DEF Held, Needs
  <2>2. ASSUME NEW u \in Threads, NEW k \in Locks
        PROVE  owner'[k] = u <=> k \in Held(thread'[u])
    BY <1>1, <1>3, <2>1 DEF Owned, TypeThread, Held
  <2>3. ASSUME NEW u \in Threads PROVE thread'[u].wait = None \/ Waits(thread'[u])
    BY <1>3, <1>4 DEF Owned
  <2>4. QED
    BY <2>2, <2>3 DEF Owned, Waits, Needs, Held
<1>6. WorkerInv'
  <2>1. ASSUME NEW w \in Workers PROVE WorkerOk(thread[w])'
    <3>1. WorkerOk(thread[w])
      BY DEF WorkerInv
    <3>2. /\ thread'[w].at = thread[w].at /\ thread'[w].task = thread[w].task
          /\ thread'[w].i = thread[w].i /\ thread'[w].pos = thread[w].pos
          /\ thread'[w].wait \in {thread[w].wait, None}
      BY <1>3, <1>4 DEF Threads
    <3>3. thread[w].at = "idle" => w # t
      BY <1>1, <3>1 DEF WorkerOk, Resting, Doing
    <3>4. "wmo" # None
      BY DEF Locks
    <3>5. QED
      BY <1>1, <1>3, <3>1, <3>2, <3>3, <3>4 DEF WorkerOk, listVars, Threads
  <2>2. QED
    BY <2>1 DEF WorkerInv
<1>7. OneWorker'
  <2>1. \A w \in Workers : thread'[w].task = thread[w].task /\ thread'[w].i = thread[w].i
    BY <1>3, <1>4 DEF Threads
  <2>2. QED
    BY <2>1 DEF OneWorker
<1>8. FrameInv' /\ Garbage'
  BY <1>1, <1>3, <1>4 DEF FrameInv, FrameOk, Garbage, Threads, listVars
<1>9. QED
  BY <1>2, <1>5, <1>6, <1>7, <1>8

(* what the steps of a worker start from                                   *)
LEMMA AtWorker ==
  ASSUME Base, NEW w \in Workers
  PROVE  /\ thread[w] \in ThreadType /\ WorkerOk(thread[w]) /\ w \in Threads
         /\ TypeThread /\ TypeHandle /\ TypeList /\ TypeModels
         /\ thread \in [Threads -> ThreadType] /\ owner \in [Locks -> Threads \cup {None}]
  BY DEF Base, Types, TypeThread, WorkerInv, Threads

LEMMA LoadTileBase ==
  ASSUME Base, fault = NoFault, NEW w \in Workers, LoadTile(w)
  PROVE  Base'
<1>1. PICK i \in Tiles :
        /\ At(w, "idle") /\ tile[i] = "new"
        /\ tile' = [tile EXCEPT ![i] = "loading"]
        /\ thread' = [thread EXCEPT ![w] = Doing("handle", "map_wmo", "tile", i, 0)]
        /\ UNCHANGED <<owner, handle, listVars, doodads, file, garbage, fault>>
  BY DEF LoadTile
<1> DEFINE th == Doing("handle", "map_wmo", "tile", i, 0)
<1>2. th \in ThreadType
  BY DEF Doing, ThreadType, Ats, TileAts, Locks, Instances
<1>3. Moves(w, th, {})
  BY <1>1, AtWorker, NoUnlock DEF Moves
<1>4. Types'
  BY <1>1, <1>2, <1>3, AtWorker, MovesTypes DEF Types, TypeHandle, TypeList, TypeModels, listVars
<1>5. Held(th) = {} /\ Held(thread[w]) = {} /\ Waits(th)
  BY <1>1 DEF Held, Needs, Waits, At, Doing, Locks, TellAts, Rank
<1>6. WorkerOk(th)'
  BY <1>1, AtWorker DEF WorkerOk, TileAts, TellAts, Doing, TypeHandle
<1>7. DOMAIN list \subseteq DOMAIN list'
  BY <1>1 DEF listVars
<1>8. th.task = "tile" /\ th.i = i
  BY DEF Doing
<1>9. \A j \in Tiles : tile'[j] = tile[j] \/ tile[j] = "new"
  BY <1>1, AtWorker DEF TypeHandle
<1>10. QED
  BY <1>1, <1>2, <1>3, <1>4, <1>5, <1>6, <1>7, <1>8, <1>9, WorkerMoves

LEMMA RefHandleBase ==
  ASSUME Base, fault = NoFault, NEW w \in Workers, RefHandle(w)
  PROVE  Base'
<1> DEFINE i == thread[w].i
<1>1. At(w, "handle") /\ thread[w].task = "tile" /\ i \in Tiles /\ IdOf[i] \in Ids
  BY AtWorker DEF RefHandle, At, WorkerOk, TileAts
<1>2. TypeHandle' /\ TypeList' /\ TypeModels'
  <2>1. handle[IdOf[i]] \in [refs : Nat, inst : Instances \cup {None}]
    BY <1>1, AtWorker DEF TypeHandle
  <2>2. handle' \in [Ids -> [refs : Nat, inst : Instances \cup {None}]]
    BY <1>1, <2>1, AtWorker DEF RefHandle, Referenced, TypeHandle
  <2>3. tile' = tile \/ tile' = [tile EXCEPT ![i] = "listed"]
    BY DEF RefHandle
  <2>4. TypeList' /\ TypeModels'
    BY AtWorker DEF RefHandle, TypeList, TypeModels, listVars
  <2>5. QED
    BY <1>1, <2>2, <2>3, <2>4, AtWorker DEF TypeHandle
<1>3. /\ DOMAIN list \subseteq DOMAIN list' /\ garbage' = garbage /\ doodads' = doodads
      /\ fault' = fault
  BY DEF RefHandle, listVars
<1>4. Held(thread[w]) = {"map_wmo"}
  BY <1>1, AtWorker DEF Held, Needs, At, TellAts, Locks
<1>5. CASE handle[IdOf[i]].inst = None
  <2>1. PICK th \in ThreadType : th = Doing("new", "wmo", thread[w].task, i, thread[w].pos)
    BY AtWorker DEF Doing, ThreadType, Ats, TileAts, Locks
  <2>2. Moves(w, th, {}) /\ tile' = tile
    BY <1>5, <2>1, AtWorker, NoUnlock DEF RefHandle, Moves, Goto
  <2>3. Types'
    BY <1>2, <2>1, <2>2, AtWorker, MovesTypes DEF Types
  <2>4. Held(th) = {"map_wmo"} /\ Waits(th)
    BY <2>1 DEF Held, Needs, Waits, Doing, Locks, TellAts, Rank
  <2>5. WorkerOk(th)'
    BY <1>1, <1>3, <2>1, <2>2, AtWorker DEF WorkerOk, TileAts, TellAts, Doing
  <2>6. th.i = i
    BY <2>1 DEF Doing
  <2>7. QED
    BY <1>1, <1>3, <1>4, <2>1, <2>2, <2>3, <2>4, <2>5, <2>6, WorkerMoves
<1>6. CASE handle[IdOf[i]].inst # None
  <2>1. Moves(w, Resting, {"map_wmo"}) /\ tile' = [tile EXCEPT ![i] = "listed"]
    BY <1>6 DEF RefHandle, Moves, Rest
  <2>2. Types'
    BY <1>2, <2>1, AtWorker, MovesTypes, RestingType DEF Types
  <2>3. Held(Resting) = {} /\ Resting.wait = None /\ Resting.task = "none"
    BY DEF Held, Needs, Resting, Doing, TellAts
  <2>4. WorkerOk(Resting)'
    BY DEF WorkerOk, TileAts, TellAts, Resting, Doing
  <2>5. \A j \in Tiles : tile'[j] = tile[j] \/ j = i
    BY <2>1, AtWorker DEF TypeHandle
  <2>6. QED
    BY <1>1, <1>3, <1>4, <2>1, <2>2, <2>3, <2>4, <2>5, RestingType, WorkerMoves
<1>7. QED
  BY <1>5, <1>6

LEMMA NewInstanceBase ==
  ASSUME Base, fault = NoFault, NEW w \in Workers, NewInstance(w)
  PROVE  Base'
<1> DEFINE i == thread[w].i
<1>1. At(w, "new") /\ thread[w].task = "tile" /\ i \in Tiles /\ IdOf[i] \in Ids
  BY AtWorker DEF NewInstance, At, WorkerOk, TileAts
<1>2. PICK th \in ThreadType : th = Doing("place", "wmo", thread[w].task, i, thread[w].pos)
  BY AtWorker DEF Doing, ThreadType, Ats, TileAts, Locks
<1>3. Moves(w, th, {"wmo", "map_wmo"}) /\ tile' = tile
  BY <1>2, AtWorker DEF NewInstance, Moves, Goto
<1>4. TypeList'
  <2>1. i \in Instances /\ list \in Seq(Instances) /\ list' = Append(list, i)
    BY <1>1, AtWorker DEF NewInstance, Enlist, TypeList, Instances
  <2>2. stage' \in [Instances -> Stages]
    BY <1>1, AtWorker DEF NewInstance, Enlist, TypeList, Stages
  <2>3. QED
    BY <2>1, <2>2, AtWorker DEF NewInstance, Enlist, TypeList
<1>5. TypeHandle' /\ TypeModels'
  BY <1>1, AtWorker DEF NewInstance, TypeHandle, TypeModels, Instances
<1>6. Types'
  BY <1>2, <1>3, <1>4, <1>5, AtWorker, MovesTypes DEF Types
<1>7. Held(thread[w]) = {"wmo", "map_wmo"} /\ Held(th) = {} /\ Waits(th)
  BY <1>1, <1>2, AtWorker DEF Held, Needs, Waits, At, Doing, Locks, TellAts, Rank
<1>8. WorkerOk(th)'
  BY <1>1, <1>2, <1>3, AtWorker DEF WorkerOk, TileAts, TellAts, Doing
<1>9. /\ DOMAIN list \subseteq DOMAIN list' /\ garbage' = garbage /\ doodads' = doodads
      /\ fault' = fault
  BY <1>1, AtWorker DEF NewInstance, Enlist, TypeList
<1>10. th.i = i
  BY <1>2 DEF Doing
<1>11. QED
  BY <1>1, <1>2, <1>3, <1>6, <1>7, <1>8, <1>9, <1>10, WorkerMoves

LEMMA PlaceBase ==
  ASSUME Base, fault = NoFault, NEW w \in Workers, Place(w)
  PROVE  Base'
<1> DEFINE i == thread[w].i
<1>1. At(w, "place") /\ thread[w].task = "tile" /\ i \in Tiles
  BY AtWorker DEF Place, At, WorkerOk, TileAts
<1>2. TypeHandle' /\ TypeList' /\ TypeModels'
  <2>1. file' = file \/ file' = Asked("wmo")
    BY DEF Place
  <2>2. tile' = tile \/ tile' = [tile EXCEPT ![i] = "listed"]
    BY DEF Place
  <2>3. TypeHandle'
    BY <1>1, <2>2, AtWorker DEF Place, TypeHandle
  <2>4. TypeModels'
    BY <2>1, AtWorker DEF Place, Asked, TypeModels, Phases
  <2>5. TypeList'
    BY AtWorker DEF Place, TypeList, Stages
  <2>6. QED
    BY <2>3, <2>4, <2>5
<1>3. /\ DOMAIN list \subseteq DOMAIN list' /\ garbage' = garbage /\ doodads' = doodads
      /\ fault' = fault
  BY DEF Place
<1>4. Held(thread[w]) = {"wmo"}
  BY <1>1, AtWorker DEF Held, Needs, At, TellAts, Locks
<1>5. CASE ParentLoaded
  <2>1. PICK th \in ThreadType : th = Doing("doodad", "m2", thread[w].task, i, thread[w].pos)
    BY AtWorker DEF Doing, ThreadType, Ats, TellAts, Locks
  <2>2. Moves(w, th, {}) /\ tile' = tile
    BY <1>5, <2>1, AtWorker, NoUnlock DEF Place, Moves, Goto
  <2>3. Types'
    BY <1>2, <2>1, <2>2, AtWorker, MovesTypes DEF Types
  <2>4. Held(th) = {"wmo"} /\ Waits(th)
    BY <2>1 DEF Held, Needs, Waits, Doing, Locks, TellAts, Rank
  <2>5. WorkerOk(th)'
    BY <1>1, <1>3, <2>1, <2>2, AtWorker DEF WorkerOk, TileAts, TellAts, Doing
  <2>6. th.i = i
    BY <2>1 DEF Doing
  <2>7. QED
    BY <1>1, <1>3, <1>4, <2>1, <2>2, <2>3, <2>4, <2>5, <2>6, WorkerMoves
<1>6. CASE ~ParentLoaded
  <2>1. Moves(w, Resting, {"wmo"}) /\ tile' = [tile EXCEPT ![i] = "listed"]
    BY <1>6 DEF Place, Moves, Rest
  <2>2. Types'
    BY <1>2, <2>1, AtWorker, MovesTypes, RestingType DEF Types
  <2>3. Held(Resting) = {} /\ Resting.wait = None /\ Resting.task = "none"
    BY DEF Held, Needs, Resting, Doing, TellAts
  <2>4. WorkerOk(Resting)'
    BY DEF WorkerOk, TileAts, TellAts, Resting, Doing
  <2>5. \A j \in Tiles : tile'[j] = tile[j] \/ j = i
    BY <2>1, AtWorker DEF TypeHandle
  <2>6. QED
    BY <1>1, <1>3, <1>4, <2>1, <2>2, <2>3, <2>4, <2>5, RestingType, WorkerMoves
<1>7. QED
  BY <1>5, <1>6

(* sequences of counts                                                     *)
LEMMA AppendNat ==
  ASSUME NEW s \in Seq(Nat), NEW n \in Nat
  PROVE  Append(s, n) \in Seq(Nat) /\ Append(s, n) # <<>>
  BY AppendProperties

LEMMA BumpNat ==
  ASSUME NEW s \in Seq(Nat)
  PROVE  LastTold(s) \in Seq(Nat) /\ (s # <<>> => LastTold(s) # <<>>)
<1> DEFINE b == LastTold(s)
<1>1. DOMAIN s = 1 .. Len(s) /\ Len(s) \in Nat /\ \A n \in 1 .. Len(s) : s[n] \in Nat
  BY LenProperties, ElementOfSeq
<1> DEFINE c == [n \in 1 .. Len(s) |-> IF n = Len(s) THEN s[n] + 1 ELSE s[n]]
<1>2. b = c
  BY <1>1 DEF LastTold
<1>3. b \in [1 .. Len(s) -> Nat]
  <2>1. ASSUME NEW n \in 1 .. Len(s) PROVE (IF n = Len(s) THEN s[n] + 1 ELSE s[n]) \in Nat
    <3>1. s[n] \in Nat
      BY <1>1
    <3>2. s[n] + 1 \in Nat
      BY <3>1
    <3>3. QED
      BY <3>1, <3>2, Zenon
  <2>2. c \in [1 .. Len(s) -> Nat]
    BY <2>1, Zenon
  <2>3. QED
    BY <1>2, <2>2
<1> HIDE DEF b, c
<1>4. b \in Seq(Nat) /\ DOMAIN b = 1 .. Len(s)
  BY <1>1, <1>3, IsASeq
<1>5. s # <<>> => Len(s) # 0
  BY EmptySeq
<1>6. b # <<>> \/ s = <<>>
  BY <1>1, <1>4, <1>5, EmptySeq, LenProperties
<1>7. QED
  BY <1>4, <1>6 DEF b

(* the instance a worker tells is one                                      *)
LEMMA SubjectIs ==
  ASSUME Base, fault = NoFault, NEW w \in Workers, thread[w].at \in TellAts
  PROVE  Subject(w) \in Instances
  BY AtWorker DEF Subject, WorkerOk, TypeList, Instances

LEMMA NewDoodadBase ==
  ASSUME Base, fault = NoFault, NEW w \in Workers, NewDoodad(w)
  PROVE  Base'
<1>1. At(w, "doodad") /\ thread[w].at \in TellAts /\ Subject(w) \in Instances
  BY SubjectIs DEF NewDoodad, At, TellAts
<1>2. PICK th \in ThreadType : th = Doing("settle", "m2", thread[w].task, thread[w].i, thread[w].pos)
  BY AtWorker DEF Doing, ThreadType, Ats, TellAts, Locks
<1>3. Moves(w, th, {"m2"}) /\ tile' = tile
  BY <1>2, AtWorker DEF NewDoodad, Moves, Goto
<1>4. TypeModels' /\ \A i \in Instances : doodads[i] # <<>> => doodads'[i] # <<>>
  <2> DEFINE i == Subject(w)
  <2>1. doodads[i] \in Seq(Nat)
    BY <1>1, AtWorker DEF TypeModels
  <2>2. PICK n \in Nat : doodads' = [doodads EXCEPT ![i] = Append(doodads[i], n)]
    BY DEF NewDoodad
  <2> HIDE DEF i
  <2>3. Append(doodads[i], n) \in Seq(Nat) /\ Append(doodads[i], n) # <<>>
    BY <2>1, AppendNat
  <2>4. file' = file /\ garbage' = garbage
    BY DEF NewDoodad
  <2>5. QED
    BY <2>2, <2>3, <2>4, AtWorker DEF TypeModels
<1>5. TypeHandle' /\ TypeList'
  BY AtWorker DEF NewDoodad, TypeHandle, TypeList, listVars
<1>6. Types'
  BY <1>2, <1>3, <1>4, <1>5, AtWorker, MovesTypes DEF Types
<1>7. Held(thread[w]) = {"wmo", "m2"} /\ Held(th) = {"wmo"} /\ Waits(th)
  BY <1>1, <1>2, AtWorker DEF Held, Needs, Waits, At, Doing, Locks, TellAts, Rank
<1>8. WorkerOk(th)'
  BY <1>1, <1>2, <1>3, AtWorker DEF NewDoodad, listVars, WorkerOk, TileAts, TellAts, Doing
<1>9. DOMAIN list \subseteq DOMAIN list' /\ garbage' = garbage /\ fault' = fault
  BY DEF NewDoodad, listVars
<1>10. th.i = thread[w].i /\ th.task = thread[w].task
  BY <1>2 DEF Doing
<1>11. QED
  BY <1>1, <1>2, <1>3, <1>4, <1>6, <1>7, <1>8, <1>9, <1>10, WorkerMoves

LEMMA SettleDoodadBase ==
  ASSUME Base, fault = NoFault, NEW w \in Workers, SettleDoodad(w)
  PROVE  Base'
<1>1. At(w, "settle") /\ thread[w].at \in TellAts /\ Subject(w) \in Instances
  BY SubjectIs DEF SettleDoodad, At, TellAts
<1>2. PICK th \in ThreadType : th = Doing("groups", None, thread[w].task, thread[w].i, thread[w].pos)
  BY AtWorker DEF Doing, ThreadType, Ats, TellAts, Locks
<1>3. Moves(w, th, {"m2"}) /\ tile' = tile
  BY <1>2, AtWorker DEF SettleDoodad, Moves, Goto
<1>4. TypeModels' /\ \A i \in Instances : doodads[i] # <<>> => doodads'[i] # <<>>
  <2> DEFINE i == Subject(w)
  <2>1. doodads[i] \in Seq(Nat)
    BY <1>1, AtWorker DEF TypeModels
  <2> DEFINE b == LastTold(doodads[i])
  <2>2. b \in Seq(Nat) /\ (doodads[i] # <<>> => b # <<>>)
    BY <2>1, BumpNat
  <2>3. doodads' = doodads \/ doodads' = [doodads EXCEPT ![i] = b]
    BY Zenon DEF SettleDoodad
  <2>4. file' = file \/ file' = Asked("m2")
    BY DEF SettleDoodad
  <2>5. file' \in [{"wmo", "group", "m2"} -> Phases] /\ garbage' = garbage
    BY <2>4, AtWorker DEF SettleDoodad, Asked, TypeModels, Phases
  <2> HIDE DEF i, b
  <2>6. QED
    BY <2>2, <2>3, <2>5, AtWorker DEF TypeModels
<1>5. TypeHandle' /\ TypeList'
  BY AtWorker DEF SettleDoodad, TypeHandle, TypeList, listVars
<1>6. Types'
  BY <1>2, <1>3, <1>4, <1>5, AtWorker, MovesTypes DEF Types
<1>7. Held(thread[w]) = {"wmo", "m2"} /\ Held(th) = {"wmo"} /\ th.wait = None
  BY <1>1, <1>2, AtWorker DEF Held, Needs, At, Doing, Locks, TellAts
<1>8. WorkerOk(th)'
  BY <1>1, <1>2, <1>3, AtWorker DEF SettleDoodad, listVars, WorkerOk, TileAts, TellAts, Doing, Locks
<1>9. DOMAIN list \subseteq DOMAIN list' /\ garbage' = garbage /\ fault' = fault
  BY DEF SettleDoodad, listVars
<1>10. th.i = thread[w].i /\ th.task = thread[w].task
  BY <1>2 DEF Doing
<1>11. QED
  BY <1>1, <1>2, <1>3, <1>4, <1>6, <1>7, <1>8, <1>9, <1>10, WorkerMoves

(* the end of the call: the walk goes on, or the load of the tile ends     *)
LEMMA ReturnBase ==
  ASSUME Base, fault = NoFault, NEW w \in Workers, thread[w].at \in TellAts, NEW S,
         "wmo" \notin S, Held(thread[w]) = S \cup {"wmo"}, Return(w, S), TypeList',
         UNCHANGED <<handle, list, doodads, file, garbage, fault>>
  PROVE  Base'
<1>1. thread[w].task \in {"tile", "wmo", "group"}
  BY AtWorker DEF WorkerOk
<1>2. TypeHandle' /\ TypeModels'
  <2>1. tile' = tile \/ (thread[w].task = "tile" /\ tile' = [tile EXCEPT ![thread[w].i] = "listed"])
    BY DEF Return
  <2>2. thread[w].task = "tile" => thread[w].i \in Tiles
    BY AtWorker DEF WorkerOk
  <2>3. TypeHandle'
    BY <2>1, <2>2, AtWorker DEF TypeHandle
  <2>4. QED
    BY <2>3, AtWorker DEF TypeModels
<1>3. CASE thread[w].task = "tile"
  <2>1. Moves(w, Resting, S \cup {"wmo"}) /\ tile' = [tile EXCEPT ![thread[w].i] = "listed"]
    BY <1>3 DEF Return, Moves, Rest
  <2>2. Types'
    BY <1>2, <2>1, AtWorker, MovesTypes, RestingType DEF Types
  <2>3. Held(Resting) = {} /\ Resting.wait = None /\ Resting.task = "none"
    BY DEF Held, Needs, Resting, Doing, TellAts
  <2>4. WorkerOk(Resting)'
    BY DEF WorkerOk, TileAts, TellAts, Resting, Doing
  <2>5. \A j \in Tiles : tile'[j] = tile[j] \/ j = thread[w].i
    BY <2>1, AtWorker DEF TypeHandle
  <2>6. QED
    BY <1>3, <2>1, <2>2, <2>3, <2>4, <2>5, RestingType, WorkerMoves
<1>4. CASE thread[w].task # "tile"
  <2>1. thread[w].pos \in Nat /\ thread[w].pos + 1 \in Nat
    BY AtWorker DEF ThreadType
  <2>2. PICK th \in ThreadType : th = Doing("walk", None, thread[w].task, None, thread[w].pos + 1)
    <3>1. ASSUME NEW n \in Nat
          PROVE  \E th \in ThreadType : th = Doing("walk", None, thread[w].task, None, n)
      BY <1>1 DEF Doing, ThreadType, Ats
    <3>2. QED
      BY <2>1, <3>1
  <2>3. Moves(w, th, S) /\ tile' = tile
    BY <1>4, <2>2, AtWorker DEF Return, Moves
  <2>4. Types'
    BY <1>2, <2>2, <2>3, AtWorker, MovesTypes DEF Types
  <2>5. Held(th) = {"wmo"} /\ th.wait = None /\ th.task # "tile"
    BY <1>4, <2>2 DEF Held, Needs, Doing, Locks, TellAts
  <2>6. WorkerOk(th)'
    BY <1>1, <1>4, <2>1, <2>2 DEF WorkerOk, TileAts, TellAts, Doing
  <2>7. QED
    BY <2>2, <2>3, <2>4, <2>5, <2>6, WorkerMoves
<1>5. QED
  BY <1>3, <1>4

LEMMA TellInstanceBase ==
  ASSUME Base, fault = NoFault, NEW w \in Workers, TellInstance(w)
  PROVE  Base'
<1>1. At(w, "groups") /\ thread[w].at \in TellAts /\ Subject(w) \in Instances
  BY SubjectIs DEF TellInstance, At, TellAts
<1>2. TypeList'
  <2> DEFINE i == Subject(w)
  <2>1. /\ told' = [told EXCEPT ![i] = told[i] + 1] /\ grouped' = [grouped EXCEPT ![i] = FALSE]
        /\ early' \in {early, early \cup {i}} /\ list' = list /\ stage' = stage
    BY DEF TellInstance
  <2>2. i \in Instances
    BY <1>1
  <2> HIDE DEF i
  <2>3. told[i] + 1 \in Nat
    BY <2>2, AtWorker DEF TypeList
  <2>4. QED
    BY <2>1, <2>2, <2>3, AtWorker DEF TypeList
<1>3. UNCHANGED <<handle, list, doodads, file, garbage, fault>>
  BY DEF TellInstance
<1>4. Held(thread[w]) = {"wmo"}
  BY <1>1, AtWorker DEF Held, Needs, At, TellAts, Locks
<1>5. CASE file.group = "loaded"
  <2>1. PICK th \in ThreadType : th = Doing("group", "m2", thread[w].task, thread[w].i, thread[w].pos)
    BY AtWorker DEF Doing, ThreadType, Ats, TellAts, Locks
  <2>2. Moves(w, th, {}) /\ tile' = tile
    BY <1>5, <2>1, AtWorker, NoUnlock DEF TellInstance, Moves, Goto
  <2>3. Types'
    BY <1>2, <1>3, <2>1, <2>2, AtWorker, MovesTypes DEF Types, TypeHandle, TypeModels
  <2>4. Held(th) = {"wmo"} /\ Waits(th)
    BY <2>1 DEF Held, Needs, Waits, Doing, Locks, TellAts, Rank
  <2>5. WorkerOk(th)'
    BY <1>1, <1>3, <2>1, <2>2, AtWorker DEF WorkerOk, TileAts, TellAts, Doing
  <2>6. th.i = thread[w].i /\ th.task = thread[w].task
    BY <2>1 DEF Doing
  <2>7. QED
    BY <1>3, <1>4, <2>1, <2>2, <2>3, <2>4, <2>5, <2>6, WorkerMoves
<1>6. CASE file.group # "loaded"
  BY <1>1, <1>2, <1>3, <1>4, <1>6, ReturnBase DEF TellInstance
<1>7. QED
  BY <1>5, <1>6

LEMMA TellGroupBase ==
  ASSUME Base, fault = NoFault, NEW w \in Workers, TellGroup(w)
  PROVE  Base'
<1>1. At(w, "group") /\ thread[w].at \in TellAts /\ Subject(w) \in Instances
  BY SubjectIs DEF TellGroup, At, TellAts
<1>2. Held(thread[w]) = {"m2"} \cup {"wmo"}
  BY <1>1, AtWorker DEF Held, Needs, At, TellAts, Locks
<1>3. TypeList'
  BY <1>1, AtWorker DEF TellGroup, TypeList
<1>4. QED
  BY <1>1, <1>2, <1>3, ReturnBase DEF TellGroup

-----------------------------------------------------------------------------
LEMMA TakeTaskBase ==
  ASSUME Base, fault = NoFault, NEW w \in Workers, TakeTask(w)
  PROVE  Base'
<1>1. PICK k \in {"wmo", "group", "m2"} :
        /\ At(w, "idle") /\ file' = [file EXCEPT ![k] = "loading"]
        /\ thread' = [thread EXCEPT ![w] =
                        IF k = "m2" THEN Doing("post", "m2", k, None, 0)
                                    ELSE Doing("walk", "wmo", k, None, 1)]
        /\ UNCHANGED <<owner, tile, handle, listVars, doodads, garbage, fault>>
  BY DEF TakeTask
<1>2. PICK th \in ThreadType : th = IF k = "m2" THEN Doing("post", "m2", k, None, 0)
                                               ELSE Doing("walk", "wmo", k, None, 1)
  <2>1. Doing("post", "m2", "m2", None, 0) \in ThreadType
    BY DEF Doing, ThreadType, Ats, Locks
  <2>2. k # "m2" => Doing("walk", "wmo", k, None, 1) \in ThreadType
    BY DEF Doing, ThreadType, Ats, Locks
  <2>3. QED
    BY <2>1, <2>2
<1>3. Moves(w, th, {})
  BY <1>1, <1>2, AtWorker, NoUnlock DEF Moves
<1>4. Types'
  BY <1>1, <1>2, <1>3, AtWorker, MovesTypes DEF Types, TypeHandle, TypeList, TypeModels, listVars, Phases
<1>5. Held(th) = {} /\ Held(thread[w]) = {} /\ Waits(th)
  BY <1>1, <1>2 DEF Held, Needs, Waits, At, Doing, Locks, TellAts, Rank
<1>6. WorkerOk(th)' /\ th.task # "tile"
  BY <1>2 DEF WorkerOk, TileAts, TellAts, Doing
<1>7. DOMAIN list \subseteq DOMAIN list' /\ tile' = tile /\ garbage' = garbage /\ fault' = fault
      /\ doodads' = doodads
  BY <1>1 DEF listVars
<1>8. QED
  BY <1>2, <1>3, <1>4, <1>5, <1>6, <1>7, WorkerMoves

LEMMA WalkOnBase ==
  ASSUME Base, fault = NoFault, NEW w \in Workers, WalkOn(w)
  PROVE  Base'
<1>1. At(w, "walk") /\ thread[w].task \in {"wmo", "group"} /\ thread[w].pos > 0
  BY AtWorker DEF WalkOn, At, WorkerOk
<1>2. thread[w].pos \in DOMAIN list
  <2>1. thread[w].pos \in Nat /\ Len(list) \in Nat /\ DOMAIN list = 1 .. Len(list)
    BY AtWorker DEF ThreadType, TypeList
  <2>2. QED
    BY <1>1, <2>1 DEF WalkOn, Walked
<1>3. TypeHandle' /\ TypeList' /\ TypeModels'
  BY AtWorker DEF WalkOn, TypeHandle, TypeList, TypeModels, listVars
<1>4. /\ DOMAIN list \subseteq DOMAIN list' /\ tile' = tile /\ garbage' = garbage
      /\ doodads' = doodads
  BY DEF WalkOn, listVars
<1>5. CASE thread' = thread
  <2>1. owner' = owner /\ (fault' = NoFault => fault = NoFault)
    BY DEF WalkOn
  <2>2. Types'
    BY <1>3, <1>5, <2>1, AtWorker DEF Types, TypeThread
  <2>3. Moves(w, thread[w], {})
    BY <1>5, <2>1, AtWorker, NoUnlock DEF Moves
  <2>4. thread[w].wait = None /\ thread[w].task # "tile"
    BY <1>1 DEF At
  <2>5. WorkerOk(thread[w])'
    BY <1>1, <1>5, AtWorker DEF WorkerOk, At, TellAts, TileAts
  <2>6. WorkerInv' /\ FrameInv'
    BY <1>4, <1>5, <2>1 DEF Base, WorkerInv, WorkerOk, FrameInv, FrameOk
  <2>7. Owned' /\ OneWorker' /\ Garbage'
    BY <1>4, <1>5, <2>1 DEF Base, Owned, OneWorker, Garbage
  <2>8. QED
    BY <2>2, <2>6, <2>7 DEF Base
<1>6. CASE thread' # thread
  <2>1. PICK a \in {"doodad", "group"} : thread' = Goto(w, a, "m2") /\ fault' = fault
    BY <1>6 DEF WalkOn
  <2>2. PICK th \in ThreadType : th = Doing(a, "m2", thread[w].task, thread[w].i, thread[w].pos)
    BY AtWorker DEF Doing, ThreadType, Ats, TellAts, Locks
  <2>3. Moves(w, th, {})
    BY <2>1, <2>2, AtWorker, NoUnlock DEF WalkOn, Moves, Goto
  <2>4. Types'
    BY <1>3, <2>2, <2>3, AtWorker, MovesTypes DEF Types
  <2>5. Held(thread[w]) = {"wmo"}
    BY <1>1, AtWorker DEF Held, Needs, At, TellAts, Locks
  <2>6. Held(th) = {"wmo"} /\ Waits(th)
    BY <2>2 DEF Held, Needs, Waits, Doing, Locks, TellAts, Rank
  <2>7. WorkerOk(th)' /\ th.task # "tile"
    BY <1>1, <1>2, <1>4, <2>1, <2>2, AtWorker DEF WorkerOk, TileAts, TellAts, Doing
  <2>8. QED
    BY <1>4, <2>1, <2>2, <2>3, <2>4, <2>5, <2>6, <2>7, WorkerMoves
<1>7. QED
  BY <1>5, <1>6

(* the ends of a load                                                      *)
LEMMA LoadEndBase ==
  ASSUME Base, fault = NoFault, NEW w \in Workers,
         NEW l \in {"wmo", "m2"}, Held(thread[w]) = {l}, Moves(w, Resting, {l}), TypeModels',
         UNCHANGED <<tile, handle, listVars, garbage, fault>>,
         \A i \in Instances : doodads[i] # <<>> => doodads'[i] # <<>>
  PROVE  Base'
<1>1. Types'
  BY AtWorker, MovesTypes, RestingType DEF Types, TypeHandle, TypeList, listVars
<1>2. Held(Resting) = {} /\ Resting.wait = None /\ Resting.task = "none"
  BY DEF Held, Needs, Resting, Doing, TellAts
<1>3. WorkerOk(Resting)'
  BY DEF WorkerOk, TileAts, TellAts, Resting, Doing
<1>4. DOMAIN list \subseteq DOMAIN list' /\ tile' = tile /\ garbage' = garbage /\ fault' = fault
  BY DEF listVars
<1>5. QED
  BY <1>1, <1>2, <1>3, <1>4, RestingType, WorkerMoves

LEMMA WalkEndBase ==
  ASSUME Base, fault = NoFault, NEW w \in Workers, WalkEnd(w)
  PROVE  Base'
<1>1. At(w, "walk") /\ thread[w].task \in {"wmo", "group"}
  BY AtWorker DEF WalkEnd, At, WorkerOk
<1>2. Held(thread[w]) = {"wmo"} /\ Moves(w, Resting, {"wmo"})
  BY <1>1, AtWorker DEF WalkEnd, Rest, Moves, Held, Needs, At, TellAts, Locks
<1>3. TypeModels' /\ doodads' = doodads
  BY AtWorker DEF WalkEnd, TypeModels, Phases
<1>4. UNCHANGED <<tile, handle, listVars, garbage, fault>>
  BY DEF WalkEnd
<1>5. QED
  BY <1>1, <1>2, <1>3, <1>4, LoadEndBase

LEMMA PostLoadBase ==
  ASSUME Base, fault = NoFault, NEW w \in Workers, PostLoad(w)
  PROVE  Base'
<1>1. At(w, "post")
  BY AtWorker DEF PostLoad, At, WorkerOk
<1>2. Held(thread[w]) = {"m2"} /\ Moves(w, Resting, {"m2"})
  BY <1>1, AtWorker DEF PostLoad, Rest, Moves, Held, Needs, At, TellAts, Locks
<1>3. TypeModels' /\ \A i \in Instances : doodads[i] # <<>> => doodads'[i] # <<>>
  <2>1. ASSUME NEW i \in Instances
        PROVE  doodads'[i] \in Seq(Nat) /\ (doodads[i] # <<>> => doodads'[i] # <<>>)
    <3> DEFINE s == doodads[i]
               b == [n \in 1 .. Len(s) |-> s[n] + 1]
    <3>1. s \in Seq(Nat)
      BY AtWorker DEF TypeModels
    <3> HIDE DEF s
    <3>2. DOMAIN s = 1 .. Len(s) /\ Len(s) \in Nat /\ \A n \in 1 .. Len(s) : s[n] + 1 \in Nat
      BY <3>1, LenProperties, ElementOfSeq
    <3>3. b \in [1 .. Len(s) -> Nat]
      BY <3>2
    <3>4. b \in Seq(Nat) /\ DOMAIN b = 1 .. Len(s)
      BY <3>2, <3>3, IsASeq
    <3>5. b # <<>> \/ s = <<>>
      BY <3>1, <3>2, <3>4, EmptySeq, LenProperties
    <3>6. doodads'[i] = b
      BY <3>2 DEF PostLoad, s
    <3>7. QED
      BY <3>4, <3>5, <3>6 DEF s
  <2>2. DOMAIN doodads' = Instances /\ doodads' = [i \in Instances |-> doodads'[i]]
    BY DEF PostLoad
  <2>3. doodads' \in [Instances -> Seq(Nat)]
    BY <2>1, <2>2
  <2>4. file' \in [{"wmo", "group", "m2"} -> Phases] /\ garbage' = garbage
    BY AtWorker DEF PostLoad, TypeModels, Phases
  <2>5. QED
    BY <2>1, <2>3, <2>4, AtWorker DEF TypeModels
<1>4. UNCHANGED <<tile, handle, listVars, garbage, fault>>
  BY DEF PostLoad
<1>5. QED
  BY <1>1, <1>2, <1>3, <1>4, LoadEndBase

-----------------------------------------------------------------------------
(* what the steps of the thread of the frames start from                   *)
LEMMA AtFrame ==
  ASSUME Base
  PROVE  /\ thread[Frame] \in ThreadType /\ FrameOk(thread[Frame]) /\ Frame \in Threads
         /\ TypeThread /\ TypeHandle /\ TypeList /\ TypeModels /\ Garbage
         /\ thread \in [Threads -> ThreadType] /\ owner \in [Locks -> Threads \cup {None}]
  BY DEF Base, Types, TypeThread, FrameInv, Threads

(* a step that changes nothing but where it is, and unlocks                *)
LEMMA FrameGoes ==
  ASSUME Base, fault = NoFault, NEW th \in ThreadType, NEW S, Moves(Frame, th, S),
         S \subseteq Held(thread[Frame]), Held(th) = Held(thread[Frame]) \ S,
         th.wait = None \/ Waits(th), FrameOk(th)',
         TypeHandle', TypeList', TypeModels', Garbage', DOMAIN list \subseteq DOMAIN list',
         \A i \in Tiles : tile'[i] = tile[i] \/ tile[i] # "loading"
  PROVE  Base'
<1>1. Types'
  BY AtFrame, MovesTypes DEF Types
<1>2. QED
  BY <1>1, FrameMoves

LEMMA ReleaseBase ==
  ASSUME Base, fault = NoFault, Release
  PROVE  Base'
<1>1. PICK i \in Tiles :
        /\ At(Frame, "idle") /\ tile[i] = "listed"
        /\ tile' = [tile EXCEPT ![i] = "released"]
        /\ thread' = [thread EXCEPT ![Frame] = Doing("unref", "map_wmo", "none", i, 0)]
        /\ UNCHANGED <<owner, handle, listVars, doodads, file, garbage, fault>>
  BY DEF Release
<1>2. PICK th \in ThreadType : th = Doing("unref", "map_wmo", "none", i, 0)
  BY DEF Doing, ThreadType, Ats, FrameAts, Locks, Instances
<1>3. Moves(Frame, th, {})
  BY <1>1, <1>2, AtFrame, NoUnlock DEF Moves
<1>4. TypeHandle' /\ TypeList' /\ TypeModels' /\ Garbage' /\ list' = list
  BY <1>1, AtFrame DEF TypeHandle, TypeList, TypeModels, Garbage, listVars
<1>5. Held(th) = {} /\ Held(thread[Frame]) = {} /\ Waits(th)
  BY <1>1, <1>2 DEF Held, Needs, Waits, At, Doing, Locks, TellAts, Rank
<1>6. FrameOk(th)'
  BY <1>1, <1>2, AtFrame DEF FrameOk, FrameAts, Doing, TypeHandle
<1>7. \A j \in Tiles : tile'[j] = tile[j] \/ tile[j] # "loading"
  BY <1>1, AtFrame DEF TypeHandle
<1>8. QED
  BY <1>2, <1>3, <1>4, <1>5, <1>6, <1>7, FrameGoes

(* The steps that leave everything else as it is.                          *)
LEMMA FrameOnly ==
  ASSUME Base, fault = NoFault, NEW th \in ThreadType, NEW S, Moves(Frame, th, S),
         S \subseteq Held(thread[Frame]), Held(th) = Held(thread[Frame]) \ S,
         th.wait = None \/ Waits(th), FrameOk(th),
         UNCHANGED <<tile, handle, listVars, doodads, file, garbage>>
  PROVE  Base'
<1>1. TypeHandle' /\ TypeList' /\ TypeModels' /\ Garbage' /\ list' = list /\ tile' = tile
  BY AtFrame DEF TypeHandle, TypeList, TypeModels, Garbage, listVars
<1>2. FrameOk(th)'
  BY DEF FrameOk, listVars
<1>3. QED
  BY <1>1, <1>2, FrameGoes

LEMMA OpenMapBase ==
  ASSUME Base, fault = NoFault, OpenMap
  PROVE  Base'
<1>1. PICK i \in Maps :
        /\ At(Frame, "idle")
        /\ thread' = [thread EXCEPT ![Frame] = Doing("open", "wmo", "none", i, 0)]
        /\ UNCHANGED <<owner, tile, handle, listVars, doodads, file, garbage, fault>>
  BY DEF OpenMap
<1>2. PICK th \in ThreadType : th = Doing("open", "wmo", "none", i, 0)
  BY DEF Doing, ThreadType, Ats, FrameAts, Locks, Instances
<1>3. Moves(Frame, th, {})
  BY <1>1, <1>2, AtFrame, NoUnlock DEF Moves
<1>4. Held(th) = {} /\ Held(thread[Frame]) = {} /\ Waits(th)
  BY <1>1, <1>2 DEF Held, Needs, Waits, At, Doing, Locks, TellAts, Rank
<1>5. FrameOk(th)
  BY <1>2 DEF FrameOk, FrameAts, Doing
<1>6. QED
  BY <1>1, <1>2, <1>3, <1>4, <1>5, FrameOnly

LEMMA LeaveMapBase ==
  ASSUME Base, fault = NoFault, LeaveMap
  PROVE  Base'
<1>1. PICK i \in Maps :
        /\ At(Frame, "idle")
        /\ thread' = [thread EXCEPT ![Frame] = Doing("collect", "gc", "none", i, 0)]
        /\ UNCHANGED <<owner, tile, handle, listVars, doodads, file, garbage, fault>>
  BY DEF LeaveMap
<1>2. PICK th \in ThreadType : th = Doing("collect", "gc", "none", i, 0)
  BY DEF Doing, ThreadType, Ats, FrameAts, Locks, Instances
<1>3. Moves(Frame, th, {})
  BY <1>1, <1>2, AtFrame, NoUnlock DEF Moves
<1>4. Held(th) = {} /\ Held(thread[Frame]) = {} /\ Waits(th)
  BY <1>1, <1>2 DEF Held, Needs, Waits, At, Doing, Locks, TellAts, Rank
<1>5. FrameOk(th)
  BY <1>2 DEF FrameOk, FrameAts, Doing, Instances
<1>6. QED
  BY <1>1, <1>2, <1>3, <1>4, <1>5, FrameOnly

LEMMA NewMapInstanceBase ==
  ASSUME Base, fault = NoFault, NewMapInstance
  PROVE  Base'
<1> DEFINE i == thread[Frame].i
<1>1. At(Frame, "open") /\ i \in Maps /\ i \in Instances
  BY AtFrame DEF NewMapInstance, At, FrameOk, Instances
<1>2. PICK th \in ThreadType : th = Doing("ask", None, thread[Frame].task, i, thread[Frame].pos)
  BY AtFrame DEF Doing, ThreadType, Ats, FrameAts
<1>3. Moves(Frame, th, {"wmo"}) /\ tile' = tile
  BY <1>2, AtFrame DEF NewMapInstance, Moves, Goto
<1>4. TypeList'
  BY <1>1, AtFrame DEF NewMapInstance, Enlist, TypeList, Stages
<1>5. TypeHandle' /\ TypeModels' /\ Garbage'
  BY <1>1, AtFrame DEF NewMapInstance, TypeHandle, TypeModels, Garbage
<1>6. Held(thread[Frame]) = {"wmo"} /\ Held(th) = {} /\ th.wait = None
  BY <1>1, <1>2, AtFrame DEF Held, Needs, At, Doing, Locks, TellAts
<1>7. FrameOk(th)'
  BY <1>1, <1>2, AtFrame DEF FrameOk, FrameAts, Doing
<1>8. DOMAIN list \subseteq DOMAIN list'
  BY <1>1, AtFrame DEF NewMapInstance, Enlist, TypeList
<1>9. QED
  BY <1>2, <1>3, <1>4, <1>5, <1>6, <1>7, <1>8, FrameGoes

LEMMA PlaceMapBase ==
  ASSUME Base, fault = NoFault, PlaceMap
  PROVE  Base'
<1>1. At(Frame, "ask") /\ thread[Frame].i \in Instances
  BY AtFrame DEF PlaceMap, At, FrameOk, Instances
<1>2. Moves(Frame, Resting, {}) /\ tile' = tile /\ list' = list
  BY AtFrame, NoUnlock DEF PlaceMap, Moves, Rest
<1>3. TypeHandle' /\ TypeList' /\ TypeModels' /\ Garbage'
  BY <1>1, AtFrame DEF PlaceMap, TypeHandle, TypeList, TypeModels, Garbage, Asked, Phases, Stages
<1>4. Held(thread[Frame]) = {} /\ Held(Resting) = {} /\ Resting.wait = None
  BY <1>1 DEF Held, Needs, At, Resting, Doing, TellAts
<1>5. FrameOk(Resting)'
  BY DEF FrameOk, FrameAts, Resting, Doing
<1>6. QED
  BY <1>2, <1>3, <1>4, <1>5, RestingType, FrameGoes

-----------------------------------------------------------------------------
(* The steps of render_gc.                                                 *)

LEMMA StartGcBase ==
  ASSUME Base, fault = NoFault, StartGc
  PROVE  Base'
<1>1. At(Frame, "idle") /\ UNCHANGED <<tile, handle, listVars, doodads, file, garbage>>
  BY DEF StartGc
<1>2. PICK th \in ThreadType :
        th = Doing("models", "frame", thread[Frame].task, thread[Frame].i, thread[Frame].pos)
  BY AtFrame DEF Doing, ThreadType, Ats, FrameAts, Locks
<1>3. Moves(Frame, th, {})
  BY <1>2, AtFrame, NoUnlock DEF StartGc, Moves, Goto
<1>4. Held(th) = {} /\ Held(thread[Frame]) = {} /\ Waits(th)
  BY <1>1, <1>2 DEF Held, Needs, Waits, At, Doing, Locks, TellAts, Rank
<1>5. FrameOk(th)
  BY <1>2, AtFrame DEF FrameOk, FrameAts, Doing
<1>6. QED
  BY <1>1, <1>2, <1>3, <1>4, <1>5, FrameOnly

LEMMA PickModelBase ==
  ASSUME Base, fault = NoFault, PickModel
  PROVE  Base'
<1>1. PICK i \in garbage.m2 :
        /\ At(Frame, "models")
        /\ thread' = [thread EXCEPT ![Frame] = Doing("delete", "m2", "none", i, 0)]
        /\ UNCHANGED <<owner, tile, handle, listVars, doodads, file, garbage, fault>>
  BY DEF PickModel
<1>2. i \in Instances
  BY AtFrame DEF TypeModels
<1>3. PICK th \in ThreadType : th = Doing("delete", "m2", "none", i, 0)
  BY <1>2 DEF Doing, ThreadType, Ats, FrameAts, Locks
<1>4. Moves(Frame, th, {})
  BY <1>1, <1>3, AtFrame, NoUnlock DEF Moves
<1>5. Held(th) = {"frame"} /\ Held(thread[Frame]) = {"frame"} /\ Waits(th)
  BY <1>1, <1>3, AtFrame DEF Held, Needs, Waits, At, Doing, Locks, TellAts, Rank
<1>6. FrameOk(th)
  BY <1>2, <1>3 DEF FrameOk, FrameAts, Doing
<1>7. QED
  BY <1>1, <1>3, <1>4, <1>5, <1>6, FrameOnly

LEMMA DeleteModelBase ==
  ASSUME Base, fault = NoFault, DeleteModel
  PROVE  Base'
<1> DEFINE i == thread[Frame].i
<1>1. At(Frame, "delete") /\ i \in Instances /\ i \in garbage.m2
  BY AtFrame DEF DeleteModel, At, FrameOk
<1>2. PICK th \in ThreadType : th = Doing("models", None, thread[Frame].task, i, thread[Frame].pos)
  BY AtFrame DEF Doing, ThreadType, Ats, FrameAts
<1>3. Moves(Frame, th, {"m2"}) /\ tile' = tile /\ list' = list
  BY <1>2, AtFrame DEF DeleteModel, Moves, Goto, listVars
<1>4. TypeModels' /\ Garbage'
  <2> DEFINE s == doodads[i]
  <2>1. s \in Seq(Nat) /\ s # <<>>
    BY <1>1, AtFrame DEF TypeModels, Garbage
  <2>2. /\ doodads' = [doodads EXCEPT ![i] = Tail(s)] /\ file' = file
        /\ garbage' = [garbage EXCEPT !.m2 = IF Len(s) = 1 THEN garbage.m2 \ {i} ELSE garbage.m2]
    BY DEF DeleteModel
  <2> HIDE DEF s
  <2>3. Tail(s) \in Seq(Nat) /\ Len(Tail(s)) = Len(s) - 1 /\ Len(s) \in Nat
    BY <2>1, HeadTailProperties, LenProperties
  <2>4. Len(s) = 1 \/ Tail(s) # <<>>
    <3>1. Tail(s) = <<>> => Len(Tail(s)) = 0
      BY EmptySeq, Zenon
    <3>2. QED
      BY <2>3, <3>1
  <2>5. TypeModels'
    BY <2>2, <2>3, AtFrame DEF TypeModels
  <2>6. Garbage'
    BY <1>1, <2>2, <2>4, AtFrame DEF Garbage, TypeModels
  <2>7. QED
    BY <2>5, <2>6
<1>5. TypeHandle' /\ TypeList'
  BY AtFrame DEF DeleteModel, TypeHandle, TypeList, listVars
<1>6. Held(th) = {"frame"} /\ Held(thread[Frame]) = {"frame", "m2"} /\ th.wait = None
  BY <1>1, <1>2, AtFrame DEF Held, Needs, At, Doing, Locks, TellAts
<1>7. FrameOk(th)'
  BY <1>2, AtFrame DEF FrameOk, FrameAts, Doing
<1>8. QED
  BY <1>2, <1>3, <1>4, <1>5, <1>6, <1>7, FrameGoes

LEMMA ModelsEndBase ==
  ASSUME Base, fault = NoFault, ModelsEnd
  PROVE  Base'
<1>1. At(Frame, "models") /\ UNCHANGED <<tile, handle, listVars, doodads, file, garbage>>
  BY DEF ModelsEnd
<1>2. PICK th \in ThreadType :
        th = Doing("buildings", None, thread[Frame].task, thread[Frame].i, thread[Frame].pos)
  BY AtFrame DEF Doing, ThreadType, Ats, FrameAts
<1>3. Moves(Frame, th, {})
  BY <1>2, AtFrame, NoUnlock DEF ModelsEnd, Moves, Goto
<1>4. Held(th) = {"frame"} /\ Held(thread[Frame]) = {"frame"} /\ th.wait = None
  BY <1>1, <1>2, AtFrame DEF Held, Needs, At, Doing, Locks, TellAts
<1>5. FrameOk(th)
  BY <1>2, AtFrame DEF FrameOk, FrameAts, Doing
<1>6. QED
  BY <1>1, <1>2, <1>3, <1>4, <1>5, FrameOnly

LEMMA PickInstanceBase ==
  ASSUME Base, fault = NoFault, PickInstance
  PROVE  Base'
<1>1. PICK i \in garbage.wmo :
        /\ At(Frame, "buildings")
        /\ thread' = [thread EXCEPT ![Frame] = Doing("find", "wmo", "none", i, 0)]
        /\ UNCHANGED <<owner, tile, handle, listVars, doodads, file, garbage, fault>>
  BY DEF PickInstance
<1>2. i \in Instances
  BY AtFrame DEF TypeModels
<1>3. PICK th \in ThreadType : th = Doing("find", "wmo", "none", i, 0)
  BY <1>2 DEF Doing, ThreadType, Ats, FrameAts, Locks
<1>4. Moves(Frame, th, {})
  BY <1>1, <1>3, AtFrame, NoUnlock DEF Moves
<1>5. Held(th) = {"frame"} /\ Held(thread[Frame]) = {"frame"} /\ Waits(th)
  BY <1>1, <1>3, AtFrame DEF Held, Needs, Waits, At, Doing, Locks, TellAts, Rank
<1>6. FrameOk(th)
  BY <1>2, <1>3 DEF FrameOk, FrameAts, Doing
<1>7. QED
  BY <1>1, <1>3, <1>4, <1>5, <1>6, FrameOnly

LEMMA FindInstanceBase ==
  ASSUME Base, fault = NoFault, FindInstance
  PROVE  Base'
<1>1. PICK n \in DOMAIN list :
        /\ At(Frame, "find")
        /\ owner' = Unlocked({"wmo"})
        /\ thread' = [thread EXCEPT ![Frame] = Doing("erase", None, "none", thread[Frame].i, n)]
        /\ UNCHANGED <<tile, handle, listVars, doodads, file, garbage, fault>>
  BY AtFrame DEF FindInstance
<1>2. n \in Nat /\ thread[Frame].i \in Instances /\ thread[Frame].i \in garbage.wmo
  BY <1>1, AtFrame DEF TypeList, At, FrameOk
<1>3. PICK th \in ThreadType : th = Doing("erase", None, "none", thread[Frame].i, n)
  BY <1>2 DEF Doing, ThreadType, Ats, FrameAts
<1>4. Moves(Frame, th, {"wmo"})
  BY <1>1, <1>3, AtFrame DEF Moves
<1>5. Held(th) = {"frame"} /\ Held(thread[Frame]) = {"frame", "wmo"} /\ th.wait = None
  BY <1>1, <1>3, AtFrame DEF Held, Needs, At, Doing, Locks, TellAts
<1>6. FrameOk(th)
  BY <1>1, <1>2, <1>3 DEF FrameOk, FrameAts, Doing
<1>7. QED
  BY <1>1, <1>3, <1>4, <1>5, <1>6, FrameOnly

LEMMA EraseInstanceBase ==
  ASSUME Base, fault = NoFault, EraseInstance
  PROVE  Base'
<1> DEFINE i == thread[Frame].i
           n == thread[Frame].pos
<1>1. At(Frame, "erase") /\ i \in Instances /\ n \in DOMAIN list /\ "gc" # None
  BY AtFrame DEF EraseInstance, At, FrameOk, Locks
<1>2. PICK th \in ThreadType :
        th = IF doodads[i] = <<>> THEN Doing("buildings", None, thread[Frame].task, i, n)
                                  ELSE Doing("drop", "gc", thread[Frame].task, i, n)
  <2>1. Doing("buildings", None, thread[Frame].task, i, n) \in ThreadType
    BY AtFrame DEF Doing, ThreadType, Ats, FrameAts
  <2>2. Doing("drop", "gc", thread[Frame].task, i, n) \in ThreadType
    BY AtFrame DEF Doing, ThreadType, Ats, FrameAts, Locks
  <2>3. QED
    BY <2>1, <2>2
<1>3. Moves(Frame, th, {}) /\ tile' = tile /\ doodads' = doodads
  BY <1>2, AtFrame, NoUnlock DEF EraseInstance, Moves, Goto
<1>4. TypeList'
  <2>1. list \in Seq(Instances) /\ Len(list) \in Nat /\ n \in 1 .. Len(list)
    BY <1>1, AtFrame DEF TypeList
  <2>2. list' = SubSeq(list, 1, n - 1) \o SubSeq(list, n + 1, Len(list))
    BY DEF EraseInstance, RemoveAt
  <2> HIDE DEF n
  <2>3. SubSeq(list, 1, n - 1) \in Seq(Instances) /\ SubSeq(list, n + 1, Len(list)) \in Seq(Instances)
    BY <2>1, SubSeqProperties
  <2>4. list' \in Seq(Instances)
    BY <2>2, <2>3, ConcatProperties
  <2>5. QED
    BY <1>1, <2>4, AtFrame DEF EraseInstance, TypeList, Stages
<1>5. TypeHandle' /\ TypeModels' /\ Garbage'
  <2>1. garbage' = [garbage EXCEPT !.wmo = garbage.wmo \ {i}] /\ UNCHANGED <<tile, handle, doodads, file>>
    BY DEF EraseInstance
  <2>2. QED
    BY <2>1, AtFrame DEF TypeHandle, TypeModels, Garbage
<1>6. Types'
  BY <1>3, <1>4, <1>5, AtFrame, MovesTypes DEF Types
<1>7. Held(th) = {"frame"} /\ Held(thread[Frame]) = {"frame"} /\ (th.wait = None \/ Waits(th))
  BY <1>1, <1>2, AtFrame DEF Held, Needs, Waits, At, Doing, Locks, TellAts, Rank
<1>8. FrameOk(th)'
  BY <1>1, <1>2, <1>3, AtFrame DEF FrameOk, FrameAts, Doing
<1>9. ASSUME fault' = NoFault, NEW w \in Workers, thread[w].task \in {"wmo", "group"}
      PROVE  thread[w].at \notin TellAts
  <2>1. ~InList(w)
    BY <1>9 DEF EraseInstance, NoFault
  <2>2. SUFFICES ASSUME thread[w].at \in TellAts PROVE "wmo" \in Held(thread[w])
    BY <1>9, <2>1 DEF InList, Base, Owned, Threads, Held, Needs
  <2>3. QED
    BY <2>2, AtWorker DEF WorkerOk, Held, Needs, Locks
<1>10. QED
  BY <1>2, <1>3, <1>5, <1>6, <1>7, <1>8, <1>9, FrameMoves

LEMMA DropDoodadsBase ==
  ASSUME Base, fault = NoFault, DropDoodads
  PROVE  Base'
<1> DEFINE i == thread[Frame].i
<1>1. At(Frame, "drop") /\ i \in Instances /\ doodads[i] # <<>>
  BY AtFrame DEF DropDoodads, At, FrameOk
<1>2. PICK th \in ThreadType : th = Doing("buildings", None, thread[Frame].task, i, thread[Frame].pos)
  BY AtFrame DEF Doing, ThreadType, Ats, FrameAts
<1>3. Moves(Frame, th, {"gc"}) /\ tile' = tile /\ list' = list
  BY <1>2, AtFrame DEF DropDoodads, Moves, Goto, listVars
<1>4. TypeHandle' /\ TypeList' /\ TypeModels' /\ Garbage'
  <2>1. /\ garbage' = [garbage EXCEPT !.m2 = garbage.m2 \cup {i}]
        /\ UNCHANGED <<tile, handle, listVars, doodads, file>>
    BY DEF DropDoodads
  <2>2. QED
    BY <1>1, <2>1, AtFrame DEF TypeHandle, TypeList, TypeModels, Garbage, listVars
<1>5. Held(th) = {"frame"} /\ Held(thread[Frame]) = {"frame", "gc"} /\ th.wait = None
  BY <1>1, <1>2, AtFrame DEF Held, Needs, At, Doing, Locks, TellAts
<1>6. FrameOk(th)'
  BY <1>2, AtFrame DEF FrameOk, FrameAts, Doing
<1>7. QED
  BY <1>2, <1>3, <1>4, <1>5, <1>6, FrameGoes

LEMMA GcEndBase ==
  ASSUME Base, fault = NoFault, GcEnd
  PROVE  Base'
<1>1. At(Frame, "buildings") /\ UNCHANGED <<tile, handle, listVars, doodads, file, garbage>>
  BY DEF GcEnd
<1>2. Moves(Frame, Resting, {"frame"})
  BY DEF GcEnd, Moves, Rest
<1>3. Held(Resting) = {} /\ Held(thread[Frame]) = {"frame"} /\ Resting.wait = None
  BY <1>1, AtFrame DEF Held, Needs, At, Resting, Doing, Locks, TellAts
<1>4. FrameOk(Resting)
  BY DEF FrameOk, FrameAts, Resting, Doing
<1>5. QED
  BY <1>1, <1>2, <1>3, <1>4, RestingType, FrameOnly

-----------------------------------------------------------------------------
(* What tiles hold of the handles.                                         *)

LEMMA HoldersFinite ==
  ASSUME NEW d
  PROVE  IsFiniteSet(Holders(d)) /\ Cardinality(Holders(d)) \in Nat
         /\ (Cardinality(Holders(d)) = 0 <=> Holders(d) = {})
<1>1. Holders(d) \subseteq Tiles
  BY DEF Holders
<1>2. IsFiniteSet(Holders(d))
  BY <1>1, FewTiles, FS_Subset
<1>3. QED
  BY <1>2, FS_CardinalityType, FS_EmptySet

(* steps that change nothing of it                                         *)
LEMMA SameCounts ==
  ASSUME Counts, handle' = handle, \A i \in Tiles : Holds(i)' <=> Holds(i),
         \A w \in Workers : thread[w].at = "new" => thread'[w].at = "new" /\ thread'[w].i = thread[w].i,
         \A i \in Tiles : thread'[Frame].at = "collect" /\ thread'[Frame].i = i =>
                          thread[Frame].at = "collect" /\ thread[Frame].i = i
  PROVE  Counts'
<1>1. \A d \in Ids : Holders(d)' = Holders(d)
  BY DEF Holders
<1>2. Counted' /\ Names'
  BY <1>1 DEF Counts, Counted, Names
<1>3. Named'
  BY DEF Counts, Named
<1>4. Nobodys'
  BY DEF Counts, Nobodys
<1>5. QED
  BY <1>2, <1>3, <1>4 DEF Counts

(* The threads that hold a handle, whatever tile says.                     *)
WorkerHas(th, i) == th.task = "tile" /\ th.at # "handle" /\ th.i = i
FrameHas(f, i) == f.at = "unref" /\ f.i = i

LEMMA HoldsIs ==
  ASSUME NEW i
  PROVE  Holds(i) <=> \/ tile[i] = "listed"
                      \/ \E w \in Workers : WorkerHas(thread[w], i)
                      \/ FrameHas(thread[Frame], i)
  BY DEF Holds, WorkerHas, FrameHas

LEMMA WorkerCounts ==
  ASSUME Counts, NEW w \in Workers, NEW th, thread \in [Threads -> ThreadType],
         thread' = [thread EXCEPT ![w] = th], handle' = handle, thread[w].at # "new",
         \A i \in Tiles : (tile'[i] = "listed" \/ WorkerHas(th, i)) <=>
                          (tile[i] = "listed" \/ WorkerHas(thread[w], i))
  PROVE  Counts'
<1>1. thread'[w] = th /\ \A u \in Threads \ {w} : thread'[u] = thread[u]
  BY DEF Threads
<1>2. thread'[Frame] = thread[Frame] /\ \A v \in Workers \ {w} : thread'[v] = thread[v]
  BY <1>1 DEF Threads
<1>3. ASSUME NEW i \in Tiles PROVE Holds(i)' <=> Holds(i)
  <2>1. Holds(i)' <=> \/ tile'[i] = "listed"
                      \/ \E v \in Workers : WorkerHas(thread'[v], i)
                      \/ FrameHas(thread'[Frame], i)
    BY DEF Holds, WorkerHas, FrameHas
  <2>2. QED
    BY <1>1, <1>2, <2>1, HoldsIs
<1>4. QED
  BY <1>1, <1>2, <1>3, SameCounts

LEMMA FrameCounts ==
  ASSUME Counts, NEW th, thread \in [Threads -> ThreadType],
         thread' = [thread EXCEPT ![Frame] = th], handle' = handle,
         th.at = "collect" => th.i \notin Tiles,
         \A i \in Tiles : (tile'[i] = "listed" \/ FrameHas(th, i)) <=>
                          (tile[i] = "listed" \/ FrameHas(thread[Frame], i))
  PROVE  Counts'
<1>1. thread'[Frame] = th /\ \A w \in Workers : thread'[w] = thread[w]
  BY DEF Threads
<1>2. ASSUME NEW i \in Tiles PROVE Holds(i)' <=> Holds(i)
  <2>1. Holds(i)' <=> \/ tile'[i] = "listed"
                      \/ \E v \in Workers : WorkerHas(thread'[v], i)
                      \/ FrameHas(thread'[Frame], i)
    BY DEF Holds, WorkerHas, FrameHas
  <2>2. QED
    BY <1>1, <2>1, HoldsIs
<1>3. QED
  BY <1>1, <1>2, SameCounts

(* steps that keep every instance as it is                                 *)
LEMMA SameLives ==
  ASSUME Lives, UNCHANGED <<handle, stage>>, garbage'.wmo = garbage.wmo,
         \A i \in Tiles : tile'[i] = "new" => tile[i] = "new",
         \A w \in Workers : thread'[w].at \in {"handle", "new"} =>
                              \/ thread[w].at \in {"handle", "new"} /\ thread'[w].i = thread[w].i
                              \/ tile[thread'[w].i] = "new"
  PROVE  Lives'
<1>1. Alive' /\ Gone'
  BY DEF Lives, Alive, Gone
<1>2. Fresh'
  BY DEF Lives, Fresh
<1>3. QED
  BY <1>1, <1>2 DEF Lives

(* a worker on its way, or back from the load of its tile                  *)
LEMMA WorkerKeeps ==
  ASSUME IInv, NEW w \in Workers, NEW th, thread' = [thread EXCEPT ![w] = th],
         UNCHANGED <<handle, stage, garbage>>, thread[w].at \notin {"handle", "new"},
         \/ /\ tile' = tile /\ th.at \notin {"handle", "new"}
            /\ th.task = thread[w].task \/ (th.task # "tile" /\ thread[w].task # "tile")
            /\ th.task = "tile" => th.i = thread[w].i
         \/ th = Resting /\ thread[w].task = "tile" /\ tile' = [tile EXCEPT ![thread[w].i] = "listed"]
  PROVE  Counts' /\ Lives'
<1>1. thread[w] \in ThreadType /\ thread \in [Threads -> ThreadType] /\ TypeHandle /\ WorkerOk(thread[w])
  BY AtWorker DEF IInv
<1>2. thread'[w] = th /\ \A v \in Workers \ {w} : thread'[v] = thread[v]
  BY <1>1 DEF Threads
<1>3. CASE tile' = tile /\ th.at \notin {"handle", "new"}
           /\ (th.task = thread[w].task \/ (th.task # "tile" /\ thread[w].task # "tile"))
           /\ (th.task = "tile" => th.i = thread[w].i)
  <2>1. \A i \in Tiles : WorkerHas(th, i) <=> WorkerHas(thread[w], i)
    BY <1>3 DEF WorkerHas
  <2>2. Counts'
    BY <1>1, <1>3, <2>1, WorkerCounts DEF IInv
  <2>3. Lives'
    BY <1>2, <1>3, SameLives DEF IInv
  <2>4. QED
    BY <2>2, <2>3
<1>4. CASE th = Resting /\ thread[w].task = "tile" /\ tile' = [tile EXCEPT ![thread[w].i] = "listed"]
  <2>1. th.at = "idle" /\ th.task = "none"
    BY <1>4 DEF Resting, Doing
  <2>2. thread[w].i \in Tiles /\ \A i \in Tiles : tile'[i] = IF i = thread[w].i THEN "listed" ELSE tile[i]
    BY <1>1, <1>4 DEF WorkerOk, TypeHandle
  <2>3. \A i \in Tiles : (tile'[i] = "listed" \/ WorkerHas(th, i)) <=>
                         (tile[i] = "listed" \/ WorkerHas(thread[w], i))
    BY <1>4, <2>1, <2>2 DEF WorkerHas
  <2>4. Counts'
    BY <1>1, <2>3, WorkerCounts DEF IInv
  <2>5. Lives'
    BY <1>2, <2>1, <2>2, SameLives DEF IInv
  <2>6. QED
    BY <2>4, <2>5
<1>5. QED
  BY <1>3, <1>4

LEMMA LockKeeps ==
  ASSUME IInv, NEW t \in Threads, Lock(t)
  PROVE  IInv'
<1>1. \A u \in Threads : /\ thread'[u].at = thread[u].at /\ thread'[u].task = thread[u].task
                         /\ thread'[u].i = thread[u].i
  <2>1. thread' = [thread EXCEPT ![t] = [thread[t] EXCEPT !.wait = None]]
    BY DEF Lock
  <2>2. thread[t] \in ThreadType /\ thread \in [Threads -> ThreadType]
    BY DEF IInv, Base, Types, TypeThread
  <2>3. [thread[t] EXCEPT !.wait = None] =
          Doing(thread[t].at, None, thread[t].task, thread[t].i, thread[t].pos)
    BY <2>2 DEF ThreadType, Doing
  <2>4. QED
    BY <2>1, <2>2, <2>3 DEF Doing
<1>2. UNCHANGED <<tile, handle, stage, garbage>>
  BY DEF Lock, listVars
<1>3. \A i \in Tiles : Holds(i)' <=> Holds(i)
  BY <1>1, <1>2 DEF Holds, Threads
<1>4. Counts'
  BY <1>1, <1>2, <1>3, SameCounts DEF IInv, Threads
<1>5. Lives'
  BY <1>1, <1>2, SameLives DEF IInv, Threads
<1>6. QED
  BY <1>4, <1>5, LockBase DEF IInv

(* The steps of a worker, but for those that touch a handle or the life of *)
(* an instance.                                                            *)
LEMMA LoadTileKeeps ==
  ASSUME IInv, fault = NoFault, NEW w \in Workers, LoadTile(w)
  PROVE  Counts' /\ Lives'
<1>1. PICK i \in Tiles :
        /\ At(w, "idle") /\ tile[i] = "new"
        /\ tile' = [tile EXCEPT ![i] = "loading"]
        /\ thread' = [thread EXCEPT ![w] = Doing("handle", "map_wmo", "tile", i, 0)]
        /\ UNCHANGED <<owner, handle, listVars, doodads, file, garbage, fault>>
  BY DEF LoadTile
<1>2. PICK th : th = Doing("handle", "map_wmo", "tile", i, 0)
  OBVIOUS
<1>3. thread[w].at = "idle" /\ thread[w].task = "none" /\ thread \in [Threads -> ThreadType] /\ TypeHandle
  BY <1>1, AtWorker DEF IInv, At, WorkerOk, Resting, Doing
<1>4. th.at = "handle" /\ th.i = i
  BY <1>2 DEF Doing
<1>5. \A j \in Tiles : tile'[j] = IF j = i THEN "loading" ELSE tile[j]
  BY <1>1, <1>3 DEF TypeHandle
<1>6. \A j \in Tiles : (tile'[j] = "listed" \/ WorkerHas(th, j)) <=>
                       (tile[j] = "listed" \/ WorkerHas(thread[w], j))
  BY <1>1, <1>3, <1>4, <1>5 DEF WorkerHas
<1>7. Counts'
  BY <1>1, <1>2, <1>3, <1>6, WorkerCounts DEF IInv
<1>8. thread'[w] = th /\ \A v \in Workers \ {w} : thread'[v] = thread[v]
  BY <1>1, <1>2, <1>3 DEF Threads
<1>9. Lives'
  BY <1>1, <1>4, <1>5, <1>8, SameLives DEF IInv, listVars
<1>10. QED
  BY <1>7, <1>9

LEMMA TellKeeps ==
  ASSUME IInv, fault = NoFault, NEW w \in Workers, TellStep(w)
  PROVE  Counts' /\ Lives'
<1>1. thread[w].at \in TellAts /\ UNCHANGED <<handle, stage, garbage>>
  BY DEF TellStep, NewDoodad, SettleDoodad, TellInstance, TellGroup, At, TellAts, listVars
<1>2. thread[w].at \notin {"handle", "new"} /\ thread[w].task \in {"tile", "wmo", "group"}
  BY <1>1, AtWorker DEF IInv, WorkerOk, TellAts
<1>3. \/ \E at \in {"settle", "groups", "group"} : \E wait : thread' = Goto(w, at, wait) /\ tile' = tile
      \/ \E S : Return(w, S)
  BY Zenon DEF TellStep, NewDoodad, SettleDoodad, TellInstance, TellGroup
<1>4. ASSUME NEW at \in {"settle", "groups", "group"}, NEW wait, thread' = Goto(w, at, wait), tile' = tile
      PROVE  Counts' /\ Lives'
  <2>1. PICK th : th = Doing(at, wait, thread[w].task, thread[w].i, thread[w].pos)
    OBVIOUS
  <2>2. thread' = [thread EXCEPT ![w] = th]
    BY <1>4, <2>1, AtWorker DEF IInv, Goto
  <2>3. th.at = at /\ th.task = thread[w].task /\ th.i = thread[w].i
    BY <2>1 DEF Doing
  <2>4. QED
    BY <1>1, <1>2, <1>4, <2>2, <2>3, WorkerKeeps
<1>5. ASSUME NEW S, Return(w, S)
      PROVE  Counts' /\ Lives'
  <2>1. CASE thread[w].task = "tile"
    BY <1>1, <1>2, <1>5, <2>1, WorkerKeeps DEF Return, Rest
  <2>2. CASE thread[w].task # "tile"
    <3>1. PICK th : th = Doing("walk", None, thread[w].task, None, thread[w].pos + 1)
      OBVIOUS
    <3>2. thread' = [thread EXCEPT ![w] = th] /\ tile' = tile
      BY <1>5, <2>2, <3>1, AtWorker DEF IInv, Return
    <3>3. th.at = "walk" /\ th.task = thread[w].task
      BY <3>1 DEF Doing
    <3>4. QED
      BY <1>1, <1>2, <2>2, <3>2, <3>3, WorkerKeeps
  <2>3. QED
    BY <2>1, <2>2
<1>6. QED
  BY <1>3, <1>4, <1>5

LEMMA TaskKeeps ==
  ASSUME IInv, fault = NoFault, NEW w \in Workers, TaskStep(w)
  PROVE  Counts' /\ Lives'
<1>1. UNCHANGED <<tile, handle, stage, garbage>>
  BY DEF TaskStep, TakeTask, WalkOn, WalkEnd, PostLoad, listVars
<1>2. thread[w].at \in {"idle", "walk", "post"} /\ thread[w].task # "tile"
  BY AtWorker DEF IInv, TaskStep, TakeTask, WalkOn, WalkEnd, PostLoad, At, WorkerOk, Resting, Doing
<1>3. \/ \E k \in {"wmo", "group", "m2"}, at \in {"walk", "post"} : \E wait, pos :
           thread' = [thread EXCEPT ![w] = Doing(at, wait, k, None, pos)]
      \/ \E at \in {"doodad", "group"} : \E wait : thread' = Goto(w, at, wait)
      \/ thread' = Rest(w)
      \/ thread' = thread
  BY DEF TaskStep, TakeTask, WalkOn, WalkEnd, PostLoad
<1>4. ASSUME NEW th, thread' = [thread EXCEPT ![w] = th], th.at \notin {"handle", "new"},
             th.task # "tile"
      PROVE  Counts' /\ Lives'
  BY <1>1, <1>2, <1>4, WorkerKeeps
<1>5. ASSUME NEW k \in {"wmo", "group", "m2"}, NEW at \in {"walk", "post"}, NEW wait, NEW pos,
             thread' = [thread EXCEPT ![w] = Doing(at, wait, k, None, pos)]
      PROVE  Counts' /\ Lives'
  <2>1. PICK th : th = Doing(at, wait, k, None, pos)
    OBVIOUS
  <2>2. th.at = at /\ th.task = k
    BY <2>1 DEF Doing
  <2>3. QED
    BY <1>4, <1>5, <2>1, <2>2
<1>6. ASSUME NEW at \in {"doodad", "group"}, NEW wait, thread' = Goto(w, at, wait)
      PROVE  Counts' /\ Lives'
  <2>1. PICK th : th = Doing(at, wait, thread[w].task, thread[w].i, thread[w].pos)
    OBVIOUS
  <2>2. thread' = [thread EXCEPT ![w] = th]
    BY <1>6, <2>1, AtWorker DEF IInv, Goto
  <2>3. th.at = at /\ th.task = thread[w].task
    BY <2>1 DEF Doing
  <2>4. QED
    BY <1>2, <1>4, <2>2, <2>3
<1>7. CASE thread' = Rest(w)
  <2>1. PICK th : th = Resting
    OBVIOUS
  <2>2. th.at = "idle" /\ th.task = "none"
    BY <2>1 DEF Resting, Doing
  <2>3. QED
    BY <1>4, <1>7, <2>1, <2>2 DEF Rest
<1>8. CASE thread' = thread
  <2>1. thread' = [thread EXCEPT ![w] = thread[w]]
    BY <1>8, AtWorker DEF IInv
  <2>2. QED
    BY <1>2, <1>4, <2>1
<1>9. QED
  BY <1>3, <1>5, <1>6, <1>7, <1>8

(* The frame steps that touch neither a handle nor the life of an instance *)
LEMMA FrameKeeps ==
  ASSUME IInv, fault = NoFault, 
         \/ Release \/ OpenMap \/ LeaveMap \/ StartGc \/ PickModel \/ DeleteModel \/ ModelsEnd
         \/ PickInstance \/ FindInstance \/ DropDoodads \/ GcEnd
  PROVE  Counts' /\ Lives'
<1>1. UNCHANGED <<handle, stage>> /\ garbage'.wmo = garbage.wmo
  BY AtFrame DEF IInv, Release, OpenMap, LeaveMap, StartGc, PickModel, DeleteModel, ModelsEnd,
     PickInstance, FindInstance, DropDoodads, GcEnd, listVars, TypeModels
<1>2. thread \in [Threads -> ThreadType] /\ TypeHandle /\ thread[Frame] \in ThreadType
  BY AtFrame DEF IInv
<1>3. ASSUME NEW th, thread' = [thread EXCEPT ![Frame] = th], tile' = tile,
             thread[Frame].at # "unref", th.at # "unref", th.at = "collect" => th.i \notin Tiles
      PROVE  Counts' /\ Lives'
  <2>1. \A i \in Tiles : FrameHas(th, i) <=> FrameHas(thread[Frame], i)
    BY <1>3 DEF FrameHas
  <2>2. Counts'
    BY <1>1, <1>2, <1>3, <2>1, FrameCounts DEF IInv
  <2>3. \A v \in Workers : thread'[v] = thread[v]
    BY <1>2, <1>3 DEF Threads
  <2>4. Lives'
    BY <1>1, <1>3, <2>3, SameLives DEF IInv
  <2>5. QED
    BY <2>2, <2>4
<1>4. CASE Release
  <2>1. PICK i \in Tiles :
          /\ At(Frame, "idle") /\ tile[i] = "listed"
          /\ tile' = [tile EXCEPT ![i] = "released"]
          /\ thread' = [thread EXCEPT ![Frame] = Doing("unref", "map_wmo", "none", i, 0)]
    BY <1>4 DEF Release
  <2>2. PICK th : th = Doing("unref", "map_wmo", "none", i, 0)
    OBVIOUS
  <2>3. th.at = "unref" /\ th.i = i /\ thread[Frame].at = "idle"
    BY <2>1, <2>2 DEF Doing, At
  <2>4. \A j \in Tiles : tile'[j] = IF j = i THEN "released" ELSE tile[j]
    BY <1>2, <2>1 DEF TypeHandle
  <2>5. \A j \in Tiles : (tile'[j] = "listed" \/ FrameHas(th, j)) <=>
                         (tile[j] = "listed" \/ FrameHas(thread[Frame], j))
    BY <2>1, <2>3, <2>4 DEF FrameHas
  <2>6. Counts'
    BY <1>1, <1>2, <2>1, <2>2, <2>3, <2>5, FrameCounts DEF IInv
  <2>7. \A v \in Workers : thread'[v] = thread[v]
    BY <1>2, <2>1 DEF Threads
  <2>8. Lives'
    BY <1>1, <2>4, <2>7, SameLives DEF IInv
  <2>9. QED
    BY <2>6, <2>8
<1>5. CASE ~Release
  <2>1. thread[Frame].at # "unref" /\ tile' = tile
    BY <1>5 DEF OpenMap, LeaveMap, StartGc, PickModel, DeleteModel, ModelsEnd,
       PickInstance, FindInstance, DropDoodads, GcEnd, At
  <2>2. \E at \in {"open", "collect", "models", "delete", "buildings", "find", "erase"} : \E wait, task, i, pos :
          /\ thread' = [thread EXCEPT ![Frame] = Doing(at, wait, task, i, pos)]
          /\ at = "collect" => i \notin Tiles
        \/ thread' = Rest(Frame)
    <3>1. OpenMap \/ LeaveMap \/ PickModel \/ PickInstance \/ FindInstance \/ GcEnd
          => \E at \in {"open", "collect", "models", "delete", "buildings", "find", "erase"} : \E wait, task, i, pos :
               /\ thread' = [thread EXCEPT ![Frame] = Doing(at, wait, task, i, pos)]
               /\ at = "collect" => i \notin Tiles
             \/ thread' = Rest(Frame)
      BY <1>2 DEF OpenMap, LeaveMap, PickModel, PickInstance, FindInstance, GcEnd
    <3>2. \A at, wait : Goto(Frame, at, wait) = [thread EXCEPT ![Frame] =
             Doing(at, wait, thread[Frame].task, thread[Frame].i, thread[Frame].pos)]
      BY <1>2 DEF Goto
    <3>3. StartGc \/ DeleteModel \/ ModelsEnd \/ DropDoodads
          => \E at \in {"models", "buildings"} : \E wait : thread' = Goto(Frame, at, wait)
      BY DEF StartGc, DeleteModel, ModelsEnd, DropDoodads
    <3>4. QED
      BY <1>5, <3>1, <3>2, <3>3
  <2>3. ASSUME NEW at \in {"open", "collect", "models", "delete", "buildings", "find", "erase"},
               NEW wait, NEW task, NEW i, NEW pos,
               thread' = [thread EXCEPT ![Frame] = Doing(at, wait, task, i, pos)],
               at = "collect" => i \notin Tiles
        PROVE  Counts' /\ Lives'
    <3>1. PICK th : th = Doing(at, wait, task, i, pos)
      OBVIOUS
    <3>2. th.at = at /\ th.i = i
      BY <3>1 DEF Doing
    <3>3. QED
      BY <1>3, <2>1, <2>3, <3>1, <3>2
  <2>4. CASE thread' = Rest(Frame)
    <3>1. PICK th : th = Resting
      OBVIOUS
    <3>2. th.at = "idle"
      BY <3>1 DEF Resting, Doing
    <3>3. QED
      BY <1>3, <2>1, <2>4, <3>1, <3>2 DEF Rest
  <2>5. QED
    BY <2>2, <2>3, <2>4
<1>6. QED
  BY <1>4, <1>5

-----------------------------------------------------------------------------
(* The steps that touch a handle, or the life of an instance.              *)

(* only one thread is where map_wmo is held                                *)
LEMMA OneAtHandles ==
  ASSUME IInv, NEW t \in Threads, NEW u \in Threads, "map_wmo" \in Held(thread[t]),
         "map_wmo" \in Held(thread[u])
  PROVE  t = u
  BY DEF IInv, Base, Owned, Held, Needs

LEMMA AtNew ==
  ASSUME IInv, NEW w \in Workers, thread[w].at = "new"
  PROVE  "map_wmo" \in Held(thread[w])
<1>1. thread[w].wait = None \/ Waits(thread[w])
  BY DEF IInv, Base, Owned, Threads
<1>2. "map_wmo" \in Needs(thread[w]) /\ "wmo" \in Needs(thread[w]) /\ "map_wmo" \in Locks
  BY DEF Needs, Locks
<1>3. thread[w].wait # "map_wmo"
  BY <1>1, <1>2 DEF Waits, Rank
<1>4. QED
  BY <1>2, <1>3 DEF Held

LEMMA AtCollect ==
  ASSUME IInv, thread[Frame].at = "collect", thread[Frame].i \in Tiles
  PROVE  "map_wmo" \in Held(thread[Frame])
<1>1. thread[Frame].wait = None \/ Waits(thread[Frame])
  BY DEF IInv, Base, Owned, Threads
<1>2. "map_wmo" \in Needs(thread[Frame]) /\ "gc" \in Needs(thread[Frame]) /\ "map_wmo" \in Locks
  BY DEF Needs, Locks
<1>3. thread[Frame].wait # "map_wmo"
  BY <1>1, <1>2 DEF Waits, Rank
<1>4. QED
  BY <1>2, <1>3 DEF Held

(* a tile whose worker is about to reference the handle does not hold it   *)
LEMMA NotYetHeld ==
  ASSUME IInv, NEW w \in Workers, thread[w].at = "handle"
  PROVE  thread[w].i \in Tiles /\ IdOf[thread[w].i] \in Ids /\ ~Holds(thread[w].i)
<1>1. thread[w].task = "tile" /\ thread[w].i \in Tiles /\ tile[thread[w].i] = "loading"
  BY AtWorker DEF IInv, WorkerOk, TileAts
<1>2. ~FrameHas(thread[Frame], thread[w].i)
  BY <1>1, AtFrame DEF IInv, FrameOk, FrameHas
<1>3. \A v \in Workers : ~WorkerHas(thread[v], thread[w].i)
  BY <1>1 DEF IInv, Base, OneWorker, WorkerHas
<1>4. QED
  BY <1>1, <1>2, <1>3, HoldsIs

LEMMA RefHandleKeeps ==
  ASSUME IInv, fault = NoFault, NEW w \in Workers, RefHandle(w)
  PROVE  Counts' /\ Lives'
<1>1. PICK i \in Tiles, d \in Ids :
        /\ i = thread[w].i /\ d = IdOf[i]
        /\ At(w, "handle") /\ ~Holds(i) /\ thread[w].task = "tile"
  BY NotYetHeld, AtWorker DEF RefHandle, At, IInv, WorkerOk, TileAts
<1>2. thread \in [Threads -> ThreadType] /\ TypeHandle /\ w \in Threads /\ Frame \in Threads /\ w # Frame
  BY AtWorker DEF IInv, Threads
<1>3. PICK th : /\ thread' = [thread EXCEPT ![w] = th]
                /\ IF handle[d].inst = None
                   THEN th = Doing("new", "wmo", thread[w].task, i, thread[w].pos) /\ tile' = tile
                   ELSE th = Resting /\ tile' = [tile EXCEPT ![i] = "listed"]
  BY <1>1, <1>2 DEF RefHandle, Goto, Rest
<1>4. /\ handle[d].inst = None => th.at = "new" /\ th.i = i /\ th.task = "tile" /\ tile' = tile
      /\ handle[d].inst # None => /\ th.at = "idle" /\ th.task = "none"
                                  /\ tile' = [tile EXCEPT ![i] = "listed"]
  BY <1>1, <1>3 DEF Doing, Resting
<1>5. thread'[w] = th /\ thread'[Frame] = thread[Frame] /\ \A v \in Workers \ {w} : thread'[v] = thread[v]
  BY <1>2, <1>3 DEF Threads
<1>6. /\ handle'[d].refs = handle[d].refs + 1
      /\ \A e \in Ids : handle'[e].inst = handle[e].inst /\ (e # d => handle'[e].refs = handle[e].refs)
  BY <1>1, <1>2 DEF RefHandle, Referenced, TypeHandle
<1>7. UNCHANGED <<stage, garbage>>
  BY DEF RefHandle, listVars
<1>8. \A j \in Tiles : Holds(j)' <=> Holds(j) \/ j = i
  <2>1. ASSUME NEW j \in Tiles PROVE Holds(j)' <=> Holds(j) \/ j = i
    <3>1. Holds(j)' <=> \/ tile'[j] = "listed"
                        \/ \E v \in Workers : WorkerHas(thread'[v], j)
                        \/ FrameHas(thread'[Frame], j)
      BY DEF Holds, WorkerHas, FrameHas
    <3>2. ~WorkerHas(thread[w], j)
      BY <1>1 DEF WorkerHas, At
    <3>3. (tile'[j] = "listed" \/ WorkerHas(th, j)) <=> (tile[j] = "listed" \/ j = i)
      BY <1>1, <1>2, <1>4 DEF WorkerHas, TypeHandle
    <3>4. QED
      BY <1>5, <3>1, <3>2, <3>3, HoldsIs
  <2>2. QED
    BY <2>1
<1>9. Counted'
  <2>1. Holders(d)' = Holders(d) \cup {i} /\ i \notin Holders(d)
    BY <1>1, <1>8 DEF Holders
  <2>2. \A e \in Ids : e # d => Holders(e)' = Holders(e)
    BY <1>1, <1>8 DEF Holders
  <2>3. Cardinality(Holders(d) \cup {i}) = Cardinality(Holders(d)) + 1
    <3>1. IsFiniteSet(Holders(d))
      BY HoldersFinite
    <3> DEFINE H == Holders(d)
    <3> HIDE DEF H
    <3>2. IsFiniteSet(H) /\ i \notin H
      BY <2>1, <3>1 DEF H
    <3>3. Cardinality(H \cup {i}) = Cardinality(H) + 1
      BY <3>2, FS_AddElement
    <3>4. QED
      BY <3>3 DEF H
  <2>4. QED
    BY <1>1, <1>6, <2>1, <2>2, <2>3 DEF IInv, Counts, Counted
<1>10. Named'
  <2>1. ASSUME NEW j \in Tiles, Holds(j)', handle'[IdOf[j]].inst = None
        PROVE  \E v \in Workers : thread'[v].at = "new" /\ thread'[v].i = j
    <3>1. IdOf[j] \in Ids /\ handle[IdOf[j]].inst = None
      BY <1>6, <2>1
    <3>2. CASE j = i
      BY <1>1, <1>4, <1>5, <3>1, <3>2
    <3>3. CASE j # i
      <4>1. PICK v \in Workers : thread[v].at = "new" /\ thread[v].i = j
        BY <1>8, <2>1, <3>1, <3>3 DEF IInv, Counts, Named
      <4>2. v # w
        BY <1>1, <4>1 DEF At
      <4>3. QED
        BY <1>5, <4>1, <4>2
    <3>4. QED
      BY <3>2, <3>3
  <2>2. QED
    BY <2>1 DEF Named
<1>11. Names'
  BY <1>6 DEF IInv, Counts, Names
<1>12. Nobodys'
  <2>1. ASSUME NEW j \in Tiles, thread[Frame].at = "collect", thread[Frame].i = j
        PROVE  FALSE
    <3>1. "map_wmo" \in Held(thread[Frame])
      BY <2>1, AtCollect
    <3>2. "map_wmo" \in Held(thread[w])
      BY <1>1 DEF At, Held, Needs, Locks
    <3>3. QED
      BY <1>2, <3>1, <3>2, OneAtHandles
  <2>2. QED
    BY <1>5, <2>1 DEF Nobodys
<1>13. Lives'
  <2>1. Alive' /\ Gone'
    BY <1>6, <1>7 DEF IInv, Lives, Alive, Gone
  <2>2. \A j \in Tiles : tile'[j] = "new" => tile[j] = "new"
    BY <1>2, <1>4 DEF TypeHandle
  <2>3. \A v \in Workers : thread'[v].at \in {"handle", "new"} =>
                             thread[v].at \in {"handle", "new"} /\ thread'[v].i = thread[v].i
    BY <1>1, <1>4, <1>5 DEF At
  <2>4. Fresh'
    BY <1>7, <2>2, <2>3 DEF IInv, Lives, Fresh
  <2>5. QED
    BY <2>1, <2>4 DEF Lives
<1>14. QED
  BY <1>9, <1>10, <1>11, <1>12, <1>13 DEF Counts

LEMMA NewInstanceKeeps ==
  ASSUME IInv, fault = NoFault, NEW w \in Workers, NewInstance(w)
  PROVE  Counts' /\ Lives'
<1> DEFINE i == thread[w].i
           d == IdOf[i]
<1>1. At(w, "new") /\ i \in Tiles /\ i \in Instances /\ d \in Ids /\ thread[w].task = "tile" /\ i # None
      /\ tile[i] = "loading"
  BY AtWorker DEF NewInstance, At, IInv, WorkerOk, TileAts, Instances
<1>2. /\ thread \in [Threads -> ThreadType] /\ TypeHandle /\ TypeList
      /\ w \in Threads /\ Frame \in Threads /\ w # Frame
  BY AtWorker DEF IInv, Threads
<1>3. PICK th : /\ thread' = [thread EXCEPT ![w] = th]
                /\ th = Doing("place", "wmo", thread[w].task, i, thread[w].pos)
  BY <1>2, Zenon DEF NewInstance, Goto
<1>4. th.at = "place" /\ th.i = i /\ th.task = "tile" /\ tile' = tile
  BY <1>1, <1>3 DEF Doing, NewInstance
<1>5. thread'[w] = th /\ thread'[Frame] = thread[Frame] /\ \A v \in Workers \ {w} : thread'[v] = thread[v]
  BY <1>2, <1>3 DEF Threads
<1>6. /\ handle'[d].inst = i
      /\ \A e \in Ids : handle'[e].refs = handle[e].refs /\ (e # d => handle'[e].inst = handle[e].inst)
  BY <1>1, <1>2 DEF NewInstance, TypeHandle
<1>7. garbage' = garbage /\ stage' = [stage EXCEPT ![i] = "made"]
  BY DEF NewInstance, Enlist
<1>8. \A j \in Tiles : Holds(j)' <=> Holds(j)
  <2>1. ASSUME NEW j \in Tiles PROVE Holds(j)' <=> Holds(j)
    <3>1. Holds(j)' <=> \/ tile'[j] = "listed"
                        \/ \E v \in Workers : WorkerHas(thread'[v], j)
                        \/ FrameHas(thread'[Frame], j)
      BY DEF Holds, WorkerHas, FrameHas
    <3>2. WorkerHas(thread[w], j) <=> WorkerHas(th, j)
      BY <1>1, <1>4 DEF WorkerHas, At
    <3>3. QED
      BY <1>4, <1>5, <3>1, <3>2, HoldsIs
  <2>2. QED
    BY <2>1
<1>9. Counted' /\ Names'
  <2>1. \A e \in Ids : Holders(e)' = Holders(e)
    BY <1>8 DEF Holders
  <2>2. QED
    BY <1>1, <1>6, <2>1 DEF IInv, Counts, Counted, Names
<1>10. Named'
  <2>1. ASSUME NEW j \in Tiles, Holds(j)', handle'[IdOf[j]].inst = None
        PROVE  \E v \in Workers : thread'[v].at = "new" /\ thread'[v].i = j
    <3>1. IdOf[j] \in Ids /\ IdOf[j] # d
      BY <1>1, <1>6, <2>1
    <3>2. PICK v \in Workers : thread[v].at = "new" /\ thread[v].i = j
      BY <1>6, <1>8, <2>1, <3>1 DEF IInv, Counts, Named
    <3>3. v # w
      BY <3>1, <3>2
    <3>4. QED
      BY <1>5, <3>2, <3>3
  <2>2. QED
    BY <2>1 DEF Named
<1>11. Nobodys'
  <2>1. thread[Frame].at = "collect" => thread[Frame].i \notin Tiles
    BY <1>1, <1>2, AtCollect, AtNew, OneAtHandles DEF At
  <2>2. QED
    BY <1>5, <2>1 DEF Nobodys
<1>12. Lives'
  <2>1. \A j \in Instances : stage'[j] = IF j = i THEN "made" ELSE stage[j]
    BY <1>2, <1>7 DEF TypeList
  <2>2. stage[i] = "unborn"
    BY <1>1 DEF IInv, Lives, Fresh, At
  <2>3. Alive'
    <3>1. ASSUME NEW e \in Ids, handle'[e].inst # None PROVE stage'[handle'[e].inst] \in {"made", "placed"}
      <4>1. CASE e = d
        BY <1>1, <1>6, <2>1, <4>1
      <4>2. CASE e # d
        <5>1. handle[e].inst # None /\ handle[e].inst \in Instances
          BY <1>6, <3>1, <4>2 DEF IInv, Counts, Names, Instances
        <5>2. QED
          BY <1>6, <2>1, <4>2, <5>1 DEF IInv, Lives, Alive
      <4>3. QED
        BY <4>1, <4>2
    <3>2. QED
      BY <3>1 DEF Alive
  <2>4. Fresh'
    <3>1. ASSUME NEW j \in Tiles,
                 tile'[j] = "new" \/ \E v \in Workers : thread'[v].at \in {"handle", "new"} /\ thread'[v].i = j
          PROVE  stage'[j] = "unborn"
      <4>1. j # i
        <5>1. \A v \in Workers : thread[v].at \in {"handle", "new"} /\ v # w => thread[v].i # i
          BY <1>1, AtWorker DEF IInv, Base, OneWorker, WorkerOk, TileAts
        <5>2. QED
          BY <1>1, <1>4, <1>5, <3>1, <5>1
      <4>2. stage[j] = "unborn"
        BY <1>4, <1>5, <3>1 DEF IInv, Lives, Fresh
      <4>3. QED
        BY <2>1, <4>1, <4>2 DEF Instances
    <3>2. QED
      BY <3>1 DEF Fresh
  <2>5. Gone'
    <3>1. garbage.wmo \subseteq Instances
      BY AtWorker DEF IInv, TypeModels
    <3>2. i \notin garbage.wmo
      BY <2>2 DEF IInv, Lives, Gone
    <3>3. QED
      BY <1>6, <1>7, <2>1, <3>1, <3>2 DEF IInv, Lives, Gone
  <2>6. QED
    BY <2>3, <2>4, <2>5 DEF Lives
<1>13. QED
  BY <1>9, <1>10, <1>11, <1>12 DEF Counts

(* steps that change what instances are at, but name none                  *)
Awaited(i) == tile[i] = "new" \/ \E w \in Workers : thread[w].at \in {"handle", "new"} /\ thread[w].i = i
LEMMA StageLives ==
  ASSUME IInv, handle' = handle, garbage'.wmo \subseteq garbage.wmo,
         \A i \in Tiles : tile'[i] = "new" => tile[i] = "new",
         \A w \in Workers : thread'[w].at \in {"handle", "new"} =>
                              thread[w].at \in {"handle", "new"} /\ thread'[w].i = thread[w].i,
         \A i \in Instances : \/ stage'[i] = stage[i]
                              \/ stage'[i] \in {"made", "placed"} /\ (i \in Tiles => ~Awaited(i))
                              \/ stage'[i] = "freed" /\ i \in garbage.wmo
  PROVE  Lives'
<1>1. garbage.wmo \subseteq Instances
  BY AtFrame DEF IInv, TypeModels
<1>2. Alive'
  <2>1. ASSUME NEW d \in Ids, handle[d].inst # None PROVE stage'[handle[d].inst] \in {"made", "placed"}
    <3>1. handle[d].inst \in Instances /\ handle[d].inst \notin garbage.wmo
      BY <2>1 DEF IInv, Lives, Gone, Counts, Names, Instances
    <3>2. stage[handle[d].inst] \in {"made", "placed"}
      BY <2>1 DEF IInv, Lives, Alive
    <3>3. QED
      BY <3>1, <3>2
  <2>2. QED
    BY <2>1 DEF Alive
<1>3. Gone'
  BY <1>1 DEF IInv, Lives, Gone
<1>4. Fresh'
  <2>1. ASSUME NEW i \in Tiles, Awaited(i)' PROVE stage'[i] = "unborn"
    <3>1. Awaited(i) /\ i \in Instances
      BY <2>1 DEF Awaited, Instances
    <3>2. stage[i] = "unborn"
      BY <3>1 DEF Awaited, IInv, Lives, Fresh
    <3>3. i \notin garbage.wmo
      BY <3>2 DEF IInv, Lives, Gone
    <3>4. QED
      BY <3>1, <3>2, <3>3
  <2>2. QED
    BY <2>1 DEF Fresh, Awaited
<1>5. QED
  BY <1>2, <1>3, <1>4 DEF Lives

LEMMA PlaceKeeps ==
  ASSUME IInv, fault = NoFault, NEW w \in Workers, Place(w)
  PROVE  Counts' /\ Lives'
<1>1. PICK i \in Tiles :
        i = thread[w].i /\ At(w, "place") /\ tile[i] = "loading" /\ thread[w].task = "tile"
  BY AtWorker DEF IInv, Place, At, WorkerOk, TileAts
<1>2. thread \in [Threads -> ThreadType] /\ TypeHandle /\ TypeList /\ w \in Threads
  BY AtWorker DEF IInv
<1>3. PICK th : /\ thread' = [thread EXCEPT ![w] = th]
                /\ IF ParentLoaded
                   THEN th = Doing("doodad", "m2", thread[w].task, i, thread[w].pos) /\ tile' = tile
                   ELSE th = Resting /\ tile' = [tile EXCEPT ![i] = "listed"]
  BY <1>1, <1>2 DEF Place, Goto, Rest
<1>4. /\ th.at \notin {"handle", "new"}
      /\ ParentLoaded => th.at = "doodad" /\ th.i = i /\ th.task = "tile" /\ tile' = tile
      /\ ~ParentLoaded => th.task = "none" /\ tile' = [tile EXCEPT ![i] = "listed"]
  BY <1>1, <1>3 DEF Doing, Resting
<1>5. UNCHANGED <<handle, garbage>> /\ stage' = [stage EXCEPT ![i] = "placed"]
  BY <1>1 DEF Place
<1>6. \A j \in Tiles : (tile'[j] = "listed" \/ WorkerHas(th, j)) <=>
                       (tile[j] = "listed" \/ WorkerHas(thread[w], j))
  BY <1>1, <1>2, <1>4 DEF WorkerHas, At, TypeHandle
<1>7. Counts'
  BY <1>1, <1>2, <1>3, <1>5, <1>6, WorkerCounts DEF IInv, At
<1>8. thread'[w] = th /\ \A v \in Workers \ {w} : thread'[v] = thread[v]
  BY <1>2, <1>3 DEF Threads
<1>9. ~Awaited(i)
  BY <1>1, AtWorker DEF Awaited, At, IInv, Base, OneWorker, WorkerOk, TileAts
<1>10. \A j \in Instances : stage'[j] = IF j = i THEN "placed" ELSE stage[j]
  BY <1>2, <1>5 DEF TypeList
<1>11. \A j \in Tiles : tile'[j] = "new" => tile[j] = "new"
  BY <1>1, <1>2, <1>4 DEF TypeHandle
<1>12. Lives'
  BY <1>4, <1>5, <1>8, <1>9, <1>10, <1>11, StageLives
<1>13. QED
  BY <1>7, <1>12

(* the same for the frames: a map gets its instance, and one is erased     *)
LEMMA FrameStages ==
  ASSUME IInv, fault = NoFault, NewMapInstance \/ PlaceMap \/ EraseInstance
  PROVE  Counts' /\ Lives'
<1>1. /\ thread \in [Threads -> ThreadType] /\ TypeList /\ TypeModels /\ Frame \in Threads
      /\ FrameOk(thread[Frame])
  BY AtFrame DEF IInv
<1>2. thread[Frame].at \in {"open", "ask", "erase"}
  BY DEF NewMapInstance, PlaceMap, EraseInstance, At
<1>3. UNCHANGED <<tile, handle>> /\ garbage'.wmo \subseteq garbage.wmo
  BY <1>1 DEF NewMapInstance, PlaceMap, EraseInstance, TypeModels
<1>4. \/ \E at \in {"ask", "buildings", "drop"} : \E wait : thread' = Goto(Frame, at, wait)
      \/ thread' = Rest(Frame)
  BY DEF NewMapInstance, PlaceMap, EraseInstance
<1>5. PICK th : thread' = [thread EXCEPT ![Frame] = th] /\ th.at \in {"ask", "buildings", "drop", "idle"}
  <2>1. ASSUME NEW at \in {"ask", "buildings", "drop"}, NEW wait, thread' = Goto(Frame, at, wait)
        PROVE  \E th : thread' = [thread EXCEPT ![Frame] = th] /\ th.at \in {"ask", "buildings", "drop", "idle"}
    <3>1. PICK th : th = Doing(at, wait, thread[Frame].task, thread[Frame].i, thread[Frame].pos)
      OBVIOUS
    <3>2. thread' = [thread EXCEPT ![Frame] = th] /\ th.at = at
      BY <1>1, <2>1, <3>1 DEF Goto, Doing
    <3>3. QED
      BY <3>2
  <2>2. Resting.at = "idle"
    BY DEF Resting, Doing
  <2>3. QED
    BY <1>4, <2>1, <2>2 DEF Rest
<1>6. \A i \in Tiles : FrameHas(th, i) <=> FrameHas(thread[Frame], i)
  BY <1>2, <1>5 DEF FrameHas
<1>7. Counts'
  BY <1>1, <1>3, <1>5, <1>6, FrameCounts DEF IInv
<1>8. \A w \in Workers : thread'[w] = thread[w]
  BY <1>1, <1>5 DEF Threads
<1>9. \A i \in Instances : \/ stage'[i] = stage[i]
                           \/ stage'[i] \in {"made", "placed"} /\ i \notin Tiles
                           \/ stage'[i] = "freed" /\ i \in garbage.wmo
  <2>1. CASE NewMapInstance
    BY <1>1, <2>1 DEF NewMapInstance, Enlist, At, FrameOk, TypeList
  <2>2. CASE PlaceMap
    BY <1>1, <2>2 DEF PlaceMap, At, FrameOk, TypeList
  <2>3. CASE EraseInstance
    BY <1>1, <2>3 DEF EraseInstance, At, FrameOk, TypeList
  <2>4. QED
    BY <2>1, <2>2, <2>3
<1>10. Lives'
  BY <1>3, <1>8, <1>9, StageLives
<1>11. QED
  BY <1>7, <1>10

-----------------------------------------------------------------------------
(* The two steps by which a handle goes.                                   *)

(* a handle that the frames give back is held, and names an instance       *)
LEMMA UnrefHeld ==
  ASSUME IInv, thread[Frame].at = "unref"
  PROVE  \E i \in Tiles, d \in Ids :
           /\ i = thread[Frame].i /\ d = IdOf[i] /\ i \in Holders(d) /\ tile[i] = "released"
           /\ handle[d].refs \in Nat \ {0} /\ handle[d].inst \in Tiles
           /\ IdOf[handle[d].inst] = d
<1>1. thread[Frame].i \in Tiles /\ tile[thread[Frame].i] = "released"
  BY AtFrame DEF IInv, FrameOk
<1>2. PICK i \in Tiles, d \in Ids : i = thread[Frame].i /\ d = IdOf[i]
  BY <1>1
<1>3. Holds(i) /\ i \in Holders(d)
  BY <1>2 DEF Holds, Holders
<1>4. handle[d].refs # 0 /\ handle[d].refs \in Nat
  <2>1. Cardinality(Holders(d)) # 0 /\ Cardinality(Holders(d)) \in Nat
    BY <1>3, HoldersFinite, Zenon
  <2>2. QED
    BY <2>1 DEF IInv, Counts, Counted
<1>5. handle[d].inst # None
  <2>1. \A w \in Workers : thread[w].at = "new" => tile[thread[w].i] = "loading"
    BY AtWorker DEF IInv, WorkerOk, TileAts
  <2>2. QED
    BY <1>1, <1>2, <1>3, <2>1 DEF IInv, Counts, Named
<1>6. handle[d].inst \in Tiles /\ IdOf[handle[d].inst] = d
  BY <1>5 DEF IInv, Counts, Names
<1>7. QED
  BY <1>1, <1>2, <1>3, <1>4, <1>6

LEMMA UnrefHandleKeeps ==
  ASSUME IInv, fault = NoFault, UnrefHandle
  PROVE  IInv'
<1>1. At(Frame, "unref")
  BY DEF UnrefHandle
<1>2. PICK i \in Tiles, d \in Ids :
        /\ i = thread[Frame].i /\ d = IdOf[i] /\ i \in Holders(d) /\ tile[i] = "released"
        /\ handle[d].refs \in Nat \ {0} /\ handle[d].inst \in Tiles
        /\ IdOf[handle[d].inst] = d
  BY <1>1, UnrefHeld DEF At
<1>3. /\ thread \in [Threads -> ThreadType] /\ TypeHandle /\ Frame \in Threads /\ TypeThread
      /\ handle[d].inst \in Instances
  BY <1>2, AtFrame DEF IInv, Instances
<1>4. handle' = [handle EXCEPT ![d] = [refs |-> handle[d].refs - 1, inst |-> handle[d].inst]]
      /\ UNCHANGED <<tile, listVars, doodads, file, garbage, fault>>
  BY <1>2, <1>3 DEF UnrefHandle
<1>5. /\ handle'[d].refs = handle[d].refs - 1
      /\ \A e \in Ids : handle'[e].inst = handle[e].inst /\ (e # d => handle'[e].refs = handle[e].refs)
  BY <1>3, <1>4 DEF TypeHandle
<1>6. TypeHandle'
  <2>1. handle[d].refs - 1 \in Nat
    BY <1>2
  <2>2. [refs |-> handle[d].refs - 1, inst |-> handle[d].inst] \in [refs : Nat, inst : Instances \cup {None}]
    BY <1>3, <2>1
  <2>3. QED
    BY <1>3, <1>4, <2>2 DEF TypeHandle
<1>7. PICK th \in ThreadType :
        /\ thread' = [thread EXCEPT ![Frame] = th]
        /\ IF handle[d].refs = 1
           THEN th = Doing("collect", "gc", "none", handle[d].inst, 0) /\ owner' = owner
           ELSE th = Resting /\ owner' = Unlocked({"map_wmo"})
  <2>1. Doing("collect", "gc", "none", handle[d].inst, 0) \in ThreadType
    BY <1>3 DEF Doing, ThreadType, Ats, FrameAts, Locks
  <2>2. QED
    BY <1>2, <2>1, RestingType DEF UnrefHandle, Rest
<1>8. TypeList' /\ TypeModels' /\ Garbage' /\ list' = list
  BY <1>4, AtFrame DEF IInv, TypeList, TypeModels, Garbage, listVars
<1>9. Held(thread[Frame]) = {"map_wmo"}
  BY <1>1, AtFrame DEF IInv, At, Held, Needs, Locks, TellAts
<1>10. th.at \in {"collect", "idle"} /\ (th.at = "collect" => th.i = handle[d].inst /\ handle[d].refs = 1)
  BY <1>7 DEF Doing, Resting
<1>11. Base'
  <2>1. FrameOk(th)'
    BY <1>3, <1>7 DEF FrameOk, FrameAts, Doing, Resting
  <2>2. CASE handle[d].refs = 1
    <3>1. Moves(Frame, th, {})
      BY <1>3, <1>7, <2>2, NoUnlock DEF Moves
    <3>2. Held(th) = {"map_wmo"} /\ Waits(th)
      BY <1>2, <1>7, <2>2 DEF Doing, Held, Needs, Waits, Rank, Locks, TellAts
    <3>3. QED
      BY <1>4, <1>6, <1>8, <1>9, <2>1, <3>1, <3>2, FrameGoes DEF IInv
  <2>3. CASE handle[d].refs # 1
    <3>1. Moves(Frame, th, {"map_wmo"})
      BY <1>7, <2>3 DEF Moves
    <3>2. Held(th) = {} /\ th.wait = None
      BY <1>7, <2>3 DEF Doing, Resting, Held, Needs, TellAts
    <3>3. QED
      BY <1>4, <1>6, <1>8, <1>9, <2>1, <3>1, <3>2, FrameGoes DEF IInv
  <2>4. QED
    BY <2>2, <2>3
<1>12. thread'[Frame] = th /\ \A w \in Workers : thread'[w] = thread[w]
  BY <1>3, <1>7 DEF Threads
<1>13. \A j \in Tiles : Holds(j)' <=> Holds(j) /\ j # i
  <2>1. \A w \in Workers : thread[w].task = "tile" => tile[thread[w].i] = "loading"
    BY AtWorker DEF IInv, WorkerOk
  <2>2. QED
    BY <1>1, <1>2, <1>4, <1>10, <1>12, <2>1 DEF Holds, At
<1>14. Counted'
  <2>1. Holders(d)' = Holders(d) \ {i}
    BY <1>13 DEF Holders
  <2>2. \A e \in Ids : e # d => Holders(e)' = Holders(e)
    BY <1>2, <1>13 DEF Holders
  <2>3. Cardinality(Holders(d) \ {i}) = Cardinality(Holders(d)) - 1
    <3>1. IsFiniteSet(Holders(d))
      BY HoldersFinite
    <3> DEFINE H == Holders(d)
    <3> HIDE DEF H
    <3>2. IsFiniteSet(H) /\ i \in H
      BY <1>2, <3>1 DEF H
    <3>3. Cardinality(H \ {i}) = Cardinality(H) - 1
      BY <3>2, FS_RemoveElement
    <3>4. QED
      BY <3>3 DEF H
  <2>4. QED
    BY <1>5, <2>1, <2>2, <2>3 DEF IInv, Counts, Counted
<1>15. Named' /\ Names'
  BY <1>5, <1>12, <1>13 DEF IInv, Counts, Named, Names
<1>16. Nobodys'
  <2>1. th.at = "collect" => handle'[IdOf[th.i]].refs = 0 /\ handle'[IdOf[th.i]].inst = th.i
    BY <1>2, <1>5, <1>10
  <2>2. QED
    BY <1>12, <2>1 DEF Nobodys
<1>17. Lives'
  <2>1. Alive' /\ Gone' /\ Fresh'
    BY <1>4, <1>5, <1>12 DEF IInv, Lives, Alive, Gone, Fresh, listVars
  <2>2. QED
    BY <2>1 DEF Lives
<1>18. QED
  BY <1>11, <1>14, <1>15, <1>16, <1>17 DEF IInv, Counts

LEMMA CollectKeeps ==
  ASSUME IInv, fault = NoFault, Collect
  PROVE  IInv'
<1>1. PICK i \in Instances : i = thread[Frame].i /\ At(Frame, "collect")
  BY AtFrame DEF IInv, Collect, At, FrameOk
<1>2. /\ thread \in [Threads -> ThreadType] /\ TypeHandle /\ TypeList /\ TypeModels /\ Garbage
      /\ Frame \in Threads
  BY AtFrame DEF IInv
<1>3. /\ handle' = [d \in Ids |-> IF handle[d].inst = i THEN [refs |-> 0, inst |-> None] ELSE handle[d]]
      /\ stage' = [stage EXCEPT ![i] = "collected"]
      /\ garbage' = [garbage EXCEPT !.wmo = garbage.wmo \cup {i}]
      /\ thread' = [thread EXCEPT ![Frame] = Resting]
      /\ UNCHANGED <<tile, list, told, grouped, early, doodads, file, fault>>
  BY <1>1, <1>2 DEF Collect, Rest
<1>4. TypeHandle' /\ TypeList' /\ TypeModels' /\ Garbage'
  <2>1. \A d \in Ids : (IF handle[d].inst = i THEN [refs |-> 0, inst |-> None] ELSE handle[d])
                         \in [refs : Nat, inst : Instances \cup {None}]
    BY <1>2 DEF TypeHandle
  <2>2. TypeHandle'
    BY <1>2, <1>3, <2>1 DEF TypeHandle
  <2>3. TypeList'
    BY <1>2, <1>3 DEF TypeList, Stages
  <2>4. TypeModels' /\ Garbage'
    BY <1>2, <1>3 DEF TypeModels, Garbage
  <2>5. QED
    BY <2>2, <2>3, <2>4
<1>5. Base'
  <2>1. PICK S : S = {"gc", "map_wmo"} \ (IF i \in Maps THEN {"map_wmo"} ELSE {})
    OBVIOUS
  <2>2. Held(thread[Frame]) = S
    BY <1>1, <2>1, AtFrame DEF IInv, At, Held, Needs, Locks, TellAts
  <2>3. Moves(Frame, Resting, S)
    BY <1>1, <1>3, <2>1 DEF Collect, Moves
  <2>4. Held(Resting) = {} /\ Resting.wait = None
    BY DEF Held, Needs, Resting, Doing, TellAts
  <2>5. FrameOk(Resting)'
    BY DEF FrameOk, FrameAts, Resting, Doing
  <2>6. QED
    BY <1>3, <1>4, <2>2, <2>3, <2>4, <2>5, RestingType, FrameGoes DEF IInv
<1>6. thread'[Frame] = Resting /\ \A w \in Workers : thread'[w] = thread[w]
  BY <1>2, <1>3 DEF Threads
<1>7. Resting.at = "idle"
  BY DEF Resting, Doing
<1>8. \A j \in Tiles : Holds(j)' <=> Holds(j)
  BY <1>1, <1>3, <1>6, <1>7 DEF Holds, At
<1>9. \A d \in Ids : /\ handle[d].inst # i => handle'[d] = handle[d]
                     /\ handle[d].inst = i => /\ handle'[d].refs = 0 /\ handle'[d].inst = None
                                              /\ handle[d].refs = 0 /\ Holders(d) = {}
  <2>1. ASSUME NEW d \in Ids, handle[d].inst = i
        PROVE  handle[d].refs = 0 /\ Holders(d) = {}
    <3>1. i \in Tiles /\ IdOf[i] = d
      BY <2>1 DEF IInv, Counts, Names, Instances
    <3>2. handle[d].refs = 0
      BY <1>1, <3>1 DEF IInv, Counts, Nobodys, At
    <3>3. Cardinality(Holders(d)) = 0
      BY <3>2 DEF IInv, Counts, Counted
    <3>4. QED
      BY <3>2, <3>3, HoldersFinite, Zenon
  <2>2. QED
    BY <1>3, <2>1
<1>10. Counted'
  <2>1. \A d \in Ids : Holders(d)' = Holders(d)
    BY <1>8 DEF Holders
  <2>2. QED
    BY <1>9, <2>1 DEF IInv, Counts, Counted
<1>11. Named'
  <2>1. ASSUME NEW j \in Tiles, Holds(j)
        PROVE  handle'[IdOf[j]] = handle[IdOf[j]]
    <3>1. j \in Holders(IdOf[j]) /\ IdOf[j] \in Ids
      BY <2>1 DEF Holders
    <3>2. QED
      BY <1>9, <3>1
  <2>2. QED
    BY <1>6, <1>8, <2>1 DEF IInv, Counts, Named
<1>12. Names' /\ Nobodys'
  BY <1>6, <1>7, <1>9 DEF IInv, Counts, Names, Nobodys
<1>13. \A j \in Instances : stage'[j] = IF j = i THEN "collected" ELSE stage[j]
  BY <1>2, <1>3 DEF TypeList
<1>14. Alive'
  <2>1. ASSUME NEW d \in Ids, handle'[d].inst # None
        PROVE  stage'[handle'[d].inst] \in {"made", "placed"}
    <3>1. handle'[d] = handle[d] /\ handle[d].inst # i /\ handle[d].inst \in Instances
      BY <1>9, <2>1 DEF IInv, Counts, Names, Instances
    <3>2. QED
      BY <1>13, <2>1, <3>1 DEF IInv, Lives, Alive
  <2>2. QED
    BY <2>1 DEF Alive
<1>15. Gone'
  <2>1. garbage'.wmo = garbage.wmo \cup {i} /\ garbage.wmo \subseteq Instances /\ None \notin Instances
    BY <1>2, <1>3 DEF TypeModels
  <2>2. \A j \in garbage.wmo \cup {i}, d \in Ids : handle'[d].inst # j
    BY <1>9, <2>1 DEF IInv, Lives, Gone
  <2>3. QED
    BY <1>13, <2>1, <2>2 DEF IInv, Lives, Gone
<1>16. Fresh'
  <2>1. ASSUME NEW j \in Tiles, Awaited(j) PROVE stage[j] = "unborn" /\ j # i
    <3>1. stage[j] = "unborn"
      BY <2>1 DEF Awaited, IInv, Lives, Fresh
    <3>2. j # i
      <4>1. i \in Tiles => handle[IdOf[i]].inst = i /\ IdOf[i] \in Ids
        BY <1>1 DEF IInv, Counts, Nobodys, At
      <4>2. i \in Tiles => stage[i] \in {"made", "placed"}
        BY <4>1 DEF IInv, Lives, Alive, Instances
      <4>3. QED
        BY <3>1, <4>2
    <3>3. QED
      BY <3>1, <3>2
  <2>2. QED
    BY <1>3, <1>6, <1>13, <2>1 DEF Fresh, Awaited, Instances
<1>17. QED
  BY <1>5, <1>10, <1>11, <1>12, <1>14, <1>15, <1>16 DEF IInv, Counts, Lives

-----------------------------------------------------------------------------
(* The invariant.                                                          *)

LEMMA InitIInv == Init => IInv
<1> SUFFICES ASSUME Init PROVE IInv
  OBVIOUS
<1>1. Resting \in ThreadType /\ Frame \in Threads
  BY RestingType DEF Threads
<1>2. /\ Resting.at = "idle" /\ Resting.wait = None /\ Resting.task = "none"
      /\ Held(Resting) = {}
  BY DEF Resting, Doing, Held, Needs, TellAts
<1>3. TypeThread
  BY <1>1 DEF Init, TypeThread
<1>4. TypeHandle
  <2>1. [refs |-> 0, inst |-> None] \in [refs : Nat, inst : Instances \cup {None}]
    OBVIOUS
  <2>2. QED
    BY <2>1 DEF Init, TypeHandle
<1>5. TypeList
  BY DEF Init, TypeList, Stages
<1>6. TypeModels
  <2>1. doodads \in [Instances -> Seq(Nat)]
    BY DEF Init
  <2>2. file \in [{"wmo", "group", "m2"} -> Phases] /\ garbage \in [{"wmo", "m2"} -> SUBSET Instances]
    BY DEF Init, Phases
  <2>3. QED
    BY <2>1, <2>2 DEF TypeModels
<1>7. \A t \in Threads : thread[t] = Resting
  BY DEF Init
<1>8. Owned
  <2>1. \A t \in Threads, l \in Locks : owner[l] # t
    BY DEF Init
  <2>2. QED
    BY <1>2, <1>7, <2>1 DEF Owned
<1>9. WorkerInv /\ OneWorker /\ FrameInv /\ Garbage
  <2>1. WorkerOk(Resting) /\ FrameOk(Resting)
    BY <1>2 DEF WorkerOk, FrameOk, TileAts, TellAts
  <2>2. WorkerInv /\ OneWorker /\ FrameInv
    BY <1>1, <1>2, <1>7, <2>1 DEF WorkerInv, OneWorker, FrameInv, Threads
  <2>3. Garbage
    BY DEF Init, Garbage
  <2>4. QED
    BY <2>2, <2>3
<1>10. Counts
  <2>1. ASSUME NEW i \in Tiles PROVE ~Holds(i)
    BY <1>1, <1>2, <1>7 DEF Init, Holds, Threads
  <2>2. ASSUME NEW d \in Ids PROVE handle[d].refs = Cardinality(Holders(d)) /\ handle[d].inst = None
    <3>1. Holders(d) = {}
      BY <2>1 DEF Holders
    <3>2. QED
      BY <3>1, FS_EmptySet DEF Init
  <2>3. QED
    BY <1>1, <1>2, <1>7, <2>1, <2>2 DEF Counts, Counted, Named, Names, Nobodys
<1>11. Lives
  BY DEF Init, Lives, Alive, Fresh, Gone, Instances
<1>12. QED
  BY <1>3, <1>4, <1>5, <1>6, <1>8, <1>9, <1>10, <1>11 DEF IInv, Base, Types

LEMMA NextIInv == IInv /\ [Next]_vars => IInv'
<1> SUFFICES ASSUME IInv, [Next]_vars PROVE IInv'
  OBVIOUS
<1>1. CASE UNCHANGED vars
  <2>1. Base'
    BY <1>1 DEF IInv, Base, Types, TypeThread, TypeHandle, TypeList, TypeModels, Owned, WorkerInv,
       WorkerOk, OneWorker, FrameInv, FrameOk, Garbage, vars
  <2>2. \A i \in Tiles : Holds(i)' <=> Holds(i)
    BY <1>1 DEF Holds, vars
  <2>3. Counts' /\ Lives'
    BY <1>1, <2>2, SameCounts, SameLives DEF IInv, vars
  <2>4. QED
    BY <2>1, <2>3 DEF IInv
<1>2. ASSUME NEW w \in Workers, fault = NoFault, LoadTile(w) PROVE IInv'
  BY <1>2, LoadTileBase, LoadTileKeeps DEF IInv
<1>3. ASSUME NEW w \in Workers, fault = NoFault, RefHandle(w) \/ NewInstance(w) \/ Place(w) PROVE IInv'
  BY <1>3, RefHandleBase, RefHandleKeeps, NewInstanceBase, NewInstanceKeeps, PlaceBase, PlaceKeeps
     DEF IInv
<1>4. ASSUME NEW w \in Workers, fault = NoFault,
             NewDoodad(w) \/ SettleDoodad(w) \/ TellInstance(w) \/ TellGroup(w) PROVE IInv'
  BY <1>4, NewDoodadBase, SettleDoodadBase, TellInstanceBase, TellGroupBase, TellKeeps
     DEF IInv, TellStep
<1>5. ASSUME NEW w \in Workers, fault = NoFault,
             TakeTask(w) \/ WalkOn(w) \/ WalkEnd(w) \/ PostLoad(w) PROVE IInv'
  BY <1>5, TakeTaskBase, WalkOnBase, WalkEndBase, PostLoadBase, TaskKeeps DEF IInv, TaskStep
<1>6. ASSUME NEW t \in Threads, Lock(t) PROVE IInv'
  BY <1>6, LockKeeps
<1>7. CASE fault = NoFault /\ (UnrefHandle \/ Collect)
  BY <1>7, UnrefHandleKeeps, CollectKeeps
<1>8. CASE fault = NoFault /\ (NewMapInstance \/ PlaceMap \/ EraseInstance)
  BY <1>8, NewMapInstanceBase, PlaceMapBase, EraseInstanceBase, FrameStages DEF IInv
<1>9. CASE fault = NoFault /\ (Release \/ OpenMap \/ LeaveMap \/ StartGc \/ PickModel \/ DeleteModel)
  BY <1>9, ReleaseBase, OpenMapBase, LeaveMapBase, StartGcBase, PickModelBase, DeleteModelBase,
     FrameKeeps DEF IInv
<1>10. CASE fault = NoFault /\ (ModelsEnd \/ PickInstance \/ FindInstance \/ DropDoodads \/ GcEnd)
  BY <1>10, ModelsEndBase, PickInstanceBase, FindInstanceBase, DropDoodadsBase, GcEndBase,
     FrameKeeps DEF IInv
<1>11. QED
  BY <1>1, <1>2, <1>3, <1>4, <1>5, <1>6, <1>7, <1>8, <1>9, <1>10, NextCases

(* IInv holds of every state, whatever the number of tiles and workers.    *)
LEMMA Invariance == Spec => []IInv
  BY InitIInv, NextIInv, PTL DEF Spec

(* The state has its type: no count of a handle goes below zero, nothing   *)
(* is erased but from its place in a list.                                 *)
THEOREM TypeCorrect == Spec => []TypeOK
<1>1. IInv => TypeOK
  BY TypeParts DEF IInv, Base
<1>2. QED
  BY <1>1, Invariance, PTL

(* The mutexes are taken in the order of Rank by every thread.             *)
THEOREM LocksAreRanked == Spec => []LocksRanked
<1>1. IInv => LocksRanked
  <2> SUFFICES ASSUME IInv, NEW t \in Threads, thread[t].wait # None, NEW l \in Locks, owner[l] = t
               PROVE  Rank[l] < Rank[thread[t].wait]
    BY DEF LocksRanked
  <2>1. Waits(thread[t]) /\ l \in Held(thread[t])
    BY DEF IInv, Base, Owned
  <2>2. l \in Needs(thread[t]) /\ l # thread[t].wait /\ thread[t].wait \in Locks
        /\ Rank[l] <= Rank[thread[t].wait]
    BY <2>1 DEF Held, Waits, Needs
  <2>3. QED
    BY <2>2 DEF Rank, Locks
<1>2. QED
  BY <1>1, Invariance, PTL

(* The threads are never all blocked: one of them waits for no mutex, or   *)
(* for one that is free.                                                   *)
Blocked(t) == thread[t].wait # None /\ owner[thread[t].wait] # None
SomeGoesOn == \E t \in Threads : ~Blocked(t)

THEOREM NeverAllBlocked == Spec => []SomeGoesOn
<1>1. TypeOK /\ LocksRanked => SomeGoesOn
  <2> SUFFICES ASSUME TypeOK, LocksRanked, \A t \in Threads : Blocked(t) PROVE FALSE
    BY DEF SomeGoesOn
  <2> DEFINE r(t) == Rank[thread[t].wait]
  <2>1. TypeThread
    BY TypeParts DEF Types
  <2>2. ASSUME NEW t \in Threads PROVE r(t) \in 1 .. 5 /\ \E u \in Threads : r(t) < r(u)
    <3>1. thread[t].wait \in Locks /\ owner[thread[t].wait] \in Threads
      BY <2>1 DEF TypeThread, ThreadType, Blocked
    <3>2. PICK u \in Threads : owner[thread[t].wait] = u
      BY <3>1
    <3>3. r(t) < r(u)
      BY <3>1, <3>2 DEF LocksRanked, Blocked
    <3>4. r(t) \in 1 .. 5
      BY <3>1 DEF Rank, Locks
    <3>5. QED
      BY <3>3, <3>4
  <2> HIDE DEF r
  <2>3. \A t \in Threads : r(t) <= 4
    BY <2>2
  <2>4. \A t \in Threads : r(t) <= 3
    BY <2>2, <2>3
  <2>5. \A t \in Threads : r(t) <= 2
    BY <2>2, <2>4
  <2>6. \A t \in Threads : r(t) <= 1
    BY <2>2, <2>5
  <2>7. QED
    BY <2>2, <2>6 DEF Threads
<1>2. QED
  BY <1>1, TypeCorrect, LocksAreRanked, PTL

(* Whatever tiles share a building, and however their loads and unloads    *)
(* cross, the instance lives while one of them holds its handle.           *)
THEOREM HandlesAreKept == Spec => []HandlesKept
<1>1. IInv => HandlesKept
  <2> SUFFICES ASSUME IInv, NEW d \in Ids
               PROVE  /\ handle[d].refs = Cardinality(Holders(d))
                      /\ handle[d].inst # None => stage[handle[d].inst] \in {"made", "placed"}
                      /\ Holders(d) # {} =>
                           \/ handle[d].inst # None
                           \/ \E w \in Workers : thread[w].at = "new" /\ IdOf[thread[w].i] = d
    BY DEF HandlesKept
  <2>1. ASSUME NEW i \in Tiles, Holds(i), IdOf[i] = d
        PROVE  \/ handle[d].inst # None
               \/ \E w \in Workers : thread[w].at = "new" /\ IdOf[thread[w].i] = d
    BY <2>1 DEF IInv, Counts, Named
  <2>2. QED
    BY <2>1 DEF IInv, Counts, Counted, Lives, Alive, Holders
<1>2. QED
  BY <1>1, Invariance, PTL
-----------------------------------------------------------------------------
(* Who is told of a load.                                                  *)

(* The list of the building has every instance once, from the moment it is *)
(* made to the moment it is deleted; the thread that will erase one knows  *)
(* its place.                                                              *)
Enlisted(i) == stage[i] \in {"made", "placed", "collected"}
ListKept ==
  /\ \A n, p \in DOMAIN list : list[n] = list[p] => n = p
  /\ \A n \in DOMAIN list : Enlisted(list[n])
  /\ \A i \in Instances : Enlisted(i) => \E n \in DOMAIN list : list[n] = i
  /\ thread[Frame].at = "erase" => list[thread[Frame].pos] = thread[Frame].i

(* An instance without a place is about to get it from the thread that     *)
(* made it.                                                                *)
Places(w, i) == thread[w].at = "place" /\ thread[w].i = i
Settled ==
  /\ \A w \in Workers : thread[w].at = "place" => stage[thread[w].i] = "made"
  /\ \A i \in Tiles : stage[i] = "made" => \E w \in Workers : Places(w, i)
  /\ \A w \in Workers : thread[w].task = "tile" /\ thread[w].at \in TellAts =>
                          stage[thread[w].i] \notin {"unborn", "made"}
  /\ thread[Frame].at = "open" => stage[thread[Frame].i] = "unborn"
  /\ thread[Frame].at = "ask" => stage[thread[Frame].i] = "made"
  /\ thread[Frame].at = "collect" /\ thread[Frame].i \in Maps => stage[thread[Frame].i] = "placed"
  /\ \A i \in garbage.wmo : stage[i] = "collected"

(* A file is loaded by one worker and once, its group after the building;  *)
(* a walk begins at the head of the list.                                  *)
Phased ==
  /\ file.group # "new" => file.wmo = "loaded"
  /\ \A w \in Workers : thread[w].task \in {"wmo", "group"} => file[thread[w].task] = "loading"
  /\ \A v, w \in Workers : thread[v].task \in {"wmo", "group"} /\ thread[w].task = thread[v].task => v = w
  /\ \A w \in Workers : thread[w].task \in {"wmo", "group"} /\ thread[w].wait = "wmo" => thread[w].pos = 1
  /\ \A w \in Workers : thread[w].task = "wmo" => thread[w].at # "group"
  /\ \A w \in Workers : thread[w].task = "group" => thread[w].at \in {"walk", "group"}
  /\ \A w \in Workers : thread[w].task = "tile" /\ thread[w].at \in TellAts => file.wmo = "loaded"

(* The load of the building tells each instance it meets once, and its own *)
(* worker once, which it only does when the load met it without its place, *)
(* or not at all.                                                          *)
OwnTells(i) ==
  \E w \in Workers : thread[w].task = "tile" /\ thread[w].i = i /\ thread[w].at \in {"doodad", "settle", "groups"}
Untold ==
  /\ \A i \in Instances : stage[i] = "unborn" => told[i] = 0
  /\ file.wmo \in {"new", "asked"} => \A i \in Instances : Enlisted(i) => told[i] = 0
  /\ \A w \in Workers, n \in DOMAIN list :
       thread[w].task = "wmo" => told[list[n]] = IF n < thread[w].pos THEN 1 ELSE 0
ToldOnce ==
  /\ \A i \in Instances : told[i] <= 2 /\ (told[i] = 2 => i \in early)
  /\ \A i \in Maps : told[i] <= 1
  /\ \A i \in Tiles : stage[i] \in {"unborn", "made"} \/ OwnTells(i) =>
       told[i] <= 1 /\ (told[i] = 1 => i \in early)
  /\ file.wmo = "loaded" =>
       \A i \in Tiles : stage[i] \in {"placed", "collected"} => told[i] > 0 \/ OwnTells(i)

(* What was told of the building is told of its group, by the load of the  *)
(* group or by its own worker, and every doodad of its model.              *)
OwnGroups(i) == \E w \in Workers : thread[w].task = "tile" /\ thread[w].i = i /\ thread[w].at = "group"
GroupTold ==
  /\ \A w \in Workers, n \in DOMAIN list :
       thread[w].task = "group" /\ n < thread[w].pos => grouped[list[n]]
  /\ file.group = "loaded" =>
       \A i \in Instances : Enlisted(i) /\ told[i] > 0 => grouped[i] \/ OwnGroups(i)
ModelTold ==
  file.m2 = "loaded" => \A i \in Instances : \A n \in DOMAIN doodads[i] : doodads[i][n] > 0

Heard == ListKept /\ Settled /\ Phased /\ Untold /\ ToldOnce /\ GroupTold
HeardInv == fault = NoFault => Heard

(* The mutex of the buildings is that of one thread, and a load that has   *)
(* begun its walk has it.                                                  *)
LEMMA OneHasWmo ==
  ASSUME Base, NEW t \in Threads, NEW u \in Threads,
         "wmo" \in Held(thread[t]), "wmo" \in Held(thread[u])
  PROVE  t = u
  BY DEF Base, Owned, Locks

LEMMA WalkerHas ==
  ASSUME Base, NEW w \in Workers, thread[w].task \in {"wmo", "group"}, thread[w].wait # "wmo"
  PROVE  "wmo" \in Held(thread[w])
<1>1. thread[w].at \in {"walk"} \cup TellAts
  BY AtWorker DEF WorkerOk, Resting, Doing
<1>2. QED
  BY <1>1 DEF Held, Needs, Locks

LEMMA TellerHas ==
  ASSUME Base, NEW w \in Workers, thread[w].at \in TellAts
  PROVE  "wmo" \in Held(thread[w])
  BY AtWorker DEF WorkerOk, Held, Needs, Locks

(* Whoever has it, the loads that wait for it are at the head of the list. *)
LEMMA OthersWait ==
  ASSUME Base, Phased, NEW t \in Threads, "wmo" \in Held(thread[t]),
         NEW w \in Workers, w # t, thread[w].task \in {"wmo", "group"}
  PROVE  thread[w].pos = 1
<1>1. w \in Threads
  BY DEF Threads
<1>2. thread[w].wait = "wmo"
  BY <1>1, OneHasWmo, WalkerHas
<1>3. QED
  BY <1>2 DEF Phased

(* a list is one of instances                                              *)
LEMMA ListIs ==
  ASSUME Base
  PROVE  /\ list \in Seq(Instances) /\ Len(list) \in Nat /\ DOMAIN list = 1 .. Len(list)
         /\ \A n \in DOMAIN list : list[n] \in Instances /\ n \in Nat
<1>1. list \in Seq(Instances)
  BY AtWorker DEF Base, Types, TypeList
<1>2. QED
  BY <1>1, LenProperties, ElementOfSeq

-----------------------------------------------------------------------------
(* A step that is about nothing of this.                                   *)

(* where a worker is, as far as the instances hear of it                   *)
Alike(th, v) ==
  /\ th.at = "place" <=> v.at = "place"
  /\ th.at = "place" => th.i = v.i
  /\ th.task \in {"wmo", "group"} =>
       v.task = th.task /\ th.pos = v.pos /\ (th.wait = "wmo" => v.wait = "wmo")
  /\ th.task = "wmo" => th.at # "group"
  /\ th.task = "group" => th.at \in {"walk", "group"}
  /\ th.task = "tile" /\ th.at \in {"doodad", "settle", "groups"} <=>
       v.task = "tile" /\ v.at \in {"doodad", "settle", "groups"}
  /\ th.task = "tile" /\ th.at = "group" <=> v.task = "tile" /\ v.at = "group"
  /\ th.task = "tile" /\ th.at \in TellAts => th.i = v.i

(* where the thread of the frames is                                       *)
FrameSettled(f) ==
  /\ f.at = "erase" => list[f.pos] = f.i
  /\ f.at = "open" => stage[f.i] = "unborn"
  /\ f.at = "ask" => stage[f.i] = "made"
  /\ f.at = "collect" /\ f.i \in Maps => stage[f.i] = "placed"

SameFiles == file'.wmo = file.wmo /\ file'.group = file.group

LEMMA WorkerQuiet ==
  ASSUME Base, Heard, NEW w \in Workers, NEW th, thread' = [thread EXCEPT ![w] = th],
         UNCHANGED listVars, garbage'.wmo = garbage.wmo, SameFiles, Alike(th, thread[w])
  PROVE  Heard'
<1>1. thread'[w] = th /\ \A v \in Threads \ {w} : thread'[v] = thread[v]
  BY AtWorker
<1>2. thread'[Frame] = thread[Frame]
  BY <1>1, AtFrame
<1>3. \A v \in Workers : Alike(thread'[v], thread[v]) \/ thread'[v] = thread[v]
  BY <1>1 DEF Threads
<1>4. UNCHANGED <<list, stage, told, grouped, early>>
  BY DEF listVars
<1>5. ListKept'
  BY <1>2, <1>4 DEF Heard, ListKept, Enlisted
<1>6. Settled'
  <2>1. ASSUME NEW i \in Tiles, NEW v \in Workers, Places(v, i) PROVE Places(v, i)'
    BY <1>1, <1>3, <2>1 DEF Places, Alike
  <2>2. \A v \in Workers : thread'[v].at = "place" => stage'[thread'[v].i] = "made"
    BY <1>3, <1>4 DEF Heard, Settled, Alike
  <2>3. \A v \in Workers : thread'[v].task = "tile" /\ thread'[v].at \in TellAts =>
                           stage'[thread'[v].i] \notin {"unborn", "made"}
    BY <1>3, <1>4 DEF Heard, Settled, Alike, TellAts
  <2>4. QED
    BY <1>2, <1>4, <2>1, <2>2, <2>3 DEF Heard, Settled
<1>7. Phased'
  <2>1. \A v \in Workers : thread'[v].task \in {"wmo", "group"} =>
          /\ thread[v].task = thread'[v].task /\ thread'[v].pos = thread[v].pos
          /\ thread'[v].wait = "wmo" => thread[v].wait = "wmo"
    BY <1>3 DEF Alike
  <2>2. \A v \in Workers : /\ thread'[v].task = "wmo" => thread'[v].at # "group"
                           /\ thread'[v].task = "group" => thread'[v].at \in {"walk", "group"}
                           /\ thread'[v].task = "tile" /\ thread'[v].at \in TellAts => file.wmo = "loaded"
    BY <1>3 DEF Alike, Heard, Phased, TellAts
  <2>3. QED
    BY <2>1, <2>2 DEF Heard, Phased, SameFiles
<1>8. Untold'
  BY <1>3, <1>4 DEF Heard, Untold, Enlisted, SameFiles, Alike
<1>9. \A i \in Instances : (OwnTells(i)' <=> OwnTells(i)) /\ (OwnGroups(i)' <=> OwnGroups(i))
  BY <1>3 DEF OwnTells, OwnGroups, Alike, TellAts
<1>10. ToldOnce'
  BY <1>4, <1>9 DEF Heard, ToldOnce, SameFiles, Instances
<1>11. GroupTold'
  BY <1>3, <1>4, <1>9 DEF Heard, GroupTold, Enlisted, SameFiles, Alike
<1>12. QED
  BY <1>5, <1>6, <1>7, <1>8, <1>10, <1>11 DEF Heard

LEMMA FrameQuiet ==
  ASSUME Base, Heard, NEW th, thread' = [thread EXCEPT ![Frame] = th],
         UNCHANGED listVars, garbage'.wmo = garbage.wmo, SameFiles, FrameSettled(th)
  PROVE  Heard'
<1>1. thread'[Frame] = th /\ \A v \in Workers : thread'[v] = thread[v]
  BY AtFrame DEF Threads
<1>2. UNCHANGED <<list, stage, told, grouped, early>>
  BY DEF listVars
<1>3. ListKept'
  BY <1>1, <1>2 DEF Heard, ListKept, Enlisted, FrameSettled
<1>4. Settled'
  BY <1>1, <1>2 DEF Heard, Settled, FrameSettled, Places
<1>5. Phased'
  BY <1>1 DEF Heard, Phased, SameFiles
<1>6. Untold' /\ ToldOnce' /\ GroupTold'
  BY <1>1, <1>2 DEF Heard, Untold, ToldOnce, GroupTold, Enlisted, OwnTells, OwnGroups, SameFiles
<1>7. QED
  BY <1>3, <1>4, <1>5, <1>6 DEF Heard

(* the same places, for the same instance                                  *)
LEMMA AlikeGo ==
  ASSUME NEW v, NEW th, Phased, NEW w \in Workers, thread[w] = v,
         th.task = v.task, th.i = v.i, th.pos = v.pos, th.wait = "wmo" => v.wait = "wmo",
         \/ th.at = v.at
         \/ v.at = "doodad" /\ th.at = "settle"
         \/ v.at = "settle" /\ th.at = "groups"
  PROVE  Alike(th, v)
  BY DEF Alike, Phased

LEMMA LockHeard ==
  ASSUME Base, Heard, NEW t \in Threads, Lock(t)
  PROVE  Heard'
<1>1. PICK th : th = Doing(thread[t].at, None, thread[t].task, thread[t].i, thread[t].pos)
  OBVIOUS
<1>2. thread' = [thread EXCEPT ![t] = th] /\ UNCHANGED <<listVars, garbage, file>>
  <2>1. [thread EXCEPT ![t].wait = None] = [thread EXCEPT ![t] = th]
    <3>1. thread[t] \in ThreadType /\ thread \in [Threads -> ThreadType]
      BY AtFrame
    <3>2. [thread[t] EXCEPT !.wait = None] = th
      BY <1>1, <3>1 DEF ThreadType, Doing
    <3>3. QED
      BY <3>1, <3>2
  <2>2. QED
    BY <2>1 DEF Lock
<1>3. /\ th.at = thread[t].at /\ th.i = thread[t].i /\ th.task = thread[t].task
      /\ th.pos = thread[t].pos /\ th.wait = None /\ None # "wmo"
  BY <1>1 DEF Doing, Locks
<1>4. CASE t \in Workers
  <2>1. Alike(th, thread[t])
    BY <1>3, <1>4, AlikeGo DEF Heard
  <2>2. QED
    BY <1>2, <1>4, <2>1, WorkerQuiet DEF SameFiles
<1>5. CASE t = Frame
  <2>1. FrameSettled(th)
    BY <1>3, <1>5 DEF Heard, ListKept, Settled, FrameSettled
  <2>2. QED
    BY <1>2, <1>5, <2>1, FrameQuiet DEF SameFiles
<1>6. QED
  BY <1>4, <1>5 DEF Threads

LEMMA LoadTileHeard ==
  ASSUME Base, Heard, NEW w \in Workers, LoadTile(w) \/ RefHandle(w)
  PROVE  Heard'
<1>1. /\ thread[w].at \in {"idle", "handle"} /\ UNCHANGED <<listVars, garbage, file>>
      /\ thread[w].task \in {"none", "tile"}
  BY AtWorker DEF LoadTile, RefHandle, At, WorkerOk, TileAts, Resting, Doing
<1>2. PICK th : /\ thread' = [thread EXCEPT ![w] = th]
                /\ th.at \in {"handle", "new", "idle"} /\ th.task \in {"tile", "none"}
  <2>1. CASE LoadTile(w)
    <3>1. PICK i \in Tiles : thread' = [thread EXCEPT ![w] = Doing("handle", "map_wmo", "tile", i, 0)]
      BY <2>1 DEF LoadTile
    <3>2. PICK th : th = Doing("handle", "map_wmo", "tile", i, 0)
      OBVIOUS
    <3>3. th.at = "handle" /\ th.task = "tile" /\ thread' = [thread EXCEPT ![w] = th]
      BY <3>1, <3>2 DEF Doing
    <3>4. QED
      BY <3>3
  <2>2. CASE RefHandle(w)
    <3>1. \E th : thread' = [thread EXCEPT ![w] = th]
                  /\ th \in {Resting, Doing("new", "wmo", thread[w].task, thread[w].i, thread[w].pos)}
      BY <2>2, AtWorker DEF RefHandle, Goto, Rest
    <3>2. QED
      BY <1>1, <3>1 DEF Resting, Doing
  <2>3. QED
    BY <2>1, <2>2
<1>3. Alike(th, thread[w])
  BY <1>1, <1>2 DEF Alike, TellAts
<1>4. QED
  BY <1>1, <1>2, <1>3, WorkerQuiet DEF SameFiles

LEMMA DoodadHeard ==
  ASSUME Base, Heard, NEW w \in Workers, NewDoodad(w) \/ SettleDoodad(w)
  PROVE  Heard'
<1>1. /\ UNCHANGED <<listVars, garbage>> /\ SameFiles
  <2>1. file' = file \/ file' = Asked("m2")
    BY DEF NewDoodad, SettleDoodad
  <2>2. SameFiles
    BY <2>1, AtWorker DEF Asked, SameFiles, TypeModels
  <2>3. QED
    BY <2>2 DEF NewDoodad, SettleDoodad
<1>2. PICK at, wait : /\ thread' = Goto(w, at, wait) /\ wait # "wmo"
                      /\ (thread[w].at = "doodad" /\ at = "settle") \/ (thread[w].at = "settle" /\ at = "groups")
  BY DEF NewDoodad, SettleDoodad, At, Locks
<1>3. PICK th : th = Doing(at, wait, thread[w].task, thread[w].i, thread[w].pos)
                /\ thread' = [thread EXCEPT ![w] = th]
  BY <1>2, AtWorker DEF Goto
<1>4. Alike(th, thread[w])
  BY <1>2, <1>3, AlikeGo DEF Doing, Heard
<1>5. QED
  BY <1>1, <1>3, <1>4, WorkerQuiet DEF SameFiles

LEMMA WalkOnHeard ==
  ASSUME Base, Heard, NEW w \in Workers, WalkOn(w), fault' = fault, fault = NoFault
  PROVE  Heard'
<1>1. /\ UNCHANGED <<listVars, garbage, file>> /\ thread[w].at = "walk"
      /\ thread[w].task \in {"wmo", "group"}
  BY AtWorker DEF WalkOn, At, WorkerOk, TellAts, TileAts
<1>2. thread[w].task = "wmo" => thread' = Goto(w, "doodad", "m2")
  BY DEF WalkOn
<1>3. thread[w].task = "group" => thread' = Goto(w, "group", "m2")
  BY DEF WalkOn, NoFault
<1>4. PICK at : thread' = Goto(w, at, "m2") /\ at = IF thread[w].task = "wmo" THEN "doodad" ELSE "group"
  BY <1>1, <1>2, <1>3
<1>5. PICK th : th = Doing(at, "m2", thread[w].task, thread[w].i, thread[w].pos)
                /\ thread' = [thread EXCEPT ![w] = th]
  BY <1>4, AtWorker DEF Goto
<1>6. Alike(th, thread[w])
  BY <1>1, <1>4, <1>5 DEF Doing, Alike, TellAts
<1>7. QED
  BY <1>1, <1>5, <1>6, WorkerQuiet DEF SameFiles

LEMMA PostLoadHeard ==
  ASSUME Base, Heard, NEW w \in Workers, PostLoad(w)
  PROVE  Heard'
<1>1. /\ UNCHANGED <<listVars, garbage>> /\ SameFiles /\ thread[w].at = "post" /\ thread[w].task = "m2"
  BY AtWorker DEF PostLoad, SameFiles, TypeModels, At, WorkerOk
<1>2. Resting.at = "idle" /\ Resting.task = "none" /\ thread' = [thread EXCEPT ![w] = Resting]
  BY DEF PostLoad, Rest, Resting, Doing
<1>3. Alike(Resting, thread[w])
  BY <1>1, <1>2 DEF Alike, TellAts
<1>4. QED
  BY <1>1, <1>2, <1>3, WorkerQuiet DEF SameFiles

(* the steps of the thread of the frames                                   *)
LEMMA FrameGoesHeard ==
  ASSUME IInv, Heard,
         Release \/ UnrefHandle \/ OpenMap \/ LeaveMap \/ StartGc \/ PickModel \/ DeleteModel
         \/ ModelsEnd \/ PickInstance \/ FindInstance \/ DropDoodads \/ GcEnd
  PROVE  Heard'
<1> USE DEF IInv
<1>1. UNCHANGED <<listVars, file>> /\ garbage'.wmo = garbage.wmo
  <2>1. CASE DeleteModel
    BY <2>1, AtFrame DEF DeleteModel, TypeModels
  <2>2. CASE DropDoodads
    BY <2>2, AtFrame DEF DropDoodads, TypeModels
  <2>3. CASE Release \/ UnrefHandle \/ OpenMap \/ LeaveMap \/ StartGc \/ PickModel
             \/ ModelsEnd \/ PickInstance \/ FindInstance \/ GcEnd
    BY <2>3 DEF Release, UnrefHandle, OpenMap, LeaveMap, StartGc, PickModel, ModelsEnd, PickInstance,
       FindInstance, GcEnd
  <2>4. QED
    BY <2>1, <2>2, <2>3
<1>2. \E th : thread' = [thread EXCEPT ![Frame] = th] /\ FrameSettled(th)
  <2>1. CASE OpenMap
    <3>1. PICK i \in Maps : /\ thread' = [thread EXCEPT ![Frame] = Doing("open", "wmo", "none", i, 0)]
                            /\ stage[i] = "unborn"
      BY <2>1 DEF OpenMap
    <3>2. FrameSettled(Doing("open", "wmo", "none", i, 0))
      BY <3>1 DEF FrameSettled, Doing
    <3>3. QED
      BY <3>1, <3>2
  <2>2. CASE LeaveMap
    <3>1. PICK i \in Maps : /\ thread' = [thread EXCEPT ![Frame] = Doing("collect", "gc", "none", i, 0)]
                            /\ stage[i] = "placed"
      BY <2>2 DEF LeaveMap
    <3>2. FrameSettled(Doing("collect", "gc", "none", i, 0))
      BY <3>1 DEF FrameSettled, Doing
    <3>3. QED
      BY <3>1, <3>2
  <2>3. CASE UnrefHandle
    <3>1. PICK d \in Ids : d = IdOf[thread[Frame].i] /\ handle[d].inst \in Tiles
      BY <2>3, UnrefHeld DEF UnrefHandle, At
    <3>2. thread' = [thread EXCEPT ![Frame] = Doing("collect", "gc", "none", handle[d].inst, 0)]
          \/ thread' = [thread EXCEPT ![Frame] = Resting]
      BY <2>3, <3>1 DEF UnrefHandle, Rest
    <3>3. FrameSettled(Doing("collect", "gc", "none", handle[d].inst, 0)) /\ FrameSettled(Resting)
      BY <3>1 DEF FrameSettled, Resting, Doing
    <3>4. QED
      BY <3>2, <3>3
  <2>4. CASE FindInstance
    <3>1. PICK n \in DOMAIN list :
            /\ list[n] = thread[Frame].i
            /\ thread' = [thread EXCEPT ![Frame] = Doing("erase", None, "none", thread[Frame].i, n)]
      BY <2>4, AtFrame DEF FindInstance
    <3>2. FrameSettled(Doing("erase", None, "none", thread[Frame].i, n))
      BY <3>1 DEF FrameSettled, Doing
    <3>3. QED
      BY <3>1, <3>2
  <2>5. CASE Release \/ StartGc \/ PickModel \/ DeleteModel \/ ModelsEnd \/ PickInstance
             \/ DropDoodads \/ GcEnd
    <3>1. PICK th : thread' = [thread EXCEPT ![Frame] = th]
                    /\ th.at \in {"unref", "models", "delete", "buildings", "find", "idle"}
      BY <2>5, AtFrame DEF Release, StartGc, PickModel, DeleteModel, ModelsEnd, PickInstance,
         DropDoodads, GcEnd, Goto, Rest, Resting, Doing
    <3>2. FrameSettled(th)
      BY <3>1 DEF FrameSettled
    <3>3. QED
      BY <3>1, <3>2
  <2>6. QED
    BY <2>1, <2>2, <2>3, <2>4, <2>5
<1>3. PICK th : thread' = [thread EXCEPT ![Frame] = th] /\ FrameSettled(th)
  BY <1>2
<1>4. Base /\ SameFiles /\ UNCHANGED listVars
  BY <1>1 DEF SameFiles
<1>5. QED
  BY <1>1, <1>3, <1>4, FrameQuiet

-----------------------------------------------------------------------------
(* An instance enters the list.                                            *)

LEMMA EnlistIs ==
  ASSUME Base, Heard, NEW i \in Instances, stage[i] = "unborn", Enlist(i)
  PROVE  /\ \A n \in DOMAIN list' : \/ n \in DOMAIN list /\ list'[n] = list[n]
                                    \/ list'[n] = i /\ n \notin DOMAIN list
         /\ \A n \in DOMAIN list : n \in DOMAIN list' /\ list'[n] = list[n]
         /\ \E n \in DOMAIN list' : list'[n] = i
         /\ \A j \in Instances : stage'[j] = IF j = i THEN "made" ELSE stage[j]
         /\ UNCHANGED <<told, grouped, early>>
         /\ told[i] = 0
         /\ \A n \in DOMAIN list : list[n] # i
<1>1. list' = Append(list, i) /\ stage' = [stage EXCEPT ![i] = "made"] /\ UNCHANGED <<told, grouped, early>>
  BY DEF Enlist
<1>2. /\ Len(list') = Len(list) + 1 /\ DOMAIN list' = 1 .. Len(list') /\ list'[Len(list) + 1] = i
      /\ \A n \in 1 .. Len(list) : list'[n] = list[n]
  BY <1>1, ListIs, AppendProperties, LenProperties
<1>3. \A n \in DOMAIN list' : n \in DOMAIN list \/ n = Len(list) + 1
  BY <1>2, ListIs
<1>4. \A j \in Instances : stage'[j] = IF j = i THEN "made" ELSE stage[j]
  BY <1>1, AtFrame DEF TypeList
<1>5. \A n \in DOMAIN list : list[n] # i
  BY DEF Heard, ListKept, Enlisted
<1>6. Len(list) + 1 \in DOMAIN list' /\ Len(list) + 1 \notin DOMAIN list
  BY <1>2, ListIs
<1>7. told[i] = 0
  BY DEF Heard, Untold
<1>8. QED
  BY <1>1, <1>2, <1>3, <1>4, <1>5, <1>6, <1>7, ListIs

(* by a thread that has the mutex, and will give it its place              *)
LEMMA EnlistHeard ==
  ASSUME Base, Heard, NEW i \in Instances, stage[i] = "unborn", Enlist(i),
         NEW t \in Threads, "wmo" \in Held(thread[t]),
         t \in Workers => thread[t].task = "tile" /\ thread[t].at = "new",
         NEW th, thread' = [thread EXCEPT ![t] = th], th.i = i,
         IF t = Frame THEN th.at = "ask" /\ i \in Maps ELSE th.at = "place" /\ th.task = "tile" /\ i \in Tiles,
         UNCHANGED <<file, garbage>>
  PROVE  Heard'
<1>1. /\ \A n \in DOMAIN list' : \/ n \in DOMAIN list /\ list'[n] = list[n]
                                 \/ list'[n] = i /\ n \notin DOMAIN list
      /\ \A n \in DOMAIN list : n \in DOMAIN list' /\ list'[n] = list[n]
      /\ \E n \in DOMAIN list' : list'[n] = i
      /\ \A j \in Instances : stage'[j] = IF j = i THEN "made" ELSE stage[j]
      /\ UNCHANGED <<told, grouped, early>>
      /\ told[i] = 0
      /\ \A n \in DOMAIN list : list[n] # i
  BY EnlistIs
<1>2. thread'[t] = th /\ \A u \in Threads \ {t} : thread'[u] = thread[u]
  BY AtFrame
<1>3. \A j \in Instances : Enlisted(j)' <=> Enlisted(j) \/ j = i
  BY <1>1 DEF Enlisted
<1>4. \A n \in DOMAIN list : list[n] \in Instances /\ n \in Nat /\ n > 0
  BY ListIs
<1>5. FrameOk(thread[Frame])
  BY AtFrame
<1>6. ListKept'
  <2>1. \A n, p \in DOMAIN list' : list'[n] = list'[p] => n = p
    <3>1. list' = Append(list, i) /\ \A n \in DOMAIN list' : n \in DOMAIN list \/ n = Len(list) + 1
      <4>1. list' = Append(list, i) /\ DOMAIN list' = 1 .. Len(list) + 1
        BY ListIs, AppendProperties, LenProperties DEF Enlist
      <4>2. QED
        BY <4>1, ListIs
    <3>2. QED
      BY <1>1, <3>1 DEF Heard, ListKept
  <2>2. \A n \in DOMAIN list' : stage'[list'[n]] \in {"made", "placed", "collected"}
    BY <1>1, <1>4 DEF Heard, ListKept, Enlisted
  <2>3. \A j \in Instances : Enlisted(j)' => \E n \in DOMAIN list' : list'[n] = j
    BY <1>1, <1>3 DEF Heard, ListKept
  <2>4. thread'[Frame].at = "erase" => list'[thread'[Frame].pos] = thread'[Frame].i
    <3>1. CASE t = Frame
      BY <1>2, <3>1
    <3>2. CASE t # Frame
      BY <1>1, <1>2, <1>5, <3>2 DEF Heard, ListKept, FrameOk, Threads
    <3>3. QED
      BY <3>1, <3>2
  <2>5. QED
    BY <2>1, <2>2, <2>3, <2>4 DEF ListKept, Enlisted
<1>7. Settled'
  <2>1. ASSUME NEW w \in Workers, thread'[w].at = "place" PROVE stage'[thread'[w].i] = "made"
    <3>1. CASE w = t
      BY <1>1, <1>2, <3>1
    <3>2. CASE w # t
      <4>1. thread'[w] = thread[w] /\ thread[w].i \in Instances
        BY <1>2, <2>1, <3>2, AtWorker DEF Threads, WorkerOk, TileAts, Instances
      <4>2. QED
        BY <1>1, <2>1, <4>1 DEF Heard, Settled
    <3>3. QED
      BY <3>1, <3>2
  <2>2. ASSUME NEW j \in Tiles, stage'[j] = "made" PROVE \E w \in Workers : Places(w, j)'
    <3>1. CASE j = i
      BY <1>2, <3>1 DEF Places, Threads, Instances
    <3>2. CASE j # i
      <4>1. PICK w \in Workers : Places(w, j)
        BY <1>1, <2>2, <3>2 DEF Heard, Settled, Instances
      <4>2. w # t /\ w \in Threads
        BY <4>1 DEF Places, Threads
      <4>3. QED
        BY <1>2, <4>1, <4>2 DEF Places
    <3>3. QED
      BY <3>1, <3>2
  <2>4. /\ thread'[Frame].at = "open" => stage'[thread'[Frame].i] = "unborn"
        /\ thread'[Frame].at = "ask" => stage'[thread'[Frame].i] = "made"
        /\ thread'[Frame].at = "collect" /\ thread'[Frame].i \in Maps => stage'[thread'[Frame].i] = "placed"
    <3>1. CASE t = Frame
      BY <1>1, <1>2, <3>1
    <3>2. CASE t # Frame
      <4>1. thread'[Frame] = thread[Frame] /\ i \notin Maps
        BY <1>2, <3>2 DEF Threads
      <4>2. QED
        BY <1>1, <1>5, <4>1 DEF Heard, Settled, FrameOk, Instances
    <3>3. QED
      BY <3>1, <3>2
  <2>5. \A j \in garbage'.wmo : stage'[j] = "collected"
    <3>1. garbage.wmo \subseteq Instances
      BY AtFrame DEF TypeModels
    <3>2. QED
      BY <1>1, <3>1 DEF Heard, Settled
  <2>6. \A w \in Workers : thread'[w].task = "tile" /\ thread'[w].at \in TellAts =>
                           stage'[thread'[w].i] \notin {"unborn", "made"}
    <3>1. ASSUME NEW w \in Workers, thread'[w].task = "tile", thread'[w].at \in TellAts
          PROVE  thread'[w] = thread[w] /\ thread[w].i \in Instances
      <4>1. thread'[w] = thread[w]
        BY <1>2, <3>1 DEF TellAts, Threads
      <4>2. QED
        BY <3>1, <4>1, AtWorker DEF WorkerOk, Instances
    <3>2. QED
      BY <1>1, <3>1 DEF Heard, Settled
  <2>7. QED
    BY <2>1, <2>2, <2>4, <2>5, <2>6 DEF Settled
<1>8. \A w \in Workers : \/ thread'[w] = thread[w]
                         \/ w = t /\ thread'[w].task = "tile" /\ thread'[w].at = "place"
  BY <1>2 DEF Threads
<1>9. Phased'
  BY <1>8 DEF Heard, Phased, TellAts
<1>10. \A w \in Workers : thread'[w].task \in {"wmo", "group"} =>
         w # t /\ thread'[w] = thread[w] /\ thread[w].pos = 1
  BY <1>8, OthersWait DEF Heard
<1>11. \A n \in DOMAIN list' : told[list'[n]] = told[i] \/ \E p \in DOMAIN list : list'[n] = list[p] /\ n = p
  BY <1>1
<1>12. DOMAIN list' \subseteq Nat \ {0}
  BY ListIs, AppendProperties, LenProperties DEF Enlist
<1>13. Untold'
  <2>1. \A j \in Instances : stage'[j] = "unborn" => told'[j] = 0
    BY <1>1 DEF Heard, Untold
  <2>2. file'.wmo \in {"new", "asked"} => \A j \in Instances : Enlisted(j)' => told'[j] = 0
    BY <1>1, <1>3 DEF Heard, Untold
  <2>3. ASSUME NEW w \in Workers, NEW n \in DOMAIN list', thread'[w].task = "wmo"
        PROVE  told'[list'[n]] = IF n < thread'[w].pos THEN 1 ELSE 0
    <3>1. thread'[w] = thread[w] /\ thread[w].pos = 1 /\ n \in Nat \ {0}
      BY <1>10, <1>12, <2>3
    <3>2. told[list'[n]] = 0
      BY <1>1, <1>4, <2>3, <3>1 DEF Heard, Untold
    <3>3. QED
      BY <1>1, <3>1, <3>2
  <2>4. QED
    BY <2>1, <2>2, <2>3 DEF Untold
<1>14. \A j \in Instances : (OwnTells(j)' <=> OwnTells(j)) /\ (OwnGroups(j)' <=> OwnGroups(j))
  <2>1. \A w \in Workers : thread[w] # thread'[w] => thread[w].at = "new" /\ thread'[w].at = "place"
    BY <1>2, <1>8
  <2>2. QED
    BY <2>1 DEF OwnTells, OwnGroups
<1>15. ToldOnce'
  BY <1>1, <1>14 DEF Heard, ToldOnce, Instances
<1>16. GroupTold'
  BY <1>1, <1>3, <1>10, <1>12, <1>14 DEF Heard, GroupTold
<1>17. QED
  BY <1>6, <1>7, <1>9, <1>13, <1>15, <1>16 DEF Heard

LEMMA NewInstanceHeard ==
  ASSUME IInv, Heard, NEW w \in Workers, NewInstance(w)
  PROVE  Heard'
<1> USE DEF IInv
<1>1. PICK i \in Tiles : i = thread[w].i /\ At(w, "new") /\ thread[w].task = "tile"
  BY AtWorker DEF NewInstance, At, WorkerOk, TileAts
<1>2. i \in Instances /\ stage[i] = "unborn"
  BY <1>1 DEF Lives, Fresh, At, Instances
<1>3. "wmo" \in Held(thread[w]) /\ w \in Threads /\ w # Frame
  BY <1>1, AtWorker DEF At, Held, Needs, Locks
<1>4. Enlist(i) /\ UNCHANGED <<file, garbage>>
  BY <1>1 DEF NewInstance
<1>5. PICK th : th = Doing("place", "wmo", thread[w].task, thread[w].i, thread[w].pos)
                /\ thread' = [thread EXCEPT ![w] = th]
  BY AtWorker DEF NewInstance, Goto
<1>6. th.i = i /\ th.at = "place" /\ th.task = "tile"
  BY <1>1, <1>5 DEF Doing
<1>7. QED
  BY <1>1, <1>2, <1>3, <1>4, <1>5, <1>6, EnlistHeard DEF At

LEMMA NewMapInstanceHeard ==
  ASSUME IInv, Heard, NewMapInstance
  PROVE  Heard'
<1> USE DEF IInv
<1>1. PICK i \in Maps : i = thread[Frame].i /\ At(Frame, "open")
  BY AtFrame DEF NewMapInstance, At, FrameOk
<1>2. i \in Instances /\ stage[i] = "unborn"
  BY <1>1 DEF Heard, Settled, At, Instances
<1>3. "wmo" \in Held(thread[Frame]) /\ Frame \in Threads /\ Frame \notin Workers
  BY <1>1, AtFrame DEF At, Held, Needs, Locks
<1>4. Enlist(i) /\ UNCHANGED <<file, garbage>>
  BY <1>1 DEF NewMapInstance
<1>5. PICK th : th = Doing("ask", None, thread[Frame].task, thread[Frame].i, thread[Frame].pos)
                /\ thread' = [thread EXCEPT ![Frame] = th]
  BY AtFrame DEF NewMapInstance, Goto
<1>6. th.i = i /\ th.at = "ask"
  BY <1>1, <1>5 DEF Doing
<1>7. QED
  BY <1>1, <1>2, <1>3, <1>4, <1>5, <1>6, EnlistHeard

-----------------------------------------------------------------------------
(* An instance gets its place.                                             *)

(* what does not hear of it                                                *)
LEMMA PlacedHeard ==
  ASSUME Base, Heard, NEW i \in Instances, stage[i] = "made",
         \A j \in Instances : stage'[j] = IF j = i THEN "placed" ELSE stage[j],
         UNCHANGED <<list, told, grouped, early, garbage>>, file'.group = file.group,
         file'.wmo = file.wmo \/ (file.wmo = "new" /\ file'.wmo = "asked"),
         \A w \in Workers : \/ thread'[w] = thread[w]
                            \/ thread'[w].task \notin {"wmo", "group"} /\ thread'[w].at # "place",
         thread'[Frame].at # "erase" \/ thread'[Frame] = thread[Frame]
  PROVE  ListKept' /\ Untold' /\ \A j \in Instances : Enlisted(j)' <=> Enlisted(j)
<1>1. \A j \in Instances : Enlisted(j)' <=> Enlisted(j)
  BY DEF Enlisted
<1>2. \A n \in DOMAIN list : list[n] \in Instances
  BY ListIs
<1>3. ListKept'
  BY <1>1, <1>2 DEF Heard, ListKept, Enlisted
<1>4. Untold'
  <2>1. \A j \in Instances : stage'[j] = "unborn" => told'[j] = 0
    BY DEF Heard, Untold
  <2>2. file'.wmo \in {"new", "asked"} => \A j \in Instances : Enlisted(j)' => told'[j] = 0
    BY <1>1 DEF Heard, Untold
  <2>3. \A w \in Workers, n \in DOMAIN list' :
          thread'[w].task = "wmo" => told'[list'[n]] = IF n < thread'[w].pos THEN 1 ELSE 0
    BY DEF Heard, Untold
  <2>4. QED
    BY <2>1, <2>2, <2>3 DEF Untold
<1>5. QED
  BY <1>1, <1>3, <1>4

LEMMA AskedIs ==
  ASSUME TypeModels, NEW k \in {"wmo", "group", "m2"}
  PROVE  /\ \A l \in {"wmo", "group", "m2"} \ {k} : Asked(k)[l] = file[l]
         /\ Asked(k)[k] = IF file[k] = "new" THEN "asked" ELSE file[k]
  BY DEF TypeModels, Asked

LEMMA PlaceHeard ==
  ASSUME IInv, Heard, NEW w \in Workers, Place(w)
  PROVE  Heard'
<1> USE DEF IInv
<1>1. PICK i \in Tiles : i = thread[w].i /\ At(w, "place") /\ thread[w].task = "tile"
  BY AtWorker DEF Place, At, WorkerOk, TileAts
<1>2. i \in Instances /\ stage[i] = "made"
  BY <1>1 DEF Heard, Settled, At, Instances
<1>3. /\ \A j \in Instances : stage'[j] = IF j = i THEN "placed" ELSE stage[j]
      /\ UNCHANGED <<list, told, grouped, early, garbage>>
  BY <1>1, <1>2, AtWorker DEF Place, TypeList
<1>4. PICK th : /\ thread' = [thread EXCEPT ![w] = th]
                /\ IF file.wmo = "loaded"
                   THEN th.at = "doodad" /\ th.task = "tile" /\ th.i = i /\ th.wait = "m2" /\ file' = file
                   ELSE th.at = "idle" /\ th.task = "none" /\ file' = Asked("wmo")
  <2>1. CASE file.wmo = "loaded"
    <3>1. PICK th : th = Doing("doodad", "m2", thread[w].task, thread[w].i, thread[w].pos)
                    /\ thread' = [thread EXCEPT ![w] = th]
      BY <2>1, AtWorker DEF Place, ParentLoaded, Goto
    <3>2. th.at = "doodad" /\ th.task = "tile" /\ th.i = i /\ th.wait = "m2" /\ file' = file
      BY <1>1, <2>1, <3>1 DEF Doing, Place, ParentLoaded
    <3>3. QED
      BY <2>1, <3>1, <3>2
  <2>2. CASE file.wmo # "loaded"
    <3>1. thread' = [thread EXCEPT ![w] = Resting] /\ file' = Asked("wmo")
      BY <2>2 DEF Place, ParentLoaded, Rest
    <3>2. Resting.at = "idle" /\ Resting.task = "none"
      BY DEF Resting, Doing
    <3>3. QED
      BY <2>2, <3>1, <3>2
  <2>3. QED
    BY <2>1, <2>2
<1>5. thread'[w] = th /\ (\A v \in Workers \ {w} : thread'[v] = thread[v]) /\ thread'[Frame] = thread[Frame]
  BY <1>4, AtWorker, AtFrame DEF Threads
<1>6. /\ file'.group = file.group
      /\ file'.wmo = file.wmo \/ (file.wmo = "new" /\ file'.wmo = "asked")
      /\ file.wmo = "loaded" <=> file'.wmo = "loaded"
  BY <1>4, AtWorker, AskedIs
<1>7. ListKept' /\ Untold' /\ \A j \in Instances : Enlisted(j)' <=> Enlisted(j)
  BY <1>2, <1>3, <1>4, <1>5, <1>6, PlacedHeard
<1>8. Settled'
  <2>1. ASSUME NEW v \in Workers, thread'[v].at = "place" PROVE stage'[thread'[v].i] = "made"
    <3>1. v # w /\ thread'[v] = thread[v]
      BY <1>4, <1>5, <2>1
    <3>2. thread[v].i \in Instances /\ thread[v].i # i
      BY <1>1, <2>1, <3>1, AtWorker DEF WorkerOk, TileAts, Base, OneWorker, Instances
    <3>3. QED
      BY <1>3, <2>1, <3>1, <3>2 DEF Heard, Settled
  <2>2. ASSUME NEW j \in Tiles, stage'[j] = "made" PROVE \E v \in Workers : Places(v, j)'
    <3>1. j # i /\ stage[j] = "made"
      BY <1>3, <2>2 DEF Instances
    <3>2. PICK v \in Workers : Places(v, j)
      BY <3>1 DEF Heard, Settled
    <3>3. v # w
      BY <1>1, <3>1, <3>2 DEF Places
    <3>4. QED
      BY <1>5, <3>2, <3>3 DEF Places
  <2>3. FrameOk(thread[Frame]) /\ i \notin Maps
    BY AtFrame
  <2>4. /\ thread'[Frame].at = "open" => stage'[thread'[Frame].i] = "unborn"
        /\ thread'[Frame].at = "ask" => stage'[thread'[Frame].i] = "made"
        /\ thread'[Frame].at = "collect" /\ thread'[Frame].i \in Maps => stage'[thread'[Frame].i] = "placed"
    BY <1>3, <1>5, <2>3 DEF Heard, Settled, FrameOk, Instances
  <2>5. \A j \in garbage'.wmo : stage'[j] = "collected"
    <3>1. garbage.wmo \subseteq Instances
      BY AtFrame DEF TypeModels
    <3>2. QED
      BY <1>2, <1>3, <3>1 DEF Heard, Settled
  <2>6. ASSUME NEW v \in Workers, thread'[v].task = "tile", thread'[v].at \in TellAts
        PROVE  stage'[thread'[v].i] \notin {"unborn", "made"}
    <3>1. CASE v = w
      BY <1>2, <1>3, <1>4, <1>5, <2>6, <3>1 DEF TellAts
    <3>2. CASE v # w
      <4>1. thread'[v] = thread[v] /\ thread[v].i \in Instances
        BY <1>5, <2>6, <3>2, AtWorker DEF WorkerOk, Instances
      <4>2. QED
        BY <1>3, <2>6, <4>1 DEF Heard, Settled
    <3>3. QED
      BY <3>1, <3>2
  <2>7. QED
    BY <2>1, <2>2, <2>4, <2>5, <2>6 DEF Settled
<1>9. Phased'
  <2>1. file'.group # "new" => file'.wmo = "loaded"
    BY <1>6 DEF Heard, Phased
  <2>2. \A v \in Workers : thread'[v].task \in {"wmo", "group"} => thread'[v] = thread[v]
    BY <1>4, <1>5
  <2>3. \A v \in Workers : thread'[v].task \in {"wmo", "group"} => file'[thread'[v].task] = "loading"
    BY <1>6, <2>2 DEF Heard, Phased
  <2>4. \A v \in Workers : thread'[v].task = "tile" /\ thread'[v].at \in TellAts => file'.wmo = "loaded"
    <3>1. ASSUME NEW v \in Workers, thread'[v].task = "tile", thread'[v].at \in TellAts
          PROVE  file'.wmo = "loaded"
      <4>1. CASE v = w
        BY <1>4, <1>5, <1>6, <3>1, <4>1
      <4>2. CASE v # w
        BY <1>5, <1>6, <3>1, <4>2 DEF Heard, Phased
      <4>3. QED
        BY <4>1, <4>2
    <3>2. QED
      BY <3>1
  <2>5. QED
    BY <2>1, <2>2, <2>3, <2>4 DEF Heard, Phased
<1>10. \A j \in Instances : /\ OwnTells(j)' <=> OwnTells(j) \/ (j = i /\ file.wmo = "loaded")
                            /\ OwnGroups(j)' <=> OwnGroups(j)
  <2>1. thread[w].at = "place"
    BY <1>1 DEF At
  <2>2. QED
    BY <1>4, <1>5, <2>1 DEF OwnTells, OwnGroups
<1>11. ToldOnce'
  <2>1. ASSUME NEW j \in Tiles, stage'[j] \in {"unborn", "made"} \/ OwnTells(j)'
        PROVE  told'[j] <= 1 /\ (told'[j] = 1 => j \in early')
    <3>1. stage[j] \in {"unborn", "made"} \/ OwnTells(j)
      BY <1>2, <1>3, <1>10, <2>1 DEF Instances
    <3>2. QED
      BY <1>3, <3>1 DEF Heard, ToldOnce
  <2>2. ASSUME NEW j \in Tiles, stage'[j] \in {"placed", "collected"}, file'.wmo = "loaded"
        PROVE  told'[j] > 0 \/ OwnTells(j)'
    BY <1>3, <1>6, <1>10, <2>2 DEF Heard, ToldOnce, Instances
  <2>3. QED
    BY <1>3, <2>1, <2>2 DEF Heard, ToldOnce
<1>12. GroupTold'
  <2>1. \A v \in Workers, n \in DOMAIN list' :
          thread'[v].task = "group" /\ n < thread'[v].pos => grouped'[list'[n]]
    BY <1>3, <1>4, <1>5 DEF Heard, GroupTold
  <2>2. file'.group = "loaded" =>
          \A j \in Instances : Enlisted(j)' /\ told'[j] > 0 => grouped'[j] \/ OwnGroups(j)'
    BY <1>3, <1>6, <1>7, <1>10 DEF Heard, GroupTold
  <2>3. QED
    BY <2>1, <2>2 DEF GroupTold
<1>13. QED
  BY <1>7, <1>8, <1>9, <1>11, <1>12 DEF Heard

LEMMA PlaceMapHeard ==
  ASSUME IInv, Heard, PlaceMap
  PROVE  Heard'
<1> USE DEF IInv
<1>1. PICK i \in Maps : i = thread[Frame].i /\ At(Frame, "ask")
  BY AtFrame DEF PlaceMap, At, FrameOk
<1>2. i \in Instances /\ stage[i] = "made"
  BY <1>1 DEF Heard, Settled, At, Instances
<1>3. /\ \A j \in Instances : stage'[j] = IF j = i THEN "placed" ELSE stage[j]
      /\ UNCHANGED <<list, told, grouped, early, garbage>> /\ file' = Asked("wmo")
  BY <1>1, <1>2, AtFrame DEF PlaceMap, TypeList
<1>4. thread'[Frame].at = "idle" /\ \A v \in Workers : thread'[v] = thread[v]
  BY AtFrame DEF PlaceMap, Rest, Resting, Doing, Threads
<1>5. /\ file'.group = file.group
      /\ file'.wmo = file.wmo \/ (file.wmo = "new" /\ file'.wmo = "asked")
      /\ file.wmo = "loaded" <=> file'.wmo = "loaded"
  BY <1>3, AtFrame, AskedIs
<1>6. ListKept' /\ Untold' /\ \A j \in Instances : Enlisted(j)' <=> Enlisted(j)
  BY <1>2, <1>3, <1>4, <1>5, PlacedHeard
<1>7. \A j \in Tiles : stage'[j] = stage[j]
  BY <1>1, <1>3 DEF Instances
<1>8. Settled'
  <2>1. \A v \in Workers : thread[v].at = "place" => thread[v].i \in Tiles
    BY AtWorker DEF WorkerOk, TileAts
  <2>2. \A v \in Workers : thread'[v].at = "place" => stage'[thread'[v].i] = "made"
    BY <1>4, <1>7, <2>1 DEF Heard, Settled
  <2>3. \A j \in Tiles : stage'[j] = "made" => \E v \in Workers : Places(v, j)'
    BY <1>4, <1>7 DEF Heard, Settled, Places
  <2>4. \A j \in garbage'.wmo : stage'[j] = "collected"
    <3>1. garbage.wmo \subseteq Instances
      BY AtFrame DEF TypeModels
    <3>2. QED
      BY <1>2, <1>3, <3>1 DEF Heard, Settled
  <2>5. \A v \in Workers : thread[v].task = "tile" => thread[v].i \in Tiles
    BY AtWorker DEF WorkerOk
  <2>6. \A v \in Workers : thread'[v].task = "tile" /\ thread'[v].at \in TellAts =>
                           stage'[thread'[v].i] \notin {"unborn", "made"}
    BY <1>4, <1>7, <2>5 DEF Heard, Settled
  <2>7. QED
    BY <1>4, <2>2, <2>3, <2>4, <2>6 DEF Settled
<1>9. Phased'
  BY <1>4, <1>5 DEF Heard, Phased
<1>10. \A j \in Instances : (OwnTells(j)' <=> OwnTells(j)) /\ (OwnGroups(j)' <=> OwnGroups(j))
  BY <1>4 DEF OwnTells, OwnGroups
<1>11. ToldOnce'
  BY <1>3, <1>5, <1>7, <1>10 DEF Heard, ToldOnce, Instances
<1>12. GroupTold'
  <2>1. \A v \in Workers, n \in DOMAIN list' :
          thread'[v].task = "group" /\ n < thread'[v].pos => grouped'[list'[n]]
    BY <1>3, <1>4 DEF Heard, GroupTold
  <2>2. QED
    BY <1>3, <1>5, <1>6, <1>10, <2>1 DEF Heard, GroupTold
<1>13. QED
  BY <1>6, <1>8, <1>9, <1>11, <1>12 DEF Heard

-----------------------------------------------------------------------------
(* An instance is told.                                                    *)

(* where a thread that ends a call goes                                    *)
LEMMA ReturnGoes ==
  ASSUME Base, NEW w \in Workers, thread[w].at \in TellAts, NEW S, Return(w, S)
  PROVE  \E th : /\ thread' = [thread EXCEPT ![w] = th]
                 /\ IF thread[w].task = "tile" THEN th.task = "none" /\ th.at = "idle"
                    ELSE /\ th.at = "walk" /\ th.task = thread[w].task /\ th.pos = thread[w].pos + 1
                         /\ th.wait # "wmo"
<1>1. CASE thread[w].task = "tile"
  <2>1. thread' = [thread EXCEPT ![w] = Resting]
    BY <1>1 DEF Return, Rest
  <2>2. Resting.task = "none" /\ Resting.at = "idle"
    BY DEF Resting, Doing
  <2>3. QED
    BY <1>1, <2>1, <2>2
<1>2. CASE thread[w].task # "tile"
  <2>1. PICK th : th = Doing("walk", None, thread[w].task, None, thread[w].pos + 1)
                  /\ thread' = [thread EXCEPT ![w] = th]
    BY <1>2, AtWorker DEF Return
  <2>2. th.at = "walk" /\ th.task = thread[w].task /\ th.pos = thread[w].pos + 1 /\ th.wait # "wmo"
    BY <2>1 DEF Doing, Locks
  <2>3. QED
    BY <1>2, <2>1, <2>2
<1>3. QED
  BY <1>1, <1>2

(* what a call changes nothing of                                          *)
LEMMA ToldKeeps ==
  ASSUME Base, Heard, NEW w \in Workers, thread[w].at \in TellAts,
         NEW th, thread' = [thread EXCEPT ![w] = th], th.at # "place",
         th.task \in {"none", "tile"} \/ (th.task = thread[w].task /\ th.wait # "wmo"),
         th.task = "tile" => thread[w].task = "tile" /\ th.i = thread[w].i,
         th.task = "wmo" => th.at # "group", th.task = "group" => th.at \in {"walk", "group"},
         UNCHANGED <<list, stage, file, garbage>>
  PROVE  ListKept' /\ Settled' /\ Phased'
<1>1. thread'[w] = th /\ (\A v \in Workers \ {w} : thread'[v] = thread[v]) /\ thread'[Frame] = thread[Frame]
  BY AtWorker, AtFrame DEF Threads
<1>2. ListKept'
  BY <1>1 DEF Heard, ListKept, Enlisted
<1>3. Settled'
  <2>1. \A i \in Tiles, v \in Workers : Places(v, i) => Places(v, i)'
    BY <1>1 DEF Places, TellAts
  <2>2. \A v \in Workers : thread'[v].task = "tile" /\ thread'[v].at \in TellAts =>
                           stage'[thread'[v].i] \notin {"unborn", "made"}
    BY <1>1 DEF Heard, Settled
  <2>3. QED
    BY <1>1, <2>1, <2>2 DEF Heard, Settled
<1>4. Phased'
  <2>1. \A v \in Workers : thread'[v].task \in {"wmo", "group"} =>
          thread[v].task = thread'[v].task /\ (thread'[v].wait = "wmo" => thread'[v] = thread[v])
    BY <1>1
  <2>2. \A v \in Workers : /\ thread'[v].task = "wmo" => thread'[v].at # "group"
                           /\ thread'[v].task = "group" => thread'[v].at \in {"walk", "group"}
                           /\ thread'[v].task = "tile" /\ thread'[v].at \in TellAts => file.wmo = "loaded"
    BY <1>1 DEF Heard, Phased
  <2>3. QED
    BY <2>1, <2>2 DEF Heard, Phased
<1>5. QED
  BY <1>2, <1>3, <1>4

LEMMA TellInstanceHeard ==
  ASSUME IInv, Heard, fault = NoFault, NEW w \in Workers, TellInstance(w)
  PROVE  Heard'
<1> USE DEF IInv
<1>1. PICK i \in Instances : i = Subject(w) /\ At(w, "groups") /\ thread[w].at \in TellAts
  BY SubjectIs DEF TellInstance, At, TellAts
<1>2. /\ \A j \in Instances : told'[j] = IF j = i THEN told[i] + 1 ELSE told[j]
      /\ \A j \in Instances : j # i => grouped'[j] = grouped[j]
      /\ early' = IF stage[i] = "made" THEN early \cup {i} ELSE early
      /\ UNCHANGED <<list, stage, file, garbage>>
      /\ told \in [Instances -> Nat]
  BY <1>1, AtWorker DEF TellInstance, TypeList
<1>3. thread[w].task \in {"tile", "wmo"}
  BY <1>1, AtWorker DEF WorkerOk, Heard, Phased, At
<1>4. \A n \in DOMAIN list : list[n] \in Instances
  BY ListIs
<1>5. CASE thread[w].task = "wmo"
  <2>1. /\ file.wmo = "loading" /\ file.group = "new"
        /\ \A v \in Workers : thread[v].task = "wmo" => v = w
        /\ \A v \in Workers : thread[v].task # "group"
        /\ \A v \in Workers : thread[v].task = "tile" => thread[v].at \notin TellAts
    BY <1>5 DEF Heard, Phased
  <2>2. PICK th : /\ thread' = [thread EXCEPT ![w] = th]
                  /\ th.at = "walk" /\ th.task = "wmo" /\ th.pos = thread[w].pos + 1 /\ th.wait # "wmo"
    BY <1>1, <1>5, <2>1, ReturnGoes DEF TellInstance
  <2>3. thread[w].pos \in DOMAIN list /\ i = list[thread[w].pos] /\ thread[w].pos \in Nat
    BY <1>1, <1>5, AtWorker, ListIs DEF WorkerOk, Subject
  <2>4. told[i] = 0 /\ Enlisted(i) /\ \A n \in DOMAIN list : list[n] = i => n = thread[w].pos
    BY <1>5, <2>3 DEF Heard, Untold, ListKept
  <2>5. ListKept' /\ Settled' /\ Phased'
    BY <1>1, <1>2, <1>5, <2>2, ToldKeeps
  <2>6. thread'[w] = th /\ \A v \in Workers \ {w} : thread'[v] = thread[v]
    BY <2>2, AtWorker DEF Threads
  <2>7. Untold'
    <3>1. \A j \in Instances : stage'[j] = "unborn" => told'[j] = 0
      BY <1>2, <2>4 DEF Heard, Untold, Enlisted
    <3>2. ASSUME NEW v \in Workers, NEW n \in DOMAIN list', thread'[v].task = "wmo"
          PROVE  told'[list'[n]] = IF n < thread'[v].pos THEN 1 ELSE 0
      <4>1. v = w /\ n \in DOMAIN list /\ n \in Nat
        BY <1>2, <2>1, <2>6, <3>2, ListIs
      <4>2. CASE n = thread[w].pos
        BY <1>2, <2>2, <2>3, <2>4, <2>6, <4>1, <4>2
      <4>3. CASE n # thread[w].pos
        <5>1. list[n] # i /\ told[list[n]] = IF n < thread[w].pos THEN 1 ELSE 0
          BY <1>5, <2>4, <4>1, <4>3 DEF Heard, Untold
        <5>2. n < thread[w].pos <=> n < thread[w].pos + 1
          BY <2>3, <4>1, <4>3
        <5>3. QED
          BY <1>2, <1>4, <2>2, <2>6, <4>1, <5>1, <5>2
      <4>4. QED
        BY <4>2, <4>3
    <3>3. QED
      BY <1>2, <2>1, <3>1, <3>2 DEF Untold
  <2>8. \A j \in Instances : ~OwnTells(j) /\ ~OwnTells(j)'
    <3>1. \A v \in Workers : thread'[v].task = "tile" => thread'[v] = thread[v]
      BY <2>2, <2>6
    <3>2. QED
      BY <2>1, <3>1 DEF OwnTells, TellAts
  <2>9. ToldOnce'
    <3>1. \A j \in Instances : told'[j] <= 2 /\ (told'[j] = 2 => j \in early')
      BY <1>2, <2>4 DEF Heard, ToldOnce
    <3>2. \A j \in Maps : told'[j] <= 1
      BY <1>2, <2>4 DEF Heard, ToldOnce, Instances
    <3>3. \A j \in Tiles : stage'[j] \in {"unborn", "made"} \/ OwnTells(j)' =>
            told'[j] <= 1 /\ (told'[j] = 1 => j \in early')
      BY <1>2, <2>4, <2>8 DEF Heard, ToldOnce, Enlisted, Instances
    <3>4. QED
      BY <1>2, <2>1, <3>1, <3>2, <3>3 DEF ToldOnce
  <2>10. GroupTold'
    BY <1>2, <2>1, <2>2, <2>6 DEF GroupTold
  <2>11. QED
    BY <2>5, <2>7, <2>9, <2>10 DEF Heard
<1>6. CASE thread[w].task = "tile"
  <2>1. /\ i = thread[w].i /\ i \in Tiles /\ file.wmo = "loaded" /\ OwnTells(i)
        /\ \A v \in Workers : thread[v].task # "wmo"
    <3>1. i = thread[w].i /\ i \in Tiles
      BY <1>1, <1>6, AtWorker DEF Subject, WorkerOk
    <3>2. OwnTells(i)
      BY <1>1, <1>6, <3>1 DEF OwnTells, At
    <3>3. file.wmo = "loaded"
      BY <1>1, <1>6 DEF Heard, Phased
    <3>4. \A v \in Workers : thread[v].task # "wmo"
      BY <3>3 DEF Heard, Phased
    <3>5. QED
      BY <3>1, <3>2, <3>3, <3>4
  <2>2. PICK th : /\ thread' = [thread EXCEPT ![w] = th]
                  /\ IF file.group = "loaded" THEN th.at = "group" /\ th.task = "tile" /\ th.i = i
                                              ELSE th.at = "idle" /\ th.task = "none"
    <3>1. CASE file.group = "loaded"
      <4>1. PICK th : th = Doing("group", "m2", thread[w].task, thread[w].i, thread[w].pos)
                      /\ thread' = [thread EXCEPT ![w] = th]
        BY <3>1, AtWorker DEF TellInstance, Goto
      <4>2. th.at = "group" /\ th.task = "tile" /\ th.i = i
        BY <1>6, <2>1, <4>1 DEF Doing
      <4>3. QED
        BY <3>1, <4>1, <4>2
    <3>2. CASE file.group # "loaded"
      BY <1>1, <1>6, <3>2, ReturnGoes DEF TellInstance
    <3>3. QED
      BY <3>1, <3>2
  <2>3. ListKept' /\ Settled' /\ Phased'
    BY <1>1, <1>2, <1>6, <2>1, <2>2, ToldKeeps
  <2>4. thread'[w] = th /\ \A v \in Workers \ {w} : thread'[v] = thread[v]
    BY <2>2, AtWorker DEF Threads
  <2>5. \A v \in Workers : thread'[v].task \in {"wmo", "group"} =>
          v # w /\ thread'[v] = thread[v] /\ thread[v].task = "group" /\ thread[v].pos = 1
    <3>1. "wmo" \in Held(thread[w]) /\ w \in Threads
      BY <1>1, TellerHas, AtWorker
    <3>2. \A v \in Workers : thread'[v].task \in {"wmo", "group"} => v # w /\ thread'[v] = thread[v]
      BY <2>2, <2>4
    <3>3. QED
      BY <2>1, <3>1, <3>2, OthersWait DEF Heard
  <2>6. stage[i] \notin {"unborn", "made"}
    BY <1>1, <1>6, <2>1 DEF Heard, Settled
  <2>7. Untold'
    BY <1>2, <2>1, <2>5, <2>6 DEF Heard, Untold
  <2>8. /\ \A j \in Instances : OwnTells(j)' <=> OwnTells(j) /\ j # i
        /\ \A j \in Instances : OwnGroups(j) => OwnGroups(j)'
        /\ file.group = "loaded" => OwnGroups(i)'
    <3>1. \A v \in Workers : thread[v].task = "tile" /\ thread[v].i = i => v = w
      BY <1>6, <2>1 DEF Base, OneWorker
    <3>2. thread[w].at = "groups"
      BY <1>1 DEF At
    <3>3. \A j \in Instances : OwnTells(j)' <=> OwnTells(j) /\ j # i
      BY <1>6, <2>1, <2>2, <2>4, <3>1, <3>2 DEF OwnTells
    <3>4. QED
      BY <2>2, <2>4, <3>2, <3>3 DEF OwnGroups
  <2>9. ToldOnce'
    <3>1. told[i] <= 1 /\ (told[i] = 1 => i \in early) /\ told[i] \in Nat /\ i \notin Maps
      BY <1>2, <2>1 DEF Heard, ToldOnce
    <3>2. told'[i] \in Nat /\ told'[i] > 0 /\ told'[i] <= 2 /\ (told'[i] = 2 => i \in early') /\ early \subseteq early'
      BY <1>2, <3>1
    <3>3. \A j \in Instances : j # i => told'[j] = told[j] /\ (j \in early => j \in early')
      BY <1>2, <3>2
    <3>4. \A j \in Instances : told'[j] <= 2 /\ (told'[j] = 2 => j \in early')
      BY <3>2, <3>3 DEF Heard, ToldOnce
    <3>5. \A j \in Maps : told'[j] <= 1
      BY <3>1, <3>3 DEF Heard, ToldOnce, Instances
    <3>6. \A j \in Tiles : stage'[j] \in {"unborn", "made"} \/ OwnTells(j)' =>
            told'[j] <= 1 /\ (told'[j] = 1 => j \in early')
      BY <1>2, <2>6, <2>8, <3>3 DEF Heard, ToldOnce, Instances
    <3>7. file'.wmo = "loaded" =>
            \A j \in Tiles : stage'[j] \in {"placed", "collected"} => told'[j] > 0 \/ OwnTells(j)'
      BY <1>2, <2>8, <3>2, <3>3 DEF Heard, ToldOnce, Instances
    <3>8. QED
      BY <3>4, <3>5, <3>6, <3>7 DEF ToldOnce
  <2>10. GroupTold'
    <3>1. \A v \in Workers, n \in DOMAIN list' :
            thread'[v].task = "group" /\ n < thread'[v].pos => grouped'[list'[n]]
      BY <1>2, <2>5, ListIs
    <3>2. \A j \in Instances : Enlisted(j)' <=> Enlisted(j)
      BY <1>2 DEF Enlisted
    <3>3. file'.group = "loaded" =>
            \A j \in Instances : Enlisted(j)' /\ told'[j] > 0 => grouped'[j] \/ OwnGroups(j)'
      BY <1>2, <2>8, <3>2 DEF Heard, GroupTold
    <3>4. QED
      BY <3>1, <3>3 DEF GroupTold
  <2>11. QED
    BY <2>3, <2>7, <2>9, <2>10 DEF Heard
<1>7. QED
  BY <1>3, <1>5, <1>6

LEMMA TellGroupHeard ==
  ASSUME IInv, Heard, fault = NoFault, NEW w \in Workers, TellGroup(w)
  PROVE  Heard'
<1> USE DEF IInv
<1>1. PICK i \in Instances : i = Subject(w) /\ At(w, "group") /\ thread[w].at \in TellAts
  BY SubjectIs DEF TellGroup, At, TellAts
<1>2. /\ \A j \in Instances : grouped'[j] = IF j = i THEN TRUE ELSE grouped[j]
      /\ UNCHANGED <<list, stage, told, early, file, garbage>>
  BY <1>1, AtWorker DEF TellGroup, TypeList
<1>3. thread[w].task \in {"tile", "group"}
  BY <1>1, AtWorker DEF WorkerOk, Heard, Phased, At
<1>4. PICK th : /\ thread' = [thread EXCEPT ![w] = th]
                /\ IF thread[w].task = "tile" THEN th.task = "none" /\ th.at = "idle"
                   ELSE /\ th.at = "walk" /\ th.task = thread[w].task /\ th.pos = thread[w].pos + 1
                        /\ th.wait # "wmo"
  BY <1>1, ReturnGoes DEF TellGroup
<1>5. ListKept' /\ Settled' /\ Phased'
  BY <1>1, <1>2, <1>3, <1>4, ToldKeeps
<1>6. thread'[w] = th /\ \A v \in Workers \ {w} : thread'[v] = thread[v]
  BY <1>4, AtWorker DEF Threads
<1>7. Untold'
  <2>1. \A v \in Workers : thread'[v].task = "wmo" => thread'[v] = thread[v]
    BY <1>3, <1>4, <1>6
  <2>2. QED
    BY <1>2, <2>1 DEF Heard, Untold, Enlisted
<1>8. /\ \A j \in Instances : OwnTells(j)' <=> OwnTells(j)
      /\ \A j \in Instances : OwnGroups(j) /\ (thread[w].task = "tile" => j # i) => OwnGroups(j)'
  <2>1. thread[w].at = "group" /\ (thread[w].task = "tile" => i = thread[w].i)
    BY <1>1 DEF At, Subject
  <2>2. QED
    BY <1>3, <1>4, <1>6, <2>1 DEF OwnTells, OwnGroups
<1>9. ToldOnce'
  BY <1>2, <1>8 DEF Heard, ToldOnce, Instances
<1>10. GroupTold'
  <2>1. ASSUME NEW v \in Workers, NEW n \in DOMAIN list, thread'[v].task = "group", n < thread'[v].pos
        PROVE  grouped'[list[n]]
    <3>1. list[n] \in Instances /\ n \in Nat
      BY ListIs
    <3>2. CASE v = w
      <4>1. thread[w].task = "group" /\ thread'[v].pos = thread[w].pos + 1 /\ thread[w].pos \in Nat
            /\ i = list[thread[w].pos]
        BY <1>1, <1>3, <1>4, <1>6, <2>1, <3>2, AtWorker DEF Subject, ThreadType
      <4>2. n < thread[w].pos \/ n = thread[w].pos
        BY <2>1, <3>1, <4>1
      <4>3. QED
        BY <1>2, <3>1, <4>1, <4>2 DEF Heard, GroupTold
    <3>3. CASE v # w
      BY <1>2, <1>6, <2>1, <3>1, <3>3 DEF Heard, GroupTold
    <3>4. QED
      BY <3>2, <3>3
  <2>2. ASSUME NEW j \in Instances, file.group = "loaded", Enlisted(j), told[j] > 0
        PROVE  grouped'[j] \/ OwnGroups(j)'
    <3>1. grouped[j] \/ OwnGroups(j)
      BY <2>2 DEF Heard, GroupTold
    <3>2. QED
      BY <1>2, <1>8, <3>1
  <2>3. \A j \in Instances : Enlisted(j)' <=> Enlisted(j)
    BY <1>2 DEF Enlisted
  <2>4. QED
    BY <1>2, <2>1, <2>2, <2>3 DEF GroupTold
<1>11. QED
  BY <1>5, <1>7, <1>9, <1>10 DEF Heard

-----------------------------------------------------------------------------
(* A load begins and ends.                                                 *)

(* what such a step leaves alone                                           *)
LEMMA LoadKeeps ==
  ASSUME Base, Heard, NEW w \in Workers, thread[w].at \in {"idle", "walk"},
         thread[w].task # "tile", NEW th, thread' = [thread EXCEPT ![w] = th], th.at \in {"idle", "walk"},
         th.task # "tile",
         UNCHANGED <<listVars, garbage>>
  PROVE  /\ ListKept' /\ Settled' /\ UNCHANGED <<list, stage, told, grouped, early>>
         /\ thread'[w] = th /\ (\A v \in Workers \ {w} : thread'[v] = thread[v])
         /\ \A i \in Instances : (OwnTells(i)' <=> OwnTells(i)) /\ (OwnGroups(i)' <=> OwnGroups(i))
<1>1. thread'[w] = th /\ (\A v \in Workers \ {w} : thread'[v] = thread[v]) /\ thread'[Frame] = thread[Frame]
  BY AtWorker, AtFrame DEF Threads
<1>2. UNCHANGED <<list, stage, told, grouped, early>>
  BY DEF listVars
<1>3. ListKept'
  BY <1>1, <1>2 DEF Heard, ListKept, Enlisted
<1>4. Settled'
  <2>1. \A i \in Tiles, v \in Workers : Places(v, i) => Places(v, i)'
    BY <1>1 DEF Places
  <2>2. \A v \in Workers : thread'[v].task = "tile" /\ thread'[v].at \in TellAts =>
                           stage'[thread'[v].i] \notin {"unborn", "made"}
    BY <1>1, <1>2 DEF Heard, Settled
  <2>3. \A v \in Workers : thread'[v].at = "place" => stage'[thread'[v].i] = "made"
    BY <1>1, <1>2 DEF Heard, Settled
  <2>4. QED
    BY <1>1, <1>2, <2>1, <2>2, <2>3 DEF Heard, Settled
<1>5. \A i \in Instances : (OwnTells(i)' <=> OwnTells(i)) /\ (OwnGroups(i)' <=> OwnGroups(i))
  BY <1>1 DEF OwnTells, OwnGroups
<1>6. QED
  BY <1>1, <1>2, <1>3, <1>4, <1>5

LEMMA TakeTaskHeard ==
  ASSUME IInv, Heard, NEW w \in Workers, TakeTask(w)
  PROVE  Heard'
<1> USE DEF IInv
<1>1. PICK k \in {"wmo", "group", "m2"} :
        /\ At(w, "idle") /\ file[k] = "asked" /\ file' = [file EXCEPT ![k] = "loading"]
        /\ thread' = [thread EXCEPT ![w] = IF k = "m2" THEN Doing("post", "m2", k, None, 0)
                                                       ELSE Doing("walk", "wmo", k, None, 1)]
        /\ UNCHANGED <<listVars, garbage>>
  BY DEF TakeTask
<1>2. thread[w].at = "idle" /\ thread[w].task = "none"
  BY <1>1, AtWorker DEF At, WorkerOk, Resting, Doing
<1>3. \A l \in {"wmo", "group", "m2"} : file'[l] = IF l = k THEN "loading" ELSE file[l]
  BY <1>1, AtWorker DEF TypeModels
<1>4. CASE k = "m2"
  <2>1. PICK th : th = Doing("post", "m2", k, None, 0) /\ thread' = [thread EXCEPT ![w] = th]
    BY <1>1, <1>4
  <2>2. th.at = "post" /\ th.task = "m2"
    BY <1>4, <2>1 DEF Doing
  <2>3. Alike(th, thread[w])
    BY <1>2, <2>2 DEF Alike, TellAts
  <2>4. SameFiles
    BY <1>3, <1>4 DEF SameFiles
  <2>5. QED
    BY <1>1, <2>1, <2>3, <2>4, WorkerQuiet
<1>5. CASE k \in {"wmo", "group"}
  <2>1. PICK th : th = Doing("walk", "wmo", k, None, 1) /\ thread' = [thread EXCEPT ![w] = th]
    BY <1>1, <1>5
  <2>2. th.at = "walk" /\ th.task = k /\ th.pos = 1 /\ th.wait = "wmo"
    BY <2>1 DEF Doing
  <2>3. /\ ListKept' /\ Settled' /\ UNCHANGED <<list, stage, told, grouped, early>>
        /\ thread'[w] = th /\ (\A v \in Workers \ {w} : thread'[v] = thread[v])
        /\ \A i \in Instances : (OwnTells(i)' <=> OwnTells(i)) /\ (OwnGroups(i)' <=> OwnGroups(i))
    <3>1. /\ Base /\ thread[w].at \in {"idle", "walk"} /\ thread[w].task # "tile"
          /\ th.at \in {"idle", "walk"} /\ th.task # "tile" /\ UNCHANGED <<listVars, garbage>>
      BY <1>1, <1>2, <1>5, <2>2
    <3>2. QED
      BY <2>1, <3>1, LoadKeeps
  <2>4. /\ file.wmo = "loaded" <=> file'.wmo = "loaded"
        /\ file.group = "loaded" <=> file'.group = "loaded"
        /\ file.group = "new" <=> file'.group = "new"
    BY <1>1, <1>3
  <2>5. \A v \in Workers : thread[v].task # k
    BY <1>1, <1>5 DEF Heard, Phased
  <2>6. Phased'
    <3>1. \A v \in Workers : v # w /\ thread[v].task \in {"wmo", "group"} =>
            thread[v].task # k /\ file'[thread[v].task] = "loading"
      BY <1>3, <2>5 DEF Heard, Phased
    <3>2. \A v \in Workers : thread'[v].task \in {"wmo", "group"} => file'[thread'[v].task] = "loading"
      BY <1>3, <1>5, <2>2, <2>3, <3>1
    <3>3. \A u, v \in Workers : thread'[u].task \in {"wmo", "group"} /\ thread'[v].task = thread'[u].task => u = v
      BY <2>2, <2>3, <2>5 DEF Heard, Phased
    <3>4. \A v \in Workers : thread'[v].task \in {"wmo", "group"} /\ thread'[v].wait = "wmo" => thread'[v].pos = 1
      BY <2>2, <2>3 DEF Heard, Phased
    <3>5. /\ file'.group # "new" => file'.wmo = "loaded"
          /\ \A v \in Workers : thread'[v].task = "wmo" => thread'[v].at # "group"
          /\ \A v \in Workers : thread'[v].task = "group" => thread'[v].at \in {"walk", "group"}
          /\ \A v \in Workers : thread'[v].task = "tile" /\ thread'[v].at \in TellAts => file'.wmo = "loaded"
      BY <1>5, <2>2, <2>3, <2>4 DEF Heard, Phased
    <3>6. QED
      BY <3>2, <3>3, <3>4, <3>5 DEF Phased
  <2>7. Untold'
    <3>1. ASSUME NEW v \in Workers, NEW n \in DOMAIN list', thread'[v].task = "wmo"
          PROVE  told'[list'[n]] = IF n < thread'[v].pos THEN 1 ELSE 0
      <4>1. CASE v = w
        <5>1. k = "wmo" /\ n \in Nat \ {0} /\ list[n] \in Instances /\ Enlisted(list[n])
          BY <2>2, <2>3, <3>1, <4>1, ListIs DEF Heard, ListKept
        <5>2. told[list[n]] = 0
          BY <1>1, <5>1 DEF Heard, Untold
        <5>3. QED
          BY <2>2, <2>3, <4>1, <5>1, <5>2
      <4>2. CASE v # w
        BY <2>3, <3>1, <4>2 DEF Heard, Untold
      <4>3. QED
        BY <4>1, <4>2
    <3>2. file'.wmo \in {"new", "asked"} => file.wmo \in {"new", "asked"}
      BY <1>3
    <3>3. QED
      BY <2>3, <3>1, <3>2 DEF Heard, Untold, Enlisted
  <2>8. ToldOnce'
    BY <2>3, <2>4 DEF Heard, ToldOnce, Instances
  <2>9. GroupTold'
    <3>1. ASSUME NEW v \in Workers, NEW n \in DOMAIN list', thread'[v].task = "group", n < thread'[v].pos
          PROVE  grouped'[list'[n]]
      <4>1. v # w
        BY <2>2, <2>3, <3>1, ListIs
      <4>2. QED
        BY <2>3, <3>1, <4>1 DEF Heard, GroupTold
    <3>2. QED
      BY <2>3, <2>4, <3>1 DEF Heard, GroupTold, Enlisted
  <2>10. QED
    BY <2>3, <2>6, <2>7, <2>8, <2>9 DEF Heard
<1>6. QED
  BY <1>4, <1>5

LEMMA WalkEndHeard ==
  ASSUME IInv, Heard, NEW w \in Workers, WalkEnd(w)
  PROVE  Heard'
<1> USE DEF IInv
<1>1. /\ thread[w].at = "walk" /\ thread[w].task \in {"wmo", "group"}
      /\ thread[w].pos \in Nat /\ thread[w].pos > Len(list)
  BY AtWorker DEF WalkEnd, Walked, At, WorkerOk, TileAts, TellAts, ThreadType
<1>2. PICK th : th.at = "idle" /\ th.task = "none" /\ thread' = [thread EXCEPT ![w] = th]
  BY DEF WalkEnd, Rest, Resting, Doing
<1>3. /\ ListKept' /\ Settled' /\ UNCHANGED <<list, stage, told, grouped, early>>
      /\ thread'[w] = th /\ (\A v \in Workers \ {w} : thread'[v] = thread[v])
      /\ \A i \in Instances : (OwnTells(i)' <=> OwnTells(i)) /\ (OwnGroups(i)' <=> OwnGroups(i))
  BY <1>1, <1>2, LoadKeeps DEF WalkEnd
<1>4. \A n \in DOMAIN list : n < thread[w].pos /\ list[n] \in Instances
  BY <1>1, ListIs
<1>5. \A v \in Workers : thread'[v].task \in {"wmo", "group", "tile"} => v # w /\ thread'[v] = thread[v]
  BY <1>2, <1>3
<1>6. CASE thread[w].task = "wmo"
  <2>1. file'.wmo = "loaded" /\ file'.group = "asked"
    BY <1>6, AtWorker DEF WalkEnd, TypeModels
  <2>2. \A v \in Workers : thread'[v].task \notin {"wmo", "group"}
    BY <1>5, <1>6 DEF Heard, Phased
  <2>3. Phased'
    BY <2>1, <2>2 DEF Phased
  <2>4. Untold'
    BY <1>3, <2>1, <2>2 DEF Heard, Untold
  <2>5. ASSUME NEW i \in Tiles, stage[i] \in {"placed", "collected"} PROVE told[i] > 0
    <3>1. PICK n \in DOMAIN list : list[n] = i
      BY <2>5 DEF Heard, ListKept, Enlisted, Instances
    <3>2. told[i] = 1
      BY <1>4, <1>6, <3>1 DEF Heard, Untold
    <3>3. QED
      BY <3>2
  <2>6. ToldOnce'
    BY <1>3, <2>5 DEF Heard, ToldOnce, Instances
  <2>7. GroupTold'
    BY <2>1, <2>2 DEF GroupTold
  <2>8. QED
    BY <1>3, <2>3, <2>4, <2>6, <2>7 DEF Heard
<1>7. CASE thread[w].task = "group"
  <2>1. file'.wmo = file.wmo /\ file'.group = "loaded" /\ file.wmo = "loaded"
    <3>1. file.group = "loading"
      BY <1>7 DEF Heard, Phased
    <3>2. QED
      BY <1>7, <3>1, AtWorker DEF WalkEnd, TypeModels, Heard, Phased
  <2>2. \A v \in Workers : thread'[v].task \notin {"wmo", "group"}
    BY <1>5, <1>7, <2>1 DEF Heard, Phased
  <2>3. Phased'
    BY <2>1, <2>2 DEF Phased
  <2>4. Untold'
    BY <1>3, <2>1, <2>2 DEF Heard, Untold
  <2>5. ToldOnce'
    BY <1>3, <2>1 DEF Heard, ToldOnce, Instances
  <2>6. ASSUME NEW i \in Instances, Enlisted(i) PROVE grouped[i]
    <3>1. PICK n \in DOMAIN list : list[n] = i
      BY <2>6 DEF Heard, ListKept
    <3>2. QED
      BY <1>4, <1>7, <3>1 DEF Heard, GroupTold
  <2>7. GroupTold'
    BY <1>3, <2>2, <2>6 DEF GroupTold, Enlisted
  <2>8. QED
    BY <1>3, <2>3, <2>4, <2>5, <2>7 DEF Heard
<1>8. QED
  BY <1>1, <1>6, <1>7

-----------------------------------------------------------------------------
(* An instance is collected, and deleted.                                  *)

LEMMA CollectHeard ==
  ASSUME IInv, Heard, Collect
  PROVE  Heard'
<1> USE DEF IInv
<1>1. PICK i \in Instances : i = thread[Frame].i /\ At(Frame, "collect")
  BY AtFrame DEF Collect, At, FrameOk
<1>2. stage[i] = "placed"
  <2>1. CASE i \in Maps
    BY <1>1, <2>1 DEF Heard, Settled, At
  <2>2. CASE i \in Tiles
    <3>1. IdOf[i] \in Ids /\ handle[IdOf[i]].refs = 0 /\ handle[IdOf[i]].inst = i
      BY <1>1, <2>2 DEF Counts, Nobodys, At
    <3>2. stage[i] \in {"made", "placed"}
      BY <1>1, <3>1 DEF Lives, Alive
    <3>3. ASSUME NEW w \in Workers, Places(w, i) PROVE FALSE
      <4>1. Holds(i)
        BY <3>3, AtWorker DEF Places, Holds, WorkerOk, TileAts
      <4>2. i \in Holders(IdOf[i]) /\ Cardinality(Holders(IdOf[i])) = 0
        BY <2>2, <3>1, <4>1 DEF Holders, Counts, Counted
      <4>3. QED
        BY <3>1, <4>2, HoldersFinite, Zenon
    <3>4. QED
      BY <2>2, <3>2, <3>3 DEF Heard, Settled
  <2>3. QED
    BY <1>1, <2>1, <2>2 DEF Instances
<1>3. /\ \A j \in Instances : stage'[j] = IF j = i THEN "collected" ELSE stage[j]
      /\ UNCHANGED <<list, told, grouped, early, file>>
  BY <1>1, AtFrame DEF Collect, TypeList
<1>4. garbage'.wmo = garbage.wmo \cup {i}
  BY <1>1, AtFrame DEF Collect, TypeModels
<1>5. thread'[Frame].at = "idle" /\ \A v \in Workers : thread'[v] = thread[v]
  BY AtFrame DEF Collect, Rest, Resting, Doing, Threads
<1>6. \A j \in Instances : /\ Enlisted(j)' <=> Enlisted(j)
                           /\ (OwnTells(j)' <=> OwnTells(j)) /\ (OwnGroups(j)' <=> OwnGroups(j))
  BY <1>2, <1>3, <1>5 DEF Enlisted, OwnTells, OwnGroups
<1>7. \A n \in DOMAIN list : list[n] \in Instances
  BY ListIs
<1>8. ListKept'
  <2>1. \A n \in DOMAIN list' : stage'[list'[n]] \in {"made", "placed", "collected"}
    BY <1>3, <1>7 DEF Heard, ListKept, Enlisted
  <2>2. QED
    BY <1>3, <1>5, <1>6, <2>1 DEF Heard, ListKept, Enlisted
<1>9. Settled'
  <2>1. \A v \in Workers : thread[v].task = "tile" => thread[v].i \in Instances
    BY AtWorker DEF WorkerOk, Instances
  <2>2. \A v \in Workers : thread[v].at = "place" => thread[v].task = "tile"
    BY AtWorker DEF WorkerOk, TileAts
  <2>3. \A v \in Workers : thread'[v].at = "place" => stage'[thread'[v].i] = "made"
    BY <1>2, <1>3, <1>5, <2>1, <2>2 DEF Heard, Settled
  <2>4. \A j \in Tiles : stage'[j] = "made" => \E v \in Workers : Places(v, j)'
    BY <1>3, <1>5 DEF Heard, Settled, Places, Instances
  <2>5. \A v \in Workers : thread'[v].task = "tile" /\ thread'[v].at \in TellAts =>
                           stage'[thread'[v].i] \notin {"unborn", "made"}
    BY <1>3, <1>5, <2>1 DEF Heard, Settled
  <2>6. \A j \in garbage'.wmo : stage'[j] = "collected"
    <3>1. garbage.wmo \subseteq Instances
      BY AtFrame DEF TypeModels
    <3>2. QED
      BY <1>3, <1>4, <3>1 DEF Heard, Settled
  <2>7. QED
    BY <1>5, <2>3, <2>4, <2>5, <2>6 DEF Settled
<1>10. Phased'
  BY <1>3, <1>5 DEF Heard, Phased
<1>11. Untold'
  BY <1>3, <1>5, <1>6 DEF Heard, Untold
<1>12. ToldOnce'
  BY <1>2, <1>3, <1>6 DEF Heard, ToldOnce, Instances
<1>13. GroupTold'
  BY <1>3, <1>5, <1>6 DEF Heard, GroupTold
<1>14. QED
  BY <1>8, <1>9, <1>10, <1>11, <1>12, <1>13 DEF Heard

(* a list without one of its places                                        *)
LEMMA RemovedIs ==
  ASSUME NEW S, NEW s \in Seq(S), NEW p \in DOMAIN s
  PROVE  /\ DOMAIN RemoveAt(s, p) = 1 .. Len(s) - 1
         /\ \A n \in 1 .. p - 1 : RemoveAt(s, p)[n] = s[n]
         /\ \A n \in p .. Len(s) - 1 : RemoveAt(s, p)[n] = s[n + 1]
<1>1. Len(s) \in Nat /\ p \in 1 .. Len(s)
  BY LenProperties
<1> DEFINE a == SubSeq(s, 1, p - 1)
           b == SubSeq(s, p + 1, Len(s))
<1>2. a \in Seq(S) /\ Len(a) = p - 1 /\ \A n \in 1 .. p - 1 : a[n] = s[n]
  BY <1>1, SubSeqProperties
<1>3. b \in Seq(S) /\ Len(b) = Len(s) - p /\ \A n \in 1 .. Len(s) - p : b[n] = s[p + n]
  BY <1>1, SubSeqProperties
<1>4. RemoveAt(s, p) = a \o b
  BY DEF RemoveAt
<1> HIDE DEF a, b
<1>5. /\ Len(a \o b) = Len(a) + Len(b) /\ a \o b \in Seq(S)
      /\ \A n \in 1 .. Len(a) + Len(b) : (a \o b)[n] = IF n <= Len(a) THEN a[n] ELSE b[n - Len(a)]
  BY <1>2, <1>3, ConcatProperties
<1>6. DOMAIN (a \o b) = 1 .. Len(s) - 1
  <2>1. DOMAIN (a \o b) = 1 .. Len(a \o b)
    BY <1>5, LenProperties
  <2>2. (p - 1) + (Len(s) - p) = Len(s) - 1
    BY <1>1
  <2>3. Len(a \o b) = Len(s) - 1
    BY <1>2, <1>3, <1>5, <2>2
  <2>4. QED
    BY <2>1, <2>3
<1>7. ASSUME NEW n \in p .. Len(s) - 1 PROVE (a \o b)[n] = s[n + 1]
  <2>1. /\ n - (p - 1) \in 1 .. Len(s) - p /\ ~(n <= p - 1)
        /\ n \in 1 .. (p - 1) + (Len(s) - p)
    BY <1>1
  <2>2. n \in 1 .. Len(a) + Len(b) /\ ~(n <= Len(a)) /\ n - Len(a) = n - (p - 1)
    BY <1>2, <1>3, <2>1
  <2>3. (a \o b)[n] = b[n - (p - 1)] /\ b[n - (p - 1)] = s[p + (n - (p - 1))]
    BY <1>3, <1>5, <2>1, <2>2
  <2>4. p + (n - (p - 1)) = n + 1
    BY <1>1
  <2>5. QED
    BY <2>3, <2>4
<1>8. ASSUME NEW n \in 1 .. p - 1 PROVE (a \o b)[n] = s[n]
  <2>1. n <= p - 1 /\ n \in 1 .. (p - 1) + (Len(s) - p)
    BY <1>1
  <2>2. n <= Len(a) /\ n \in 1 .. Len(a) + Len(b)
    BY <1>2, <1>3, <2>1
  <2>3. QED
    BY <1>2, <1>5, <2>2
<1>9. QED
  BY <1>4, <1>6, <1>7, <1>8

LEMMA EraseIs ==
  ASSUME Base, NEW p \in DOMAIN list, list' = RemoveAt(list, p),
         \A m, n \in DOMAIN list : list[m] = list[n] => m = n
  PROVE  /\ \A n \in DOMAIN list' : n \in Nat \ {0} /\ \E m \in DOMAIN list : m # p /\ list'[n] = list[m]
         /\ \A m, n \in DOMAIN list' : list'[m] = list'[n] => m = n
         /\ \A m \in DOMAIN list : m # p => \E n \in DOMAIN list' : list'[n] = list[m]
<1>1. list \in Seq(Instances) /\ Len(list) \in Nat /\ DOMAIN list = 1 .. Len(list) /\ p \in 1 .. Len(list)
  BY ListIs
<1>2. /\ DOMAIN list' = 1 .. Len(list) - 1
      /\ \A n \in 1 .. p - 1 : list'[n] = list[n]
      /\ \A n \in p .. Len(list) - 1 : list'[n] = list[n + 1]
  BY <1>1, RemovedIs
<1>3. ASSUME NEW n \in DOMAIN list'
      PROVE  \E m \in DOMAIN list : m = (IF n < p THEN n ELSE n + 1) /\ m # p /\ list'[n] = list[m]
  <2>1. CASE n < p
    BY <1>1, <1>2, <2>1
  <2>2. CASE ~(n < p)
    <3>1. n + 1 \in DOMAIN list /\ n + 1 # p /\ n \in p .. Len(list) - 1
      BY <1>1, <1>2, <2>2
    <3>2. QED
      BY <1>2, <2>2, <3>1
  <2>3. QED
    BY <2>1, <2>2
<1>4. \A m, n \in DOMAIN list' : list'[m] = list'[n] => m = n
  <2>1. ASSUME NEW m \in DOMAIN list', NEW n \in DOMAIN list', list'[m] = list'[n] PROVE m = n
    <3>1. PICK k \in DOMAIN list : k = (IF m < p THEN m ELSE m + 1) /\ list'[m] = list[k]
      BY <1>3
    <3>2. PICK l \in DOMAIN list : l = (IF n < p THEN n ELSE n + 1) /\ list'[n] = list[l]
      BY <1>3
    <3>3. k = l
      BY <2>1, <3>1, <3>2
    <3>4. m \in Nat /\ n \in Nat /\ p \in Nat
      BY <1>1, <1>2
    <3>5. QED
      BY <3>1, <3>2, <3>3, <3>4
  <2>2. QED
    BY <2>1
<1>5. ASSUME NEW m \in DOMAIN list, m # p PROVE \E n \in DOMAIN list' : list'[n] = list[m]
  <2>1. CASE m < p
    BY <1>1, <1>2, <2>1
  <2>2. CASE ~(m < p)
    <3>1. m - 1 \in p .. Len(list) - 1 /\ m - 1 \in DOMAIN list' /\ (m - 1) + 1 = m
      BY <1>1, <1>2, <1>5, <2>2
    <3>2. list'[m - 1] = list[m]
      BY <1>2, <3>1
    <3>3. QED
      BY <3>1, <3>2
  <2>3. QED
    BY <2>1, <2>2
<1>6. \A n \in DOMAIN list' : n \in Nat \ {0}
  BY <1>1, <1>2
<1>7. QED
  BY <1>3, <1>4, <1>5, <1>6

LEMMA EraseInstanceHeard ==
  ASSUME IInv, Heard, fault = NoFault, fault' = NoFault, EraseInstance
  PROVE  Heard'
<1> USE DEF IInv
<1>1. PICK i \in Instances, p \in DOMAIN list :
        i = thread[Frame].i /\ p = thread[Frame].pos /\ list[p] = i /\ i \in garbage.wmo
  BY AtFrame DEF EraseInstance, At, FrameOk, Heard, ListKept
<1>2. /\ \A j \in Instances : stage'[j] = IF j = i THEN "freed" ELSE stage[j]
      /\ UNCHANGED <<told, grouped, early, file>> /\ list' = RemoveAt(list, p)
  BY <1>1, AtFrame DEF EraseInstance, TypeList
<1>3. garbage'.wmo = garbage.wmo \ {i} /\ stage[i] = "collected"
  BY <1>1, AtFrame DEF EraseInstance, TypeModels, Heard, Settled
<1>4. thread'[Frame].at \in {"buildings", "drop"} /\ \A v \in Workers : thread'[v] = thread[v]
  BY AtFrame DEF EraseInstance, Goto, Doing, Threads
<1>5. /\ \A n \in DOMAIN list' : n \in Nat \ {0} /\ \E m \in DOMAIN list : m # p /\ list'[n] = list[m]
      /\ \A m, n \in DOMAIN list' : list'[m] = list'[n] => m = n
      /\ \A m \in DOMAIN list : m # p => \E n \in DOMAIN list' : list'[n] = list[m]
  BY <1>2, EraseIs DEF Heard, ListKept
<1>6. ASSUME NEW w \in Workers, thread[w].task \in {"wmo", "group"} PROVE thread[w].pos = 1
  <2>1. ~InList(w)
    BY DEF EraseInstance, NoFault
  <2>2. owner["wmo"] # w
    BY <1>6, <2>1 DEF InList
  <2>3. "wmo" \notin Held(thread[w])
    BY <2>2 DEF Base, Owned, Threads, Locks
  <2>4. thread[w].wait = "wmo"
    BY <1>6, <2>3, WalkerHas
  <2>5. QED
    BY <1>6, <2>4 DEF Heard, Phased
<1>7. \A n \in DOMAIN list : list[n] \in Instances
  BY ListIs
<1>8. ASSUME NEW n \in DOMAIN list'
      PROVE  \E m \in DOMAIN list : m # p /\ list'[n] = list[m] /\ list[m] # i /\ stage'[list'[n]] = stage[list[m]]
  BY <1>1, <1>2, <1>5, <1>7 DEF Heard, ListKept
<1>9. \A j \in Instances : Enlisted(j)' <=> Enlisted(j) /\ j # i
  BY <1>2 DEF Enlisted
<1>10. ListKept'
  <2>1. \A n \in DOMAIN list' : stage'[list'[n]] \in {"made", "placed", "collected"}
    BY <1>8 DEF Heard, ListKept, Enlisted
  <2>2. ASSUME NEW j \in Instances, Enlisted(j)' PROVE \E n \in DOMAIN list' : list'[n] = j
    <3>1. PICK m \in DOMAIN list : list[m] = j
      BY <1>9, <2>2 DEF Heard, ListKept
    <3>2. m # p
      BY <1>1, <1>9, <2>2, <3>1
    <3>3. QED
      BY <1>5, <3>1, <3>2
  <2>3. QED
    BY <1>4, <1>5, <2>1, <2>2 DEF ListKept, Enlisted
<1>11. Settled'
  <2>1. \A v \in Workers : thread[v].task = "tile" => thread[v].i \in Instances
    BY AtWorker DEF WorkerOk, Instances
  <2>2. \A v \in Workers : thread[v].at = "place" => thread[v].task = "tile"
    BY AtWorker DEF WorkerOk, TileAts
  <2>3. \A v \in Workers : thread'[v].at = "place" => stage'[thread'[v].i] = "made"
    BY <1>2, <1>3, <1>4, <2>1, <2>2 DEF Heard, Settled
  <2>4. \A j \in Tiles : stage'[j] = "made" => \E v \in Workers : Places(v, j)'
    BY <1>2, <1>4 DEF Heard, Settled, Places, Instances
  <2>5. \A v \in Workers : thread'[v].task = "tile" /\ thread'[v].at \in TellAts =>
                           stage'[thread'[v].i] \notin {"unborn", "made"}
    BY <1>2, <1>4, <2>1 DEF Heard, Settled
  <2>6. \A j \in garbage'.wmo : stage'[j] = "collected"
    <3>1. garbage.wmo \subseteq Instances
      BY AtFrame DEF TypeModels
    <3>2. QED
      BY <1>2, <1>3, <3>1 DEF Heard, Settled
  <2>7. QED
    BY <1>4, <2>3, <2>4, <2>5, <2>6 DEF Settled
<1>12. Phased'
  BY <1>2, <1>4 DEF Heard, Phased
<1>13. Untold'
  <2>1. \A j \in Instances : stage'[j] = "unborn" => told'[j] = 0
    BY <1>2 DEF Heard, Untold
  <2>2. file'.wmo \in {"new", "asked"} => \A j \in Instances : Enlisted(j)' => told'[j] = 0
    BY <1>2, <1>9 DEF Heard, Untold
  <2>3. ASSUME NEW v \in Workers, NEW n \in DOMAIN list', thread'[v].task = "wmo"
        PROVE  told'[list'[n]] = IF n < thread'[v].pos THEN 1 ELSE 0
    <3>1. thread'[v].pos = 1 /\ thread[v].pos = 1 /\ thread[v].task = "wmo" /\ n \in Nat \ {0}
      BY <1>4, <1>5, <1>6, <2>3
    <3>2. PICK m \in DOMAIN list : list'[n] = list[m] /\ m \in Nat \ {0}
      BY <1>5, ListIs
    <3>3. told[list[m]] = 0
      BY <3>1, <3>2 DEF Heard, Untold
    <3>4. QED
      BY <1>2, <3>1, <3>2, <3>3
  <2>4. QED
    BY <2>1, <2>2, <2>3 DEF Untold
<1>14. \A j \in Instances : (OwnTells(j)' <=> OwnTells(j)) /\ (OwnGroups(j)' <=> OwnGroups(j))
  BY <1>4 DEF OwnTells, OwnGroups
<1>15. ToldOnce'
  BY <1>2, <1>3, <1>14 DEF Heard, ToldOnce, Instances
<1>16. GroupTold'
  <2>1. \A v \in Workers, n \in DOMAIN list' : thread'[v].task = "group" => ~(n < thread'[v].pos)
    BY <1>4, <1>5, <1>6
  <2>2. QED
    BY <1>2, <1>9, <1>14, <2>1 DEF Heard, GroupTold
<1>17. QED
  BY <1>10, <1>11, <1>12, <1>13, <1>15, <1>16 DEF Heard

-----------------------------------------------------------------------------
(* The doodads, wherever they are, are told of their model.                *)

Lit(s) == \A n \in DOMAIN s : s[n] > 0

LEMMA LitAppend ==
  ASSUME NEW s \in Seq(Nat), Lit(s), NEW k \in Nat, k > 0
  PROVE  Lit(Append(s, k))
<1>1. /\ DOMAIN s = 1 .. Len(s) /\ Len(s) \in Nat
      /\ DOMAIN Append(s, k) = 1 .. Len(s) + 1
      /\ Append(s, k)[Len(s) + 1] = k /\ \A n \in 1 .. Len(s) : Append(s, k)[n] = s[n]
  BY AppendProperties, LenProperties
<1>2. ASSUME NEW n \in 1 .. Len(s) + 1 PROVE Append(s, k)[n] > 0
  <2>1. n \in 1 .. Len(s) \/ n = Len(s) + 1
    BY <1>1
  <2>2. QED
    BY <1>1, <2>1 DEF Lit
<1>3. QED
  BY <1>1, <1>2 DEF Lit

LEMMA LitLast ==
  ASSUME NEW s \in Seq(Nat), Lit(s)
  PROVE  Lit(LastTold(s))
<1>1. \A n \in DOMAIN s : s[n] \in Nat
  BY ElementOfSeq, LenProperties
<1>2. DOMAIN LastTold(s) = DOMAIN s /\ \A n \in DOMAIN s : LastTold(s)[n] \in {s[n], s[n] + 1}
  BY DEF LastTold
<1>3. QED
  BY <1>1, <1>2 DEF Lit

LEMMA LitTail ==
  ASSUME NEW s \in Seq(Nat), s # <<>>, Lit(s)
  PROVE  Lit(Tail(s))
<1>1. /\ Len(Tail(s)) = Len(s) - 1 /\ DOMAIN s = 1 .. Len(s) /\ Len(s) \in Nat
      /\ DOMAIN Tail(s) = 1 .. Len(s) - 1
      /\ \A n \in 1 .. Len(s) - 1 : Tail(s)[n] = s[n + 1]
  BY HeadTailProperties, LenProperties
<1>2. ASSUME NEW n \in 1 .. Len(s) - 1 PROVE Tail(s)[n] > 0
  <2>1. n + 1 \in 1 .. Len(s)
    BY <1>1
  <2>2. QED
    BY <1>1, <2>1 DEF Lit
<1>3. QED
  BY <1>1, <1>2 DEF Lit

LEMMA ModelChange ==
  ASSUME TypeModels, ModelTold, NEW i \in Instances, NEW s,
         doodads' = [doodads EXCEPT ![i] = s], file.m2 = "loaded" => Lit(s),
         file'.m2 = "loaded" => file.m2 = "loaded"
  PROVE  ModelTold'
<1>1. \A j \in Instances : doodads'[j] = IF j = i THEN s ELSE doodads[j]
  BY DEF TypeModels
<1>2. QED
  BY <1>1 DEF ModelTold, Lit

LEMMA ModelNext ==
  ASSUME IInv, ModelTold, [Next]_vars
  PROVE  ModelTold'
<1> USE DEF IInv
<1>1. TypeModels /\ Garbage /\ FrameOk(thread[Frame])
  BY AtFrame
<1>2. \A i \in Instances : doodads[i] \in Seq(Nat) /\ \A n \in DOMAIN doodads[i] : doodads[i][n] \in Nat
  <2>1. \A i \in Instances : doodads[i] \in Seq(Nat)
    BY <1>1 DEF TypeModels
  <2>2. QED
    BY <2>1, ElementOfSeq, LenProperties
<1>3. CASE UNCHANGED doodads /\ (file'.m2 = "loaded" => file.m2 = "loaded")
  BY <1>3 DEF ModelTold
<1>4. ASSUME NEW w \in Workers, fault = NoFault, NewDoodad(w) PROVE ModelTold'
  <2>1. PICK i \in Instances : i = Subject(w)
    BY <1>4, SubjectIs DEF NewDoodad, At, TellAts
  <2>2. PICK k \in {0, 1} : k = IF file.m2 = "loaded" THEN 1 ELSE 0
    OBVIOUS
  <2>3. doodads' = [doodads EXCEPT ![i] = Append(doodads[i], k)] /\ file' = file
    BY <1>4, <2>1, <2>2 DEF NewDoodad
  <2>4. file.m2 = "loaded" => Lit(Append(doodads[i], k))
    BY <1>2, <2>2, LitAppend DEF ModelTold, Lit
  <2>5. QED
    BY <1>1, <2>3, <2>4, ModelChange
<1>5. ASSUME NEW w \in Workers, fault = NoFault, SettleDoodad(w) PROVE ModelTold'
  <2>1. PICK i \in Instances : i = Subject(w)
    BY <1>5, SubjectIs DEF SettleDoodad, At, TellAts
  <2>2. CASE file.m2 = "loaded"
    <3>1. doodads' = [doodads EXCEPT ![i] = LastTold(doodads[i])] /\ file' = file
      BY <1>5, <2>1, <2>2 DEF SettleDoodad
    <3>2. Lit(LastTold(doodads[i]))
      BY <1>2, <2>2, LitLast DEF ModelTold, Lit
    <3>3. QED
      BY <1>1, <3>1, <3>2, ModelChange
  <2>3. CASE file.m2 # "loaded"
    <3>1. doodads' = doodads /\ file'.m2 # "loaded"
      BY <1>1, <1>5, <2>3, AskedIs DEF SettleDoodad
    <3>2. QED
      BY <3>1 DEF ModelTold
  <2>4. QED
    BY <2>2, <2>3
<1>6. ASSUME NEW w \in Workers, PostLoad(w) PROVE ModelTold'
  <2>1. \A i \in Instances : doodads'[i] = [n \in DOMAIN doodads[i] |-> doodads[i][n] + 1]
    BY <1>6 DEF PostLoad
  <2>2. ASSUME NEW i \in Instances, NEW n \in DOMAIN doodads'[i] PROVE doodads'[i][n] > 0
    <3>1. n \in DOMAIN doodads[i] /\ doodads'[i][n] = doodads[i][n] + 1
      BY <2>1, <2>2
    <3>2. QED
      BY <1>2, <3>1
  <2>3. QED
    BY <2>2 DEF ModelTold
<1>7. CASE DeleteModel
  <2>1. PICK i \in Instances : i = thread[Frame].i /\ doodads[i] # <<>>
    BY <1>1, <1>7 DEF DeleteModel, At, FrameOk, Garbage
  <2>2. doodads' = [doodads EXCEPT ![i] = Tail(doodads[i])] /\ file' = file
    BY <1>7, <2>1 DEF DeleteModel
  <2>3. file.m2 = "loaded" => Lit(Tail(doodads[i]))
    BY <1>2, <2>1, LitTail DEF ModelTold, Lit
  <2>4. QED
    BY <1>1, <2>2, <2>3, ModelChange
<1>8. ASSUME NEW w \in Workers, Place(w) \/ TakeTask(w) \/ WalkEnd(w) PROVE ModelTold'
  <2>1. UNCHANGED doodads
    BY <1>8 DEF Place, TakeTask, WalkEnd
  <2>2. file'.m2 = "loaded" => file.m2 = "loaded"
    <3>1. CASE Place(w)
      BY <1>1, <3>1, AskedIs DEF Place
    <3>2. CASE TakeTask(w) \/ WalkEnd(w)
      BY <1>1, <3>2 DEF TakeTask, WalkEnd, TypeModels
    <3>3. QED
      BY <1>8, <3>1, <3>2
  <2>3. QED
    BY <1>3, <2>1, <2>2
<1>9. CASE PlaceMap
  BY <1>1, <1>3, <1>9, AskedIs DEF PlaceMap
<1>10. ASSUME NEW w \in Workers, LoadTile(w) \/ RefHandle(w) \/ NewInstance(w) \/ TellInstance(w)
                                 \/ TellGroup(w) \/ WalkOn(w)
       PROVE  ModelTold'
  BY <1>3, <1>10 DEF LoadTile, RefHandle, NewInstance, TellInstance, TellGroup, WalkOn
<1>11. ASSUME NEW t \in Threads, Lock(t) PROVE ModelTold'
  BY <1>3, <1>11 DEF Lock
<1>12. CASE Release \/ OpenMap \/ LeaveMap \/ UnrefHandle \/ Collect \/ NewMapInstance \/ StartGc
            \/ PickModel
  BY <1>3, <1>12 DEF Release, OpenMap, LeaveMap, UnrefHandle, Collect, NewMapInstance, StartGc, PickModel
<1>13. CASE ModelsEnd \/ PickInstance \/ FindInstance \/ EraseInstance \/ DropDoodads \/ GcEnd
  BY <1>3, <1>13 DEF ModelsEnd, PickInstance, FindInstance, EraseInstance, DropDoodads, GcEnd
<1>14. CASE UNCHANGED vars
  BY <1>3, <1>14 DEF vars
<1>15. QED
  BY <1>4, <1>5, <1>6, <1>7, <1>8, <1>9, <1>10, <1>11, <1>12, <1>13, <1>14, NextCases

-----------------------------------------------------------------------------
(* The invariant of what is told, until something is undefined, and what   *)
(* that can be.                                                            *)

ToldInv == HeardInv /\ ModelTold /\ FaultsKnown

LEMMA HeardInit == Init => ToldInv
<1> SUFFICES ASSUME Init PROVE ToldInv
  OBVIOUS
<1>1. Resting.at = "idle" /\ Resting.task = "none"
  BY DEF Resting, Doing
<1>2. \A t \in Threads : thread[t] = Resting
  BY DEF Init
<1>3. \A w \in Workers : w \in Threads
  BY DEF Threads
<1>4. Frame \in Threads
  BY DEF Threads
<1>5. \A i \in Instances : /\ stage[i] = "unborn" /\ told[i] = 0 /\ doodads[i] = <<>>
                           /\ ~OwnTells(i)
  BY <1>1, <1>2, <1>3 DEF Init, OwnTells
<1>6. ListKept
  BY <1>1, <1>2, <1>4, <1>5 DEF Init, ListKept, Enlisted
<1>7. Settled
  BY <1>1, <1>2, <1>3, <1>4, <1>5 DEF Init, Settled, TellAts, Instances
<1>8. Phased
  BY <1>1, <1>2, <1>3 DEF Init, Phased, TellAts
<1>9. Untold /\ GroupTold
  BY <1>1, <1>2, <1>3, <1>5 DEF Init, Untold, GroupTold
<1>10. ToldOnce
  BY <1>5 DEF Init, ToldOnce, Instances
<1>11. ModelTold /\ FaultsKnown
  BY DEF Init, ModelTold, FaultsKnown, NoFault
<1>12. QED
  BY <1>6, <1>7, <1>8, <1>9, <1>10, <1>11 DEF ToldInv, HeardInv, Heard

LEMMA HeardNext ==
  ASSUME IInv, HeardInv, [Next]_vars
  PROVE  HeardInv'
<1> SUFFICES ASSUME fault' = NoFault PROVE Heard'
  BY DEF HeardInv
<1>1. Base
  BY DEF IInv
<1>2. CASE UNCHANGED vars
  BY <1>2 DEF vars, HeardInv, Heard, ListKept, Settled, Phased, Untold, ToldOnce, GroupTold,
     Enlisted, Places, OwnTells, OwnGroups
<1>3. CASE fault = NoFault
  <2>1. Heard
    BY <1>3 DEF HeardInv
  <2>2. ASSUME NEW w \in Workers,
               LoadTile(w) \/ RefHandle(w) \/ NewInstance(w) \/ Place(w) \/ NewDoodad(w) \/ SettleDoodad(w)
        PROVE  Heard'
    BY <1>1, <2>1, <2>2, LoadTileHeard, NewInstanceHeard, PlaceHeard, DoodadHeard
  <2>3. ASSUME NEW w \in Workers, TellInstance(w) \/ TellGroup(w) \/ TakeTask(w) \/ WalkEnd(w) \/ PostLoad(w)
        PROVE  Heard'
    BY <1>1, <1>3, <2>1, <2>3, TellInstanceHeard, TellGroupHeard, TakeTaskHeard, WalkEndHeard, PostLoadHeard
  <2>4. ASSUME NEW w \in Workers, WalkOn(w) PROVE Heard'
    BY <1>1, <1>3, <2>1, <2>4, WalkOnHeard
  <2>5. ASSUME NEW t \in Threads, Lock(t) PROVE Heard'
    BY <1>1, <2>1, <2>5, LockHeard
  <2>6. CASE Collect \/ NewMapInstance \/ PlaceMap \/ EraseInstance
    BY <1>3, <2>1, <2>6, CollectHeard, NewMapInstanceHeard, PlaceMapHeard, EraseInstanceHeard
  <2>7. CASE Release \/ UnrefHandle \/ OpenMap \/ LeaveMap \/ StartGc \/ PickModel \/ DeleteModel
             \/ ModelsEnd \/ PickInstance \/ FindInstance \/ DropDoodads \/ GcEnd
    BY <2>1, <2>7, FrameGoesHeard
  <2>8. QED
    BY <1>2, <2>2, <2>3, <2>4, <2>5, <2>6, <2>7, NextCases
<1>4. QED
  BY <1>2, <1>3, NextCases

(* The load of a group meets an instance nobody has told of the building:  *)
(* one whose place its worker has not found yet, or that of a map.         *)
LEMMA UntoldIs ==
  ASSUME IInv, Heard, fault = NoFault, NEW w \in Workers, WalkOn(w), fault' # NoFault
  PROVE  fault'.at = "untold" /\ (stage[fault'.i] = "made" \/ fault'.i \in Maps)
<1> USE DEF IInv
<1>1. /\ thread[w].task = "group" /\ thread[w].at = "walk" /\ thread[w].wait = None
      /\ ~Walked(w) /\ told[list[thread[w].pos]] = 0
      /\ fault' = [at |-> "untold", i |-> list[thread[w].pos]]
  BY AtWorker DEF WalkOn, At, WorkerOk, TileAts, TellAts
<1>2. thread[w].pos \in DOMAIN list
  BY <1>1, AtWorker, ListIs DEF Walked, WorkerOk, ThreadType
<1>3. PICK i \in Instances : i = list[thread[w].pos] /\ Enlisted(i) /\ told[i] = 0
  BY <1>1, <1>2, ListIs DEF Heard, ListKept
<1>4. ASSUME i \in Tiles, stage[i] # "made" PROVE FALSE
  <2>1. file.wmo = "loaded"
    BY <1>1 DEF Heard, Phased
  <2>2. OwnTells(i)
    BY <1>3, <1>4, <2>1 DEF Heard, ToldOnce, Enlisted
  <2>3. PICK v \in Workers : thread[v].task = "tile" /\ thread[v].at \in TellAts
    BY <2>2 DEF OwnTells, TellAts
  <2>4. "wmo" \in Held(thread[v]) /\ "wmo" \in Held(thread[w]) /\ v \in Threads /\ w \in Threads
    BY <1>1, <2>3, TellerHas, WalkerHas, AtWorker DEF Locks
  <2>5. v = w
    BY <2>4, OneHasWmo
  <2>6. QED
    BY <1>1, <2>3, <2>5
<1>5. QED
  BY <1>1, <1>3, <1>4 DEF Instances

LEMMA FaultsNext ==
  ASSUME IInv, HeardInv, FaultsKnown, [Next]_vars
  PROVE  FaultsKnown'
<1>1. CASE UNCHANGED vars
  BY <1>1 DEF vars, FaultsKnown
<1>2. ASSUME fault = NoFault, fault' = NoFault PROVE FaultsKnown'
  BY <1>2 DEF FaultsKnown, NoFault
<1>3. ASSUME fault = NoFault, NEW w \in Workers, WalkOn(w), fault' # NoFault PROVE FaultsKnown'
  BY <1>3, UntoldIs DEF HeardInv, FaultsKnown, WalkOn, listVars
<1>4. ASSUME fault = NoFault, EraseInstance, fault' # NoFault PROVE FaultsKnown'
  BY <1>4 DEF EraseInstance, FaultsKnown
<1>5. ASSUME fault = NoFault, NEW w \in Workers,
             \/ LoadTile(w) \/ RefHandle(w) \/ NewInstance(w) \/ Place(w)
             \/ NewDoodad(w) \/ SettleDoodad(w) \/ TellInstance(w) \/ TellGroup(w)
             \/ TakeTask(w) \/ WalkEnd(w) \/ PostLoad(w)
      PROVE  fault' = NoFault
  BY <1>5 DEF LoadTile, RefHandle, NewInstance, Place, NewDoodad, SettleDoodad, TellInstance,
     TellGroup, TakeTask, WalkEnd, PostLoad
<1>6. ASSUME fault = NoFault,
             \/ Release \/ OpenMap \/ LeaveMap \/ UnrefHandle \/ Collect \/ NewMapInstance \/ PlaceMap
             \/ StartGc \/ PickModel \/ DeleteModel \/ ModelsEnd \/ PickInstance \/ FindInstance
             \/ DropDoodads \/ GcEnd \/ \E t \in Threads : Lock(t)
      PROVE  fault' = NoFault
  BY <1>6 DEF Release, OpenMap, LeaveMap, UnrefHandle, Collect, NewMapInstance, PlaceMap, StartGc,
     PickModel, DeleteModel, ModelsEnd, PickInstance, FindInstance, DropDoodads, GcEnd, Lock
<1>7. QED
  BY <1>1, <1>2, <1>3, <1>4, <1>5, <1>6, NextCases

LEMMA ToldInvariance == Spec => []ToldInv
<1>1. IInv /\ ToldInv /\ [Next]_vars => ToldInv'
  BY HeardNext, ModelNext, FaultsNext DEF ToldInv
<1>2. QED
  BY <1>1, HeardInit, Invariance, PTL DEF Spec

(* Nothing undefined happens to the list of a building but in the two      *)
(* places the property names: for any number of workers the load of a      *)
(* group only meets without its arrays an instance that has no place yet,  *)
(* or that of a map.                                                       *)
THEOREM FaultsAreKnown == Spec => []FaultsKnown
<1>1. ToldInv => FaultsKnown
  BY DEF ToldInv
<1>2. QED
  BY <1>1, ToldInvariance, PTL

(* However the loads of the building, its group and its model cross those  *)
(* of the tiles, no instance that has its place misses one of them, but    *)
(* for that of a map; it is told of the building twice only when the load  *)
(* met it before it had its place.                                         *)
THEOREM LoadsAreTold == Spec => []LoadsTold
<1>1. IInv /\ ToldInv => LoadsTold
  <2> SUFFICES ASSUME IInv, Heard, ModelTold, NEW i \in Instances
               PROVE  /\ told[i] <= 2 /\ (told[i] = 2 => i \in early)
                      /\ stage[i] = "placed" /\ (\A t \in Threads : ~Telling(t, i)) =>
                           /\ file.wmo = "loaded" /\ i \in Tiles => told[i] > 0
                           /\ file.group = "loaded" /\ told[i] > 0 => grouped[i]
                           /\ file.m2 = "loaded" => \A n \in DOMAIN doodads[i] : doodads[i][n] > 0
    BY DEF ToldInv, HeardInv, LoadsTold
  <2>1. ASSUME NEW w \in Workers, thread[w].task = "tile", thread[w].i = i, thread[w].at \in TellAts
        PROVE  Telling(w, i) /\ w \in Threads
    <3>1. "wmo" \in Held(thread[w]) /\ w \in Threads
      BY <2>1, TellerHas, AtWorker DEF IInv
    <3>2. owner["wmo"] = w
      BY <3>1 DEF IInv, Base, Owned, Locks
    <3>3. QED
      BY <2>1, <3>1, <3>2 DEF Telling, Subject
  <2>2. (\A t \in Threads : ~Telling(t, i)) => ~OwnTells(i) /\ ~OwnGroups(i)
    BY <2>1 DEF OwnTells, OwnGroups, TellAts
  <2>3. stage[i] = "placed" => Enlisted(i)
    BY DEF Enlisted
  <2>4. QED
    BY <2>2, <2>3 DEF Heard, ToldOnce, GroupTold, ModelTold
<1>2. QED
  BY <1>1, Invariance, ToldInvariance, PTL
=============================================================================
