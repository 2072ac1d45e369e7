------------------------------- MODULE Loader -------------------------------
(***************************************************************************)
(* The asynchronous resource loader (src/loader.c) together with the three *)
(* reference-counted resources and the uncounted one it moves around:      *)
(* BLP textures (src/blp.c), M2 models (src/gx/m2.c), WMO buildings        *)
(* (src/gx/wmo.c) and the groups of a WMO (src/gx/wmo_group.c).            *)
(*                                                                         *)
(* A resource is created by cache_ref_by_key, asked to load by its first   *)
(* holder, loaded by a worker thread, initialised by the main thread (the  *)
(* only one with a graphics context), condemned when its count falls to    *)
(* zero, parked for the frames still in flight, and deleted by a worker.   *)
(*                                                                         *)
(* An element of Blp, M2, Wmo or Group is one incarnation of a resource:   *)
(* the address the constructor returned.  Addresses are not reused, so a   *)
(* use of a freed one is visible.                                          *)
(***************************************************************************)
EXTENDS Occurrences, Integers, Sequences, FiniteSets, SequencesExt

CONSTANTS
  Blp, M2, Wmo, Group,  \* the addresses of each kind of resource
  KeyOf,                \* the file name a counted resource is cached under
  GroupsOf,             \* the groups the file of a WMO names, in file order
  Users,                \* threads that hold references and ask for loads
  FrameUsers,           \* those that run between two ticks: main and cull
  Workers,              \* threads running loader_run
  Outcomes,             \* how reading a file may end
  MayQuit               \* whether the window may be closed

Counted == Blp \cup M2 \cup Wmo
Objects == Counted \cup Group
Kinds   == {"blp", "group", "wmo", "m2"}
Slots   == 0..2         \* RENDER_FRAMES_COUNT = 3, src/Makefile

Of == [blp |-> Blp, group |-> Group, wmo |-> Wmo, m2 |-> M2]
KindOf(o) == CHOOSE k \in Kinds : o \in Of[k]

ASSUME KindsDisjoint == \A j, k \in Kinds : j # k => Of[j] \cap Of[k] = {}
ASSUME KeysNameOneKind ==
  /\ DOMAIN KeyOf = Counted
  /\ \A S \in {Blp, M2, Wmo} : \A a \in S, b \in Counted \ S : KeyOf[a] # KeyOf[b]
ASSUME GroupsOfType ==
  /\ GroupsOf \in [Wmo -> Seq(Group)]
  /\ \A v, w \in Wmo : v # w => ToSet(GroupsOf[v]) \cap ToSet(GroupsOf[w]) = {}
  /\ \A w \in Wmo : IsInjective(GroupsOf[w])
  /\ \A g \in Group : \E w \in Wmo : g \in ToSet(GroupsOf[w])
ASSUME FrameUsersAreUsers == FrameUsers \subseteq Users
ASSUME ThreadsAreFinite == IsFiniteSet(Users) /\ IsFiniteSet(Workers)
ASSUME OutcomesType == Outcomes \subseteq {"ok", "nofile", "badfile", "loadfail"}
ASSUME MayQuitType == MayQuit \in BOOLEAN

VARIABLES
  refs,         \* cache_entry.refs, 0 when the cache has no entry
  mem,          \* whether the address is allocated
  held,         \* the references a user owns
  asking,       \* where a user is in an ask_load
  asked,        \* load_asked
  loading,      \* the flag find_task consults before an unload
  loaded, initialized,
  profiled,     \* M2s whose skin profile was initialised by an earlier call
  groups,       \* wmo->groups
  tasks,        \* loader->tasks
  worker,       \* what each worker executes
  buffer,       \* loader->objects_to_init_buffer, by kind: queue_buffers
                \* sorts it, so the order between two kinds does not matter
  toInit,       \* loader->objects_to_init
  gc,           \* loader->objects_gc
  drawId, cullId,
  main,         \* where the main thread is in its frame, or in its shutdown
  stale,        \* history: <<site, address>> of the uses of freed memory
  badUnref,     \* history: addresses unreferenced while out of the cache
  lateRef,      \* history: addresses ask_load referenced too late
  leaks         \* history: references nobody will give back

cacheVars == <<refs, badUnref, lateRef>>
flagVars  == <<asked, loading, loaded, initialized, profiled, groups>>
idVars    == <<drawId, cullId>>
vars == <<refs, mem, held, asking, asked, loading, loaded, initialized,
          profiled, groups, tasks, worker, buffer, toInit, gc, drawId, cullId,
          main, stale, badUnref, lateRef, leaks>>

-----------------------------------------------------------------------------
(* Tasks.  The order of enum async_task_type is the order in which the     *)
(* queues are searched; tiles, the minimap and the clouds are not here.    *)

TaskTypes == {"load", "unload"} \X Kinds
KindRank  == [blp |-> 0, group |-> 1, wmo |-> 2, m2 |-> 3]
Rank(t)   == 2 * KindRank[t[2]] + (IF t[1] = "load" THEN 0 ELSE 1)

Push(q, t, s) == [q EXCEPT ![t] = @ \o s]

(* find_task passes over the unloads of what a worker is loading           *)
BlockedNever(t, o) == FALSE  \* mutant
Blocked(t, o) == t[1] = "unload" /\ t[2] \in {"wmo", "group"} /\ o \in loading

Found(t, i) ==
  /\ i \in DOMAIN tasks[t] /\ ~Blocked(t, tasks[t][i])
  /\ \A u \in TaskTypes : \A j \in DOMAIN tasks[u] :
        Blocked(u, tasks[u][j]) \/ Rank(t) < Rank(u) \/ (t = u /\ i <= j)

(* wow_frame_id: the slots are used in turn                                *)
NextSlotNoWrap(s) == s + 1  \* mutant
NextSlotStays(s) == s       \* mutant
NextSlot(s) == (s + 1) % 3

NoWork == [at |-> "idle"]
Work(at, o) == [at |-> at, obj |-> o]
Idle(w) == worker[w].at = "idle"

NotAsking == [at |-> "none"]

-----------------------------------------------------------------------------
(* Pieces of a step.  A constrains the next value of the variables it      *)
(* names and of no other.                                                  *)

(* uses of the memory at the addresses in S                                *)
Uses(site, S)  == {<<site, o>> : o \in {p \in S : mem[p] = "freed"}}
Touch(site, S) == stale' = stale \cup Uses(site, S)

(* what the cache's destructor of a key parks until the frames in flight   *)
(* are drawn: gx_wmo_ask_unload parks the groups, gs, with their WMO       *)
CondemnedAlone(o, gs) == <<o>>  \* mutant: the groups are forgotten
Condemned(o, gs) == <<o>> \o (IF o \in Wmo THEN gs[o] ELSE <<>>)

(* cache_ref_by_ref: refs, lateRef                                         *)
RefLost(o) == UNCHANGED <<refs, lateRef>>  \* mutant
Ref(o) ==
  IF refs[o] = 0 THEN lateRef' = lateRef \cup {o} /\ UNCHANGED refs
                 ELSE refs' = [refs EXCEPT ![o] = @ + 1] /\ UNCHANGED lateRef

(* cache_unref_by_ref: cacheVars, gc.  do_gc holds the gc mutex, so   *)
(* the last reference waits for it to end.                                 *)
UnrefKeepsEntry(o, gs) ==  \* mutant: the last reference leaves the entry
  /\ refs' = [refs EXCEPT ![o] = IF @ > 1 THEN @ - 1 ELSE @]
  /\ IF refs[o] > 1 THEN UNCHANGED gc ELSE gc' = Push(gc, cullId, Condemned(o, gs))
  /\ UNCHANGED <<badUnref, lateRef>>
UnrefWith(o, gs) ==
  IF refs[o] = 0
  THEN badUnref' = badUnref \cup {o} /\ UNCHANGED <<refs, lateRef, gc>>
  ELSE /\ refs' = [refs EXCEPT ![o] = @ - 1]
       /\ \/ refs[o] > 1 /\ UNCHANGED gc
          \/ refs[o] = 1 /\ main.at # "gc" /\ gc' = Push(gc, cullId, Condemned(o, gs))
       /\ UNCHANGED <<badUnref, lateRef>>

Unref(o) == UnrefWith(o, groups)

Init ==
  /\ refs = [o \in Counted |-> 0]
  /\ mem = [o \in Objects |-> "unborn"]
  /\ held = [u \in Users |-> {}]
  /\ asking = [u \in Users |-> NotAsking]
  /\ asked = {} /\ loading = {} /\ loaded = {} /\ initialized = {}
  /\ profiled = {}
  /\ groups = [w \in Wmo |-> <<>>]
  /\ tasks = [t \in TaskTypes |-> <<>>]
  /\ worker = [w \in Workers |-> NoWork]
  /\ buffer = [k \in Kinds |-> <<>>]
  /\ toInit = [k \in Kinds |-> <<>>]
  /\ gc = [s \in Slots |-> <<>>]
  /\ drawId = 0 /\ cullId = 1
  /\ main = [at |-> "frame", worked |-> FALSE, quitting |-> FALSE, done |-> TRUE]
  /\ stale = {} /\ badUnref = {} /\ lateRef = {}
  /\ leaks = [o \in Counted |-> 0]

-----------------------------------------------------------------------------
(* The holders of references.  A frame user runs between two ticks and, in *)
(* render_gc after the tick, only gives references back.                   *)

MayAsk(u)     == main.at # "torn" /\ (u \in FrameUsers => main.at = "frame")
MayRelease(u) == main.at # "torn" /\ (u \in FrameUsers => main.at \in {"frame", "post", "quit"})

(* cache_ref_by_key: the entry of the key, or a new object for it          *)
RefByKey(u, o) ==
  /\ MayAsk(u) /\ asking[u] = NotAsking /\ o \notin held[u]
  /\ \/ refs[o] > 0
     \/ mem[o] = "unborn" /\ \A p \in Counted : KeyOf[p] = KeyOf[o] => refs[p] = 0
  /\ refs' = [refs EXCEPT ![o] = @ + 1]
  /\ mem' = [mem EXCEPT ![o] = "live"]
  /\ held' = [held EXCEPT ![u] = @ \cup {o}]
  /\ UNCHANGED <<asking, flagVars, tasks, worker, buffer, toInit, gc, idVars,
                 main, stale, badUnref, lateRef, leaks>>

(* Whether the caller of ask_load holds the lock of the cache: the loads   *)
(* workers ask for do, except for textures, which no caller locks.         *)
AsksLocked(u, o) == o \notin Blp /\ u \notin FrameUsers

(* ask_load without the lock: read load_asked ...                          *)
AskCheck(u, o) ==
  /\ MayAsk(u) /\ asking[u] = NotAsking /\ o \in held[u]
  /\ ~AsksLocked(u, o) /\ o \notin asked
  /\ asking' = [asking EXCEPT ![u] = [at |-> "mark", obj |-> o]]
  /\ Touch("ask", {o})
  /\ UNCHANGED <<cacheVars, mem, held, flagVars, tasks, worker, buffer, toInit,
                 gc, idVars, main, leaks>>

(* ... set it ...                                                          *)
AskMark(u) ==
  /\ MayAsk(u) /\ asking[u].at = "mark"
  /\ LET o == asking[u].obj IN
     /\ asked' = asked \cup {o}
     /\ asking' = [asking EXCEPT ![u].at = IF o \in M2 THEN "push" ELSE "ref"]
     /\ Touch("ask", {o})
  /\ UNCHANGED <<cacheVars, mem, held, loading, loaded, initialized, profiled,
                 groups, tasks, worker, buffer, toInit, gc, idVars, main, leaks>>

(* ... take the reference of the load; gx_m2_ask_load does it last ...     *)
AskRef(u) ==
  /\ MayAsk(u) /\ asking[u].at = "ref"
  /\ LET o == asking[u].obj IN
     /\ Ref(o)
     /\ asking' = [asking EXCEPT ![u] =
                     IF o \in M2 THEN NotAsking ELSE [@ EXCEPT !.at = "push"]]
  /\ UNCHANGED <<mem, held, flagVars, tasks, worker, buffer, toInit, gc, idVars,
                 main, stale, badUnref, leaks>>

(* ... and queue the load; gx_m2_ask_load does it first.                   *)
AskPush(u) ==
  /\ MayAsk(u) /\ asking[u].at = "push"
  /\ LET o == asking[u].obj IN
     /\ tasks' = Push(tasks, <<"load", KindOf(o)>>, <<o>>)
     /\ asking' = [asking EXCEPT ![u] =
                     IF o \in M2 THEN [@ EXCEPT !.at = "ref"] ELSE NotAsking]
  /\ UNCHANGED <<cacheVars, mem, held, flagVars, worker, buffer, toInit, gc,
                 idVars, main, stale, leaks>>

(* ask_load under the lock of the cache                                    *)
AskLocked(u, o) ==
  /\ MayAsk(u) /\ asking[u] = NotAsking /\ o \in held[u]
  /\ AsksLocked(u, o) /\ o \notin asked
  /\ asked' = asked \cup {o}
  /\ Ref(o)
  /\ tasks' = Push(tasks, <<"load", KindOf(o)>>, <<o>>)
  /\ Touch("ask", {o})
  /\ UNCHANGED <<mem, held, asking, loading, loaded, initialized, profiled,
                 groups, worker, buffer, toInit, gc, idVars, main, badUnref, leaks>>

(* a reference given back: deleting an instance also takes it off the      *)
(* list of its parent                                                      *)
Release(u, o) ==
  /\ MayRelease(u) /\ asking[u] = NotAsking /\ o \in held[u]
  /\ held' = [held EXCEPT ![u] = @ \ {o}]
  /\ Unref(o)
  /\ Touch("release", {o} \ Blp)
  /\ UNCHANGED <<mem, asking, flagVars, tasks, worker, buffer, toInit, idVars,
                 main, leaks>>

UserStep(u) ==
  \/ \E o \in Counted : RefByKey(u, o) \/ AskCheck(u, o) \/ AskLocked(u, o) \/ Release(u, o)
  \/ AskMark(u) \/ AskRef(u) \/ AskPush(u)

-----------------------------------------------------------------------------
(* The workers: loader_run, find_task and execute_task.                    *)

(* what a step of a worker leaves alone, unless it says otherwise          *)
WorkerFrame == UNCHANGED <<held, asking, asked, profiled, toInit, idVars, main>>

Becomes(w, job) == worker' = [worker EXCEPT ![w] = job]
At(w, at) == main.at # "torn" /\ worker[w].at = at
Settle(o) == loading' = loading \ {o}

FindTask(w) ==
  /\ At(w, "idle")
  /\ \E t \in TaskTypes : \E i \in DOMAIN tasks[t] :
       LET o == tasks[t][i] IN
       /\ Found(t, i)
       /\ tasks' = [tasks EXCEPT ![t] = RemoveAt(@, i)]
       /\ loading' = IF t[1] = "load" THEN loading \cup {o} ELSE loading
       /\ Becomes(w, Work(t[1], o))
       /\ Touch("find", {o})
  /\ WorkerFrame
  /\ UNCHANGED <<cacheVars, mem, loaded, initialized, groups, buffer, gc, leaks>>

(* *_UNLOAD: blp_texture_delete, gx_m2_delete, gx_wmo_delete and           *)
(* gx_wmo_group_delete                                                     *)
Unload(w) ==
  /\ At(w, "unload")
  /\ mem' = [mem EXCEPT ![worker[w].obj] = "freed"]
  /\ Touch("unload", {worker[w].obj})
  /\ Becomes(w, NoWork)
  /\ WorkerFrame
  /\ UNCHANGED <<cacheVars, loading, loaded, initialized, groups, tasks, buffer,
                 gc, leaks>>

(* The file is missing or unreadable: the load gives its reference back.   *)
(* A WMO that cannot be parsed keeps loading set.                          *)
LoadNoFile(w) ==
  LET o == worker[w].obj IN
  /\ At(w, "load") /\ o \in Counted /\ "nofile" \in Outcomes
  /\ Settle(o) /\ Unref(o) /\ Touch("load", {o})
  /\ Becomes(w, NoWork)
  /\ WorkerFrame
  /\ UNCHANGED <<mem, loaded, initialized, groups, tasks, buffer, leaks>>

LoadBadFile(w) ==
  LET o == worker[w].obj IN
  /\ At(w, "load") /\ o \in Counted /\ "badfile" \in Outcomes
  /\ Unref(o) /\ Touch("load", {o})
  /\ Becomes(w, NoWork)
  /\ WorkerFrame
  /\ UNCHANGED <<mem, loading, loaded, initialized, groups, tasks, buffer, leaks>>

(* BLP_LOAD, blp_texture_load: nothing guards a second load of a texture,  *)
(* which returns true and so keeps its reference                           *)
LoadBlp(w) ==
  LET o == worker[w].obj IN
  /\ At(w, "load") /\ o \in Blp /\ Outcomes \cap {"ok", "loadfail"} # {}
  /\ Touch("load", {o})
  /\ IF o \in loaded
     THEN Becomes(w, Work("clear", o)) /\ leaks' = [leaks EXCEPT ![o] = @ + 1]
     ELSE Becomes(w, Work("fill", o)) /\ UNCHANGED leaks
  /\ WorkerFrame
  /\ UNCHANGED <<cacheVars, mem, loading, loaded, initialized, groups, tasks,
                 buffer, gc>>

FillBlp(w) ==
  LET o == worker[w].obj IN
  /\ At(w, "fill")
  /\ Touch("load", {o})
  /\ Becomes(w, Work("clear", o))
  /\ \/ /\ "ok" \in Outcomes
        /\ loaded' = loaded \cup {o} /\ buffer' = Push(buffer, KindOf(o), <<o>>)
        /\ UNCHANGED <<cacheVars, gc>>
     \/ /\ "loadfail" \in Outcomes
        /\ Unref(o)
        /\ UNCHANGED <<loaded, buffer>>
  /\ WorkerFrame
  /\ UNCHANGED <<mem, loading, initialized, groups, tasks, leaks>>

(* texture->loading = false, after the texture was handed over             *)
ClearBlp(w) ==
  /\ At(w, "clear")
  /\ Settle(worker[w].obj) /\ Touch("clear", {worker[w].obj})
  /\ Becomes(w, NoWork)
  /\ WorkerFrame
  /\ UNCHANGED <<cacheVars, mem, loaded, initialized, groups, tasks, buffer, gc, leaks>>

(* M2_LOAD: gx_m2_load without the lock, gx_m2_post_load with it           *)
LoadM2(w) ==
  LET o == worker[w].obj IN
  /\ At(w, "load") /\ o \in M2
  /\ Touch("load", {o})
  /\ \/ /\ "ok" \in Outcomes /\ o \notin loaded
        /\ Becomes(w, Work("post", o))
        /\ UNCHANGED <<cacheVars, gc>>
     \/ /\ o \in loaded \/ "loadfail" \in Outcomes
        /\ Unref(o) /\ Becomes(w, NoWork)
  /\ WorkerFrame
  /\ UNCHANGED <<mem, loading, loaded, initialized, groups, tasks, buffer, leaks>>

PostLoadM2(w) ==
  LET o == worker[w].obj IN
  /\ At(w, "post")
  /\ Touch("load", {o})
  /\ loaded' = loaded \cup {o} /\ buffer' = Push(buffer, KindOf(o), <<o>>)
  /\ Becomes(w, NoWork)
  /\ WorkerFrame
  /\ UNCHANGED <<cacheVars, mem, loading, initialized, groups, tasks, gc, leaks>>

(* gx_wmo_load creates the first n groups of the file, queueing each       *)
MakeGroups(o, n) ==
  LET made == SubSeq(GroupsOf[o], Len(groups[o]) + 1, n) IN
  /\ groups' = [groups EXCEPT ![o] = @ \o made]
  /\ mem' = [g \in Objects |-> IF g \in ToSet(made) THEN "live" ELSE mem[g]]
  /\ tasks' = Push(tasks, <<"load", "group">>, made)

(* WMO_LOAD under the lock.  As with a texture, a second load keeps its    *)
(* reference; a failed one has created some of the groups.                 *)
LoadWmo(w) ==
  LET o == worker[w].obj IN
  /\ At(w, "load") /\ o \in Wmo
  /\ Touch("load", {o}) /\ Settle(o) /\ Becomes(w, NoWork)
  /\ \/ /\ "ok" \in Outcomes /\ o \notin loaded
        /\ MakeGroups(o, Len(GroupsOf[o]))
        /\ loaded' = loaded \cup {o} /\ buffer' = Push(buffer, KindOf(o), <<o>>)
        /\ UNCHANGED <<cacheVars, gc, leaks>>
     \/ /\ "loadfail" \in Outcomes /\ o \notin loaded
        /\ \E n \in Len(groups[o])..Len(GroupsOf[o]) : MakeGroups(o, n)
        /\ UnrefWith(o, groups')
        /\ UNCHANGED <<loaded, buffer, leaks>>
     \/ /\ o \in loaded /\ Outcomes \cap {"ok", "loadfail"} # {}
        /\ leaks' = [leaks EXCEPT ![o] = @ + 1]
        /\ UNCHANGED <<cacheVars, mem, loaded, groups, tasks, buffer, gc>>
  /\ WorkerFrame
  /\ UNCHANGED initialized

(* WMO_GROUP_LOAD: gx_wmo_group_load walks the instances of the parent     *)
OwnerOf(g) == CHOOSE w \in Wmo : g \in ToSet(GroupsOf[w])

LoadGroup(w) ==
  LET g == worker[w].obj IN
  /\ At(w, "load") /\ g \in Group
  /\ Becomes(w, NoWork)
  /\ \/ /\ "ok" \in Outcomes
        /\ loaded' = loaded \cup {g} /\ buffer' = Push(buffer, "group", <<g>>)
        /\ Settle(g)
        /\ stale' = stale \cup Uses("load", {g}) \cup Uses("parent", {OwnerOf(g)})
     \/ /\ Outcomes \cap {"nofile", "loadfail"} # {}
        /\ Settle(g) /\ Touch("load", {g})
        /\ UNCHANGED <<loaded, buffer>>
     \/ /\ "badfile" \in Outcomes
        /\ Touch("load", {g})
        /\ UNCHANGED <<loading, loaded, buffer>>
  /\ WorkerFrame
  /\ UNCHANGED <<cacheVars, mem, initialized, groups, tasks, gc, leaks>>

WorkerStep(w) ==
  \/ FindTask(w) \/ Unload(w) \/ LoadNoFile(w) \/ LoadBadFile(w)
  \/ LoadBlp(w) \/ FillBlp(w) \/ ClearBlp(w) \/ LoadM2(w) \/ PostLoadM2(w)
  \/ LoadWmo(w) \/ LoadGroup(w)

-----------------------------------------------------------------------------
(* The main thread: loader_tick once a frame, then the next frame's slots; *)
(* after the window closed, the loop of shutdown.                          *)

Goto(at) == main' = [main EXCEPT !.at = at]
MainFrame == UNCHANGED <<held, asking, asked, loading, loaded, groups, worker, leaks>>

InitOrderNoWmo == <<"blp", "m2", "group", "group">>  \* mutant
InitOrder == <<"blp", "m2", "wmo", "group">>

(* queue_buffers: the buffer the workers fill is sorted into the queues    *)
QueueBuffers ==
  /\ toInit' = [k \in Kinds |-> toInit[k] \o buffer[k]]
  /\ buffer' = [k \in Kinds |-> <<>>]
  /\ main' = [main EXCEPT !.at = "init", !.worked = FALSE, !.done = TRUE]

Tick ==
  /\ main.at = "frame" /\ \A u \in FrameUsers : asking[u] = NotAsking
  /\ QueueBuffers
  /\ MainFrame
  /\ UNCHANGED <<cacheVars, mem, initialized, profiled, tasks, gc, idVars, stale>>

(* One turn of a DO_INIT loop.  An M2 initialises one skin profile a call  *)
(* and stays at the head: here an M2 has one.                              *)
InitObject ==
  /\ main.at = "init"
  /\ \E i \in 1..4 : LET k == InitOrder[i] IN
       /\ toInit[k] # <<>> /\ \A j \in 1..(i-1) : toInit[InitOrder[j]] = <<>>
       /\ LET o == Head(toInit[k]) IN
          /\ Touch("init", {o})
          /\ IF k = "m2" /\ o \notin initialized \cup profiled
             THEN /\ profiled' = profiled \cup {o}
                  /\ UNCHANGED <<cacheVars, initialized, toInit, gc>>
             ELSE /\ initialized' = initialized \cup {o}
                  /\ toInit' = [toInit EXCEPT ![k] = Tail(@)]
                  /\ IF k = "group" THEN UNCHANGED <<cacheVars, gc>> ELSE Unref(o)
                  /\ UNCHANGED profiled
  /\ main' = [main EXCEPT !.worked = TRUE]
  /\ MainFrame
  /\ UNCHANGED <<mem, tasks, buffer, idVars>>

(* the queues are empty, or the time of the frame is over: the first turn  *)
(* is taken whatever the time                                              *)
InitEnd ==
  /\ main.at = "init" /\ (main.worked \/ \A k \in Kinds : toInit[k] = <<>>)
  /\ Goto("gc")
  /\ MainFrame
  /\ UNCHANGED <<cacheVars, mem, initialized, profiled, tasks, buffer, toInit,
                 gc, idVars, stale>>

(* do_gc, under the gc mutex: what was condemned two frames ago            *)
GcObject ==
  /\ main.at = "gc" /\ gc[drawId] # <<>>
  /\ LET o == Head(gc[drawId]) IN tasks' = Push(tasks, <<"unload", KindOf(o)>>, <<o>>)
  /\ gc' = [gc EXCEPT ![drawId] = Tail(@)]
  /\ MainFrame
  /\ UNCHANGED <<cacheVars, mem, initialized, profiled, buffer, toInit, idVars,
                 main, stale>>

GcEnd ==
  /\ main.at = "gc" /\ gc[drawId] = <<>>
  /\ IF main.quitting
     THEN Goto("drain") /\ drawId' = NextSlot(drawId) /\ UNCHANGED cullId
     ELSE Goto("post") /\ UNCHANGED idVars
  /\ MainFrame
  /\ UNCHANGED <<cacheVars, mem, initialized, profiled, tasks, buffer, toInit,
                 gc, stale>>

NextFrame ==
  /\ main.at = "post"
  /\ Goto("frame")
  /\ drawId' = cullId /\ cullId' = NextSlot(cullId)
  /\ MainFrame
  /\ UNCHANGED <<cacheVars, mem, initialized, profiled, tasks, buffer, toInit,
                 gc, stale>>

MainIdle == UNCHANGED <<cacheVars, mem, initialized, profiled, tasks, gc, stale>>

(* The window closed: the frame users give back what they hold (Release),  *)
(* then the loop drains the loader.                                        *)
Quit ==
  /\ MayQuit /\ main.at = "post"
  /\ main' = [main EXCEPT !.at = "quit", !.quitting = TRUE]
  /\ MainFrame /\ MainIdle /\ UNCHANGED <<buffer, toInit, idVars>>

StartDrain ==
  /\ main.at = "quit" /\ \A u \in FrameUsers : held[u] = {}
  /\ main' = [main EXCEPT !.at = "drain", !.done = FALSE]
  /\ MainFrame /\ MainIdle /\ UNCHANGED <<buffer, toInit, idVars>>

HasLoading == \E k \in Kinds : buffer[k] # <<>> \/ toInit[k] # <<>>
HasGc      == \E s \in Slots : gc[s] # <<>>
HasAsync   == \E t \in TaskTypes : tasks[t] # <<>>

DrainTick ==
  /\ main.at = "drain" /\ (HasLoading \/ HasGc)
  /\ QueueBuffers
  /\ MainFrame /\ MainIdle /\ UNCHANGED idVars

DrainEnd ==
  /\ main.at = "drain" /\ ~HasLoading /\ ~HasGc
  /\ Goto("async")
  /\ MainFrame /\ MainIdle /\ UNCHANGED <<buffer, toInit, idVars>>

(* usleep while there are tasks: the step of a sleep changes nothing else  *)
AsyncWait ==
  /\ main.at = "async" /\ HasAsync
  /\ main' = [main EXCEPT !.done = TRUE]
  /\ MainFrame /\ MainIdle /\ UNCHANGED <<buffer, toInit, idVars>>

(* a pass that found nothing to do ends the loop, and the cache is deleted *)
AsyncEnd ==
  /\ main.at = "async" /\ ~HasAsync
  /\ main' = [main EXCEPT !.at = IF main.done THEN "drain" ELSE "torn", !.done = FALSE]
  /\ MainFrame /\ MainIdle /\ UNCHANGED <<buffer, toInit, idVars>>

Torn == main.at = "torn" /\ UNCHANGED vars

FrameStep == Tick \/ InitObject \/ InitEnd \/ GcObject \/ GcEnd
ShutdownStep == StartDrain \/ DrainTick \/ DrainEnd \/ AsyncWait \/ AsyncEnd

Next ==
  \/ \E u \in Users : UserStep(u)
  \/ \E w \in Workers : WorkerStep(w)
  \/ FrameStep \/ NextFrame \/ Quit \/ ShutdownStep
  \/ Torn

Spec == Init /\ [][Next]_vars

(* A thread that can take a step of the modelled code takes it; whether a  *)
(* holder ever asks, keeps or gives back is its own business, except that  *)
(* the frame users give everything back while the program ends.            *)
FairSpec ==
  /\ Spec
  /\ \A w \in Workers : WF_vars(WorkerStep(w))
  /\ \A u \in Users : WF_vars(AskMark(u) \/ AskRef(u) \/ AskPush(u))
  /\ \A u \in FrameUsers : WF_vars(main.at = "quit" /\ \E o \in Counted : Release(u, o))
  /\ WF_vars(FrameStep \/ NextFrame \/ ShutdownStep)

-----------------------------------------------------------------------------
(* Invariants                                                              *)

CacheTypeOK ==
  /\ refs \in [Counted -> Nat] /\ leaks \in [Counted -> Nat]
  /\ badUnref \subseteq Counted /\ lateRef \subseteq Counted

UserTypeOK ==
  /\ held \in [Users -> SUBSET Counted]
  /\ asking \in [Users -> {NotAsking} \cup [at : {"mark", "ref", "push"}, obj : Counted]]

ObjectTypeOK ==
  /\ mem \in [Objects -> {"unborn", "live", "freed"}]
  /\ asked \subseteq Counted /\ profiled \subseteq M2
  /\ loading \subseteq Objects /\ loaded \subseteq Objects /\ initialized \subseteq Objects
  /\ groups \in [Wmo -> Seq(Group)]
  /\ stale \subseteq {"ask", "release", "find", "unload", "load", "clear",
                      "parent", "init"} \X Objects

(* A queue only holds resources of its kind, which is what lets loader.c   *)
(* cast the void pointer of a task or an object.                           *)
QueueTypeOK ==
  /\ tasks \in [TaskTypes -> Seq(Objects)]
  /\ \A t \in TaskTypes : tasks[t] \in Seq(Of[t[2]])
  /\ buffer \in [Kinds -> Seq(Objects)] /\ toInit \in [Kinds -> Seq(Objects)]
  /\ \A k \in Kinds : buffer[k] \in Seq(Of[k]) /\ toInit[k] \in Seq(Of[k])
  /\ gc \in [Slots -> Seq(Objects)]

ThreadTypeOK ==
  /\ worker \in [Workers -> {NoWork} \cup [at : {"load", "unload"}, obj : Objects]
                    \cup [at : {"fill", "clear"}, obj : Blp] \cup [at : {"post"}, obj : M2]]
  /\ drawId \in Slots /\ cullId \in Slots
  /\ main \in [at : {"frame", "init", "gc", "post", "quit", "drain", "async", "torn"},
               worked : BOOLEAN, quitting : BOOLEAN, done : BOOLEAN]

TypeOK == CacheTypeOK /\ UserTypeOK /\ ObjectTypeOK /\ QueueTypeOK /\ ThreadTypeOK

Asking(o, at) == Cardinality({u \in Users : asking[u] # NotAsking /\ asking[u].at = at /\ asking[u].obj = o})
Working(o, ats) == Cardinality({w \in Workers : worker[w].at \in ats /\ worker[w].obj = o})

(* the loads of o under way, each owning a reference                       *)
Pins(o) ==
  Times(o, tasks[<<"load", KindOf(o)>>]) + Working(o, {"load", "fill", "post"})
  + Times(o, buffer[KindOf(o)]) + Times(o, toInit[KindOf(o)])

(* The count of the cache is the number of those who will give a reference *)
(* back: the holders, the loads under way and the askers between the two   *)
(* halves of ask_load.  Nothing is dropped early but what gx_m2_ask_load   *)
(* referenced after its load had ended, and the only references never      *)
(* given back are those of a second load of a texture or a WMO.            *)
RefsAccounted ==
  \A o \in Counted \ lateRef :
    refs[o] = Cardinality({u \in Users : o \in held[u]}) + Pins(o) + leaks[o]
              + (IF o \in M2 THEN -Asking(o, "ref") ELSE Asking(o, "push"))

IsCondemned(o) == refs[IF o \in Group THEN OwnerOf(o) ELSE o] = 0

Places(o) ==
  Cardinality({s \in Slots : \E i \in DOMAIN gc[s] : gc[s][i] = o})
  + Times(o, tasks[<<"unload", KindOf(o)>>]) + Working(o, {"unload"})

(* Once the cache lets go of a resource it is, until it is freed, in       *)
(* exactly one place on the way to its delete (a gc slot, an unload queue  *)
(* or a worker), and before that in none: no leak, no double delete.       *)
CondemnedOnce ==
  \A o \in Objects : Places(o) = IF mem[o] = "live" /\ IsCondemned(o) THEN 1 ELSE 0

(* The only uses of freed memory are: the write of texture->loading after  *)
(* the texture was handed over, the walk of a WMO's instances by the load  *)
(* of a group, the initialisation of a group, and the release of a model   *)
(* that was referenced too late; only such a model is ever unreferenced    *)
(* while the cache does not have it.                                       *)
StaleUsesKnown ==
  /\ stale \subseteq ({"clear"} \X Blp) \cup ({"parent"} \X Wmo)
                      \cup ({"init"} \X Group) \cup ({"release"} \X lateRef)
  /\ lateRef \subseteq M2 /\ badUnref \subseteq lateRef

(* cache_unref_by_ref is never given an object the cache does not have     *)
NoUnrefUnexisting == badUnref = {}

(* The cache is deleted when the workers have ended what they do, which is *)
(* what the shutdown waits for before it frees the cache they use; the     *)
(* wait only looks at the queues, not at what a worker has taken off them. *)
AsyncEnded == main.at = "torn" => \A w \in Workers : Idle(w)

(* An unload find_task passes over for ever: no worker will clear the flag *)
Stuck(o) == o \in loading \cap (Wmo \cup Group) /\ Working(o, {"load"}) = 0
                /\ Times(o, tasks[<<"load", KindOf(o)>>]) = 0

(* While the program runs, what is condemned is freed, unless its file     *)
(* could not be parsed.                                                    *)
CondemnedFreed ==
  \A o \in Objects : (mem[o] = "live" /\ IsCondemned(o)) ~>
                        (mem[o] = "freed" \/ Stuck(o) \/ main.quitting)

(* while the program runs every load ends: its reference is given back     *)
LoadsEnd == \A o \in Counted : Pins(o) > 0 ~> (Pins(o) = 0 \/ main.quitting)

(* The shutdown loop ends, unless find_task passes over an unload for      *)
(* ever: then has_async stays true.                                        *)
ShutdownEnds == main.quitting ~> (main.at = "torn" \/ \E o \in Objects : Stuck(o))

-----------------------------------------------------------------------------
(* What the loader implements.  A load lasts from the reference ask_load   *)
(* takes to the one its end gives back; one that kept it never ends.       *)

Pinned == Blp \cup Wmo  \* their ask_load references before it queues

Abstract == INSTANCE Resource WITH
  Objects <- Pinned,
  holders <- [o \in Pinned |-> {u \in Users : o \in held[u]}],
  loads   <- [o \in Pinned |-> Pins(o) + leaks[o] + Asking(o, "push")],
  phase   <- [o \in Pinned |-> mem[o]],
  ready   <- initialized \cap Pinned

(* textures and WMOs exist exactly while a holder or a load needs them     *)
ImplementsResource == Abstract!Spec
=============================================================================
