---------------------------- MODULE LoaderProofs ----------------------------
(* Theorems about Loader, for any number of resources, users and workers.  *)
EXTENDS Loader, OccurrencesProofs

-----------------------------------------------------------------------------
(* Kinds and queues                                                        *)

LEMMA KindOfObject ==
  \A o \in Objects : KindOf(o) \in Kinds /\ o \in Of[KindOf(o)]
BY DEF KindOf, Kinds, Of, Objects, Counted

LEMMA KindIsUnique ==
  \A k \in Kinds : \A o \in Of[k] : KindOf(o) = k /\ o \in Objects
<1> SUFFICES ASSUME NEW k \in Kinds, NEW o \in Of[k]
             PROVE  KindOf(o) = k /\ o \in Objects
    OBVIOUS
<1>1. o \in Objects
    BY DEF Kinds, Of, Objects, Counted
<1>2. QED
    BY <1>1, KindOfObject, KindsDisjoint

(* the load of o may be queued                                             *)
LEMMA LoadTask ==
  \A o \in Objects : /\ <<"load", KindOf(o)>> \in TaskTypes
                     /\ <<"unload", KindOf(o)>> \in TaskTypes
                     /\ <<o>> \in Seq(Of[KindOf(o)])
BY KindOfObject DEF TaskTypes

(* what Push does to the task queues                                       *)
LEMMA PushTask ==
  ASSUME QueueTypeOK, NEW t \in TaskTypes, NEW s \in Seq(Of[t[2]])
  PROVE  /\ Push(tasks, t, s) \in [TaskTypes -> Seq(Objects)]
         /\ \A u \in TaskTypes : Push(tasks, t, s)[u] \in Seq(Of[u[2]])
<1>1. t[2] \in Kinds
    BY DEF TaskTypes
<1>2. Of[t[2]] \subseteq Objects
    BY <1>1, KindIsUnique
<1>3. s \in Seq(Objects)
    BY <1>2
<1>4. tasks[t] \o s \in Seq(Of[t[2]]) /\ tasks[t] \o s \in Seq(Objects)
    BY <1>3 DEF QueueTypeOK
<1>5. QED
    BY <1>4 DEF QueueTypeOK, Push

LEMMA PushBuffer ==
  ASSUME QueueTypeOK, NEW k \in Kinds, NEW s \in Seq(Of[k])
  PROVE  /\ Push(buffer, k, s) \in [Kinds -> Seq(Objects)]
         /\ \A j \in Kinds : Push(buffer, k, s)[j] \in Seq(Of[j])
<1>1. Of[k] \subseteq Objects
    BY KindIsUnique
<1>2. buffer[k] \o s \in Seq(Of[k]) /\ buffer[k] \o s \in Seq(Objects)
    BY <1>1 DEF QueueTypeOK
<1>3. QED
    BY <1>2 DEF QueueTypeOK, Push

LEMMA CondemnedType ==
  ASSUME NEW o \in Counted, NEW gs \in [Wmo -> Seq(Group)]
  PROVE  Condemned(o, gs) \in Seq(Objects)
BY DEF Condemned, Counted, Objects

(* a reference given back                                                  *)
LEMMA UnrefType ==
  ASSUME TypeOK, NEW o \in Counted, NEW gs \in [Wmo -> Seq(Group)], UnrefWith(o, gs)
  PROVE  /\ refs' \in [Counted -> Nat]
         /\ badUnref' \subseteq Counted /\ lateRef' \subseteq Counted
         /\ gc' \in [Slots -> Seq(Objects)]
<1> USE DEF TypeOK, CacheTypeOK, QueueTypeOK, ThreadTypeOK
<1>1. CASE refs[o] = 0
    BY <1>1 DEF UnrefWith
<1>2. CASE refs[o] # 0
  <2>1. refs' = [refs EXCEPT ![o] = @ - 1] /\ badUnref' = badUnref /\ lateRef' = lateRef
      BY <1>2 DEF UnrefWith
  <2>2. CASE gc' = gc
      BY <1>2, <2>1, <2>2
  <2>3. CASE gc' = Push(gc, cullId, Condemned(o, gs))
      BY <1>2, <2>1, <2>3, CondemnedType DEF Push
  <2>4. QED
      BY <1>2, <2>2, <2>3 DEF UnrefWith
<1>3. QED
    BY <1>1, <1>2

LEMMA RefType ==
  ASSUME CacheTypeOK, NEW o \in Counted, Ref(o)
  PROVE  refs' \in [Counted -> Nat] /\ lateRef' \subseteq Counted
BY DEF Ref, CacheTypeOK

-----------------------------------------------------------------------------
(* Type correctness, one lemma per group of steps                          *)

LEMMA InitType == Init => TypeOK
BY GroupsOfType DEF Init, TypeOK, CacheTypeOK, UserTypeOK, ObjectTypeOK, QueueTypeOK,
   ThreadTypeOK, Slots

LEMMA StaleType ==
  ASSUME ObjectTypeOK, NEW S \in SUBSET Objects,
         NEW site \in {"ask", "release", "find", "unload", "load", "clear", "parent", "init"},
         Touch(site, S)
  PROVE  stale' \subseteq {"ask", "release", "find", "unload", "load", "clear",
                           "parent", "init"} \X Objects
BY DEF ObjectTypeOK, Touch, Uses

LEMMA AskerObject ==
  ASSUME UserTypeOK, NEW u \in Users, asking[u].at # "none"
  PROVE  /\ asking[u] \in [at : {"mark", "ref", "push"}, obj : Counted]
         /\ asking[u].obj \in Counted
BY DEF UserTypeOK, NotAsking

LEMMA UserStepType ==
  ASSUME TypeOK, NEW u \in Users, UserStep(u)
  PROVE  TypeOK'
<1> USE DEF TypeOK
<1>0. Counted \subseteq Objects
    BY DEF Objects
<1>1. ASSUME NEW o \in Counted, RefByKey(u, o) PROVE TypeOK'
  <2>1. CacheTypeOK' /\ UserTypeOK'
      BY <1>1 DEF RefByKey, CacheTypeOK, UserTypeOK
  <2>2. ObjectTypeOK'
      BY <1>0, <1>1 DEF RefByKey, ObjectTypeOK, flagVars
  <2>3. QueueTypeOK' /\ ThreadTypeOK'
      BY <1>1 DEF RefByKey, QueueTypeOK, ThreadTypeOK, idVars
  <2>4. QED
      BY <2>1, <2>2, <2>3
<1>2. ASSUME NEW o \in Counted, AskCheck(u, o) PROVE TypeOK'
  <2>1. CacheTypeOK' /\ UserTypeOK'
      BY <1>2 DEF AskCheck, CacheTypeOK, UserTypeOK, cacheVars
  <2>2. ObjectTypeOK'
      BY <1>0, <1>2, StaleType DEF AskCheck, ObjectTypeOK, flagVars
  <2>3. QueueTypeOK' /\ ThreadTypeOK'
      BY <1>2 DEF AskCheck, QueueTypeOK, ThreadTypeOK, idVars
  <2>4. QED
      BY <2>1, <2>2, <2>3
<1>3. CASE AskMark(u)
  <2>1. asking[u] \in [at : {"mark", "ref", "push"}, obj : Counted] /\ asking[u].obj \in Counted
      BY <1>3, AskerObject DEF AskMark
  <2>2. CacheTypeOK' /\ UserTypeOK'
      BY <1>3, <2>1 DEF AskMark, CacheTypeOK, UserTypeOK, cacheVars
  <2>3. ObjectTypeOK'
      BY <1>0, <1>3, <2>1, StaleType DEF AskMark, ObjectTypeOK
  <2>4. QueueTypeOK' /\ ThreadTypeOK'
      BY <1>3 DEF AskMark, QueueTypeOK, ThreadTypeOK, idVars
  <2>5. QED
      BY <2>2, <2>3, <2>4
<1>4. CASE AskRef(u)
  <2>1. asking[u] \in [at : {"mark", "ref", "push"}, obj : Counted] /\ asking[u].obj \in Counted
      BY <1>4, AskerObject DEF AskRef
  <2>2. CacheTypeOK'
      BY <1>4, <2>1, RefType DEF AskRef, CacheTypeOK
  <2>3. UserTypeOK'
      BY <1>4, <2>1 DEF AskRef, UserTypeOK, NotAsking
  <2>4. ObjectTypeOK' /\ QueueTypeOK' /\ ThreadTypeOK'
      BY <1>4 DEF AskRef, ObjectTypeOK, QueueTypeOK, ThreadTypeOK, flagVars, idVars
  <2>5. QED
      BY <2>2, <2>3, <2>4
<1>5. CASE AskPush(u)
  <2> DEFINE o == asking[u].obj
  <2>1. asking[u] \in [at : {"mark", "ref", "push"}, obj : Counted] /\ o \in Counted
      BY <1>5, AskerObject DEF AskPush
  <2>2. <<"load", KindOf(o)>> \in TaskTypes /\ <<o>> \in Seq(Of[<<"load", KindOf(o)>>[2]])
      BY <1>0, <2>1, LoadTask
  <2>3. tasks' = Push(tasks, <<"load", KindOf(o)>>, <<o>>)
      BY <1>5 DEF AskPush
  <2>4. QueueTypeOK'
      BY <1>5, <2>2, <2>3, PushTask DEF AskPush, QueueTypeOK
  <2>5. UserTypeOK'
      BY <1>5, <2>1 DEF AskPush, UserTypeOK, NotAsking
  <2>6. CacheTypeOK' /\ ObjectTypeOK' /\ ThreadTypeOK'
      BY <1>5 DEF AskPush, CacheTypeOK, ObjectTypeOK, ThreadTypeOK, cacheVars, flagVars, idVars
  <2>7. QED
      BY <2>4, <2>5, <2>6
<1>6. ASSUME NEW o \in Counted, AskLocked(u, o) PROVE TypeOK'
  <2>1. <<"load", KindOf(o)>> \in TaskTypes /\ <<o>> \in Seq(Of[<<"load", KindOf(o)>>[2]])
      BY <1>0, LoadTask
  <2>2. QueueTypeOK'
      BY <1>6, <2>1, PushTask DEF AskLocked, QueueTypeOK
  <2>3. CacheTypeOK'
      BY <1>6, RefType DEF AskLocked, CacheTypeOK
  <2>4. ObjectTypeOK'
      BY <1>0, <1>6, StaleType DEF AskLocked, ObjectTypeOK
  <2>5. UserTypeOK' /\ ThreadTypeOK'
      BY <1>6 DEF AskLocked, UserTypeOK, ThreadTypeOK, idVars
  <2>6. QED
      BY <2>2, <2>3, <2>4, <2>5
<1>7. ASSUME NEW o \in Counted, Release(u, o) PROVE TypeOK'
  <2>1. UnrefWith(o, groups) /\ groups \in [Wmo -> Seq(Group)]
      BY <1>7 DEF Release, Unref, ObjectTypeOK
  <2>2. CacheTypeOK' /\ QueueTypeOK'
      BY <1>7, <2>1, UnrefType DEF Release, CacheTypeOK, QueueTypeOK
  <2>3. ObjectTypeOK'
      BY <1>0, <1>7, StaleType DEF Release, ObjectTypeOK, flagVars
  <2>4. UserTypeOK' /\ ThreadTypeOK'
      BY <1>7 DEF Release, UserTypeOK, ThreadTypeOK, idVars
  <2>5. QED
      BY <2>2, <2>3, <2>4
<1>8. QED
    BY <1>1, <1>2, <1>3, <1>4, <1>5, <1>6, <1>7 DEF UserStep

(* a worker that has something to do, and what it does it to               *)
LEMMA WorkerObject ==
  ASSUME ThreadTypeOK, NEW w \in Workers, worker[w].at # "idle"
  PROVE  worker[w].obj \in Objects
BY DEF ThreadTypeOK, NoWork, Objects, Counted

LEMMA WorkerTypeKept ==
  ASSUME ThreadTypeOK, NEW w \in Workers, NEW job, Becomes(w, job), WorkerFrame,
         job \in {NoWork} \cup [at : {"load", "unload"}, obj : Objects]
                  \cup [at : {"fill", "clear"}, obj : Blp] \cup [at : {"post"}, obj : M2]
  PROVE  ThreadTypeOK'
BY DEF ThreadTypeOK, Becomes, WorkerFrame, idVars

LEMMA UsersKept == ASSUME UserTypeOK, WorkerFrame PROVE UserTypeOK'
BY DEF UserTypeOK, WorkerFrame

LEMMA ObjectsKept ==
  ASSUME ObjectTypeOK, WorkerFrame, UNCHANGED <<mem, groups, initialized>>,
         loading' \subseteq Objects, loaded' \subseteq Objects,
         NEW S \in SUBSET Objects, NEW site \in {"find", "unload", "load", "clear"}, Touch(site, S)
  PROVE  ObjectTypeOK'
BY StaleType DEF ObjectTypeOK, WorkerFrame

LEMMA MakeGroupsType ==
  ASSUME TypeOK, NEW o \in Wmo, NEW n \in 0..Len(GroupsOf[o]), MakeGroups(o, n)
  PROVE  /\ groups' \in [Wmo -> Seq(Group)]
         /\ mem' \in [Objects -> {"unborn", "live", "freed"}]
         /\ tasks' \in [TaskTypes -> Seq(Objects)]
         /\ \A t \in TaskTypes : tasks'[t] \in Seq(Of[t[2]])
<1> USE DEF TypeOK
<1> DEFINE made == SubSeq(GroupsOf[o], Len(groups[o]) + 1, n)
<1>1. GroupsOf[o] \in Seq(Group) /\ groups[o] \in Seq(Group)
    BY GroupsOfType DEF ObjectTypeOK
<1>2. made \in Seq(Group)
  <2>1. Len(groups[o]) + 1 \in 1..(Len(groups[o]) + 1) /\ Len(groups[o]) \in Nat
      BY <1>1, LenProperties
  <2>2. \A i \in (Len(groups[o]) + 1)..n : GroupsOf[o][i] \in Group
      BY <1>1, <2>1, ElementOfSeq, LenProperties
  <2>3. QED
      BY <1>1, <2>1, <2>2, SubSeqProperties, LenProperties
<1>3. groups[o] \o made \in Seq(Group)
    BY <1>1, <1>2, ConcatProperties
<1>4. groups' \in [Wmo -> Seq(Group)]
    BY <1>3 DEF MakeGroups, ObjectTypeOK
<1>5. mem' \in [Objects -> {"unborn", "live", "freed"}]
    BY DEF MakeGroups, ObjectTypeOK
<1>6. <<"load", "group">> \in TaskTypes /\ made \in Seq(Of[<<"load", "group">>[2]])
    BY <1>2 DEF TaskTypes, Kinds, Of
<1>7. tasks' = Push(tasks, <<"load", "group">>, made)
    BY DEF MakeGroups
<1>8. QED
    BY <1>4, <1>5, <1>6, <1>7, PushTask

LEMMA FindTaskType ==
  ASSUME TypeOK, NEW w \in Workers, FindTask(w)
  PROVE  TypeOK'
<1> USE DEF TypeOK
<1>1. PICK t \in TaskTypes : \E i \in DOMAIN tasks[t] :
        /\ tasks' = [tasks EXCEPT ![t] = RemoveAt(@, i)]
        /\ loading' = IF t[1] = "load" THEN loading \cup {tasks[t][i]} ELSE loading
        /\ Becomes(w, Work(t[1], tasks[t][i]))
        /\ Touch("find", {tasks[t][i]})
    BY DEF FindTask
<1>2. PICK i \in DOMAIN tasks[t] :
        /\ tasks' = [tasks EXCEPT ![t] = RemoveAt(@, i)]
        /\ loading' = IF t[1] = "load" THEN loading \cup {tasks[t][i]} ELSE loading
        /\ Becomes(w, Work(t[1], tasks[t][i]))
        /\ Touch("find", {tasks[t][i]})
    BY <1>1
<1>3. tasks[t] \in Seq(Objects) /\ tasks[t] \in Seq(Of[t[2]]) /\ i \in 1..Len(tasks[t])
    BY <1>2 DEF QueueTypeOK
<1>4. tasks[t][i] \in Objects
    BY <1>3, ElementOfSeq
<1>5. CacheTypeOK' /\ UserTypeOK'
    BY UsersKept DEF FindTask, CacheTypeOK, cacheVars
<1>6. ObjectTypeOK'
  <2>1. loading' \subseteq Objects
      BY <1>2, <1>4 DEF ObjectTypeOK
  <2>2. QED
      BY <1>2, <1>4, <2>1, ObjectsKept DEF FindTask, ObjectTypeOK
<1>7. QueueTypeOK'
  <2>1. \A S : tasks[t] \in Seq(S) => RemoveAt(tasks[t], i) \in Seq(S)
    <3> SUFFICES ASSUME NEW S, tasks[t] \in Seq(S) PROVE RemoveAt(tasks[t], i) \in Seq(S)
        OBVIOUS
    <3>1. Len(tasks[t]) \in Nat /\ i \in Nat /\ \A j \in 1..Len(tasks[t]) : tasks[t][j] \in S
        BY <1>3, ElementOfSeq, LenProperties
    <3>2. SubSeq(tasks[t], 1, i - 1) \in Seq(S)
        BY <1>3, <3>1, SubSeqProperties
    <3>3. SubSeq(tasks[t], i + 1, Len(tasks[t])) \in Seq(S)
        BY <1>3, <3>1, SubSeqProperties
    <3>4. QED
        BY <3>2, <3>3, ConcatProperties DEF RemoveAt
  <2>2. RemoveAt(tasks[t], i) \in Seq(Objects) /\ RemoveAt(tasks[t], i) \in Seq(Of[t[2]])
      BY <1>3, <2>1
  <2>3. QED
      BY <1>2, <2>2 DEF FindTask, QueueTypeOK, WorkerFrame
<1>8. ThreadTypeOK'
  <2>1. Work(t[1], tasks[t][i]) \in [at : {"load", "unload"}, obj : Objects]
      BY <1>4 DEF TaskTypes, Work
  <2>2. QED
      BY <1>2, <2>1, WorkerTypeKept DEF FindTask
<1>9. QED
    BY <1>5, <1>6, <1>7, <1>8

LEMMA LoadBlpType ==
  ASSUME TypeOK, NEW w \in Workers, LoadBlp(w)
  PROVE  TypeOK'
<1> USE DEF TypeOK
<1> DEFINE o == worker[w].obj
<1>1. o \in Blp /\ o \in Objects
    BY DEF LoadBlp, Objects, Counted
<1>2. Work("clear", o) \in [at : {"fill", "clear"}, obj : Blp]
      /\ Work("fill", o) \in [at : {"fill", "clear"}, obj : Blp]
    BY <1>1 DEF Work
<1>3. CacheTypeOK'
    BY <1>1 DEF LoadBlp, CacheTypeOK, cacheVars, Counted
<1>4. UserTypeOK'
    BY UsersKept DEF LoadBlp
<1>5. ObjectTypeOK'
    BY <1>1, ObjectsKept DEF LoadBlp, ObjectTypeOK
<1>6. QueueTypeOK'
    BY DEF LoadBlp, QueueTypeOK, WorkerFrame
<1>7. ThreadTypeOK'
    BY <1>2, WorkerTypeKept DEF LoadBlp
<1>8. QED
    BY <1>3, <1>4, <1>5, <1>6, <1>7

(* the two ends of a load: handed over to the main thread, or given back   *)
LEMMA HandedOver ==
  ASSUME QueueTypeOK, NEW o \in Objects, buffer' = Push(buffer, KindOf(o), <<o>>),
         UNCHANGED <<tasks, toInit, gc>>
  PROVE  QueueTypeOK'
BY KindOfObject, LoadTask, PushBuffer DEF QueueTypeOK

LEMMA GivenBack ==
  ASSUME TypeOK, NEW o \in Counted, Unref(o), UNCHANGED <<tasks, toInit, buffer, leaks>>
  PROVE  CacheTypeOK' /\ QueueTypeOK'
<1>1. UnrefWith(o, groups) /\ groups \in [Wmo -> Seq(Group)]
    BY DEF Unref, TypeOK, ObjectTypeOK
<1>2. QED
    BY <1>1, UnrefType DEF TypeOK, CacheTypeOK, QueueTypeOK

LEMMA UnloadType ==
  ASSUME TypeOK, NEW w \in Workers, Unload(w)
  PROVE  TypeOK'
<1> USE DEF TypeOK
<1>1. worker[w].obj \in Objects
    BY WorkerObject DEF Unload, At
<1>2. ObjectTypeOK'
    BY <1>1, StaleType DEF Unload, ObjectTypeOK, WorkerFrame
<1>3. CacheTypeOK' /\ UserTypeOK' /\ QueueTypeOK'
    BY UsersKept DEF Unload, CacheTypeOK, QueueTypeOK, cacheVars, WorkerFrame
<1>4. ThreadTypeOK'
    BY WorkerTypeKept DEF Unload
<1>5. QED
    BY <1>2, <1>3, <1>4

LEMMA LoadUnreadType ==
  ASSUME TypeOK, NEW w \in Workers, LoadNoFile(w) \/ LoadBadFile(w)
  PROVE  TypeOK'
<1> USE DEF TypeOK
<1> DEFINE o == worker[w].obj
<1>1. o \in Counted /\ o \in Objects
    BY DEF LoadNoFile, LoadBadFile, Objects
<1>2. CacheTypeOK' /\ QueueTypeOK'
    BY <1>1, GivenBack DEF LoadNoFile, LoadBadFile, WorkerFrame
<1>3. loading' \subseteq Objects /\ UNCHANGED <<loaded, mem, groups, initialized>>
    BY DEF LoadNoFile, LoadBadFile, Settle, ObjectTypeOK
<1>4. WorkerFrame /\ Becomes(w, NoWork) /\ Touch("load", {o})
    BY DEF LoadNoFile, LoadBadFile
<1>5. ObjectTypeOK'
    BY <1>1, <1>3, <1>4, ObjectsKept DEF ObjectTypeOK
<1>6. UserTypeOK' /\ ThreadTypeOK'
    BY <1>4, UsersKept, WorkerTypeKept
<1>7. QED
    BY <1>2, <1>5, <1>6

LEMMA FillBlpType ==
  ASSUME TypeOK, NEW w \in Workers, FillBlp(w)
  PROVE  TypeOK'
<1> USE DEF TypeOK
<1> DEFINE o == worker[w].obj
<1>1. o \in Blp /\ o \in Objects /\ o \in Counted
    BY KindsDisjoint DEF FillBlp, At, ThreadTypeOK, NoWork, Objects, Counted
<1>2. WorkerFrame /\ Becomes(w, Work("clear", o)) /\ Touch("load", {o})
      /\ UNCHANGED <<mem, loading, initialized, groups, tasks, leaks>>
    BY DEF FillBlp
<1>3. UserTypeOK' /\ ThreadTypeOK'
    BY <1>1, <1>2, UsersKept, WorkerTypeKept DEF Work
<1>4. ObjectTypeOK'
  <2>1. loaded' \subseteq Objects
      BY <1>1 DEF FillBlp, ObjectTypeOK
  <2>2. QED
      BY <1>1, <1>2, <2>1, ObjectsKept DEF ObjectTypeOK
<1>5. CacheTypeOK' /\ QueueTypeOK'
  <2>1. CASE buffer' = Push(buffer, KindOf(o), <<o>>) /\ UNCHANGED <<cacheVars, gc>>
      BY <1>1, <1>2, <2>1, HandedOver DEF CacheTypeOK, cacheVars, WorkerFrame
  <2>2. CASE Unref(o) /\ UNCHANGED buffer
      BY <1>1, <1>2, <2>2, GivenBack DEF WorkerFrame
  <2>3. QED
      BY <2>1, <2>2 DEF FillBlp
<1>6. QED
    BY <1>3, <1>4, <1>5

LEMMA ClearBlpType ==
  ASSUME TypeOK, NEW w \in Workers, ClearBlp(w)
  PROVE  TypeOK'
<1> USE DEF TypeOK
<1>1. worker[w].obj \in Objects
    BY WorkerObject DEF ClearBlp, At
<1>2. ObjectTypeOK'
    BY <1>1, ObjectsKept DEF ClearBlp, Settle, ObjectTypeOK
<1>3. CacheTypeOK' /\ UserTypeOK' /\ QueueTypeOK' /\ ThreadTypeOK'
    BY UsersKept, WorkerTypeKept DEF ClearBlp, CacheTypeOK, QueueTypeOK, cacheVars, WorkerFrame
<1>4. QED
    BY <1>2, <1>3

LEMMA LoadM2Type ==
  ASSUME TypeOK, NEW w \in Workers, LoadM2(w)
  PROVE  TypeOK'
<1> USE DEF TypeOK
<1> DEFINE o == worker[w].obj
<1>1. o \in M2 /\ o \in Counted /\ o \in Objects
    BY DEF LoadM2, Objects, Counted
<1>2. WorkerFrame /\ Touch("load", {o})
      /\ UNCHANGED <<mem, loading, loaded, initialized, groups, tasks, buffer, leaks>>
    BY DEF LoadM2
<1>3. CacheTypeOK' /\ QueueTypeOK'
  <2>1. CASE UNCHANGED <<cacheVars, gc>>
      BY <1>2, <2>1 DEF CacheTypeOK, QueueTypeOK, cacheVars, WorkerFrame
  <2>2. CASE Unref(o)
      BY <1>1, <1>2, <2>2, GivenBack DEF WorkerFrame
  <2>3. QED
      BY <2>1, <2>2 DEF LoadM2
<1>4. UserTypeOK' /\ ObjectTypeOK'
    BY <1>1, <1>2, UsersKept, ObjectsKept DEF ObjectTypeOK
<1>5. ThreadTypeOK'
    BY <1>1, <1>2, WorkerTypeKept DEF LoadM2, Work
<1>6. QED
    BY <1>3, <1>4, <1>5

LEMMA PostLoadM2Type ==
  ASSUME TypeOK, NEW w \in Workers, PostLoadM2(w)
  PROVE  TypeOK'
<1> USE DEF TypeOK
<1> DEFINE o == worker[w].obj
<1>1. o \in Objects
    BY WorkerObject DEF PostLoadM2, At
<1>2. QueueTypeOK'
    BY <1>1, HandedOver DEF PostLoadM2, WorkerFrame
<1>3. ObjectTypeOK'
    BY <1>1, ObjectsKept DEF PostLoadM2, ObjectTypeOK
<1>4. CacheTypeOK' /\ UserTypeOK' /\ ThreadTypeOK'
    BY UsersKept, WorkerTypeKept DEF PostLoadM2, CacheTypeOK, cacheVars
<1>5. QED
    BY <1>2, <1>3, <1>4

LEMMA LoadWmoType ==
  ASSUME TypeOK, NEW w \in Workers, LoadWmo(w)
  PROVE  TypeOK'
<1> USE DEF TypeOK
<1> DEFINE o == worker[w].obj
<1>1. o \in Wmo /\ o \in Counted /\ o \in Objects
    BY DEF LoadWmo, Objects, Counted
<1>2. WorkerFrame /\ Touch("load", {o}) /\ Settle(o) /\ Becomes(w, NoWork) /\ UNCHANGED initialized
    BY DEF LoadWmo
<1>3. UserTypeOK' /\ ThreadTypeOK'
    BY <1>2, UsersKept, WorkerTypeKept
<1>4. stale' \subseteq {"ask", "release", "find", "unload", "load", "clear",
                        "parent", "init"} \X Objects
    BY <1>1, <1>2, StaleType
<1>5. GroupsOf[o] \in Seq(Group) /\ groups[o] \in Seq(Group)
      /\ Len(GroupsOf[o]) \in Nat /\ Len(groups[o]) \in Nat
    BY <1>1, GroupsOfType, LenProperties DEF ObjectTypeOK
<1>6. CASE /\ MakeGroups(o, Len(GroupsOf[o]))
           /\ loaded' = loaded \cup {o} /\ buffer' = Push(buffer, KindOf(o), <<o>>)
           /\ UNCHANGED <<cacheVars, gc, leaks>>
  <2>1. /\ groups' \in [Wmo -> Seq(Group)]
        /\ mem' \in [Objects -> {"unborn", "live", "freed"}]
        /\ tasks' \in [TaskTypes -> Seq(Objects)]
        /\ \A t \in TaskTypes : tasks'[t] \in Seq(Of[t[2]])
      BY <1>1, <1>5, <1>6, MakeGroupsType
  <2>2. <<o>> \in Seq(Of[KindOf(o)]) /\ KindOf(o) \in Kinds
      BY <1>1, LoadTask, KindOfObject
  <2>3. QueueTypeOK'
      BY <1>2, <1>6, <2>1, <2>2, PushBuffer DEF QueueTypeOK, WorkerFrame
  <2>4. ObjectTypeOK'
      BY <1>1, <1>2, <1>4, <1>6, <2>1 DEF ObjectTypeOK, WorkerFrame, Settle
  <2>5. CacheTypeOK'
      BY <1>6 DEF CacheTypeOK, cacheVars
  <2>6. QED
      BY <1>3, <2>3, <2>4, <2>5
<1>7. CASE /\ \E n \in Len(groups[o])..Len(GroupsOf[o]) : MakeGroups(o, n)
           /\ UnrefWith(o, groups')
           /\ UNCHANGED <<loaded, buffer, leaks>>
  <2>1. /\ groups' \in [Wmo -> Seq(Group)]
        /\ mem' \in [Objects -> {"unborn", "live", "freed"}]
        /\ tasks' \in [TaskTypes -> Seq(Objects)]
        /\ \A t \in TaskTypes : tasks'[t] \in Seq(Of[t[2]])
    <3>1. PICK n \in Len(groups[o])..Len(GroupsOf[o]) : MakeGroups(o, n)
        BY <1>7
    <3>2. n \in 0..Len(GroupsOf[o])
        BY <1>5, <3>1
    <3>3. QED
        BY <1>1, <3>1, <3>2, MakeGroupsType
  <2>2. /\ refs' \in [Counted -> Nat]
        /\ badUnref' \subseteq Counted /\ lateRef' \subseteq Counted
        /\ gc' \in [Slots -> Seq(Objects)]
      BY <1>1, <1>7, <2>1, UnrefType
  <2>3. QueueTypeOK' /\ CacheTypeOK'
      BY <1>2, <1>7, <2>1, <2>2 DEF QueueTypeOK, CacheTypeOK, WorkerFrame
  <2>4. ObjectTypeOK'
      BY <1>1, <1>2, <1>4, <1>7, <2>1 DEF ObjectTypeOK, WorkerFrame, Settle
  <2>5. QED
      BY <1>3, <2>3, <2>4
<1>8. CASE /\ leaks' = [leaks EXCEPT ![o] = @ + 1]
           /\ UNCHANGED <<cacheVars, mem, loaded, groups, tasks, buffer, gc>>
  <2>1. QueueTypeOK' /\ CacheTypeOK'
      BY <1>1, <1>2, <1>8 DEF QueueTypeOK, CacheTypeOK, cacheVars, WorkerFrame
  <2>2. ObjectTypeOK'
      BY <1>1, <1>2, <1>4, <1>8 DEF ObjectTypeOK, WorkerFrame, Settle
  <2>3. QED
      BY <1>3, <2>1, <2>2
<1>9. QED
    BY <1>6, <1>7, <1>8 DEF LoadWmo

LEMMA OwnerType == \A g \in Group : OwnerOf(g) \in Wmo /\ g \in ToSet(GroupsOf[OwnerOf(g)])
BY GroupsOfType DEF OwnerOf

LEMMA LoadGroupType ==
  ASSUME TypeOK, NEW w \in Workers, LoadGroup(w)
  PROVE  TypeOK'
<1> USE DEF TypeOK
<1> DEFINE g == worker[w].obj
<1>1. g \in Group /\ g \in Objects
    BY DEF LoadGroup, Objects
<1>2. WorkerFrame /\ Becomes(w, NoWork)
      /\ UNCHANGED <<cacheVars, mem, initialized, groups, tasks, gc, leaks>>
    BY DEF LoadGroup
<1>3. CacheTypeOK' /\ UserTypeOK' /\ ThreadTypeOK'
    BY <1>2, UsersKept, WorkerTypeKept DEF CacheTypeOK, cacheVars
<1>4. loading' \subseteq Objects /\ loaded' \subseteq Objects
    BY <1>1 DEF LoadGroup, Settle, ObjectTypeOK
<1>5. CASE loaded' = loaded \cup {g} /\ buffer' = Push(buffer, "group", <<g>>)
           /\ stale' = stale \cup Uses("load", {g}) \cup Uses("parent", {OwnerOf(g)})
  <2>1. OwnerOf(g) \in Objects
      BY <1>1, OwnerType DEF Objects, Counted
  <2>2. stale' \subseteq {"ask", "release", "find", "unload", "load", "clear",
                          "parent", "init"} \X Objects
      BY <1>1, <1>5, <2>1 DEF ObjectTypeOK, Uses
  <2>3. ObjectTypeOK'
      BY <1>2, <1>4, <2>2 DEF ObjectTypeOK, WorkerFrame
  <2>4. "group" \in Kinds /\ <<g>> \in Seq(Of["group"])
      BY <1>1 DEF Kinds, Of
  <2>5. QueueTypeOK'
      BY <1>2, <1>5, <2>4, PushBuffer DEF QueueTypeOK, WorkerFrame
  <2>6. QED
      BY <1>3, <2>3, <2>5
<1>6. CASE Touch("load", {g}) /\ UNCHANGED buffer
  <2>1. ObjectTypeOK'
      BY <1>1, <1>2, <1>4, <1>6, ObjectsKept
  <2>2. QueueTypeOK'
      BY <1>2, <1>6 DEF QueueTypeOK, WorkerFrame
  <2>3. QED
      BY <1>3, <2>1, <2>2
<1>7. QED
    BY <1>5, <1>6 DEF LoadGroup

LEMMA WorkerStepType ==
  ASSUME TypeOK, NEW w \in Workers, WorkerStep(w)
  PROVE  TypeOK'
BY FindTaskType, UnloadType, LoadUnreadType, LoadBlpType, FillBlpType, ClearBlpType,
   LoadM2Type, PostLoadM2Type, LoadWmoType, LoadGroupType DEF WorkerStep

LEMMA MainFrameType ==
  ASSUME TypeOK, MainFrame
  PROVE  /\ UserTypeOK'
         /\ \A at \in {"frame", "init", "gc", "post", "quit", "drain", "async", "torn"} :
               Goto(at) => main' \in [at : {"frame", "init", "gc", "post", "quit", "drain", "async", "torn"},
                                      worked : BOOLEAN, quitting : BOOLEAN, done : BOOLEAN]
BY DEF MainFrame, TypeOK, UserTypeOK, ThreadTypeOK, Goto

(* steps that only move the main thread                                    *)
LEMMA MainIdleType ==
  ASSUME TypeOK, MainFrame, MainIdle, UNCHANGED idVars,
         (buffer' = buffer /\ toInit' = toInit) \/ QueueBuffers,
         main' \in [at : {"frame", "init", "gc", "post", "quit", "drain", "async", "torn"},
                    worked : BOOLEAN, quitting : BOOLEAN, done : BOOLEAN]
  PROVE  TypeOK'
<1> USE DEF TypeOK
<1>1. CacheTypeOK' /\ UserTypeOK' /\ ObjectTypeOK' /\ ThreadTypeOK'
    BY DEF MainFrame, MainIdle, CacheTypeOK, UserTypeOK, ObjectTypeOK, ThreadTypeOK,
           cacheVars, idVars
<1>2. UNCHANGED <<tasks, gc>>
    BY DEF MainIdle
<1>3. CASE buffer' = buffer /\ toInit' = toInit
    BY <1>1, <1>2, <1>3 DEF QueueTypeOK
<1>4. CASE QueueBuffers
  <2>1. \A k \in Kinds : /\ toInit[k] \o buffer[k] \in Seq(Objects)
                         /\ toInit[k] \o buffer[k] \in Seq(Of[k])
      BY ConcatProperties DEF QueueTypeOK
  <2>2. \A S : <<>> \in Seq(S)
      BY EmptySeq
  <2>3. /\ toInit' \in [Kinds -> Seq(Objects)] /\ buffer' \in [Kinds -> Seq(Objects)]
        /\ \A k \in Kinds : buffer'[k] \in Seq(Of[k]) /\ toInit'[k] \in Seq(Of[k])
      BY <1>4, <2>1, <2>2 DEF QueueBuffers
  <2>4. QED
      BY <1>1, <1>2, <2>3 DEF QueueTypeOK
<1>5. QED
    BY <1>3, <1>4

LEMMA InitObjectType ==
  ASSUME TypeOK, InitObject
  PROVE  TypeOK'
<1> USE DEF TypeOK
<1>1. PICK i \in 1..4 :
        LET k == InitOrder[i] IN
        /\ toInit[k] # <<>>
        /\ LET o == Head(toInit[k]) IN
           /\ Touch("init", {o})
           /\ IF k = "m2" /\ o \notin initialized \cup profiled
              THEN /\ profiled' = profiled \cup {o}
                   /\ UNCHANGED <<cacheVars, initialized, toInit, gc>>
              ELSE /\ initialized' = initialized \cup {o}
                   /\ toInit' = [toInit EXCEPT ![k] = Tail(@)]
                   /\ IF k = "group" THEN UNCHANGED <<cacheVars, gc>> ELSE Unref(o)
                   /\ UNCHANGED profiled
    BY DEF InitObject
<1> DEFINE k == InitOrder[i]
           o == Head(toInit[k])
<1>2. k \in Kinds
    BY DEF InitOrder, Kinds
<1>3. toInit[k] \in Seq(Objects) /\ toInit[k] \in Seq(Of[k]) /\ toInit[k] # <<>>
    BY <1>1, <1>2 DEF QueueTypeOK
<1>4. o \in Objects /\ o \in Of[k]
    BY <1>3, HeadTailProperties
<1>5. Tail(toInit[k]) \in Seq(Objects) /\ Tail(toInit[k]) \in Seq(Of[k])
    BY <1>3, HeadTailProperties
<1>6. /\ k = "m2" => o \in M2
      /\ k # "group" => o \in Counted
    BY <1>2, <1>4 DEF Of, Kinds, Counted
<1>7. stale' \subseteq {"ask", "release", "find", "unload", "load", "clear",
                        "parent", "init"} \X Objects
    BY <1>1, <1>4, StaleType
<1>8. MainFrame /\ UNCHANGED <<mem, tasks, buffer, idVars>> /\ main' = [main EXCEPT !.worked = TRUE]
    BY DEF InitObject
<1>9. UserTypeOK' /\ ThreadTypeOK'
    BY <1>8, MainFrameType DEF ThreadTypeOK, MainFrame, idVars
<1>10. CASE k = "m2" /\ o \notin initialized \cup profiled
  <2>1. profiled' = profiled \cup {o} /\ UNCHANGED <<cacheVars, initialized, toInit, gc>>
      BY <1>1, <1>10
  <2>2. ObjectTypeOK'
      BY <1>6, <1>7, <1>8, <1>10, <2>1 DEF ObjectTypeOK, MainFrame
  <2>3. CacheTypeOK' /\ QueueTypeOK'
      BY <1>8, <2>1 DEF CacheTypeOK, QueueTypeOK, MainFrame, cacheVars
  <2>4. QED
      BY <1>9, <2>2, <2>3
<1>11. CASE ~(k = "m2" /\ o \notin initialized \cup profiled)
  <2>1. /\ initialized' = initialized \cup {o}
        /\ toInit' = [toInit EXCEPT ![k] = Tail(@)]
        /\ IF k = "group" THEN UNCHANGED <<cacheVars, gc>> ELSE Unref(o)
        /\ UNCHANGED profiled
      BY <1>1, <1>11
  <2>2. ObjectTypeOK'
      BY <1>4, <1>7, <1>8, <2>1 DEF ObjectTypeOK, MainFrame
  <2>3. /\ refs' \in [Counted -> Nat]
        /\ badUnref' \subseteq Counted /\ lateRef' \subseteq Counted
        /\ gc' \in [Slots -> Seq(Objects)]
    <3>1. CASE k = "group"
        BY <2>1, <3>1 DEF CacheTypeOK, QueueTypeOK, cacheVars
    <3>2. CASE k # "group"
        BY <1>6, <2>1, <3>2, UnrefType DEF Unref, ObjectTypeOK
    <3>3. QED
        BY <3>1, <3>2
  <2>4. /\ toInit' \in [Kinds -> Seq(Objects)]
        /\ \A j \in Kinds : toInit'[j] \in Seq(Of[j])
      BY <1>2, <1>5, <2>1 DEF QueueTypeOK
  <2>5. CacheTypeOK' /\ QueueTypeOK'
      BY <1>8, <2>3, <2>4 DEF CacheTypeOK, QueueTypeOK, MainFrame
  <2>6. QED
      BY <1>9, <2>2, <2>5
<1>12. QED
    BY <1>10, <1>11

LEMMA GcObjectType ==
  ASSUME TypeOK, GcObject
  PROVE  TypeOK'
<1> USE DEF TypeOK
<1> DEFINE o == Head(gc[drawId])
<1>1. gc[drawId] \in Seq(Objects) /\ gc[drawId] # <<>> /\ drawId \in Slots
    BY DEF GcObject, QueueTypeOK, ThreadTypeOK
<1>2. o \in Objects /\ Tail(gc[drawId]) \in Seq(Objects)
    BY <1>1, HeadTailProperties
<1>3. gc' \in [Slots -> Seq(Objects)]
    BY <1>1, <1>2 DEF GcObject, QueueTypeOK
<1>4. <<"unload", KindOf(o)>> \in TaskTypes /\ <<o>> \in Seq(Of[<<"unload", KindOf(o)>>[2]])
    BY <1>2, LoadTask
<1>5. tasks' = Push(tasks, <<"unload", KindOf(o)>>, <<o>>)
    BY DEF GcObject
<1>6. /\ tasks' \in [TaskTypes -> Seq(Objects)]
      /\ \A t \in TaskTypes : tasks'[t] \in Seq(Of[t[2]])
    BY <1>4, <1>5, PushTask
<1>7. MainFrame /\ UNCHANGED <<cacheVars, mem, initialized, profiled, buffer, toInit, idVars, main, stale>>
    BY DEF GcObject
<1>8. CacheTypeOK' /\ UserTypeOK' /\ ObjectTypeOK' /\ ThreadTypeOK'
    BY <1>7 DEF MainFrame, CacheTypeOK, UserTypeOK, ObjectTypeOK, ThreadTypeOK, cacheVars, idVars
<1>9. QueueTypeOK'
    BY <1>3, <1>6, <1>7 DEF QueueTypeOK
<1>10. QED
    BY <1>8, <1>9

(* GcEnd and NextFrame also move the frame slots                           *)
LEMMA MainMovesType ==
  ASSUME TypeOK, InitEnd \/ GcEnd \/ NextFrame
  PROVE  TypeOK'
<1> USE DEF TypeOK
<1>1. /\ MainFrame
      /\ UNCHANGED <<cacheVars, mem, initialized, profiled, tasks, buffer, toInit, gc, stale>>
    BY DEF InitEnd, GcEnd, NextFrame
<1>2. CacheTypeOK' /\ UserTypeOK' /\ ObjectTypeOK' /\ QueueTypeOK'
    BY <1>1 DEF MainFrame, CacheTypeOK, UserTypeOK, ObjectTypeOK, QueueTypeOK, cacheVars
<1>3. drawId' \in Slots /\ cullId' \in Slots
    BY DEF InitEnd, GcEnd, NextFrame, NextSlot, Slots, ThreadTypeOK, idVars
<1>4. Goto("gc") \/ Goto("drain") \/ Goto("post") \/ Goto("frame")
    BY DEF InitEnd, GcEnd, NextFrame
<1>5. ThreadTypeOK'
    BY <1>1, <1>3, <1>4 DEF MainFrame, ThreadTypeOK, Goto
<1>6. QED
    BY <1>2, <1>5

LEMMA MainStepType ==
  ASSUME TypeOK, FrameStep \/ NextFrame \/ Quit \/ ShutdownStep
  PROVE  TypeOK'
<1>1. CASE Tick
  <2>1. MainFrame /\ MainIdle /\ UNCHANGED idVars /\ QueueBuffers
      BY <1>1 DEF Tick, MainIdle
  <2>2. QED
      BY <2>1, MainIdleType DEF QueueBuffers, TypeOK, ThreadTypeOK
<1>2. CASE Quit \/ StartDrain \/ DrainTick \/ DrainEnd \/ AsyncWait \/ AsyncEnd
  <2>1. /\ MainFrame /\ MainIdle /\ UNCHANGED idVars
        /\ (buffer' = buffer /\ toInit' = toInit) \/ QueueBuffers
      BY <1>2 DEF Quit, StartDrain, DrainTick, DrainEnd, AsyncWait, AsyncEnd
  <2>2. main' \in [at : {"frame", "init", "gc", "post", "quit", "drain", "async", "torn"},
                   worked : BOOLEAN, quitting : BOOLEAN, done : BOOLEAN]
      BY <1>2 DEF Quit, StartDrain, DrainTick, DrainEnd, AsyncWait, AsyncEnd, QueueBuffers,
                  Goto, TypeOK, ThreadTypeOK
  <2>3. QED
      BY <2>1, <2>2, MainIdleType
<1>3. QED
    BY <1>1, <1>2, InitObjectType, GcObjectType, MainMovesType DEF FrameStep, ShutdownStep

LEMMA StutterType == ASSUME TypeOK, UNCHANGED vars PROVE TypeOK'
BY DEF vars, TypeOK, CacheTypeOK, UserTypeOK, ObjectTypeOK, QueueTypeOK, ThreadTypeOK

(* The counts never become negative, the slots stay within the ring, and   *)
(* a queue, which the C code casts without a tag, only ever holds          *)
(* resources of its kind: for any number of resources, users and workers.  *)
THEOREM TypeCorrect == Spec => []TypeOK
<1>1. Init => TypeOK
    BY InitType
<1>2. TypeOK /\ [Next]_vars => TypeOK'
    BY UserStepType, WorkerStepType, MainStepType, StutterType DEF Next, Torn
<1>3. QED
    BY <1>1, <1>2, PTL DEF Spec

-----------------------------------------------------------------------------
(* How many threads are at something with a resource                      *)

LEMMA WorkersCounted ==
  ASSUME NEW o, NEW ats
  PROVE  /\ Working(o, ats) \in Nat
         /\ Working(o, ats) > 0 <=> \E w \in Workers : worker[w].at \in ats /\ worker[w].obj = o
<1> DEFINE A == {w \in Workers : worker[w].at \in ats /\ worker[w].obj = o}
<1>1. IsFiniteSet(A)
    BY ThreadsAreFinite, FS_Subset
<1>2. Cardinality(A) \in Nat /\ (Cardinality(A) = 0 <=> A = {})
    BY <1>1, CardinalityNat
<1>3. QED
    BY <1>2 DEF Working

(* what a worker turns to is all that changes in what the workers do       *)
LEMMA WorkerChanges ==
  ASSUME NEW w \in Workers, \A v \in Workers : v # w => worker'[v] = worker[v], NEW o, NEW ats
  PROVE  /\ Working(o, ats)' \in Nat /\ Working(o, ats) \in Nat
         /\ Working(o, ats)' + (IF worker[w].at \in ats /\ worker[w].obj = o THEN 1 ELSE 0)
              = Working(o, ats) + (IF worker'[w].at \in ats /\ worker'[w].obj = o THEN 1 ELSE 0)
<1> DEFINE A == {v \in Workers : worker[v].at \in ats /\ worker[v].obj = o}
           B == {v \in Workers : worker'[v].at \in ats /\ worker'[v].obj = o}
<1>1. A \in SUBSET Workers /\ B \in SUBSET Workers /\ \A v \in Workers : v # w => (v \in A <=> v \in B)
    OBVIOUS
<1>2. Working(o, ats) = Cardinality(A) /\ Working(o, ats)' = Cardinality(B)
    BY DEF Working
<1>3. /\ w \in A <=> worker[w].at \in ats /\ worker[w].obj = o
      /\ w \in B <=> worker'[w].at \in ats /\ worker'[w].obj = o
    OBVIOUS
<1> HIDE DEF A, B
<1>4. QED
    BY <1>1, <1>2, <1>3, CountChange, ThreadsAreFinite

Holds(o) == Cardinality({u \in Users : o \in held[u]})

LEMMA UsersCounted ==
  ASSUME NEW o, NEW at
  PROVE  /\ Holds(o) \in Nat /\ Asking(o, at) \in Nat
         /\ Holds(o) > 0 <=> \E u \in Users : o \in held[u]
         /\ Asking(o, at) > 0 <=>
              \E u \in Users : asking[u] # NotAsking /\ asking[u].at = at /\ asking[u].obj = o
<1> DEFINE A == {u \in Users : o \in held[u]}
           B == {u \in Users : asking[u] # NotAsking /\ asking[u].at = at /\ asking[u].obj = o}
<1>1. IsFiniteSet(A) /\ IsFiniteSet(B)
    BY ThreadsAreFinite, FS_Subset
<1>2. Cardinality(A) \in Nat /\ (Cardinality(A) = 0 <=> A = {})
    BY <1>1, CardinalityNat
<1>3. Cardinality(B) \in Nat /\ (Cardinality(B) = 0 <=> B = {})
    BY <1>1, CardinalityNat
<1>4. QED
    BY <1>2, <1>3 DEF Holds, Asking

LEMMA HolderChanges ==
  ASSUME NEW u \in Users, \A v \in Users : v # u => held'[v] = held[v], NEW o
  PROVE  /\ Holds(o)' \in Nat /\ Holds(o) \in Nat
         /\ Holds(o)' + (IF o \in held[u] THEN 1 ELSE 0) = Holds(o) + (IF o \in held'[u] THEN 1 ELSE 0)
<1> DEFINE A == {v \in Users : o \in held[v]}
           B == {v \in Users : o \in held'[v]}
<1>1. A \in SUBSET Users /\ B \in SUBSET Users /\ \A v \in Users : v # u => (v \in A <=> v \in B)
    OBVIOUS
<1>2. Holds(o) = Cardinality(A) /\ Holds(o)' = Cardinality(B)
    BY DEF Holds
<1>3. (u \in A <=> o \in held[u]) /\ (u \in B <=> o \in held'[u])
    OBVIOUS
<1> HIDE DEF A, B
<1>4. QED
    BY <1>1, <1>2, <1>3, CountChange, ThreadsAreFinite

AsksAt(q, o, at) == q # NotAsking /\ q.at = at /\ q.obj = o

LEMMA AskerChanges ==
  ASSUME NEW u \in Users, \A v \in Users : v # u => asking'[v] = asking[v], NEW o, NEW at
  PROVE  /\ Asking(o, at)' \in Nat /\ Asking(o, at) \in Nat
         /\ Asking(o, at)' + (IF AsksAt(asking[u], o, at) THEN 1 ELSE 0)
              = Asking(o, at) + (IF AsksAt(asking'[u], o, at) THEN 1 ELSE 0)
<1> DEFINE A == {v \in Users : asking[v] # NotAsking /\ asking[v].at = at /\ asking[v].obj = o}
           B == {v \in Users : asking'[v] # NotAsking /\ asking'[v].at = at /\ asking'[v].obj = o}
<1>1. A \in SUBSET Users /\ B \in SUBSET Users /\ \A v \in Users : v # u => (v \in A <=> v \in B)
    OBVIOUS
<1>2. Asking(o, at) = Cardinality(A) /\ Asking(o, at)' = Cardinality(B)
    BY DEF Asking
<1>3. (u \in A <=> AsksAt(asking[u], o, at)) /\ (u \in B <=> AsksAt(asking'[u], o, at))
    BY DEF AsksAt
<1> HIDE DEF A, B
<1>4. QED
    BY <1>1, <1>2, <1>3, CountChange, ThreadsAreFinite

(* the queues hold what they hold                                          *)
LEMMA QueuesCounted ==
  ASSUME QueueTypeOK, NEW o
  PROVE  /\ \A t \in TaskTypes : Times(o, tasks[t]) \in Nat
         /\ \A k \in Kinds : Times(o, buffer[k]) \in Nat /\ Times(o, toInit[k]) \in Nat
         /\ \A s \in Slots : Times(o, gc[s]) \in Nat
BY PlacesFinite DEF QueueTypeOK

LEMMA PinsCounted ==
  ASSUME QueueTypeOK, NEW o \in Objects
  PROVE  /\ Pins(o) \in Nat
         /\ Times(o, tasks[<<"load", KindOf(o)>>]) \in Nat
         /\ Working(o, {"load", "fill", "post"}) \in Nat
         /\ Times(o, buffer[KindOf(o)]) \in Nat /\ Times(o, toInit[KindOf(o)]) \in Nat
<1>1. <<"load", KindOf(o)>> \in TaskTypes /\ KindOf(o) \in Kinds
    BY LoadTask, KindOfObject
<1>2. Working(o, {"load", "fill", "post"}) \in Nat
    BY WorkersCounted
<1>3. Times(o, tasks[<<"load", KindOf(o)>>]) \in Nat
    BY <1>1, QueuesCounted
<1>4. Times(o, buffer[KindOf(o)]) \in Nat /\ Times(o, toInit[KindOf(o)]) \in Nat
    BY <1>1, QueuesCounted
<1>5. QED
    BY <1>2, <1>3, <1>4 DEF Pins

LEMMA TaskGained ==
  ASSUME QueueTypeOK, NEW t \in TaskTypes, NEW q \in Seq(Objects), tasks' = Push(tasks, t, q), NEW o
  PROVE  Times(o, tasks'[t]) = Times(o, tasks[t]) + Times(o, q)
<1>1. PICK p \in Seq(Objects) : p = tasks[t]
    BY DEF QueueTypeOK
<1>2. tasks'[t] = p \o q
    BY <1>1 DEF Push, QueueTypeOK
<1>3. Times(o, p \o q) = Times(o, p) + Times(o, q)
    BY TimesConcat
<1>4. QED
    BY <1>1, <1>2, <1>3

LEMMA TaskPushed ==
  ASSUME QueueTypeOK, NEW t \in TaskTypes, NEW q \in Seq(Objects), tasks' = Push(tasks, t, q), NEW o
  PROVE  \A u \in TaskTypes :
           Times(o, tasks'[u]) = Times(o, tasks[u]) + (IF u = t THEN Times(o, q) ELSE 0)
<1>1. \A u \in TaskTypes : u # t => tasks'[u] = tasks[u]
    BY DEF Push, QueueTypeOK
<1>3. Times(o, tasks'[t]) = Times(o, tasks[t]) + Times(o, q)
    BY TaskGained
<1>4. \A u \in TaskTypes : Times(o, tasks[u]) \in Nat
    BY QueuesCounted
<1>5. ASSUME NEW u \in TaskTypes, u # t PROVE Times(o, tasks'[u]) = Times(o, tasks[u]) + 0
  <2>1. tasks'[u] = tasks[u] /\ Times(o, tasks[u]) \in Nat
      BY <1>1, <1>4, <1>5
  <2>2. QED
      BY <2>1
<1>6. QED
    BY <1>3, <1>5

LEMMA BufferPushed ==
  ASSUME QueueTypeOK, NEW p \in Objects, buffer' = Push(buffer, KindOf(p), <<p>>), NEW o \in Objects
  PROVE  Times(o, buffer'[KindOf(o)]) = Times(o, buffer[KindOf(o)]) + (IF o = p THEN 1 ELSE 0)
<1>1. KindOf(p) \in Kinds /\ KindOf(o) \in Kinds
    BY KindOfObject
<1>2. /\ buffer'[KindOf(p)] = buffer[KindOf(p)] \o <<p>>
      /\ KindOf(o) # KindOf(p) => buffer'[KindOf(o)] = buffer[KindOf(o)]
    BY <1>1 DEF Push, QueueTypeOK
<1>3. PICK s \in Seq(Objects), t \in Seq(Objects) : s = buffer[KindOf(p)] /\ t = <<p>>
  <2>1. PICK s \in Seq(Objects) : s = buffer[KindOf(p)]
      BY <1>1 DEF QueueTypeOK
  <2>2. PICK t \in Seq(Objects) : t = <<p>>
    <3>1. <<p>> \in Seq(Objects)
        OBVIOUS
    <3>2. QED
        BY <3>1
  <2>3. QED
      BY <2>1, <2>2
<1>4. Times(o, s \o t) = Times(o, s) + Times(o, t)
    BY TimesConcat
<1>5. Times(o, buffer'[KindOf(p)]) = Times(o, buffer[KindOf(p)]) + (IF o = p THEN 1 ELSE 0)
    BY <1>2, <1>3, <1>4, TimesOne
<1>6. Times(o, buffer[KindOf(o)]) \in Nat
    BY <1>1, QueuesCounted
<1>7. CASE KindOf(o) = KindOf(p)
    BY <1>5, <1>7
<1>8. CASE KindOf(o) # KindOf(p)
  <2>1. o # p /\ buffer'[KindOf(o)] = buffer[KindOf(o)]
      BY <1>2, <1>8
  <2>2. QED
      BY <1>6, <2>1
<1>9. QED
    BY <1>7, <1>8

-----------------------------------------------------------------------------
(* The references and who will give them back                              *)

AskersHold ==
  \A u \in Users : asking[u] # NotAsking =>
    /\ asking[u].obj \in held[u]
    /\ asking[u].at = "mark" \/ asking[u].obj \in asked

(* what was referenced too late had lost its last reference before, and    *)
(* nobody will ask for it or load it again                                 *)
LateIsDead ==
  \A o \in lateRef :
    /\ o \in M2 /\ refs[o] = 0 /\ mem[o] # "unborn" /\ o \in asked /\ Pins(o) = 0
    /\ \A u \in Users : asking[u] # NotAsking /\ asking[u].obj = o => asking[u].at = "ref"

HeldIsBorn == \A o \in Counted : mem[o] = "unborn" => \A u \in Users : o \notin held[u]

Accounts == /\ TypeOK /\ AskersHold /\ RefsAccounted /\ LateIsDead /\ HeldIsBorn
            /\ badUnref \subseteq lateRef

Owed(o) == IF o \in M2 THEN -Asking(o, "ref") ELSE Asking(o, "push")

LEMMA RefsAre ==
  ASSUME RefsAccounted, NEW o \in Counted, o \notin lateRef
  PROVE  refs[o] = Holds(o) + Pins(o) + leaks[o] + Owed(o)
BY DEF RefsAccounted, Holds, Owed

(* an asker that will take its reference is a holder                       *)
LEMMA AskersAreHolders ==
  ASSUME AskersHold, NEW o
  PROVE  /\ Asking(o, "ref") <= Holds(o)
         /\ \A u \in Users : o \in held[u] /\ ~AsksAt(asking[u], o, "ref") => Asking(o, "ref") < Holds(o)
<1> DEFINE A == {u \in Users : asking[u] # NotAsking /\ asking[u].at = "ref" /\ asking[u].obj = o}
           H == {u \in Users : o \in held[u]}
<1>1. IsFiniteSet(A) /\ IsFiniteSet(H)
    BY ThreadsAreFinite, FS_Subset
<1>2. A \subseteq H
    BY DEF AskersHold
<1>3. Cardinality(A) <= Cardinality(H) /\ (Cardinality(A) = Cardinality(H) => A = H)
  <2> HIDE DEF A, H
  <2>1. QED
      BY <1>1, <1>2, FS_Subset
<1>4. Cardinality(A) \in Nat /\ Cardinality(H) \in Nat
  <2> HIDE DEF A, H
  <2>1. QED
      BY <1>1, CardinalityNat
<1>5. Asking(o, "ref") = Cardinality(A) /\ Holds(o) = Cardinality(H)
    BY DEF Asking, Holds
<1>6. ASSUME NEW u \in Users, o \in held[u], ~AsksAt(asking[u], o, "ref")
      PROVE  A # H
    BY <1>6 DEF AsksAt
<1> HIDE DEF A, H
<1>7. QED
    BY <1>3, <1>4, <1>5, <1>6

(* what is being loaded is in the cache, and so is what a user holds that  *)
(* is not at the end of an ask_load                                        *)
LEMMA PinnedIsCounted ==
  ASSUME Accounts, NEW o \in Counted, Pins(o) > 0
  PROVE  o \notin lateRef /\ refs[o] > 0
<1>1. o \notin lateRef
    BY DEF Accounts, LateIsDead
<1>2. refs[o] = Holds(o) + Pins(o) + leaks[o] + Owed(o)
    BY <1>1, RefsAre DEF Accounts
<1>3. Asking(o, "ref") <= Holds(o) /\ Asking(o, "ref") \in Nat /\ Asking(o, "push") \in Nat
      /\ Holds(o) \in Nat
    BY AskersAreHolders, UsersCounted DEF Accounts
<1>4. Pins(o) \in Nat /\ leaks[o] \in Nat
    BY PinsCounted DEF Accounts, TypeOK, CacheTypeOK, Objects
<1>5. QED
    BY <1>1, <1>2, <1>3, <1>4 DEF Owed

LEMMA HeldIsCounted ==
  ASSUME Accounts, NEW u \in Users, NEW o \in Counted, o \in held[u], o \notin lateRef,
         o \notin M2 \/ ~AsksAt(asking[u], o, "ref")
  PROVE  refs[o] > 0
<1>1. refs[o] = Holds(o) + Pins(o) + leaks[o] + Owed(o)
    BY RefsAre DEF Accounts
<1>2. Asking(o, "ref") \in Nat /\ Asking(o, "push") \in Nat /\ Holds(o) \in Nat /\ Holds(o) > 0
    BY UsersCounted
<1>3. Pins(o) \in Nat /\ leaks[o] \in Nat
    BY PinsCounted DEF Accounts, TypeOK, CacheTypeOK, Objects
<1>4. o \in M2 => Asking(o, "ref") < Holds(o)
    BY AskersAreHolders DEF Accounts
<1>5. QED
    BY <1>1, <1>2, <1>3, <1>4 DEF Owed

(* a model out of the cache: every holder is at the end of an ask_load     *)
LEMMA OutOfCache ==
  ASSUME Accounts, NEW o \in Counted, o \notin lateRef, refs[o] = 0
  PROVE  /\ Pins(o) = 0
         /\ \A u \in Users : o \in held[u] => o \in M2 /\ AsksAt(asking[u], o, "ref")
<1>1. Pins(o) \in Nat
    BY PinsCounted DEF Accounts, TypeOK, Objects
<1>2. QED
    BY <1>1, PinnedIsCounted, HeldIsCounted DEF Accounts

LEMMA PinsKept ==
  ASSUME UNCHANGED <<tasks, worker, buffer, toInit>>, NEW o
  PROVE  Pins(o)' = Pins(o)
BY DEF Pins, Working

LEMMA HoldsKept == ASSUME held' = held, NEW o PROVE Holds(o)' = Holds(o)
BY DEF Holds

LEMMA AskingKept == ASSUME asking' = asking, NEW o, NEW at PROVE Asking(o, at)' = Asking(o, at)
BY DEF Asking

LEMMA RefsAreNext ==
  ASSUME \A o \in Counted \ lateRef' : refs'[o] = Holds(o)' + Pins(o)' + leaks'[o] + Owed(o)'
  PROVE  RefsAccounted'
BY DEF RefsAccounted, Holds, Owed

LEMMA CountsAreNat ==
  ASSUME TypeOK, NEW o \in Counted
  PROVE  /\ Holds(o) \in Nat /\ Asking(o, "ref") \in Nat /\ Asking(o, "push") \in Nat
         /\ Pins(o) \in Nat /\ leaks[o] \in Nat /\ refs[o] \in Nat
BY UsersCounted, PinsCounted DEF TypeOK, CacheTypeOK, Objects

LEMMA RefByKeyAccounts ==
  ASSUME Accounts, NEW u \in Users, NEW o \in Counted, RefByKey(u, o)
  PROVE  Accounts'
<1>1. TypeOK /\ AskersHold /\ RefsAccounted /\ LateIsDead /\ HeldIsBorn /\ badUnref \subseteq lateRef
    BY DEF Accounts
<1>2. TypeOK'
    BY <1>1, UserStepType DEF UserStep
<1>3. /\ UNCHANGED <<asking, asked, tasks, worker, buffer, toInit, badUnref, lateRef, leaks>>
      /\ o \notin held[u] /\ held' = [held EXCEPT ![u] = held[u] \cup {o}]
      /\ refs' = [refs EXCEPT ![o] = refs[o] + 1] /\ mem' = [mem EXCEPT ![o] = "live"]
      /\ refs[o] > 0 \/ mem[o] = "unborn"
    BY DEF RefByKey, flagVars
<1>4. held \in [Users -> SUBSET Counted] /\ mem \in [Objects -> {"unborn", "live", "freed"}]
      /\ refs \in [Counted -> Nat] /\ lateRef \subseteq Counted /\ Counted \subseteq Objects
    BY <1>1 DEF TypeOK, UserTypeOK, ObjectTypeOK, CacheTypeOK, Objects
<1>5. o \notin lateRef
    BY <1>1, <1>3, <1>4 DEF LateIsDead
<1>6. AskersHold'
    BY <1>1, <1>3, <1>4 DEF AskersHold
<1>7. HeldIsBorn'
    BY <1>1, <1>3, <1>4 DEF HeldIsBorn
<1>8. LateIsDead'
    BY <1>1, <1>3, <1>4, <1>5, PinsKept DEF LateIsDead
<1>9. RefsAccounted'
  <2> SUFFICES ASSUME NEW p \in Counted, p \notin lateRef
               PROVE  refs'[p] = Holds(p)' + Pins(p)' + leaks'[p] + Owed(p)'
      BY <1>3, RefsAreNext
  <2>1. Holds(p)' = Holds(p) + (IF p = o THEN 1 ELSE 0)
    <3>1. Holds(p)' + (IF p \in held[u] THEN 1 ELSE 0) = Holds(p) + (IF p \in held'[u] THEN 1 ELSE 0)
          /\ Holds(p)' \in Nat /\ Holds(p) \in Nat
        BY <1>3, <1>4, HolderChanges
    <3>2. QED
        BY <1>3, <1>4, <3>1
  <2>2. Pins(p)' = Pins(p) /\ Owed(p)' = Owed(p)
      BY <1>3, PinsKept, AskingKept DEF Owed
  <2>3. refs[p] = Holds(p) + Pins(p) + leaks[p] + Owed(p)
      BY <1>1, RefsAre
  <2>4. refs'[p] = refs[p] + (IF p = o THEN 1 ELSE 0)
      BY <1>3, <1>4
  <2>5. QED
      BY <1>1, <1>3, <2>1, <2>2, <2>3, <2>4, CountsAreNat DEF Owed
<1>10. QED
    BY <1>2, <1>3, <1>1, <1>6, <1>7, <1>8, <1>9 DEF Accounts

LEMMA AskCheckAccounts ==
  ASSUME Accounts, NEW u \in Users, NEW o \in Counted, AskCheck(u, o)
  PROVE  Accounts'
<1>1. TypeOK /\ AskersHold /\ RefsAccounted /\ LateIsDead /\ HeldIsBorn /\ badUnref \subseteq lateRef
    BY DEF Accounts
<1>2. TypeOK'
    BY <1>1, UserStepType DEF UserStep
<1> DEFINE q == [at |-> "mark", obj |-> o]
<1>3. /\ UNCHANGED <<refs, mem, held, asked, tasks, worker, buffer, toInit, badUnref, lateRef, leaks>>
      /\ asking[u] = NotAsking /\ o \in held[u] /\ o \notin asked
      /\ asking' = [asking EXCEPT ![u] = q]
    BY DEF AskCheck, flagVars, cacheVars
<1>4. asking'[u] = q /\ \A v \in Users : v # u => asking'[v] = asking[v]
    BY <1>1, <1>3 DEF TypeOK, UserTypeOK
<1>5. o \notin lateRef
    BY <1>1, <1>3 DEF LateIsDead
<1>6. AskersHold'
    BY <1>1, <1>3, <1>4 DEF AskersHold
<1>7. HeldIsBorn'
    BY <1>1, <1>3 DEF HeldIsBorn
<1>8. LateIsDead'
    BY <1>1, <1>3, <1>4, <1>5, PinsKept DEF LateIsDead
<1>9. RefsAccounted'
  <2> SUFFICES ASSUME NEW p \in Counted, p \notin lateRef
               PROVE  refs'[p] = Holds(p)' + Pins(p)' + leaks'[p] + Owed(p)'
      BY <1>3, RefsAreNext
  <2>1. Asking(p, "ref")' = Asking(p, "ref") /\ Asking(p, "push")' = Asking(p, "push")
    <3>1. \A at \in {"ref", "push"} : ~AsksAt(asking[u], p, at) /\ ~AsksAt(asking'[u], p, at)
        BY <1>3, <1>4 DEF AsksAt
    <3>2. \A at \in {"ref", "push"} :
            /\ Asking(p, at)' \in Nat /\ Asking(p, at) \in Nat
            /\ Asking(p, at)' + (IF AsksAt(asking[u], p, at) THEN 1 ELSE 0)
                 = Asking(p, at) + (IF AsksAt(asking'[u], p, at) THEN 1 ELSE 0)
        BY <1>4, AskerChanges
    <3>3. QED
        BY <3>1, <3>2
  <2>2. Pins(p)' = Pins(p) /\ Owed(p)' = Owed(p) /\ Holds(p)' = Holds(p)
      BY <1>3, <2>1, PinsKept, HoldsKept DEF Owed
  <2>3. refs[p] = Holds(p) + Pins(p) + leaks[p] + Owed(p)
      BY <1>1, RefsAre
  <2>4. QED
      BY <1>3, <2>2, <2>3
<1>10. QED
    BY <1>2, <1>3, <1>1, <1>6, <1>7, <1>8, <1>9 DEF Accounts

(* one more load of o is queued                                            *)
LEMMA PinsPushed ==
  ASSUME QueueTypeOK, NEW o \in Objects, tasks' = Push(tasks, <<"load", KindOf(o)>>, <<o>>),
         UNCHANGED <<worker, buffer, toInit>>, NEW p \in Objects
  PROVE  Pins(p)' = Pins(p) + (IF p = o THEN 1 ELSE 0)
<1> DEFINE t == <<"load", KindOf(p)>>
<1>0. <<o>> \in Seq(Objects)
    OBVIOUS
<1>1. t \in TaskTypes /\ <<"load", KindOf(o)>> \in TaskTypes
    BY LoadTask
<1>2. Times(p, tasks'[t]) = Times(p, tasks[t])
                             + (IF t = <<"load", KindOf(o)>> THEN Times(p, <<o>>) ELSE 0)
    BY <1>0, <1>1, TaskPushed
<1>3. Times(p, <<o>>) = IF p = o THEN 1 ELSE 0
    BY TimesOne
<1>4. Times(p, tasks[t]) \in Nat
    BY PinsCounted
<1>5. Times(p, tasks'[t]) = Times(p, tasks[t]) + (IF p = o THEN 1 ELSE 0)
  <2>1. CASE p = o
      BY <1>2, <1>3, <2>1
  <2>2. CASE p # o
      BY <1>2, <1>3, <1>4, <2>2
  <2>3. QED
      BY <2>1, <2>2
<1>6. Working(p, {"load", "fill", "post"})' = Working(p, {"load", "fill", "post"})
    BY DEF Working
<1>7. QED
    BY <1>5, <1>6, PinsCounted DEF Pins

(* an asker goes from one half of ask_load to the other                    *)
LEMMA AskerMoves ==
  ASSUME TypeOK, NEW u \in Users, NEW q, asking' = [asking EXCEPT ![u] = q]
  PROVE  /\ asking'[u] = q /\ \A v \in Users : v # u => asking'[v] = asking[v]
         /\ \A o \in Counted : \A at \in {"ref", "push"} :
              Asking(o, at)' = Asking(o, at) + (IF AsksAt(q, o, at) THEN 1 ELSE 0)
                                - (IF AsksAt(asking[u], o, at) THEN 1 ELSE 0)
<1>1. asking'[u] = q /\ \A v \in Users : v # u => asking'[v] = asking[v]
    BY DEF TypeOK, UserTypeOK
<1>2. ASSUME NEW o \in Counted, NEW at \in {"ref", "push"}
      PROVE  Asking(o, at)' = Asking(o, at) + (IF AsksAt(q, o, at) THEN 1 ELSE 0)
                                - (IF AsksAt(asking[u], o, at) THEN 1 ELSE 0)
  <2>1. /\ Asking(o, at)' \in Nat /\ Asking(o, at) \in Nat
        /\ Asking(o, at)' + (IF AsksAt(asking[u], o, at) THEN 1 ELSE 0)
             = Asking(o, at) + (IF AsksAt(asking'[u], o, at) THEN 1 ELSE 0)
      BY <1>1, AskerChanges
  <2>2. QED
      BY <1>1, <2>1
<1>3. \A o \in Counted : \A at \in {"ref", "push"} :
        Asking(o, at)' = Asking(o, at) + (IF AsksAt(q, o, at) THEN 1 ELSE 0)
                          - (IF AsksAt(asking[u], o, at) THEN 1 ELSE 0)
    BY <1>2
<1>4. QED
    BY <1>1, <1>3

LEMMA AskMarkAccounts ==
  ASSUME Accounts, NEW u \in Users, AskMark(u)
  PROVE  Accounts'
<1>1. TypeOK /\ AskersHold /\ RefsAccounted /\ LateIsDead /\ HeldIsBorn /\ badUnref \subseteq lateRef
    BY DEF Accounts
<1>2. TypeOK'
    BY <1>1, UserStepType DEF UserStep
<1>0. PICK o \in Counted : asking[u] = [at |-> "mark", obj |-> o]
    BY <1>1, AskerObject DEF AskMark, TypeOK
<1>3. asking[u] # NotAsking
    BY <1>0 DEF NotAsking
<1> DEFINE q == [at |-> IF o \in M2 THEN "push" ELSE "ref", obj |-> o]
<1>4. /\ UNCHANGED <<refs, mem, held, tasks, worker, buffer, toInit, badUnref, lateRef, leaks>>
      /\ asked' = asked \cup {o}
      /\ asking' = [asking EXCEPT ![u] = q]
  <2>1. asking' = [asking EXCEPT ![u].at = IF o \in M2 THEN "push" ELSE "ref"]
      BY <1>0 DEF AskMark
  <2>2. [asking[u] EXCEPT !.at = IF o \in M2 THEN "push" ELSE "ref"] = q
      BY <1>0
  <2>3. asking' = [asking EXCEPT ![u] = q]
      BY <2>1, <2>2
  <2>4. asked' = asked \cup {o}
      BY <1>0 DEF AskMark
  <2>5. UNCHANGED <<refs, mem, held, tasks, worker, buffer, toInit, badUnref, lateRef, leaks>>
      BY DEF AskMark, cacheVars
  <2>6. QED
      BY <2>3, <2>4, <2>5
<1> HIDE DEF q
<1>5. /\ asking'[u] = q /\ \A v \in Users : v # u => asking'[v] = asking[v]
      /\ \A p \in Counted : \A at \in {"ref", "push"} :
           Asking(p, at)' = Asking(p, at) + (IF AsksAt(q, p, at) THEN 1 ELSE 0)
                             - (IF AsksAt(asking[u], p, at) THEN 1 ELSE 0)
    BY <1>1, <1>4, AskerMoves
<1>6. o \notin lateRef
    BY <1>0, <1>1, <1>3 DEF LateIsDead
<1>7. AskersHold'
    BY <1>1, <1>0, <1>3, <1>4, <1>5 DEF AskersHold, q
<1>8. HeldIsBorn'
    BY <1>1, <1>4 DEF HeldIsBorn
<1>9. LateIsDead'
    BY <1>1, <1>4, <1>5, <1>6, PinsKept DEF LateIsDead, q
<1>10. RefsAccounted'
  <2> SUFFICES ASSUME NEW p \in Counted, p \notin lateRef
               PROVE  refs'[p] = Holds(p)' + Pins(p)' + leaks'[p] + Owed(p)'
      BY <1>4, RefsAreNext
  <2>1. Owed(p)' = Owed(p)
    <3>1. CASE p \in M2
      <4>1. ~AsksAt(q, p, "ref") /\ ~AsksAt(asking[u], p, "ref")
          BY <1>0, <1>3, <3>1 DEF AsksAt, q
      <4>2. QED
          BY <1>1, <1>5, <3>1, <4>1, CountsAreNat DEF Owed
    <3>2. CASE p \notin M2
      <4>1. ~AsksAt(q, p, "push") /\ ~AsksAt(asking[u], p, "push")
          BY <1>0, <1>3, <3>2 DEF AsksAt, q
      <4>2. QED
          BY <1>1, <1>5, <3>2, <4>1, CountsAreNat DEF Owed
    <3>3. QED
        BY <3>1, <3>2
  <2>2. Pins(p)' = Pins(p) /\ Holds(p)' = Holds(p)
      BY <1>4, PinsKept, HoldsKept
  <2>3. QED
      BY <1>1, <1>4, <2>1, <2>2, RefsAre
<1>11. QED
    BY <1>1, <1>2, <1>4, <1>7, <1>8, <1>9, <1>10 DEF Accounts

LEMMA AskRefAccounts ==
  ASSUME Accounts, NEW u \in Users, AskRef(u)
  PROVE  Accounts'
<1>1. TypeOK /\ AskersHold /\ RefsAccounted /\ LateIsDead /\ HeldIsBorn /\ badUnref \subseteq lateRef
    BY DEF Accounts
<1>2. TypeOK'
    BY <1>1, UserStepType DEF UserStep
<1>0. PICK o \in Counted : asking[u] = [at |-> "ref", obj |-> o]
    BY <1>1, AskerObject DEF AskRef, TypeOK
<1>3. asking[u] # NotAsking
    BY <1>0 DEF NotAsking
<1> DEFINE q == IF o \in M2 THEN NotAsking ELSE [at |-> "push", obj |-> o]
<1>4. /\ UNCHANGED <<mem, held, asked, tasks, worker, buffer, toInit, badUnref, leaks>>
      /\ Ref(o)
      /\ asking' = [asking EXCEPT ![u] = q]
  <2>1. asking' = [asking EXCEPT ![u] = IF o \in M2 THEN NotAsking ELSE [@ EXCEPT !.at = "push"]]
      BY <1>0 DEF AskRef
  <2>2. [asking[u] EXCEPT !.at = "push"] = [at |-> "push", obj |-> o]
      BY <1>0, <1>3
  <2>3. QED
      BY <1>0, <2>1, <2>2 DEF AskRef, flagVars
<1> HIDE DEF q
<1>5. /\ asking'[u] = q /\ \A v \in Users : v # u => asking'[v] = asking[v]
      /\ \A p \in Counted : \A at \in {"ref", "push"} :
           Asking(p, at)' = Asking(p, at) + (IF AsksAt(q, p, at) THEN 1 ELSE 0)
                             - (IF AsksAt(asking[u], p, at) THEN 1 ELSE 0)
    BY <1>1, <1>4, AskerMoves
<1>6. o \in held[u] /\ o \in asked /\ mem[o] # "unborn"
    BY <1>0, <1>1, <1>3 DEF AskersHold, q, HeldIsBorn
<1>7. o \notin M2 => refs[o] > 0
  <2>1. o \notin M2 => o \notin lateRef
      BY <1>1 DEF LateIsDead
  <2>2. QED
      BY <1>0, <1>3, <1>6, <2>1, HeldIsCounted
<1>8. refs \in [Counted -> Nat] /\ lateRef \subseteq Counted
    BY <1>1 DEF TypeOK, CacheTypeOK
<1>9. AskersHold'
    BY <1>1, <1>0, <1>3, <1>4, <1>5 DEF AskersHold, q
<1>10. HeldIsBorn'
    BY <1>1, <1>4 DEF HeldIsBorn
<1>11. LateIsDead'
  <2>1. ASSUME NEW p \in lateRef
        PROVE  /\ p \in M2 /\ refs'[p] = 0 /\ mem'[p] # "unborn" /\ p \in asked' /\ Pins(p)' = 0
               /\ \A v \in Users : asking'[v] # NotAsking /\ asking'[v].obj = p => asking'[v].at = "ref"
    <3>1. p \in M2 /\ refs[p] = 0
        BY <1>1 DEF LateIsDead
    <3>2. refs'[p] = 0
        BY <1>4, <1>8, <3>1 DEF Ref
    <3>3. QED
        BY <1>1, <1>4, <1>5, <3>1, <3>2, PinsKept DEF LateIsDead, q
  <2>2. ASSUME refs[o] = 0, o \notin lateRef
        PROVE  /\ o \in M2 /\ refs'[o] = 0 /\ mem'[o] # "unborn" /\ o \in asked' /\ Pins(o)' = 0
               /\ \A v \in Users : asking'[v] # NotAsking /\ asking'[v].obj = o => asking'[v].at = "ref"
    <3>1. /\ Pins(o) = 0
          /\ \A v \in Users : o \in held[v] => o \in M2 /\ AsksAt(asking[v], o, "ref")
        BY <1>0, <1>3, <2>2, OutOfCache
    <3>2. \A v \in Users : asking'[v] # NotAsking /\ asking'[v].obj = o => asking'[v].at = "ref"
        BY <1>1, <1>5, <1>6, <3>1 DEF AskersHold, q, AsksAt
    <3>3. Pins(o)' = 0
        BY <1>4, <3>1, PinsKept
    <3>4. QED
        BY <1>4, <1>6, <2>2, <3>1, <3>2, <3>3 DEF Ref
  <2>3. lateRef' = lateRef \/ (lateRef' = lateRef \cup {o} /\ refs[o] = 0)
      BY <1>4 DEF Ref
  <2>4. QED
      BY <2>1, <2>2, <2>3 DEF LateIsDead
<1>12. RefsAccounted'
  <2> SUFFICES ASSUME NEW p \in Counted, p \notin lateRef'
               PROVE  refs'[p] = Holds(p)' + Pins(p)' + leaks'[p] + Owed(p)'
      BY RefsAreNext
  <2>1. p \notin lateRef /\ refs'[p] = refs[p] + (IF p = o THEN 1 ELSE 0)
      BY <1>0, <1>3, <1>4, <1>8 DEF Ref
  <2>2. Owed(p)' = Owed(p) + (IF p = o THEN 1 ELSE 0)
    <3>1. CASE p \in M2
      <4>1. ~AsksAt(q, p, "ref") /\ (AsksAt(asking[u], p, "ref") <=> p = o)
          BY <1>0, <1>3, <3>1 DEF AsksAt, q
      <4>2. QED
          BY <1>1, <1>5, <3>1, <4>1, CountsAreNat DEF Owed
    <3>2. CASE p \notin M2
      <4>1. (AsksAt(q, p, "push") <=> p = o) /\ ~AsksAt(asking[u], p, "push")
          BY <1>0, <1>3, <3>2 DEF AsksAt, q, NotAsking
      <4>2. QED
          BY <1>1, <1>5, <3>2, <4>1, CountsAreNat DEF Owed
    <3>3. QED
        BY <3>1, <3>2
  <2>3. Pins(p)' = Pins(p) /\ Holds(p)' = Holds(p)
      BY <1>4, PinsKept, HoldsKept
  <2>4. refs[p] = Holds(p) + Pins(p) + leaks[p] + Owed(p)
      BY <1>1, <2>1, RefsAre
  <2>5. QED
      BY <1>1, <1>4, <2>1, <2>2, <2>3, <2>4, CountsAreNat DEF Owed
<1>13. badUnref' \subseteq lateRef'
    BY <1>1, <1>4 DEF Ref
<1>14. QED
    BY <1>2, <1>9, <1>10, <1>11, <1>12, <1>13 DEF Accounts

LEMMA AskPushAccounts ==
  ASSUME Accounts, NEW u \in Users, AskPush(u)
  PROVE  Accounts'
<1>1. TypeOK /\ AskersHold /\ RefsAccounted /\ LateIsDead /\ HeldIsBorn /\ badUnref \subseteq lateRef
    BY DEF Accounts
<1>2. TypeOK'
    BY <1>1, UserStepType DEF UserStep
<1>3. PICK o \in Counted : asking[u] = [at |-> "push", obj |-> o]
    BY <1>1, AskerObject DEF AskPush, TypeOK
<1>4. asking[u] # NotAsking
    BY <1>3 DEF NotAsking
<1> DEFINE q == IF o \in M2 THEN [at |-> "ref", obj |-> o] ELSE NotAsking
<1>5. UNCHANGED <<refs, mem, held, asked, worker, buffer, toInit, badUnref, lateRef, leaks>>
    BY DEF AskPush, flagVars, cacheVars
<1>6. tasks' = Push(tasks, <<"load", KindOf(o)>>, <<o>>)
    BY <1>3 DEF AskPush
<1>7. asking' = [asking EXCEPT ![u] = q]
  <2>1. asking' = [asking EXCEPT ![u] = IF o \in M2 THEN [asking[u] EXCEPT !.at = "ref"] ELSE NotAsking]
      BY <1>3 DEF AskPush
  <2>2. [asking[u] EXCEPT !.at = "ref"] = [at |-> "ref", obj |-> o]
      BY <1>3
  <2>3. QED
      BY <2>1, <2>2
<1> HIDE DEF q
<1>8. /\ asking'[u] = q /\ \A v \in Users : v # u => asking'[v] = asking[v]
      /\ \A p \in Counted : \A at \in {"ref", "push"} :
           Asking(p, at)' = Asking(p, at) + (IF AsksAt(q, p, at) THEN 1 ELSE 0)
                             - (IF AsksAt(asking[u], p, at) THEN 1 ELSE 0)
    BY <1>1, <1>7, AskerMoves
<1>9. o \notin lateRef
    BY <1>1, <1>3, <1>4 DEF LateIsDead
<1>10. \A p \in Counted : Pins(p)' = Pins(p) + (IF p = o THEN 1 ELSE 0)
    BY <1>1, <1>5, <1>6, PinsPushed DEF TypeOK, Objects
<1>11. AskersHold'
    BY <1>1, <1>3, <1>4, <1>5, <1>8 DEF AskersHold, q
<1>12. HeldIsBorn'
    BY <1>1, <1>5 DEF HeldIsBorn
<1>13. LateIsDead'
  <2>1. \A p \in lateRef : Pins(p)' = Pins(p)
      BY <1>1, <1>9, <1>10, CountsAreNat DEF TypeOK, CacheTypeOK
  <2>2. \A v \in Users : asking'[v] # NotAsking /\ asking'[v].obj # o => asking'[v] = asking[v]
      BY <1>8 DEF q
  <2>3. QED
      BY <1>1, <1>5, <1>9, <2>1, <2>2 DEF LateIsDead
<1>14. RefsAccounted'
  <2> SUFFICES ASSUME NEW p \in Counted, p \notin lateRef
               PROVE  refs'[p] = Holds(p)' + Pins(p)' + leaks'[p] + Owed(p)'
      BY <1>5, RefsAreNext
  <2>1. Owed(p)' = Owed(p) - (IF p = o THEN 1 ELSE 0)
    <3>1. CASE p \in M2
      <4>1. (AsksAt(q, p, "ref") <=> p = o) /\ ~AsksAt(asking[u], p, "ref")
          BY <1>3, <3>1 DEF AsksAt, q, NotAsking
      <4>2. QED
          BY <1>1, <1>8, <3>1, <4>1, CountsAreNat DEF Owed
    <3>2. CASE p \notin M2
      <4>1. ~AsksAt(q, p, "push") /\ (AsksAt(asking[u], p, "push") <=> p = o)
          BY <1>3, <1>4, <3>2 DEF AsksAt, q
      <4>2. QED
          BY <1>1, <1>8, <3>2, <4>1, CountsAreNat DEF Owed
    <3>3. QED
        BY <3>1, <3>2
  <2>2. Holds(p)' = Holds(p)
      BY <1>5, HoldsKept
  <2>3. refs[p] = Holds(p) + Pins(p) + leaks[p] + Owed(p)
      BY <1>1, RefsAre
  <2>4. QED
      BY <1>1, <1>5, <1>10, <2>1, <2>2, <2>3, CountsAreNat DEF Owed
<1>15. QED
    BY <1>1, <1>2, <1>5, <1>11, <1>12, <1>13, <1>14 DEF Accounts

LEMMA AskLockedAccounts ==
  ASSUME Accounts, NEW u \in Users, NEW o \in Counted, AskLocked(u, o)
  PROVE  Accounts'
<1>1. TypeOK /\ AskersHold /\ RefsAccounted /\ LateIsDead /\ HeldIsBorn /\ badUnref \subseteq lateRef
    BY DEF Accounts
<1>2. TypeOK'
    BY <1>1, UserStepType DEF UserStep
<1>3. /\ UNCHANGED <<mem, held, asking, worker, buffer, toInit, badUnref, leaks>>
      /\ asking[u] = NotAsking /\ o \in held[u] /\ o \notin asked /\ Ref(o)
      /\ asked' = asked \cup {o}
      /\ tasks' = Push(tasks, <<"load", KindOf(o)>>, <<o>>)
    BY DEF AskLocked
<1>4. o \notin lateRef
    BY <1>1, <1>3 DEF LateIsDead
<1>5. refs[o] > 0
    BY <1>3, <1>4, HeldIsCounted DEF AsksAt
<1>6. refs' = [refs EXCEPT ![o] = refs[o] + 1] /\ lateRef' = lateRef
    BY <1>3, <1>5 DEF Ref
<1>7. refs \in [Counted -> Nat] /\ lateRef \subseteq Counted
    BY <1>1 DEF TypeOK, CacheTypeOK
<1>8. \A p \in Counted : Pins(p)' = Pins(p) + (IF p = o THEN 1 ELSE 0)
    BY <1>1, <1>3, PinsPushed DEF TypeOK, Objects
<1>9. AskersHold'
    BY <1>1, <1>3 DEF AskersHold
<1>10. HeldIsBorn'
    BY <1>1, <1>3 DEF HeldIsBorn
<1>11. LateIsDead'
  <2>1. \A p \in lateRef : Pins(p)' = Pins(p) /\ refs'[p] = refs[p]
      BY <1>1, <1>4, <1>6, <1>7, <1>8, CountsAreNat
  <2>2. QED
      BY <1>1, <1>3, <1>6, <2>1 DEF LateIsDead
<1>12. RefsAccounted'
  <2> SUFFICES ASSUME NEW p \in Counted, p \notin lateRef
               PROVE  refs'[p] = Holds(p)' + Pins(p)' + leaks'[p] + Owed(p)'
      BY <1>6, RefsAreNext
  <2>1. Owed(p)' = Owed(p) /\ Holds(p)' = Holds(p)
      BY <1>3, HoldsKept, AskingKept DEF Owed
  <2>2. refs[p] = Holds(p) + Pins(p) + leaks[p] + Owed(p)
      BY <1>1, RefsAre
  <2>3. refs'[p] = refs[p] + (IF p = o THEN 1 ELSE 0)
      BY <1>6, <1>7
  <2>4. QED
      BY <1>1, <1>3, <1>8, <2>1, <2>2, <2>3, CountsAreNat DEF Owed
<1>13. QED
    BY <1>1, <1>2, <1>3, <1>6, <1>9, <1>10, <1>11, <1>12 DEF Accounts

(* the last reference is only missing where it was taken too late          *)
LEMMA ReleaseAccounts ==
  ASSUME Accounts, NEW u \in Users, NEW o \in Counted, Release(u, o)
  PROVE  Accounts'
<1>1. TypeOK /\ AskersHold /\ RefsAccounted /\ LateIsDead /\ HeldIsBorn /\ badUnref \subseteq lateRef
    BY DEF Accounts
<1>2. TypeOK'
    BY <1>1, UserStepType DEF UserStep
<1>3. /\ UNCHANGED <<mem, asked, asking, tasks, worker, buffer, toInit, leaks>>
      /\ asking[u] = NotAsking /\ o \in held[u] /\ UnrefWith(o, groups)
      /\ held' = [held EXCEPT ![u] = held[u] \ {o}]
    BY DEF Release, Unref, flagVars
<1>4. refs \in [Counted -> Nat] /\ lateRef \subseteq Counted /\ held \in [Users -> SUBSET Counted]
    BY <1>1 DEF TypeOK, CacheTypeOK, UserTypeOK
<1>5. lateRef' = lateRef /\ (refs[o] = 0 => o \in lateRef)
    BY <1>3, HeldIsCounted DEF UnrefWith, AsksAt
<1>6. \/ refs[o] = 0 /\ refs' = refs /\ badUnref' = badUnref \cup {o}
      \/ refs[o] > 0 /\ refs' = [refs EXCEPT ![o] = refs[o] - 1] /\ badUnref' = badUnref
    BY <1>3, <1>4 DEF UnrefWith
<1>7. AskersHold'
    BY <1>1, <1>3, <1>4 DEF AskersHold
<1>8. HeldIsBorn'
    BY <1>1, <1>3, <1>4 DEF HeldIsBorn
<1>9. LateIsDead'
  <2>1. \A p \in lateRef : Pins(p)' = Pins(p) /\ refs'[p] = refs[p]
      BY <1>1, <1>3, <1>4, <1>6, PinsKept DEF LateIsDead
  <2>2. QED
      BY <1>1, <1>3, <1>5, <2>1 DEF LateIsDead
<1>10. RefsAccounted'
  <2> SUFFICES ASSUME NEW p \in Counted, p \notin lateRef
               PROVE  refs'[p] = Holds(p)' + Pins(p)' + leaks'[p] + Owed(p)'
      BY <1>5, RefsAreNext
  <2>1. Owed(p)' = Owed(p) /\ Pins(p)' = Pins(p)
      BY <1>3, PinsKept, AskingKept DEF Owed
  <2>2. Holds(p)' = Holds(p) - (IF p = o THEN 1 ELSE 0)
    <3>1. Holds(p)' + (IF p \in held[u] THEN 1 ELSE 0) = Holds(p) + (IF p \in held'[u] THEN 1 ELSE 0)
          /\ Holds(p)' \in Nat /\ Holds(p) \in Nat
        BY <1>3, <1>4, HolderChanges
    <3>2. QED
        BY <1>3, <1>4, <3>1
  <2>3. refs[p] = Holds(p) + Pins(p) + leaks[p] + Owed(p)
      BY <1>1, RefsAre
  <2>4. refs'[p] = refs[p] - (IF p = o THEN 1 ELSE 0)
      BY <1>4, <1>5, <1>6
  <2>5. QED
      BY <1>1, <1>3, <2>1, <2>2, <2>3, <2>4, CountsAreNat DEF Owed
<1>11. badUnref' \subseteq lateRef'
    BY <1>1, <1>5, <1>6
<1>12. QED
    BY <1>2, <1>7, <1>8, <1>9, <1>10, <1>11 DEF Accounts

LEMMA UserStepAccounts ==
  ASSUME Accounts, NEW u \in Users, UserStep(u)
  PROVE  Accounts'
BY RefByKeyAccounts, AskCheckAccounts, AskMarkAccounts, AskRefAccounts, AskPushAccounts,
   AskLockedAccounts, ReleaseAccounts DEF UserStep

-----------------------------------------------------------------------------
(* What the workers and the main thread do to the references               *)

Doing(job, o, ats) == job.at \in ats /\ job.obj = o

LEMMA WorkerMoves ==
  ASSUME TypeOK, NEW w \in Workers, NEW job, Becomes(w, job), NEW ats
  PROVE  /\ worker'[w] = job /\ \A v \in Workers : v # w => worker'[v] = worker[v]
         /\ \A o \in Objects :
              /\ Working(o, ats) \in Nat
              /\ Working(o, ats)' = Working(o, ats) + (IF Doing(job, o, ats) THEN 1 ELSE 0)
                                     - (IF Doing(worker[w], o, ats) THEN 1 ELSE 0)
<1>1. worker'[w] = job /\ \A v \in Workers : v # w => worker'[v] = worker[v]
    BY DEF Becomes, TypeOK, ThreadTypeOK
<1>2. ASSUME NEW o \in Objects
      PROVE  /\ Working(o, ats) \in Nat
             /\ Working(o, ats)' = Working(o, ats) + (IF Doing(job, o, ats) THEN 1 ELSE 0)
                                    - (IF Doing(worker[w], o, ats) THEN 1 ELSE 0)
  <2>1. /\ Working(o, ats)' \in Nat /\ Working(o, ats) \in Nat
        /\ Working(o, ats)' + (IF worker[w].at \in ats /\ worker[w].obj = o THEN 1 ELSE 0)
             = Working(o, ats) + (IF worker'[w].at \in ats /\ worker'[w].obj = o THEN 1 ELSE 0)
      BY <1>1, WorkerChanges
  <2>2. QED
      BY <1>1, <2>1 DEF Doing
<1>3. QED
    BY <1>1, <1>2

(* the references a step gives back are those of loads it ends             *)
LoadsGoOn ==
  /\ UNCHANGED <<refs, badUnref, lateRef>>
  /\ \A p \in Counted : Pins(p)' \in 0..Pins(p) /\ Pins(p)' + leaks'[p] = Pins(p) + leaks[p]

LoadEnds(o) ==
  /\ Pins(o) > 0 /\ UnrefWith(o, groups') /\ leaks' = leaks
  /\ \A p \in Counted : Pins(p)' = Pins(p) - (IF p = o THEN 1 ELSE 0)

LoadStep ==
  /\ UNCHANGED <<held, asking, asked>>
  /\ \A o \in Objects : mem[o] # "unborn" => mem'[o] # "unborn"
  /\ LoadsGoOn \/ \E o \in Counted : LoadEnds(o)

(* the loads of the counted resources that are queued stay                 *)
CountedTasksKept == \A o \in Counted : tasks'[<<"load", KindOf(o)>>] = tasks[<<"load", KindOf(o)>>]

LEMMA PinsMove ==
  ASSUME TypeOK, CountedTasksKept, toInit' = toInit, NEW p \in Counted,
         Working(p, {"load", "fill", "post"})' \in Int, Times(p, buffer'[KindOf(p)]) \in Int
  PROVE  /\ Pins(p) \in Nat /\ Working(p, {"load", "fill", "post"}) \in Nat
         /\ Times(p, buffer[KindOf(p)]) \in Nat
         /\ Pins(p)' = Pins(p)
              + (Working(p, {"load", "fill", "post"})' - Working(p, {"load", "fill", "post"}))
              + (Times(p, buffer'[KindOf(p)]) - Times(p, buffer[KindOf(p)]))
<1>1. p \in Objects
    BY DEF Objects
<1>2. /\ Pins(p) \in Nat
      /\ Times(p, tasks[<<"load", KindOf(p)>>]) \in Nat
      /\ Working(p, {"load", "fill", "post"}) \in Nat
      /\ Times(p, buffer[KindOf(p)]) \in Nat /\ Times(p, toInit[KindOf(p)]) \in Nat
    BY <1>1, PinsCounted DEF TypeOK
<1>3. tasks'[<<"load", KindOf(p)>>] = tasks[<<"load", KindOf(p)>>]
    BY DEF CountedTasksKept
<1>4. Pins(p)' = Times(p, tasks[<<"load", KindOf(p)>>]) + Working(p, {"load", "fill", "post"})'
                  + Times(p, buffer'[KindOf(p)]) + Times(p, toInit[KindOf(p)])
    BY <1>3 DEF Pins
<1>5. Pins(p) = Times(p, tasks[<<"load", KindOf(p)>>]) + Working(p, {"load", "fill", "post"})
                  + Times(p, buffer[KindOf(p)]) + Times(p, toInit[KindOf(p)])
    BY DEF Pins
<1>6. QED
    BY <1>2, <1>4, <1>5

(* the worker w ends the load of o: the reference is to be given back ...  *)
LEMMA WorkerDrops ==
  ASSUME TypeOK, NEW w \in Workers, NEW o \in Counted, NEW job, Becomes(w, job),
         worker[w].at \in {"load", "fill", "post"}, worker[w].obj = o,
         job.at \notin {"load", "fill", "post"}, CountedTasksKept, UNCHANGED <<buffer, toInit>>
  PROVE  Pins(o) > 0 /\ \A p \in Counted : Pins(p)' = Pins(p) - (IF p = o THEN 1 ELSE 0)
<1> DEFINE L == {"load", "fill", "post"}
<1>1. Counted \subseteq Objects
    BY DEF Objects
<1>2. Working(o, L) > 0 /\ Working(o, L) \in Nat
    BY WorkersCounted
<1>3. Pins(o) > 0
    BY <1>1, <1>2, PinsCounted DEF Pins, TypeOK
<1>4. ASSUME NEW p \in Counted
      PROVE  Pins(p)' = Pins(p) - (IF p = o THEN 1 ELSE 0)
  <2>1. /\ Working(p, L) \in Nat
        /\ Working(p, L)' = Working(p, L) + (IF Doing(job, p, L) THEN 1 ELSE 0)
                             - (IF Doing(worker[w], p, L) THEN 1 ELSE 0)
      BY <1>1, WorkerMoves
  <2>2. ~Doing(job, p, L) /\ (Doing(worker[w], p, L) <=> p = o)
      BY DEF Doing
  <2>3. Working(p, L)' = Working(p, L) - (IF p = o THEN 1 ELSE 0)
      BY <2>1, <2>2
  <2>4. p \in Objects
      BY <1>1
  <2>5. Times(p, buffer[KindOf(p)]) \in Nat /\ Times(p, buffer'[KindOf(p)]) = Times(p, buffer[KindOf(p)])
      BY <2>4, PinsCounted DEF TypeOK
  <2>6. QED
      BY <2>1, <2>3, <2>5, PinsMove
<1>5. QED
    BY <1>3, <1>4

(* ... or goes with o to the main thread                                   *)
LEMMA WorkerHands ==
  ASSUME TypeOK, NEW w \in Workers, NEW o \in Counted, NEW job, Becomes(w, job),
         worker[w].at \in {"load", "fill", "post"}, worker[w].obj = o,
         job.at \notin {"load", "fill", "post"}, CountedTasksKept,
         buffer' = Push(buffer, KindOf(o), <<o>>), toInit' = toInit
  PROVE  \A p \in Counted : Pins(p)' = Pins(p)
<1> DEFINE L == {"load", "fill", "post"}
<1>1. Counted \subseteq Objects
    BY DEF Objects
<1> SUFFICES ASSUME NEW p \in Counted PROVE Pins(p)' = Pins(p)
    OBVIOUS
<1>2. /\ Working(p, L) \in Nat
      /\ Working(p, L)' = Working(p, L) + (IF Doing(job, p, L) THEN 1 ELSE 0)
                           - (IF Doing(worker[w], p, L) THEN 1 ELSE 0)
    BY <1>1, WorkerMoves
<1>3. ~Doing(job, p, L) /\ (Doing(worker[w], p, L) <=> p = o)
    BY DEF Doing
<1>4. Times(p, buffer'[KindOf(p)]) = Times(p, buffer[KindOf(p)]) + (IF p = o THEN 1 ELSE 0)
    BY <1>1, BufferPushed DEF TypeOK
<1>5. p \in Objects
    BY <1>1
<1>6. Times(p, buffer[KindOf(p)]) \in Nat
    BY <1>5, PinsCounted DEF TypeOK
<1>7. Working(p, L)' = Working(p, L) - (IF p = o THEN 1 ELSE 0)
    BY <1>2, <1>3
<1>8. Working(p, L)' \in Int /\ Times(p, buffer'[KindOf(p)]) \in Int
    BY <1>2, <1>4, <1>6, <1>7
<1>9. Pins(p) \in Nat /\ Pins(p)' = Pins(p) + (Working(p, L)' - Working(p, L))
                                     + (Times(p, buffer'[KindOf(p)]) - Times(p, buffer[KindOf(p)]))
    BY <1>8, PinsMove
<1>10. CASE p = o
    BY <1>2, <1>4, <1>6, <1>7, <1>9, <1>10
<1>11. CASE p # o
    BY <1>2, <1>4, <1>6, <1>7, <1>9, <1>11
<1>12. QED
    BY <1>10, <1>11

(* a worker that stays with its load, or has none of a counted resource    *)
LEMMA WorkerStays ==
  ASSUME TypeOK, NEW w \in Workers, NEW job, Becomes(w, job), CountedTasksKept, toInit' = toInit,
         \A p \in Counted : /\ Doing(job, p, {"load", "fill", "post"})
                                <=> Doing(worker[w], p, {"load", "fill", "post"})
                            /\ buffer'[KindOf(p)] = buffer[KindOf(p)]
  PROVE  \A p \in Counted : Pins(p)' = Pins(p)
<1> DEFINE L == {"load", "fill", "post"}
<1> SUFFICES ASSUME NEW p \in Counted PROVE Pins(p)' = Pins(p)
    OBVIOUS
<1>1. p \in Objects
    BY DEF Objects
<1>2. /\ Working(p, L) \in Nat
      /\ Working(p, L)' = Working(p, L) + (IF Doing(job, p, L) THEN 1 ELSE 0)
                           - (IF Doing(worker[w], p, L) THEN 1 ELSE 0)
    BY <1>1, WorkerMoves
<1>3. Working(p, L)' = Working(p, L)
    BY <1>2
<1>4. Times(p, buffer[KindOf(p)]) \in Nat
    BY <1>1, PinsCounted DEF TypeOK
<1>5. Times(p, buffer'[KindOf(p)]) = Times(p, buffer[KindOf(p)])
    OBVIOUS
<1>6. QED
    BY <1>2, <1>3, <1>4, <1>5, PinsMove

-----------------------------------------------------------------------------
(* The steps of the workers and of the main thread                         *)

LEMMA CountedKinds ==
  \A o \in Counted : /\ o \in Objects /\ o \notin Group
                     /\ KindOf(o) \in Kinds /\ KindOf(o) # "group"
                     /\ <<"load", KindOf(o)>> \in TaskTypes
<1> TAKE o \in Counted
<1>1. o \in Objects
    BY DEF Objects
<1>2. KindOf(o) \in Kinds /\ o \in Of[KindOf(o)] /\ <<"load", KindOf(o)>> \in TaskTypes
    BY <1>1, KindOfObject, LoadTask
<1>3. o \notin Group
    BY KindsDisjoint DEF Counted, Kinds, Of
<1>4. QED
    BY <1>1, <1>2, <1>3 DEF Of

(* a task taken off its queue                                              *)
Taken(t, x) ==
  /\ \E i \in DOMAIN tasks[t] : tasks[t][i] = x /\ tasks'[t] = RemoveAt(tasks[t], i)
  /\ \A u \in TaskTypes : u # t => tasks'[u] = tasks[u]

LEMMA TaskTaken ==
  ASSUME QueueTypeOK, NEW t \in TaskTypes, NEW x, Taken(t, x)
  PROVE  \A o : \A u \in TaskTypes :
           /\ Times(o, tasks[u]) \in Nat /\ Times(o, tasks'[u]) \in Nat
           /\ Times(o, tasks'[u]) = Times(o, tasks[u]) - (IF u = t /\ o = x THEN 1 ELSE 0)
<1> TAKE o
<1>1. PICK i \in DOMAIN tasks[t] : tasks[t][i] = x /\ tasks'[t] = RemoveAt(tasks[t], i)
    BY DEF Taken
<1>2. tasks[t] \in Seq(Objects)
    BY DEF QueueTypeOK
<1>3. /\ RemoveAt(tasks[t], i) \in Seq(Objects)
      /\ Times(o, tasks[t]) = Times(o, RemoveAt(tasks[t], i)) + (IF o = x THEN 1 ELSE 0)
    BY <1>1, <1>2, TimesRemoveAt
<1>4. Times(o, RemoveAt(tasks[t], i)) \in Nat
    BY <1>3, PlacesFinite
<1>5. \A u \in TaskTypes : Times(o, tasks[u]) \in Nat
    BY QueuesCounted
<1>6. QED
    BY <1>1, <1>3, <1>4, <1>5 DEF Taken

LEMMA FindTaskLoads ==
  ASSUME TypeOK, NEW w \in Workers, FindTask(w)
  PROVE  LoadStep
<1>1. PICK t \in TaskTypes : \E i \in DOMAIN tasks[t] :
        tasks' = [tasks EXCEPT ![t] = RemoveAt(@, i)] /\ Becomes(w, Work(t[1], tasks[t][i]))
    BY DEF FindTask
<1>2. PICK i \in DOMAIN tasks[t] :
        tasks' = [tasks EXCEPT ![t] = RemoveAt(@, i)] /\ Becomes(w, Work(t[1], tasks[t][i]))
    BY <1>1
<1> DEFINE L == {"load", "fill", "post"}
<1>3. t[1] \in {"load", "unload"} /\ t[2] \in Kinds /\ t = <<t[1], t[2]>>
    BY DEF TaskTypes
<1>4. PICK o \in Objects : o = tasks[t][i] /\ KindOf(o) = t[2]
  <2>1. tasks[t] \in Seq(Of[t[2]])
      BY DEF TypeOK, QueueTypeOK
  <2>2. tasks[t][i] \in Of[t[2]]
      BY <2>1, ElementOfSeq, LenProperties
  <2>3. QED
      BY <1>3, <2>2, KindIsUnique
<1>7. \A p : \A u \in TaskTypes :
        /\ Times(p, tasks[u]) \in Nat
        /\ Times(p, tasks'[u]) = Times(p, tasks[u]) - (IF u = t /\ p = o THEN 1 ELSE 0)
  <2>1. /\ tasks'[t] = RemoveAt(tasks[t], i) /\ QueueTypeOK
        /\ \A u \in TaskTypes : u # t => tasks'[u] = tasks[u]
      BY <1>2 DEF TypeOK, QueueTypeOK
  <2>2. Taken(t, o)
      BY <1>4, <2>1 DEF Taken
  <2>3. QED
      BY <2>1, <2>2, TaskTaken
<1>5. UNCHANGED <<held, asking, asked, mem, refs, badUnref, lateRef, buffer, toInit, leaks>>
      /\ worker[w].at = "idle"
    BY DEF FindTask, WorkerFrame, cacheVars, At
<1>6. ASSUME NEW p \in Counted PROVE Pins(p)' = Pins(p) /\ Pins(p) \in Nat
  <2>1. p \in Objects /\ <<"load", KindOf(p)>> \in TaskTypes
      BY CountedKinds
  <2> DEFINE q == <<"load", KindOf(p)>>
             d == IF t[1] = "load" /\ p = o THEN 1 ELSE 0
  <2>2. /\ Times(p, tasks[q]) \in Nat
        /\ Times(p, tasks'[q]) = Times(p, tasks[q]) - (IF q = t /\ p = o THEN 1 ELSE 0)
    <3>2. q \in TaskTypes
        BY <2>1
    <3> HIDE DEF q
    <3>3. QED
        BY <1>7, <3>2
  <2>3. q = t /\ p = o <=> t[1] = "load" /\ p = o
      BY <1>3, <1>4
  <2>4. Times(p, tasks'[q]) = Times(p, tasks[q]) - d
      BY <2>2, <2>3
  <2>5. Working(p, L) \in Nat /\ Working(p, L)' = Working(p, L) + d
    <3>1. /\ Working(p, L) \in Nat
          /\ Working(p, L)' = Working(p, L) + (IF Doing(Work(t[1], o), p, L) THEN 1 ELSE 0)
                               - (IF Doing(worker[w], p, L) THEN 1 ELSE 0)
        BY <1>2, <1>4, <2>1, WorkerMoves
    <3>2. ~Doing(worker[w], p, L) /\ (Doing(Work(t[1], o), p, L) <=> t[1] = "load" /\ p = o)
        BY <1>3, <1>5 DEF Doing, Work
    <3>3. QED
        BY <3>1, <3>2
  <2>6. Times(p, buffer[KindOf(p)]) \in Nat /\ Times(p, toInit[KindOf(p)]) \in Nat /\ Pins(p) \in Nat
      BY <2>1, PinsCounted DEF TypeOK
  <2>7. Pins(p) = Times(p, tasks[q]) + Working(p, L) + Times(p, buffer[KindOf(p)]) + Times(p, toInit[KindOf(p)])
      BY DEF Pins
  <2>8. Pins(p)' = Times(p, tasks'[q]) + Working(p, L)' + Times(p, buffer[KindOf(p)]) + Times(p, toInit[KindOf(p)])
      BY <1>5 DEF Pins
  <2>9. d \in Nat
      OBVIOUS
  <2> HIDE DEF d, q, L
  <2>10. QED
      BY <2>2, <2>4, <2>5, <2>6, <2>7, <2>8, <2>9
<1>8. LoadsGoOn
    BY <1>5, <1>6 DEF LoadsGoOn
<1>9. QED
    BY <1>5, <1>8 DEF LoadStep

(* what a worker does to a load of a counted resource                      *)
LEMMA GoesOn ==
  ASSUME TypeOK, UNCHANGED <<held, asking, asked, refs, badUnref, lateRef, leaks>>,
         \A o \in Objects : mem[o] # "unborn" => mem'[o] # "unborn",
         \A p \in Counted : Pins(p)' = Pins(p)
  PROVE  LoadStep
<1>1. \A p \in Counted : Pins(p) \in Nat
    BY CountsAreNat
<1>2. LoadsGoOn
    BY <1>1 DEF LoadsGoOn
<1>3. QED
    BY <1>2 DEF LoadStep

LEMMA UnloadLoads ==
  ASSUME TypeOK, NEW w \in Workers, Unload(w)
  PROVE  LoadStep
<1>1. /\ UNCHANGED <<held, asking, asked, refs, badUnref, lateRef, leaks, buffer, toInit, tasks>>
      /\ Becomes(w, NoWork) /\ worker[w].at = "unload"
      /\ mem' = [mem EXCEPT ![worker[w].obj] = "freed"]
    BY DEF Unload, WorkerFrame, cacheVars, At
<1>2. \A o \in Objects : mem[o] # "unborn" => mem'[o] # "unborn"
    BY <1>1 DEF TypeOK, ObjectTypeOK
<1>3. \A p \in Counted : Pins(p)' = Pins(p)
    BY <1>1, WorkerStays DEF Doing, NoWork, CountedTasksKept
<1>4. QED
    BY <1>1, <1>2, <1>3, GoesOn

LEMMA LoadUnreadLoads ==
  ASSUME TypeOK, NEW w \in Workers, LoadNoFile(w) \/ LoadBadFile(w)
  PROVE  LoadStep
<1>1. PICK o \in Counted : worker[w].obj = o
    BY DEF LoadNoFile, LoadBadFile
<1>2. /\ UNCHANGED <<held, asking, asked, mem, groups, leaks, buffer, toInit, tasks>>
      /\ Becomes(w, NoWork) /\ worker[w].at = "load" /\ UnrefWith(o, groups)
    BY <1>1 DEF LoadNoFile, LoadBadFile, WorkerFrame, At, Unref
<1>3. Pins(o) > 0 /\ \A p \in Counted : Pins(p)' = Pins(p) - (IF p = o THEN 1 ELSE 0)
    BY <1>1, <1>2, WorkerDrops DEF NoWork, CountedTasksKept
<1>4. LoadEnds(o)
    BY <1>2, <1>3 DEF LoadEnds
<1>5. QED
    BY <1>2, <1>4 DEF LoadStep

LEMMA LoadBlpLoads ==
  ASSUME TypeOK, NEW w \in Workers, LoadBlp(w)
  PROVE  LoadStep
<1>1. PICK o \in Blp : worker[w].obj = o
    BY DEF LoadBlp
<1>2. o \in Counted
    BY DEF Counted
<1>3. /\ UNCHANGED <<held, asking, asked, mem, refs, badUnref, lateRef, buffer, toInit, tasks>>
      /\ worker[w].at = "load"
    BY DEF LoadBlp, WorkerFrame, cacheVars, At
<1>4. \/ Becomes(w, Work("clear", o)) /\ leaks' = [leaks EXCEPT ![o] = @ + 1]
      \/ Becomes(w, Work("fill", o)) /\ leaks' = leaks
    BY <1>1 DEF LoadBlp
<1>5. CASE Becomes(w, Work("clear", o)) /\ leaks' = [leaks EXCEPT ![o] = @ + 1]
  <2>1. Pins(o) > 0 /\ \A p \in Counted : Pins(p)' = Pins(p) - (IF p = o THEN 1 ELSE 0)
      BY <1>1, <1>2, <1>3, <1>5, WorkerDrops DEF Work, CountedTasksKept
  <2>2. \A p \in Counted : leaks'[p] = leaks[p] + (IF p = o THEN 1 ELSE 0)
      BY <1>5 DEF TypeOK, CacheTypeOK
  <2>3. LoadsGoOn
      BY <1>3, <2>1, <2>2, CountsAreNat DEF LoadsGoOn
  <2>4. QED
      BY <1>3, <2>3 DEF LoadStep
<1>6. CASE Becomes(w, Work("fill", o)) /\ leaks' = leaks
  <2>1. \A p \in Counted : Doing(Work("fill", o), p, {"load", "fill", "post"})
                             <=> Doing(worker[w], p, {"load", "fill", "post"})
      BY <1>1, <1>3 DEF Doing, Work
  <2>2. \A p \in Counted : Pins(p)' = Pins(p)
      BY <1>3, <1>6, <2>1, WorkerStays DEF CountedTasksKept
  <2>3. QED
      BY <1>3, <1>6, <2>2, GoesOn
<1>7. QED
    BY <1>4, <1>5, <1>6

LEMMA FillBlpLoads ==
  ASSUME TypeOK, NEW w \in Workers, FillBlp(w)
  PROVE  LoadStep
<1>0. worker[w].at = "fill"
    BY DEF FillBlp, At
<1>1. PICK o \in Blp : worker[w].obj = o
    BY <1>0 DEF TypeOK, ThreadTypeOK, NoWork
<1>2. o \in Counted
    BY DEF Counted
<1>3. /\ UNCHANGED <<held, asking, asked, mem, groups, leaks, toInit, tasks>>
      /\ Becomes(w, Work("clear", o))
    BY <1>1 DEF FillBlp, WorkerFrame
<1>4. \/ buffer' = Push(buffer, KindOf(o), <<o>>) /\ UNCHANGED <<refs, badUnref, lateRef>>
      \/ UnrefWith(o, groups) /\ buffer' = buffer
    BY <1>1 DEF FillBlp, Unref, cacheVars
<1>5. CASE buffer' = Push(buffer, KindOf(o), <<o>>) /\ UNCHANGED <<refs, badUnref, lateRef>>
  <2>1. \A p \in Counted : Pins(p)' = Pins(p)
      BY <1>0, <1>1, <1>2, <1>3, <1>5, WorkerHands DEF Work, CountedTasksKept
  <2>2. QED
      BY <1>3, <1>5, <2>1, GoesOn
<1>6. CASE UnrefWith(o, groups) /\ buffer' = buffer
  <2>1. Pins(o) > 0 /\ \A p \in Counted : Pins(p)' = Pins(p) - (IF p = o THEN 1 ELSE 0)
      BY <1>0, <1>1, <1>2, <1>3, <1>6, WorkerDrops DEF Work, CountedTasksKept
  <2>2. LoadEnds(o)
      BY <1>3, <1>6, <2>1 DEF LoadEnds
  <2>3. QED
      BY <1>2, <1>3, <2>2 DEF LoadStep
<1>7. QED
    BY <1>4, <1>5, <1>6

LEMMA ClearBlpLoads ==
  ASSUME TypeOK, NEW w \in Workers, ClearBlp(w)
  PROVE  LoadStep
<1>1. /\ UNCHANGED <<held, asking, asked, mem, refs, badUnref, lateRef, leaks, buffer, toInit, tasks>>
      /\ Becomes(w, NoWork) /\ worker[w].at = "clear"
    BY DEF ClearBlp, WorkerFrame, cacheVars, At
<1>2. \A p \in Counted : Pins(p)' = Pins(p)
    BY <1>1, WorkerStays DEF Doing, NoWork, CountedTasksKept
<1>3. QED
    BY <1>1, <1>2, GoesOn

LEMMA LoadM2Loads ==
  ASSUME TypeOK, NEW w \in Workers, LoadM2(w)
  PROVE  LoadStep
<1>1. PICK o \in M2 : worker[w].obj = o
    BY DEF LoadM2
<1>2. o \in Counted
    BY DEF Counted
<1>3. /\ UNCHANGED <<held, asking, asked, mem, groups, leaks, buffer, toInit, tasks>>
      /\ worker[w].at = "load"
    BY DEF LoadM2, WorkerFrame, At
<1>4. \/ Becomes(w, Work("post", o)) /\ UNCHANGED <<refs, badUnref, lateRef>>
      \/ UnrefWith(o, groups) /\ Becomes(w, NoWork)
    BY <1>1 DEF LoadM2, Unref, cacheVars
<1>5. CASE Becomes(w, Work("post", o)) /\ UNCHANGED <<refs, badUnref, lateRef>>
  <2>1. \A p \in Counted : Doing(Work("post", o), p, {"load", "fill", "post"})
                             <=> Doing(worker[w], p, {"load", "fill", "post"})
      BY <1>1, <1>3 DEF Doing, Work
  <2>2. \A p \in Counted : Pins(p)' = Pins(p)
      BY <1>3, <1>5, <2>1, WorkerStays DEF CountedTasksKept
  <2>3. QED
      BY <1>3, <1>5, <2>2, GoesOn
<1>6. CASE UnrefWith(o, groups) /\ Becomes(w, NoWork)
  <2>1. Pins(o) > 0 /\ \A p \in Counted : Pins(p)' = Pins(p) - (IF p = o THEN 1 ELSE 0)
      BY <1>1, <1>2, <1>3, <1>6, WorkerDrops DEF NoWork, CountedTasksKept
  <2>2. LoadEnds(o)
      BY <1>3, <1>6, <2>1 DEF LoadEnds
  <2>3. QED
      BY <1>2, <1>3, <2>2 DEF LoadStep
<1>7. QED
    BY <1>4, <1>5, <1>6

LEMMA PostLoadM2Loads ==
  ASSUME TypeOK, NEW w \in Workers, PostLoadM2(w)
  PROVE  LoadStep
<1>0. worker[w].at = "post"
    BY DEF PostLoadM2, At
<1>1. PICK o \in M2 : worker[w].obj = o
    BY <1>0 DEF TypeOK, ThreadTypeOK, NoWork
<1>2. o \in Counted
    BY DEF Counted
<1>3. /\ UNCHANGED <<held, asking, asked, mem, refs, badUnref, lateRef, leaks, toInit, tasks>>
      /\ Becomes(w, NoWork) /\ buffer' = Push(buffer, KindOf(o), <<o>>)
    BY <1>1 DEF PostLoadM2, WorkerFrame, cacheVars
<1>4. \A p \in Counted : Pins(p)' = Pins(p)
    BY <1>0, <1>1, <1>2, <1>3, WorkerHands DEF NoWork, CountedTasksKept
<1>5. QED
    BY <1>3, <1>4, GoesOn

LEMMA LoadWmoLoads ==
  ASSUME TypeOK, NEW w \in Workers, LoadWmo(w)
  PROVE  LoadStep
<1>1. PICK o \in Wmo : worker[w].obj = o
    BY DEF LoadWmo
<1>2. o \in Counted
    BY DEF Counted
<1>3. /\ UNCHANGED <<held, asking, asked, toInit>>
      /\ worker[w].at = "load" /\ Becomes(w, NoWork)
    BY DEF LoadWmo, WorkerFrame, At
<1>4. ASSUME NEW n, MakeGroups(o, n)
      PROVE  CountedTasksKept /\ \A p \in Objects : mem[p] # "unborn" => mem'[p] # "unborn"
  <2>1. \A p \in Objects : mem'[p] = "live" \/ mem'[p] = mem[p]
      BY <1>4 DEF MakeGroups
  <2>2. \A t \in TaskTypes : t # <<"load", "group">> => tasks'[t] = tasks[t]
      BY <1>4 DEF MakeGroups, Push, TypeOK, QueueTypeOK
  <2>3. CountedTasksKept
      BY <2>2, CountedKinds DEF CountedTasksKept
  <2>4. QED
      BY <2>1, <2>3
<1>5. \/ /\ MakeGroups(o, Len(GroupsOf[o])) /\ buffer' = Push(buffer, KindOf(o), <<o>>)
         /\ UNCHANGED <<refs, badUnref, lateRef, leaks>>
      \/ /\ \E n \in Len(groups[o])..Len(GroupsOf[o]) : MakeGroups(o, n)
         /\ UnrefWith(o, groups') /\ UNCHANGED <<buffer, leaks>>
      \/ /\ leaks' = [leaks EXCEPT ![o] = @ + 1]
         /\ UNCHANGED <<refs, badUnref, lateRef, mem, tasks, buffer>>
    BY <1>1 DEF LoadWmo, cacheVars
<1>6. CASE /\ MakeGroups(o, Len(GroupsOf[o])) /\ buffer' = Push(buffer, KindOf(o), <<o>>)
           /\ UNCHANGED <<refs, badUnref, lateRef, leaks>>
  <2>1. \A p \in Counted : Pins(p)' = Pins(p)
      BY <1>1, <1>2, <1>3, <1>4, <1>6, WorkerHands DEF NoWork
  <2>2. QED
      BY <1>3, <1>4, <1>6, <2>1, GoesOn
<1>7. CASE /\ \E n \in Len(groups[o])..Len(GroupsOf[o]) : MakeGroups(o, n)
           /\ UnrefWith(o, groups') /\ UNCHANGED <<buffer, leaks>>
  <2>1. Pins(o) > 0 /\ \A p \in Counted : Pins(p)' = Pins(p) - (IF p = o THEN 1 ELSE 0)
      BY <1>1, <1>2, <1>3, <1>4, <1>7, WorkerDrops DEF NoWork
  <2>2. LoadEnds(o)
      BY <1>7, <2>1 DEF LoadEnds
  <2>3. QED
      BY <1>2, <1>3, <1>4, <1>7, <2>2 DEF LoadStep
<1>8. CASE /\ leaks' = [leaks EXCEPT ![o] = @ + 1]
           /\ UNCHANGED <<refs, badUnref, lateRef, mem, tasks, buffer>>
  <2>1. Pins(o) > 0 /\ \A p \in Counted : Pins(p)' = Pins(p) - (IF p = o THEN 1 ELSE 0)
      BY <1>1, <1>2, <1>3, <1>8, WorkerDrops DEF NoWork, CountedTasksKept
  <2>2. \A p \in Counted : leaks'[p] = leaks[p] + (IF p = o THEN 1 ELSE 0)
      BY <1>8 DEF TypeOK, CacheTypeOK
  <2>3. LoadsGoOn
      BY <1>8, <2>1, <2>2, CountsAreNat DEF LoadsGoOn
  <2>4. QED
      BY <1>3, <1>8, <2>3 DEF LoadStep
<1>9. QED
    BY <1>5, <1>6, <1>7, <1>8

LEMMA LoadGroupLoads ==
  ASSUME TypeOK, NEW w \in Workers, LoadGroup(w)
  PROVE  LoadStep
<1>1. PICK g \in Group : worker[w].obj = g
    BY DEF LoadGroup
<1>2. /\ UNCHANGED <<held, asking, asked, mem, refs, badUnref, lateRef, leaks, toInit, tasks>>
      /\ Becomes(w, NoWork)
      /\ buffer' = Push(buffer, "group", <<g>>) \/ buffer' = buffer
    BY <1>1 DEF LoadGroup, WorkerFrame, cacheVars
<1>3. \A p \in Counted : buffer'[KindOf(p)] = buffer[KindOf(p)]
    BY <1>2, CountedKinds DEF Push, TypeOK, QueueTypeOK
<1>4. \A p \in Counted : ~Doing(NoWork, p, {"load", "fill", "post"})
                          /\ ~Doing(worker[w], p, {"load", "fill", "post"})
    BY <1>1, CountedKinds DEF Doing, NoWork
<1>5. \A p \in Counted : Pins(p)' = Pins(p)
    BY <1>2, <1>3, <1>4, WorkerStays DEF CountedTasksKept
<1>6. QED
    BY <1>2, <1>5, GoesOn

LEMMA WorkerStepLoads ==
  ASSUME TypeOK, NEW w \in Workers, WorkerStep(w)
  PROVE  LoadStep
BY FindTaskLoads, UnloadLoads, LoadUnreadLoads, LoadBlpLoads, FillBlpLoads, ClearBlpLoads,
   LoadM2Loads, PostLoadM2Loads, LoadWmoLoads, LoadGroupLoads DEF WorkerStep

(* the initialisation of o hands its reference back, or stays to do        *)
LEMMA InitObjectLoads ==
  ASSUME TypeOK, InitObject
  PROVE  LoadStep
<1>1. UNCHANGED <<held, asking, asked, mem, leaks, groups, tasks, worker, buffer>>
    BY DEF InitObject, MainFrame
<1>2. PICK i \in 1..4 : LET k == InitOrder[i]  o == Head(toInit[k]) IN
        /\ toInit[k] # <<>>
        /\ \/ UNCHANGED <<refs, badUnref, lateRef, toInit>>
           \/ /\ toInit' = [toInit EXCEPT ![k] = Tail(@)]
              /\ IF k = "group" THEN UNCHANGED <<refs, badUnref, lateRef>> ELSE Unref(o)
    BY DEF InitObject, cacheVars
<1> DEFINE k == InitOrder[i]
           o == Head(toInit[k])
<1>3. k \in Kinds
    BY DEF InitOrder, Kinds
<1>4. toInit[k] \in Seq(Objects) /\ toInit[k] \in Seq(Of[k]) /\ toInit[k] # <<>>
    BY <1>2, <1>3 DEF TypeOK, QueueTypeOK
<1>5. o \in Objects /\ KindOf(o) = k
  <2>1. o \in Of[k]
      BY <1>4
  <2>2. QED
      BY <1>3, <2>1, KindIsUnique
<1>6. \/ UNCHANGED <<refs, badUnref, lateRef, toInit>>
      \/ /\ toInit' = [toInit EXCEPT ![k] = Tail(@)]
         /\ IF k = "group" THEN UNCHANGED <<refs, badUnref, lateRef>> ELSE UnrefWith(o, groups)
    BY <1>2 DEF Unref
<1>7. ASSUME toInit' = [toInit EXCEPT ![k] = Tail(@)]
      PROVE  \A p \in Objects : /\ Pins(p)' = Pins(p) - (IF p = o THEN 1 ELSE 0)
                                /\ p = o => Pins(p) > 0
  <2> SUFFICES ASSUME NEW p \in Objects
               PROVE  Pins(p)' = Pins(p) - (IF p = o THEN 1 ELSE 0) /\ (p = o => Pins(p) > 0)
      OBVIOUS
  <2>1. KindOf(p) \in Kinds
      BY KindOfObject
  <2>2. Times(p, toInit[k]) = Times(p, Tail(toInit[k])) + (IF p = o THEN 1 ELSE 0)
      BY <1>4, TimesTail
  <2>3. Times(p, Tail(toInit[k])) \in Nat
    <3>1. Tail(toInit[k]) \in Seq(Objects)
        BY <1>4
    <3>2. QED
        BY <3>1, PlacesFinite
  <2>4. toInit'[k] = Tail(toInit[k]) /\ \A j \in Kinds : j # k => toInit'[j] = toInit[j]
      BY <1>3, <1>7 DEF TypeOK, QueueTypeOK
  <2>5. /\ Times(p, tasks[<<"load", KindOf(p)>>]) \in Nat
        /\ Working(p, {"load", "fill", "post"}) \in Nat
        /\ Times(p, buffer[KindOf(p)]) \in Nat /\ Times(p, toInit[KindOf(p)]) \in Nat
      BY PinsCounted DEF TypeOK
  <2>6. Times(p, toInit'[KindOf(p)]) = Times(p, toInit[KindOf(p)]) - (IF p = o THEN 1 ELSE 0)
      BY <1>5, <2>1, <2>2, <2>3, <2>4, <2>5
  <2>7. Pins(p)' = Times(p, tasks[<<"load", KindOf(p)>>]) + Working(p, {"load", "fill", "post"})
                    + Times(p, buffer[KindOf(p)]) + Times(p, toInit'[KindOf(p)])
      BY <1>1 DEF Pins, Working
  <2>8. p = o => Times(p, toInit[KindOf(p)]) > 0
      BY <1>5, <2>2, <2>3
  <2>9. Pins(p) = Times(p, tasks[<<"load", KindOf(p)>>]) + Working(p, {"load", "fill", "post"})
                    + Times(p, buffer[KindOf(p)]) + Times(p, toInit[KindOf(p)])
      BY DEF Pins
  <2>10. QED
      BY <2>5, <2>6, <2>7, <2>8, <2>9
<1>8. CASE UNCHANGED <<refs, badUnref, lateRef, toInit>>
  <2>1. \A p \in Counted : Pins(p)' = Pins(p)
      BY <1>1, <1>8, PinsKept
  <2>2. QED
      BY <1>1, <1>8, <2>1, GoesOn
<1>9. CASE toInit' = [toInit EXCEPT ![k] = Tail(@)] /\ k = "group" /\ UNCHANGED <<refs, badUnref, lateRef>>
  <2>1. \A p \in Counted : p # o /\ p \in Objects
      BY <1>5, <1>9, CountedKinds
  <2>2. \A p \in Counted : Pins(p)' = Pins(p) - 0
      BY <1>7, <1>9, <2>1
  <2>3. \A p \in Counted : Pins(p)' = Pins(p)
      BY <2>2, CountsAreNat
  <2>4. QED
      BY <1>1, <1>9, <2>3, GoesOn
<1>10. CASE toInit' = [toInit EXCEPT ![k] = Tail(@)] /\ k # "group" /\ UnrefWith(o, groups)
  <2>1. o \in Counted
      BY <1>5, <1>10, KindOfObject DEF Kinds, Of, Counted
  <2> HIDE DEF o, k
  <2>2. LoadEnds(o)
      BY <1>1, <1>7, <1>10, <2>1, CountedKinds DEF LoadEnds
  <2>3. QED
      BY <1>1, <2>1, <2>2 DEF LoadStep
<1> HIDE DEF o, k
<1>11. QED
    BY <1>6, <1>8, <1>9, <1>10

LEMMA TickLoads ==
  ASSUME TypeOK, QueueBuffers, UNCHANGED <<tasks, worker>>
  PROVE  \A p \in Counted : Pins(p)' = Pins(p)
<1> SUFFICES ASSUME NEW p \in Counted PROVE Pins(p)' = Pins(p)
    OBVIOUS
<1>1. p \in Objects /\ KindOf(p) \in Kinds
    BY CountedKinds
<1>2. toInit'[KindOf(p)] = toInit[KindOf(p)] \o buffer[KindOf(p)] /\ buffer'[KindOf(p)] = <<>>
    BY <1>1 DEF QueueBuffers
<1>3. toInit[KindOf(p)] \in Seq(Objects) /\ buffer[KindOf(p)] \in Seq(Objects)
    BY <1>1 DEF TypeOK, QueueTypeOK
<1>4. Times(p, toInit'[KindOf(p)]) = Times(p, toInit[KindOf(p)]) + Times(p, buffer[KindOf(p)])
    BY <1>2, <1>3, TimesConcat
<1>5. Times(p, buffer'[KindOf(p)]) = 0
    BY <1>2, TimesEmpty
<1>6. /\ Times(p, tasks[<<"load", KindOf(p)>>]) \in Nat
      /\ Working(p, {"load", "fill", "post"}) \in Nat
      /\ Times(p, buffer[KindOf(p)]) \in Nat /\ Times(p, toInit[KindOf(p)]) \in Nat
    BY <1>1, PinsCounted DEF TypeOK
<1>7. Pins(p)' = Times(p, tasks[<<"load", KindOf(p)>>]) + Working(p, {"load", "fill", "post"})
                    + Times(p, buffer'[KindOf(p)]) + Times(p, toInit'[KindOf(p)])
    BY DEF Pins, Working
<1>8. Pins(p) = Times(p, tasks[<<"load", KindOf(p)>>]) + Working(p, {"load", "fill", "post"})
                    + Times(p, buffer[KindOf(p)]) + Times(p, toInit[KindOf(p)])
    BY DEF Pins
<1>9. QED
    BY <1>4, <1>5, <1>6, <1>7, <1>8

LEMMA GcObjectLoads ==
  ASSUME TypeOK, GcObject
  PROVE  LoadStep
<1>1. UNCHANGED <<held, asking, asked, mem, leaks, refs, badUnref, lateRef, worker, buffer, toInit>>
    BY DEF GcObject, MainFrame, cacheVars
<1>2. PICK o : tasks' = Push(tasks, <<"unload", KindOf(o)>>, <<o>>)
    BY DEF GcObject
<1>3. \A t \in TaskTypes : t[1] = "load" => tasks'[t] = tasks[t]
    BY <1>2 DEF Push, TypeOK, QueueTypeOK
<1>4. \A p \in Counted : tasks'[<<"load", KindOf(p)>>] = tasks[<<"load", KindOf(p)>>]
    BY <1>3, CountedKinds
<1>5. \A p \in Counted : Pins(p)' = Pins(p)
    BY <1>1, <1>4 DEF Pins, Working
<1>6. QED
    BY <1>1, <1>5, GoesOn

LEMMA MainStepLoads ==
  ASSUME TypeOK, FrameStep \/ NextFrame \/ Quit \/ ShutdownStep
  PROVE  LoadStep
<1>1. CASE Tick
  <2>1. /\ UNCHANGED <<held, asking, asked, mem, leaks, refs, badUnref, lateRef, tasks, worker>>
        /\ QueueBuffers
      BY <1>1 DEF Tick, MainFrame, cacheVars
  <2>2. QED
      BY <2>1, TickLoads, GoesOn
<1>2. CASE DrainTick
  <2>1. /\ UNCHANGED <<held, asking, asked, mem, leaks, refs, badUnref, lateRef, tasks, worker>>
        /\ QueueBuffers
      BY <1>2 DEF DrainTick, MainFrame, MainIdle, cacheVars
  <2>2. QED
      BY <2>1, TickLoads, GoesOn
<1>3. CASE InitEnd \/ GcEnd \/ NextFrame \/ Quit \/ StartDrain \/ DrainEnd \/ AsyncWait \/ AsyncEnd
  <2>1. UNCHANGED <<held, asking, asked, mem, leaks, refs, badUnref, lateRef, tasks, worker, buffer, toInit>>
      BY <1>3 DEF InitEnd, GcEnd, NextFrame, Quit, StartDrain, DrainEnd, AsyncWait, AsyncEnd,
                  MainFrame, MainIdle, cacheVars
  <2>2. \A p \in Counted : Pins(p)' = Pins(p)
      BY <2>1, PinsKept
  <2>3. QED
      BY <2>1, <2>2, GoesOn
<1>4. QED
    BY <1>1, <1>2, <1>3, InitObjectLoads, GcObjectLoads DEF FrameStep, ShutdownStep

(* so no step of a worker or of the main thread upsets the accounts        *)
LEMMA LoadStepAccounts ==
  ASSUME Accounts, LoadStep, TypeOK'
  PROVE  Accounts'
<1>1. TypeOK /\ AskersHold /\ RefsAccounted /\ LateIsDead /\ HeldIsBorn /\ badUnref \subseteq lateRef
    BY DEF Accounts
<1>2. UNCHANGED <<held, asking, asked>> /\ \A o \in Objects : mem[o] # "unborn" => mem'[o] # "unborn"
    BY DEF LoadStep
<1>3. AskersHold'
    BY <1>1, <1>2 DEF AskersHold
<1>4. HeldIsBorn'
    BY <1>1, <1>2, CountedKinds DEF HeldIsBorn, TypeOK, ObjectTypeOK
<1>5. refs \in [Counted -> Nat] /\ lateRef \subseteq Counted /\ Counted \subseteq Objects
    BY <1>1, CountedKinds DEF TypeOK, CacheTypeOK
<1>6. \A p \in Counted : Holds(p)' = Holds(p) /\ Owed(p)' = Owed(p)
    BY <1>2, HoldsKept, AskingKept DEF Owed
<1>7. CASE LoadsGoOn
  <2>1. LateIsDead'
    <3>1. \A p \in lateRef : Pins(p)' = 0
        BY <1>1, <1>5, <1>7 DEF LateIsDead, LoadsGoOn
    <3>2. QED
        BY <1>1, <1>2, <1>5, <1>7, <3>1 DEF LateIsDead, LoadsGoOn
  <2>2. RefsAccounted'
    <3> SUFFICES ASSUME NEW p \in Counted, p \notin lateRef
                 PROVE  refs'[p] = Holds(p)' + Pins(p)' + leaks'[p] + Owed(p)'
        BY <1>7, RefsAreNext DEF LoadsGoOn
    <3>1. refs[p] = Holds(p) + Pins(p) + leaks[p] + Owed(p)
        BY <1>1, RefsAre
    <3>2. refs' = refs /\ Pins(p)' + leaks'[p] = Pins(p) + leaks[p]
        BY <1>7 DEF LoadsGoOn
    <3>3. Pins(p)' \in Nat /\ leaks'[p] \in Nat
        BY <1>7 DEF LoadsGoOn, TypeOK, CacheTypeOK
    <3>4. QED
        BY <1>1, <1>6, <3>1, <3>2, <3>3, CountsAreNat DEF Owed
  <2>3. QED
      BY <1>1, <1>3, <1>4, <1>7, <2>1, <2>2 DEF Accounts, LoadsGoOn
<1>8. ASSUME NEW o \in Counted, LoadEnds(o) PROVE Accounts'
  <2>1. o \notin lateRef /\ refs[o] > 0
      BY <1>8, PinnedIsCounted DEF LoadEnds
  <2>2. refs' = [refs EXCEPT ![o] = @ - 1] /\ UNCHANGED <<badUnref, lateRef, leaks>>
      BY <1>5, <1>8, <2>1 DEF LoadEnds, UnrefWith
  <2>3. \A p \in Counted : Pins(p)' = Pins(p) - (IF p = o THEN 1 ELSE 0)
      BY <1>8 DEF LoadEnds
  <2>4. LateIsDead'
    <3>1. \A p \in lateRef : p # o /\ Pins(p)' = 0 /\ refs'[p] = refs[p]
        BY <1>1, <1>5, <2>1, <2>2, <2>3 DEF LateIsDead
    <3>2. QED
        BY <1>1, <1>2, <1>5, <2>2, <3>1 DEF LateIsDead
  <2>5. RefsAccounted'
    <3> SUFFICES ASSUME NEW p \in Counted, p \notin lateRef
                 PROVE  refs'[p] = Holds(p)' + Pins(p)' + leaks'[p] + Owed(p)'
        BY <2>2, RefsAreNext
    <3>1. refs[p] = Holds(p) + Pins(p) + leaks[p] + Owed(p)
        BY <1>1, RefsAre
    <3>2. refs'[p] = refs[p] - (IF p = o THEN 1 ELSE 0)
        BY <1>5, <2>2
    <3>3. QED
        BY <1>1, <1>6, <2>2, <2>3, <3>1, <3>2, CountsAreNat DEF Owed
  <2>6. QED
      BY <1>1, <1>3, <1>4, <2>2, <2>4, <2>5 DEF Accounts
<1>9. QED
    BY <1>7, <1>8 DEF LoadStep

LEMMA InitAccounts == Init => Accounts
<1> SUFFICES ASSUME Init PROVE Accounts
    OBVIOUS
<1>1. TypeOK
    BY InitType
<1>2. AskersHold /\ LateIsDead /\ HeldIsBorn /\ badUnref \subseteq lateRef
    BY DEF Init, AskersHold, LateIsDead, HeldIsBorn
<1>3. RefsAccounted
  <2> SUFFICES ASSUME NEW p \in Counted, p \notin lateRef
               PROVE  refs[p] = Holds(p) + Pins(p) + leaks[p] + Owed(p)
      BY DEF RefsAccounted, Holds, Owed
  <2>1. refs[p] = 0 /\ leaks[p] = 0
      BY DEF Init
  <2>2. Holds(p) = 0 /\ \A at \in {"ref", "push"} : Asking(p, at) = 0
      BY UsersCounted DEF Init
  <2>3. Working(p, {"load", "fill", "post"}) = 0
      BY WorkersCounted DEF Init, NoWork
  <2>4. KindOf(p) \in Kinds /\ <<"load", KindOf(p)>> \in TaskTypes
      BY CountedKinds
  <2>5. /\ tasks[<<"load", KindOf(p)>>] = <<>>
        /\ buffer[KindOf(p)] = <<>> /\ toInit[KindOf(p)] = <<>>
      BY <2>4 DEF Init
  <2>6. Pins(p) = 0
      BY <2>3, <2>5, TimesEmpty DEF Pins
  <2>7. QED
      BY <2>1, <2>2, <2>6 DEF Owed
<1>4. QED
    BY <1>1, <1>2, <1>3 DEF Accounts

LEMMA StutterAccounts == ASSUME Accounts, UNCHANGED vars PROVE Accounts'
<1>1. TypeOK'
    BY StutterType DEF Accounts
<1>2. UNCHANGED <<held, asking, asked, mem, leaks, refs, badUnref, lateRef, tasks, worker, buffer, toInit>>
    BY DEF vars
<1>3. \A p \in Counted : Pins(p)' = Pins(p)
    BY <1>2, PinsKept
<1>4. LoadStep
    BY <1>2, <1>3, GoesOn DEF Accounts
<1>5. QED
    BY <1>1, <1>4, LoadStepAccounts

LEMMA NextAccounts == ASSUME Accounts, [Next]_vars PROVE Accounts'
<1>1. TypeOK
    BY DEF Accounts
<1>2. ASSUME NEW w \in Workers, WorkerStep(w) PROVE Accounts'
    BY <1>1, <1>2, WorkerStepLoads, WorkerStepType, LoadStepAccounts
<1>3. CASE FrameStep \/ NextFrame \/ Quit \/ ShutdownStep
    BY <1>1, <1>3, MainStepLoads, MainStepType, LoadStepAccounts
<1>4. QED
    BY <1>2, <1>3, UserStepAccounts, StutterAccounts DEF Next, Torn

(* The count of a cached resource is always the number of those who will   *)
(* give a reference back, whatever the interleaving of the holders, the    *)
(* workers and the main thread (cache_ref_by_ref and cache_unref_by_ref    *)
(* against the callers of ask_load and the ends of a load).                *)
THEOREM RefsAreAccounted == Spec => []RefsAccounted
<1>1. Init => Accounts
    BY InitAccounts
<1>2. Accounts /\ [Next]_vars => Accounts'
    BY NextAccounts
<1>3. Accounts => RefsAccounted
    BY DEF Accounts
<1>4. QED
    BY <1>1, <1>2, <1>3, PTL DEF Spec

-----------------------------------------------------------------------------
(* The groups of a WMO                                                     *)

InOrder(gs) ==
  \A w \in Wmo : /\ Len(gs[w]) <= Len(GroupsOf[w])
                 /\ \A i \in 1..Len(gs[w]) : gs[w][i] = GroupsOf[w][i]

(* the i-th group a file names                                             *)
LEMMA NamedGroup ==
  ASSUME NEW w \in Wmo
  PROVE  /\ GroupsOf[w] \in Seq(Group) /\ Len(GroupsOf[w]) \in Nat
         /\ DOMAIN GroupsOf[w] = 1..Len(GroupsOf[w])
         /\ \A i \in 1..Len(GroupsOf[w]) :
              /\ GroupsOf[w][i] \in Group /\ OwnerOf(GroupsOf[w][i]) = w
              /\ GroupsOf[w][i] \in Objects /\ GroupsOf[w][i] \notin Counted
         /\ \A v \in Wmo : \A i \in 1..Len(GroupsOf[w]), j \in 1..Len(GroupsOf[v]) :
              GroupsOf[w][i] = GroupsOf[v][j] => v = w /\ i = j
<1>1. /\ GroupsOf[w] \in Seq(Group) /\ Len(GroupsOf[w]) \in Nat
      /\ DOMAIN GroupsOf[w] = 1..Len(GroupsOf[w])
    BY GroupsOfType, LenProperties
<1>2. \A v \in Wmo : \A j \in 1..Len(GroupsOf[v]) : GroupsOf[v][j] \in ToSet(GroupsOf[v])
  <2> TAKE v \in Wmo
  <2> TAKE j \in 1..Len(GroupsOf[v])
  <2>1. DOMAIN GroupsOf[v] = 1..Len(GroupsOf[v])
      BY GroupsOfType, LenProperties
  <2>2. QED
      BY <2>1 DEF ToSet
<1>3. \A v \in Wmo : \A i \in 1..Len(GroupsOf[w]), j \in 1..Len(GroupsOf[v]) :
        GroupsOf[w][i] = GroupsOf[v][j] => v = w /\ i = j
    BY <1>1, <1>2, GroupsOfType DEF IsInjective
<1>4. ASSUME NEW i \in 1..Len(GroupsOf[w])
      PROVE  /\ GroupsOf[w][i] \in Group /\ OwnerOf(GroupsOf[w][i]) = w
             /\ GroupsOf[w][i] \in Objects /\ GroupsOf[w][i] \notin Counted
  <2>1. GroupsOf[w][i] \in Group
      BY <1>1, ElementOfSeq
  <2>2. GroupsOf[w][i] \in ToSet(GroupsOf[w])
      BY <1>2
  <2>3. OwnerOf(GroupsOf[w][i]) \in Wmo /\ GroupsOf[w][i] \in ToSet(GroupsOf[OwnerOf(GroupsOf[w][i])])
      BY <2>1, OwnerType
  <2>4. OwnerOf(GroupsOf[w][i]) = w
      BY <2>2, <2>3, GroupsOfType
  <2>5. QED
      BY <2>1, <2>4, CountedKinds DEF Objects
<1>5. QED
    BY <1>1, <1>3, <1>4

LEMMA GroupIsNamed ==
  \A g \in Group : \E w \in Wmo : \E i \in 1..Len(GroupsOf[w]) : g = GroupsOf[w][i]
<1> TAKE g \in Group
<1>1. PICK w \in Wmo : g \in ToSet(GroupsOf[w])
    BY GroupsOfType
<1>2. DOMAIN GroupsOf[w] = 1..Len(GroupsOf[w])
    BY NamedGroup
<1>3. QED
    BY <1>1, <1>2 DEF ToSet

LEMMA NamedOnce ==
  \A v, w \in Wmo : \A i \in 1..Len(GroupsOf[v]), j \in 1..Len(GroupsOf[w]) :
    GroupsOf[v][i] = GroupsOf[w][j] => v = w /\ i = j
BY NamedGroup

(* the elements of s from the one after m to n                             *)
LEMMA SubSeqFrom ==
  ASSUME NEW S, NEW s \in Seq(S), NEW m \in Nat, NEW n \in Nat, m <= n, n <= Len(s)
  PROVE  /\ SubSeq(s, m + 1, n) \in Seq(S) /\ Len(SubSeq(s, m + 1, n)) = n - m
         /\ DOMAIN SubSeq(s, m + 1, n) = 1..(n - m)
         /\ \A i \in 1..(n - m) : SubSeq(s, m + 1, n)[i] = s[m + i]
<1> DEFINE r == SubSeq(s, m + 1, n)
<1>1. m + 1 \in Int /\ n \in Int /\ Len(s) \in Nat
    BY LenProperties
<1>2. \A i \in (m + 1)..n : s[i] \in S
    BY <1>1, ElementOfSeq
<1>3. /\ r \in Seq(S) /\ Len(r) = (IF m + 1 <= n THEN n - (m + 1) + 1 ELSE 0)
      /\ \A i \in 1..(n - (m + 1) + 1) : r[i] = s[(m + 1) + i - 1]
    BY <1>1, <1>2, SubSeqProperties
<1>4. DOMAIN r = 1..Len(r)
    BY <1>3, LenProperties
<1> HIDE DEF r
<1>5. Len(r) = n - m
    BY <1>3
<1>6. \A i \in 1..(n - m) : r[i] = s[m + i]
  <2> TAKE i \in 1..(n - m)
  <2>1. n - (m + 1) + 1 = n - m /\ (m + 1) + i - 1 = m + i
      OBVIOUS
  <2>2. QED
      BY <1>3, <2>1
<1>7. QED
    BY <1>3, <1>4, <1>5, <1>6 DEF r

(* how often a resource is in what is parked with o                        *)
LEMMA TimesOfGroup ==
  ASSUME NEW gs \in [Wmo -> Seq(Group)], InOrder(gs), NEW v \in Wmo,
         NEW w \in Wmo, NEW j \in 1..Len(GroupsOf[w])
  PROVE  Times(GroupsOf[w][j], gs[v]) = IF v = w /\ j <= Len(gs[w]) THEN 1 ELSE 0
<1> DEFINE D == {i \in DOMAIN gs[v] : gs[v][i] = GroupsOf[w][j]}
<1>1. gs[v] \in Seq(Group) /\ Len(gs[v]) \in Nat /\ DOMAIN gs[v] = 1..Len(gs[v])
    BY LenProperties
<1>2. Len(gs[v]) <= Len(GroupsOf[v]) /\ Len(GroupsOf[v]) \in Nat
      /\ \A i \in 1..Len(gs[v]) : gs[v][i] = GroupsOf[v][i]
    BY NamedGroup DEF InOrder
<1>3. \A i \in 1..Len(gs[v]) : i \in 1..Len(GroupsOf[v])
    BY <1>1, <1>2
<1>4. \A i \in 1..Len(GroupsOf[v]) : GroupsOf[v][i] = GroupsOf[w][j] => v = w /\ i = j
    BY NamedOnce
<1>5. CASE v = w /\ j <= Len(gs[w])
  <2>1. j \in 1..Len(gs[v])
      BY <1>1, <1>5
  <2>2. D = {j}
      BY <1>1, <1>2, <1>3, <1>4, <1>5, <2>1
  <2>3. Cardinality(D) = 1
      BY <2>2, FS_Singleton
  <2>4. QED
      BY <1>5, <2>3 DEF Times
<1>6. CASE ~(v = w /\ j <= Len(gs[w]))
  <2>1. D = {}
      BY <1>1, <1>2, <1>3, <1>4, <1>6
  <2>2. Cardinality(D) = 0
      BY <2>1, FS_EmptySet
  <2>3. QED
      BY <1>6, <2>2 DEF Times
<1>7. QED
    BY <1>5, <1>6

LEMMA CondemnedTimes ==
  ASSUME NEW o \in Counted, NEW gs \in [Wmo -> Seq(Group)], InOrder(gs)
  PROVE  /\ \A p \in Counted : Times(p, Condemned(o, gs)) = IF p = o THEN 1 ELSE 0
         /\ \A w \in Wmo : \A j \in 1..Len(GroupsOf[w]) :
              Times(GroupsOf[w][j], Condemned(o, gs)) = IF w = o /\ j <= Len(gs[w]) THEN 1 ELSE 0
<1> DEFINE rest == IF o \in Wmo THEN gs[o] ELSE <<>>
<1>1. <<o>> \in Seq(Objects) /\ rest \in Seq(Objects) /\ rest \in Seq(Group)
    BY CountedKinds DEF Objects
<1>2. Condemned(o, gs) = <<o>> \o rest
    BY DEF Condemned
<1> HIDE DEF rest
<1>3. \A p : Times(p, Condemned(o, gs)) = Times(p, <<o>>) + Times(p, rest)
    BY <1>1, <1>2, TimesConcat
<1>4. \A p \in Counted : Times(p, rest) = 0
  <2> TAKE p \in Counted
  <2>1. p \notin Group
      BY CountedKinds
  <2>2. Times(p, rest) \in Nat /\ (Times(p, rest) > 0 <=> \E i \in DOMAIN rest : rest[i] = p)
      BY <1>1, PlacesFinite
  <2>3. \A i \in DOMAIN rest : rest[i] \in Group
      BY <1>1, ElementOfSeq, LenProperties
  <2>4. QED
      BY <2>1, <2>2, <2>3
<1>5. ASSUME NEW w \in Wmo, NEW j \in 1..Len(GroupsOf[w])
      PROVE  Times(GroupsOf[w][j], rest) = IF w = o /\ j <= Len(gs[w]) THEN 1 ELSE 0
  <2>1. CASE o \in Wmo
      BY <2>1, TimesOfGroup DEF rest
  <2>2. CASE o \notin Wmo
      BY <2>2, TimesEmpty DEF rest
  <2>3. QED
      BY <2>1, <2>2
<1>6. \A w \in Wmo : \A j \in 1..Len(GroupsOf[w]) : GroupsOf[w][j] # o
    BY NamedGroup
<1>7. \A p \in Counted : Times(p, Condemned(o, gs)) = IF p = o THEN 1 ELSE 0
    BY <1>3, <1>4, TimesOne
<1>8. ASSUME NEW w \in Wmo, NEW j \in 1..Len(GroupsOf[w])
      PROVE  Times(GroupsOf[w][j], Condemned(o, gs)) = IF w = o /\ j <= Len(gs[w]) THEN 1 ELSE 0
  <2>1. Times(GroupsOf[w][j], <<o>>) = 0
      BY <1>6, TimesOne
  <2>2. QED
      BY <1>3, <1>5, <2>1
<1>9. QED
    BY <1>7, <1>8

(* a group is made once, and while its WMO is in the cache it is there     *)
GroupsInOrder == InOrder(groups) /\ \A w \in Wmo : mem[w] = "unborn" => groups[w] = <<>>

GroupsMade ==
  \A w \in Wmo : \A i \in 1..Len(GroupsOf[w]) :
    /\ mem[GroupsOf[w][i]] # "unborn" <=> i <= Len(groups[w])
    /\ refs[w] > 0 => mem[GroupsOf[w][i]] # "freed"

LEMMA GroupsGrow ==
  ASSUME TypeOK, InOrder(groups), NEW o \in Wmo, NEW n \in Len(groups[o])..Len(GroupsOf[o]),
         MakeGroups(o, n)
  PROVE  /\ InOrder(groups') /\ Len(groups'[o]) = n
         /\ \A v \in Wmo : v # o => groups'[v] = groups[v]
         /\ \A p \in Counted : mem'[p] = mem[p]
         /\ \A w \in Wmo : \A i \in 1..Len(GroupsOf[w]) :
              mem'[GroupsOf[w][i]] = IF w = o /\ i \in (Len(groups[o]) + 1)..n
                                     THEN "live" ELSE mem[GroupsOf[w][i]]
<1> DEFINE m == Len(groups[o])
           made == SubSeq(GroupsOf[o], m + 1, n)
<1>1. groups \in [Wmo -> Seq(Group)] /\ mem \in [Objects -> {"unborn", "live", "freed"}]
    BY DEF TypeOK, ObjectTypeOK
<1>2. GroupsOf[o] \in Seq(Group) /\ Len(GroupsOf[o]) \in Nat /\ groups[o] \in Seq(Group) /\ m \in Nat
    BY <1>1, NamedGroup, LenProperties
<1>3. n \in Nat /\ m <= n /\ n <= Len(GroupsOf[o])
    BY <1>2
<1>4. /\ made \in Seq(Group) /\ Len(made) = n - m /\ DOMAIN made = 1..(n - m)
      /\ \A i \in 1..(n - m) : made[i] = GroupsOf[o][m + i]
  <2>1. PICK s \in Seq(Group), k \in Nat, p \in Nat : s = GroupsOf[o] /\ k = m /\ p = n
      BY <1>2, <1>3
  <2>2. k <= p /\ p <= Len(s)
      BY <1>3, <2>1
  <2>3. /\ SubSeq(s, k + 1, p) \in Seq(Group) /\ Len(SubSeq(s, k + 1, p)) = p - k
        /\ DOMAIN SubSeq(s, k + 1, p) = 1..(p - k)
        /\ \A i \in 1..(p - k) : SubSeq(s, k + 1, p)[i] = s[k + i]
      BY <2>2, SubSeqFrom
  <2>4. QED
      BY <2>1, <2>3
<1>5. /\ groups'[o] = groups[o] \o made
      /\ \A v \in Wmo : v # o => groups'[v] = groups[v]
      /\ mem' = [g \in Objects |-> IF g \in ToSet(made) THEN "live" ELSE mem[g]]
    BY <1>1 DEF MakeGroups
<1> HIDE DEF made, m
<1>6. ToSet(made) = {GroupsOf[o][i] : i \in (m + 1)..n}
  <2>1. ToSet(made) = {made[i] : i \in 1..(n - m)}
      BY <1>4 DEF ToSet
  <2>2. \A i \in 1..(n - m) : m + i \in (m + 1)..n /\ made[i] = GroupsOf[o][m + i]
      BY <1>2, <1>3, <1>4
  <2>3. ASSUME NEW i \in (m + 1)..n PROVE i - m \in 1..(n - m) /\ made[i - m] = GroupsOf[o][i]
    <3>1. i - m \in 1..(n - m) /\ m + (i - m) = i
        BY <1>2, <1>3
    <3>2. QED
        BY <1>4, <3>1
  <2>4. ASSUME NEW x \in ToSet(made) PROVE x \in {GroupsOf[o][i] : i \in (m + 1)..n}
    <3>1. PICK i \in 1..(n - m) : x = made[i]
        BY <2>1, <2>4
    <3>2. m + i \in (m + 1)..n /\ x = GroupsOf[o][m + i]
        BY <2>2, <3>1
    <3>3. QED
        BY <3>2
  <2>5. ASSUME NEW i \in (m + 1)..n PROVE GroupsOf[o][i] \in ToSet(made)
      BY <2>1, <2>3
  <2>6. QED
      BY <2>4, <2>5
<1>7. /\ Len(groups'[o]) = n
      /\ \A i \in 1..n : groups'[o][i] = IF i <= m THEN groups[o][i] ELSE made[i - m]
  <2>1. Len(groups[o]) = m
      BY DEF m
  <2>2. /\ Len(groups[o] \o made) = Len(groups[o]) + Len(made)
        /\ \A i \in 1..(Len(groups[o]) + Len(made)) :
             (groups[o] \o made)[i] = IF i <= Len(groups[o]) THEN groups[o][i] ELSE made[i - Len(groups[o])]
      BY <1>2, <1>4, ConcatProperties
  <2>3. Len(groups[o]) + Len(made) = n
      BY <1>2, <1>3, <1>4, <2>1
  <2>4. QED
      BY <1>5, <2>1, <2>2, <2>3
<1>8. InOrder(groups')
  <2>1. \A i \in 1..n : groups'[o][i] = GroupsOf[o][i]
    <3> TAKE i \in 1..n
    <3>1. CASE i <= m
        BY <1>2, <1>3, <1>7, <3>1 DEF InOrder, m
    <3>2. CASE ~(i <= m)
      <4>1. i - m \in 1..(n - m) /\ m + (i - m) = i
          BY <1>2, <1>3, <3>2
      <4>2. QED
          BY <1>4, <1>7, <3>2, <4>1
    <3>3. QED
        BY <3>1, <3>2
  <2>2. ASSUME NEW v \in Wmo
        PROVE  Len(groups'[v]) <= Len(GroupsOf[v])
               /\ \A i \in 1..Len(groups'[v]) : groups'[v][i] = GroupsOf[v][i]
    <3>1. CASE v = o
        BY <1>3, <1>7, <2>1, <3>1
    <3>2. CASE v # o
        BY <1>5, <3>2 DEF InOrder
    <3>3. QED
        BY <3>1, <3>2
  <2>3. QED
      BY <2>2 DEF InOrder
<1>9. \A p \in Counted : mem'[p] = mem[p]
  <2> TAKE p \in Counted
  <2>1. p \in Objects /\ p \notin ToSet(made)
    <3>1. \A i \in (m + 1)..n : i \in 1..Len(GroupsOf[o])
        BY <1>2, <1>3
    <3>2. QED
      <4>1. \A i \in (m + 1)..n : GroupsOf[o][i] # p
          BY <3>1, NamedGroup
      <4>2. QED
          BY <1>6, <4>1, CountedKinds
  <2>2. QED
      BY <1>5, <2>1
<1>10. ASSUME NEW w \in Wmo, NEW i \in 1..Len(GroupsOf[w])
       PROVE  mem'[GroupsOf[w][i]] = IF w = o /\ i \in (m + 1)..n THEN "live" ELSE mem[GroupsOf[w][i]]
  <2>1. GroupsOf[w][i] \in Objects
      BY NamedGroup
  <2>2. \A j \in (m + 1)..n : j \in 1..Len(GroupsOf[o])
      BY <1>2, <1>3
  <2>3. GroupsOf[w][i] \in ToSet(made) <=> w = o /\ i \in (m + 1)..n
      BY <1>6, <2>2, NamedOnce
  <2>4. QED
      BY <1>5, <2>1, <2>3
<1>11. QED
    BY <1>5, <1>7, <1>8, <1>9, <1>10 DEF m

-----------------------------------------------------------------------------
(* The way to the delete                                                   *)

Parked(o) == Times(o, gc[0]) + Times(o, gc[1]) + Times(o, gc[2])

Retired(o) == Parked(o) + Times(o, tasks[<<"unload", KindOf(o)>>]) + Working(o, {"unload"})

LiveWhileCounted == \A o \in Counted : refs[o] > 0 => mem[o] = "live"

RetiredOnce == \A o \in Objects : Retired(o) = IF mem[o] = "live" /\ IsCondemned(o) THEN 1 ELSE 0

Retirement == Accounts /\ LiveWhileCounted /\ GroupsInOrder /\ GroupsMade /\ RetiredOnce

LEMMA RetiredCounted ==
  ASSUME TypeOK, NEW o \in Objects
  PROVE  /\ Times(o, gc[0]) \in Nat /\ Times(o, gc[1]) \in Nat /\ Times(o, gc[2]) \in Nat
         /\ Times(o, tasks[<<"unload", KindOf(o)>>]) \in Nat /\ Working(o, {"unload"}) \in Nat
         /\ Parked(o) \in Nat /\ Retired(o) \in Nat
<1>1. \A s \in Slots : Times(o, gc[s]) \in Nat
    BY QueuesCounted DEF TypeOK
<1>2. Times(o, gc[0]) \in Nat /\ Times(o, gc[1]) \in Nat /\ Times(o, gc[2]) \in Nat
    BY <1>1 DEF Slots
<1>3. Times(o, tasks[<<"unload", KindOf(o)>>]) \in Nat
    BY LoadTask, QueuesCounted DEF TypeOK
<1>4. Working(o, {"unload"}) \in Nat
    BY WorkersCounted
<1>5. QED
    BY <1>2, <1>3, <1>4 DEF Parked, Retired

(* what is condemned, of the resources and of their groups                 *)
LEMMA WhatIsCondemned ==
  /\ \A o \in Counted : IsCondemned(o) <=> refs[o] = 0
  /\ \A w \in Wmo : \A i \in 1..Len(GroupsOf[w]) : IsCondemned(GroupsOf[w][i]) <=> refs[w] = 0
<1>1. \A o \in Counted : IsCondemned(o) <=> refs[o] = 0
    BY CountedKinds DEF IsCondemned
<1>2. ASSUME NEW w \in Wmo, NEW i \in 1..Len(GroupsOf[w])
      PROVE  IsCondemned(GroupsOf[w][i]) <=> refs[w] = 0
  <2>1. GroupsOf[w][i] \in Group /\ OwnerOf(GroupsOf[w][i]) = w
      BY NamedGroup
  <2>2. QED
      BY <2>1 DEF IsCondemned
<1>3. QED
    BY <1>1, <1>2

LEMMA WhatIsCondemnedNext ==
  /\ \A o \in Counted : IsCondemned(o)' <=> refs'[o] = 0
  /\ \A w \in Wmo : \A i \in 1..Len(GroupsOf[w]) : IsCondemned(GroupsOf[w][i])' <=> refs'[w] = 0
<1>1. \A o \in Counted : IsCondemned(o)' <=> refs'[o] = 0
    BY CountedKinds DEF IsCondemned
<1>2. ASSUME NEW w \in Wmo, NEW i \in 1..Len(GroupsOf[w])
      PROVE  IsCondemned(GroupsOf[w][i])' <=> refs'[w] = 0
  <2>1. GroupsOf[w][i] \in Group /\ OwnerOf(GroupsOf[w][i]) = w
      BY NamedGroup
  <2>2. QED
      BY <2>1 DEF IsCondemned
<1>3. QED
    BY <1>1, <1>2

(* RetiredOnce, for the resources and for their groups                     *)
LEMMA RetiredOnceIs ==
  RetiredOnce <=>
    /\ \A o \in Counted : Retired(o) = IF mem[o] = "live" /\ refs[o] = 0 THEN 1 ELSE 0
    /\ \A w \in Wmo : \A i \in 1..Len(GroupsOf[w]) :
         Retired(GroupsOf[w][i]) = IF mem[GroupsOf[w][i]] = "live" /\ refs[w] = 0 THEN 1 ELSE 0
<1>1. \A w \in Wmo : \A i \in 1..Len(GroupsOf[w]) : GroupsOf[w][i] \in Objects
    BY NamedGroup
<1>2. ASSUME RetiredOnce
      PROVE  /\ \A o \in Counted : Retired(o) = IF mem[o] = "live" /\ refs[o] = 0 THEN 1 ELSE 0
             /\ \A w \in Wmo : \A i \in 1..Len(GroupsOf[w]) :
                  Retired(GroupsOf[w][i]) = IF mem[GroupsOf[w][i]] = "live" /\ refs[w] = 0 THEN 1 ELSE 0
  <2>1. ASSUME NEW o \in Counted
        PROVE  Retired(o) = IF mem[o] = "live" /\ refs[o] = 0 THEN 1 ELSE 0
    <3>1. o \in Objects /\ (IsCondemned(o) <=> refs[o] = 0)
        BY CountedKinds, WhatIsCondemned
    <3>2. QED
        BY <1>2, <3>1 DEF RetiredOnce
  <2>2. ASSUME NEW w \in Wmo, NEW i \in 1..Len(GroupsOf[w])
        PROVE  Retired(GroupsOf[w][i]) = IF mem[GroupsOf[w][i]] = "live" /\ refs[w] = 0 THEN 1 ELSE 0
    <3>1. GroupsOf[w][i] \in Objects /\ (IsCondemned(GroupsOf[w][i]) <=> refs[w] = 0)
        BY <1>1, WhatIsCondemned
    <3>2. QED
        BY <1>2, <3>1 DEF RetiredOnce
  <2>3. QED
      BY <2>1, <2>2
<1>3. ASSUME \A o \in Counted : Retired(o) = IF mem[o] = "live" /\ refs[o] = 0 THEN 1 ELSE 0,
             \A w \in Wmo : \A i \in 1..Len(GroupsOf[w]) :
               Retired(GroupsOf[w][i]) = IF mem[GroupsOf[w][i]] = "live" /\ refs[w] = 0 THEN 1 ELSE 0,
             NEW o \in Objects
      PROVE  Retired(o) = IF mem[o] = "live" /\ IsCondemned(o) THEN 1 ELSE 0
  <2>1. CASE o \in Counted
      BY <1>3, <2>1, WhatIsCondemned
  <2>2. CASE o \in Group
    <3>1. PICK w \in Wmo : \E i \in 1..Len(GroupsOf[w]) : o = GroupsOf[w][i]
        BY <2>2, GroupIsNamed
    <3>2. PICK i \in 1..Len(GroupsOf[w]) : o = GroupsOf[w][i]
        BY <3>1
    <3>3. QED
        BY <1>3, <3>2, WhatIsCondemned
  <2>3. QED
      BY <2>1, <2>2 DEF Objects
<1>4. QED
    BY <1>2, <1>3 DEF RetiredOnce

LEMMA RetiredOnceNext ==
  ASSUME \A o \in Counted : Retired(o)' = IF mem'[o] = "live" /\ refs'[o] = 0 THEN 1 ELSE 0,
         \A w \in Wmo : \A i \in 1..Len(GroupsOf[w]) :
           Retired(GroupsOf[w][i])' = IF mem'[GroupsOf[w][i]] = "live" /\ refs'[w] = 0 THEN 1 ELSE 0
  PROVE  RetiredOnce'
<1> SUFFICES ASSUME NEW o \in Objects
             PROVE  Retired(o)' = IF mem'[o] = "live" /\ IsCondemned(o)' THEN 1 ELSE 0
    BY DEF RetiredOnce
<1>1. CASE o \in Counted
    BY <1>1, WhatIsCondemnedNext
<1>2. CASE o \in Group
  <2>1. PICK w \in Wmo : \E i \in 1..Len(GroupsOf[w]) : o = GroupsOf[w][i]
      BY <1>2, GroupIsNamed
  <2>2. PICK i \in 1..Len(GroupsOf[w]) : o = GroupsOf[w][i]
      BY <2>1
  <2>3. QED
      BY <2>2, WhatIsCondemnedNext
<1>3. QED
    BY <1>1, <1>2 DEF Objects

(* What a step may do to the resources: nothing, ...                       *)
Passes ==
  UNCHANGED <<refs, mem, groups>> /\ \A p \in Objects : Retired(p)' = Retired(p)

(* ... take one more reference, the first one to a new resource, ...       *)
Gains(o) ==
  /\ refs[o] > 0 \/ mem[o] = "unborn"
  /\ refs' = [refs EXCEPT ![o] = @ + 1] /\ groups' = groups
  /\ mem' = [mem EXCEPT ![o] = "live"]
  /\ \A p \in Objects : Retired(p)' = Retired(p)

GroupsGrowOrStay(o) ==
  \/ UNCHANGED <<mem, groups>>
  \/ o \in Wmo /\ \E n \in Len(groups[o])..Len(GroupsOf[o]) : MakeGroups(o, n)

(* ... give one back, after which some groups may have been made, ...      *)
Loses(o) ==
  /\ refs[o] > 0 /\ refs' = [refs EXCEPT ![o] = @ - 1]
  /\ GroupsGrowOrStay(o)
  /\ \A p \in Objects :
       Retired(p)' = Retired(p) + (IF refs[o] = 1 THEN Times(p, Condemned(o, groups')) ELSE 0)

(* ... make groups ...                                                     *)
Grows(o) ==
  /\ refs[o] > 0 /\ refs' = refs
  /\ GroupsGrowOrStay(o)
  /\ \A p \in Objects : Retired(p)' = Retired(p)

(* ... or free what was retired                                            *)
Frees(o) ==
  /\ Retired(o) > 0
  /\ UNCHANGED <<refs, groups>> /\ mem' = [mem EXCEPT ![o] = "freed"]
  /\ \A p \in Objects : Retired(p)' = Retired(p) - (IF p = o THEN 1 ELSE 0)

RetireStep ==
  \/ Passes
  \/ \E o \in Counted : Gains(o) \/ Loses(o) \/ Grows(o)
  \/ \E o \in Objects : Frees(o)

LEMMA PassesRetires ==
  ASSUME Retirement, Passes
  PROVE  LiveWhileCounted' /\ GroupsInOrder' /\ GroupsMade' /\ RetiredOnce'
<1>1. LiveWhileCounted' /\ GroupsInOrder' /\ GroupsMade'
    BY DEF Retirement, Passes, LiveWhileCounted, GroupsInOrder, GroupsMade, InOrder
<1>2. RetiredOnce'
  <2>1. \A o \in Objects : IsCondemned(o)' <=> IsCondemned(o)
      BY DEF Passes, IsCondemned
  <2>2. QED
      BY <2>1 DEF Retirement, Passes, RetiredOnce
<1>3. QED
    BY <1>1, <1>2

LEMMA GainsRetires ==
  ASSUME Retirement, NEW o \in Counted, Gains(o)
  PROVE  LiveWhileCounted' /\ GroupsInOrder' /\ GroupsMade' /\ RetiredOnce'
<1>1. /\ refs \in [Counted -> Nat] /\ mem \in [Objects -> {"unborn", "live", "freed"}]
      /\ groups \in [Wmo -> Seq(Group)]
    BY DEF Retirement, Accounts, TypeOK, CacheTypeOK, ObjectTypeOK
<1>2. /\ \A p \in Counted : refs'[p] = IF p = o THEN refs[o] + 1 ELSE refs[p]
      /\ \A p \in Objects : mem'[p] = IF p = o THEN "live" ELSE mem[p]
    BY <1>1 DEF Gains
<1>3. refs[o] > 0 => mem[o] = "live"
    BY DEF Retirement, LiveWhileCounted
<1>4. \A w \in Wmo : w \in Counted
    BY DEF Counted
<1>5. \A w \in Wmo : \A i \in 1..Len(GroupsOf[w]) :
        GroupsOf[w][i] \in Objects /\ mem'[GroupsOf[w][i]] = mem[GroupsOf[w][i]]
    BY <1>2, NamedGroup
<1>6. LiveWhileCounted'
    BY <1>2, CountedKinds DEF Retirement, LiveWhileCounted
<1>7. GroupsInOrder'
    BY <1>2, <1>4, CountedKinds DEF Retirement, GroupsInOrder, Gains, InOrder
<1>8. \A i \in 1..Len(GroupsOf[o]) : o \in Wmo /\ refs[o] = 0 => mem[GroupsOf[o][i]] = "unborn"
  <2> SUFFICES ASSUME o \in Wmo, refs[o] = 0, NEW i \in 1..Len(GroupsOf[o])
               PROVE  mem[GroupsOf[o][i]] = "unborn"
      OBVIOUS
  <2>1. Len(groups[o]) = 0
      BY <1>1 DEF Gains, Retirement, GroupsInOrder
  <2>2. QED
      BY <2>1 DEF Retirement, GroupsMade
<1>9. GroupsMade'
    BY <1>1, <1>2, <1>4, <1>5, <1>8 DEF Retirement, GroupsMade, Gains
<1>10. RetiredOnce'
  <2>1. \A p \in Counted : Retired(p)' = IF mem'[p] = "live" /\ refs'[p] = 0 THEN 1 ELSE 0
    <3> TAKE p \in Counted
    <3>1. Retired(p)' = Retired(p) /\ p \in Objects
        BY CountedKinds DEF Gains
    <3>2. Retired(p) = IF mem[p] = "live" /\ refs[p] = 0 THEN 1 ELSE 0
        BY RetiredOnceIs DEF Retirement
    <3>3. CASE p = o
      <4>1. Retired(p) = 0
          BY <3>2, <3>3 DEF Gains
      <4>2. refs'[p] # 0
          BY <1>1, <1>2, <3>3
      <4>3. QED
          BY <3>1, <4>1, <4>2
    <3>4. CASE p # o
        BY <1>2, <3>1, <3>2, <3>4
    <3>5. QED
        BY <3>3, <3>4
  <2>2. ASSUME NEW w \in Wmo, NEW i \in 1..Len(GroupsOf[w])
        PROVE  Retired(GroupsOf[w][i])' = IF mem'[GroupsOf[w][i]] = "live" /\ refs'[w] = 0 THEN 1 ELSE 0
    <3>1. Retired(GroupsOf[w][i])' = Retired(GroupsOf[w][i])
        BY <1>5 DEF Gains
    <3>2. Retired(GroupsOf[w][i]) = IF mem[GroupsOf[w][i]] = "live" /\ refs[w] = 0 THEN 1 ELSE 0
        BY RetiredOnceIs DEF Retirement
    <3>3. CASE w = o
      <4>1. Retired(GroupsOf[w][i]) = 0
          BY <1>8, <3>2, <3>3
      <4>2. refs'[w] # 0
          BY <1>1, <1>2, <1>4, <3>3
      <4>3. QED
          BY <3>1, <4>1, <4>2
    <3>4. CASE w # o
        BY <1>2, <1>4, <1>5, <3>1, <3>2, <3>4
    <3>5. QED
        BY <3>3, <3>4
  <2>3. QED
      BY <2>1, <2>2, RetiredOnceNext
<1>11. QED
    BY <1>6, <1>7, <1>9, <1>10

(* some groups of o are made while o is in the cache                       *)
LEMMA GroupsKnown ==
  ASSUME Retirement, NEW o \in Counted, refs[o] > 0, GroupsGrowOrStay(o), TypeOK'
  PROVE  /\ InOrder(groups') /\ groups' \in [Wmo -> Seq(Group)]
         /\ \A p \in Counted : mem'[p] = mem[p]
         /\ \A v \in Wmo : v # o => groups'[v] = groups[v]
         /\ \A w \in Wmo : \A i \in 1..Len(GroupsOf[w]) :
              /\ mem'[GroupsOf[w][i]] # "unborn" <=> i <= Len(groups'[w])
              /\ w # o => mem'[GroupsOf[w][i]] = mem[GroupsOf[w][i]]
              /\ w = o => mem'[GroupsOf[w][i]] # "freed"
<1>1. /\ groups' \in [Wmo -> Seq(Group)] /\ TypeOK /\ InOrder(groups)
      /\ groups \in [Wmo -> Seq(Group)]
    BY DEF TypeOK, ObjectTypeOK, Retirement, Accounts, GroupsInOrder
<1>2. CASE UNCHANGED <<mem, groups>>
    BY <1>1, <1>2 DEF Retirement, GroupsMade
<1>3. ASSUME o \in Wmo, NEW n \in Len(groups[o])..Len(GroupsOf[o]), MakeGroups(o, n)
      PROVE  /\ InOrder(groups') /\ \A p \in Counted : mem'[p] = mem[p]
             /\ \A v \in Wmo : v # o => groups'[v] = groups[v]
             /\ \A w \in Wmo : \A i \in 1..Len(GroupsOf[w]) :
                  /\ mem'[GroupsOf[w][i]] # "unborn" <=> i <= Len(groups'[w])
                  /\ w # o => mem'[GroupsOf[w][i]] = mem[GroupsOf[w][i]]
                  /\ w = o => mem'[GroupsOf[w][i]] # "freed"
  <2>1. /\ InOrder(groups') /\ Len(groups'[o]) = n
        /\ \A v \in Wmo : v # o => groups'[v] = groups[v]
        /\ \A p \in Counted : mem'[p] = mem[p]
        /\ \A w \in Wmo : \A i \in 1..Len(GroupsOf[w]) :
             mem'[GroupsOf[w][i]] = IF w = o /\ i \in (Len(groups[o]) + 1)..n
                                    THEN "live" ELSE mem[GroupsOf[w][i]]
      BY <1>1, <1>3, GroupsGrow
  <2>2. Len(groups[o]) \in Nat /\ n \in Nat /\ Len(groups[o]) <= n
    <3>1. Len(groups[o]) \in Nat /\ Len(GroupsOf[o]) \in Nat
        BY <1>1, <1>3, NamedGroup, LenProperties
    <3>2. QED
        BY <3>1
  <2>3. ASSUME NEW w \in Wmo, NEW i \in 1..Len(GroupsOf[w])
        PROVE  /\ mem'[GroupsOf[w][i]] # "unborn" <=> i <= Len(groups'[w])
               /\ w # o => mem'[GroupsOf[w][i]] = mem[GroupsOf[w][i]]
               /\ w = o => mem'[GroupsOf[w][i]] # "freed"
    <3>1. /\ mem[GroupsOf[w][i]] # "unborn" <=> i <= Len(groups[w])
          /\ refs[w] > 0 => mem[GroupsOf[w][i]] # "freed"
        BY DEF Retirement, GroupsMade
    <3>2. CASE w = o
      <4>1. i \in Nat /\ i >= 1
          OBVIOUS
      <4>2. CASE i \in (Len(groups[o]) + 1)..n
          BY <2>1, <2>2, <3>2, <4>1, <4>2
      <4>3. CASE i \notin (Len(groups[o]) + 1)..n
        <5>1. mem'[GroupsOf[w][i]] = mem[GroupsOf[w][i]]
            BY <2>1, <4>3
        <5>2. i <= n <=> i <= Len(groups[o])
            BY <2>2, <4>1, <4>3
        <5>3. QED
            BY <2>1, <3>1, <3>2, <5>1, <5>2
      <4>4. QED
          BY <4>2, <4>3
    <3>3. CASE w # o
        BY <2>1, <3>1, <3>3
    <3>4. QED
        BY <3>2, <3>3
  <2>4. QED
      BY <2>1, <2>3
<1>4. QED
    BY <1>1, <1>2, <1>3 DEF GroupsGrowOrStay

LEMMA LosesRetires ==
  ASSUME Retirement, NEW o \in Counted, Loses(o), TypeOK'
  PROVE  LiveWhileCounted' /\ GroupsInOrder' /\ GroupsMade' /\ RetiredOnce'
<1>1. refs \in [Counted -> Nat] /\ refs[o] > 0 /\ \A w \in Wmo : w \in Counted
    BY DEF Retirement, Accounts, TypeOK, CacheTypeOK, Loses, Counted
<1>2. /\ InOrder(groups') /\ groups' \in [Wmo -> Seq(Group)]
      /\ \A p \in Counted : mem'[p] = mem[p]
      /\ \A v \in Wmo : v # o => groups'[v] = groups[v]
      /\ \A w \in Wmo : \A i \in 1..Len(GroupsOf[w]) :
           /\ mem'[GroupsOf[w][i]] # "unborn" <=> i <= Len(groups'[w])
           /\ w # o => mem'[GroupsOf[w][i]] = mem[GroupsOf[w][i]]
           /\ w = o => mem'[GroupsOf[w][i]] # "freed"
    BY GroupsKnown DEF Loses
<1>3. \A p \in Counted : refs'[p] = IF p = o THEN refs[o] - 1 ELSE refs[p]
    BY <1>1 DEF Loses
<1>4. mem[o] = "live"
    BY <1>1 DEF Retirement, LiveWhileCounted
<1>5. LiveWhileCounted'
    BY <1>1, <1>2, <1>3, <1>4 DEF Retirement, LiveWhileCounted
<1>6. GroupsInOrder'
    BY <1>1, <1>2, <1>4 DEF Retirement, GroupsInOrder
<1>7. GroupsMade'
  <2>1. ASSUME NEW w \in Wmo, NEW i \in 1..Len(GroupsOf[w]), refs'[w] > 0
        PROVE  mem'[GroupsOf[w][i]] # "freed"
    <3>1. CASE w = o
        BY <1>2, <3>1
    <3>2. CASE w # o
      <4>1. refs[w] > 0 /\ mem'[GroupsOf[w][i]] = mem[GroupsOf[w][i]]
          BY <1>1, <1>2, <1>3, <2>1, <3>2
      <4>2. QED
          BY <4>1 DEF Retirement, GroupsMade
    <3>3. QED
        BY <3>1, <3>2
  <2>2. QED
      BY <1>2, <2>1 DEF GroupsMade
<1>8. /\ \A p \in Counted : Times(p, Condemned(o, groups')) = IF p = o THEN 1 ELSE 0
      /\ \A w \in Wmo : \A j \in 1..Len(GroupsOf[w]) :
           Times(GroupsOf[w][j], Condemned(o, groups')) = IF w = o /\ j <= Len(groups'[w]) THEN 1 ELSE 0
    BY <1>2, CondemnedTimes
<1>9. ASSUME NEW p \in Counted
      PROVE  Retired(p)' = IF mem'[p] = "live" /\ refs'[p] = 0 THEN 1 ELSE 0
  <2>1. Retired(p) = IF mem[p] = "live" /\ refs[p] = 0 THEN 1 ELSE 0
      BY RetiredOnceIs DEF Retirement
  <2>2. Retired(p)' = Retired(p) + (IF refs[o] = 1 /\ p = o THEN 1 ELSE 0)
      BY <1>8, <2>1, CountedKinds DEF Loses
  <2>3. QED
      BY <1>1, <1>2, <1>3, <1>4, <2>1, <2>2
<1>10. ASSUME NEW w \in Wmo, NEW i \in 1..Len(GroupsOf[w])
       PROVE  Retired(GroupsOf[w][i])' = IF mem'[GroupsOf[w][i]] = "live" /\ refs'[w] = 0 THEN 1 ELSE 0
  <2> DEFINE g == GroupsOf[w][i]
  <2>1. Retired(g) = IF mem[g] = "live" /\ refs[w] = 0 THEN 1 ELSE 0
      BY RetiredOnceIs DEF Retirement
  <2>2. g \in Objects
      BY NamedGroup
  <2>3. Retired(g)' = Retired(g) + (IF refs[o] = 1 /\ w = o /\ i <= Len(groups'[w]) THEN 1 ELSE 0)
      BY <1>8, <2>1, <2>2 DEF Loses
  <2>4. mem'[g] \in {"unborn", "live", "freed"}
      BY <2>2 DEF TypeOK, ObjectTypeOK
  <2>5. CASE w = o
    <3>1. Retired(g) = 0
        BY <1>1, <2>1, <2>5
    <3>2. mem'[g] = "live" <=> i <= Len(groups'[w])
        BY <1>2, <2>4, <2>5
    <3>3. refs'[w] = 0 <=> refs[o] = 1
        BY <1>1, <1>3, <2>5
    <3>4. QED
        BY <2>3, <2>5, <3>1, <3>2, <3>3
  <2>6. CASE w # o
    <3>1. mem'[g] = mem[g] /\ refs'[w] = refs[w]
        BY <1>1, <1>2, <1>3, <2>6
    <3>2. QED
        BY <2>1, <2>3, <2>6, <3>1
  <2>7. QED
      BY <2>5, <2>6
<1>11. RetiredOnce'
    BY <1>9, <1>10, RetiredOnceNext
<1>12. QED
    BY <1>5, <1>6, <1>7, <1>11

LEMMA GrowsRetires ==
  ASSUME Retirement, NEW o \in Counted, Grows(o), TypeOK'
  PROVE  LiveWhileCounted' /\ GroupsInOrder' /\ GroupsMade' /\ RetiredOnce'
<1>1. refs' = refs /\ refs[o] > 0 /\ \A w \in Wmo : w \in Counted
    BY DEF Grows, Counted
<1>2. /\ InOrder(groups') /\ groups' \in [Wmo -> Seq(Group)]
      /\ \A p \in Counted : mem'[p] = mem[p]
      /\ \A v \in Wmo : v # o => groups'[v] = groups[v]
      /\ \A w \in Wmo : \A i \in 1..Len(GroupsOf[w]) :
           /\ mem'[GroupsOf[w][i]] # "unborn" <=> i <= Len(groups'[w])
           /\ w # o => mem'[GroupsOf[w][i]] = mem[GroupsOf[w][i]]
           /\ w = o => mem'[GroupsOf[w][i]] # "freed"
    BY GroupsKnown DEF Grows
<1>3. mem[o] = "live"
    BY <1>1 DEF Retirement, LiveWhileCounted
<1>4. LiveWhileCounted' /\ GroupsInOrder' /\ GroupsMade'
    BY <1>1, <1>2, <1>3 DEF Retirement, LiveWhileCounted, GroupsInOrder, GroupsMade
<1>5. ASSUME NEW p \in Counted
      PROVE  Retired(p)' = IF mem'[p] = "live" /\ refs'[p] = 0 THEN 1 ELSE 0
  <2>1. Retired(p) = IF mem[p] = "live" /\ refs[p] = 0 THEN 1 ELSE 0
      BY RetiredOnceIs DEF Retirement
  <2>2. Retired(p)' = Retired(p)
      BY CountedKinds DEF Grows
  <2>3. QED
      BY <1>1, <1>2, <2>1, <2>2
<1>6. ASSUME NEW w \in Wmo, NEW i \in 1..Len(GroupsOf[w])
      PROVE  Retired(GroupsOf[w][i])' = IF mem'[GroupsOf[w][i]] = "live" /\ refs'[w] = 0 THEN 1 ELSE 0
  <2>1. Retired(GroupsOf[w][i]) = IF mem[GroupsOf[w][i]] = "live" /\ refs[w] = 0 THEN 1 ELSE 0
      BY RetiredOnceIs DEF Retirement
  <2>2. Retired(GroupsOf[w][i])' = Retired(GroupsOf[w][i])
      BY NamedGroup DEF Grows
  <2>3. QED
      BY <1>1, <1>2, <2>1, <2>2
<1>7. RetiredOnce'
    BY <1>5, <1>6, RetiredOnceNext
<1>8. QED
    BY <1>4, <1>7

LEMMA FreesRetires ==
  ASSUME Retirement, NEW o \in Objects, Frees(o)
  PROVE  LiveWhileCounted' /\ GroupsInOrder' /\ GroupsMade' /\ RetiredOnce'
<1>1. Retired(o) = IF mem[o] = "live" /\ IsCondemned(o) THEN 1 ELSE 0
    BY DEF Retirement, RetiredOnce
<1>2. mem[o] = "live" /\ IsCondemned(o) /\ Retired(o) = 1
    BY <1>1 DEF Frees
<1>3. /\ o \in Counted => refs[o] = 0
      /\ \A w \in Wmo : \A i \in 1..Len(GroupsOf[w]) : GroupsOf[w][i] = o => refs[w] = 0
    BY <1>2, WhatIsCondemned
<1>4. mem \in [Objects -> {"unborn", "live", "freed"}] /\ refs' = refs /\ groups' = groups
    BY DEF Retirement, Accounts, TypeOK, ObjectTypeOK, Frees
<1>5. \A p \in Objects : mem'[p] = IF p = o THEN "freed" ELSE mem[p]
    BY <1>4 DEF Frees
<1>6. LiveWhileCounted'
  <2>1. ASSUME NEW p \in Counted, refs'[p] > 0
        PROVE  mem'[p] = "live"
    <3>1. p \in Objects /\ refs[p] > 0 /\ p # o
      <4>1. p \in Objects
          BY CountedKinds
      <4>2. refs[p] > 0 /\ refs[p] # 0
          BY <1>4, <2>1
      <4>3. p # o
          BY <1>3, <4>2
      <4>4. QED
          BY <4>1, <4>2, <4>3
    <3>2. mem[p] = "live"
        BY <3>1 DEF Retirement, LiveWhileCounted
    <3>3. QED
        BY <1>5, <3>1, <3>2
  <2>2. QED
      BY <2>1 DEF LiveWhileCounted
<1>7. GroupsInOrder'
    BY <1>4, <1>5, CountedKinds DEF Retirement, GroupsInOrder, Counted
<1>8. GroupsMade'
  <2>1. \A w \in Wmo : \A i \in 1..Len(GroupsOf[w]) : GroupsOf[w][i] \in Objects
      BY NamedGroup
  <2>2. QED
      BY <1>2, <1>3, <1>4, <1>5, <2>1 DEF Retirement, GroupsMade
<1>9. RetiredOnce'
  <2>1. ASSUME NEW p \in Objects
        PROVE  Retired(p)' = IF mem'[p] = "live" /\ IsCondemned(p)' THEN 1 ELSE 0
    <3>1. Retired(p) = (IF mem[p] = "live" /\ IsCondemned(p) THEN 1 ELSE 0)
        BY DEF Retirement, RetiredOnce
    <3>2. IsCondemned(p)' <=> IsCondemned(p)
        BY <1>4 DEF IsCondemned
    <3>3. Retired(p)' = Retired(p) - (IF p = o THEN 1 ELSE 0)
        BY DEF Frees
    <3>4. CASE p = o
        BY <1>2, <1>5, <3>3, <3>4
    <3>5. CASE p # o
        BY <1>5, <3>1, <3>2, <3>3, <3>5
    <3>6. QED
        BY <3>4, <3>5
  <2>2. QED
      BY <2>1 DEF RetiredOnce
<1>10. QED
    BY <1>6, <1>7, <1>8, <1>9

LEMMA RetireStepRetires ==
  ASSUME Retirement, RetireStep, Accounts'
  PROVE  Retirement'
<1>1. TypeOK'
    BY DEF Accounts
<1>2. LiveWhileCounted' /\ GroupsInOrder' /\ GroupsMade' /\ RetiredOnce'
    BY <1>1, PassesRetires, GainsRetires, LosesRetires, GrowsRetires, FreesRetires DEF RetireStep
<1>3. QED
    BY <1>2 DEF Retirement

-----------------------------------------------------------------------------
(* Every step is one of the kinds above                                    *)

UnloadsKept == \A k \in Kinds : tasks'[<<"unload", k>>] = tasks[<<"unload", k>>]
UnloadersKept == \A p \in Objects : Working(p, {"unload"})' = Working(p, {"unload"})

LEMMA RetiredKept ==
  ASSUME gc' = gc, UnloadsKept, UnloadersKept
  PROVE  \A p \in Objects : Retired(p)' = Retired(p)
<1> SUFFICES ASSUME NEW p \in Objects PROVE Retired(p)' = Retired(p)
    OBVIOUS
<1>1. Parked(p)' = Parked(p)
    BY DEF Parked
<1>2. tasks'[<<"unload", KindOf(p)>>] = tasks[<<"unload", KindOf(p)>>]
    BY KindOfObject DEF UnloadsKept
<1>3. QED
    BY <1>1, <1>2 DEF Retired, UnloadersKept

LEMMA SameWorkers == ASSUME worker' = worker PROVE UnloadersKept
BY DEF UnloadersKept, Working

LEMMA OtherWork ==
  ASSUME TypeOK, NEW w \in Workers, NEW job, Becomes(w, job),
         worker[w].at # "unload", job.at # "unload"
  PROVE  UnloadersKept
<1> SUFFICES ASSUME NEW p \in Objects PROVE Working(p, {"unload"})' = Working(p, {"unload"})
    BY DEF UnloadersKept
<1>1. /\ Working(p, {"unload"}) \in Nat
      /\ Working(p, {"unload"})' = Working(p, {"unload"}) + (IF Doing(job, p, {"unload"}) THEN 1 ELSE 0)
                           - (IF Doing(worker[w], p, {"unload"}) THEN 1 ELSE 0)
    BY WorkerMoves
<1>2. ~Doing(job, p, {"unload"}) /\ ~Doing(worker[w], p, {"unload"})
    BY DEF Doing
<1>3. QED
    BY <1>1, <1>2

LEMMA SameTasks == ASSUME tasks' = tasks PROVE UnloadsKept
BY DEF UnloadsKept

LEMMA LoadPushed ==
  ASSUME TypeOK, NEW k, NEW s, tasks' = Push(tasks, <<"load", k>>, s)
  PROVE  UnloadsKept
BY DEF UnloadsKept, Push, TypeOK, QueueTypeOK, TaskTypes

(* what is parked changes with one slot                                    *)
LEMMA SlotChanges ==
  ASSUME TypeOK, NEW p \in Objects, NEW s \in Slots, NEW d \in Int,
         Times(p, gc'[s]) = Times(p, gc[s]) + d,
         \A r \in Slots : r # s => gc'[r] = gc[r]
  PROVE  Parked(p)' = Parked(p) + d
<1>1. Times(p, gc[0]) \in Nat /\ Times(p, gc[1]) \in Nat /\ Times(p, gc[2]) \in Nat
    BY RetiredCounted
<1>2. Slots = {0, 1, 2}
    BY DEF Slots
<1>3. Parked(p)' = Times(p, gc'[0]) + Times(p, gc'[1]) + Times(p, gc'[2])
    BY DEF Parked
<1>4. CASE s = 0
    BY <1>1, <1>2, <1>3, <1>4 DEF Parked
<1>5. CASE s = 1
    BY <1>1, <1>2, <1>3, <1>5 DEF Parked
<1>6. CASE s = 2
    BY <1>1, <1>2, <1>3, <1>6 DEF Parked
<1>7. QED
    BY <1>2, <1>4, <1>5, <1>6

(* a reference given back                                                  *)
LEMMA UnrefLoses ==
  ASSUME TypeOK, TypeOK', NEW o \in Counted, UnrefWith(o, groups'), refs[o] > 0,
         GroupsGrowOrStay(o), UnloadsKept, UnloadersKept
  PROVE  Loses(o)
<1>1. groups' \in [Wmo -> Seq(Group)] /\ refs \in [Counted -> Nat] /\ cullId \in Slots
      /\ gc \in [Slots -> Seq(Objects)]
    BY DEF TypeOK, ObjectTypeOK, CacheTypeOK, ThreadTypeOK, QueueTypeOK
<1>2. Condemned(o, groups') \in Seq(Objects)
    BY <1>1, CondemnedType
<1>3. refs' = [refs EXCEPT ![o] = @ - 1]
    BY <1>1 DEF UnrefWith
<1>4. \/ refs[o] > 1 /\ gc' = gc
      \/ refs[o] = 1 /\ gc' = Push(gc, cullId, Condemned(o, groups'))
    BY <1>1 DEF UnrefWith
<1>5. CASE refs[o] > 1 /\ gc' = gc
  <2>1. \A p \in Objects : Retired(p)' = Retired(p) /\ Retired(p) \in Nat
      BY <1>5, RetiredKept, RetiredCounted
  <2>2. QED
      BY <1>1, <1>3, <1>5, <2>1 DEF Loses
<1>6. CASE refs[o] = 1 /\ gc' = Push(gc, cullId, Condemned(o, groups'))
  <2>1. ASSUME NEW p \in Objects
        PROVE  Retired(p)' = Retired(p) + Times(p, Condemned(o, groups'))
    <3>1. gc'[cullId] = gc[cullId] \o Condemned(o, groups')
          /\ \A r \in Slots : r # cullId => gc'[r] = gc[r]
        BY <1>1, <1>6 DEF Push
    <3>2. Times(p, gc'[cullId]) = Times(p, gc[cullId]) + Times(p, Condemned(o, groups'))
        BY <1>1, <1>2, <3>1, TimesConcat
    <3>3. Times(p, Condemned(o, groups')) \in Nat
        BY <1>2, PlacesFinite
    <3>4. Parked(p)' = Parked(p) + Times(p, Condemned(o, groups'))
      <4>1. PICK s \in Slots, d \in Int : s = cullId /\ d = Times(p, Condemned(o, groups'))
          BY <1>1, <3>3
      <4>2. Times(p, gc'[s]) = Times(p, gc[s]) + d /\ \A r \in Slots : r # s => gc'[r] = gc[r]
          BY <3>1, <3>2, <4>1
      <4>3. Parked(p)' = Parked(p) + d
          BY <4>2, SlotChanges
      <4>4. QED
          BY <4>1, <4>3
    <3>5. tasks'[<<"unload", KindOf(p)>>] = tasks[<<"unload", KindOf(p)>>]
        BY KindOfObject DEF UnloadsKept
    <3>6. Working(p, {"unload"})' = Working(p, {"unload"})
        BY DEF UnloadersKept
    <3>7. Parked(p) \in Nat /\ Times(p, tasks[<<"unload", KindOf(p)>>]) \in Nat /\ Working(p, {"unload"}) \in Nat
        BY RetiredCounted
    <3>8. Retired(p)' = Parked(p)' + Times(p, tasks'[<<"unload", KindOf(p)>>]) + Working(p, {"unload"})'
        BY DEF Retired
    <3>9. QED
        BY <3>3, <3>4, <3>5, <3>6, <3>7, <3>8 DEF Retired
  <2>2. QED
      BY <1>3, <1>6, <2>1 DEF Loses
<1>7. QED
    BY <1>4, <1>5, <1>6

LEMMA StaysPasses ==
  ASSUME UNCHANGED <<refs, mem, groups, gc>>, UnloadsKept, UnloadersKept
  PROVE  RetireStep
BY RetiredKept DEF RetireStep, Passes

(* what a worker loads is in the cache                                     *)
LEMMA WorkerPins ==
  ASSUME Accounts, NEW w \in Workers, worker[w].at \in {"load", "fill", "post"},
         worker[w].obj \in Counted
  PROVE  Pins(worker[w].obj) > 0 /\ refs[worker[w].obj] > 0 /\ worker[w].obj \notin lateRef
<1>1. PICK o \in Counted : worker[w].obj = o
    OBVIOUS
<1>2. Working(o, {"load", "fill", "post"}) > 0 /\ Working(o, {"load", "fill", "post"}) \in Nat
    BY <1>1, WorkersCounted
<1>3. Pins(o) > 0
    BY <1>2, CountedKinds, PinsCounted DEF Pins, Accounts, TypeOK
<1>4. QED
    BY <1>1, <1>3, PinnedIsCounted

LEMMA RefGains ==
  ASSUME Retirement, NEW o \in Counted, Ref(o), UNCHANGED <<mem, groups, gc>>,
         UnloadsKept, UnloadersKept
  PROVE  RetireStep
<1>1. refs \in [Counted -> Nat] /\ mem \in [Objects -> {"unborn", "live", "freed"}]
    BY DEF Retirement, Accounts, TypeOK, CacheTypeOK, ObjectTypeOK
<1>2. CASE refs[o] = 0
  <2>1. refs' = refs
      BY <1>2 DEF Ref
  <2>2. QED
      BY <2>1, StaysPasses
<1>3. CASE refs[o] # 0
  <2>1. refs[o] > 0 /\ refs' = [refs EXCEPT ![o] = @ + 1]
      BY <1>1, <1>3 DEF Ref
  <2>2. mem[o] = "live"
      BY <2>1 DEF Retirement, LiveWhileCounted
  <2>3. mem' = [mem EXCEPT ![o] = "live"]
      BY <1>1, <2>2
  <2>4. Gains(o)
      BY <2>1, <2>3, RetiredKept DEF Gains
  <2>5. QED
      BY <2>4 DEF RetireStep
<1>4. QED
    BY <1>2, <1>3

LEMMA UserStepRetires ==
  ASSUME Retirement, NEW u \in Users, UserStep(u), TypeOK'
  PROVE  RetireStep
<1>1. ASSUME NEW o \in Counted, RefByKey(u, o) PROVE RetireStep
  <2>1. /\ UNCHANGED <<groups, gc, tasks, worker>>
        /\ refs[o] > 0 \/ mem[o] = "unborn"
        /\ refs' = [refs EXCEPT ![o] = @ + 1] /\ mem' = [mem EXCEPT ![o] = "live"]
      BY <1>1 DEF RefByKey, flagVars
  <2>2. Gains(o)
      BY <2>1, RetiredKept, SameTasks, SameWorkers DEF Gains
  <2>3. QED
      BY <2>2 DEF RetireStep
<1>2. ASSUME NEW o \in Counted, AskCheck(u, o) PROVE RetireStep
  <2>1. UNCHANGED <<refs, mem, groups, gc, tasks, worker>>
      BY <1>2 DEF AskCheck, flagVars, cacheVars
  <2>2. QED
      BY <2>1, StaysPasses, SameTasks, SameWorkers
<1>3. CASE AskMark(u)
  <2>1. UNCHANGED <<refs, mem, groups, gc, tasks, worker>>
      BY <1>3 DEF AskMark, cacheVars
  <2>2. QED
      BY <2>1, StaysPasses, SameTasks, SameWorkers
<1>4. CASE AskRef(u)
  <2>1. PICK o \in Counted : asking[u].obj = o
      BY <1>4, AskerObject DEF AskRef, Retirement, Accounts, TypeOK
  <2>2. UNCHANGED <<mem, groups, gc, tasks, worker>> /\ Ref(o)
      BY <1>4, <2>1 DEF AskRef, flagVars
  <2>3. QED
      BY <2>2, RefGains, SameTasks, SameWorkers
<1>5. CASE AskPush(u)
  <2>1. UNCHANGED <<refs, mem, groups, gc, worker>>
        /\ tasks' = Push(tasks, <<"load", KindOf(asking[u].obj)>>, <<asking[u].obj>>)
      BY <1>5 DEF AskPush, cacheVars, flagVars
  <2>2. UnloadsKept
      BY <2>1, LoadPushed DEF Retirement, Accounts
  <2>3. QED
      BY <2>1, <2>2, StaysPasses, SameWorkers
<1>6. ASSUME NEW o \in Counted, AskLocked(u, o) PROVE RetireStep
  <2>1. UNCHANGED <<mem, groups, gc, worker>> /\ Ref(o)
        /\ tasks' = Push(tasks, <<"load", KindOf(o)>>, <<o>>)
      BY <1>6 DEF AskLocked
  <2>2. UnloadsKept
      BY <2>1, LoadPushed DEF Retirement, Accounts
  <2>3. QED
      BY <2>1, <2>2, RefGains, SameWorkers
<1>7. ASSUME NEW o \in Counted, Release(u, o) PROVE RetireStep
  <2>1. UNCHANGED <<mem, groups, tasks, worker>> /\ UnrefWith(o, groups)
      BY <1>7 DEF Release, Unref, flagVars
  <2>2. CASE refs[o] = 0
    <3>1. refs' = refs /\ gc' = gc
        BY <2>1, <2>2 DEF UnrefWith
    <3>2. QED
        BY <2>1, <3>1, StaysPasses, SameTasks, SameWorkers
  <2>3. CASE refs[o] # 0
    <3>1. refs[o] > 0
        BY <2>3 DEF Retirement, Accounts, TypeOK, CacheTypeOK
    <3>2. Loses(o)
      <4>1. UnrefWith(o, groups') /\ GroupsGrowOrStay(o)
          BY <2>1 DEF GroupsGrowOrStay
      <4>2. QED
          BY <2>1, <3>1, <4>1, UnrefLoses, SameTasks, SameWorkers DEF Retirement, Accounts
    <3>3. QED
        BY <3>2 DEF RetireStep
  <2>4. QED
      BY <2>2, <2>3
<1>8. QED
    BY <1>1, <1>2, <1>3, <1>4, <1>5, <1>6, <1>7 DEF UserStep

(* a task a worker finds goes from its queue to the worker                 *)
LEMMA FindTaskRetires ==
  ASSUME TypeOK, NEW w \in Workers, FindTask(w)
  PROVE  RetireStep
<1>1. PICK t \in TaskTypes : \E i \in DOMAIN tasks[t] :
        tasks' = [tasks EXCEPT ![t] = RemoveAt(@, i)] /\ Becomes(w, Work(t[1], tasks[t][i]))
    BY DEF FindTask
<1>2. PICK i \in DOMAIN tasks[t] :
        tasks' = [tasks EXCEPT ![t] = RemoveAt(@, i)] /\ Becomes(w, Work(t[1], tasks[t][i]))
    BY <1>1
<1>3. t[1] \in {"load", "unload"} /\ t[2] \in Kinds /\ t = <<t[1], t[2]>>
    BY DEF TaskTypes
<1>4. PICK o \in Objects : o = tasks[t][i] /\ KindOf(o) = t[2]
  <2>1. tasks[t] \in Seq(Of[t[2]])
      BY DEF TypeOK, QueueTypeOK
  <2>2. tasks[t][i] \in Of[t[2]]
      BY <2>1, ElementOfSeq, LenProperties
  <2>3. QED
      BY <1>3, <2>2, KindIsUnique
<1>5. UNCHANGED <<refs, mem, groups, gc>> /\ worker[w].at = "idle"
    BY DEF FindTask, WorkerFrame, cacheVars, At
<1>6. \A p : \A u \in TaskTypes :
        /\ Times(p, tasks[u]) \in Nat
        /\ Times(p, tasks'[u]) = Times(p, tasks[u]) - (IF u = t /\ p = o THEN 1 ELSE 0)
  <2>1. /\ tasks'[t] = RemoveAt(tasks[t], i) /\ QueueTypeOK
        /\ \A u \in TaskTypes : u # t => tasks'[u] = tasks[u]
      BY <1>2 DEF TypeOK, QueueTypeOK
  <2>2. Taken(t, o)
      BY <1>4, <2>1 DEF Taken
  <2>3. QED
      BY <2>1, <2>2, TaskTaken
<1>7. ASSUME NEW p \in Objects PROVE Retired(p)' = Retired(p)
  <2> DEFINE d == IF t[1] = "unload" /\ p = o THEN 1 ELSE 0
  <2>1. Times(p, tasks'[<<"unload", KindOf(p)>>]) = Times(p, tasks[<<"unload", KindOf(p)>>]) - d
    <3>1. <<"unload", KindOf(p)>> \in TaskTypes
        BY LoadTask
    <3>2. <<"unload", KindOf(p)>> = t /\ p = o <=> t[1] = "unload" /\ p = o
        BY <1>3, <1>4
    <3>3. QED
        BY <1>6, <3>1, <3>2
  <2>2. Working(p, {"unload"})' = Working(p, {"unload"}) + d
    <3>1. /\ Working(p, {"unload"}) \in Nat
          /\ Working(p, {"unload"})' = Working(p, {"unload"}) + (IF Doing(Work(t[1], o), p, {"unload"}) THEN 1 ELSE 0)
                               - (IF Doing(worker[w], p, {"unload"}) THEN 1 ELSE 0)
        BY <1>2, <1>4, WorkerMoves
    <3>2. ~Doing(worker[w], p, {"unload"}) /\ (Doing(Work(t[1], o), p, {"unload"}) <=> t[1] = "unload" /\ p = o)
        BY <1>3, <1>5 DEF Doing, Work
    <3>3. QED
        BY <3>1, <3>2
  <2>3. Parked(p) \in Nat /\ Times(p, tasks[<<"unload", KindOf(p)>>]) \in Nat /\ Working(p, {"unload"}) \in Nat
      BY RetiredCounted
  <2>4. Parked(p)' = Parked(p)
      BY <1>5 DEF Parked
  <2>5. Retired(p)' = Parked(p)' + Times(p, tasks'[<<"unload", KindOf(p)>>]) + Working(p, {"unload"})'
      BY DEF Retired
  <2>6. d \in Nat
      OBVIOUS
  <2> HIDE DEF d
  <2>7. QED
      BY <2>1, <2>2, <2>3, <2>4, <2>5, <2>6 DEF Retired
<1>8. QED
    BY <1>5, <1>7 DEF RetireStep, Passes

LEMMA UnloadRetires ==
  ASSUME TypeOK, NEW w \in Workers, Unload(w)
  PROVE  RetireStep
<1>1. worker[w].at = "unload" /\ worker[w].at # "idle"
    BY DEF Unload, At
<1>2. PICK o \in Objects : worker[w].obj = o
    BY <1>1, WorkerObject DEF TypeOK
<1>3. /\ UNCHANGED <<refs, groups, gc, tasks>> /\ Becomes(w, NoWork)
      /\ mem' = [mem EXCEPT ![o] = "freed"]
    BY <1>2 DEF Unload, WorkerFrame, cacheVars
<1>4. Working(o, {"unload"}) > 0
    BY <1>1, <1>2, WorkersCounted
<1>5. Retired(o) > 0
    BY <1>4, RetiredCounted DEF Retired
<1>6. ASSUME NEW p \in Objects PROVE Retired(p)' = Retired(p) - (IF p = o THEN 1 ELSE 0)
  <2>1. /\ Working(p, {"unload"}) \in Nat
        /\ Working(p, {"unload"})' = Working(p, {"unload"}) + (IF Doing(NoWork, p, {"unload"}) THEN 1 ELSE 0)
                             - (IF Doing(worker[w], p, {"unload"}) THEN 1 ELSE 0)
      BY <1>3, WorkerMoves
  <2>2. ~Doing(NoWork, p, {"unload"}) /\ (Doing(worker[w], p, {"unload"}) <=> p = o)
      BY <1>1, <1>2 DEF Doing, NoWork
  <2>3. Working(p, {"unload"})' = Working(p, {"unload"}) - (IF p = o THEN 1 ELSE 0)
      BY <2>1, <2>2
  <2>4. Parked(p)' = Parked(p)
      BY <1>3 DEF Parked
  <2>5. Retired(p)' = Parked(p) + Times(p, tasks[<<"unload", KindOf(p)>>]) + Working(p, {"unload"})'
      BY <1>3, <2>4 DEF Retired
  <2>6. Parked(p) \in Nat /\ Times(p, tasks[<<"unload", KindOf(p)>>]) \in Nat
      BY RetiredCounted
  <2>7. QED
      BY <2>1, <2>3, <2>5, <2>6 DEF Retired
<1>7. Frees(o)
    BY <1>3, <1>5, <1>6 DEF Frees
<1>8. QED
    BY <1>7 DEF RetireStep

(* a load ended by the worker w                                            *)
LEMMA LoaderLoses ==
  ASSUME Accounts, TypeOK', NEW w \in Workers, worker[w].at \in {"load", "fill", "post"},
         worker[w].obj \in Counted, UnrefWith(worker[w].obj, groups'),
         NEW job, Becomes(w, job), job.at # "unload",
         GroupsGrowOrStay(worker[w].obj), UnloadsKept
  PROVE  RetireStep
<1>1. PICK o \in Counted : worker[w].obj = o
    OBVIOUS
<1>2. TypeOK /\ refs[o] > 0
    BY <1>1, WorkerPins DEF Accounts
<1>3. UnloadersKept
    BY <1>2, OtherWork
<1>4. Loses(o)
    BY <1>1, <1>2, <1>3, UnrefLoses
<1>5. QED
    BY <1>4 DEF RetireStep

LEMMA LoaderPasses ==
  ASSUME TypeOK, NEW w \in Workers, NEW job, Becomes(w, job),
         worker[w].at # "unload", job.at # "unload", UNCHANGED <<refs, mem, groups, gc, tasks>>
  PROVE  RetireStep
BY OtherWork, SameTasks, StaysPasses

LEMMA LoadWmoRetires ==
  ASSUME Accounts, TypeOK', GroupsInOrder, NEW w \in Workers, LoadWmo(w)
  PROVE  RetireStep
<1>1. PICK o \in Wmo : worker[w].obj = o
    BY DEF LoadWmo
<1>2. o \in Counted /\ TypeOK
    BY DEF Counted, Accounts
<1>3. worker[w].at = "load" /\ Becomes(w, NoWork) /\ NoWork.at = "idle"
    BY DEF LoadWmo, At, NoWork
<1>4. refs[o] > 0 /\ UnloadersKept
    BY <1>1, <1>2, <1>3, WorkerPins, OtherWork
<1>5. \A n : MakeGroups(o, n) => UnloadsKept
    BY <1>2, LoadPushed DEF MakeGroups
<1>6. Len(groups[o]) \in Nat /\ Len(GroupsOf[o]) \in Nat /\ Len(groups[o]) <= Len(GroupsOf[o])
  <2>1. groups[o] \in Seq(Group)
      BY <1>2 DEF TypeOK, ObjectTypeOK
  <2>2. QED
      BY <2>1, NamedGroup, LenProperties DEF GroupsInOrder, InOrder
<1>7. \/ MakeGroups(o, Len(GroupsOf[o])) /\ UNCHANGED <<refs, gc>>
      \/ /\ \E n \in Len(groups[o])..Len(GroupsOf[o]) : MakeGroups(o, n)
         /\ UnrefWith(o, groups')
      \/ UNCHANGED <<refs, gc, mem, groups, tasks>>
    BY <1>1 DEF LoadWmo, cacheVars
<1>8. CASE MakeGroups(o, Len(GroupsOf[o])) /\ UNCHANGED <<refs, gc>>
  <2>1. Len(GroupsOf[o]) \in Len(groups[o])..Len(GroupsOf[o])
      BY <1>6
  <2>2. GroupsGrowOrStay(o)
      BY <1>8, <2>1 DEF GroupsGrowOrStay
  <2>3. \A p \in Objects : Retired(p)' = Retired(p)
      BY <1>4, <1>5, <1>8, RetiredKept
  <2>4. Grows(o)
      BY <1>4, <1>8, <2>2, <2>3 DEF Grows
  <2>5. QED
      BY <1>2, <2>4 DEF RetireStep
<1>9. CASE /\ \E n \in Len(groups[o])..Len(GroupsOf[o]) : MakeGroups(o, n)
           /\ UnrefWith(o, groups')
  <2>1. GroupsGrowOrStay(o) /\ UnloadsKept
      BY <1>5, <1>9 DEF GroupsGrowOrStay
  <2>2. Loses(o)
      BY <1>2, <1>4, <1>9, <2>1, UnrefLoses
  <2>3. QED
      BY <1>2, <2>2 DEF RetireStep
<1>10. CASE UNCHANGED <<refs, gc, mem, groups, tasks>>
    BY <1>2, <1>3, <1>10, LoaderPasses
<1>11. QED
    BY <1>7, <1>8, <1>9, <1>10

LEMMA WorkerStepRetires ==
  ASSUME Retirement, NEW w \in Workers, WorkerStep(w), TypeOK'
  PROVE  RetireStep
<1>0. TypeOK /\ Accounts /\ GroupsInOrder
    BY DEF Retirement, Accounts
<1>1. NoWork.at # "unload" /\ \A o : Work("clear", o).at # "unload" /\ Work("fill", o).at # "unload"
        /\ Work("post", o).at # "unload"
    BY DEF NoWork, Work
<1>2. CASE FindTask(w) \/ Unload(w) \/ LoadWmo(w)
    BY <1>0, <1>2, FindTaskRetires, UnloadRetires, LoadWmoRetires
<1>3. CASE LoadNoFile(w) \/ LoadBadFile(w)
  <2>1. /\ worker[w].at = "load" /\ worker[w].obj \in Counted /\ Becomes(w, NoWork)
        /\ UNCHANGED <<mem, groups, tasks>> /\ UnrefWith(worker[w].obj, groups)
      BY <1>3 DEF LoadNoFile, LoadBadFile, At, Unref
  <2>2. UnrefWith(worker[w].obj, groups') /\ GroupsGrowOrStay(worker[w].obj) /\ UnloadsKept
      BY <2>1, SameTasks DEF GroupsGrowOrStay
  <2>3. QED
      BY <1>0, <1>1, <2>1, <2>2, LoaderLoses
<1>4. CASE LoadBlp(w)
  <2>1. /\ worker[w].at = "load" /\ UNCHANGED <<refs, mem, groups, gc, tasks>>
        /\ \/ Becomes(w, Work("clear", worker[w].obj))
           \/ Becomes(w, Work("fill", worker[w].obj))
      BY <1>4 DEF LoadBlp, At, cacheVars
  <2>2. QED
      BY <1>0, <1>1, <2>1, LoaderPasses
<1>5. CASE FillBlp(w)
  <2>1. /\ worker[w].at = "fill" /\ UNCHANGED <<mem, groups, tasks>>
        /\ Becomes(w, Work("clear", worker[w].obj))
        /\ UNCHANGED <<refs, gc>> \/ UnrefWith(worker[w].obj, groups)
      BY <1>5 DEF FillBlp, At, cacheVars, Unref
  <2>2. worker[w].obj \in Counted
      BY <1>0, <2>1 DEF TypeOK, ThreadTypeOK, NoWork, Counted
  <2>3. CASE UNCHANGED <<refs, gc>>
      BY <1>0, <1>1, <2>1, <2>3, LoaderPasses
  <2>4. CASE UnrefWith(worker[w].obj, groups)
    <3>1. UnrefWith(worker[w].obj, groups') /\ GroupsGrowOrStay(worker[w].obj) /\ UnloadsKept
        BY <2>1, <2>4, SameTasks DEF GroupsGrowOrStay
    <3>2. QED
        BY <1>0, <1>1, <2>1, <2>2, <3>1, LoaderLoses
  <2>5. QED
      BY <2>1, <2>3, <2>4
<1>6. CASE ClearBlp(w) \/ PostLoadM2(w) \/ LoadGroup(w)
  <2>1. /\ worker[w].at # "unload" /\ UNCHANGED <<refs, mem, groups, gc, tasks>>
        /\ Becomes(w, NoWork)
      BY <1>6 DEF ClearBlp, PostLoadM2, LoadGroup, At, cacheVars
  <2>2. QED
      BY <1>0, <1>1, <2>1, LoaderPasses
<1>7. CASE LoadM2(w)
  <2>1. /\ worker[w].at = "load" /\ UNCHANGED <<mem, groups, tasks>>
        /\ worker[w].obj \in Counted
        /\ \/ UNCHANGED <<refs, gc>> /\ Becomes(w, Work("post", worker[w].obj))
           \/ UnrefWith(worker[w].obj, groups) /\ Becomes(w, NoWork)
      BY <1>7 DEF LoadM2, At, cacheVars, Unref, Counted
  <2>2. CASE UNCHANGED <<refs, gc>> /\ Becomes(w, Work("post", worker[w].obj))
      BY <1>0, <1>1, <2>1, <2>2, LoaderPasses
  <2>3. CASE UnrefWith(worker[w].obj, groups) /\ Becomes(w, NoWork)
    <3>1. UnrefWith(worker[w].obj, groups') /\ GroupsGrowOrStay(worker[w].obj) /\ UnloadsKept
        BY <2>1, <2>3, SameTasks DEF GroupsGrowOrStay
    <3>2. QED
        BY <1>0, <1>1, <2>1, <2>3, <3>1, LoaderLoses
  <2>4. QED
      BY <2>1, <2>2, <2>3
<1>8. QED
    BY <1>2, <1>3, <1>4, <1>5, <1>6, <1>7 DEF WorkerStep

(* the initialisation of a resource ends its load                          *)
LEMMA InitObjectRetires ==
  ASSUME Retirement, InitObject, TypeOK'
  PROVE  RetireStep
<1>0. TypeOK /\ Accounts
    BY DEF Retirement, Accounts
<1>1. UNCHANGED <<mem, groups, tasks, worker, buffer>>
    BY DEF InitObject, MainFrame
<1>2. UnloadsKept /\ UnloadersKept
    BY <1>1, SameTasks, SameWorkers
<1>3. PICK i \in 1..4 : LET k == InitOrder[i]  o == Head(toInit[k]) IN
        /\ toInit[k] # <<>>
        /\ \/ UNCHANGED <<refs, gc>>
           \/ k # "group" /\ Unref(o)
    BY DEF InitObject, cacheVars
<1> DEFINE k == InitOrder[i]
<1>4. k \in Kinds
    BY DEF InitOrder, Kinds
<1>5. toInit[k] \in Seq(Objects) /\ toInit[k] \in Seq(Of[k]) /\ toInit[k] # <<>>
    BY <1>0, <1>3, <1>4 DEF TypeOK, QueueTypeOK
<1>6. CASE UNCHANGED <<refs, gc>>
    BY <1>1, <1>2, <1>6, StaysPasses
<1>7. CASE k # "group" /\ UnrefWith(Head(toInit[k]), groups)
  <2>1. PICK o \in Of[k] : o = Head(toInit[k])
      BY <1>5
  <2>2. o \in Counted /\ o \in Objects /\ KindOf(o) = k
      BY <1>4, <1>7, KindIsUnique DEF Kinds, Of, Counted
  <2>3. Times(o, toInit[KindOf(o)]) > 0
    <3>1. Times(o, toInit[k]) = Times(o, Tail(toInit[k])) + 1
        BY <1>5, <2>1, TimesTail
    <3>2. Tail(toInit[k]) \in Seq(Objects)
        BY <1>5
    <3>3. Times(o, Tail(toInit[k])) \in Nat
        BY <3>2, PlacesFinite
    <3>4. QED
        BY <2>2, <3>1, <3>3
  <2>4. Pins(o) > 0
      BY <1>0, <2>2, <2>3, PinsCounted DEF Pins, TypeOK
  <2>5. refs[o] > 0
      BY <1>0, <2>2, <2>4, PinnedIsCounted
  <2>6. UnrefWith(o, groups') /\ GroupsGrowOrStay(o)
      BY <1>1, <1>7, <2>1 DEF GroupsGrowOrStay
  <2>7. Loses(o)
      BY <1>0, <1>2, <2>2, <2>5, <2>6, UnrefLoses
  <2>8. QED
      BY <2>2, <2>7 DEF RetireStep
<1>8. QED
    BY <1>3, <1>6, <1>7 DEF Unref

(* what was parked goes to the queue of the unloads                        *)
LEMMA GcObjectRetires ==
  ASSUME TypeOK, GcObject
  PROVE  RetireStep
<1>1. UNCHANGED <<refs, mem, groups, worker>> /\ gc[drawId] # <<>>
    BY DEF GcObject, MainFrame, cacheVars
<1>2. PICK s \in Slots : s = drawId
    BY DEF TypeOK, ThreadTypeOK
<1>3. gc[s] \in Seq(Objects) /\ gc[s] # <<>> /\ gc \in [Slots -> Seq(Objects)]
    BY <1>1, <1>2 DEF TypeOK, QueueTypeOK
<1>4. PICK o \in Objects : o = Head(gc[s])
    BY <1>3
<1>5. /\ tasks' = Push(tasks, <<"unload", KindOf(o)>>, <<o>>)
      /\ gc' = [gc EXCEPT ![s] = Tail(@)]
    BY <1>2, <1>4 DEF GcObject
<1>6. gc'[s] = Tail(gc[s]) /\ \A r \in Slots : r # s => gc'[r] = gc[r]
    BY <1>3, <1>5
<1>7. ASSUME NEW p \in Objects PROVE Retired(p)' = Retired(p)
  <2> DEFINE d == IF p = o THEN 1 ELSE 0
  <2>1. Times(p, tasks'[<<"unload", KindOf(p)>>]) = Times(p, tasks[<<"unload", KindOf(p)>>]) + d
    <3> HIDE DEF d
    <3>1. PICK t \in TaskTypes, u \in TaskTypes, q \in Seq(Objects) :
            t = <<"unload", KindOf(o)>> /\ u = <<"unload", KindOf(p)>> /\ q = <<o>>
      <4>1. <<"unload", KindOf(o)>> \in TaskTypes /\ <<"unload", KindOf(p)>> \in TaskTypes
          BY LoadTask
      <4>2. <<o>> \in Seq(Objects)
          OBVIOUS
      <4>3. QED
          BY <4>1, <4>2
    <3>2. Times(p, tasks'[u]) = Times(p, tasks[u]) + (IF u = t THEN Times(p, q) ELSE 0)
      <4>1. QueueTypeOK
          BY DEF TypeOK
      <4>2. tasks' = Push(tasks, t, q)
          BY <1>5, <3>1
      <4>3. QED
          BY <4>1, <4>2, TaskPushed
    <3>3. Times(p, <<o>>) = d
        BY TimesOne DEF d
    <3>4. KindOf(p) # KindOf(o) => d = 0
        BY DEF d
    <3>5. <<"unload", KindOf(p)>> = <<"unload", KindOf(o)>> <=> KindOf(p) = KindOf(o)
        OBVIOUS
    <3>6. Times(p, tasks[u]) \in Nat
        BY <3>1, QueuesCounted DEF TypeOK
    <3>7. QED
        BY <3>1, <3>2, <3>3, <3>4, <3>5, <3>6
  <2>2. Times(p, gc'[s]) = Times(p, gc[s]) + (-d)
    <3>1. Times(p, gc[s]) = Times(p, Tail(gc[s])) + d
        BY <1>3, <1>4, TimesTail
    <3>2. Tail(gc[s]) \in Seq(Objects)
        BY <1>3
    <3>3. Times(p, Tail(gc[s])) \in Nat
        BY <3>2, PlacesFinite
    <3>4. QED
        BY <1>6, <3>1, <3>3
  <2>3. d \in Int /\ -d \in Int
      OBVIOUS
  <2> HIDE DEF d
  <2>4. Parked(p)' = Parked(p) + (-d)
      BY <1>6, <2>2, <2>3, SlotChanges
  <2>5. Working(p, {"unload"})' = Working(p, {"unload"})
      BY <1>1 DEF Working
  <2>6. Parked(p) \in Nat /\ Times(p, tasks[<<"unload", KindOf(p)>>]) \in Nat /\ Working(p, {"unload"}) \in Nat
      BY RetiredCounted
  <2>7. Retired(p)' = Parked(p)' + Times(p, tasks'[<<"unload", KindOf(p)>>]) + Working(p, {"unload"})'
      BY DEF Retired
  <2>8. QED
      BY <2>1, <2>3, <2>4, <2>5, <2>6, <2>7 DEF Retired
<1>8. QED
    BY <1>1, <1>7 DEF RetireStep, Passes

LEMMA MainStepRetires ==
  ASSUME Retirement, FrameStep \/ NextFrame \/ Quit \/ ShutdownStep, TypeOK'
  PROVE  RetireStep
<1>1. CASE InitObject
    BY <1>1, InitObjectRetires
<1>2. CASE GcObject
    BY <1>2, GcObjectRetires DEF Retirement, Accounts
<1>3. CASE \/ Tick \/ InitEnd \/ GcEnd \/ NextFrame \/ Quit \/ StartDrain \/ DrainTick
           \/ DrainEnd \/ AsyncWait \/ AsyncEnd
  <2>1. UNCHANGED <<refs, mem, groups, gc, tasks, worker>>
      BY <1>3 DEF Tick, InitEnd, GcEnd, NextFrame, Quit, StartDrain, DrainTick, DrainEnd, AsyncWait,
                  AsyncEnd, MainFrame, MainIdle, cacheVars
  <2>2. QED
      BY <2>1, StaysPasses, SameTasks, SameWorkers
<1>4. QED
    BY <1>1, <1>2, <1>3 DEF FrameStep, ShutdownStep

LEMMA NextRetires == ASSUME Retirement, [Next]_vars, TypeOK' PROVE RetireStep
<1>1. CASE UNCHANGED vars
  <2>1. UNCHANGED <<refs, mem, groups, gc, tasks, worker>>
      BY <1>1 DEF vars
  <2>2. QED
      BY <2>1, StaysPasses, SameTasks, SameWorkers
<1>2. QED
    BY <1>1, UserStepRetires, WorkerStepRetires, MainStepRetires DEF Next, Torn

LEMMA InitRetirement == Init => Retirement
<1> SUFFICES ASSUME Init PROVE Retirement
    OBVIOUS
<1>1. Accounts
    BY InitAccounts
<1>2. LiveWhileCounted
    BY DEF Init, LiveWhileCounted
<1>3. GroupsInOrder
    BY NamedGroup DEF Init, GroupsInOrder, InOrder
<1>4. GroupsMade
    BY NamedGroup DEF Init, GroupsMade
<1>5. RetiredOnce
  <2> SUFFICES ASSUME NEW o \in Objects PROVE Retired(o) = 0 /\ mem[o] # "live"
      BY DEF RetiredOnce
  <2>1. Parked(o) = 0
      BY TimesEmpty DEF Init, Parked, Slots
  <2>2. tasks[<<"unload", KindOf(o)>>] = <<>>
      BY LoadTask DEF Init
  <2>3. Working(o, {"unload"}) = 0
      BY WorkersCounted DEF Init, NoWork
  <2>4. QED
      BY <2>1, <2>2, <2>3, TimesEmpty DEF Retired, Init
<1>6. QED
    BY <1>1, <1>2, <1>3, <1>4, <1>5 DEF Retirement

LEMMA NextRetirement == ASSUME Retirement, [Next]_vars PROVE Retirement'
<1>1. Accounts' /\ TypeOK'
    BY NextAccounts DEF Retirement, Accounts
<1>2. QED
    BY <1>1, NextRetires, RetireStepRetires

LEMMA RetirementKept == Spec => []Retirement
<1>1. Retirement /\ [Next]_vars => Retirement'
    BY NextRetirement
<1>2. QED
    BY <1>1, InitRetirement, PTL DEF Spec

(* a resource in one slot at most: the places are the times                *)
LEMMA PlacesAreTimes ==
  ASSUME TypeOK, NEW o \in Objects, Parked(o) <= 1
  PROVE  Cardinality({s \in Slots : \E i \in DOMAIN gc[s] : gc[s][i] = o}) = Parked(o)
<1> DEFINE S == {s \in Slots : \E i \in DOMAIN gc[s] : gc[s][i] = o}
<1>1. Slots = {0, 1, 2}
    BY DEF Slots
<1>2. ASSUME NEW s \in Slots
      PROVE  Times(o, gc[s]) \in Nat /\ (Times(o, gc[s]) > 0 <=> s \in S)
  <2>1. gc[s] \in Seq(Objects)
      BY DEF TypeOK, QueueTypeOK
  <2>2. QED
      BY <2>1, PlacesFinite
<1>3. S \subseteq {0, 1, 2}
    BY <1>1
<1> HIDE DEF S
<1>4. CASE Parked(o) = 0
  <2>1. S = {}
      BY <1>1, <1>2, <1>3, <1>4 DEF Parked
  <2>2. QED
      BY <1>4, <2>1, FS_EmptySet DEF S
<1>5. CASE Parked(o) = 1
  <2>1. PICK a \in Nat, b \in Nat, c \in Nat :
          /\ a = Times(o, gc[0]) /\ b = Times(o, gc[1]) /\ c = Times(o, gc[2])
          /\ a + b + c = 1
      BY <1>1, <1>2, <1>5 DEF Parked
  <2>2. (a > 0 <=> 0 \in S) /\ (b > 0 <=> 1 \in S) /\ (c > 0 <=> 2 \in S)
      BY <1>1, <1>2, <2>1
  <2>3. (a = 1 /\ b = 0 /\ c = 0) \/ (a = 0 /\ b = 1 /\ c = 0) \/ (a = 0 /\ b = 0 /\ c = 1)
      BY <2>1
  <2>4. (0 \in S /\ 1 \notin S /\ 2 \notin S) \/ (0 \notin S /\ 1 \in S /\ 2 \notin S)
        \/ (0 \notin S /\ 1 \notin S /\ 2 \in S)
      BY <2>2, <2>3
  <2>5. S = {0} \/ S = {1} \/ S = {2}
      BY <1>3, <2>4
  <2>6. Cardinality(S) = 1
      BY <2>5, FS_Singleton
  <2>7. QED
      BY <1>5, <2>6 DEF S
<1>6. Parked(o) \in Nat
    BY RetiredCounted
<1>7. QED
    BY <1>4, <1>5, <1>6

(* Whatever the number of resources, users and workers, what the cache let *)
(* go of is in exactly one place on its way to the delete, and what it has *)
(* not let go of is in none (the destructors of the caches, loader_gc_*,   *)
(* do_gc, find_task and the unload tasks).                                 *)
THEOREM RetiredExactlyOnce == Spec => []CondemnedOnce
<1>1. Retirement => CondemnedOnce
  <2> SUFFICES ASSUME Retirement, NEW o \in Objects
               PROVE  Places(o) = IF mem[o] = "live" /\ IsCondemned(o) THEN 1 ELSE 0
      BY DEF CondemnedOnce
  <2>1. TypeOK
      BY DEF Retirement, Accounts
  <2>2. Retired(o) = IF mem[o] = "live" /\ IsCondemned(o) THEN 1 ELSE 0
      BY DEF Retirement, RetiredOnce
  <2>3. Parked(o) \in Nat /\ Times(o, tasks[<<"unload", KindOf(o)>>]) \in Nat /\ Working(o, {"unload"}) \in Nat
      BY <2>1, RetiredCounted
  <2>4. Parked(o) <= 1
      BY <2>2, <2>3 DEF Retired
  <2>5. QED
      BY <2>1, <2>2, <2>4, PlacesAreTimes DEF Places, Retired
<1>2. QED
    BY <1>1, RetirementKept, PTL

-----------------------------------------------------------------------------
(* The load of a group                                                     *)

GroupLoad == <<"load", "group">>

(* the loads of the group g under way: nothing counts them                 *)
Loadings(g) == Times(g, tasks[GroupLoad]) + Working(g, {"load"})

GroupLoadedOnce ==
  \A g \in Group : /\ Loadings(g) <= 1
                   /\ Loadings(g) > 0 => mem[g] = "live" /\ Working(g, {"unload"}) = 0

(* the flag find_task consults is set on every group a worker loads        *)
LoadersMarked ==
  \A w \in Workers : worker[w].at = "load" /\ worker[w].obj \in Group => worker[w].obj \in loading

(* What a step may do to the load of a group: go on with it, ...           *)
GroupStays(g) ==
  /\ Loadings(g)' <= Loadings(g)
  /\ Loadings(g) > 0 => mem'[g] = mem[g] /\ Working(g, {"unload"})' <= Working(g, {"unload"})

(* ... or queue it, for the group was created                              *)
GroupQueued(g) ==
  /\ Loadings(g)' = Loadings(g) + 1 /\ Working(g, {"unload"})' = Working(g, {"unload"})
  /\ mem[g] = "unborn" /\ mem'[g] = "live"

GroupStep == \A g \in Group : GroupStays(g) \/ GroupQueued(g)

LEMMA LoadingsCounted ==
  ASSUME TypeOK, NEW g \in Group
  PROVE  /\ g \in Objects /\ KindOf(g) = "group" /\ GroupLoad \in TaskTypes
         /\ Times(g, tasks[GroupLoad]) \in Nat /\ Working(g, {"load"}) \in Nat
         /\ Loadings(g) \in Nat /\ Working(g, {"unload"}) \in Nat
<1>1. g \in Objects /\ KindOf(g) = "group"
    BY KindIsUnique DEF Kinds, Of
<1>2. GroupLoad \in TaskTypes
    BY DEF GroupLoad, TaskTypes, Kinds
<1>3. Times(g, tasks[GroupLoad]) \in Nat
    BY <1>2, QueuesCounted DEF TypeOK
<1>4. Working(g, {"load"}) \in Nat /\ Working(g, {"unload"}) \in Nat
    BY WorkersCounted
<1>5. QED
    BY <1>1, <1>2, <1>3, <1>4 DEF Loadings

LEMMA LoadingsCountedNext ==
  ASSUME TypeOK', NEW g \in Group
  PROVE  Loadings(g)' \in Nat /\ Working(g, {"unload"})' \in Nat
<1>1. GroupLoad \in TaskTypes
    BY DEF GroupLoad, TaskTypes, Kinds
<1>2. tasks'[GroupLoad] \in Seq(Objects)
    BY <1>1 DEF TypeOK, QueueTypeOK
<1>3. Times(g, tasks'[GroupLoad]) \in Nat
    BY <1>2, PlacesFinite
<1>4. Working(g, {"load"})' \in Nat /\ Working(g, {"unload"})' \in Nat
  <2>1. \A at : IsFiniteSet({v \in Workers : worker'[v].at \in {at} /\ worker'[v].obj = g})
      BY ThreadsAreFinite, FS_Subset
  <2>2. QED
      BY <2>1, CardinalityNat DEF Working
<1>5. QED
    BY <1>3, <1>4 DEF Loadings

(* what is not alive is on no way to its delete                            *)
LEMMA NotRetired ==
  ASSUME Retirement, NEW o \in Objects, mem[o] # "live"
  PROVE  Working(o, {"unload"}) = 0
<1>1. Retired(o) = 0
    BY DEF Retirement, RetiredOnce
<1>2. QED
    BY <1>1, RetiredCounted DEF Retired, Retirement, Accounts

LEMMA GroupStepKept ==
  ASSUME Retirement, GroupLoadedOnce, GroupStep, TypeOK'
  PROVE  GroupLoadedOnce'
<1> SUFFICES ASSUME NEW g \in Group
             PROVE  /\ Loadings(g)' <= 1
                    /\ Loadings(g)' > 0 => mem'[g] = "live" /\ Working(g, {"unload"})' = 0
    BY DEF GroupLoadedOnce
<1>1. /\ Loadings(g) \in Nat /\ Loadings(g)' \in Nat /\ g \in Objects
      /\ Working(g, {"unload"}) \in Nat /\ Working(g, {"unload"})' \in Nat
    BY LoadingsCounted, LoadingsCountedNext DEF Retirement, Accounts
<1>2. Loadings(g) <= 1 /\ (Loadings(g) > 0 => mem[g] = "live" /\ Working(g, {"unload"}) = 0)
    BY DEF GroupLoadedOnce
<1>3. CASE GroupStays(g)
    BY <1>1, <1>2, <1>3 DEF GroupStays
<1>4. CASE GroupQueued(g)
  <2>1. Loadings(g) = 0 /\ Working(g, {"unload"}) = 0
      BY <1>1, <1>2, <1>4, NotRetired DEF GroupQueued
  <2>2. QED
      BY <1>4, <2>1 DEF GroupQueued
<1>5. QED
    BY <1>3, <1>4 DEF GroupStep

(* a step that neither queues nor takes the load of a group                *)
LEMMA NoGroupWork ==
  ASSUME tasks'[GroupLoad] = tasks[GroupLoad], worker' = worker, \A g \in Group : mem'[g] = mem[g],
         TypeOK
  PROVE  GroupStep
<1> SUFFICES ASSUME NEW g \in Group PROVE GroupStays(g)
    BY DEF GroupStep
<1>1. Loadings(g)' = Loadings(g) /\ Working(g, {"unload"})' = Working(g, {"unload"})
    BY DEF Loadings, Working
<1>2. Loadings(g) \in Nat /\ Working(g, {"unload"}) \in Nat
    BY LoadingsCounted
<1>3. QED
    BY <1>1, <1>2 DEF GroupStays

(* a worker that ends what it does, or goes on with the load of a texture  *)
(* or of an M2                                                             *)
LEMMA WorkerLeaves ==
  ASSUME TypeOK, NEW w \in Workers, NEW job, Becomes(w, job), job.at \notin {"load", "unload"}
  PROVE  \A g \in Group : /\ Working(g, {"load"})' <= Working(g, {"load"})
                          /\ Working(g, {"unload"})' <= Working(g, {"unload"})
                          /\ Working(g, {"load"})' \in Int /\ Working(g, {"load"}) \in Nat
<1> TAKE g \in Group
<1>1. g \in Objects
    BY LoadingsCounted
<1>2. /\ Working(g, {"load"}) \in Nat
      /\ Working(g, {"load"})' = Working(g, {"load"}) + (IF Doing(job, g, {"load"}) THEN 1 ELSE 0)
                                  - (IF Doing(worker[w], g, {"load"}) THEN 1 ELSE 0)
    BY <1>1, WorkerMoves
<1>3. /\ Working(g, {"unload"}) \in Nat
      /\ Working(g, {"unload"})' = Working(g, {"unload"}) + (IF Doing(job, g, {"unload"}) THEN 1 ELSE 0)
                                  - (IF Doing(worker[w], g, {"unload"}) THEN 1 ELSE 0)
    BY <1>1, WorkerMoves
<1>4. ~Doing(job, g, {"load"}) /\ ~Doing(job, g, {"unload"})
    BY DEF Doing
<1>5. QED
    BY <1>2, <1>3, <1>4

LEMMA NoGroupTask ==
  ASSUME TypeOK, NEW w \in Workers, NEW job, Becomes(w, job), job.at \notin {"load", "unload"},
         tasks'[GroupLoad] = tasks[GroupLoad],
         \A g \in Group : mem'[g] = mem[g] \/ Loadings(g) = 0
  PROVE  GroupStep
<1> SUFFICES ASSUME NEW g \in Group PROVE GroupStays(g)
    BY DEF GroupStep
<1>1. /\ Working(g, {"load"})' <= Working(g, {"load"})
      /\ Working(g, {"unload"})' <= Working(g, {"unload"})
      /\ Working(g, {"load"})' \in Int /\ Working(g, {"load"}) \in Nat
    BY WorkerLeaves
<1>2. Times(g, tasks[GroupLoad]) \in Nat /\ Loadings(g) \in Nat
    BY LoadingsCounted
<1>3. Loadings(g)' = Times(g, tasks[GroupLoad]) + Working(g, {"load"})'
    BY DEF Loadings
<1>4. Loadings(g)' <= Loadings(g)
    BY <1>1, <1>2, <1>3 DEF Loadings
<1>5. Loadings(g) > 0 => mem'[g] = mem[g]
    BY <1>2
<1>6. QED
    BY <1>1, <1>4, <1>5 DEF GroupStays

(* what find_task finds: the unload of a group only once its load is over  *)
Finds(w, t, o) ==
  /\ Taken(t, o) /\ Times(o, tasks[t]) > 0 /\ KindOf(o) = t[2]
  /\ worker[w].at = "idle" /\ Becomes(w, Work(t[1], o))
  /\ loading' = IF t[1] = "load" THEN loading \cup {o} ELSE loading
  /\ t = <<"unload", "group">> => o \notin loading /\ tasks[GroupLoad] = <<>>
  /\ Touch("find", {o})

LEMMA FindTaskFinds ==
  ASSUME TypeOK, NEW w \in Workers, FindTask(w)
  PROVE  \E t \in TaskTypes : \E o \in Objects : Finds(w, t, o)
<1>1. PICK t \in TaskTypes : \E i \in DOMAIN tasks[t] :
        /\ Found(t, i)
        /\ tasks' = [tasks EXCEPT ![t] = RemoveAt(@, i)]
        /\ loading' = IF t[1] = "load" THEN loading \cup {tasks[t][i]} ELSE loading
        /\ Becomes(w, Work(t[1], tasks[t][i]))
        /\ Touch("find", {tasks[t][i]})
    BY DEF FindTask
<1>2. PICK i \in DOMAIN tasks[t] :
        /\ Found(t, i)
        /\ tasks' = [tasks EXCEPT ![t] = RemoveAt(@, i)]
        /\ loading' = IF t[1] = "load" THEN loading \cup {tasks[t][i]} ELSE loading
        /\ Becomes(w, Work(t[1], tasks[t][i]))
        /\ Touch("find", {tasks[t][i]})
    BY <1>1
<1>3. t[1] \in {"load", "unload"} /\ t[2] \in Kinds /\ t = <<t[1], t[2]>>
    BY DEF TaskTypes
<1>4. PICK o \in Objects : o = tasks[t][i] /\ KindOf(o) = t[2]
  <2>1. tasks[t] \in Seq(Of[t[2]])
      BY DEF TypeOK, QueueTypeOK
  <2>2. tasks[t][i] \in Of[t[2]]
      BY <2>1, ElementOfSeq, LenProperties
  <2>3. QED
      BY <1>3, <2>2, KindIsUnique
<1>5. Taken(t, o)
  <2>1. /\ tasks'[t] = RemoveAt(tasks[t], i)
        /\ \A u \in TaskTypes : u # t => tasks'[u] = tasks[u]
      BY <1>2 DEF TypeOK, QueueTypeOK
  <2>2. QED
      BY <1>4, <2>1 DEF Taken
<1>6. Times(o, tasks[t]) > 0
  <2>1. tasks[t] \in Seq(Objects)
      BY DEF TypeOK, QueueTypeOK
  <2>2. QED
      BY <1>4, <2>1, PlacesFinite
<1>7. ASSUME t = <<"unload", "group">> PROVE o \notin loading /\ tasks[GroupLoad] = <<>>
  <2>1. t[1] = "unload" /\ t[2] = "group" /\ Rank(t) = 3
      BY <1>7 DEF Rank, KindRank
  <2>2. GroupLoad \in TaskTypes /\ Rank(GroupLoad) = 2 /\ GroupLoad[1] = "load" /\ t # GroupLoad
      BY <1>7 DEF Rank, KindRank, GroupLoad, TaskTypes, Kinds
  <2>3. o \notin loading
      BY <1>2, <1>4, <2>1 DEF Found, Blocked
  <2>4. DOMAIN tasks[GroupLoad] = {}
    <3>1. \A j \in DOMAIN tasks[GroupLoad] : ~Blocked(GroupLoad, tasks[GroupLoad][j])
        BY <2>2 DEF Blocked
    <3>2. \A j \in DOMAIN tasks[GroupLoad] :
            Blocked(GroupLoad, tasks[GroupLoad][j]) \/ Rank(t) < Rank(GroupLoad) \/ (t = GroupLoad /\ i <= j)
        BY <1>2, <2>2 DEF Found
    <3>3. ~(Rank(t) < Rank(GroupLoad))
        BY <2>1, <2>2
    <3>4. QED
        BY <2>2, <3>1, <3>2, <3>3
  <2>5. tasks[GroupLoad] \in Seq(Objects)
      BY <2>2 DEF TypeOK, QueueTypeOK
  <2>6. tasks[GroupLoad] = <<>>
    <3>1. PICK q \in Seq(Objects) : q = tasks[GroupLoad]
        BY <2>5
    <3>2. Len(q) \in Nat /\ 1..Len(q) = {}
        BY <2>4, <3>1, LenProperties
    <3>3. Len(q) = 0
      <4>1. PICK n \in Nat : n = Len(q)
          BY <3>2
      <4>2. ~(1 <= n)
          BY <3>2, <4>1
      <4>3. QED
          BY <4>1, <4>2
    <3>4. QED
        BY <3>1, <3>3, EmptySeq
  <2>7. QED
      BY <2>3, <2>6
<1>8. worker[w].at = "idle"
    BY DEF FindTask, At
<1>9. Finds(w, t, o)
    BY <1>2, <1>4, <1>5, <1>6, <1>7, <1>8 DEF Finds
<1>10. QED
    BY <1>9

LEMMA FindTaskGroups ==
  ASSUME TypeOK, LoadersMarked, NEW w \in Workers, FindTask(w)
  PROVE  GroupStep /\ LoadersMarked'
<1>1. PICK t \in TaskTypes, o \in Objects : Finds(w, t, o)
    BY FindTaskFinds
<1>2. t[1] \in {"load", "unload"} /\ t[2] \in Kinds /\ t = <<t[1], t[2]>>
    BY DEF TaskTypes
<1>3. mem' = mem
    BY DEF FindTask
<1>4. QueueTypeOK /\ Taken(t, o)
    BY <1>1 DEF TypeOK, Finds
<1>5. \A u \in TaskTypes : \A g :
        /\ Times(g, tasks[u]) \in Nat
        /\ Times(g, tasks'[u]) = Times(g, tasks[u]) - (IF u = t /\ g = o THEN 1 ELSE 0)
    BY <1>4, TaskTaken
<1>6. Becomes(w, Work(t[1], o)) /\ worker[w].at = "idle"
    BY <1>1 DEF Finds
<1>7. ASSUME NEW g \in Group PROVE GroupStays(g)
  <2>1. g \in Objects /\ KindOf(g) = "group" /\ GroupLoad \in TaskTypes
      BY LoadingsCounted
  <2>2. /\ Working(g, {"load"}) \in Nat
        /\ Working(g, {"load"})' = Working(g, {"load"}) + (IF Doing(Work(t[1], o), g, {"load"}) THEN 1 ELSE 0)
                                    - (IF Doing(worker[w], g, {"load"}) THEN 1 ELSE 0)
      BY <1>6, <2>1, WorkerMoves
  <2>3. /\ Working(g, {"unload"}) \in Nat
        /\ Working(g, {"unload"})' = Working(g, {"unload"}) + (IF Doing(Work(t[1], o), g, {"unload"}) THEN 1 ELSE 0)
                                    - (IF Doing(worker[w], g, {"unload"}) THEN 1 ELSE 0)
      BY <1>6, <2>1, WorkerMoves
  <2>4. ~Doing(worker[w], g, {"load"}) /\ ~Doing(worker[w], g, {"unload"})
      BY <1>6 DEF Doing
  <2>5. Doing(Work(t[1], o), g, {"load"}) <=> GroupLoad = t /\ g = o
      BY <1>1, <1>2, <2>1 DEF Doing, Work, Finds, GroupLoad
  <2>6. Doing(Work(t[1], o), g, {"unload"}) <=> t = <<"unload", "group">> /\ g = o
      BY <1>1, <1>2, <2>1 DEF Doing, Work, Finds
  <2>7. PICK n \in Nat, m \in Nat : n = Times(g, tasks[GroupLoad]) /\ m = Working(g, {"load"})
      BY <1>5, <2>1, <2>2
  <2>8. Times(g, tasks'[GroupLoad]) = n - (IF GroupLoad = t /\ g = o THEN 1 ELSE 0)
      BY <1>5, <2>1, <2>7
  <2>9. Working(g, {"load"})' = m + (IF GroupLoad = t /\ g = o THEN 1 ELSE 0)
      BY <2>2, <2>4, <2>5, <2>7
  <2>10. Loadings(g) = n + m /\ Loadings(g)' = n + m
      BY <2>7, <2>8, <2>9 DEF Loadings
  <2>11. ASSUME t = <<"unload", "group">>, g = o PROVE Loadings(g) = 0
    <3>1. Times(g, tasks[GroupLoad]) = 0
        BY <1>1, <2>11, TimesEmpty DEF Finds
    <3>2. g \notin loading
        BY <1>1, <2>11 DEF Finds
    <3>3. Working(g, {"load"}) = 0
        BY <2>2, <3>2, WorkersCounted DEF LoadersMarked
    <3>4. QED
        BY <3>1, <3>3 DEF Loadings
  <2>12. Working(g, {"unload"})' <= Working(g, {"unload"}) \/ Loadings(g) = 0
      BY <2>3, <2>4, <2>6, <2>11
  <2>13. QED
      BY <1>3, <2>10, <2>12 DEF GroupStays
<1>8. LoadersMarked'
  <2> SUFFICES ASSUME NEW v \in Workers, worker'[v].at = "load", worker'[v].obj \in Group
               PROVE  worker'[v].obj \in loading'
      BY DEF LoadersMarked
  <2>1. worker'[w] = Work(t[1], o) /\ \A x \in Workers : x # w => worker'[x] = worker[x]
      BY <1>6, WorkerMoves
  <2>2. CASE v = w
      BY <1>1, <2>1, <2>2 DEF Work, Finds
  <2>3. CASE v # w
    <3>1. worker[v].obj \in loading
        BY <2>1, <2>3 DEF LoadersMarked
    <3>2. QED
        BY <1>1, <2>1, <2>3, <3>1 DEF Finds
  <2>4. QED
      BY <2>2, <2>3
<1>9. QED
    BY <1>7, <1>8 DEF GroupStep

LEMMA UnloadGroups ==
  ASSUME TypeOK, GroupLoadedOnce, NEW w \in Workers, Unload(w)
  PROVE  GroupStep
<1>1. worker[w].at = "unload" /\ worker[w].at # "idle"
    BY DEF Unload, At
<1>2. PICK o \in Objects : worker[w].obj = o
    BY <1>1, WorkerObject DEF TypeOK
<1>3. /\ tasks' = tasks /\ Becomes(w, NoWork) /\ NoWork.at \notin {"load", "unload"}
      /\ mem' = [mem EXCEPT ![o] = "freed"]
    BY <1>2 DEF Unload, WorkerFrame, cacheVars, NoWork
<1>4. Working(o, {"unload"}) > 0 /\ mem \in [Objects -> {"unborn", "live", "freed"}]
    BY <1>1, <1>2, WorkersCounted DEF TypeOK, ObjectTypeOK
<1>5. ASSUME NEW g \in Group PROVE mem'[g] = mem[g] \/ Loadings(g) = 0
  <2>1. g \in Objects /\ Loadings(g) \in Nat
      BY LoadingsCounted
  <2>2. CASE g = o
      BY <1>4, <2>1, <2>2 DEF GroupLoadedOnce
  <2>3. CASE g # o
      BY <1>3, <1>4, <2>1, <2>3
  <2>4. QED
      BY <2>2, <2>3
<1>6. QED
    BY <1>3, <1>5, NoGroupTask

(* the groups gx_wmo_load queues are those it creates                      *)
LEMMA MadeOnce ==
  ASSUME Retirement, NEW o \in Wmo, NEW n \in Len(groups[o])..Len(GroupsOf[o]), MakeGroups(o, n)
  PROVE  \A g \in Group :
           \/ Times(g, tasks'[GroupLoad]) = Times(g, tasks[GroupLoad]) /\ mem'[g] = mem[g]
           \/ /\ Times(g, tasks'[GroupLoad]) = Times(g, tasks[GroupLoad]) + 1
              /\ mem[g] = "unborn" /\ mem'[g] = "live"
<1>0. TypeOK /\ InOrder(groups) /\ GroupsMade
    BY DEF Retirement, Accounts, GroupsInOrder
<1>1. /\ InOrder(groups') /\ Len(groups'[o]) = n
      /\ \A w \in Wmo : \A i \in 1..Len(GroupsOf[w]) :
           mem'[GroupsOf[w][i]] = IF w = o /\ i \in (Len(groups[o]) + 1)..n
                                  THEN "live" ELSE mem[GroupsOf[w][i]]
    BY <1>0, GroupsGrow
<1>2. groups \in [Wmo -> Seq(Group)] /\ groups[o] \in Seq(Group) /\ GroupsOf[o] \in Seq(Group)
    BY <1>0, NamedGroup DEF TypeOK, ObjectTypeOK
<1>3. PICK m \in Nat : m = Len(groups[o])
    BY <1>2, LenProperties
<1>4. n \in Nat /\ m <= n /\ n <= Len(GroupsOf[o]) /\ Len(GroupsOf[o]) \in Nat
    BY <1>2, <1>3, NamedGroup
<1>5. PICK made \in Seq(Group) : made = SubSeq(GroupsOf[o], m + 1, n)
    BY <1>2, <1>3, <1>4, SubSeqFrom
<1>6. /\ groups' = [groups EXCEPT ![o] = groups[o] \o made]
      /\ tasks' = Push(tasks, GroupLoad, made)
    BY <1>3, <1>5 DEF MakeGroups, GroupLoad
<1>7. groups' \in [Wmo -> Seq(Group)] /\ groups'[o] = groups[o] \o made
    BY <1>2, <1>5, <1>6
<1>8. made \in Seq(Objects) /\ GroupLoad \in TaskTypes
    BY <1>5 DEF Objects, GroupLoad, TaskTypes, Kinds
<1>9. ASSUME NEW g \in Group
      PROVE  \/ Times(g, tasks'[GroupLoad]) = Times(g, tasks[GroupLoad]) /\ mem'[g] = mem[g]
             \/ /\ Times(g, tasks'[GroupLoad]) = Times(g, tasks[GroupLoad]) + 1
                /\ mem[g] = "unborn" /\ mem'[g] = "live"
  <2>1. PICK w \in Wmo : \E i \in 1..Len(GroupsOf[w]) : g = GroupsOf[w][i]
      BY GroupIsNamed
  <2>2. PICK i \in 1..Len(GroupsOf[w]) : g = GroupsOf[w][i]
      BY <2>1
  <2>3. Times(g, groups'[o]) = IF o = w /\ i <= Len(groups'[w]) THEN 1 ELSE 0
    <3>1. PICK gs \in [Wmo -> Seq(Group)] : gs = groups'
        BY <1>7
    <3>2. InOrder(gs)
        BY <1>1, <3>1
    <3>3. QED
        BY <2>2, <3>1, <3>2, TimesOfGroup
  <2>4. Times(g, groups[o]) = IF o = w /\ i <= Len(groups[w]) THEN 1 ELSE 0
    <3>1. PICK gs \in [Wmo -> Seq(Group)] : gs = groups
        BY <1>2
    <3>2. InOrder(gs)
        BY <1>0, <3>1
    <3>3. QED
        BY <2>2, <3>1, <3>2, TimesOfGroup
  <2>5. Times(g, groups'[o]) = Times(g, groups[o]) + Times(g, made) /\ Times(g, made) \in Nat
    <3>1. PICK gs \in Seq(Group) : gs = groups[o]
        BY <1>2
    <3>2. Times(g, gs \o made) = Times(g, gs) + Times(g, made)
        BY TimesConcat
    <3>3. Times(g, made) \in Nat
        BY PlacesFinite
    <3>4. QED
        BY <1>7, <3>1, <3>2, <3>3
  <2>6. Times(g, tasks'[GroupLoad]) = Times(g, tasks[GroupLoad]) + Times(g, made)
    <3>1. QueueTypeOK
        BY <1>0 DEF TypeOK
    <3>2. PICK t \in TaskTypes, q \in Seq(Objects) : t = GroupLoad /\ q = made
        BY <1>8
    <3>3. tasks' = Push(tasks, t, q)
        BY <1>6, <3>2
    <3>4. Times(g, tasks'[t]) = Times(g, tasks[t]) + Times(g, q)
        BY <3>1, <3>3, TaskGained
    <3>5. QED
        BY <3>2, <3>4
  <2>7. Times(g, tasks[GroupLoad]) \in Nat /\ i \in Nat
      BY <1>0, LoadingsCounted, NamedGroup
  <2>8. CASE o = w /\ m < i /\ i <= n
    <3>1. Times(g, made) = 1
        BY <1>1, <1>3, <1>4, <2>3, <2>4, <2>5, <2>7, <2>8
    <3>2. mem[g] = "unborn"
        BY <1>0, <1>3, <2>2, <2>7, <2>8 DEF GroupsMade
    <3>3. mem'[g] = "live"
        BY <1>1, <1>3, <1>4, <2>2, <2>7, <2>8
    <3>4. QED
        BY <2>6, <3>1, <3>2, <3>3
  <2>9. CASE ~(o = w /\ m < i /\ i <= n)
    <3>1. Times(g, made) = 0
        BY <1>1, <1>3, <1>4, <2>3, <2>4, <2>5, <2>7, <2>9
    <3>2. mem'[g] = mem[g]
        BY <1>1, <1>3, <1>4, <2>2, <2>7, <2>9
    <3>3. QED
        BY <2>6, <2>7, <3>1, <3>2
  <2>10. QED
      BY <2>8, <2>9
<1>10. QED
    BY <1>9

LEMMA LoadWmoGroups ==
  ASSUME Retirement, NEW w \in Workers, LoadWmo(w)
  PROVE  GroupStep
<1>0. TypeOK
    BY DEF Retirement, Accounts
<1>1. PICK o \in Wmo : worker[w].obj = o
    BY DEF LoadWmo
<1>2. /\ worker[w].at = "load" /\ Becomes(w, NoWork) /\ NoWork.at \notin {"load", "unload"}
      /\ NoWork.at = "idle"
    BY DEF LoadWmo, At, NoWork
<1>3. Len(groups[o]) \in Nat /\ Len(GroupsOf[o]) \in Nat /\ Len(groups[o]) <= Len(GroupsOf[o])
  <2>1. groups[o] \in Seq(Group)
      BY <1>0 DEF TypeOK, ObjectTypeOK
  <2>2. QED
      BY <2>1, NamedGroup, LenProperties DEF GroupsInOrder, InOrder, Retirement
<1>4. \/ \E n \in Len(groups[o])..Len(GroupsOf[o]) : MakeGroups(o, n)
      \/ UNCHANGED <<mem, tasks>>
  <2>1. Len(GroupsOf[o]) \in Len(groups[o])..Len(GroupsOf[o])
      BY <1>3
  <2>2. QED
      BY <1>1, <2>1 DEF LoadWmo
<1>5. CASE UNCHANGED <<mem, tasks>>
    BY <1>0, <1>2, <1>5, NoGroupTask
<1>6. CASE \E n \in Len(groups[o])..Len(GroupsOf[o]) : MakeGroups(o, n)
  <2> SUFFICES ASSUME NEW g \in Group PROVE GroupStays(g) \/ GroupQueued(g)
      BY DEF GroupStep
  <2>1. \/ Times(g, tasks'[GroupLoad]) = Times(g, tasks[GroupLoad]) /\ mem'[g] = mem[g]
        \/ /\ Times(g, tasks'[GroupLoad]) = Times(g, tasks[GroupLoad]) + 1
           /\ mem[g] = "unborn" /\ mem'[g] = "live"
      BY <1>6, MadeOnce
  <2>2. g \in Objects /\ Times(g, tasks[GroupLoad]) \in Nat
      BY <1>0, LoadingsCounted
  <2>3. ~Doing(worker[w], g, {"load"}) /\ ~Doing(worker[w], g, {"unload"})
        /\ ~Doing(NoWork, g, {"load"}) /\ ~Doing(NoWork, g, {"unload"})
      BY <1>1, <1>2, CountedKinds DEF Doing, Counted
  <2>4. /\ Working(g, {"load"}) \in Nat
        /\ Working(g, {"load"})' = Working(g, {"load"}) + (IF Doing(NoWork, g, {"load"}) THEN 1 ELSE 0)
                                    - (IF Doing(worker[w], g, {"load"}) THEN 1 ELSE 0)
      BY <1>0, <1>2, <2>2, WorkerMoves
  <2>5. /\ Working(g, {"unload"}) \in Nat
        /\ Working(g, {"unload"})' = Working(g, {"unload"}) + (IF Doing(NoWork, g, {"unload"}) THEN 1 ELSE 0)
                                    - (IF Doing(worker[w], g, {"unload"}) THEN 1 ELSE 0)
      BY <1>0, <1>2, <2>2, WorkerMoves
  <2>6. Working(g, {"load"})' = Working(g, {"load"}) /\ Working(g, {"unload"})' = Working(g, {"unload"})
      BY <2>3, <2>4, <2>5
  <2>7. Loadings(g)' = Times(g, tasks'[GroupLoad]) + Working(g, {"load"})
      BY <2>6 DEF Loadings
  <2>8. QED
      BY <2>1, <2>2, <2>4, <2>5, <2>6, <2>7 DEF Loadings, GroupStays, GroupQueued
<1>7. QED
    BY <1>4, <1>5, <1>6

(* the loads of the counted resources are other tasks                      *)
LEMMA CountedPushed ==
  ASSUME TypeOK, NEW o \in Counted, tasks' = Push(tasks, <<"load", KindOf(o)>>, <<o>>)
  PROVE  tasks'[GroupLoad] = tasks[GroupLoad]
<1>1. <<"load", KindOf(o)>> # GroupLoad /\ GroupLoad \in TaskTypes
    BY CountedKinds DEF GroupLoad, TaskTypes, Kinds
<1>2. QED
    BY <1>1 DEF Push, TypeOK, QueueTypeOK

LEMMA UserStepGroups ==
  ASSUME TypeOK, NEW u \in Users, UserStep(u)
  PROVE  GroupStep /\ UNCHANGED <<worker, loading>>
<1>1. UNCHANGED <<worker, loading>>
    BY DEF UserStep, RefByKey, AskCheck, AskLocked, Release, AskMark, AskRef, AskPush, flagVars
<1>2. \A g \in Group : mem'[g] = mem[g]
  <2>1. CASE \E o \in Counted : RefByKey(u, o)
      BY <2>1, CountedKinds DEF RefByKey, TypeOK, ObjectTypeOK, Objects
  <2>2. CASE ~\E o \in Counted : RefByKey(u, o)
      BY <2>2 DEF UserStep, AskCheck, AskLocked, Release, AskMark, AskRef, AskPush
  <2>3. QED
      BY <2>1, <2>2
<1>3. tasks'[GroupLoad] = tasks[GroupLoad]
  <2>1. \/ tasks' = tasks
        \/ \E o \in Counted : AskLocked(u, o)
        \/ AskPush(u)
      BY DEF UserStep, RefByKey, AskCheck, Release, AskMark, AskRef
  <2>2. CASE \E o \in Counted : AskLocked(u, o)
      BY <2>2, CountedPushed DEF AskLocked
  <2>3. CASE AskPush(u)
    <3>1. PICK o \in Counted : o = asking[u].obj
        BY <2>3 DEF AskPush, TypeOK, UserTypeOK, NotAsking
    <3>2. QED
        BY <2>3, <3>1, CountedPushed DEF AskPush
  <2>4. QED
      BY <2>1, <2>2, <2>3
<1>4. QED
    BY <1>1, <1>2, <1>3, NoGroupWork

LEMMA MainStepGroups ==
  ASSUME TypeOK, FrameStep \/ NextFrame \/ Quit \/ ShutdownStep
  PROVE  GroupStep /\ UNCHANGED <<worker, loading>>
<1>1. UNCHANGED <<worker, loading, mem>>
    BY DEF FrameStep, ShutdownStep, Tick, InitObject, InitEnd, GcObject, GcEnd, NextFrame, Quit,
           StartDrain, DrainTick, DrainEnd, AsyncWait, AsyncEnd, MainFrame, MainIdle
<1>2. tasks'[GroupLoad] = tasks[GroupLoad]
  <2>1. tasks' = tasks \/ GcObject
      BY DEF FrameStep, ShutdownStep, Tick, InitObject, InitEnd, GcEnd, NextFrame, Quit,
             StartDrain, DrainTick, DrainEnd, AsyncWait, AsyncEnd, MainFrame, MainIdle
  <2>2. CASE GcObject
    <3>1. \A o : <<"unload", KindOf(o)>> # GroupLoad
        BY DEF GroupLoad
    <3>2. GroupLoad \in TaskTypes
        BY DEF GroupLoad, TaskTypes, Kinds
    <3>3. QED
        BY <2>2, <3>1, <3>2 DEF GcObject, Push, TypeOK, QueueTypeOK
  <2>3. QED
      BY <2>1, <2>2
<1>3. QED
    BY <1>1, <1>2, NoGroupWork

(* while a worker loads a group no other does                              *)
LEMMA LoaderIsAlone ==
  ASSUME TypeOK, GroupLoadedOnce, NEW v \in Workers, NEW w \in Workers,
         worker[v].at = "load", worker[w].at = "load", worker[v].obj = worker[w].obj,
         worker[w].obj \in Group
  PROVE  v = w
<1>1. PICK g \in Group : worker[w].obj = g
    OBVIOUS
<1> DEFINE A == {x \in Workers : worker[x].at \in {"load"} /\ worker[x].obj = g}
<1>2. Cardinality(A) <= 1
  <2>1. Working(g, {"load"}) <= 1
      BY LoadingsCounted DEF GroupLoadedOnce, Loadings
  <2>2. QED
      BY <2>1 DEF Working
<1>3. IsFiniteSet(A) /\ v \in A /\ w \in A
    BY <1>1, ThreadsAreFinite, FS_Subset
<1> HIDE DEF A
<1>4. IsFiniteSet(A \ {w}) /\ Cardinality(A \ {w}) = Cardinality(A) - 1
    BY <1>3, FS_RemoveElement
<1>5. Cardinality(A) \in Nat /\ Cardinality(A \ {w}) \in Nat
    BY <1>3, <1>4, CardinalityNat
<1>6. Cardinality(A \ {w}) = 0
    BY <1>2, <1>4, <1>5
<1>7. A \ {w} = {}
    BY <1>4, <1>6, CardinalityNat
<1>8. QED
    BY <1>3, <1>7

(* a worker that ends a load settles at most the resource it loaded        *)
LEMMA LeaverMarks ==
  ASSUME TypeOK, GroupLoadedOnce, LoadersMarked, NEW w \in Workers, NEW job, Becomes(w, job),
         job.at # "load", loading' = loading \/ Settle(worker[w].obj),
         worker[w].at = "load" \/ worker[w].obj \in Counted \/ loading' = loading
  PROVE  LoadersMarked'
<1> SUFFICES ASSUME NEW v \in Workers, worker'[v].at = "load", worker'[v].obj \in Group
             PROVE  worker'[v].obj \in loading'
    BY DEF LoadersMarked
<1>1. worker'[w] = job /\ \A x \in Workers : x # w => worker'[x] = worker[x]
    BY WorkerMoves
<1>2. v # w /\ worker[v].at = "load" /\ worker[v].obj \in Group /\ worker[v].obj \in loading
    BY <1>1 DEF LoadersMarked
<1>3. worker[v].obj # worker[w].obj \/ loading' = loading
    BY <1>2, LoaderIsAlone, CountedKinds
<1>4. QED
    BY <1>1, <1>2, <1>3 DEF Settle

LEMMA WorkerStepGroups ==
  ASSUME Retirement, GroupLoadedOnce, LoadersMarked, NEW w \in Workers, WorkerStep(w)
  PROVE  GroupStep /\ LoadersMarked'
<1>0. TypeOK
    BY DEF Retirement, Accounts
<1>1. NoWork.at \notin {"load", "unload"} /\ \A o : /\ Work("clear", o).at \notin {"load", "unload"}
        /\ Work("fill", o).at \notin {"load", "unload"} /\ Work("post", o).at \notin {"load", "unload"}
    BY DEF NoWork, Work
<1>2. CASE FindTask(w)
    BY <1>0, <1>2, FindTaskGroups
<1>3. CASE Unload(w)
  <2>1. Becomes(w, NoWork) /\ loading' = loading
      BY <1>3 DEF Unload
  <2>2. QED
      BY <1>0, <1>1, <1>3, <2>1, UnloadGroups, LeaverMarks
<1>4. CASE LoadWmo(w)
  <2>1. Becomes(w, NoWork) /\ Settle(worker[w].obj) /\ worker[w].at = "load"
      BY <1>4 DEF LoadWmo, At
  <2>2. QED
      BY <1>0, <1>1, <1>4, <2>1, LoadWmoGroups, LeaverMarks
<1>5. CASE ClearBlp(w)
  <2>1. Becomes(w, NoWork) /\ Settle(worker[w].obj) /\ worker[w].at = "clear"
        /\ UNCHANGED <<mem, tasks>>
      BY <1>5 DEF ClearBlp, At
  <2>2. worker[w].obj \in Counted
      BY <1>0, <2>1 DEF TypeOK, ThreadTypeOK, NoWork, Counted
  <2>3. GroupStep
      BY <1>0, <1>1, <2>1, NoGroupTask
  <2>4. QED
      BY <1>0, <1>1, <2>1, <2>2, <2>3, LeaverMarks
<1>6. CASE FillBlp(w) \/ PostLoadM2(w)
  <2>1. /\ UNCHANGED <<mem, tasks, loading>>
        /\ Becomes(w, NoWork) \/ Becomes(w, Work("clear", worker[w].obj))
      BY <1>6 DEF FillBlp, PostLoadM2
  <2>2. GroupStep
      BY <1>0, <1>1, <2>1, NoGroupTask
  <2>3. QED
      BY <1>0, <1>1, <2>1, <2>2, LeaverMarks
<1>7. CASE LoadNoFile(w) \/ LoadBadFile(w) \/ LoadBlp(w) \/ LoadM2(w) \/ LoadGroup(w)
  <2>1. /\ UNCHANGED <<mem, tasks>> /\ worker[w].at = "load"
        /\ \/ Becomes(w, NoWork) \/ Becomes(w, Work("clear", worker[w].obj))
           \/ Becomes(w, Work("fill", worker[w].obj)) \/ Becomes(w, Work("post", worker[w].obj))
        /\ loading' = loading \/ Settle(worker[w].obj)
      BY <1>7 DEF LoadNoFile, LoadBadFile, LoadBlp, LoadM2, LoadGroup, At
  <2>2. GroupStep
      BY <1>0, <1>1, <2>1, NoGroupTask
  <2>3. QED
      BY <1>0, <1>1, <2>1, <2>2, LeaverMarks
<1>8. QED
    BY <1>2, <1>3, <1>4, <1>5, <1>6, <1>7 DEF WorkerStep

LEMMA NextGroups ==
  ASSUME Retirement, GroupLoadedOnce, LoadersMarked, [Next]_vars
  PROVE  GroupLoadedOnce' /\ LoadersMarked'
<1>1. TypeOK /\ TypeOK'
    BY NextRetirement DEF Retirement, Accounts
<1>2. CASE UNCHANGED vars
  <2>1. UNCHANGED <<worker, loading, tasks, mem>>
      BY <1>2 DEF vars
  <2>2. GroupStep
      BY <1>1, <2>1, NoGroupWork
  <2>3. QED
      BY <1>1, <2>1, <2>2, GroupStepKept DEF LoadersMarked
<1>3. CASE \E w \in Workers : WorkerStep(w)
    BY <1>1, <1>3, WorkerStepGroups, GroupStepKept
<1>4. CASE (\E u \in Users : UserStep(u)) \/ FrameStep \/ NextFrame \/ Quit \/ ShutdownStep
  <2>1. GroupStep /\ UNCHANGED <<worker, loading>>
      BY <1>1, <1>4, UserStepGroups, MainStepGroups
  <2>2. QED
      BY <1>1, <2>1, GroupStepKept DEF LoadersMarked
<1>5. QED
    BY <1>2, <1>3, <1>4 DEF Next, Torn

LEMMA InitGroups == Init => GroupLoadedOnce /\ LoadersMarked
<1> SUFFICES ASSUME Init PROVE GroupLoadedOnce /\ LoadersMarked
    OBVIOUS
<1>1. \A w \in Workers : worker[w].at = "idle"
    BY DEF Init, NoWork
<1>2. LoadersMarked
    BY <1>1 DEF LoadersMarked
<1>3. ASSUME NEW g \in Group PROVE Loadings(g) = 0
  <2>1. tasks[GroupLoad] = <<>>
      BY DEF Init, GroupLoad, TaskTypes, Kinds
  <2>2. Times(g, tasks[GroupLoad]) = 0
      BY <2>1, TimesEmpty
  <2>3. Working(g, {"load"}) = 0
      BY <1>1, WorkersCounted
  <2>4. QED
      BY <2>2, <2>3 DEF Loadings
<1>4. QED
    BY <1>2, <1>3 DEF GroupLoadedOnce

-----------------------------------------------------------------------------
(* The uses of freed memory                                                *)

Expected(late) == ({"clear"} \X Blp) \cup ({"parent"} \X Wmo)
                   \cup ({"init"} \X Group) \cup ({"release"} \X late)

Tracked == /\ Retirement /\ GroupLoadedOnce /\ LoadersMarked
           /\ stale \subseteq Expected(lateRef)

LEMMA UsesOfLive ==
  ASSUME NEW site, NEW o, mem[o] # "freed"
  PROVE  Uses(site, {o}) = {}
BY DEF Uses

LEMMA LoaderIsLive ==
  ASSUME Retirement, NEW w \in Workers, worker[w].at \in {"load", "fill", "post"},
         worker[w].obj \in Counted
  PROVE  mem[worker[w].obj] = "live"
BY WorkerPins DEF Retirement, LiveWhileCounted

LEMMA CondemnedIsLive ==
  ASSUME Retirement, NEW o \in Objects,
         Times(o, tasks[<<"unload", KindOf(o)>>]) > 0 \/ Working(o, {"unload"}) > 0
  PROVE  mem[o] = "live"
<1>1. Retired(o) > 0
    BY RetiredCounted DEF Retired, Retirement, Accounts
<1>2. QED
    BY <1>1 DEF Retirement, RetiredOnce

LEMMA UserTouches ==
  ASSUME Tracked, NEW u \in Users, UserStep(u)
  PROVE  stale' \subseteq Expected(lateRef')
<1>0. Retirement /\ Accounts /\ TypeOK /\ stale \subseteq Expected(lateRef) /\ LateIsDead /\ LiveWhileCounted
    BY DEF Tracked, Retirement, Accounts
<1>1. lateRef \subseteq lateRef'
    BY DEF UserStep, RefByKey, AskCheck, AskLocked, Release, AskMark, AskRef, AskPush, cacheVars,
           Ref, Unref, UnrefWith
<1>2. stale \subseteq Expected(lateRef')
    BY <1>0, <1>1 DEF Expected
<1>3. ASSUME NEW o \in Counted, AskCheck(u, o) \/ AskLocked(u, o)
      PROVE  stale' = stale
  <2>1. o \in held[u] /\ asking[u] = NotAsking /\ o \notin asked /\ Touch("ask", {o})
      BY <1>3 DEF AskCheck, AskLocked
  <2>2. o \notin lateRef
      BY <1>0, <2>1 DEF LateIsDead
  <2>3. mem[o] = "live"
      BY <1>0, <2>1, <2>2, HeldIsCounted DEF AsksAt, LiveWhileCounted
  <2>4. QED
      BY <2>1, <2>3, UsesOfLive DEF Touch
<1>4. CASE AskMark(u)
  <2>1. PICK o \in Counted : o = asking[u].obj
      BY <1>0, <1>4 DEF AskMark, TypeOK, UserTypeOK, NotAsking
  <2>2. asking[u].at = "mark" /\ asking[u] # NotAsking /\ Touch("ask", {o})
      BY <1>4, <2>1 DEF AskMark, NotAsking
  <2>3. o \in held[u]
      BY <1>0, <2>1, <2>2 DEF Accounts, AskersHold
  <2>4. o \notin lateRef
      BY <1>0, <2>1, <2>2 DEF LateIsDead
  <2>5. mem[o] = "live"
      BY <1>0, <2>2, <2>3, <2>4, HeldIsCounted DEF AsksAt, LiveWhileCounted
  <2>6. QED
      BY <1>2, <2>2, <2>5, UsesOfLive DEF Touch
<1>5. ASSUME NEW o \in Counted, Release(u, o)
      PROVE  stale' \subseteq Expected(lateRef')
  <2>1. o \in held[u] /\ asking[u] = NotAsking /\ stale' = stale \cup Uses("release", {o} \ Blp)
      BY <1>5 DEF Release, Touch
  <2>2. CASE o \in lateRef
    <3>1. Uses("release", {o} \ Blp) \subseteq {"release"} \X lateRef'
        BY <1>1, <2>2 DEF Uses
    <3>2. QED
        BY <1>2, <2>1, <3>1 DEF Expected
  <2>3. CASE o \notin lateRef
    <3>1. mem[o] = "live"
        BY <1>0, <2>1, <2>3, HeldIsCounted DEF AsksAt, LiveWhileCounted
    <3>2. Uses("release", {o} \ Blp) = {}
        BY <3>1 DEF Uses
    <3>3. QED
        BY <1>2, <2>1, <3>2
  <2>4. QED
      BY <2>2, <2>3
<1>6. CASE (\E o \in Counted : RefByKey(u, o)) \/ AskRef(u) \/ AskPush(u)
  <2>1. stale' = stale
      BY <1>6 DEF RefByKey, AskRef, AskPush
  <2>2. QED
      BY <1>2, <2>1
<1>7. QED
    BY <1>2, <1>3, <1>4, <1>5, <1>6 DEF UserStep

LEMMA WorkerTouches ==
  ASSUME Tracked, NEW w \in Workers, WorkerStep(w)
  PROVE  stale' \subseteq Expected(lateRef')
<1>0. Retirement /\ Accounts /\ TypeOK /\ stale \subseteq Expected(lateRef) /\ LiveWhileCounted
      /\ GroupLoadedOnce
    BY DEF Tracked, Retirement, Accounts
<1>1. lateRef' = lateRef
    BY DEF WorkerStep, FindTask, Unload, LoadNoFile, LoadBadFile, LoadBlp, FillBlp, ClearBlp, LoadM2,
           PostLoadM2, LoadWmo, LoadGroup, cacheVars, Unref, UnrefWith
<1>2. CASE FindTask(w)
  <2>1. PICK t \in TaskTypes, o \in Objects : Finds(w, t, o)
      BY <1>0, <1>2, FindTaskFinds
  <2>2. Times(o, tasks[t]) > 0 /\ KindOf(o) = t[2] /\ Touch("find", {o})
      BY <2>1 DEF Finds
  <2>3. t[1] \in {"load", "unload"} /\ t = <<t[1], KindOf(o)>>
      BY <2>2 DEF TaskTypes
  <2>4. CASE t[1] = "unload"
    <3>1. Times(o, tasks[<<"unload", KindOf(o)>>]) > 0
        BY <2>2, <2>3, <2>4
    <3>2. mem[o] = "live"
        BY <1>0, <3>1, CondemnedIsLive
    <3>3. QED
        BY <1>0, <1>1, <2>2, <3>2, UsesOfLive DEF Touch
  <2>5. CASE t[1] = "load" /\ o \in Counted
    <3>1. Times(o, tasks[<<"load", KindOf(o)>>]) > 0
        BY <2>2, <2>3, <2>5
    <3>2. Pins(o) > 0
        BY <1>0, <3>1, PinsCounted DEF Pins, TypeOK
    <3>3. mem[o] = "live"
        BY <1>0, <2>5, <3>2, PinnedIsCounted DEF LiveWhileCounted
    <3>4. QED
        BY <1>0, <1>1, <2>2, <3>3, UsesOfLive DEF Touch
  <2>6. CASE t[1] = "load" /\ o \in Group
    <3>1. t = GroupLoad /\ Working(o, {"load"}) \in Nat /\ Times(o, tasks[GroupLoad]) \in Nat
        BY <1>0, <2>3, <2>6, LoadingsCounted DEF GroupLoad
    <3>2. Loadings(o) > 0
        BY <2>2, <3>1 DEF Loadings
    <3>3. mem[o] = "live"
        BY <1>0, <2>6, <3>2 DEF GroupLoadedOnce
    <3>4. QED
        BY <1>0, <1>1, <2>2, <3>3, UsesOfLive DEF Touch
  <2>7. QED
      BY <2>3, <2>4, <2>5, <2>6 DEF Objects
<1>3. CASE Unload(w)
  <2>1. worker[w].at = "unload"
      BY <1>3 DEF Unload, At
  <2>2. PICK o \in Objects : worker[w].obj = o
      BY <1>0, <2>1, WorkerObject DEF TypeOK
  <2>3. Working(o, {"unload"}) > 0
      BY <2>1, <2>2, WorkersCounted
  <2>4. mem[o] = "live" /\ Touch("unload", {o})
      BY <1>0, <1>3, <2>2, <2>3, CondemnedIsLive DEF Unload
  <2>5. QED
      BY <1>0, <1>1, <2>4, UsesOfLive DEF Touch
<1>4. CASE LoadNoFile(w) \/ LoadBadFile(w) \/ LoadBlp(w) \/ LoadM2(w) \/ LoadWmo(w)
           \/ FillBlp(w) \/ PostLoadM2(w)
  <2>1. worker[w].at \in {"load", "fill", "post"} /\ Touch("load", {worker[w].obj})
      BY <1>4 DEF LoadNoFile, LoadBadFile, LoadBlp, LoadM2, LoadWmo, FillBlp, PostLoadM2, At
  <2>2. worker[w].obj \in Counted
      BY <1>0, <1>4 DEF LoadNoFile, LoadBadFile, LoadBlp, LoadM2, LoadWmo, FillBlp, PostLoadM2, At,
                        TypeOK, ThreadTypeOK, NoWork, Counted
  <2>3. QED
      BY <1>0, <1>1, <2>1, <2>2, LoaderIsLive, UsesOfLive DEF Touch
<1>5. CASE ClearBlp(w)
  <2>1. worker[w].at = "clear" /\ Touch("clear", {worker[w].obj})
      BY <1>5 DEF ClearBlp, At
  <2>2. worker[w].obj \in Blp
      BY <1>0, <2>1 DEF TypeOK, ThreadTypeOK, NoWork
  <2>3. Uses("clear", {worker[w].obj}) \subseteq {"clear"} \X Blp
      BY <2>2 DEF Uses
  <2>4. QED
      BY <1>0, <1>1, <2>1, <2>3 DEF Touch, Expected
<1>6. CASE LoadGroup(w)
  <2>1. PICK g \in Group : g = worker[w].obj
      BY <1>6 DEF LoadGroup
  <2>2. worker[w].at = "load"
      BY <1>6 DEF LoadGroup, At
  <2>3. Working(g, {"load"}) > 0
      BY <2>1, <2>2, WorkersCounted
  <2>4. Loadings(g) > 0
      BY <1>0, <2>3, LoadingsCounted DEF Loadings
  <2>5. mem[g] = "live"
      BY <1>0, <2>4 DEF GroupLoadedOnce
  <2>6. OwnerOf(g) \in Wmo
      BY GroupsOfType DEF OwnerOf
  <2>7. stale' \subseteq stale \cup Uses("load", {g}) \cup Uses("parent", {OwnerOf(g)})
      BY <1>6, <2>1 DEF LoadGroup, Touch
  <2>8. Uses("load", {g}) = {} /\ Uses("parent", {OwnerOf(g)}) \subseteq {"parent"} \X Wmo
      BY <2>5, <2>6 DEF Uses
  <2>9. QED
      BY <1>0, <1>1, <2>7, <2>8 DEF Expected
<1>7. QED
    BY <1>2, <1>3, <1>4, <1>5, <1>6 DEF WorkerStep

LEMMA MainTouches ==
  ASSUME Tracked, FrameStep \/ NextFrame \/ Quit \/ ShutdownStep
  PROVE  stale' \subseteq Expected(lateRef')
<1>0. Retirement /\ Accounts /\ TypeOK /\ stale \subseteq Expected(lateRef) /\ LiveWhileCounted
    BY DEF Tracked, Retirement, Accounts
<1>1. lateRef' = lateRef
    BY DEF FrameStep, ShutdownStep, Tick, InitObject, InitEnd, GcObject, GcEnd, NextFrame, Quit,
           StartDrain, DrainTick, DrainEnd, AsyncWait, AsyncEnd, MainFrame, MainIdle, cacheVars,
           Unref, UnrefWith
<1>2. stale' = stale \/ InitObject
    BY DEF FrameStep, ShutdownStep, Tick, InitEnd, GcObject, GcEnd, NextFrame, Quit,
           StartDrain, DrainTick, DrainEnd, AsyncWait, AsyncEnd, MainFrame, MainIdle
<1>3. CASE InitObject
  <2>1. PICK i \in 1..4 : toInit[InitOrder[i]] # <<>> /\ Touch("init", {Head(toInit[InitOrder[i]])})
      BY <1>3 DEF InitObject
  <2>2. PICK k \in Kinds : k = InitOrder[i]
      BY DEF InitOrder, Kinds
  <2>3. toInit[k] \in Seq(Objects) /\ toInit[k] \in Seq(Of[k]) /\ toInit[k] # <<>>
      BY <1>0, <2>1, <2>2 DEF TypeOK, QueueTypeOK
  <2>4. PICK o \in Of[k] : o = Head(toInit[k])
      BY <2>3
  <2>5. o \in Objects /\ KindOf(o) = k /\ Touch("init", {o})
      BY <2>1, <2>2, <2>4, KindIsUnique
  <2>6. CASE o \in Group
    <3>1. Uses("init", {o}) \subseteq {"init"} \X Group
        BY <2>6 DEF Uses
    <3>2. QED
        BY <1>0, <1>1, <2>5, <3>1 DEF Touch, Expected
  <2>7. CASE o \in Counted
    <3>1. Times(o, toInit[KindOf(o)]) > 0
      <4>1. Times(o, toInit[k]) = Times(o, Tail(toInit[k])) + 1
          BY <2>3, <2>4, TimesTail
      <4>2. Tail(toInit[k]) \in Seq(Objects)
          BY <2>3
      <4>3. Times(o, Tail(toInit[k])) \in Nat
          BY <4>2, PlacesFinite
      <4>4. QED
          BY <2>5, <4>1, <4>3
    <3>2. Pins(o) > 0
        BY <1>0, <2>5, <3>1, PinsCounted DEF Pins, TypeOK
    <3>3. mem[o] = "live"
        BY <1>0, <2>7, <3>2, PinnedIsCounted DEF LiveWhileCounted
    <3>4. QED
        BY <1>0, <1>1, <2>5, <3>3, UsesOfLive DEF Touch
  <2>8. QED
      BY <2>5, <2>6, <2>7 DEF Objects
<1>4. QED
    BY <1>0, <1>1, <1>2, <1>3

LEMMA NextTracked == ASSUME Tracked, [Next]_vars PROVE Tracked'
<1>1. Retirement' /\ GroupLoadedOnce' /\ LoadersMarked'
    BY NextRetirement, NextGroups DEF Tracked
<1>2. stale' \subseteq Expected(lateRef')
  <2>1. CASE UNCHANGED vars
      BY <2>1 DEF vars, Tracked
  <2>2. QED
      BY <2>1, UserTouches, WorkerTouches, MainTouches DEF Next, Torn
<1>3. QED
    BY <1>1, <1>2 DEF Tracked

(* Whatever the number of resources, users and workers: no asker, worker   *)
(* or initialisation ever touches freed memory but at the four places      *)
(* named, and only an M2 that gx_m2_ask_load referenced too late is ever   *)
(* unreferenced while the cache does not have it.                          *)
THEOREM FreedIsUsedOnlyThere == Spec => []StaleUsesKnown
<1>1. Init => Tracked
    BY InitRetirement, InitGroups DEF Tracked, Init
<1>2. Tracked /\ [Next]_vars => Tracked'
    BY NextTracked
<1>3. Tracked => StaleUsesKnown
    BY DEF Tracked, Retirement, Accounts, LateIsDead, Expected, StaleUsesKnown
<1>4. QED
    BY <1>1, <1>2, <1>3, PTL DEF Spec

-----------------------------------------------------------------------------
(* The textures and the WMOs implement Resource                            *)

LoadsOf(o) == Pins(o) + leaks[o] + Asking(o, "push")

(* the count is that of the holders and of the loads asked for             *)
Counts ==
  \A o \in Pinned : /\ Holds(o) \in Nat /\ LoadsOf(o) \in Nat /\ refs[o] = Holds(o) + LoadsOf(o)
                    /\ Holds(o) > 0 <=> {u \in Users : o \in held[u]} # {}

LEMMA PinnedIsKnown ==
  \A o \in Pinned : o \in Counted /\ o \in Objects /\ o \notin M2 /\ o \notin Group
BY KindsDisjoint DEF Pinned, Counted, Objects, Kinds, Of

LEMMA AccountsCount == Accounts => Counts
<1> SUFFICES ASSUME Accounts, NEW o \in Pinned
             PROVE  /\ Holds(o) \in Nat /\ LoadsOf(o) \in Nat /\ refs[o] = Holds(o) + LoadsOf(o)
                    /\ Holds(o) > 0 <=> {u \in Users : o \in held[u]} # {}
    BY DEF Counts
<1>1. o \in Counted /\ o \notin M2 /\ o \notin lateRef
    BY PinnedIsKnown DEF Accounts, LateIsDead
<1>2. refs[o] = Holds(o) + Pins(o) + leaks[o] + Asking(o, "push")
    BY <1>1, RefsAre DEF Accounts, Owed
<1>3. Holds(o) \in Nat /\ Asking(o, "push") \in Nat /\ Pins(o) \in Nat /\ leaks[o] \in Nat
    BY <1>1, CountsAreNat DEF Accounts
<1>4. Holds(o) > 0 <=> {u \in Users : o \in held[u]} # {}
    BY UsersCounted
<1>5. QED
    BY <1>2, <1>3, <1>4 DEF LoadsOf

LEMMA AccountsCountNext == Accounts' => Counts'
BY AccountsCount, PTL

(* what Resource needs is what the cache counts                            *)
LEMMA NeededIsCounted ==
  ASSUME Accounts, NEW o \in Pinned
  PROVE  Abstract!Needed(o) <=> refs[o] > 0
<1>1. /\ Holds(o) \in Nat /\ LoadsOf(o) \in Nat /\ refs[o] = Holds(o) + LoadsOf(o)
      /\ Holds(o) > 0 <=> {u \in Users : o \in held[u]} # {}
    BY AccountsCount DEF Counts
<1>2. Abstract!Needed(o) <=> {u \in Users : o \in held[u]} # {} \/ LoadsOf(o) > 0
    BY DEF Abstract!Needed, LoadsOf
<1>3. QED
    BY <1>1, <1>2

(* the loads change with the count and the holders                         *)
LEMMA LoadsFollow ==
  ASSUME Accounts, Accounts', NEW o \in Pinned, NEW d \in Int, NEW h \in Int,
         refs'[o] = refs[o] + d, Holds(o)' = Holds(o) + h
  PROVE  LoadsOf(o)' = LoadsOf(o) + (d - h)
<1>1. Holds(o) \in Nat /\ LoadsOf(o) \in Nat /\ refs[o] = Holds(o) + LoadsOf(o)
    BY AccountsCount DEF Counts
<1>2. Holds(o)' \in Nat /\ LoadsOf(o)' \in Nat /\ refs'[o] = Holds(o)' + LoadsOf(o)'
    BY AccountsCountNext DEF Counts
<1>3. QED
    BY <1>1, <1>2

(* What a step of the loader is to Resource                                *)
LEMMA MapsToStutter ==
  ASSUME \A o \in Pinned : /\ \A v \in Users : o \in held'[v] <=> o \in held[v]
                           /\ LoadsOf(o)' = LoadsOf(o) /\ mem'[o] = mem[o],
         initialized' \cap Pinned = initialized \cap Pinned
  PROVE  UNCHANGED Abstract!vars
<1>1. [o \in Pinned |-> {u \in Users : o \in held'[u]}] = [o \in Pinned |-> {u \in Users : o \in held[u]}]
    OBVIOUS
<1>2. [o \in Pinned |-> Pins(o) + leaks[o] + Asking(o, "push")]'
        = [o \in Pinned |-> Pins(o) + leaks[o] + Asking(o, "push")]
    BY DEF LoadsOf
<1>3. [o \in Pinned |-> mem'[o]] = [o \in Pinned |-> mem[o]]
    OBVIOUS
<1>4. QED
    BY <1>1, <1>2, <1>3 DEF Abstract!vars

LEMMA MapsToAcquire ==
  ASSUME NEW u \in Users, NEW o \in Pinned, o \notin held[u],
         mem[o] = "unborn" \/ Abstract!Needed(o),
         \A p \in Pinned : \A v \in Users : p \in held'[v] <=> p \in held[v] \/ (p = o /\ v = u),
         \A p \in Pinned : LoadsOf(p)' = LoadsOf(p) /\ mem'[p] = (IF p = o THEN "live" ELSE mem[p]),
         initialized' = initialized
  PROVE  Abstract!Acquire(u, o)
<1>1. [p \in Pinned |-> {v \in Users : p \in held'[v]}]
        = [[p \in Pinned |-> {v \in Users : p \in held[v]}] EXCEPT ![o] = @ \cup {u}]
  <2>1. \A p \in Pinned : {v \in Users : p \in held'[v]}
                            = IF p = o THEN {v \in Users : p \in held[v]} \cup {u}
                                       ELSE {v \in Users : p \in held[v]}
    <3> TAKE p \in Pinned
    <3>1. CASE p = o
        BY <3>1
    <3>2. CASE p # o
        BY <3>2
    <3>3. QED
        BY <3>1, <3>2
  <2>2. PICK f \in [Pinned -> SUBSET Users], g \in [Pinned -> SUBSET Users] :
          /\ f = [p \in Pinned |-> {v \in Users : p \in held[v]}]
          /\ g = [p \in Pinned |-> {v \in Users : p \in held'[v]}]
      OBVIOUS
  <2>3. \A p \in Pinned : g[p] = IF p = o THEN f[p] \cup {u} ELSE f[p]
      BY <2>1, <2>2
  <2>4. g = [f EXCEPT ![o] = f[o] \cup {u}]
      BY <2>2, <2>3
  <2>5. QED
      BY <2>2, <2>4
<1>2. [p \in Pinned |-> Pins(p) + leaks[p] + Asking(p, "push")]'
        = [p \in Pinned |-> Pins(p) + leaks[p] + Asking(p, "push")]
    BY DEF LoadsOf
<1>3. [p \in Pinned |-> mem'[p]] = [[p \in Pinned |-> mem[p]] EXCEPT ![o] = "live"]
    OBVIOUS
<1>4. u \notin [p \in Pinned |-> {v \in Users : p \in held[v]}][o] /\ [p \in Pinned |-> mem[p]][o] = mem[o]
    OBVIOUS
<1>5. QED
    BY <1>1, <1>2, <1>3, <1>4 DEF Abstract!Acquire

LEMMA MapsToDrop ==
  ASSUME NEW u \in Users, NEW o \in Pinned, o \in held[u],
         \A p \in Pinned : \A v \in Users : p \in held'[v] <=> p \in held[v] /\ ~(p = o /\ v = u),
         \A p \in Pinned : LoadsOf(p)' = LoadsOf(p) /\ mem'[p] = mem[p],
         initialized' = initialized
  PROVE  Abstract!Drop(u, o)
<1>1. [p \in Pinned |-> {v \in Users : p \in held'[v]}]
        = [[p \in Pinned |-> {v \in Users : p \in held[v]}] EXCEPT ![o] = @ \ {u}]
    OBVIOUS
<1>2. [p \in Pinned |-> Pins(p) + leaks[p] + Asking(p, "push")]'
        = [p \in Pinned |-> Pins(p) + leaks[p] + Asking(p, "push")]
    BY DEF LoadsOf
<1>3. [p \in Pinned |-> mem'[p]] = [p \in Pinned |-> mem[p]]
    OBVIOUS
<1>4. u \in [p \in Pinned |-> {v \in Users : p \in held[v]}][o]
    OBVIOUS
<1>5. QED
    BY <1>1, <1>2, <1>3, <1>4 DEF Abstract!Drop

LEMMA MapsToStartLoad ==
  ASSUME NEW o \in Pinned, Abstract!Needed(o), UNCHANGED <<held, initialized>>,
         \A p \in Pinned : LoadsOf(p)' = (IF p = o THEN LoadsOf(p) + 1 ELSE LoadsOf(p)),
         \A p \in Pinned : mem'[p] = mem[p]
  PROVE  Abstract!StartLoad(o)
<1>1. [p \in Pinned |-> Pins(p) + leaks[p] + Asking(p, "push")]'
        = [[p \in Pinned |-> Pins(p) + leaks[p] + Asking(p, "push")] EXCEPT ![o] = @ + 1]
    BY DEF LoadsOf
<1>2. [p \in Pinned |-> mem'[p]] = [p \in Pinned |-> mem[p]]
    OBVIOUS
<1>3. QED
    BY <1>1, <1>2 DEF Abstract!StartLoad

LEMMA MapsToEndLoad ==
  ASSUME NEW o \in Pinned, LoadsOf(o) > 0, held' = held,
         \A p \in Pinned : LoadsOf(p)' = (IF p = o THEN LoadsOf(p) - 1 ELSE LoadsOf(p)),
         \A p \in Pinned : mem'[p] = mem[p],
         initialized' \cap Pinned \in {initialized \cap Pinned, (initialized \cap Pinned) \cup {o}}
  PROVE  Abstract!EndLoad(o)
<1>1. [p \in Pinned |-> Pins(p) + leaks[p] + Asking(p, "push")]'
        = [[p \in Pinned |-> Pins(p) + leaks[p] + Asking(p, "push")] EXCEPT ![o] = @ - 1]
    BY DEF LoadsOf
<1>2. [p \in Pinned |-> mem'[p]] = [p \in Pinned |-> mem[p]]
    OBVIOUS
<1>3. [p \in Pinned |-> Pins(p) + leaks[p] + Asking(p, "push")][o] > 0
    BY DEF LoadsOf
<1>4. QED
    BY <1>1, <1>2, <1>3 DEF Abstract!EndLoad

LEMMA MapsToFree ==
  ASSUME NEW o \in Pinned, ~Abstract!Needed(o), UNCHANGED <<held, initialized>>, mem[o] = "live",
         \A p \in Pinned : LoadsOf(p)' = LoadsOf(p) /\ mem'[p] = (IF p = o THEN "freed" ELSE mem[p])
  PROVE  Abstract!Free(o)
<1>1. [p \in Pinned |-> Pins(p) + leaks[p] + Asking(p, "push")]'
        = [p \in Pinned |-> Pins(p) + leaks[p] + Asking(p, "push")]
    BY DEF LoadsOf
<1>2. [p \in Pinned |-> mem'[p]] = [[p \in Pinned |-> mem[p]] EXCEPT ![o] = "freed"]
    OBVIOUS
<1>3. [p \in Pinned |-> mem[p]][o] = "live"
    OBVIOUS
<1>4. QED
    BY <1>1, <1>2, <1>3 DEF Abstract!Free

LEMMA HoldersStay ==
  ASSUME held' = held
  PROVE  \A p \in Pinned : /\ Holds(p)' = Holds(p)
                           /\ \A v \in Users : p \in held'[v] <=> p \in held[v]
BY HoldsKept

(* a holder of the resource takes the reference of its load                *)
LEMMA RefMaps ==
  ASSUME Accounts, Accounts', NEW o \in Counted, NEW u \in Users, o \in held[u],
         Ref(o), UNCHANGED <<held, mem, initialized>>
  PROVE  [Abstract!Next]_(Abstract!vars)
<1>1. refs \in [Counted -> Nat]
    BY DEF Accounts, TypeOK, CacheTypeOK
<1>2. CASE o \in Pinned
  <2>1. Abstract!Needed(o) /\ refs[o] > 0
    <3>1. Abstract!Needed(o)
        BY <1>2 DEF Abstract!Needed
    <3>2. QED
        BY <1>2, <3>1, NeededIsCounted
  <2>2. refs' = [refs EXCEPT ![o] = @ + 1]
      BY <2>1 DEF Ref
  <2>3. ASSUME NEW p \in Pinned PROVE LoadsOf(p)' = (IF p = o THEN LoadsOf(p) + 1 ELSE LoadsOf(p))
    <3>1. Holds(p)' = Holds(p) /\ Holds(p) \in Nat /\ LoadsOf(p) \in Nat /\ p \in Counted
        BY HoldersStay, AccountsCount, PinnedIsKnown DEF Counts
    <3>2. CASE p = o
      <4>1. refs'[p] = refs[p] + 1 /\ Holds(p)' = Holds(p) + 0
          BY <1>1, <2>2, <3>1, <3>2
      <4>2. LoadsOf(p)' = LoadsOf(p) + (1 - 0)
          BY <4>1, LoadsFollow
      <4>3. QED
          BY <3>1, <3>2, <4>2
    <3>3. CASE p # o
      <4>1. refs'[p] = refs[p] + 0 /\ Holds(p)' = Holds(p) + 0
          BY <1>1, <2>2, <3>1, <3>3
      <4>2. LoadsOf(p)' = LoadsOf(p) + (0 - 0)
          BY <4>1, LoadsFollow
      <4>3. QED
          BY <3>1, <3>3, <4>2
    <3>4. QED
        BY <3>2, <3>3
  <2>4. Abstract!StartLoad(o)
      BY <1>2, <2>1, <2>3, MapsToStartLoad
  <2>5. QED
      BY <1>2, <2>4 DEF Abstract!Next
<1>3. CASE o \notin Pinned
  <2>1. ASSUME NEW p \in Pinned PROVE LoadsOf(p)' = LoadsOf(p)
    <3>1. Holds(p)' = Holds(p) /\ Holds(p) \in Nat /\ LoadsOf(p) \in Nat /\ p \in Counted
        BY HoldersStay, AccountsCount, PinnedIsKnown DEF Counts
    <3>2. refs'[p] = refs[p] + 0 /\ Holds(p)' = Holds(p) + 0
        BY <1>1, <1>3, <3>1 DEF Ref
    <3>3. LoadsOf(p)' = LoadsOf(p) + (0 - 0)
        BY <3>2, LoadsFollow
    <3>4. QED
        BY <3>1, <3>3
  <2>2. UNCHANGED Abstract!vars
      BY <2>1, HoldersStay, MapsToStutter
  <2>3. QED
      BY <2>2
<1>4. QED
    BY <1>2, <1>3

(* the count of no texture or WMO changes                                  *)
LEMMA SameCount ==
  ASSUME Accounts, Accounts', held' = held, \A p \in Pinned : refs'[p] = refs[p]
  PROVE  \A p \in Pinned : LoadsOf(p)' = LoadsOf(p)
<1> TAKE p \in Pinned
<1>1. Holds(p)' = Holds(p) /\ Holds(p) \in Nat /\ LoadsOf(p) \in Nat /\ refs[p] = Holds(p) + LoadsOf(p)
    BY HoldersStay, AccountsCount DEF Counts
<1>2. refs'[p] = refs[p] + 0 /\ Holds(p)' = Holds(p) + 0
    BY <1>1
<1>3. LoadsOf(p)' = LoadsOf(p) + (0 - 0)
    BY <1>2, LoadsFollow
<1>4. QED
    BY <1>1, <1>3

LEMMA RefByKeyMaps ==
  ASSUME Accounts, Accounts', NEW u \in Users, NEW o \in Counted, RefByKey(u, o)
  PROVE  [Abstract!Next]_(Abstract!vars)
<1>1. /\ refs \in [Counted -> Nat] /\ mem \in [Objects -> {"unborn", "live", "freed"}]
      /\ held \in [Users -> SUBSET Counted] /\ o \in Objects
    BY CountedKinds DEF Accounts, TypeOK, CacheTypeOK, ObjectTypeOK, UserTypeOK
<1>2. /\ o \notin held[u]
      /\ refs[o] > 0 \/ mem[o] = "unborn"
      /\ refs' = [refs EXCEPT ![o] = @ + 1] /\ mem' = [mem EXCEPT ![o] = "live"]
      /\ held' = [held EXCEPT ![u] = @ \cup {o}] /\ initialized' = initialized
    BY DEF RefByKey, flagVars
<1>3. \A p \in Pinned : \A v \in Users : p \in held'[v] <=> p \in held[v] \/ (p = o /\ v = u)
    BY <1>1, <1>2
<1>4. \A p \in Pinned : mem'[p] = (IF p = o THEN "live" ELSE mem[p])
    BY <1>1, <1>2, PinnedIsKnown
<1>5. ASSUME NEW p \in Pinned PROVE LoadsOf(p)' = LoadsOf(p)
  <2>1. p \in Counted /\ Holds(p) \in Nat /\ LoadsOf(p) \in Nat
      BY AccountsCount, PinnedIsKnown DEF Counts
  <2>2. PICK d \in Nat : d = IF p = o THEN 1 ELSE 0
      OBVIOUS
  <2>3. refs'[p] = refs[p] + d
      BY <1>1, <1>2, <2>1, <2>2
  <2>4. Holds(p)' = Holds(p) + d
    <3>1. \A v \in Users : v # u => held'[v] = held[v]
        BY <1>1, <1>2
    <3>2. Holds(p)' \in Nat /\ Holds(p)' + (IF p \in held[u] THEN 1 ELSE 0)
                                 = Holds(p) + (IF p \in held'[u] THEN 1 ELSE 0)
        BY <3>1, HolderChanges
    <3>3. p \in held'[u] <=> p \in held[u] \/ p = o
        BY <1>3
    <3>4. QED
        BY <1>2, <2>1, <2>2, <3>2, <3>3
  <2>5. LoadsOf(p)' = LoadsOf(p) + (d - d)
      BY <2>3, <2>4, LoadsFollow
  <2>6. QED
      BY <2>1, <2>5
<1>6. CASE o \in Pinned
  <2>1. mem[o] = "unborn" \/ Abstract!Needed(o)
      BY <1>2, <1>6, NeededIsCounted
  <2>2. Abstract!Acquire(u, o)
      BY <1>2, <1>3, <1>4, <1>5, <1>6, <2>1, MapsToAcquire
  <2>3. QED
      BY <1>6, <2>2 DEF Abstract!Next
<1>7. CASE o \notin Pinned
  <2>1. UNCHANGED Abstract!vars
      BY <1>2, <1>3, <1>4, <1>5, <1>7, MapsToStutter
  <2>2. QED
      BY <2>1
<1>8. QED
    BY <1>6, <1>7

LEMMA ReleaseMaps ==
  ASSUME Accounts, Accounts', NEW u \in Users, NEW o \in Counted, Release(u, o)
  PROVE  [Abstract!Next]_(Abstract!vars)
<1>1. refs \in [Counted -> Nat] /\ held \in [Users -> SUBSET Counted]
    BY DEF Accounts, TypeOK, CacheTypeOK, UserTypeOK
<1>2. /\ o \in held[u] /\ UnrefWith(o, groups) /\ held' = [held EXCEPT ![u] = @ \ {o}]
      /\ UNCHANGED <<mem, initialized>>
    BY DEF Release, Unref, flagVars
<1>3. \A p \in Pinned : \A v \in Users : p \in held'[v] <=> p \in held[v] /\ ~(p = o /\ v = u)
    BY <1>1, <1>2
<1>4. o \in Pinned => refs[o] > 0
    BY <1>2, NeededIsCounted DEF Abstract!Needed
<1>5. ASSUME NEW p \in Pinned PROVE LoadsOf(p)' = LoadsOf(p)
  <2>1. p \in Counted /\ Holds(p) \in Nat /\ LoadsOf(p) \in Nat /\ refs[p] \in Nat
      BY <1>1, AccountsCount, PinnedIsKnown DEF Counts
  <2>2. PICK d \in Int : d = IF p = o THEN -1 ELSE 0
      OBVIOUS
  <2>3. refs'[p] = refs[p] + d
    <3>1. CASE p = o
        BY <1>1, <1>2, <1>4, <2>1, <2>2, <3>1 DEF UnrefWith
    <3>2. CASE p # o
        BY <1>1, <1>2, <2>1, <2>2, <3>2 DEF UnrefWith
    <3>3. QED
        BY <3>1, <3>2
  <2>4. Holds(p)' = Holds(p) + d
    <3>1. \A v \in Users : v # u => held'[v] = held[v]
        BY <1>1, <1>2
    <3>2. Holds(p)' \in Nat /\ Holds(p)' + (IF p \in held[u] THEN 1 ELSE 0)
                                 = Holds(p) + (IF p \in held'[u] THEN 1 ELSE 0)
        BY <3>1, HolderChanges
    <3>3. p \in held'[u] <=> p \in held[u] /\ p # o
        BY <1>3
    <3>4. QED
        BY <1>2, <2>1, <2>2, <3>2, <3>3
  <2>5. LoadsOf(p)' = LoadsOf(p) + (d - d)
      BY <2>3, <2>4, LoadsFollow
  <2>6. QED
      BY <2>1, <2>2, <2>5
<1>6. CASE o \in Pinned
  <2>1. Abstract!Drop(u, o)
      BY <1>2, <1>3, <1>5, <1>6, MapsToDrop
  <2>2. QED
      BY <1>6, <2>1 DEF Abstract!Next
<1>7. CASE o \notin Pinned
  <2>1. UNCHANGED Abstract!vars
      BY <1>2, <1>3, <1>5, <1>7, MapsToStutter
  <2>2. QED
      BY <2>1
<1>8. QED
    BY <1>6, <1>7

LEMMA UserStepMaps ==
  ASSUME Accounts, Accounts', NEW u \in Users, UserStep(u)
  PROVE  [Abstract!Next]_(Abstract!vars)
<1>1. CASE AskRef(u)
  <2>1. PICK o \in Counted : o = asking[u].obj
      BY <1>1 DEF AskRef, Accounts, TypeOK, UserTypeOK, NotAsking
  <2>2. Ref(o) /\ UNCHANGED <<held, mem, initialized>> /\ asking[u] # NotAsking
      BY <1>1, <2>1 DEF AskRef, flagVars, NotAsking
  <2>3. o \in held[u]
      BY <2>1, <2>2 DEF Accounts, AskersHold
  <2>4. QED
      BY <2>2, <2>3, RefMaps
<1>2. ASSUME NEW o \in Counted, AskLocked(u, o) PROVE [Abstract!Next]_(Abstract!vars)
  <2>1. Ref(o) /\ UNCHANGED <<held, mem, initialized>> /\ o \in held[u]
      BY <1>2 DEF AskLocked
  <2>2. QED
      BY <2>1, RefMaps
<1>3. CASE (\E o \in Counted : AskCheck(u, o)) \/ AskMark(u) \/ AskPush(u)
  <2>1. UNCHANGED <<held, mem, initialized, refs>>
      BY <1>3 DEF AskCheck, AskMark, AskPush, cacheVars, flagVars
  <2>2. UNCHANGED Abstract!vars
      BY <2>1, SameCount, HoldersStay, MapsToStutter
  <2>3. QED
      BY <2>2
<1>4. QED
    BY <1>1, <1>2, <1>3, RefByKeyMaps, ReleaseMaps DEF UserStep

(* a step of a worker or of the main thread, by what it does to the count  *)
LEMMA CountOrLoadEnds ==
  ASSUME Retirement, LoadStep, RetireStep, TypeOK'
  PROVE  \/ refs' = refs /\ \A p \in Counted : mem'[p] = mem[p]
         \/ \E o \in Counted : /\ refs[o] > 0 /\ refs' = [refs EXCEPT ![o] = @ - 1]
                               /\ Pins(o) > 0 /\ \A p \in Counted : mem'[p] = mem[p]
         \/ \E o \in Objects : refs' = refs /\ Frees(o)
<1>0. /\ Accounts /\ refs \in [Counted -> Nat]
      /\ mem \in [Objects -> {"unborn", "live", "freed"}]
    BY DEF Retirement, Accounts, TypeOK, CacheTypeOK, ObjectTypeOK
<1>1. CASE LoadsGoOn
  <2>1. refs' = refs
      BY <1>1 DEF LoadsGoOn
  <2>2. ASSUME NEW o \in Counted, Gains(o) \/ Loses(o) PROVE FALSE
      BY <1>0, <2>1, <2>2 DEF Gains, Loses
  <2>3. CASE Passes
      BY <2>1, <2>3 DEF Passes
  <2>4. ASSUME NEW o \in Counted, Grows(o) PROVE \A p \in Counted : mem'[p] = mem[p]
      BY <2>4, GroupsKnown DEF Grows
  <2>5. QED
      BY <2>1, <2>2, <2>3, <2>4 DEF RetireStep
<1>2. ASSUME NEW o \in Counted, LoadEnds(o)
      PROVE  /\ refs[o] > 0 /\ refs' = [refs EXCEPT ![o] = @ - 1]
             /\ Pins(o) > 0 /\ \A p \in Counted : mem'[p] = mem[p]
  <2>1. Pins(o) > 0 /\ refs[o] > 0
      BY <1>0, <1>2, PinnedIsCounted DEF LoadEnds
  <2>2. refs' = [refs EXCEPT ![o] = @ - 1] /\ refs'[o] = refs[o] - 1
      BY <1>0, <1>2, <2>1 DEF LoadEnds, UnrefWith
  <2>3. refs' # refs
      BY <1>0, <2>2
  <2>4. ASSUME NEW p \in Counted, Gains(p) PROVE FALSE
    <3>1. refs'[p] = refs[p] + 1
        BY <1>0, <2>4 DEF Gains
    <3>2. QED
        BY <1>0, <2>2, <3>1
  <2>5. PICK p \in Counted : Loses(p)
      BY <2>3, <2>4 DEF RetireStep, Passes, Grows, Frees
  <2>6. \A q \in Counted : mem'[q] = mem[q]
      BY <2>5, GroupsKnown DEF Loses
  <2>7. QED
      BY <2>1, <2>2, <2>6
<1>3. QED
    BY <1>1, <1>2 DEF LoadStep

(* what it does to Resource, by the resources it makes ready               *)
LEMMA StepMaps ==
  ASSUME Retirement, Retirement', LoadStep, RetireStep,
         \/ initialized' \cap Pinned = initialized \cap Pinned
         \/ \E o \in Pinned : refs'[o] # refs[o] /\ initialized' = initialized \cup {o},
         (\E o \in Objects : Frees(o)) => initialized' = initialized
  PROVE  [Abstract!Next]_(Abstract!vars)
<1>0. /\ Accounts /\ Accounts' /\ TypeOK /\ TypeOK' /\ refs \in [Counted -> Nat]
      /\ mem \in [Objects -> {"unborn", "live", "freed"}]
    BY DEF Retirement, Accounts, TypeOK, CacheTypeOK, ObjectTypeOK
<1>1. held' = held
    BY DEF LoadStep
<1>2. CASE refs' = refs /\ \A p \in Counted : mem'[p] = mem[p]
  <2>1. initialized' \cap Pinned = initialized \cap Pinned
      BY <1>2
  <2>2. \A p \in Pinned : LoadsOf(p)' = LoadsOf(p) /\ mem'[p] = mem[p]
      BY <1>0, <1>1, <1>2, SameCount, PinnedIsKnown
  <2>3. UNCHANGED Abstract!vars
      BY <1>1, <2>1, <2>2, HoldersStay, MapsToStutter
  <2>4. QED
      BY <2>3
<1>3. ASSUME NEW o \in Counted, refs[o] > 0, refs' = [refs EXCEPT ![o] = @ - 1],
             Pins(o) > 0, \A p \in Counted : mem'[p] = mem[p]
      PROVE  [Abstract!Next]_(Abstract!vars)
  <2>1. \A p \in Pinned : mem'[p] = mem[p]
      BY <1>3, PinnedIsKnown
  <2>2. \A p \in Pinned : refs'[p] # refs[p] => p = o
      BY <1>0, <1>3, PinnedIsKnown
  <2>3. CASE o \notin Pinned
    <3>1. \A p \in Pinned : refs'[p] = refs[p]
        BY <2>2, <2>3
    <3>2. initialized' \cap Pinned = initialized \cap Pinned
        BY <3>1
    <3>3. \A p \in Pinned : LoadsOf(p)' = LoadsOf(p)
        BY <1>0, <1>1, <3>1, SameCount
    <3>4. UNCHANGED Abstract!vars
        BY <1>1, <2>1, <3>2, <3>3, HoldersStay, MapsToStutter
    <3>5. QED
        BY <3>4
  <2>4. CASE o \in Pinned
    <3>1. initialized' \cap Pinned \in {initialized \cap Pinned, (initialized \cap Pinned) \cup {o}}
        BY <2>2, <2>4
    <3>2. ASSUME NEW p \in Pinned PROVE LoadsOf(p)' = (IF p = o THEN LoadsOf(p) - 1 ELSE LoadsOf(p))
      <4>1. p \in Counted /\ Holds(p)' = Holds(p) /\ Holds(p) \in Nat /\ LoadsOf(p) \in Nat
          BY <1>0, <1>1, HoldersStay, AccountsCount, PinnedIsKnown DEF Counts
      <4>2. PICK d \in Int : d = IF p = o THEN -1 ELSE 0
          OBVIOUS
      <4>3. refs'[p] = refs[p] + d
          BY <1>0, <1>3, <4>1, <4>2
      <4>4. Holds(p)' = Holds(p) + 0
          BY <4>1
      <4>5. LoadsOf(p)' = LoadsOf(p) + (d - 0)
          BY <1>0, <4>3, <4>4, LoadsFollow
      <4>6. QED
          BY <4>1, <4>2, <4>5
    <3>3. LoadsOf(o) > 0
      <4>1. Pins(o) \in Nat /\ leaks[o] \in Nat /\ Asking(o, "push") \in Nat
          BY <1>0, CountsAreNat
      <4>2. QED
          BY <1>3, <4>1 DEF LoadsOf
    <3>4. Abstract!EndLoad(o)
        BY <1>1, <2>1, <2>4, <3>1, <3>2, <3>3, MapsToEndLoad
    <3>5. QED
        BY <2>4, <3>4 DEF Abstract!Next
  <2>5. QED
      BY <2>3, <2>4
<1>4. ASSUME NEW o \in Objects, refs' = refs, Frees(o) PROVE [Abstract!Next]_(Abstract!vars)
  <2>1. mem' = [mem EXCEPT ![o] = "freed"] /\ Retired(o) > 0 /\ initialized' = initialized
      BY <1>4 DEF Frees
  <2>2. mem[o] = "live" /\ IsCondemned(o)
      BY <2>1 DEF Retirement, RetiredOnce
  <2>3. \A p \in Pinned : LoadsOf(p)' = LoadsOf(p)
      BY <1>0, <1>1, <1>4, SameCount
  <2>4. \A p \in Pinned : mem'[p] = (IF p = o THEN "freed" ELSE mem[p])
      BY <1>0, <2>1, PinnedIsKnown
  <2>5. CASE o \in Pinned
    <3>1. ~Abstract!Needed(o)
      <4>1. refs[o] = 0
          BY <2>2, <2>5, WhatIsCondemned, PinnedIsKnown
      <4>2. QED
          BY <1>0, <2>5, <4>1, NeededIsCounted
    <3>2. Abstract!Free(o)
        BY <1>1, <2>1, <2>2, <2>3, <2>4, <2>5, <3>1, MapsToFree
    <3>3. QED
        BY <2>5, <3>2 DEF Abstract!Next
  <2>6. CASE o \notin Pinned
    <3>1. UNCHANGED Abstract!vars
        BY <1>1, <2>1, <2>3, <2>4, <2>6, HoldersStay, MapsToStutter
    <3>2. QED
        BY <3>1
  <2>7. QED
      BY <2>5, <2>6
<1>5. QED
    BY <1>0, <1>2, <1>3, <1>4, CountOrLoadEnds

(* what the main thread makes ready is what it ends the load of            *)
LEMMA InitObjectShows ==
  ASSUME Accounts, InitObject
  PROVE  \/ initialized' \cap Pinned = initialized \cap Pinned
         \/ \E o \in Pinned : refs'[o] # refs[o] /\ initialized' = initialized \cup {o}
<1>0. TypeOK /\ refs \in [Counted -> Nat]
    BY DEF Accounts, TypeOK, CacheTypeOK
<1>1. PICK i \in 1..4 : LET k == InitOrder[i]  o == Head(toInit[k]) IN
        /\ toInit[k] # <<>>
        /\ \/ k = "m2" /\ initialized' = initialized
           \/ /\ initialized' = initialized \cup {o}
              /\ k = "group" \/ Unref(o)
    BY DEF InitObject, cacheVars
<1>2. PICK k \in Kinds : k = InitOrder[i]
    BY DEF InitOrder, Kinds
<1>3. toInit[k] \in Seq(Objects) /\ toInit[k] \in Seq(Of[k]) /\ toInit[k] # <<>>
    BY <1>0, <1>1, <1>2 DEF TypeOK, QueueTypeOK
<1>4. PICK o \in Of[k] : o = Head(toInit[k])
    BY <1>3
<1>5. o \in Objects /\ KindOf(o) = k
    BY <1>4, KindIsUnique
<1>6. CASE initialized' = initialized \/ o \notin Pinned
    BY <1>1, <1>2, <1>4, <1>6
<1>7. CASE initialized' # initialized /\ o \in Pinned
  <2>1. initialized' = initialized \cup {o} /\ (k = "group" \/ UnrefWith(o, groups))
      BY <1>1, <1>2, <1>4, <1>7 DEF Unref
  <2>2. o \in Counted /\ k # "group"
      BY <1>5, <1>7, PinnedIsKnown, CountedKinds
  <2>3. Times(o, toInit[KindOf(o)]) > 0
    <3>1. Times(o, toInit[k]) = Times(o, Tail(toInit[k])) + 1
        BY <1>3, <1>4, TimesTail
    <3>2. Tail(toInit[k]) \in Seq(Objects)
        BY <1>3
    <3>3. Times(o, Tail(toInit[k])) \in Nat
        BY <3>2, PlacesFinite
    <3>4. QED
        BY <1>5, <3>1, <3>3
  <2>4. Pins(o) > 0
      BY <1>0, <1>5, <2>3, PinsCounted DEF Pins, TypeOK
  <2>5. refs[o] > 0
      BY <2>2, <2>4, PinnedIsCounted
  <2>6. refs'[o] # refs[o]
      BY <1>0, <2>1, <2>2, <2>5 DEF UnrefWith
  <2>7. QED
      BY <1>7, <2>1, <2>6
<1>8. QED
    BY <1>6, <1>7

LEMMA NextMaps ==
  ASSUME Retirement, Retirement', [Next]_vars
  PROVE  [Abstract!Next]_(Abstract!vars)
<1>0. Accounts /\ Accounts' /\ TypeOK /\ TypeOK'
    BY DEF Retirement, Accounts
<1>1. CASE UNCHANGED vars
  <2>1. UNCHANGED <<held, mem, initialized, refs>>
      BY <1>1 DEF vars
  <2>2. UNCHANGED Abstract!vars
      BY <1>0, <2>1, SameCount, HoldersStay, MapsToStutter
  <2>3. QED
      BY <2>2
<1>2. ASSUME NEW w \in Workers, WorkerStep(w) PROVE [Abstract!Next]_(Abstract!vars)
  <2>1. initialized' = initialized
      BY <1>2 DEF WorkerStep, FindTask, Unload, LoadNoFile, LoadBadFile, LoadBlp, FillBlp, ClearBlp,
                  LoadM2, PostLoadM2, LoadWmo, LoadGroup
  <2>2. LoadStep /\ RetireStep
      BY <1>0, <1>2, WorkerStepLoads, WorkerStepRetires
  <2>3. QED
      BY <2>1, <2>2, StepMaps
<1>3. CASE InitObject
  <2>1. LoadStep /\ RetireStep
      BY <1>0, <1>3, MainStepLoads, InitObjectRetires DEF FrameStep
  <2>2. mem' = mem
      BY <1>3 DEF InitObject
  <2>3. ASSUME NEW o \in Objects, Frees(o) PROVE FALSE
    <3>1. mem[o] = "live"
        BY <2>3 DEF Frees, Retirement, RetiredOnce
    <3>2. mem'[o] = "freed"
        BY <1>0, <2>3 DEF Frees, TypeOK, ObjectTypeOK
    <3>3. QED
        BY <2>2, <3>1, <3>2
  <2>4. QED
      BY <1>0, <1>3, <2>1, <2>3, InitObjectShows, StepMaps
<1>4. CASE (FrameStep \/ NextFrame \/ Quit \/ ShutdownStep) /\ ~InitObject
  <2>1. initialized' = initialized
      BY <1>4 DEF FrameStep, ShutdownStep, Tick, InitEnd, GcObject, GcEnd, NextFrame, Quit,
                  StartDrain, DrainTick, DrainEnd, AsyncWait, AsyncEnd, MainFrame, MainIdle
  <2>2. LoadStep /\ RetireStep
      BY <1>0, <1>4, MainStepLoads, MainStepRetires
  <2>3. QED
      BY <2>1, <2>2, StepMaps
<1>5. QED
    BY <1>0, <1>1, <1>2, <1>3, <1>4, UserStepMaps DEF Next, Torn

LEMMA InitMaps == Init => Abstract!Init
<1> SUFFICES ASSUME Init PROVE Abstract!Init
    OBVIOUS
<1>1. Accounts
    BY InitAccounts
<1>2. ASSUME NEW o \in Pinned PROVE LoadsOf(o) = 0 /\ {u \in Users : o \in held[u]} = {} /\ mem[o] = "unborn"
  <2>1. {u \in Users : o \in held[u]} = {} /\ refs[o] = 0 /\ mem[o] = "unborn"
      BY PinnedIsKnown DEF Init
  <2>2. Holds(o) \in Nat /\ LoadsOf(o) \in Nat /\ refs[o] = Holds(o) + LoadsOf(o)
      BY <1>1, AccountsCount DEF Counts
  <2>3. QED
      BY <2>1, <2>2
<1>3. [o \in Pinned |-> Pins(o) + leaks[o] + Asking(o, "push")] = [o \in Pinned |-> 0]
    BY <1>2 DEF LoadsOf
<1>4. initialized \cap Pinned = {}
    BY DEF Init
<1>5. QED
    BY <1>2, <1>3, <1>4 DEF Abstract!Init

(* Whatever the number of resources, users and workers, the textures and   *)
(* the WMOs of the loader behave as Resource says: each exists exactly     *)
(* while a holder or a load needs it (the caches, ask_load, the workers    *)
(* and the initialisations, seen as one).                                  *)
THEOREM LoaderImplementsResource == Spec => ImplementsResource
<1>1. Init => Abstract!Init
    BY InitMaps
<1>2. Retirement /\ Retirement' /\ [Next]_vars => [Abstract!Next]_(Abstract!vars)
    BY NextMaps
<1>3. QED
    BY <1>1, <1>2, RetirementKept, PTL DEF Spec, ImplementsResource, Abstract!Spec

-----------------------------------------------------------------------------
(* What Resource promises, under the mapping of Loader                     *)

(* Resource keeps its type.                                                *)
LEMMA ResourceTyped == Abstract!Spec => []Abstract!TypeOK
<1>1. Abstract!Init => Abstract!TypeOK
    BY DEF Abstract!Init, Abstract!TypeOK
<1>2. Abstract!TypeOK /\ [Abstract!Next]_(Abstract!vars) => Abstract!TypeOK'
  <2> SUFFICES ASSUME Abstract!TypeOK, [Abstract!Next]_(Abstract!vars) PROVE Abstract!TypeOK'
      OBVIOUS
  <2>1. ASSUME NEW o \in Pinned, NEW u \in Users, Abstract!Acquire(u, o) \/ Abstract!Drop(u, o)
        PROVE  Abstract!TypeOK'
      BY <2>1 DEF Abstract!TypeOK, Abstract!Acquire, Abstract!Drop
  <2>2. ASSUME NEW o \in Pinned, Abstract!StartLoad(o) PROVE Abstract!TypeOK'
    <3>1. PICK f, g : /\ f = [p \in Pinned |-> LoadsOf(p)] /\ g = [p \in Pinned |-> LoadsOf(p)']
                      /\ f \in [Pinned -> Nat] /\ g = [f EXCEPT ![o] = f[o] + 1]
        BY <2>2 DEF Abstract!TypeOK, Abstract!StartLoad, LoadsOf
    <3>2. g \in [Pinned -> Nat]
        BY <3>1
    <3>3. [p \in Pinned |-> LoadsOf(p)]' \in [Pinned -> Nat]
        BY <3>1, <3>2
    <3>4. QED
        BY <2>2, <3>3 DEF Abstract!TypeOK, Abstract!StartLoad, LoadsOf
  <2>3. ASSUME NEW o \in Pinned, Abstract!EndLoad(o) PROVE Abstract!TypeOK'
    <3>1. PICK f, g : /\ f = [p \in Pinned |-> LoadsOf(p)] /\ g = [p \in Pinned |-> LoadsOf(p)']
                      /\ f \in [Pinned -> Nat] /\ g = [f EXCEPT ![o] = f[o] - 1] /\ f[o] > 0
        BY <2>3 DEF Abstract!TypeOK, Abstract!EndLoad, LoadsOf
    <3>2. g \in [Pinned -> Nat]
        BY <3>1
    <3>3. [p \in Pinned |-> LoadsOf(p)]' \in [Pinned -> Nat]
        BY <3>1, <3>2
    <3>4. QED
        BY <2>3, <3>3 DEF Abstract!TypeOK, Abstract!EndLoad, LoadsOf
  <2>4. ASSUME NEW o \in Pinned, Abstract!Free(o) PROVE Abstract!TypeOK'
      BY <2>4 DEF Abstract!TypeOK, Abstract!Free
  <2>5. CASE UNCHANGED Abstract!vars
      BY <2>5 DEF Abstract!TypeOK, Abstract!vars
  <2>6. QED
      BY <2>1, <2>2, <2>3, <2>4, <2>5 DEF Abstract!Next
<1>3. QED
    BY <1>1, <1>2, PTL DEF Abstract!Spec

(* What somebody holds or loads exists: the point of counting references.  *)
(* Every system that implements Resource inherits it.                      *)
THEOREM NeededStaysLive == Abstract!Spec => []Abstract!NeededIsLive
<1>1. Abstract!Init => Abstract!NeededIsLive
    BY DEF Abstract!Init, Abstract!NeededIsLive, Abstract!Needed
<1>2. Abstract!TypeOK /\ Abstract!NeededIsLive /\ [Abstract!Next]_(Abstract!vars) => Abstract!NeededIsLive'
  <2> SUFFICES ASSUME Abstract!TypeOK, Abstract!NeededIsLive, [Abstract!Next]_(Abstract!vars),
                      NEW p \in Pinned, Abstract!Needed(p)'
               PROVE  mem'[p] = "live"
      BY DEF Abstract!NeededIsLive
  <2>0. Abstract!Needed(p) => mem[p] = "live"
      BY DEF Abstract!NeededIsLive
  <2>1. ASSUME NEW o \in Pinned, NEW u \in Users, Abstract!Acquire(u, o) PROVE mem'[p] = "live"
    <3>1. mem'[p] = IF p = o THEN "live" ELSE mem[p]
        BY <2>1 DEF Abstract!Acquire
    <3>2. CASE p # o
        BY <2>0, <2>1, <3>1, <3>2 DEF Abstract!Acquire, Abstract!Needed
    <3>3. QED
        BY <3>1, <3>2
  <2>2. ASSUME NEW o \in Pinned, NEW u \in Users, Abstract!Drop(u, o) PROVE mem'[p] = "live"
      BY <2>0, <2>2 DEF Abstract!Drop, Abstract!Needed
  <2>3. ASSUME NEW o \in Pinned, Abstract!StartLoad(o) PROVE mem'[p] = "live"
      BY <2>0, <2>3 DEF Abstract!StartLoad, Abstract!Needed
  <2>4. ASSUME NEW o \in Pinned, Abstract!EndLoad(o) PROVE mem'[p] = "live"
      BY <2>0, <2>4 DEF Abstract!TypeOK, Abstract!EndLoad, Abstract!Needed
  <2>5. ASSUME NEW o \in Pinned, Abstract!Free(o) PROVE mem'[p] = "live"
      BY <2>0, <2>5 DEF Abstract!Free, Abstract!Needed
  <2>6. CASE UNCHANGED Abstract!vars
      BY <2>0, <2>6 DEF Abstract!vars, Abstract!Needed
  <2>7. QED
      BY <2>1, <2>2, <2>3, <2>4, <2>5, <2>6 DEF Abstract!Next
<1>3. QED
    BY <1>1, <1>2, ResourceTyped, PTL DEF Abstract!Spec

(* So a texture or a WMO that a user holds, or whose load was asked for,   *)
(* is never missing, whatever the caches and the workers do meanwhile.     *)
THEOREM NeededResourcesLive == Spec => []Abstract!NeededIsLive
<1>1. QED
    BY LoaderImplementsResource, NeededStaysLive, PTL DEF ImplementsResource
=============================================================================
