---------------------------- MODULE ThreadsProofs ----------------------------
(***************************************************************************)
(* Proofs about ThreadPool, for any number of threads, tasks and events, and *)
(* about ReaderLoop, for any number of connections, listeners and visitors:  *)
(* types, the events of the pool and its exit, the references the reader     *)
(* holds and the connections it hands back.                                  *)
(***************************************************************************)
EXTENDS MCThreads, ListLemmas

USE PoolAssumption

-----------------------------------------------------------------------------
(* The pool: types.                                                         *)

Items == Tasks \cup Beacons

\* Whoever joins a thread that left holds stopped_mutex: it is alone, and the list
\* stays as it found it.
JoinInv ==
  hurt \/ \A w \in Workers : worker[w] = "joining" =>
            stopped # <<>> /\ \A v \in Workers : worker[v] = "joining" => v = w

PoolTypeInv == PoolTypeOK /\ JoinInv

\* The beacons of a removal, after what is queued.
LEMMA RemoveBeaconsType ==
  ASSUME PoolTypeOK, NEW n \in Nat
  PROVE  /\ RemoveBeacons(n) \in Seq(Items)
         /\ ToSet(pool_queue) \subseteq ToSet(RemoveBeacons(n))
<1>1. Cardinality(threads) \in Int
  BY FS_Subset, FS_CardinalityType DEF PoolTypeOK
<1> DEFINE asked == IF n < Cardinality(threads) THEN n ELSE Cardinality(threads) - 1
           k == IF asked > 0 THEN asked ELSE 0
           more == [i \in 1 .. k |-> RemoveBeacon]
<1>2. k \in Nat
  BY <1>1
<1>3. RemoveBeacons(n) = pool_queue \o more
  BY DEF RemoveBeacons
<1> HIDE DEF k
<1>4. more \in Seq(Items)
  BY <1>2 DEF Items, Beacons
<1> HIDE DEF more
<1>5. pool_queue \in Seq(Items)
  BY DEF PoolTypeOK, Items
<1>6. pool_queue \o more \in Seq(Items)
  BY <1>4, <1>5
<1>7. /\ \A i \in 1 .. Len(pool_queue) : (pool_queue \o more)[i] = pool_queue[i]
      /\ DOMAIN pool_queue = 1 .. Len(pool_queue)
      /\ \A i \in DOMAIN pool_queue : i \in DOMAIN (pool_queue \o more)
  <2>1. Len(pool_queue \o more) = Len(pool_queue) + Len(more) /\ Len(more) \in Nat
    BY <1>4, <1>5
  <2> QED BY <1>4, <1>5, <1>6, <2>1
<1> QED BY <1>3, <1>6, <1>7 DEF ToSet

\* What automatic resizing may do.
LEMMA ResizedIs ==
  ASSUME PoolTypeOK, NEW r \in Resized
  PROVE  /\ r.new \in SUBSET Workers /\ \A w \in r.new : worker[w] = "none"
         /\ r.queue \in Seq(Items) /\ r.removals \in Nat
         /\ ToSet(pool_queue) \subseteq ToSet(r.queue)
         /\ \/ r.queue = pool_queue /\ r.removals = removals
            \/ r.new = {} /\ r.removals = removals + 1
         /\ being_stopped => r.new = {} /\ r.queue = pool_queue /\ r.removals = removals
<1>1. /\ RemoveBeacons(AddStep) \in Seq(Items)
      /\ ToSet(pool_queue) \subseteq ToSet(RemoveBeacons(AddStep))
  BY RemoveBeaconsType
<1>2. \A n \in Created(AddStep) : n \in SUBSET Workers /\ \A w \in n : worker[w] = "none"
  BY DEF Created
<1>3. pool_queue \in Seq(Items) /\ removals \in Nat /\ removals + 1 \in Nat
  BY DEF PoolTypeOK, Items
<1>4. \/ r = [new |-> {}, queue |-> pool_queue, removals |-> removals]
      \/ /\ ~being_stopped
         /\ \E n \in Created(AddStep) : r = [new |-> n, queue |-> pool_queue, removals |-> removals]
      \/ /\ ~being_stopped
         /\ r = [new |-> {}, queue |-> RemoveBeacons(AddStep), removals |-> removals + 1]
  BY DEF Resized
<1>5. CASE r = [new |-> {}, queue |-> pool_queue, removals |-> removals]
  BY <1>3, <1>5
<1>6. ASSUME ~being_stopped, NEW n \in Created(AddStep),
             r = [new |-> n, queue |-> pool_queue, removals |-> removals]
      PROVE  /\ r.new = n /\ r.queue = pool_queue /\ r.removals = removals
  BY <1>6
<1>7. CASE /\ ~being_stopped
           /\ r = [new |-> {}, queue |-> RemoveBeacons(AddStep), removals |-> removals + 1]
  BY <1>1, <1>3, <1>7
<1>8. CASE /\ ~being_stopped
           /\ \E n \in Created(AddStep) : r = [new |-> n, queue |-> pool_queue, removals |-> removals]
  BY <1>2, <1>3, <1>6, <1>8
<1> QED BY <1>4, <1>5, <1>7, <1>8

\* Threads that begin, wherever the others are.
LEMMA StartedType ==
  ASSUME PoolTypeOK, NEW new \in SUBSET Workers
  PROVE  ThreadsStarted(new) \in [Workers -> WorkerStates]
BY DEF PoolTypeOK, ThreadsStarted, WorkerStates

LEMMA ReapedType ==
  ASSUME PoolTypeOK, NEW set
  PROVE  Reaped(set) \in [Workers -> WorkerStates]
BY DEF PoolTypeOK, Reaped, WorkerStates

\* What a caller finds of a list: in time it is whole.
LEMMA FoundType ==
  ASSUME PoolTypeOK, NEW busy, ListFound(busy)
  PROVE  late' \in BOOLEAN /\ hurt' \in BOOLEAN
BY DEF PoolTypeOK, ListFound

LEMMA FoundInTime ==
  ASSUME PoolTypeOK, NEW busy, ListFound(busy), ~late'
  PROVE  ~late /\ ~hurt' /\ pool_exit \notin busy \cup ListsGone
BY DEF PoolTypeOK, ListFound

\* Every step keeps the variables of the pool in their types.
LEMMA PoolTypeStep ==
  ASSUME PoolTypeInv, PoolNext
  PROVE  PoolTypeOK'
<1> USE DEF PoolTypeOK, PoolTypeInv, WorkerAt, Goto, AfterEvents, eventVars, settings, Idle,
            Items, Beacons
<1>1. ASSUME NEW t \in Tasks, CheckTask(t)
      PROVE  PoolTypeOK'
  BY <1>1 DEF CheckTask
<1>2. ASSUME NEW t \in Tasks, PushTask(t)
      PROVE  PoolTypeOK'
  BY <1>2 DEF PushTask
<1>0. ASSUME NEW e \in Events, CheckEvent(e)
      PROVE  PoolTypeOK'
  BY <1>0 DEF CheckEvent
<1>3. ASSUME NEW e \in Events, NewEvent(e)
      PROVE  PoolTypeOK'
  <2>1. event_refs' \in [Events -> Int] /\ installed' \in Seq(Events)
    BY <1>3 DEF NewEvent
  <2>2. late' \in BOOLEAN /\ hurt' \in BOOLEAN
    BY <1>3, FoundType DEF NewEvent
  <2> QED BY <1>3, <2>1, <2>2 DEF NewEvent
<1>4. ASSUME NEW e \in Events, RemoveEvent(e)
      PROVE  PoolTypeOK'
  <2>1. installed' \in Seq(Events)
    BY <1>4, RemoveFirstProperties DEF RemoveEvent
  <2>2. walk' \in [iterator : Nat, length : Nat, event : Events \cup {NoWorker}, due : SUBSET Events]
    BY <1>4 DEF RemoveEvent
  <2>3. late' \in BOOLEAN /\ hurt' \in BOOLEAN
    BY <1>4, FoundType DEF RemoveEvent
  <2>4. event_refs' \in [Events -> Int]
    BY <1>4 DEF RemoveEvent
  <2> QED BY <1>4, <2>1, <2>2, <2>3, <2>4 DEF RemoveEvent
<1>5. CASE RemoveThreads
  <2>1. pool_queue' \in Seq(Items)
    BY <1>5, RemoveBeaconsType DEF RemoveThreads
  <2>2. late' \in BOOLEAN /\ hurt' \in BOOLEAN
    BY <1>5, FoundType DEF RemoveThreads
  <2> QED BY <1>5, <2>1, <2>2 DEF RemoveThreads
<1>6. CASE AddByCaller
  <2>1. PICK new \in Created(1) : threads' = threads \cup new /\ worker' = ThreadsStarted(new)
    BY <1>6 DEF AddByCaller
  <2>2. new \in SUBSET Workers
    BY DEF Created
  <2>3. late' \in BOOLEAN /\ hurt' \in BOOLEAN
    BY <1>6, FoundType DEF AddByCaller
  <2> QED BY <1>6, <2>1, <2>2, <2>3, StartedType DEF AddByCaller
<1>7. CASE ResizeByReader
  <2>1. PICK r \in Resized :
          /\ threads' = threads \cup r.new /\ worker' = ThreadsStarted(r.new)
          /\ pool_queue' = r.queue /\ removals' = r.removals
    BY <1>7 DEF ResizeByReader
  <2>2. r.new \in SUBSET Workers /\ r.queue \in Seq(Items) /\ r.removals \in Nat
    BY ResizedIs
  <2> QED BY <1>7, <2>1, <2>2, StartedType DEF ResizeByReader
<1>8. CASE BeingClosed
  BY <1>8 DEF BeingClosed
<1>9. ASSUME NEW w \in Workers, PopTask(w)
      PROVE  PoolTypeOK'
  <2>1. Head(pool_queue) \in Items /\ Tail(pool_queue) \in Seq(Items)
    BY <1>9 DEF PopTask
  <2>2. worker' \in [Workers -> WorkerStates]
    BY <1>9 DEF PopTask, WorkerStates
  <2>3. \/ UNCHANGED <<doing, fate>>
        \/ /\ doing' = [doing EXCEPT ![w] = Head(pool_queue)] /\ Head(pool_queue) \in Tasks
           /\ fate' = [fate EXCEPT ![Head(pool_queue)] = "running"]
    BY <1>9, <2>1 DEF PopTask
  <2>4. doing' \in [Workers -> Tasks \cup {NoWorker}]
    BY <2>3
  <2>5. fate' \in [Tasks -> {"new", "refused", "checked", "queued", "running", "done",
                             "dropped", "destroyed"}]
    BY <2>3
  <2> QED BY <1>9, <2>1, <2>2, <2>4, <2>5 DEF PopTask
<1>10. ASSUME NEW w \in Workers, Timeout(w)
      PROVE  PoolTypeOK'
  BY <1>10 DEF Timeout, WorkerStates
<1>11. ASSUME NEW w \in Workers, ResizeByThread(w)
      PROVE  PoolTypeOK'
  <2>1. PICK r \in Resized :
          /\ threads' = threads \cup r.new
          /\ worker' = [ThreadsStarted(r.new) EXCEPT ![w] = IF worker[w] = "got" THEN "go" ELSE "wait"]
          /\ pool_queue' = r.queue /\ removals' = r.removals
    BY <1>11 DEF ResizeByThread
  <2>2. r.new \in SUBSET Workers /\ r.queue \in Seq(Items) /\ r.removals \in Nat
    BY ResizedIs
  <2>3. worker' \in [Workers -> WorkerStates]
    BY <2>1, <2>2, StartedType DEF WorkerStates
  <2> QED BY <1>11, <2>1, <2>2, <2>3 DEF ResizeByThread
<1>12. ASSUME NEW w \in Workers, StartTask(w)
      PROVE  PoolTypeOK'
  BY <1>12, ZenonT(30) DEF StartTask, WorkerStates
<1>13. ASSUME NEW w \in Workers, EndTask(w)
      PROVE  PoolTypeOK'
  BY <1>13 DEF EndTask, WorkerStates
<1>14. ASSUME NEW w \in Workers, ProcessEvents(w)
      PROVE  PoolTypeOK'
  <2>1. worker' \in [Workers -> WorkerStates] /\ doing' \in [Workers -> Tasks \cup {NoWorker}]
    BY <1>14 DEF ProcessEvents, WorkerStates
  <2>2. walk' \in [iterator : Nat, length : Nat, event : Events \cup {NoWorker}, due : SUBSET Events]
    <3>1. Len(installed) \in Nat /\ Range(installed) \in SUBSET Events
      BY DEF Range
    <3> QED BY <1>14, <3>1 DEF ProcessEvents
  <2> QED BY <1>14, <2>1, <2>2 DEF ProcessEvents
<1>15. ASSUME NEW w \in Workers, WalkEvents(w)
      PROVE  PoolTypeOK'
  <2>1. worker' \in [Workers -> WorkerStates] /\ doing' \in [Workers -> Tasks \cup {NoWorker}]
    BY <1>15, ZenonT(30) DEF WalkEvents, WorkerStates
  <2>2. walk' \in [iterator : Nat, length : Nat, event : Events \cup {NoWorker}, due : SUBSET Events]
    <3>1. CASE walk.iterator >= walk.length \/ walk.iterator >= Len(installed)
      BY <1>15, <3>1 DEF WalkEvents
    <3>2. CASE ~(walk.iterator >= walk.length \/ walk.iterator >= Len(installed))
      <4>1. walk.iterator + 1 \in 1 .. Len(installed)
        BY <3>2
      <4>2. installed[walk.iterator + 1] \in Events
        BY <4>1
      <4>3. \/ walk' = [walk EXCEPT !.event = installed[walk.iterator + 1]]
            \/ walk' = [walk EXCEPT !.iterator = walk.iterator + 1]
        BY <1>15, <3>2 DEF WalkEvents, NextPlace
      <4>4. walk.iterator + 1 \in Nat
        OBVIOUS
      <4>5. CASE walk' = [walk EXCEPT !.event = installed[walk.iterator + 1]]
        BY <4>2, <4>5
      <4>6. CASE walk' = [walk EXCEPT !.iterator = walk.iterator + 1]
        BY <4>4, <4>6
      <4> QED BY <4>3, <4>5, <4>6
    <3> QED BY <3>1, <3>2
  <2>3. event_refs' \in [Events -> Int]
    BY <1>15 DEF WalkEvents
  <2> QED BY <1>15, <2>1, <2>2, <2>3 DEF WalkEvents
<1>16. ASSUME NEW w \in Workers, NEW finished \in BOOLEAN, EndHandler(w, finished)
      PROVE  PoolTypeOK'
  <2>1. worker' \in [Workers -> WorkerStates]
    BY <1>16 DEF EndHandler, WorkerStates
  <2>2. walk' \in [iterator : Nat, length : Nat, event : Events \cup {NoWorker}, due : SUBSET Events]
    <3>1. walk.due \ {walk.event} \in SUBSET Events /\ walk.iterator + 1 \in Nat
      OBVIOUS
    <3>2. PICK place \in Nat :
            walk' = [walk EXCEPT !.event = NoWorker, !.due = walk.due \ {walk.event}, !.iterator = place]
      BY <1>16, <3>1 DEF EndHandler, NextPlace
    <3> QED BY <3>1, <3>2
  <2>3. installed' \in Seq(Events)
    BY <1>16, RemoveFirstProperties DEF EndHandler
  <2>4. event_refs' \in [Events -> Int]
    <3> DEFINE listed == finished /\ \E i \in DOMAIN installed : installed[i] = walk.event
               n == IF listed THEN 2 ELSE 1
    <3>1. event_refs' = [event_refs EXCEPT ![walk.event] = event_refs[walk.event] - n] /\ n \in Int
      BY <1>16 DEF EndHandler
    <3> HIDE DEF n
    <3>2. walk.event \in Events => event_refs[walk.event] - n \in Int
      BY <3>1
    <3> QED BY <3>1, <3>2
  <2> QED BY <1>16, <2>1, <2>2, <2>3, <2>4 DEF EndHandler
<1>17. ASSUME NEW w \in Workers, LeavePool(w)
      PROVE  PoolTypeOK'
  BY <1>17 DEF LeavePool, WorkerStates
<1>18. ASSUME NEW w \in Workers, PushReap(w)
      PROVE  PoolTypeOK'
  BY <1>18 DEF PushReap, WorkerStates
<1>19. ASSUME NEW w \in Workers, TakeStopped(w)
      PROVE  PoolTypeOK'
  BY <1>19 DEF TakeStopped, WorkerStates
<1>20. ASSUME NEW w \in Workers, Join(w)
      PROVE  PoolTypeOK'
  <2>1. stopped # <<>>
    BY <1>20 DEF Join, JoinInv
  <2>2. Tail(stopped) \in Seq(Workers)
    BY <2>1
  <2>3. worker' \in [Workers -> WorkerStates]
    BY <1>20 DEF Join, WorkerStates
  <2> QED BY <1>20, <2>2, <2>3 DEF Join
<1>21. ASSUME NEW w \in Workers, UseFreedPool(w)
      PROVE  PoolTypeOK'
  BY <1>21 DEF UseFreedPool
<1>22. CASE ExitBeacons
  <2>1. pool_queue' \in Seq(Items) /\ beacons' \in Nat
    <3>1. Append(pool_queue, ExitBeacon) \in Seq(Items) /\ beacons + 1 \in Nat
      OBVIOUS
    <3> QED BY <1>22, <3>1 DEF ExitBeacons
  <2>2. pool_exit' \in {"no", "push", "join", "free", "drain", "drained", "done"}
    BY <1>22 DEF ExitBeacons
  <2> QED BY <1>22, <2>1, <2>2 DEF ExitBeacons
<1>23. CASE ExitThreads
  <2>1. worker' \in [Workers -> WorkerStates]
    BY <1>23, ReapedType DEF ExitThreads
  <2> QED BY <1>23, <2>1 DEF ExitThreads
<1>24. CASE ExitFree
  <2>1. worker' \in [Workers -> WorkerStates]
    BY <1>24, ReapedType DEF ExitFree
  <2>2. event_refs' \in [Events -> Int]
    BY <1>24 DEF ExitFree
  <2> QED BY <1>24, <2>1, <2>2 DEF ExitFree
<1>25. CASE ExitDrain
  <2>1. CASE pool_queue = <<>>
    BY <1>25, <2>1 DEF ExitDrain
  <2>2. CASE pool_queue # <<>>
    <3>1. Head(pool_queue) \in Items /\ Tail(pool_queue) \in Seq(Items)
      BY <2>2
    <3>2. fate' \in [Tasks -> {"new", "refused", "checked", "queued", "running", "done",
                               "dropped", "destroyed"}]
      BY <1>25, <2>2, <3>1 DEF ExitDrain
    <3> QED BY <1>25, <2>2, <3>1, <3>2 DEF ExitDrain
  <2> QED BY <2>1, <2>2
<1>26. CASE ExitEnds
  BY <1>26 DEF ExitEnds
<1> HIDE DEF PoolTypeOK, PoolTypeInv, WorkerAt, Goto, AfterEvents, eventVars, settings, Idle,
            Items, Beacons
<1> QED
  BY <1>0, <1>1, <1>2, <1>3, <1>4, <1>5, <1>6, <1>7, <1>8, <1>9,
     <1>10, <1>11, <1>12, <1>13, <1>14, <1>15, <1>16, <1>17, <1>18,
     <1>19, <1>20, <1>21, <1>22, <1>23, <1>24, <1>25, <1>26
  DEF PoolNext, PoolThread, PoolExit

\* Nobody joins while another does, and the list is only emptied under a joiner by
\* the exit, which is recorded.
LEMMA JoinStep ==
  ASSUME PoolTypeInv, PoolNext
  PROVE  JoinInv'
<1> USE DEF PoolTypeOK, PoolTypeInv, JoinInv, WorkerAt, Goto, AfterEvents
<1>1. ASSUME NEW t \in Tasks, CheckTask(t)
      PROVE  JoinInv'
  BY <1>1 DEF CheckTask
<1>2. ASSUME NEW t \in Tasks, PushTask(t)
      PROVE  JoinInv'
  BY <1>2 DEF PushTask
<1>0. ASSUME NEW e \in Events, CheckEvent(e)
      PROVE  JoinInv'
  BY <1>0 DEF CheckEvent
<1>3. ASSUME NEW e \in Events, NewEvent(e)
      PROVE  JoinInv'
  BY <1>3 DEF NewEvent
<1>4. ASSUME NEW e \in Events, RemoveEvent(e)
      PROVE  JoinInv'
  BY <1>4 DEF RemoveEvent
<1>5. CASE RemoveThreads
  BY <1>5 DEF RemoveThreads
<1>6. CASE AddByCaller
  BY <1>6 DEF AddByCaller, Created, ThreadsStarted
<1>7. CASE ResizeByReader
  <2>1. PICK r \in Resized : worker' = ThreadsStarted(r.new)
    BY <1>7 DEF ResizeByReader
  <2> QED BY <1>7, <2>1 DEF ResizeByReader, ThreadsStarted
<1>8. CASE BeingClosed
  BY <1>8 DEF BeingClosed
<1>9. ASSUME NEW w \in Workers, PopTask(w)
      PROVE  JoinInv'
  <2>1. /\ \A v \in Workers : v # w => worker'[v] = worker[v]
        /\ worker'[w] \in {"leave", "reap", "ended", "got"}
    BY <1>9 DEF PopTask
  <2> QED BY <1>9, <2>1 DEF PopTask
<1>10. ASSUME NEW w \in Workers, Timeout(w)
      PROVE  JoinInv'
  BY <1>10 DEF Timeout
<1>11. ASSUME NEW w \in Workers, ResizeByThread(w)
      PROVE  JoinInv'
  <2>1. PICK r \in Resized :
          worker' = [ThreadsStarted(r.new) EXCEPT ![w] = IF worker[w] = "got" THEN "go" ELSE "wait"]
    BY <1>11 DEF ResizeByThread
  <2> QED BY <1>11, <2>1 DEF ResizeByThread, ThreadsStarted
<1>12. ASSUME NEW w \in Workers, StartTask(w)
      PROVE  JoinInv'
  BY <1>12 DEF StartTask
<1>13. ASSUME NEW w \in Workers, EndTask(w)
      PROVE  JoinInv'
  BY <1>13 DEF EndTask
<1>14. ASSUME NEW w \in Workers, ProcessEvents(w)
      PROVE  JoinInv'
  BY <1>14 DEF ProcessEvents
<1>15. ASSUME NEW w \in Workers, WalkEvents(w)
      PROVE  JoinInv'
  <2>1. /\ \A v \in Workers : v # w => worker'[v] = worker[v]
        /\ worker'[w] \in {"wait", "resize", "handler", "walk"}
    BY <1>15 DEF WalkEvents
  <2> QED BY <1>15, <2>1 DEF WalkEvents
<1>16. ASSUME NEW w \in Workers, NEW finished \in BOOLEAN, EndHandler(w, finished)
      PROVE  JoinInv'
  BY <1>16 DEF EndHandler
<1>17. ASSUME NEW w \in Workers, LeavePool(w)
      PROVE  JoinInv'
  BY <1>17 DEF LeavePool
<1>18. ASSUME NEW w \in Workers, PushReap(w)
      PROVE  JoinInv'
  BY <1>18 DEF PushReap
<1>19. ASSUME NEW w \in Workers, TakeStopped(w)
      PROVE  JoinInv'
  BY <1>19 DEF TakeStopped
<1>20. ASSUME NEW w \in Workers, Join(w)
      PROVE  JoinInv'
  BY <1>20, SMTT(30) DEF Join
<1>21. ASSUME NEW w \in Workers, UseFreedPool(w)
      PROVE  JoinInv'
  BY <1>21 DEF UseFreedPool
<1>22. CASE ExitBeacons
  BY <1>22 DEF ExitBeacons
<1>23. CASE ExitThreads
  BY <1>23 DEF ExitThreads, Reaped
<1>24. CASE ExitFree
  BY <1>24 DEF ExitFree, Reaped
<1>25. CASE ExitDrain
  BY <1>25 DEF ExitDrain
<1>26. CASE ExitEnds
  BY <1>26 DEF ExitEnds
<1> HIDE DEF PoolTypeOK, PoolTypeInv, JoinInv, WorkerAt, Goto, AfterEvents
<1> QED
  BY <1>0, <1>1, <1>2, <1>3, <1>4, <1>5, <1>6, <1>7, <1>8, <1>9,
     <1>10, <1>11, <1>12, <1>13, <1>14, <1>15, <1>16, <1>17, <1>18,
     <1>19, <1>20, <1>21, <1>22, <1>23, <1>24, <1>25, <1>26
  DEF PoolNext, PoolThread, PoolExit

LEMMA PoolTypeKept ==
  PoolInit /\ [][PoolNext]_poolVars => []PoolTypeInv
<1>1. PoolInit => PoolTypeInv
  <2> SUFFICES ASSUME PoolInit PROVE PoolTypeInv
    OBVIOUS
  <2>1. /\ worker \in [Workers -> WorkerStates] /\ doing \in [Workers -> Tasks \cup {NoWorker}]
        /\ \A w \in Workers : worker[w] # "joining"
    BY DEF PoolInit, WorkerStates
  <2>2. pool_queue \in Seq(Tasks \cup Beacons) /\ stopped \in Seq(Workers) /\ installed \in Seq(Events)
    BY DEF PoolInit
  <2>3. walk \in [iterator : Nat, length : Nat, event : Events \cup {NoWorker}, due : SUBSET Events]
    BY DEF PoolInit, Idle
  <2>4. /\ fate \in [Tasks -> {"new", "refused", "checked", "queued", "running", "done",
                               "dropped", "destroyed"}]
        /\ event_refs \in [Events -> Int]
    BY DEF PoolInit
  <2> QED BY <2>1, <2>2, <2>3, <2>4 DEF PoolInit, PoolTypeInv, PoolTypeOK, JoinInv
<1>2. PoolTypeInv /\ [PoolNext]_poolVars => PoolTypeInv'
  <2>1. PoolTypeInv /\ UNCHANGED poolVars => PoolTypeInv'
    BY DEF poolVars, PoolTypeInv, PoolTypeOK, JoinInv
  <2> QED BY <2>1, PoolTypeStep, JoinStep DEF PoolTypeInv
<1> QED BY <1>1, <1>2, PTL

-----------------------------------------------------------------------------
(* The pool: events.                                                        *)

InHandler == \E w \in Workers : worker[w] = "handler"

\* The references of an event are the list's and the running handler's; one thread
\* processes events, and says so.
EventsInv ==
  /\ \A w \in Workers : worker[w] \in {"walk", "handler"} => processing_events
  /\ \A v, w \in Workers :
        worker[v] \in {"walk", "handler"} /\ worker[w] \in {"walk", "handler"} => v = w
  /\ InHandler => walk.event \in Events
  /\ Distinct(installed)
  /\ \A e \in Events :
        event_refs[e] = (IF e \in ToSet(installed) THEN 1 ELSE 0)
                        + (IF InHandler /\ walk.event = e THEN 1 ELSE 0)

LEMMA EventsKept ==
  ASSUME EventsInv, UNCHANGED <<installed, event_refs, processing_events, walk>>,
         \A w \in Workers : /\ worker'[w] = "walk" <=> worker[w] = "walk"
                            /\ worker'[w] = "handler" <=> worker[w] = "handler"
  PROVE  EventsInv'
BY DEF EventsInv, InHandler

\* One in which threads that are in neither state end.
LEMMA EventsFewer ==
  ASSUME EventsInv, UNCHANGED <<installed, event_refs, processing_events, walk>>,
         \A w \in Workers : worker'[w] # worker[w] => /\ worker'[w] \notin {"walk", "handler"}
                                                      /\ worker[w] \notin {"walk", "handler"}
  PROVE  EventsInv'
BY EventsKept

\* The list and the references change together, and only for the event at hand.
LEMMA EventsStep ==
  ASSUME PoolTypeInv, EventsInv, PoolNext
  PROVE  EventsInv'
<1> USE DEF PoolTypeOK, PoolTypeInv, WorkerAt, Goto, AfterEvents, eventVars
<1>1. ASSUME NEW t \in Tasks, CheckTask(t)
      PROVE  EventsInv'
  BY <1>1, EventsFewer DEF CheckTask
<1>2. ASSUME NEW t \in Tasks, PushTask(t)
      PROVE  EventsInv'
  BY <1>2, EventsFewer DEF PushTask
<1>0. ASSUME NEW e \in Events, CheckEvent(e)
      PROVE  EventsInv'
  BY <1>0, EventsFewer DEF CheckEvent
<1>3. ASSUME NEW e \in Events, NewEvent(e)
      PROVE  EventsInv'
  <2>1. /\ event_refs[e] = 0 /\ event_refs' = [event_refs EXCEPT ![e] = 1]
        /\ installed' = Append(installed, e) /\ UNCHANGED <<worker, processing_events, walk>>
    BY <1>3 DEF NewEvent
  <2>2. e \notin ToSet(installed) /\ ~(InHandler /\ walk.event = e)
    BY <2>1 DEF EventsInv
  <2>3. ToSet(installed') = ToSet(installed) \cup {e} /\ Distinct(installed')
    BY <2>1, <2>2, AppendSet, AppendDistinct DEF EventsInv
  <2>4. InHandler' <=> InHandler
    BY <2>1 DEF InHandler
  <2> QED BY <2>1, <2>2, <2>3, <2>4 DEF EventsInv
<1>4. ASSUME NEW e \in Events, RemoveEvent(e)
      PROVE  EventsInv'
  <2>1. /\ walk'.event = walk.event /\ UNCHANGED <<worker, processing_events>>
        /\ installed' = RemoveFirst(installed, e)
        /\ event_refs' = IF e \in ToSet(installed) THEN [event_refs EXCEPT ![e] = @ - 1]
                         ELSE event_refs
    <3>1. Range(installed) = ToSet(installed)
      BY DEF Range, ToSet
    <3> QED BY <1>4, <3>1 DEF RemoveEvent
  <2>2. ToSet(installed') = ToSet(installed) \ {e} /\ Distinct(installed')
    BY <2>1, RemoveFirstDistinct DEF EventsInv
  <2>3. InHandler' <=> InHandler
    BY <2>1 DEF InHandler
  <2> QED BY <2>1, <2>2, <2>3 DEF EventsInv
<1>5. CASE RemoveThreads
  BY <1>5, EventsFewer DEF RemoveThreads
<1>6. CASE AddByCaller
  BY <1>6, EventsFewer DEF AddByCaller, Created, ThreadsStarted
<1>7. CASE ResizeByReader
  <2>1. PICK r \in Resized : worker' = ThreadsStarted(r.new)
    BY <1>7 DEF ResizeByReader
  <2> QED BY <1>7, <2>1, ResizedIs, EventsFewer DEF ResizeByReader, ThreadsStarted
<1>8. CASE BeingClosed
  BY <1>8, EventsFewer DEF BeingClosed
<1>9. ASSUME NEW w \in Workers, PopTask(w)
      PROVE  EventsInv'
  <2>1. /\ \A v \in Workers : v # w => worker'[v] = worker[v]
        /\ worker'[w] \in {"leave", "reap", "ended", "got"}
    BY <1>9 DEF PopTask
  <2> QED BY <1>9, <2>1, EventsFewer DEF PopTask
<1>10. ASSUME NEW w \in Workers, Timeout(w)
      PROVE  EventsInv'
  BY <1>10, EventsFewer DEF Timeout
<1>11. ASSUME NEW w \in Workers, ResizeByThread(w)
      PROVE  EventsInv'
  <2>1. PICK r \in Resized :
          worker' = [ThreadsStarted(r.new) EXCEPT ![w] = IF worker[w] = "got" THEN "go" ELSE "wait"]
    BY <1>11 DEF ResizeByThread
  <2>2. r.new \in SUBSET Workers /\ \A v \in r.new : worker[v] = "none"
    BY ResizedIs
  <2> QED BY <1>11, <2>1, <2>2, EventsFewer DEF ResizeByThread, ThreadsStarted
<1>12. ASSUME NEW w \in Workers, StartTask(w)
      PROVE  EventsInv'
  BY <1>12, EventsFewer DEF StartTask
<1>13. ASSUME NEW w \in Workers, EndTask(w)
      PROVE  EventsInv'
  BY <1>13, EventsFewer DEF EndTask
<1>14. ASSUME NEW w \in Workers, ProcessEvents(w)
      PROVE  EventsInv'
  <2>1. CASE MayProcess
    <3>1. /\ \A v \in Workers : worker[v] \notin {"walk", "handler"}
          /\ \A v \in Workers : worker'[v] # "handler"
          /\ \A v \in Workers : worker'[v] = "walk" => v = w
      BY <1>14, <2>1 DEF ProcessEvents, MayProcess, EventsInv
    <3>2. processing_events' = TRUE /\ UNCHANGED <<installed, event_refs>>
      BY <1>14, <2>1 DEF ProcessEvents
    <3>3. ~InHandler /\ ~InHandler'
      BY <3>1 DEF InHandler
    <3> QED BY <3>1, <3>2, <3>3 DEF EventsInv
  <2>2. CASE ~MayProcess
    <3>1. /\ \A v \in Workers : v # w => worker'[v] = worker[v]
          /\ worker'[w] \in {"wait", "resize"}
      BY <1>14, <2>2 DEF ProcessEvents
    <3> QED BY <1>14, <2>2, <3>1, EventsFewer DEF ProcessEvents
  <2> QED BY <2>1, <2>2
<1>15. ASSUME NEW w \in Workers, WalkEvents(w)
      PROVE  EventsInv'
  <2>1. /\ \A v \in Workers : v # w => worker'[v] = worker[v] /\ worker[v] \notin {"walk", "handler"}
        /\ worker[w] = "walk" /\ processing_events /\ ~InHandler /\ installed' = installed
    BY <1>15 DEF WalkEvents, EventsInv, InHandler
  <2>2. CASE walk.iterator >= walk.length \/ walk.iterator >= Len(installed)
    <3>1. worker'[w] \in {"wait", "resize"} /\ event_refs' = event_refs
      BY <1>15, <2>2 DEF WalkEvents
    <3>2. ~InHandler'
      BY <2>1, <3>1 DEF InHandler
    <3> QED BY <2>1, <3>1, <3>2 DEF EventsInv
  <2>3. CASE ~(walk.iterator >= walk.length \/ walk.iterator >= Len(installed))
    <3> DEFINE e == installed[walk.iterator + 1]
    <3>1. e \in Events
      <4>1. walk.iterator + 1 \in 1 .. Len(installed)
        BY <2>3
      <4> QED BY <4>1
    <3>2. processing_events' = processing_events
      BY <1>15, <2>3 DEF WalkEvents
    <3>3. CASE /\ worker' = [worker EXCEPT ![w] = "handler"] /\ walk' = [walk EXCEPT !.event = e]
               /\ event_refs' = [event_refs EXCEPT ![e] = @ + 1]
      <4> HIDE DEF e
      <4>1. InHandler' /\ walk'.event = e
        BY <3>3 DEF InHandler
      <4> QED BY <2>1, <3>1, <3>2, <3>3, <4>1, SMTT(30) DEF EventsInv
    <3>4. CASE UNCHANGED <<worker, event_refs>>
      <4>1. ~InHandler'
        BY <2>1, <3>4 DEF InHandler
      <4> QED BY <2>1, <3>2, <3>4, <4>1 DEF EventsInv
    <3> QED BY <1>15, <2>3, <3>3, <3>4 DEF WalkEvents
  <2> QED BY <2>2, <2>3
<1>16. ASSUME NEW w \in Workers, NEW finished \in BOOLEAN, EndHandler(w, finished)
      PROVE  EventsInv'
  <2> DEFINE e == walk.event
             listed == finished /\ \E i \in DOMAIN installed : installed[i] = e
  <2>1. /\ worker' = [worker EXCEPT ![w] = "walk"] /\ worker[w] = "handler"
        /\ installed' = IF finished THEN RemoveFirst(installed, e) ELSE installed
        /\ event_refs' = [event_refs EXCEPT ![e] = @ - (IF listed THEN 2 ELSE 1)]
        /\ processing_events' = processing_events
    BY <1>16 DEF EndHandler
  <2>2. /\ InHandler /\ ~InHandler' /\ e \in Events
        /\ \A v \in Workers : worker'[v] = "walk" <=> v = w
    BY <2>1 DEF EventsInv, InHandler
  <2>3. listed <=> finished /\ e \in ToSet(installed)
    BY DEF ToSet
  <2>4. /\ Distinct(installed')
        /\ ToSet(installed') = IF finished THEN ToSet(installed) \ {e} ELSE ToSet(installed)
    BY <2>1, RemoveFirstDistinct DEF EventsInv
  <2>5. ASSUME NEW d \in Events
        PROVE  event_refs'[d] = IF d \in ToSet(installed') THEN 1 ELSE 0
    <3>1. event_refs[d] = (IF d \in ToSet(installed) THEN 1 ELSE 0) + (IF e = d THEN 1 ELSE 0)
      BY <2>2 DEF EventsInv
    <3>2. event_refs'[d] = IF d = e THEN event_refs[e] - (IF listed THEN 2 ELSE 1) ELSE event_refs[d]
      BY <2>1, <2>2
    <3> HIDE DEF e, listed
    <3> QED BY <2>3, <2>4, <3>1, <3>2
  <2>6. \A v \in Workers : worker'[v] \in {"walk", "handler"} => v = w
    BY <2>2 DEF InHandler
  <2>7. processing_events'
    BY <2>1 DEF EventsInv
  <2> QED BY <2>2, <2>4, <2>5, <2>6, <2>7 DEF EventsInv
<1>17. ASSUME NEW w \in Workers, LeavePool(w)
      PROVE  EventsInv'
  BY <1>17, EventsFewer DEF LeavePool
<1>18. ASSUME NEW w \in Workers, PushReap(w)
      PROVE  EventsInv'
  BY <1>18, EventsFewer DEF PushReap
<1>19. ASSUME NEW w \in Workers, TakeStopped(w)
      PROVE  EventsInv'
  BY <1>19, EventsFewer DEF TakeStopped
<1>20. ASSUME NEW w \in Workers, Join(w)
      PROVE  EventsInv'
  BY <1>20, EventsFewer DEF Join
<1>21. ASSUME NEW w \in Workers, UseFreedPool(w)
      PROVE  EventsInv'
  BY <1>21, EventsFewer DEF UseFreedPool
<1>22. CASE ExitBeacons
  BY <1>22, EventsFewer DEF ExitBeacons
<1>23. CASE ExitThreads
  BY <1>23, EventsFewer DEF ExitThreads, ThreadsEnded, Reaped
<1>24. CASE ExitFree
  <2>1. /\ \A v \in Workers : worker'[v] # worker[v] => worker[v] = "ended" /\ worker'[v] = "none"
        /\ installed' = <<>> /\ UNCHANGED <<walk, processing_events>>
        /\ event_refs' = [d \in Events |-> IF d \in Range(installed) THEN event_refs[d] - 1
                                           ELSE event_refs[d]]
    BY <1>24 DEF ExitFree, Reaped
  <2>2. Range(installed) = ToSet(installed) /\ ToSet(<<>>) = {} /\ Distinct(<<>>)
    BY DEF Range, ToSet, Distinct
  <2>3. InHandler' <=> InHandler
    BY <2>1 DEF InHandler
  <2> QED BY <2>1, <2>2, <2>3 DEF EventsInv
<1>25. CASE ExitDrain
  BY <1>25, EventsFewer DEF ExitDrain
<1>26. CASE ExitEnds
  BY <1>26, EventsFewer DEF ExitEnds
<1> HIDE DEF PoolTypeOK, PoolTypeInv, WorkerAt, Goto, AfterEvents, eventVars
<1> QED
  BY <1>0, <1>1, <1>2, <1>3, <1>4, <1>5, <1>6, <1>7, <1>8, <1>9,
     <1>10, <1>11, <1>12, <1>13, <1>14, <1>15, <1>16, <1>17, <1>18,
     <1>19, <1>20, <1>21, <1>22, <1>23, <1>24, <1>25, <1>26
  DEF PoolNext, PoolThread, PoolExit

LEMMA EventsSafeKept ==
  PoolInit /\ [][PoolNext]_poolVars => []EventsSafe
<1>1. PoolInit => EventsInv
  <2> SUFFICES ASSUME PoolInit PROVE EventsInv
    OBVIOUS
  <2>1. \A w \in Workers : worker[w] \notin {"walk", "handler"}
    BY DEF PoolInit
  <2>2. ~InHandler /\ ToSet(installed) = {} /\ Distinct(installed)
    BY <2>1 DEF PoolInit, InHandler, ToSet, Distinct
  <2> QED BY <2>1, <2>2 DEF EventsInv, PoolInit
<1>2. PoolTypeInv /\ EventsInv /\ [PoolNext]_poolVars => EventsInv'
  <2>1. EventsInv /\ UNCHANGED poolVars => EventsInv'
    BY EventsKept DEF poolVars
  <2> QED BY <2>1, EventsStep
<1>3. EventsInv => EventsSafe
  BY DEF EventsInv, EventsSafe, InHandler
<1> QED BY <1>1, <1>2, <1>3, PoolTypeKept, PTL

-----------------------------------------------------------------------------
(* The pool: its exit.                                                      *)

\* A task that is queued is in the queue, one that runs has its thread.
TaskInv ==
  /\ \A t \in Tasks : fate[t] = "queued" => t \in ToSet(pool_queue)
  /\ \A t \in Tasks : fate[t] = "running" =>
        \E w \in Workers : doing[w] = t /\ worker[w] \in {"got", "go", "run"}

\* What a push adds to the queue.
LEMMA PushSet ==
  ASSUME PoolTypeOK, NEW x \in Items
  PROVE  ToSet(Append(pool_queue, x)) = ToSet(pool_queue) \cup {x}
<1>1. pool_queue \in Seq(Items)
  BY DEF PoolTypeOK, Items
<1> QED BY <1>1, AppendSet

\* A step that moves threads from and to other states, and loses no task.
LEMMA TasksStay ==
  ASSUME TaskInv, ToSet(pool_queue) \subseteq ToSet(pool_queue)',
         \A t \in Tasks : fate'[t] \in {"queued", "running"} => fate'[t] = fate[t],
         \A w \in Workers :
            worker[w] \in {"got", "go", "run"} /\ doing[w] \in Tasks /\ fate'[doing[w]] = "running"
            => worker'[w] \in {"got", "go", "run"} /\ doing'[w] = doing[w]
  PROVE  TaskInv'
<1>1. ASSUME NEW t \in Tasks, fate'[t] = "running"
      PROVE  \E w \in Workers : doing'[w] = t /\ worker'[w] \in {"got", "go", "run"}
  <2>1. PICK w \in Workers : doing[w] = t /\ worker[w] \in {"got", "go", "run"}
    BY <1>1 DEF TaskInv
  <2> QED BY <1>1, <2>1
<1> QED BY <1>1 DEF TaskInv

LEMMA TaskStep ==
  ASSUME PoolTypeInv, TaskInv, PoolNext
  PROVE  TaskInv'
<1> USE DEF PoolTypeOK, PoolTypeInv, WorkerAt, Goto, AfterEvents
<1>1. ASSUME NEW t \in Tasks, CheckTask(t)
      PROVE  TaskInv'
  BY <1>1, TasksStay DEF CheckTask
<1>2. ASSUME NEW t \in Tasks, PushTask(t)
      PROVE  TaskInv'
  <2>1. fate' = [fate EXCEPT ![t] = "queued"] /\ UNCHANGED <<worker, doing>>
    BY <1>2 DEF PushTask
  <2>2. ToSet(pool_queue') = ToSet(pool_queue) \cup {t}
    BY <1>2, PushSet DEF PushTask, Items
  <2> QED BY <2>1, <2>2 DEF TaskInv
<1>0. ASSUME NEW e \in Events, CheckEvent(e)
      PROVE  TaskInv'
  BY <1>0, TasksStay DEF CheckEvent
<1>3. ASSUME NEW e \in Events, NewEvent(e)
      PROVE  TaskInv'
  BY <1>3, TasksStay DEF NewEvent
<1>4. ASSUME NEW e \in Events, RemoveEvent(e)
      PROVE  TaskInv'
  BY <1>4, TasksStay DEF RemoveEvent
<1>5. CASE RemoveThreads
  <2>1. ToSet(pool_queue) \subseteq ToSet(pool_queue')
    BY <1>5, RemoveBeaconsType DEF RemoveThreads
  <2> QED BY <1>5, <2>1, TasksStay DEF RemoveThreads
<1>6. CASE AddByCaller
  BY <1>6, TasksStay DEF AddByCaller, Created, ThreadsStarted
<1>7. CASE ResizeByReader
  <2>1. PICK r \in Resized : worker' = ThreadsStarted(r.new) /\ pool_queue' = r.queue
    BY <1>7 DEF ResizeByReader
  <2>2. /\ ToSet(pool_queue) \subseteq ToSet(pool_queue')
        /\ \A v \in r.new : worker[v] = "none"
    BY <2>1, ResizedIs
  <2>3. \A v \in Workers : worker'[v] = worker[v] \/ worker[v] = "none"
    BY <2>1, <2>2 DEF ThreadsStarted
  <2> QED BY <1>7, <2>2, <2>3, TasksStay DEF ResizeByReader
<1>8. CASE BeingClosed
  BY <1>8, TasksStay DEF BeingClosed
<1>9. ASSUME NEW w \in Workers, PopTask(w)
      PROVE  TaskInv'
  <2> DEFINE item == Head(pool_queue)
  <2>1. /\ pool_queue # <<>> /\ pool_queue' = Tail(pool_queue) /\ worker[w] = "wait"
        /\ item \in Tasks \cup Beacons
        /\ \A v \in Workers : v # w => worker'[v] = worker[v]
    BY <1>9 DEF PopTask
  <2>2. \A x \in ToSet(pool_queue) : x # item => x \in ToSet(pool_queue')
    BY <2>1, TailKeeps
  <2>3. CASE item \in Beacons
    <3>1. UNCHANGED <<doing, fate>>
      BY <1>9, <2>3 DEF PopTask
    <3>2. item \notin Tasks
      BY <2>3
    <3> HIDE DEF item
    <3>3. \A t \in Tasks : fate'[t] = "queued" => t \in ToSet(pool_queue')
      BY <2>2, <3>1, <3>2 DEF TaskInv
    <3>4. ASSUME NEW t \in Tasks, fate'[t] = "running"
          PROVE  \E v \in Workers : doing'[v] = t /\ worker'[v] \in {"got", "go", "run"}
      <4>1. PICK v \in Workers : doing[v] = t /\ worker[v] \in {"got", "go", "run"}
        BY <3>1, <3>4 DEF TaskInv
      <4> QED BY <2>1, <3>1, <4>1
    <3> QED BY <3>3, <3>4 DEF TaskInv
  <2>4. CASE item \notin Beacons
    <3>1. /\ item \in Tasks /\ worker'[w] = "got"
          /\ doing' = [doing EXCEPT ![w] = item] /\ fate' = [fate EXCEPT ![item] = "running"]
      BY <1>9, <2>1, <2>4 DEF PopTask, Beacons
    <3> HIDE DEF item
    <3>2. \A t \in Tasks : fate'[t] = "queued" => t \in ToSet(pool_queue')
      BY <2>2, <3>1 DEF TaskInv
    <3>3. ASSUME NEW t \in Tasks, fate'[t] = "running"
          PROVE  \E v \in Workers : doing'[v] = t /\ worker'[v] \in {"got", "go", "run"}
      <4>1. CASE t = item
        BY <3>1, <4>1
      <4>2. CASE t # item
        <5>1. fate[t] = "running"
          BY <3>1, <3>3, <4>2
        <5>2. PICK v \in Workers : doing[v] = t /\ worker[v] \in {"got", "go", "run"}
          BY <5>1 DEF TaskInv
        <5> QED BY <1>9, <2>1, <3>1, <5>2 DEF PopTask
      <4> QED BY <4>1, <4>2
    <3> QED BY <3>2, <3>3 DEF TaskInv
  <2> QED BY <2>3, <2>4
<1>10. ASSUME NEW w \in Workers, Timeout(w)
      PROVE  TaskInv'
  BY <1>10, TasksStay DEF Timeout
<1>11. ASSUME NEW w \in Workers, ResizeByThread(w)
      PROVE  TaskInv'
  <2>1. PICK r \in Resized :
          /\ worker' = [ThreadsStarted(r.new) EXCEPT ![w] = IF worker[w] = "got" THEN "go" ELSE "wait"]
          /\ pool_queue' = r.queue
    BY <1>11 DEF ResizeByThread
  <2>2. /\ ToSet(pool_queue) \subseteq ToSet(pool_queue')
        /\ \A v \in r.new : worker[v] = "none"
    BY <2>1, ResizedIs
  <2>3. /\ worker[w] \in {"resize", "got"}
        /\ \A v \in Workers : v # w => worker'[v] = worker[v] \/ worker[v] = "none"
        /\ worker'[w] = IF worker[w] = "got" THEN "go" ELSE "wait"
    BY <1>11, <2>1, <2>2 DEF ThreadsStarted, ResizeByThread
  <2> QED BY <1>11, <2>2, <2>3, TasksStay DEF ResizeByThread
<1>12. ASSUME NEW w \in Workers, StartTask(w)
      PROVE  TaskInv'
  <2>1. /\ worker[w] \in {"got", "go"} /\ UNCHANGED <<doing, pool_queue>>
        /\ \A v \in Workers : v # w => worker'[v] = worker[v]
        /\ \/ worker'[w] = "run" /\ fate' = fate
           \/ fate' = [fate EXCEPT ![doing[w]] = "dropped"]
    BY <1>12 DEF StartTask
  <2>2. \A t \in Tasks : fate'[t] \in {"queued", "running"} => fate'[t] = fate[t]
    BY <2>1
  <2>3. doing[w] \in Tasks /\ fate'[doing[w]] = "running" => worker'[w] = "run"
    BY <2>1
  <2> HIDE DEF PoolTypeOK, PoolTypeInv
  <2> QED BY <2>1, <2>2, <2>3, TasksStay
<1>13. ASSUME NEW w \in Workers, EndTask(w)
      PROVE  TaskInv'
  <2>1. /\ worker[w] = "run" /\ UNCHANGED <<doing, pool_queue>>
        /\ \A v \in Workers : v # w => worker'[v] = worker[v]
        /\ fate' = [fate EXCEPT ![doing[w]] = "done"]
    BY <1>13 DEF EndTask
  <2>2. \A t \in Tasks : fate'[t] \in {"queued", "running"} => fate'[t] = fate[t]
    BY <2>1
  <2>3. doing[w] \in Tasks => fate'[doing[w]] # "running"
    BY <2>1
  <2> HIDE DEF PoolTypeOK, PoolTypeInv
  <2> QED BY <2>1, <2>2, <2>3, TasksStay
<1>14. ASSUME NEW w \in Workers, ProcessEvents(w)
      PROVE  TaskInv'
  BY <1>14, TasksStay DEF ProcessEvents
<1>15. ASSUME NEW w \in Workers, WalkEvents(w)
      PROVE  TaskInv'
  <2>1. /\ \A v \in Workers : v # w => worker'[v] = worker[v] /\ doing'[v] = doing[v]
        /\ worker[w] = "walk" /\ UNCHANGED <<fate, pool_queue>>
    BY <1>15 DEF WalkEvents
  <2> QED BY <2>1, TasksStay
<1>16. ASSUME NEW w \in Workers, NEW finished \in BOOLEAN, EndHandler(w, finished)
      PROVE  TaskInv'
  BY <1>16, TasksStay DEF EndHandler
<1>17. ASSUME NEW w \in Workers, LeavePool(w)
      PROVE  TaskInv'
  BY <1>17, TasksStay DEF LeavePool
<1>18. ASSUME NEW w \in Workers, PushReap(w)
      PROVE  TaskInv'
  <2>1. ToSet(pool_queue) \subseteq ToSet(pool_queue')
    BY <1>18, PushSet DEF PushReap, Items, Beacons
  <2> QED BY <1>18, <2>1, TasksStay DEF PushReap
<1>19. ASSUME NEW w \in Workers, TakeStopped(w)
      PROVE  TaskInv'
  BY <1>19, TasksStay DEF TakeStopped
<1>20. ASSUME NEW w \in Workers, Join(w)
      PROVE  TaskInv'
  BY <1>20, TasksStay DEF Join
<1>21. ASSUME NEW w \in Workers, UseFreedPool(w)
      PROVE  TaskInv'
  BY <1>21, TasksStay DEF UseFreedPool
<1>22. CASE ExitBeacons
  <2>1. ToSet(pool_queue) \subseteq ToSet(pool_queue')
    <3>1. ToSet(Append(pool_queue, ExitBeacon)) = ToSet(pool_queue) \cup {ExitBeacon}
      BY PushSet DEF Items, Beacons
    <3> QED BY <1>22, <3>1 DEF ExitBeacons
  <2> QED BY <1>22, <2>1, TasksStay DEF ExitBeacons
<1>23. CASE ExitThreads
  BY <1>23, TasksStay DEF ExitThreads, ThreadsEnded, Reaped
<1>24. CASE ExitFree
  BY <1>24, TasksStay DEF ExitFree, Reaped
<1>25. CASE ExitDrain
  <2>1. CASE pool_queue = <<>>
    BY <1>25, <2>1, TasksStay DEF ExitDrain
  <2>2. CASE pool_queue # <<>>
    <3>1. \A x \in ToSet(pool_queue) : x # Head(pool_queue) => x \in ToSet(pool_queue')
      BY <1>25, <2>2, TailKeeps DEF ExitDrain
    <3>2. Head(pool_queue) \in Tasks \cup Beacons
      BY <2>2
    <3>3. \A t \in Tasks : \/ fate'[t] = "destroyed"
                           \/ fate'[t] = fate[t] /\ t # Head(pool_queue)
      BY <1>25, <2>2, <3>2 DEF ExitDrain
    <3>4. UNCHANGED <<worker, doing>>
      BY <1>25 DEF ExitDrain
    <3> QED BY <3>1, <3>3, <3>4, ZenonT(30) DEF TaskInv
  <2> QED BY <2>1, <2>2
<1>26. CASE ExitEnds
  BY <1>26, TasksStay DEF ExitEnds
<1> HIDE DEF PoolTypeOK, PoolTypeInv, WorkerAt, Goto, AfterEvents
<1> QED
  BY <1>0, <1>1, <1>2, <1>3, <1>4, <1>5, <1>6, <1>7, <1>8, <1>9,
     <1>10, <1>11, <1>12, <1>13, <1>14, <1>15, <1>16, <1>17, <1>18,
     <1>19, <1>20, <1>21, <1>22, <1>23, <1>24, <1>25, <1>26
  DEF PoolNext, PoolThread, PoolExit

\* An exit in which no thread was removed, no call came too late and no thread is detached.
Orderly == removals = 0 /\ ~late /\ ~skip_wait

\* Then the queue has tasks and exit beacons only, the list has every thread that
\* runs, and what the exit has done stays done.
ExitInv ==
  /\ pool_exit # "no" => being_stopped
  /\ Orderly =>
        /\ ~hurt
        /\ ToSet(pool_queue) \subseteq Tasks \cup {ExitBeacon}
        /\ stopped = <<>>
        /\ \A w \in Workers : worker[w] \notin {"leave", "left", "reap", "joining"}
        /\ \A w \in Workers \ threads : worker[w] = "none"
        /\ pool_exit \in {"free", "drain", "drained", "done"} => threads = {}
        /\ pool_exit \in {"drained", "done"} => pool_queue = <<>>

LEMMA ExitKept ==
  ASSUME ExitInv, UNCHANGED <<pool_exit, pool_queue, stopped, threads, hurt>>,
         being_stopped => being_stopped', Orderly' => Orderly,
         \A w \in Workers : worker'[w] # worker[w] =>
             worker[w] # "none" /\ worker'[w] \notin {"leave", "left", "reap", "joining"}
  PROVE  ExitInv'
BY DEF ExitInv

LEMMA ExitStep ==
  ASSUME PoolTypeInv, ExitInv, PoolNext
  PROVE  ExitInv'
<1> USE DEF PoolTypeOK, PoolTypeInv, WorkerAt, Goto, AfterEvents, Orderly, settings
<1>1. ASSUME NEW t \in Tasks, CheckTask(t)
      PROVE  ExitInv'
  BY <1>1, ExitKept DEF CheckTask
<1>2. ASSUME NEW t \in Tasks, PushTask(t)
      PROVE  ExitInv'
  <2>1. ToSet(pool_queue') = ToSet(pool_queue) \cup {t}
    BY <1>2, PushSet DEF PushTask, Items
  <2> QED BY <1>2, <2>1 DEF PushTask, ExitInv
<1>0. ASSUME NEW e \in Events, CheckEvent(e)
      PROVE  ExitInv'
  BY <1>0, ExitKept DEF CheckEvent
<1>3. ASSUME NEW e \in Events, NewEvent(e)
      PROVE  ExitInv'
  BY <1>3, FoundInTime DEF NewEvent, ExitInv
<1>4. ASSUME NEW e \in Events, RemoveEvent(e)
      PROVE  ExitInv'
  BY <1>4, FoundInTime DEF RemoveEvent, ExitInv
<1>5. CASE RemoveThreads
  <2>1. ~Orderly' /\ UNCHANGED <<pool_exit, being_stopped>>
    BY <1>5 DEF RemoveThreads
  <2> QED BY <2>1 DEF ExitInv
<1>6. CASE AddByCaller
  BY <1>6, FoundInTime DEF AddByCaller, ExitInv, Created, ThreadsStarted, ListsGone
<1>7. CASE ResizeByReader
  <2>1. PICK r \in Resized :
          /\ threads' = threads \cup r.new /\ worker' = ThreadsStarted(r.new)
          /\ pool_queue' = r.queue /\ removals' = r.removals
    BY <1>7 DEF ResizeByReader
  <2>2. /\ r.new \in SUBSET Workers /\ \A v \in r.new : worker[v] = "none"
        /\ removals' = 0 => r.queue = pool_queue /\ removals = 0
    BY <2>1, ResizedIs
  <2> QED BY <1>7, <2>1, <2>2 DEF ResizeByReader, ThreadsStarted, ExitInv
<1>8. CASE BeingClosed
  BY <1>8, ExitKept DEF BeingClosed
<1>9. ASSUME NEW w \in Workers, PopTask(w)
      PROVE  ExitInv'
  <2>1. /\ pool_queue # <<>> /\ pool_queue' = Tail(pool_queue)
        /\ UNCHANGED <<threads, stopped, being_stopped, pool_exit, removals, late, hurt, skip_wait>>
        /\ \A v \in Workers : v # w => worker'[v] = worker[v]
    BY <1>9 DEF PopTask
  <2>2. ToSet(pool_queue') \subseteq ToSet(pool_queue) /\ Head(pool_queue) \in ToSet(pool_queue)
    BY <2>1, TailSet
  <2>3. ASSUME Orderly PROVE worker'[w] \in {"ended", "got"}
    <3>1. Head(pool_queue) \notin {RemoveBeacon, ReapBeacon}
      BY <2>2, <2>3 DEF ExitInv, Beacons, ExitBeacon, RemoveBeacon, ReapBeacon
    <3> QED BY <1>9, <3>1 DEF PopTask
  <2>4. w \in threads \/ ~Orderly
    BY <1>9 DEF PopTask, ExitInv
  <2> QED BY <2>1, <2>2, <2>3, <2>4 DEF ExitInv
<1>10. ASSUME NEW w \in Workers, Timeout(w)
      PROVE  ExitInv'
  BY <1>10, ExitKept DEF Timeout
<1>11. ASSUME NEW w \in Workers, ResizeByThread(w)
      PROVE  ExitInv'
  <2>1. PICK r \in Resized :
          /\ threads' = threads \cup r.new
          /\ worker' = [ThreadsStarted(r.new) EXCEPT ![w] = IF worker[w] = "got" THEN "go" ELSE "wait"]
          /\ pool_queue' = r.queue /\ removals' = r.removals
    BY <1>11 DEF ResizeByThread
  <2>2. /\ r.new \in SUBSET Workers /\ \A v \in r.new : worker[v] = "none"
        /\ removals' = 0 => r.queue = pool_queue /\ removals = 0
        /\ being_stopped => r.new = {}
    BY <2>1, ResizedIs
  <2>3. /\ worker[w] \in {"got", "resize"}
        /\ UNCHANGED <<stopped, being_stopped, pool_exit, late, hurt, skip_wait>>
    BY <1>11 DEF ResizeByThread
  <2>4. \A v \in Workers : \/ v = w /\ worker'[v] \in {"go", "wait"}
                           \/ v \in r.new /\ worker'[v] = "wait"
                           \/ worker'[v] = worker[v]
    BY <2>1, <2>2 DEF ThreadsStarted
  <2>5. threads = {} => r.new = {} \/ pool_exit \notin {"free", "drain", "drained", "done"}
    BY <2>2 DEF ExitInv
  <2> QED BY <2>1, <2>2, <2>3, <2>4, <2>5 DEF ExitInv
<1>12. ASSUME NEW w \in Workers, StartTask(w)
      PROVE  ExitInv'
  BY <1>12, ExitKept DEF StartTask
<1>13. ASSUME NEW w \in Workers, EndTask(w)
      PROVE  ExitInv'
  BY <1>13, ExitKept DEF EndTask
<1>14. ASSUME NEW w \in Workers, ProcessEvents(w)
      PROVE  ExitInv'
  BY <1>14, ExitKept DEF ProcessEvents
<1>15. ASSUME NEW w \in Workers, WalkEvents(w)
      PROVE  ExitInv'
  <2>1. /\ \A v \in Workers : v # w => worker'[v] = worker[v]
        /\ worker[w] = "walk" /\ worker'[w] \in {"wait", "resize", "walk", "handler"}
        /\ UNCHANGED <<pool_exit, pool_queue, stopped, threads, hurt, being_stopped, removals,
                       late, skip_wait>>
    BY <1>15 DEF WalkEvents
  <2> QED BY <2>1, ExitKept
<1>16. ASSUME NEW w \in Workers, NEW finished \in BOOLEAN, EndHandler(w, finished)
      PROVE  ExitInv'
  BY <1>16, ExitKept DEF EndHandler
<1>17. ASSUME NEW w \in Workers, LeavePool(w)
      PROVE  ExitInv'
  BY <1>17, ExitKept DEF LeavePool, ExitInv
<1>18. ASSUME NEW w \in Workers, PushReap(w)
      PROVE  ExitInv'
  BY <1>18, ExitKept DEF PushReap, ExitInv
<1>19. ASSUME NEW w \in Workers, TakeStopped(w)
      PROVE  ExitInv'
  BY <1>19, ExitKept DEF TakeStopped, ExitInv
<1>20. ASSUME NEW w \in Workers, Join(w)
      PROVE  ExitInv'
  BY <1>20, ExitKept DEF Join, ExitInv
<1>21. ASSUME NEW w \in Workers, UseFreedPool(w)
      PROVE  ExitInv'
  BY <1>21, ExitKept DEF UseFreedPool, ExitInv, PoolFreed
<1>22. CASE ExitBeacons
  <2>1. ToSet(Append(pool_queue, ExitBeacon)) = ToSet(pool_queue) \cup {ExitBeacon}
    BY PushSet DEF Items, Beacons
  <2> QED BY <1>22, <2>1 DEF ExitBeacons, ExitInv
<1>23. CASE ExitThreads
  BY <1>23, ExitKept DEF ExitThreads, ThreadsEnded, Reaped, ExitInv
<1>24. CASE ExitFree
  <2>1. Range(<<>>) = {}
    BY DEF Range
  <2> QED BY <1>24, <2>1 DEF ExitFree, ExitInv, Reaped
<1>25. CASE ExitDrain
  <2>1. CASE pool_queue = <<>>
    BY <1>25, <2>1 DEF ExitDrain, ExitInv
  <2>2. CASE pool_queue # <<>>
    <3>1. ToSet(Tail(pool_queue)) \subseteq ToSet(pool_queue) /\ Head(pool_queue) \in ToSet(pool_queue)
      BY <2>2, TailSet
    <3>2. Orderly => Head(pool_queue) # ReapBeacon
      BY <3>1 DEF ExitInv, Beacons, ExitBeacon, RemoveBeacon, ReapBeacon
    <3> QED BY <1>25, <2>2, <3>1, <3>2 DEF ExitDrain, ExitInv
  <2> QED BY <2>1, <2>2
<1>26. CASE ExitEnds
  BY <1>26, ExitKept DEF ExitEnds, ExitInv
<1> HIDE DEF PoolTypeOK, PoolTypeInv, WorkerAt, Goto, AfterEvents, Orderly, settings
<1> QED
  BY <1>0, <1>1, <1>2, <1>3, <1>4, <1>5, <1>6, <1>7, <1>8, <1>9,
     <1>10, <1>11, <1>12, <1>13, <1>14, <1>15, <1>16, <1>17, <1>18,
     <1>19, <1>20, <1>21, <1>22, <1>23, <1>24, <1>25, <1>26
  DEF PoolNext, PoolThread, PoolExit

LEMMA ExitIsCleanKept ==
  PoolInit /\ [][PoolNext]_poolVars => []ExitIsClean
<1>1. PoolInit => TaskInv /\ ExitInv
  BY DEF PoolInit, TaskInv, ExitInv, ToSet
<1>2. PoolTypeInv /\ TaskInv /\ ExitInv /\ [PoolNext]_poolVars => TaskInv' /\ ExitInv'
  <2>1. TaskInv /\ UNCHANGED poolVars => TaskInv'
    BY DEF poolVars, TaskInv
  <2>2. ExitInv /\ UNCHANGED poolVars => ExitInv'
    BY DEF poolVars, settings, ExitInv, Orderly
  <2> QED BY <2>1, <2>2, TaskStep, ExitStep
<1>3. PoolTypeInv /\ TaskInv /\ ExitInv => ExitIsClean
  <2> SUFFICES ASSUME TaskInv, ExitInv, Orderly PROVE
               /\ ~hurt
               /\ PoolFreed => /\ \A w \in Workers : worker[w] = "none"
                               /\ \A t \in Tasks : fate[t] \notin {"queued", "running"}
    BY DEF ExitIsClean, Orderly
  <2>1. ToSet(<<>>) = {}
    BY DEF ToSet
  <2> QED BY <2>1 DEF TaskInv, ExitInv, PoolFreed
<1> QED BY <1>1, <1>2, <1>3, PoolTypeKept, PTL
-----------------------------------------------------------------------------
(* The reader: types.                                                       *)

USE ReaderAssumption

\* What the poll reported is dispatched before anything else, what is polled is in
\* the lists, and so is what the build has still to visit.
ListInv ==
  /\ reader # "dispatch" => ready = {}
  /\ reader = "build" => visiting \subseteq conn_list /\ visiting \cap on_reading = {}

\* What the items of the queue are about.
LEMMA ItemKinds ==
  /\ \A c \in Watchable : {QueueItem("connection", c), QueueItem("listener", c)} \subseteq QueueItems
  /\ \A v \in Callers : QueueItem("foreach", v) \in QueueItems
  /\ {QueueItem("changed", "reader"), QueueItem("ready", "reader"), Terminate} \subseteq QueueItems
  /\ \A x \in QueueItems : /\ x.type \in {"connection", "listener"} => x.of \in Watchable
                           /\ x.type = "foreach" => x.of \in Callers
                           /\ x.type = "terminate" => x.of = "reader"
<1>1. /\ \A c \in Watchable : QueueItem("connection", c) \in QueueItems /\ QueueItem("listener", c) \in QueueItems
      /\ \A v \in Callers : QueueItem("foreach", v) \in QueueItems
      /\ QueueItem("changed", "reader") \in QueueItems /\ QueueItem("ready", "reader") \in QueueItems
      /\ Terminate \in QueueItems
  BY DEF QueueItems, Terminate
<1>2. ASSUME NEW x \in QueueItems
      PROVE  /\ x.type \in {"connection", "listener"} => x.of \in Watchable
             /\ x.type = "foreach" => x.of \in Callers
             /\ x.type = "terminate" => x.of = "reader"
  BY DEF QueueItems, QueueItem
<1> QED BY <1>1, <1>2

LEMMA PushType ==
  ASSUME ReaderTypeOK, NEW x \in QueueItems, Push(x)
  PROVE  reader_queue' \in Seq(QueueItems)
BY DEF ReaderTypeOK, Push

LEMMA PopType ==
  ASSUME ReaderTypeOK, reader_queue # <<>>
  PROVE  Head(reader_queue) \in QueueItems /\ Tail(reader_queue) \in Seq(QueueItems)
<1>1. reader_queue \in Seq(QueueItems)
  BY DEF ReaderTypeOK
<1> QED BY <1>1, TailSet

LEMMA RegisterType ==
  ASSUME ReaderTypeOK, NEW item \in QueueItems, Register(item)
  PROVE  conn_list \subseteq conn_list' /\ conn_list' \subseteq Watchable /\ refs' \in [Watchable -> Int]
<1>1. Listed(item) => item.of \in Watchable
  BY ItemKinds DEF Listed
<1>2. conn_list \subseteq conn_list' /\ conn_list' \subseteq Watchable
  BY <1>1 DEF Register, ReaderTypeOK
<1>3. refs' = refs \/ refs' = [refs EXCEPT ![item.of] = @ - 1]
  BY DEF Register, DropRef
<1>4. refs' \in [Watchable -> Int]
  BY <1>3 DEF ReaderTypeOK
<1> QED BY <1>2, <1>4

LEMMA VisitType ==
  ASSUME ReaderTypeOK, NEW v \in Callers, Visit(v)
  PROVE  /\ unwatch' \in [Watchable -> {"no", "plain", "asked", "found", "absent", "data", "flagged", "called"}]
         /\ notify' \in [Callers -> {"no", "waiting", "done"}]
BY DEF ReaderTypeOK, Visit

LEMMA ReaderTypeStep ==
  ASSUME ReaderTypeOK, ListInv, ReaderNext
  PROVE  ReaderTypeOK' /\ ListInv'
<1> USE DEF ReaderTypeOK, ListInv, loopVars, connVars, callVars, DropRef, Ref, Enter, LetGo, StopProcess,
            Unlink, Building
<1>1. ASSUME NEW c \in Watchable, WatchConnection(c)
      PROVE  ReaderTypeOK' /\ ListInv'
  <2>1. reader_queue' \in Seq(QueueItems)
    BY <1>1, ItemKinds, PushType DEF WatchConnection
  <2>2. holder' \in [Watchable -> {"new", "held", "gone"}]
    BY <1>1 DEF WatchConnection
  <2>3. refs' \in [Watchable -> Int]
    BY <1>1 DEF WatchConnection
  <2> QED BY <1>1, <2>1, <2>2, <2>3 DEF WatchConnection
<1>2. ASSUME NEW c \in Watchable, Shutdown(c)
      PROVE  ReaderTypeOK' /\ ListInv'
  BY <1>2 DEF Shutdown
<1>3. ASSUME NEW c \in Watchable, Release(c)
      PROVE  ReaderTypeOK' /\ ListInv'
  BY <1>3 DEF Release
<1>4. ASSUME NEW c \in Watchable, UnwatchPlain(c)
      PROVE  ReaderTypeOK' /\ ListInv'
  BY <1>4 DEF UnwatchPlain
<1>5. ASSUME NEW c \in Watchable, Unwatch(c)
      PROVE  ReaderTypeOK' /\ ListInv'
  <2>1. reader_queue' \in Seq(QueueItems)
    BY <1>5, ItemKinds, PushType DEF Unwatch, Ask, Callers
  <2> QED BY <1>5, <2>1 DEF Unwatch, Ask
<1>6. ASSUME NEW c \in Watchable, CallAbsent(c)
      PROVE  ReaderTypeOK' /\ ListInv'
  BY <1>6 DEF CallAbsent
<1>7. ASSUME NEW c \in Watchable, StoreHandler(c)
      PROVE  ReaderTypeOK' /\ ListInv'
  BY <1>7 DEF StoreHandler
<1>8. ASSUME NEW c \in Watchable, SetUnwatch(c)
      PROVE  ReaderTypeOK' /\ ListInv'
  BY <1>8 DEF SetUnwatch
<1>9. ASSUME NEW v \in Visitors, Foreach(v)
      PROVE  ReaderTypeOK' /\ ListInv'
  <2>1. reader_queue' \in Seq(QueueItems)
    BY <1>9, ItemKinds, PushType DEF Foreach, Ask, Callers
  <2> QED BY <1>9, <2>1 DEF Foreach, Ask
<1>10. CASE IoChange
  <2>1. reader_queue' \in Seq(QueueItems)
    BY <1>10, ItemKinds, PushType DEF IoChange
  <2> QED BY <1>10, <2>1 DEF IoChange
<1>11. CASE ReaderStop
  <2>1. reader_queue' \in Seq(QueueItems)
    BY <1>11, ItemKinds, PushType DEF ReaderStop
  <2> QED BY <1>11, <2>1 DEF ReaderStop
<1>12. CASE ReadTerminate
  <2>1. reader_queue' \in Seq(QueueItems)
    BY <1>12, PopType DEF ReadTerminate, TakeItem
  <2> QED BY <1>12, <2>1 DEF ReadTerminate, TakeItem
<1>13. CASE ReadChanged
  <2>1. reader_queue' \in Seq(QueueItems)
    BY <1>13, PopType DEF ReadChanged, TakeItem
  <2> QED BY <1>13, <2>1 DEF ReadChanged, TakeItem
<1>14. CASE ReadItem
  <2> DEFINE item == Head(reader_queue)
  <2>1. item \in QueueItems /\ reader_queue' \in Seq(QueueItems)
    BY <1>14, PopType DEF ReadItem, TakeItem
  <2>2. conn_list \subseteq conn_list' /\ conn_list' \subseteq Watchable /\ refs' \in [Watchable -> Int]
    BY <1>14, <2>1, RegisterType DEF ReadItem
  <2>3. /\ unwatch' \in [Watchable -> {"no", "plain", "asked", "found", "absent", "data", "flagged", "called"}]
        /\ notify' \in [Callers -> {"no", "waiting", "done"}]
    BY <1>14, <2>1, ItemKinds, VisitType DEF ReadItem
  <2>4. reader \in {"first", "pending"} /\ reader' \in {"first", "pending", "check"}
    BY <1>14 DEF ReadItem, TakeItem
  <2>5. pending' \in Nat
    BY <1>14 DEF ReadItem, TakeItem
  <2> HIDE DEF item
  <2> QED BY <1>14, <2>1, <2>2, <2>3, <2>4, <2>5 DEF ReadItem, TakeItem
<1>15. CASE ReadReady
  <2> DEFINE item == Head(reader_queue)
  <2>1. item \in QueueItems /\ reader_queue' \in Seq(QueueItems)
    BY <1>15, PopType DEF ReadReady
  <2>2. conn_list \subseteq conn_list' /\ conn_list' \subseteq Watchable /\ refs' \in [Watchable -> Int]
    BY <1>15, <2>1, RegisterType DEF ReadReady
  <2>3. swallowed' \subseteq Callers \cup {"reader"}
    <3>1. item.type = "foreach" => item.of \in Callers
      BY <2>1, ItemKinds
    <3>2. item.type = "terminate" => item.of = "reader"
      BY <2>1, ItemKinds
    <3>3. swallowed' = swallowed \/ (item.type \in {"foreach", "terminate"} /\ swallowed' = swallowed \cup {item.of})
      BY <1>15 DEF ReadReady
    <3> HIDE DEF item
    <3> QED BY <3>1, <3>2, <3>3
  <2> HIDE DEF item
  <2> QED BY <1>15, <2>1, <2>2, <2>3 DEF ReadReady
<1>16. CASE ReadPendingEnds
  BY <1>16 DEF ReadPendingEnds
<1>17. CASE Check
  BY <1>17 DEF Check
<1>18. CASE Poll
  <2>1. Len(reader_queue) \in Nat
    OBVIOUS
  <2> QED BY <1>18, <2>1 DEF Poll
<1>19. CASE PollFails
  BY <1>19 DEF PollFails
<1>20. CASE DispatchEnds
  <2>1. Len(reader_queue) \in Nat
    OBVIOUS
  <2> QED BY <1>20, <2>1 DEF DispatchEnds
<1>21. ASSUME NEW c \in Watchable, BuildClosed(c)
      PROVE  ReaderTypeOK' /\ ListInv'
  BY <1>21 DEF BuildClosed
<1>22. ASSUME NEW c \in Watchable, BuildUnwatched(c)
      PROVE  ReaderTypeOK' /\ ListInv'
  BY <1>22 DEF BuildUnwatched
<1>23. ASSUME NEW c \in Watchable, BuildAdd(c)
      PROVE  ReaderTypeOK' /\ ListInv'
  BY <1>23 DEF BuildAdd
<1>24. ASSUME NEW c \in Watchable, BuildAddFails(c)
      PROVE  ReaderTypeOK' /\ ListInv'
  BY <1>24 DEF BuildAddFails
<1>25. ASSUME NEW c \in Watchable, Dispatch(c)
      PROVE  ReaderTypeOK' /\ ListInv'
  BY <1>25 DEF Dispatch
<1> HIDE DEF ReaderTypeOK, ListInv, loopVars, connVars, callVars, DropRef, Ref, Enter, LetGo, StopProcess,
            Unlink, Building
<1> QED
  BY <1>1, <1>2, <1>3, <1>4, <1>5, <1>6, <1>7, <1>8, <1>9,
     <1>10, <1>11, <1>12, <1>13, <1>14, <1>15, <1>16, <1>17, <1>18,
     <1>19, <1>20, <1>21, <1>22, <1>23, <1>24, <1>25
  DEF ReaderNext, ReaderStep, UnwatchTask, Build

LEMMA ReaderTypeKept ==
  ReaderInit /\ [][ReaderNext]_readerVars => [](ReaderTypeOK /\ ListInv)
<1>1. ReaderInit => ReaderTypeOK /\ ListInv
  BY DEF ReaderInit, ReaderTypeOK, ListInv
<1>2. ReaderTypeOK /\ ListInv /\ [ReaderNext]_readerVars => (ReaderTypeOK /\ ListInv)'
  <2>1. ReaderTypeOK /\ ListInv /\ UNCHANGED readerVars => (ReaderTypeOK /\ ListInv)'
    BY DEF readerVars, loopVars, connVars, callVars, ReaderTypeOK, ListInv
  <2> QED BY <2>1, ReaderTypeStep
<1> QED BY <1>1, <1>2, PTL
-----------------------------------------------------------------------------
(* The reader: what the queue has about a connection.                       *)

\* An item that hands c over, the request of c's unwatch; whether the queue has them,
\* whether it hands c over or asks for it at most once, and hands it over first.
Hands(x, c) == x.type \in {"connection", "listener"} /\ x.of = c
Asks(x, c) == x.type = "foreach" /\ x.of = c
HandsIn(q, c) == \E i \in DOMAIN q : Hands(q[i], c)
AsksIn(q, c) == \E i \in DOMAIN q : Asks(q[i], c)
HandsOnce(q, c) == \A i, j \in DOMAIN q : Hands(q[i], c) /\ Hands(q[j], c) => i = j
AsksOnce(q, c) == \A i, j \in DOMAIN q : Asks(q[i], c) /\ Asks(q[j], c) => i = j
HandsFirst(q, c) == \A i, j \in DOMAIN q : Hands(q[i], c) /\ Asks(q[j], c) => i < j

\* What a push changes of it.
LEMMA PushedItem ==
  ASSUME NEW S, NEW q \in Seq(S), NEW x \in S, NEW c, NEW r, r = Append(q, x)
  PROVE  /\ HandsIn(r, c) <=> HandsIn(q, c) \/ Hands(x, c)
         /\ AsksIn(r, c) <=> AsksIn(q, c) \/ Asks(x, c)
         /\ HandsOnce(q, c) /\ ~(HandsIn(q, c) /\ Hands(x, c)) => HandsOnce(r, c)
         /\ AsksOnce(q, c) /\ ~(AsksIn(q, c) /\ Asks(x, c)) => AsksOnce(r, c)
         /\ HandsFirst(q, c) /\ ~(AsksIn(q, c) /\ Hands(x, c)) => HandsFirst(r, c)
<1>1. /\ DOMAIN r = 1 .. Len(q) + 1 /\ DOMAIN q = 1 .. Len(q) /\ Len(q) \in Nat
      /\ \A i \in 1 .. Len(q) : r[i] = q[i]
      /\ r[Len(q) + 1] = x
  BY AppendProperties
<1>2. /\ \A i \in DOMAIN q : i \in DOMAIN r /\ r[i] = q[i]
      /\ Len(q) + 1 \in DOMAIN r /\ r[Len(q) + 1] = x
      /\ \A i \in DOMAIN r : i \in DOMAIN q \/ i = Len(q) + 1
  BY <1>1
<1>3. HandsIn(r, c) <=> HandsIn(q, c) \/ Hands(x, c)
  BY <1>2 DEF HandsIn
<1>4. AsksIn(r, c) <=> AsksIn(q, c) \/ Asks(x, c)
  BY <1>2 DEF AsksIn
<1>5. ASSUME HandsOnce(q, c), ~(HandsIn(q, c) /\ Hands(x, c)) PROVE HandsOnce(r, c)
  BY <1>2, <1>5 DEF HandsOnce, HandsIn
<1>6. ASSUME HandsFirst(q, c), ~(AsksIn(q, c) /\ Hands(x, c)) PROVE HandsFirst(r, c)
  <2> SUFFICES ASSUME NEW i \in DOMAIN r, NEW j \in DOMAIN r, Hands(r[i], c), Asks(r[j], c)
               PROVE  i < j
    BY DEF HandsFirst
  <2>1. ~(Hands(x, c) /\ Asks(x, c))
    BY DEF Hands, Asks
  <2>2. CASE i \in DOMAIN q /\ j \in DOMAIN q
    BY <1>2, <1>6, <2>2 DEF HandsFirst
  <2>3. CASE i = Len(q) + 1
    BY <1>2, <1>6, <2>1, <2>3 DEF AsksIn
  <2>4. CASE i \in DOMAIN q /\ j = Len(q) + 1
    BY <1>1, <2>4
  <2> QED BY <1>2, <2>2, <2>3, <2>4
<1>7. ASSUME AsksOnce(q, c), ~(AsksIn(q, c) /\ Asks(x, c)) PROVE AsksOnce(r, c)
  BY <1>2, <1>7 DEF AsksOnce, AsksIn
<1> QED BY <1>3, <1>4, <1>5, <1>6, <1>7

\* ... and a pop.
LEMMA PoppedItem ==
  ASSUME NEW S, NEW q \in Seq(S), q # <<>>, NEW c, NEW x, x = Head(q), NEW r, r = Tail(q)
  PROVE  /\ HandsIn(q, c) <=> HandsIn(r, c) \/ Hands(x, c)
         /\ AsksIn(q, c) <=> AsksIn(r, c) \/ Asks(x, c)
         /\ HandsOnce(q, c) => HandsOnce(r, c) /\ ~(HandsIn(r, c) /\ Hands(x, c))
         /\ AsksOnce(q, c) => AsksOnce(r, c) /\ ~(AsksIn(r, c) /\ Asks(x, c))
         /\ HandsFirst(q, c) => HandsFirst(r, c) /\ ~(HandsIn(r, c) /\ Asks(x, c))
<1>1. /\ DOMAIN q = 1 .. Len(q) /\ Len(q) \in Nat \ {0}
      /\ DOMAIN r = 1 .. Len(q) - 1
      /\ \A i \in 1 .. Len(q) - 1 : r[i] = q[i + 1]
      /\ x = q[1]
  OBVIOUS
<1>2. /\ \A i \in DOMAIN r : i + 1 \in DOMAIN q /\ r[i] = q[i + 1] /\ i + 1 # 1
      /\ 1 \in DOMAIN q /\ x = q[1]
  BY <1>1
<1>3. \A i \in DOMAIN q : i # 1 => i - 1 \in DOMAIN r /\ r[i - 1] = q[i]
  <2> SUFFICES ASSUME NEW i \in DOMAIN q, i # 1 PROVE i - 1 \in DOMAIN r /\ r[i - 1] = q[i]
    OBVIOUS
  <2>1. i - 1 \in 1 .. Len(q) - 1 /\ (i - 1) + 1 = i
    BY <1>1
  <2> QED BY <1>1, <2>1
<1>4. HandsIn(q, c) <=> HandsIn(r, c) \/ Hands(x, c)
  BY <1>2, <1>3 DEF HandsIn
<1>5. AsksIn(q, c) <=> AsksIn(r, c) \/ Asks(x, c)
  BY <1>2, <1>3 DEF AsksIn
<1>6. ASSUME HandsOnce(q, c) PROVE HandsOnce(r, c) /\ ~(HandsIn(r, c) /\ Hands(x, c))
  <2>1. HandsOnce(r, c)
    <3> SUFFICES ASSUME NEW i \in DOMAIN r, NEW j \in DOMAIN r, Hands(r[i], c), Hands(r[j], c)
                 PROVE  i = j
      BY DEF HandsOnce
    <3>1. i + 1 = j + 1
      BY <1>2, <1>6 DEF HandsOnce
    <3> QED BY <1>1, <3>1
  <2>2. ~(HandsIn(r, c) /\ Hands(x, c))
    BY <1>2, <1>6 DEF HandsOnce, HandsIn
  <2> QED BY <2>1, <2>2
<1>7. ASSUME HandsFirst(q, c) PROVE HandsFirst(r, c) /\ ~(HandsIn(r, c) /\ Asks(x, c))
  <2>1. HandsFirst(r, c)
    <3> SUFFICES ASSUME NEW i \in DOMAIN r, NEW j \in DOMAIN r, Hands(r[i], c), Asks(r[j], c)
                 PROVE  i < j
      BY DEF HandsFirst
    <3>1. i + 1 < j + 1
      BY <1>2, <1>7 DEF HandsFirst
    <3> QED BY <1>1, <3>1
  <2>2. ~(HandsIn(r, c) /\ Asks(x, c))
    <3> SUFFICES ASSUME NEW i \in DOMAIN r, Hands(r[i], c), Asks(x, c) PROVE FALSE
      BY DEF HandsIn
    <3>1. i + 1 < 1
      BY <1>2, <1>7 DEF HandsFirst
    <3> QED BY <1>1, <3>1
  <2> QED BY <2>1, <2>2
<1>8. ASSUME AsksOnce(q, c) PROVE AsksOnce(r, c) /\ ~(AsksIn(r, c) /\ Asks(x, c))
  <2>1. AsksOnce(r, c)
    <3> SUFFICES ASSUME NEW i \in DOMAIN r, NEW j \in DOMAIN r, Asks(r[i], c), Asks(r[j], c)
                 PROVE  i = j
      BY DEF AsksOnce
    <3>1. i + 1 = j + 1
      BY <1>2, <1>8 DEF AsksOnce
    <3> QED BY <1>1, <3>1
  <2>2. ~(AsksIn(r, c) /\ Asks(x, c))
    BY <1>2, <1>8 DEF AsksOnce, AsksIn
  <2> QED BY <2>1, <2>2
<1> QED BY <1>4, <1>5, <1>6, <1>7, <1>8

-----------------------------------------------------------------------------
(* The reader: references and handlers.                                     *)

\* A connection is new, in the queue once, or in the lists: whoever has it has a
\* reference of it.
One(has) == IF has THEN 1 ELSE 0
RefsOf(c) ==
  /\ HandsOnce(reader_queue, c)
  /\ holder[c] = "new" => ~HandsIn(reader_queue, c) /\ c \notin conn_list
  /\ HandsIn(reader_queue, c) => c \notin conn_list
  /\ refs[c] = One(holder[c] # "gone") + One(c \in conn_list) + One(HandsIn(reader_queue, c))

\* A connection is handed over before its unwatch asks for it: once that was answered
\* no item brings it back, and what was not found is not in the lists.
UnwatchOf(c) ==
  /\ HandsFirst(reader_queue, c) /\ AsksOnce(reader_queue, c)
  /\ after_unwatch[c] => unwatch[c] \in {"data", "flagged", "called"}
  /\ AsksIn(reader_queue, c) => unwatch[c] = "asked"
  /\ unwatch[c] # "no" => holder[c] # "new"
  /\ unwatch[c] \in {"found", "absent", "data", "flagged", "called"} => ~HandsIn(reader_queue, c)
  /\ unwatch[c] \in {"absent", "called"} /\ is_connected[c] => c \notin conn_list

WatchInv == \A c \in Watchable : RefsOf(c) /\ UnwatchOf(c)

LEMMA ItemIs ==
  ASSUME NEW type, NEW c, NEW d
  PROVE  /\ Hands(QueueItem(type, c), d) <=> type \in {"connection", "listener"} /\ c = d
         /\ Asks(QueueItem(type, c), d) <=> type = "foreach" /\ c = d
BY DEF Hands, Asks, QueueItem

\* What a push changes of the queue of d.
LEMMA PushIs ==
  ASSUME ReaderTypeOK, NEW x \in QueueItems, Push(x), NEW d
  PROVE  /\ HandsIn(reader_queue', d) <=> HandsIn(reader_queue, d) \/ Hands(x, d)
         /\ AsksIn(reader_queue', d) <=> AsksIn(reader_queue, d) \/ Asks(x, d)
         /\ HandsOnce(reader_queue, d) /\ ~(HandsIn(reader_queue, d) /\ Hands(x, d))
              => HandsOnce(reader_queue', d)
         /\ AsksOnce(reader_queue, d) /\ ~(AsksIn(reader_queue, d) /\ Asks(x, d))
              => AsksOnce(reader_queue', d)
         /\ HandsFirst(reader_queue, d) /\ ~(AsksIn(reader_queue, d) /\ Hands(x, d))
              => HandsFirst(reader_queue', d)
<1>1. reader_queue \in Seq(QueueItems) /\ reader_queue' = Append(reader_queue, x)
  BY DEF ReaderTypeOK, Push
<1> QED BY <1>1, PushedItem

LEMMA PopIs ==
  ASSUME ReaderTypeOK, reader_queue # <<>>, reader_queue' = Tail(reader_queue),
         NEW x, x = Head(reader_queue), NEW d
  PROVE  /\ HandsIn(reader_queue, d) <=> HandsIn(reader_queue', d) \/ Hands(x, d)
         /\ AsksIn(reader_queue, d) <=> AsksIn(reader_queue', d) \/ Asks(x, d)
         /\ HandsOnce(reader_queue, d)
              => HandsOnce(reader_queue', d) /\ ~(HandsIn(reader_queue', d) /\ Hands(x, d))
         /\ AsksOnce(reader_queue, d)
              => AsksOnce(reader_queue', d) /\ ~(AsksIn(reader_queue', d) /\ Asks(x, d))
         /\ HandsFirst(reader_queue, d)
              => HandsFirst(reader_queue', d) /\ ~(HandsIn(reader_queue', d) /\ Asks(x, d))
<1>1. reader_queue \in Seq(QueueItems)
  BY DEF ReaderTypeOK
<1> QED BY <1>1, PoppedItem

\* What registering an item does to d.
LEMMA RegisterIs ==
  ASSUME ReaderTypeOK, NEW x \in QueueItems, Register(x), NEW d \in Watchable
  PROVE  \/ Hands(x, d) /\ d \in conn_list' /\ refs'[d] = refs[d]
         \/ /\ Hands(x, d) /\ ~is_connected[d] /\ (d \in conn_list' <=> d \in conn_list)
            /\ refs'[d] = refs[d] - 1
         \/ ~Hands(x, d) /\ (d \in conn_list' <=> d \in conn_list) /\ refs'[d] = refs[d]
<1> USE DEF Register, Listed, DropRef, Hands
<1>1. CASE Listed(x) /\ x.of = d
  BY <1>1
<1>2. CASE Listed(x) /\ x.of # d
  BY <1>2
<1>3. CASE x.type = "connection" /\ ~is_connected[x.of]
  BY <1>3 DEF ReaderTypeOK
<1>4. CASE ~Listed(x) /\ x.type # "connection"
  BY <1>4
<1> QED BY <1>1, <1>2, <1>3, <1>4

LEMMA WatchStep ==
  ASSUME ReaderTypeOK, ListInv, WatchInv, ReaderNext
  PROVE  WatchInv'
<1> SUFFICES ASSUME NEW d \in Watchable PROVE (RefsOf(d) /\ UnwatchOf(d))'
  BY DEF WatchInv
<1>a. RefsOf(d) /\ UnwatchOf(d)
  BY DEF WatchInv
<1> USE DEF ReaderTypeOK, ListInv, loopVars, connVars, callVars, DropRef, Ref, Enter, LetGo,
            StopProcess, Unlink, Building, One
<1>1. ASSUME NEW c \in Watchable, WatchConnection(c)
      PROVE  (RefsOf(d) /\ UnwatchOf(d))'
  <2> DEFINE x == QueueItem(IF c \in Listeners THEN "listener" ELSE "connection", c)
  <2>1. /\ x \in QueueItems /\ Push(x) /\ (Hands(x, d) <=> c = d) /\ ~Asks(x, d)
    BY <1>1, ItemKinds, ItemIs DEF WatchConnection
  <2> HIDE DEF x
  <2>2. /\ holder[c] = "new"
        /\ \/ holder'[c] = "gone" /\ refs'[c] = refs[c]
           \/ holder'[c] = "held" /\ refs'[c] = refs[c] + 1
        /\ d # c => holder'[d] = holder[d] /\ refs'[d] = refs[d]
        /\ UNCHANGED <<conn_list, is_connected, unwatch, after_unwatch>>
    BY <1>1 DEF WatchConnection
  <2>3. c = d => unwatch[d] = "no" /\ ~AsksIn(reader_queue, d)
    BY <1>a, <2>2 DEF UnwatchOf
  <2> HIDE DEF ReaderTypeOK
  <2>4. RefsOf(d)'
    BY <1>a, <2>1, <2>2, PushIs DEF RefsOf
  <2>5. UnwatchOf(d)'
    BY <1>a, <2>1, <2>2, <2>3, PushIs DEF UnwatchOf
  <2> QED BY <2>4, <2>5
<1>2. ASSUME NEW c \in Watchable, Shutdown(c)
      PROVE  (RefsOf(d) /\ UnwatchOf(d))'
  BY <1>2, <1>a DEF Shutdown, RefsOf, UnwatchOf
<1>3. ASSUME NEW c \in Watchable, Release(c)
      PROVE  (RefsOf(d) /\ UnwatchOf(d))'
  BY <1>3, <1>a DEF Release, RefsOf, UnwatchOf
<1>4. ASSUME NEW c \in Watchable, UnwatchPlain(c)
      PROVE  (RefsOf(d) /\ UnwatchOf(d))'
  BY <1>4, <1>a DEF UnwatchPlain, RefsOf, UnwatchOf
<1>5. ASSUME NEW c \in Watchable, Unwatch(c)
      PROVE  (RefsOf(d) /\ UnwatchOf(d))'
  <2> DEFINE x == QueueItem("foreach", c)
  <2>1. x \in QueueItems /\ Push(x) /\ (Asks(x, d) <=> c = d) /\ ~Hands(x, d)
    BY <1>5, ItemKinds, ItemIs DEF Unwatch, Ask, Callers
  <2> HIDE DEF x
  <2>2. /\ holder[c] = "held" /\ unwatch[c] = "no" /\ unwatch'[c] = "asked"
        /\ d # c => unwatch'[d] = unwatch[d]
        /\ UNCHANGED <<conn_list, is_connected, holder, refs, after_unwatch>>
    BY <1>5 DEF Unwatch
  <2> HIDE DEF ReaderTypeOK
  <2> QED BY <1>a, <2>1, <2>2, PushIs DEF RefsOf, UnwatchOf
<1>6. ASSUME NEW c \in Watchable, CallAbsent(c)
      PROVE  (RefsOf(d) /\ UnwatchOf(d))'
  BY <1>6, <1>a DEF CallAbsent, RefsOf, UnwatchOf
<1>7. ASSUME NEW c \in Watchable, StoreHandler(c)
      PROVE  (RefsOf(d) /\ UnwatchOf(d))'
  BY <1>7, <1>a DEF StoreHandler, RefsOf, UnwatchOf
<1>8. ASSUME NEW c \in Watchable, SetUnwatch(c)
      PROVE  (RefsOf(d) /\ UnwatchOf(d))'
  BY <1>8, <1>a DEF SetUnwatch, RefsOf, UnwatchOf
<1>9. ASSUME NEW v \in Visitors, Foreach(v)
      PROVE  (RefsOf(d) /\ UnwatchOf(d))'
  <2> DEFINE x == QueueItem("foreach", v)
  <2>1. x \in QueueItems /\ Push(x) /\ ~Asks(x, d) /\ ~Hands(x, d)
    BY <1>9, ItemKinds, ItemIs DEF Foreach, Ask, Callers
  <2> HIDE DEF x
  <2>2. UNCHANGED <<conn_list, is_connected, holder, refs, unwatch, after_unwatch>>
    BY <1>9 DEF Foreach
  <2> HIDE DEF ReaderTypeOK
  <2> QED BY <1>a, <2>1, <2>2, PushIs DEF RefsOf, UnwatchOf
<1>10. CASE IoChange
  <2>1. UNCHANGED <<conn_list, is_connected, holder, refs, unwatch, after_unwatch>>
    BY <1>10 DEF IoChange
  <2>2. \/ Push(QueueItem("changed", "reader")) \/ Push(QueueItem("ready", "reader"))
        \/ UNCHANGED reader_queue
    BY <1>10 DEF IoChange
  <2>3. ASSUME NEW type \in {"changed", "ready"}, Push(QueueItem(type, "reader"))
        PROVE  (RefsOf(d) /\ UnwatchOf(d))'
    <3> DEFINE x == QueueItem(type, "reader")
    <3>1. x \in QueueItems /\ Push(x) /\ ~Asks(x, d) /\ ~Hands(x, d)
      BY <2>3, ItemKinds, ItemIs
    <3> HIDE DEF x, ReaderTypeOK
    <3> QED BY <1>a, <2>1, <3>1, PushIs DEF RefsOf, UnwatchOf
  <2>4. ASSUME UNCHANGED reader_queue PROVE (RefsOf(d) /\ UnwatchOf(d))'
    BY <1>a, <2>1, <2>4 DEF RefsOf, UnwatchOf
  <2> QED BY <2>2, <2>3, <2>4
<1>11. CASE ReaderStop
  <2>1. UNCHANGED <<conn_list, is_connected, holder, refs, unwatch, after_unwatch>>
    BY <1>11 DEF ReaderStop
  <2>2. Push(Terminate) \/ UNCHANGED reader_queue
    BY <1>11 DEF ReaderStop
  <2>3. ASSUME Push(Terminate) PROVE (RefsOf(d) /\ UnwatchOf(d))'
    <3>1. Terminate \in QueueItems /\ ~Asks(Terminate, d) /\ ~Hands(Terminate, d)
      BY ItemKinds, ItemIs DEF Terminate
    <3> HIDE DEF ReaderTypeOK
    <3> QED BY <1>a, <2>1, <2>3, <3>1, PushIs DEF RefsOf, UnwatchOf
  <2>4. ASSUME UNCHANGED reader_queue PROVE (RefsOf(d) /\ UnwatchOf(d))'
    BY <1>a, <2>1, <2>4 DEF RefsOf, UnwatchOf
  <2> QED BY <2>2, <2>3, <2>4
<1>12. CASE ReadTerminate
  <2>1. PICK x : x = Head(reader_queue)
    OBVIOUS
  <2>2. /\ reader_queue # <<>> /\ reader_queue' = Tail(reader_queue)
        /\ ~Hands(x, d) /\ ~Asks(x, d)
    BY <1>12, <2>1 DEF ReadTerminate, TakeItem, Hands, Asks
  <2>3. /\ conn_list' = {} /\ refs'[d] = (IF d \in conn_list THEN refs[d] - 1 ELSE refs[d])
        /\ (is_connected'[d] => is_connected[d]) /\ UNCHANGED <<holder, unwatch, after_unwatch>>
    BY <1>12 DEF ReadTerminate, TakeItem
  <2> HIDE DEF ReaderTypeOK
  <2> QED BY <1>a, <2>1, <2>2, <2>3, PopIs DEF RefsOf, UnwatchOf
<1>13. CASE ReadChanged
  <2>1. PICK x : x = Head(reader_queue)
    OBVIOUS
  <2>2. /\ reader_queue # <<>> /\ reader_queue' = Tail(reader_queue)
        /\ ~Hands(x, d) /\ ~Asks(x, d)
    BY <1>13, <2>1 DEF ReadChanged, TakeItem, Hands, Asks
  <2>3. UNCHANGED <<conn_list, is_connected, holder, refs, unwatch, after_unwatch>>
    BY <1>13 DEF ReadChanged, TakeItem
  <2> HIDE DEF ReaderTypeOK
  <2> QED BY <1>a, <2>1, <2>2, <2>3, PopIs DEF RefsOf, UnwatchOf
<1>14. CASE ReadItem
  <2>1. PICK x : x = Head(reader_queue)
    OBVIOUS
  <2>2. /\ reader_queue # <<>> /\ reader_queue' = Tail(reader_queue) /\ Register(x)
        /\ UNCHANGED <<holder, is_connected, after_unwatch>>
        /\ IF x.type = "foreach" THEN Visit(x.of) ELSE UNCHANGED unwatch
    BY <1>14, <2>1 DEF ReadItem, TakeItem
  <2>3. x \in QueueItems
    BY <2>1, <2>2, PopType
  <2>4. \/ Asks(x, d) /\ unwatch'[d] = IF d \in conn_list /\ is_connected[d] THEN "found" ELSE "absent"
        \/ ~Asks(x, d) /\ unwatch'[d] = unwatch[d]
    BY <2>2 DEF Visit, Asks
  <2>5. Asks(x, d) => ~Hands(x, d)
    BY DEF Asks, Hands
  <2> HIDE DEF ReaderTypeOK
  <2>6. RefsOf(d)'
    BY <1>a, <2>1, <2>2, <2>3, PopIs, RegisterIs DEF RefsOf
  <2>7. UnwatchOf(d)'
    <3>1. /\ HandsFirst(reader_queue', d) /\ AsksOnce(reader_queue', d)
          /\ ~(AsksIn(reader_queue', d) /\ Asks(x, d)) /\ ~(HandsIn(reader_queue', d) /\ Asks(x, d))
          /\ HandsIn(reader_queue', d) => HandsIn(reader_queue, d)
          /\ Hands(x, d) => HandsIn(reader_queue, d)
          /\ AsksIn(reader_queue', d) \/ Asks(x, d) => unwatch[d] = "asked"
      BY <1>a, <2>1, <2>2, PopIs DEF UnwatchOf
    <3>2. ~Hands(x, d) => (d \in conn_list' <=> d \in conn_list)
      BY <2>2, <2>3, RegisterIs
    <3>3. CASE Asks(x, d)
      BY <1>a, <2>2, <2>4, <2>5, <3>1, <3>2, <3>3 DEF UnwatchOf
    <3>4. CASE ~Asks(x, d)
      BY <1>a, <2>2, <2>4, <3>1, <3>2, <3>4 DEF UnwatchOf
    <3> QED BY <3>3, <3>4
  <2> QED BY <2>6, <2>7
<1>15. CASE ReadReady
  <2>1. PICK x : x = Head(reader_queue)
    OBVIOUS
  <2>2. /\ reader_queue # <<>> /\ reader_queue' = Tail(reader_queue) /\ Register(x)
        /\ UNCHANGED <<holder, is_connected, unwatch, after_unwatch>>
    BY <1>15, <2>1 DEF ReadReady
  <2>3. x \in QueueItems
    BY <2>1, <2>2, PopType
  <2> HIDE DEF ReaderTypeOK
  <2>6. RefsOf(d)'
    BY <1>a, <2>1, <2>2, <2>3, PopIs, RegisterIs DEF RefsOf
  <2>7. UnwatchOf(d)'
    BY <1>a, <2>1, <2>2, <2>3, PopIs, RegisterIs DEF UnwatchOf, RefsOf
  <2> QED BY <2>6, <2>7
<1>16. CASE ReadPendingEnds
  BY <1>16, <1>a DEF ReadPendingEnds, RefsOf, UnwatchOf
<1>17. CASE Check
  BY <1>17, <1>a DEF Check, RefsOf, UnwatchOf
<1>18. CASE Poll
  BY <1>18, <1>a DEF Poll, RefsOf, UnwatchOf
<1>19. CASE PollFails
  BY <1>19, <1>a DEF PollFails, RefsOf, UnwatchOf
<1>20. CASE DispatchEnds
  BY <1>20, <1>a DEF DispatchEnds, RefsOf, UnwatchOf
<1>21. ASSUME NEW c \in Watchable, BuildClosed(c)
      PROVE  (RefsOf(d) /\ UnwatchOf(d))'
  BY <1>21, <1>a DEF BuildClosed, RefsOf, UnwatchOf
<1>22. ASSUME NEW c \in Watchable, BuildUnwatched(c)
      PROVE  (RefsOf(d) /\ UnwatchOf(d))'
  <2>1. CASE c # d
    BY <1>22, <1>a, <2>1 DEF BuildUnwatched, RefsOf, UnwatchOf
  <2>2. CASE c = d
    <3>1. /\ d \in conn_list /\ d \notin conn_list' /\ refs'[d] = refs[d] - 1
          /\ UNCHANGED <<reader_queue, holder, is_connected, after_unwatch>>
          /\ unwatch'[d] = IF after_unwatch[d] THEN "called" ELSE unwatch[d]
      BY <1>22, <2>2 DEF BuildUnwatched
    <3>2. ~HandsIn(reader_queue, d) /\ holder[d] # "new"
      BY <1>a, <3>1 DEF RefsOf
    <3> HIDE DEF ReaderTypeOK
    <3> QED BY <1>a, <3>1, <3>2 DEF RefsOf, UnwatchOf
  <2> QED BY <2>1, <2>2
<1>23. ASSUME NEW c \in Watchable, BuildAdd(c)
      PROVE  (RefsOf(d) /\ UnwatchOf(d))'
  BY <1>23, <1>a DEF BuildAdd, RefsOf, UnwatchOf
<1>24. ASSUME NEW c \in Watchable, BuildAddFails(c)
      PROVE  (RefsOf(d) /\ UnwatchOf(d))'
  BY <1>24, <1>a DEF BuildAddFails, RefsOf, UnwatchOf
<1>25. ASSUME NEW c \in Watchable, Dispatch(c)
      PROVE  (RefsOf(d) /\ UnwatchOf(d))'
  BY <1>25, <1>a DEF Dispatch, RefsOf, UnwatchOf
<1> HIDE DEF ReaderTypeOK, ListInv, loopVars, connVars, callVars, DropRef, Ref, Enter, LetGo,
            StopProcess, Unlink, Building, One
<1> QED
  BY <1>1, <1>2, <1>3, <1>4, <1>5, <1>6, <1>7, <1>8, <1>9,
     <1>10, <1>11, <1>12, <1>13, <1>14, <1>15, <1>16, <1>17, <1>18,
     <1>19, <1>20, <1>21, <1>22, <1>23, <1>24, <1>25
  DEF ReaderNext, ReaderStep, UnwatchTask, Build

LEMMA WatchKept ==
  ReaderInit /\ [][ReaderNext]_readerVars => []WatchInv
<1>1. ReaderInit => WatchInv
  BY DEF ReaderInit, WatchInv, RefsOf, UnwatchOf, One, HandsIn, AsksIn, HandsOnce, AsksOnce, HandsFirst
<1>2. ReaderTypeOK /\ ListInv /\ WatchInv /\ [ReaderNext]_readerVars => WatchInv'
  <2>1. WatchInv /\ UNCHANGED readerVars => WatchInv'
    BY DEF readerVars, loopVars, connVars, callVars, WatchInv, RefsOf, UnwatchOf
  <2> QED BY <2>1, WatchStep
<1> QED BY <1>1, <1>2, ReaderTypeKept, PTL

LEMMA PolledIsReferencedKept ==
  ReaderInit /\ [][ReaderNext]_readerVars => []PolledIsReferenced
<1>1. ReaderTypeOK /\ WatchInv => PolledIsReferenced
  <2> SUFFICES ASSUME ReaderTypeOK, NEW c \in Watchable, RefsOf(c)
               PROVE  /\ c \in on_reading \cup conn_list => refs[c] >= 1
                      /\ c \notin conn_list /\ holder[c] = "gone" /\ reader_queue = <<>> => refs[c] = 0
    BY DEF WatchInv, PolledIsReferenced
  <2>1. on_reading \subseteq conn_list
    BY DEF ReaderTypeOK
  <2>2. reader_queue = <<>> => ~HandsIn(reader_queue, c)
    BY DEF HandsIn
  <2> QED BY <2>1, <2>2 DEF RefsOf, One
<1> QED BY <1>1, WatchKept, ReaderTypeKept, PTL

LEMMA HandlerOwnsKept ==
  ReaderInit /\ [][ReaderNext]_readerVars => []HandlerOwns
<1>1. WatchInv => HandlerOwns
  BY DEF WatchInv, UnwatchOf, HandlerOwns
<1> QED BY <1>1, WatchKept, PTL

-----------------------------------------------------------------------------
(* The theorems, of each component by itself. *)

\* Every variable of the pool keeps its type, whatever the threads, tasks and events.
THEOREM PoolTypeCorrect == PoolSpec => []PoolTypeInv
BY PoolTypeKept, PTL DEF PoolSpec

\* No event is freed under its handler, and no two threads process events, although
\* handlers finish, callers install and remove events and the pool exits meanwhile.
THEOREM EventsSafeCorrect == PoolSpec => []EventsSafe
BY EventsSafeKept, PTL DEF PoolSpec

\* myqtt_thread_pool_exit joins every thread and leaves no task queued or running,
\* however callers and threads interleave with it, unless threads were removed or are
\* detached, or a caller came when the exit worked on, or had freed, what the call changes.
THEOREM ExitIsCleanCorrect == PoolSpec => []ExitIsClean
BY ExitIsCleanKept, PTL DEF PoolSpec

\* The variables of the reader keep their types, and what it polls is in its lists.
THEOREM ReaderTypeCorrect == ReaderSpec => [](ReaderTypeOK /\ ListInv)
BY ReaderTypeKept, PTL DEF ReaderSpec

\* What the reader polls or dispatches is referenced, and a connection nothing holds
\* keeps no reference, whoever closes, releases or unwatches it meanwhile.
THEOREM PolledIsReferencedCorrect == ReaderSpec => []PolledIsReferenced
BY PolledIsReferencedKept, PTL DEF ReaderSpec

\* Whoever is called by myqtt_reader_unwatch_connection has the connection for itself,
\* unless it is closed.
THEOREM HandlerOwnsCorrect == ReaderSpec => []HandlerOwns
BY HandlerOwnsKept, PTL DEF ReaderSpec

-----------------------------------------------------------------------------
(* The composition (MCThreads): the pool and the reader behave in it as they do by *)
(* themselves.                                                                     *)

\* What TLC explores as one instance is, for the pool and for the reader, a behaviour of
\* its own: a step of either leaves the other as it was.
THEOREM ThreadsImplementParts ==
  ThreadsSpec => PoolInit /\ [][PoolNext]_poolVars /\ ReaderInit /\ [][ReaderNext]_readerVars
<1>1. ThreadsInit => PoolInit /\ ReaderInit
  BY Zenon DEF ThreadsInit
<1>2. [ThreadsNext]_threadsVars => [PoolNext]_poolVars /\ [ReaderNext]_readerVars
  <2>1. ThreadsNext => [PoolNext]_poolVars /\ [ReaderNext]_readerVars
    BY Zenon DEF ThreadsNext
  <2>2. UNCHANGED threadsVars => UNCHANGED poolVars /\ UNCHANGED readerVars
    BY Zenon DEF threadsVars
  <2> QED BY <2>1, <2>2, Zenon
<1> QED BY <1>1, <1>2, PTL DEF ThreadsSpec

\* What the run of MCThreads checks of its few threads, tasks and connections, with the
\* exceptions each property names, holds of any number of them.
THEOREM ThreadsCorrect ==
  ThreadsSpec => [](ExitIsClean /\ EventsSafe /\ PolledIsReferenced /\ HandlerOwns)
BY ThreadsImplementParts, ExitIsCleanKept, EventsSafeKept, PolledIsReferencedKept, HandlerOwnsKept,
   PTL
=============================================================================
