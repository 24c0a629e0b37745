----------------------------- MODULE ThreadPool -----------------------------
(* The pool of threads of a context (lib/myqtt-thread-pool.c) over its         *)
(* asynchronous queue (lib/myqtt-thread.c): tasks, timed events, the beacons   *)
(* that stop, remove and reap threads, automatic resizing, and the exit of the *)
(* pool, which joins its threads and destroys what they did not take.          *)
EXTENDS Integers, Sequences, FiniteSets, SequencesExt

CONSTANTS
  Workers,      \* threads the pool may have at a time
  Base,         \* the ones it starts with (base_thread_num)
  MaxLimit,     \* thread_max_limit
  AddStep,      \* thread_add_step, and thread_remove_step
  Tasks,        \* calls of myqtt_thread_pool_new_task_full
  Events,       \* calls of myqtt_thread_pool_new_event
  MaxRemovals,  \* bound on the removals of threads
  NoWorker

ExitBeacon == "exit"      \* INT_TO_PTR (1)
RemoveBeacon == "remove"  \* INT_TO_PTR (2)
ReapBeacon == "reap"      \* INT_TO_PTR (3)
Beacons == {ExitBeacon, RemoveBeacon, ReapBeacon}

ASSUME PoolAssumption ==
  /\ IsFiniteSet(Workers) /\ NoWorker \notin Workers
  /\ Base \subseteq Workers /\ Base # {}
  /\ MaxLimit \in Nat /\ AddStep \in Nat \ {0} /\ MaxRemovals \in Nat
  /\ Tasks \cap Beacons = {} /\ NoWorker \notin Tasks \cup Events

VARIABLES
  pool_queue,         \* pool->queue, oldest first
  worker,             \* where each thread is
  doing,              \* the task a thread has popped
  threads,            \* pool->threads
  stopped,            \* pool->stopped, in the order they left
  being_stopped,      \* ctx->thread_pool_being_stopped
  pool_exit,          \* where myqtt_thread_pool_exit is
  beacons,            \* its iterator
  fate,               \* of the data of each task
  checked,            \* events whose caller has looked at thread_pool_being_stopped
  installed,          \* pool->events
  event_refs,          \* of each event
  processing_events,
  walk,               \* who processes events: iterator, length, event, and those due by its now
  preemtive,          \* pool->preemtive
  skip_wait,          \* ctx->skip_thread_pool_wait
  removals, late, hurt  \* history: removals asked, a call too late, undefined behaviour

poolVars == <<pool_queue, worker, doing, threads, stopped, being_stopped, pool_exit,
              beacons, fate, checked, installed, event_refs, processing_events, walk,
              preemtive, skip_wait, removals, late, hurt>>
eventVars == <<checked, installed, event_refs, processing_events, walk>>
settings == <<preemtive, skip_wait>>

Idle == [iterator |-> 0, length |-> 0, event |-> NoWorker, due |-> {}]
WorkerStates == {"none", "wait", "got", "go", "run", "events", "walk", "handler",
                 "resize", "leave", "left", "reap", "joining", "ended"}

PoolInit ==
  /\ pool_queue = <<>> /\ doing = [w \in Workers |-> NoWorker]
  /\ worker = [w \in Workers |-> IF w \in Base THEN "wait" ELSE "none"]
  /\ threads = Base /\ stopped = <<>>
  /\ being_stopped = FALSE /\ pool_exit = "no" /\ beacons = 0
  /\ fate = [t \in Tasks |-> "new"]
  /\ checked = {} /\ installed = <<>> /\ event_refs = [e \in Events |-> 0]
  /\ processing_events = FALSE /\ walk = Idle
  /\ preemtive \in BOOLEAN /\ skip_wait \in BOOLEAN
  /\ removals = 0 /\ late = FALSE /\ hurt = FALSE

PoolTypeOK ==
  /\ pool_queue \in Seq(Tasks \cup Beacons)
  /\ worker \in [Workers -> WorkerStates] /\ doing \in [Workers -> Tasks \cup {NoWorker}]
  /\ threads \subseteq Workers /\ stopped \in Seq(Workers)
  /\ being_stopped \in BOOLEAN /\ beacons \in Nat
  /\ pool_exit \in {"no", "push", "join", "free", "drain", "drained", "done"}
  /\ fate \in [Tasks -> {"new", "refused", "checked", "queued", "running", "done",
                         "dropped", "destroyed"}]
  /\ checked \subseteq Events /\ installed \in Seq(Events) /\ event_refs \in [Events -> Int]
  /\ processing_events \in BOOLEAN
  /\ walk \in [iterator : Nat, length : Nat, event : Events \cup {NoWorker},
               due : SUBSET Events]
  /\ preemtive \in BOOLEAN /\ skip_wait \in BOOLEAN
  /\ removals \in Nat /\ late \in BOOLEAN /\ hurt \in BOOLEAN

Waiters == {w \in Workers : worker[w] = "wait"}
(* ------------------------------ callers -------------------------------- *)
\* What a caller with the mutex finds of a list that the exit works on without it in the
\* stages of busy: whole before, perhaps torn then, and in the end the pool is freed.
ListsGone == {"drain", "drained", "done"}
ListFound(busy) ==
  /\ late' = (late \/ pool_exit \in busy \cup ListsGone)
  /\ hurt' \in (IF pool_exit \in ListsGone THEN {TRUE}
               ELSE IF pool_exit \in busy THEN BOOLEAN ELSE {FALSE})

\* the checks of myqtt_thread_pool_new_task_full, without the mutex
CheckTask(t) ==
  /\ ~hurt /\ fate[t] = "new"
  /\ fate' = [fate EXCEPT ![t] = IF being_stopped THEN "refused" ELSE "checked"]
  /\ UNCHANGED <<pool_queue, worker, doing, threads, stopped, being_stopped, pool_exit,
                 beacons, eventVars, settings, removals, late, hurt>>

\* ... and its push: once the exit has emptied the queue nobody takes what is in it
PushTask(t) ==
  /\ ~hurt /\ fate[t] = "checked"
  /\ fate' = [fate EXCEPT ![t] = "queued"]
  /\ late' = (late \/ pool_exit \in {"drained", "done"})
  /\ hurt' = (pool_exit = "done")
  /\ pool_queue' = Append(pool_queue, t)
  /\ UNCHANGED <<worker, doing, threads, stopped, being_stopped, pool_exit, beacons,
                 eventVars, settings, removals>>

\* the check of myqtt_thread_pool_new_event, without the mutex
CheckEvent(e) ==
  /\ ~hurt /\ ~being_stopped /\ event_refs[e] = 0
  /\ checked' = checked \cup {e}
  /\ UNCHANGED <<pool_queue, worker, doing, threads, stopped, being_stopped, pool_exit,
                 beacons, fate, installed, event_refs, processing_events, walk, settings,
                 removals, late, hurt>>

\* ... and the rest of it, under the mutex
NewEvent(e) ==
  /\ ~hurt /\ e \in checked /\ event_refs[e] = 0
  /\ checked' = checked \ {e}
  /\ ListFound({"free"})
  /\ event_refs' = [event_refs EXCEPT ![e] = 1]
  /\ installed' = Append(installed, e)
  /\ UNCHANGED <<pool_queue, worker, doing, threads, stopped, being_stopped, pool_exit,
                 beacons, fate, processing_events, walk, settings, removals>>

RemoveEvent(e) ==
  /\ ~hurt /\ (e \in Range(installed) \/ pool_exit \in ListsGone)
  /\ ListFound({"free"})
  /\ installed' = RemoveFirst(installed, e)
  /\ event_refs' = IF e \in Range(installed) THEN [event_refs EXCEPT ![e] = @ - 1]
                   ELSE event_refs
  /\ walk' = [walk EXCEPT !.due = @ \ {e}]
  /\ UNCHANGED <<pool_queue, worker, doing, threads, stopped, being_stopped, pool_exit,
                 beacons, fate, checked, processing_events, settings, removals>>

\* beacons already queued are not counted: only threads of the list are
RemoveBeacons(n) ==
  LET asked == IF n < Cardinality(threads) THEN n ELSE Cardinality(threads) - 1
  IN  pool_queue \o [i \in 1 .. (IF asked > 0 THEN asked ELSE 0) |-> RemoveBeacon]

RemoveThreads ==
  /\ ~hurt /\ removals < MaxRemovals
  /\ removals' = removals + 1
  /\ pool_queue' = RemoveBeacons(1)
  /\ ListFound({})
  /\ UNCHANGED <<worker, doing, threads, stopped, being_stopped, pool_exit, beacons,
                 fate, eventVars, settings>>

\* myqtt_thread_pool_add_internal: as many of n as can be created
Created(n) == {new \in SUBSET {w \in Workers : worker[w] = "none"} : Cardinality(new) <= n}
ThreadsStarted(new) == [w \in Workers |-> IF w \in new THEN "wait" ELSE worker[w]]

\* the exit takes threads from the list without the mutex; one added by then has no beacon
AddByCaller ==
  /\ ~hurt
  /\ ListFound({"join", "free"})
  /\ \E new \in Created(1) \ {{}} : threads' = threads \cup new /\ worker' = ThreadsStarted(new)
  /\ UNCHANGED <<pool_queue, doing, stopped, being_stopped, pool_exit, beacons, fate,
                 eventVars, settings, removals>>

\* __myqtt_thread_pool_automatic_resize, under the mutex: the threads it creates
\* and the queue it leaves; whether its period has passed is not known
ResizeAdds == Cardinality(threads) < MaxLimit /\ Waiters = {} /\ pool_queue # <<>>
ResizeRemoves ==
  /\ pool_queue = <<>> /\ Cardinality(threads) > Cardinality(Base)
  /\ Cardinality(Waiters) + 2 > Cardinality(Base) /\ removals < MaxRemovals
Resized ==
  {[new |-> {}, queue |-> pool_queue, removals |-> removals]}
  \cup (IF ~being_stopped /\ ResizeAdds
        THEN {[new |-> n, queue |-> pool_queue, removals |-> removals] :
              n \in Created(AddStep)} ELSE {})
  \cup (IF ~being_stopped /\ ResizeRemoves
        THEN {[new |-> {}, queue |-> RemoveBeacons(AddStep), removals |-> removals + 1]}
        ELSE {})

\* the loop of the reader calls it too
ResizeByReader ==
  /\ ~hurt /\ ~being_stopped
  /\ \E r \in Resized :
       /\ threads' = threads \cup r.new /\ worker' = ThreadsStarted(r.new)
       /\ pool_queue' = r.queue /\ removals' = r.removals
  /\ UNCHANGED <<doing, stopped, being_stopped, pool_exit, beacons, fate, eventVars,
                 settings, late, hurt>>

(* ----------------------------- a thread -------------------------------- *)
PoolFreed == pool_exit = "done"
WorkerAt(w, state) == ~hurt /\ ~PoolFreed /\ worker[w] = state
Goto(w, state) == worker' = [worker EXCEPT ![w] = state]

PopTask(w) ==
  /\ WorkerAt(w, "wait") /\ pool_queue # <<>>
  /\ LET item == Head(pool_queue)
     IN  /\ Goto(w, CASE item = RemoveBeacon -> "leave" [] item = ReapBeacon -> "reap"
                      [] item = ExitBeacon -> "ended" [] OTHER -> "got")
         /\ IF item \in Beacons THEN UNCHANGED <<doing, fate>>
            ELSE /\ doing' = [doing EXCEPT ![w] = item]
                 /\ fate' = [fate EXCEPT ![item] = "running"]
  /\ pool_queue' = Tail(pool_queue)
  /\ UNCHANGED <<threads, stopped, being_stopped, pool_exit, beacons, eventVars,
                 settings, removals, late, hurt>>

Timeout(w) ==
  /\ WorkerAt(w, "wait") /\ pool_queue = <<>>
  /\ Goto(w, "events")
  /\ UNCHANGED <<pool_queue, doing, threads, stopped, being_stopped, pool_exit, beacons,
                 fate, eventVars, settings, removals, late, hurt>>

ResizeByThread(w) ==
  /\ WorkerAt(w, "resize") \/ (WorkerAt(w, "got") /\ preemtive)
  /\ \E r \in Resized :
       /\ threads' = threads \cup r.new
       /\ worker' = [ThreadsStarted(r.new) EXCEPT ![w] = IF worker[w] = "got" THEN "go" ELSE "wait"]
       /\ pool_queue' = r.queue /\ removals' = r.removals
  /\ UNCHANGED <<doing, stopped, being_stopped, pool_exit, beacons, fate, eventVars,
                 settings, late, hurt>>

\* once the pool is being stopped the function is not called, and nobody
\* destroys the data
StartTask(w) ==
  /\ WorkerAt(w, "go") \/ (WorkerAt(w, "got") /\ ~preemtive)
  /\ IF being_stopped
     THEN Goto(w, "events") /\ fate' = [fate EXCEPT ![doing[w]] = "dropped"]
     ELSE Goto(w, "run") /\ UNCHANGED fate
  /\ UNCHANGED <<pool_queue, doing, threads, stopped, being_stopped, pool_exit, beacons,
                 eventVars, settings, removals, late, hurt>>

EndTask(w) ==
  /\ WorkerAt(w, "run")
  /\ Goto(w, "events") /\ fate' = [fate EXCEPT ![doing[w]] = "done"]
  /\ UNCHANGED <<pool_queue, doing, threads, stopped, being_stopped, pool_exit, beacons,
                 eventVars, settings, removals, late, hurt>>

\* after the events: a thread resizes, unless it did before its task
AfterEvents(w) == /\ Goto(w, IF doing[w] # NoWorker /\ preemtive THEN "wait" ELSE "resize")
                  /\ doing' = [doing EXCEPT ![w] = NoWorker]

\* Mutant: without looking whether another thread processes them.
MayProcessToo == ~being_stopped /\ installed # <<>>
MayProcess == ~being_stopped /\ ~processing_events /\ installed # <<>>

ProcessEvents(w) ==
  /\ WorkerAt(w, "events")
  /\ IF MayProcess
     THEN /\ Goto(w, "walk") /\ processing_events' = TRUE
          /\ walk' = [iterator |-> 0, length |-> Len(installed), event |-> NoWorker,
                      due |-> Range(installed)]
          /\ UNCHANGED <<doing, checked, installed, event_refs>>
     ELSE AfterEvents(w) /\ UNCHANGED eventVars
  /\ UNCHANGED <<pool_queue, threads, stopped, being_stopped, pool_exit, beacons, fate,
                 settings, removals, late, hurt>>

\* Mutant: the iterator stays.
SamePlace == walk.iterator
NextPlace == walk.iterator + 1

\* the next event of the list: its handler is called with a reference if it is
\* due; one installed since the walk took the time is not
WalkEvents(w) ==
  /\ WorkerAt(w, "walk")
  /\ IF walk.iterator >= walk.length \/ walk.iterator >= Len(installed)
     THEN /\ AfterEvents(w) /\ processing_events' = FALSE /\ walk' = Idle
          /\ UNCHANGED <<installed, event_refs>>
     ELSE LET e == installed[walk.iterator + 1]
          IN  /\ \/ /\ e \in walk.due /\ Goto(w, "handler") /\ walk' = [walk EXCEPT !.event = e]
                    /\ event_refs' = [event_refs EXCEPT ![e] = @ + 1]
                 \/ /\ walk' = [walk EXCEPT !.iterator = NextPlace]
                    /\ UNCHANGED <<worker, event_refs>>
              /\ UNCHANGED <<doing, installed, processing_events>>
  /\ UNCHANGED <<pool_queue, threads, stopped, being_stopped, pool_exit, beacons, fate,
                 checked, settings, removals, late, hurt>>

\* TRUE: the event is not wanted again, and whoever follows it takes its place
EndHandler(w, finished) ==
  /\ WorkerAt(w, "handler")
  /\ LET e == walk.event
         listed == finished /\ \E i \in DOMAIN installed : installed[i] = e
     IN  /\ installed' = IF finished THEN RemoveFirst(installed, e) ELSE installed
         /\ event_refs' = [event_refs EXCEPT ![e] = @ - (IF listed THEN 2 ELSE 1)]
         /\ walk' = [walk EXCEPT !.event = NoWorker, !.due = @ \ {e},
                                 !.iterator = IF finished THEN @ ELSE NextPlace]
  /\ Goto(w, "walk")
  /\ UNCHANGED <<pool_queue, doing, threads, stopped, being_stopped, pool_exit, beacons,
                 fate, checked, processing_events, settings, removals, late, hurt>>

\* under both mutexes; the exit frees the list without them
LeavePool(w) ==
  /\ WorkerAt(w, "leave") /\ \A v \in Workers : worker[v] # "joining"
  /\ threads' = threads \ {w} /\ stopped' = Append(stopped, w)
  /\ Goto(w, "left") /\ hurt' = (pool_exit \notin {"no", "push"})
  /\ UNCHANGED <<pool_queue, doing, being_stopped, pool_exit, beacons, fate, eventVars,
                 settings, removals, late>>

PushReap(w) ==
  /\ WorkerAt(w, "left")
  /\ pool_queue' = Append(pool_queue, ReapBeacon) /\ Goto(w, "ended")
  /\ UNCHANGED <<doing, threads, stopped, being_stopped, pool_exit, beacons, fate,
                 eventVars, settings, removals, late, hurt>>

\* takes stopped_mutex, and keeps it until the first that left has ended
TakeStopped(w) ==
  /\ WorkerAt(w, "reap") /\ \A v \in Workers : worker[v] # "joining"
  /\ Goto(w, IF stopped = <<>> THEN "wait" ELSE "joining")
  /\ UNCHANGED <<pool_queue, doing, threads, stopped, being_stopped, pool_exit, beacons,
                 fate, eventVars, settings, removals, late, hurt>>

Join(w) ==
  /\ WorkerAt(w, "joining") /\ worker[Head(stopped)] = "ended"
  /\ worker' = [worker EXCEPT ![w] = "wait", ![Head(stopped)] = "none"]
  /\ stopped' = Tail(stopped)
  /\ UNCHANGED <<pool_queue, doing, threads, being_stopped, pool_exit, beacons, fate,
                 eventVars, settings, removals, late, hurt>>

\* a detached thread goes on with the memory of the pool
UseFreedPool(w) ==
  /\ ~hurt /\ PoolFreed /\ worker[w] \notin {"none", "ended"}
  /\ hurt' = TRUE
  /\ UNCHANGED <<pool_queue, worker, doing, threads, stopped, being_stopped, pool_exit,
                 beacons, fate, eventVars, settings, removals, late>>

(* ------------------------------- the exit ------------------------------- *)
BeingClosed ==
  /\ ~hurt /\ ~being_stopped /\ being_stopped' = TRUE
  /\ UNCHANGED <<pool_queue, worker, doing, threads, stopped, pool_exit, beacons, fate,
                 eventVars, settings, removals, late, hurt>>

\* a beacon for each thread listed, with the length read again for each
ExitBeacons ==
  /\ ~hurt /\ being_stopped /\ pool_exit \in {"no", "push"}
  /\ IF beacons < Cardinality(threads)
     THEN /\ pool_queue' = Append(pool_queue, ExitBeacon) /\ beacons' = beacons + 1
          /\ pool_exit' = "push"
     ELSE pool_exit' = "join" /\ UNCHANGED <<pool_queue, beacons>>
  /\ UNCHANGED <<worker, doing, threads, stopped, being_stopped, fate, eventVars,
                 settings, removals, late, hurt>>

Reaped(set) == [w \in Workers |-> IF w \in set THEN "none" ELSE worker[w]]

\* every thread of the list is detached, or joined one after the other
\* Mutant: without waiting for them.
NoWait == TRUE
ThreadsEnded == skip_wait \/ \A w \in threads : worker[w] = "ended"
ExitThreads ==
  /\ ~hurt /\ pool_exit = "join"
  /\ ThreadsEnded
  /\ worker' = IF skip_wait THEN worker ELSE Reaped(threads)
  /\ threads' = {} /\ pool_exit' = "free"
  /\ UNCHANGED <<pool_queue, doing, stopped, being_stopped, beacons, fate, eventVars,
                 settings, removals, late, hurt>>

\* the events, and the threads that had left; a detached thread may be joining one
ExitFree ==
  /\ ~hurt /\ pool_exit = "free"
  /\ hurt' = \E w \in Workers : worker[w] = "joining"
  /\ \A w \in Range(stopped) : worker[w] = "ended"
  /\ worker' = Reaped(Range(stopped)) /\ stopped' = <<>>
  /\ event_refs' = [e \in Events |-> IF e \in Range(installed) THEN event_refs[e] - 1
                                    ELSE event_refs[e]]
  /\ installed' = <<>> /\ pool_exit' = "drain"
  /\ UNCHANGED <<pool_queue, doing, threads, being_stopped, beacons, fate,
                 checked, processing_events, walk, settings, removals, late>>

\* whatever is neither 1 nor 2 is taken for a task
ExitDrain ==
  /\ ~hurt /\ pool_exit = "drain"
  /\ IF pool_queue = <<>>
     THEN pool_exit' = "drained" /\ UNCHANGED <<pool_queue, fate, hurt>>
     ELSE /\ pool_queue' = Tail(pool_queue)
          /\ hurt' = (Head(pool_queue) = ReapBeacon)
          /\ fate' = IF Head(pool_queue) \in Beacons THEN fate
                     ELSE [fate EXCEPT ![Head(pool_queue)] = "destroyed"]
          /\ UNCHANGED pool_exit
  /\ UNCHANGED <<worker, doing, threads, stopped, being_stopped, beacons, eventVars,
                 settings, removals, late>>

ExitEnds ==
  /\ ~hurt /\ pool_exit = "drained" /\ pool_exit' = "done"
  /\ UNCHANGED <<pool_queue, worker, doing, threads, stopped, being_stopped, beacons,
                 fate, eventVars, settings, removals, late, hurt>>

PoolThread(w) ==
  \/ PopTask(w) \/ Timeout(w) \/ ResizeByThread(w) \/ StartTask(w) \/ EndTask(w)
  \/ ProcessEvents(w) \/ WalkEvents(w) \/ \E finished \in BOOLEAN : EndHandler(w, finished)
  \/ LeavePool(w) \/ PushReap(w) \/ TakeStopped(w) \/ Join(w) \/ UseFreedPool(w)
PoolExit == ExitBeacons \/ ExitThreads \/ ExitFree \/ ExitDrain \/ ExitEnds

PoolNext ==
  \/ \E t \in Tasks : CheckTask(t) \/ PushTask(t)
  \/ \E e \in Events : CheckEvent(e) \/ NewEvent(e) \/ RemoveEvent(e)
  \/ RemoveThreads \/ AddByCaller \/ ResizeByReader \/ BeingClosed
  \/ \E w \in Workers : PoolThread(w)
  \/ PoolExit

\* Threads go on until they end, and so does the exit once it has begun; what
\* callers do is up to them.
PoolFairness == (\A w \in Workers : WF_poolVars(PoolThread(w))) /\ WF_poolVars(PoolExit)
PoolSpec == PoolInit /\ [][PoolNext]_poolVars /\ PoolFairness

(* ----------------------------- properties ------------------------------- *)
\* myqtt_thread_pool_exit leaves nothing behind: every thread has been joined and every task
\* has been run or its data destroyed or, if a thread popped it during the exit, dropped.  It
\* may go wrong only where threads were removed or detached, or a caller came too late:
\* threads were added after the beacons, an event was installed or removed while the list of
\* events was freed or after, a task was pushed when the queue had been emptied.
ExitIsClean ==
  removals = 0 /\ ~late /\ ~skip_wait =>
    /\ ~hurt
    /\ PoolFreed => /\ \A w \in Workers : worker[w] = "none"
                /\ \A t \in Tasks : fate[t] \notin {"queued", "running"}

\* An event is never freed under its handler, and its handler never runs in two
\* threads, although anybody may remove it meanwhile.
EventsSafe ==
  \A w \in Workers : worker[w] = "handler" =>
    /\ event_refs[walk.event] >= 1
    /\ \A v \in Workers \ {w} : worker[v] \notin {"walk", "handler"}

\* A task that is queued is run, dropped or destroyed in the end, unless the beacons have
\* stopped every thread of the pool (OneThreadStays), or a caller came too late for the exit.
TasksSettle ==
  \A t \in Tasks : fate[t] = "queued" ~> (fate[t] # "queued" \/ threads = {} \/ late \/ hurt)

\* "the thread pool must have at minimum one thread running" (lib/myqtt-thread-pool.c:776).
\* Not so: with two threads at the start, two removals stop both.
OneThreadStays == ~being_stopped => threads # {}

\* "Data destroy function called when the task finally is not executed because MyQttCtx is
\* finishing" (lib/myqtt-thread-pool.c:916).  Not so: a thread that pops the task then drops it.
UnrunIsDestroyed == \A t \in Tasks : fate[t] # "dropped"
=============================================================================
