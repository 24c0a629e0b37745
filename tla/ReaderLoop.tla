----------------------------- MODULE ReaderLoop -----------------------------
(* The loop of the reader thread (lib/myqtt-reader.c) over the waiting          *)
(* mechanism it polls with (lib/myqtt-io.c): connections handed over through    *)
(* reader_queue, the set built and dispatched in every turn, requests to visit  *)
(* all connections, to let one go, to change the mechanism and to stop.         *)
EXTENDS Integers, Sequences, FiniteSets, SequencesExt

CONSTANTS
  Watchable,    \* connections and listeners
  Listeners,    \* the ones of srv_list
  Visitors,     \* calls of myqtt_reader_foreach by the API
  MaxSet,       \* descriptors the mechanism takes
  MaxCalls      \* bound on the visits and changes of mechanism asked for

ASSUME ReaderAssumption ==
  /\ Listeners \subseteq Watchable /\ Visitors \cap Watchable = {}
  /\ MaxSet \in Nat /\ MaxCalls \in Nat

VARIABLES
  reader_queue,   \* ctx->reader_queue, oldest first
  reader,         \* where __myqtt_reader_run is
  resume,         \* who called __myqtt_reader_change_io_mech
  pending,        \* items read_pending has still to read
  visiting,       \* what the current pass over the lists has still to visit
  conn_list,      \* conn_list and srv_list
  on_reading,     \* the set that is polled
  ready,          \* what the poll reported
  error_tries,
  holder,         \* owner of each connection: "new", "held", "gone"
  refs,           \* ref_count of each connection
  is_connected,          \* myqtt_conn_is_ok
  reader_unwatch, \* the flag, and the handler stored beside it
  after_unwatch,
  unwatch,        \* the call of myqtt_reader_unwatch_connection, or its task
  notify,         \* of each visitor, and of the task of each connection
  reader_stopped, \* items of ctx->reader_stopped
  io_change,      \* myqtt_io_waiting_use
  reader_stop,    \* myqtt_reader_stop
  swallowed       \* history: requests read in place of IO_WAIT_READY

connVars == <<holder, refs, is_connected, reader_unwatch, after_unwatch, unwatch, notify>>
loopVars == <<reader, resume, pending, visiting, conn_list, on_reading, ready, error_tries>>
callVars == <<reader_stopped, io_change, reader_stop, swallowed>>
readerVars == <<reader_queue, loopVars, connVars, callVars>>

QueueItem(type, of) == [type |-> type, of |-> of]
Callers == Visitors \cup Watchable   \* an unwatch visits on behalf of its connection
Terminate == QueueItem("terminate", "reader")
QueueItems ==
  {QueueItem(type, c) : type \in {"connection", "listener"}, c \in Watchable}
  \cup {QueueItem("foreach", v) : v \in Callers}
  \cup {QueueItem(type, "reader") : type \in {"changed", "ready", "terminate"}}

ReaderInit ==
  /\ reader_queue = <<>> /\ reader = "first" /\ resume = "first" /\ pending = 0
  /\ visiting = {} /\ conn_list = {} /\ on_reading = {} /\ ready = {} /\ error_tries = 0
  /\ holder = [c \in Watchable |-> "new"] /\ refs = [c \in Watchable |-> 1]
  /\ is_connected = [c \in Watchable |-> TRUE]
  /\ reader_unwatch = [c \in Watchable |-> FALSE]
  /\ after_unwatch = [c \in Watchable |-> FALSE]
  /\ unwatch = [c \in Watchable |-> "no"] /\ notify = [v \in Callers |-> "no"]
  /\ reader_stopped = 0 /\ io_change = "no" /\ reader_stop = "no" /\ swallowed = {}

ReaderTypeOK ==
  /\ reader_queue \in Seq(QueueItems)
  /\ reader \in {"first", "check", "build", "poll", "dispatch", "pending", "foreach",
                 "changing", "stopped", "dead"}
  /\ resume \in {"first", "pending"} /\ pending \in Nat /\ error_tries \in 0 .. 1
  /\ visiting \subseteq Watchable /\ conn_list \subseteq Watchable
  /\ on_reading \subseteq conn_list /\ ready \subseteq on_reading
  /\ holder \in [Watchable -> {"new", "held", "gone"}]
  /\ is_connected \in [Watchable -> BOOLEAN] /\ reader_unwatch \in [Watchable -> BOOLEAN]
  /\ after_unwatch \in [Watchable -> BOOLEAN] /\ refs \in [Watchable -> Int]
  /\ unwatch \in [Watchable -> {"no", "plain", "asked", "found", "absent", "data",
                                "flagged", "called"}]
  /\ notify \in [Callers -> {"no", "waiting", "done"}]
  /\ reader_stopped \in Nat
  /\ io_change \in {"no", "waiting", "changing", "done"}
  /\ reader_stop \in {"no", "waiting", "joining", "returned"} /\ swallowed \subseteq Callers \cup {"reader"}

DropRef(c) == refs' = [refs EXCEPT ![c] = @ - 1]
MoreCalls ==
  Cardinality({v \in Callers : notify[v] # "no"}) + (IF io_change = "no" THEN 0 ELSE 1)
    < MaxCalls
ReaderAlive == reader \notin {"stopped", "dead"}

(* -------------------------------- callers ------------------------------- *)
Ref(c) == refs' = [refs EXCEPT ![c] = @ + 1]
Push(item) == reader_queue' = Append(reader_queue, item)

\* myqtt_reader_watch_connection, which takes a reference of its own, and
\* myqtt_reader_watch_listener, which is given the creator's
WatchConnection(c) ==
  /\ holder[c] = "new" /\ reader_stop = "no" /\ (is_connected[c] \/ c \in Listeners)
  /\ IF c \in Listeners
     THEN /\ holder' = [holder EXCEPT ![c] = "gone"] /\ UNCHANGED refs
          /\ Push(QueueItem("listener", c))
     ELSE /\ holder' = [holder EXCEPT ![c] = "held"] /\ Ref(c)
          /\ Push(QueueItem("connection", c))
  /\ UNCHANGED <<loopVars, is_connected, reader_unwatch, after_unwatch, unwatch, notify, callVars>>

\* the peer, an error or a call shuts it down
Shutdown(c) ==
  /\ is_connected[c] /\ holder[c] # "new"
  /\ is_connected' = [is_connected EXCEPT ![c] = FALSE]
  /\ UNCHANGED <<reader_queue, loopVars, holder, refs, reader_unwatch, after_unwatch,
                 unwatch, notify, callVars>>

\* its owner, unless it waits for the handler
Release(c) ==
  /\ holder[c] = "held" /\ unwatch[c] \in {"no", "plain", "called"}
  /\ holder' = [holder EXCEPT ![c] = "gone"] /\ DropRef(c)
  /\ UNCHANGED <<reader_queue, loopVars, is_connected, reader_unwatch, after_unwatch, unwatch,
                 notify, callVars>>

\* myqtt_reader_foreach; myqtt_reader_restart gives no function
Ask(v) == notify' = [notify EXCEPT ![v] = "waiting"] /\ Push(QueueItem("foreach", v))

Foreach(v) ==
  /\ notify[v] = "no" /\ reader_stop = "no" /\ MoreCalls /\ Ask(v)
  /\ UNCHANGED <<loopVars, holder, refs, is_connected, reader_unwatch, after_unwatch, unwatch,
                 callVars>>

\* without a handler the flag is all; with it a task visits the connections first
UnwatchPlain(c) ==
  /\ holder[c] = "held" /\ unwatch[c] = "no" /\ reader_stop = "no"
  /\ unwatch' = [unwatch EXCEPT ![c] = "plain"]
  /\ reader_unwatch' = [reader_unwatch EXCEPT ![c] = TRUE]
  /\ UNCHANGED <<reader_queue, loopVars, holder, refs, is_connected, after_unwatch, notify, callVars>>

Unwatch(c) ==
  /\ holder[c] = "held" /\ unwatch[c] = "no" /\ reader_stop = "no"
  /\ MoreCalls /\ unwatch' = [unwatch EXCEPT ![c] = "asked"] /\ Ask(c)
  /\ UNCHANGED <<loopVars, holder, refs, is_connected, reader_unwatch, after_unwatch, callVars>>

\* the rest of __myqtt_reader_unwatch_connection_launch: the handler is called at
\* once for what is not watched, or stored, before the flag, for the reader to call
CallAbsent(c) ==
  /\ unwatch[c] = "absent" /\ unwatch' = [unwatch EXCEPT ![c] = "called"]
  /\ UNCHANGED <<reader_queue, loopVars, holder, refs, is_connected, reader_unwatch,
                 after_unwatch, notify, callVars>>

StoreHandler(c) ==
  /\ unwatch[c] = "found" /\ unwatch' = [unwatch EXCEPT ![c] = "data"]
  /\ after_unwatch' = [after_unwatch EXCEPT ![c] = TRUE]
  /\ UNCHANGED <<reader_queue, loopVars, holder, refs, is_connected, reader_unwatch, notify, callVars>>

SetUnwatch(c) ==
  /\ unwatch[c] = "data" /\ unwatch' = [unwatch EXCEPT ![c] = "flagged"]
  /\ reader_unwatch' = [reader_unwatch EXCEPT ![c] = TRUE]
  /\ UNCHANGED <<reader_queue, loopVars, holder, refs, is_connected, after_unwatch, notify, callVars>>

UnwatchTask(c) == CallAbsent(c) \/ StoreHandler(c) \/ SetUnwatch(c)

\* myqtt_io_waiting_use: the reader has to let the set go before it is replaced
IoChange ==
  /\ \/ /\ io_change = "no" /\ reader_stop = "no" /\ MoreCalls
        /\ io_change' = "waiting"
        /\ Push(QueueItem("changed", "reader"))
        /\ UNCHANGED reader_stopped
     \/ /\ io_change = "waiting" /\ reader_stopped > 0
        /\ io_change' = "changing" /\ reader_stopped' = reader_stopped - 1
        /\ UNCHANGED reader_queue
     \/ /\ io_change = "changing" /\ io_change' = "done"
        /\ Push(QueueItem("ready", "reader"))
        /\ UNCHANGED reader_stopped
  /\ UNCHANGED <<loopVars, connVars, reader_stop, swallowed>>

\* myqtt_reader_stop: it joins the thread once it has an answer, which may be the
\* one of a change in progress, and gives up after a minute without one
ReaderStop ==
  /\ \/ /\ reader_stop = "no" /\ reader_stop' = "waiting"
        /\ Push(Terminate) /\ UNCHANGED reader_stopped
     \/ /\ reader_stop = "waiting" /\ reader_stopped > 0
        /\ reader_stop' = "joining" /\ reader_stopped' = reader_stopped - 1
        /\ UNCHANGED reader_queue
     \/ /\ \/ reader_stop = "joining" /\ ~ReaderAlive
           \/ reader_stop = "waiting" /\ (reader = "dead" \/ "reader" \in swallowed)
        /\ reader_stop' = "returned" /\ UNCHANGED <<reader_queue, reader_stopped>>
  /\ UNCHANGED <<loopVars, connVars, io_change, swallowed>>

(* ------------------------------- the loop ------------------------------- *)
Enter(state) == reader' = state

Listed(item) == item.type = "listener" \/ (item.type = "connection" /\ is_connected[item.of])
\* Mutant: without releasing what has been closed.
RegisterAll(item) ==
  /\ conn_list' = IF Listed(item) THEN conn_list \cup {item.of} ELSE conn_list
  /\ UNCHANGED refs
\* myqtt_reader_register_watch: what has been closed meanwhile is released
Register(item) ==
  /\ conn_list' = IF Listed(item) THEN conn_list \cup {item.of} ELSE conn_list
  /\ IF item.type = "connection" /\ ~is_connected[item.of] THEN DropRef(item.of) ELSE UNCHANGED refs

\* myqtt_reader_foreach_impl: the visit an unwatch asks for finds what is ok
Visit(v) ==
  /\ notify' = [notify EXCEPT ![v] = "done"]
  /\ unwatch' = IF v \notin Watchable THEN unwatch
                ELSE [unwatch EXCEPT ![v] = IF v \in conn_list /\ is_connected[v] THEN "found"
                                            ELSE "absent"]

\* __myqtt_reader_change_io_mech until it waits for the next item
LetGo == /\ on_reading' = {} /\ reader_stopped' = reader_stopped + 1
         /\ resume' = reader /\ Enter("changing")

\* __myqtt_reader_stop_process: every connection is shut down and released, the
\* items left in the queue are not
StopProcess ==
  /\ Enter("stopped") /\ on_reading' = {} /\ conn_list' = {}
  /\ is_connected' = [c \in Watchable |-> is_connected[c] /\ c \notin conn_list]
  /\ refs' = [c \in Watchable |-> IF c \in conn_list THEN refs[c] - 1 ELSE refs[c]]
  /\ reader_stopped' = reader_stopped + 1

\* an item for myqtt_reader_read_queue, while nothing is watched, and for
\* myqtt_reader_read_pending later
TakeItem(type) ==
  /\ reader = "first" \/ (reader = "pending" /\ pending > 0)
  /\ reader_queue # <<>> /\ Head(reader_queue).type \in type
  /\ reader_queue' = Tail(reader_queue)
  /\ pending' = IF reader = "pending" THEN pending - 1 ELSE pending
  /\ UNCHANGED <<visiting, ready, error_tries, holder, reader_unwatch, after_unwatch,
                 io_change, reader_stop, swallowed>>

ReadTerminate ==
  /\ TakeItem({"terminate"}) /\ StopProcess
  /\ UNCHANGED <<resume, notify, unwatch>>

ReadChanged ==
  /\ TakeItem({"changed"}) /\ LetGo
  /\ UNCHANGED <<conn_list, refs, is_connected, notify, unwatch>>

ReadItem ==
  /\ TakeItem({"connection", "listener", "foreach", "ready"})
  /\ LET item == Head(reader_queue)
     IN  /\ Register(item)
         /\ IF item.type = "foreach" THEN Visit(item.of) ELSE UNCHANGED <<notify, unwatch>>
         /\ Enter(IF reader = "pending" THEN "pending"
                  ELSE IF item.type = "connection" /\ ~Listed(item) THEN "first" ELSE "check")
  /\ UNCHANGED <<resume, on_reading, is_connected, reader_stopped>>

\* the item after IO_WAIT_CHANGED is taken for IO_WAIT_READY: a connection is
\* registered, but nobody answers a visit or an order to stop
ReadReady ==
  /\ reader = "changing" /\ reader_queue # <<>>
  /\ LET item == Head(reader_queue)
     IN  /\ Register(item)
         /\ swallowed' = IF item.type \in {"foreach", "terminate"}
                         THEN swallowed \cup {item.of} ELSE swallowed
  /\ reader_queue' = Tail(reader_queue)
  /\ Enter(IF resume = "first" THEN "check" ELSE "pending") /\ resume' = "first"
  /\ UNCHANGED <<pending, visiting, on_reading, ready, error_tries, holder, is_connected,
                 reader_unwatch, after_unwatch, unwatch, notify, reader_stopped, io_change,
                 reader_stop>>

ReadPendingEnds ==
  /\ reader = "pending" /\ pending = 0 /\ Enter("check")
  /\ UNCHANGED <<reader_queue, resume, pending, visiting, conn_list, on_reading, ready,
                 error_tries, connVars, callVars>>

\* with nothing watched it waits for the first connection
Check ==
  /\ reader = "check" /\ on_reading' = {}
  /\ IF conn_list = {} THEN Enter("first") /\ UNCHANGED visiting
     ELSE Enter("build") /\ visiting' = conn_list
  /\ UNCHANGED <<reader_queue, resume, pending, conn_list, ready, error_tries, connVars,
                 callVars>>

(* __myqtt_reader_build_set_to_watch_aux for a connection *)
Building(c) ==
  /\ reader = "build" /\ c \in visiting /\ visiting' = visiting \ {c}
  /\ UNCHANGED <<reader_queue, reader, resume, pending, ready, error_tries, holder,
                 after_unwatch, notify, callVars>>
Unlink(c) == conn_list' = conn_list \ {c} /\ DropRef(c)

BuildClosed(c) ==
  /\ Building(c) /\ ~is_connected[c] /\ Unlink(c)
  /\ UNCHANGED <<on_reading, is_connected, reader_unwatch, unwatch>>

\* Mutant: the reader keeps the connection.
BuildUnwatchedKeeps(c) ==
  /\ Building(c) /\ is_connected[c] /\ reader_unwatch[c] /\ UNCHANGED <<conn_list, refs>>
  /\ reader_unwatch' = [reader_unwatch EXCEPT ![c] = FALSE]
  /\ unwatch' = IF after_unwatch[c] THEN [unwatch EXCEPT ![c] = "called"] ELSE unwatch
  /\ UNCHANGED <<on_reading, is_connected>>
\* it leaves the list before the handler is called
BuildUnwatched(c) ==
  /\ Building(c) /\ is_connected[c] /\ reader_unwatch[c] /\ Unlink(c)
  /\ reader_unwatch' = [reader_unwatch EXCEPT ![c] = FALSE]
  /\ unwatch' = IF after_unwatch[c] THEN [unwatch EXCEPT ![c] = "called"] ELSE unwatch
  /\ UNCHANGED <<on_reading, is_connected>>

BuildAdd(c) ==
  /\ Building(c) /\ is_connected[c] /\ ~reader_unwatch[c] /\ Cardinality(on_reading) < MaxSet
  /\ on_reading' = on_reading \cup {c}
  /\ UNCHANGED <<conn_list, refs, is_connected, reader_unwatch, unwatch>>

\* the set is full
BuildAddFails(c) ==
  /\ Building(c) /\ is_connected[c] /\ ~reader_unwatch[c] /\ Cardinality(on_reading) >= MaxSet
  /\ Unlink(c) /\ is_connected' = [is_connected EXCEPT ![c] = FALSE]
  /\ UNCHANGED <<on_reading, reader_unwatch, unwatch>>

\* the wait: nothing, an interruption, descriptors that are ready
Poll ==
  /\ reader = "build" /\ visiting = {} /\ error_tries' = 0
  /\ \E changed \in SUBSET on_reading :
       /\ ready' = changed
       /\ IF changed = {} THEN Enter("pending") /\ pending' = Len(reader_queue)
          ELSE Enter("dispatch") /\ UNCHANGED pending
  /\ UNCHANGED <<reader_queue, resume, visiting, conn_list, on_reading, connVars, callVars>>

\* the second error in a row ends the thread, and nobody is told
PollFails ==
  /\ reader = "build" /\ visiting = {} /\ error_tries' = 1
  /\ Enter(IF error_tries = 1 THEN "dead" ELSE "check")
  /\ UNCHANGED <<reader_queue, resume, pending, visiting, conn_list, on_reading, ready,
                 connVars, callVars>>

\* __myqtt_reader_process_socket or myqtt_listener_accept_connections: reads, and
\* may find that the connection is over
Dispatch(c) ==
  /\ reader = "dispatch" /\ c \in ready /\ ready' = ready \ {c}
  /\ \E open \in BOOLEAN :
       /\ open \/ (~reader_unwatch[c] /\ c \notin Listeners)
       /\ is_connected' = [is_connected EXCEPT ![c] = @ /\ open]
  /\ UNCHANGED <<reader_queue, reader, resume, pending, visiting, conn_list, on_reading,
                 error_tries, holder, refs, reader_unwatch, after_unwatch, unwatch, notify,
                 callVars>>

\* Mutant: the queue is only read after a turn without traffic.
DispatchSkips ==
  /\ reader = "dispatch" /\ ready = {}
  /\ Enter("check") /\ UNCHANGED pending
  /\ UNCHANGED <<reader_queue, resume, visiting, conn_list, on_reading, ready, error_tries,
                 connVars, callVars>>
DispatchEnds ==
  /\ reader = "dispatch" /\ ready = {}
  /\ Enter("pending") /\ pending' = Len(reader_queue)
  /\ UNCHANGED <<reader_queue, resume, visiting, conn_list, on_reading, ready, error_tries,
                 connVars, callVars>>

Build(c) == BuildClosed(c) \/ BuildUnwatched(c) \/ BuildAdd(c) \/ BuildAddFails(c)
ReaderStep ==
  \/ ReadTerminate \/ ReadChanged \/ ReadItem \/ ReadReady \/ ReadPendingEnds
  \/ Check \/ Poll \/ PollFails \/ DispatchEnds
  \/ \E c \in Watchable : Build(c) \/ Dispatch(c)

ReaderNext ==
  \/ \E c \in Watchable : \/ WatchConnection(c) \/ Shutdown(c) \/ Release(c)
                          \/ UnwatchPlain(c) \/ Unwatch(c) \/ UnwatchTask(c)
  \/ \E v \in Visitors : Foreach(v)
  \/ IoChange \/ ReaderStop \/ ReaderStep

\* The reader goes on until it is stopped, and so do the tasks that unwatch and the
\* change of mechanism.
ReaderFairness ==
  /\ WF_readerVars(ReaderStep) /\ WF_readerVars(\E c \in Watchable : UnwatchTask(c))
  /\ WF_readerVars(io_change # "no" /\ IoChange)
ReaderSpec == ReaderInit /\ [][ReaderNext]_readerVars /\ ReaderFairness

(* ------------------------------ properties ------------------------------ *)
\* A connection the reader polls or dispatches is referenced, although everybody
\* else may close it and release it between the build, the poll and the dispatch;
\* and no connection that nothing holds keeps a reference, unless the reader has
\* ended with items unread.
PolledIsReferenced ==
  \A c \in Watchable :
    /\ c \in on_reading \cup conn_list => refs[c] >= 1
    /\ c \notin conn_list /\ holder[c] = "gone" /\ reader_queue = <<>> => refs[c] = 0

\* The handler of myqtt_reader_unwatch_connection gets a connection the reader does
\* not watch, unless it is closed: the visit does not find one that broke although
\* it is still in the list.
HandlerOwns ==
  \A c \in Watchable : unwatch[c] = "called" /\ is_connected[c] => c \notin conn_list

\* Calls of myqtt_reader_foreach (each caller makes one) are answered, unless the reader
\* has ended or the request was read by a change of the mechanism in progress.
ForeachIsAnswered ==
  (\E v \in Callers : notify[v] = "waiting")
    ~> (ReaderAlive => \A v \in Callers : notify[v] = "waiting" => v \in swallowed)
=============================================================================
