# MyQtt in TLA+

Specifications of MyQtt, an MQTT 3.1.1 library and broker in C, with the TLC
instances that check them and the proofs TLAPS checks.  Source paths are relative to
`src/`; `lib/` is the library, `server/` the `myqttd` broker built on it.

## 1. The system

One process holds a context (`MyQttCtx`) with its threads: a **reader** that polls
every watched connection and reads packets, a **sequencer** that writes every queued
packet, a **pool** that runs one task per packet received, and the **callers** of the
API.  They share the connections (`MyQttConn`, reference counted), the subscription
tables of the context and the files of each session.  The broker has a context whose
listeners accept connections, and one more context for each domain, to which a
connection is handed over once CONNECT tells which domain it is for.

| Component (code) | State | Operations | Interacts with | What is hard | What makes it correct |
|---|---|---|---|---|---|
| Sequencer (`lib/myqtt-sequencer.c`, `myqtt_msg_send_raw`, `myqtt_conn_close`) | `pending_messages` with one cursor, a step per message, `sequencer_messages` and references per connection | queue, write a piece of 4096 bytes, drop, release; close: flush, DISCONNECT, shut down | every caller, reader and pool task queues; close waits for its counter | full and broken sockets, removal under the cursor, a close racing both | no piece skipped or repeated; FIFO for short messages; flush before DISCONNECT; everything released; close returns |
| Packet identifiers, wait replies (`lib/myqtt-conn.c`, `lib/myqtt-reader.c`) | `sent_pkgids`, lock files of the session, `wait_replies` and its queues | allocate, lock, release; install a queue, wait, deliver a reply, time out | publications, subscriptions, reader, storage | late replies, identifiers kept after a failure, 16 bits, recovered sessions | no two operations share one; nothing leaks; a reply goes to its own request |
| Subscriptions, delivery (`lib/myqtt-reader.c`) | `ctx->subs`, `wild_subs`, offline tables, `conn->subs`, `subs_m`, `publish_ops` | SUBSCRIBE, UNSUBSCRIBE, DISCONNECT, clean-up, publication, will | pool tasks and the reader; a delivery waits for replies the reader takes | tables walked without a lock; connections freed; the reader waiting at the gate | static under a publication; who is due is served; nothing freed in use; no deadlock |
| QoS 1 and 2 exchanges (`myqtt_conn_pub`, `myqtt_conn_offline_pub`, `myqtt_storage_queued_flush`, `__myqtt_reader_handle_publish`) | `msgs` files of a session, where each exchange is, delivery tasks of the other end | store, send, acknowledge, release, flush at CONNECT | packet identifiers, storage, pool | connections that break at any step, crash of the sender, files written in part, a flush next to a live sender and with the QoS as it is in the file name | success is reported only for what was handed over; nothing disappears |
| Sessions (`__myqtt_reader_handle_connect`, `myqtt_conn_send_connect_reply`, `lib/myqtt-storage.c`) | `client_ids`, tables of the connection, of the context and offline, `subs` files | CONNECT, recovery, clean session, DISCONNECT, clean-up, restart | all of the above | CONNECT, SUBSCRIBE, clean-up and DISCONNECT interleave table by table | what was granted stays reachable and stored; one owner per identifier |
| Reader loop (`lib/myqtt-reader.c`, `lib/myqtt-io.c`) | `reader_queue`, `conn_list`, `srv_list`, the set it polls | watch, unwatch, visit, change of mechanism, stop; build, poll, dispatch | every thread through the queue | connections that break or are released between build, poll and dispatch | what is polled is referenced; visits are answered; an unwatched connection is its handler's |
| Thread pool (`lib/myqtt-thread-pool.c`, `myqtt-thread.c`) | threads, queue, events, beacons | new task, new event, add, remove, resize, exit | everybody | resizing and exit while it works and callers go on calling | tasks settle; events are not freed under their handler; the exit leaves nothing in use |
| Connections (`lib/myqtt-conn.c`) | `is_connected`, session, `ref_count`, `on_close` handlers, options | open, greet, break, notify, reconnect, close | reader, pool | reconnects, breaks, handlers and close at once | references are exactly the holders; handlers are told |
| Listeners (`lib/myqtt-listener.c`) | references of a listener, connections being accepted, the queue of `myqtt_listener_wait` | accept, filter, register, shut down, wait, unlock | reader, broker signals | a shutdown while the reader accepts; two mutexes around one queue | a listener outlives its connections; a shutdown reaches all; the waiter is woken |
| Packets (`lib/myqtt-msg.c`) | the partial packet of a connection | remaining-length codec, `myqtt_msg_get_next` | reader | a packet in many reads | packets are read whole and in order however the bytes arrive |
| Topic filters (`lib/myqtt-reader.c`) | none | match, validate | subscriptions | wild cards at the ends | agrees with MQTT's rule by levels |
| Retained messages (`lib/myqtt-storage.c`) | two files per message | set, release, recover | publications, SUBSCRIBE | no lock, two files, failed writes, crashes | a subscriber gets the last one, of its own topic |
| Domains (`server/myqttd-domain.c`, `myqttd-users.c`) | the table of domains, users loaded of each | load, load again, search by names, by authentication | configuration, CONNECT | fields of a domain written with no lock under those who read them, lazy loading that may fail | a client is handed to a domain that authenticated it |
| Hand-over (`server/myqttd-run.c`) | `client_ids` of both contexts, the copy of the connection | start of a domain, limit, take the identifier, copy, watch, reply | both readers, storage | the original or the copy breaks at any step; another client has the identifier | no freed connection in the table |
| Storage quota (`server/myqttd-run.c`) | a counter per client, the files | on_store, on_release | storage | read and written in two calls | the counter follows the directory |
| Context, hash tables, support; processes, modules, logs; TLS, WebSocket, Python, command line | | | | | not modelled, see 6 |

`PROJECT.json` has the full list with the status of each part, and the hazards: the
lines where something hard to test could go wrong, with the properties about them.

## 2. Modules

| Module | Models | State and actions against the code |
|---|---|---|
| `Sequencer` | the sequencer and `myqtt_conn_close` | a variable per field (`pending_messages`, `sequencer_messages`, ...); `QueueRef`, `QueueCount`, `QueueAppend` are the three places where `myqtt_sequencer_send` can be interrupted; `WriteStep`, `WriteFails`, `WriteTorn`, `DropMessage` one iteration of `__myqtt_sequencer_run`; `Close*` the steps of `myqtt_conn_close` |
| `OrderedChannel` | abstract: each connection is a lossy channel in which only long messages are overtaken | refined by `Sequencer` (`ImplementsChannel`): queue and delivered are computed from the list and the wire |
| `PacketIds` | identifiers and reply queues of one connection | `Allocate` is `__myqtt_conn_get_next_pkgid` under its mutex, with the scan of the list as the code does it; `Prepare` .. `Complete` an operation; `HandleReply` the pool task that delivers a reply |
| `Subscriptions` | the gate around the tables | `TaskGate` waits for `publish_ops = 0` and keeps `subs_m`; a publication visits entries one by one; the reader is one process that does DISCONNECT or the clean-up of one connection, table by table |
| `QosExchange` | both ends of a session | senders are the callers of `myqtt_conn_pub` and the flush of each connection; `tasks` are PUBLISH packets and the task that serves each at the other end; `SkipsStorage` says when the QoS in a file name makes the flush wait for both replies and release nothing (`TakeBoth`); `StoreFails` may leave part of a file; `Crash` leaves only `stored` |
| `Sessions` | client identifiers and where the subscriptions of a session are | CONNECT, SUBSCRIBE and UNSUBSCRIBE tasks at each of their steps; the reader doing DISCONNECT (`ReleaseId`, `MoveOffline`) or a clean-up (`CleanId`, `CleanExact`, `CleanWild`); `Restart` is `myqtt_storage_load` |
| `ThreadPool` | dispatcher, tasks, events, beacons, resize, `myqtt_thread_pool_exit` | each worker is where its dispatcher is; the beacons are items of `pool_queue`, as in the code; `walk` is the one walk of the events, with its iterator and the length it read; callers act as the code lets them: `CheckTask` and `CheckEvent` look at the exit without the mutex, `PushTask` and `NewEvent` come later, `AddByCaller`, `RemoveThreads` and `RemoveEvent` do not look |
| `ReaderLoop` | `__myqtt_reader_run` | `reader` is the place in the loop; `reader_queue` holds what others hand over; a turn is `Check`, `Build*` one connection at a time, `Poll`, `Dispatch`; the environment watches, unwatches, visits, breaks and releases |
| `Connections` | one client connection | openers are the caller of `myqtt_conn_new` and the reconnect events; `breaking` are the threads inside `__myqtt_conn_set_not_connected`; `Close*` are `myqtt_conn_close` |
| `Listeners` | a listener, its shutdown, and `myqtt_listener_wait`/`unlock` | accepting is three steps of the reader (`InitialAccept`, `AcceptFiltered` or `CompleteRegister`); a shutdown with its connections goes through `reader_queue`; the wait and the unlock take different mutexes, so each read and write of what they share is a step |
| `Packets` | the codec and `myqtt_msg_get_next` | the wire is a sequence of bytes of which some have arrived; each read of the code is an action |
| `TopicFilters` | `myqtt_reader_topic_filter_match` | one action per kind of step of its loop; `Matches` is the rule of MQTT 4.7 by levels |
| `RetainedMessages` | the two files of each message | each file operation is a step that may fail as its return says; topics share their hash, so that they share the directory; `Kill` at any point |
| `Domains` | loading and searching domains | `DomainAdd` finds or inserts a domain under the mutex of the table, `AddFrees`, `AddSets`, `AddActivates` write its fields without it; CONNECT tries the names a client gives (`FindByName`, `FindIfActive`) and then the walk over the table, which holds its mutex; `DoAuth` loads the users if they are not there, which may fail |
| `DomainHandover` | `myqttd_run_send_connection_to_domain` | a CONNECT task per connection, step by step, with the readers of both contexts and the `on_close` handlers |
| `StorageQuota` | `on_store` and `on_release` of a domain | the read and the write of the counter, and the change of the directory, are steps |
| `*Proofs` | | theorems, see 4 |
| `MC*` | instances | constants for TLC |

The modules overlap on purpose at their borders: `Sessions` takes a step under the
gate of `Subscriptions` as one step, which `GateIsExclusive` justifies;
`QosExchange` gives each message an identifier of its own, which is
`DistinctInFlight` of `PacketIds`; `PacketIds` takes a send as one step, which is what
`Sequencer` is about; `Connections` and `Listeners` take the list of the reader as a
number or a set, which is what `ReaderLoop` is about; `Subscriptions` takes the
relation of topics and filters as a constant, which is what `TopicFilters` computes.

`MCThreads` and `MCBroker` compose modules that share no variable: a variable `part`,
fixed at the start, says which of them moves, and the others stay as they began.  What
they check of a module is what a run of its own would check.

In each module a definition preceded by a `Mutant:` comment is a plausible mistake in
the definition after it; no specification uses it, it shows that a property can fail.

Variables that are history and not in the code: `due`, `visited`, `delivered`,
`unsettled` (`Subscriptions`), `due`, `torn`, `wire` (`Sequencer`), `accepted`
(`PacketIds`), `accepted`, `dropped`, `handed` (`QosExchange`), `granted`, `abrupt`,
`taken` (`Sessions`), `removals`, `late`, `hurt` (`ThreadPool`), `swallowed`
(`ReaderLoop`), `torn` (`Packets`), `expected`, `consumed`, `overlapped`,
`cut` (`RetainedMessages`), `apart`, `rough` (`StorageQuota`), `before`, `listener_hurt`,
`missed`, `wait_hurt` (`Listeners`).

## 3. What the runs check

| Run | Instance | Shows |
|---|---|---|
| `sequencer` | one connection, three messages of which one needs two pieces, at most one torn write | `FlushedBeforeDisconnect`, `PendingIsReferenced`; the refinement `ImplementsChannel`; `QueuedIsReleased` and `CloseReturns` under fairness |
| `sequencer_whole` | the same, no torn write | **contradicted**: packets longer than 4096 bytes arrive whole |
| `pkgids` | two QoS 2 publications and a subscription over two identifiers, session new or recovered with identifier 1 locked | `DistinctInFlight`, `IdsAccounted`, `WaitEntryIsLive`, `ReplyIsOwn` on sessions that begin with the connection |
| `pkgids_recovered` | three identifiers | **contradicted**: identifiers are distinct over a recovered session too |
| `subscriptions` | two connections (one with a session and a will), two of three requests, one publication | `GateIsExclusive`, `DueIsServed`, `FreedIsUnused`, `RefsBalance`; `GateOpensAgain` under fairness |
| `subscriptions_freed` | as `subscriptions` | **contradicted**: no table holds a freed connection |
| `qos` | a message of QoS 1 or 2, published or queued offline, over at most two connections; one of each queued offline over one | `ReportedIsHanded`, `NotLost`; `ExchangesEnd`, `QueuedIsFlushed` under fairness |
| `qos_once` | the same | **contradicted**: QoS 2 is handed over once |
| `sessions` | a client with a session and two filters, another connection with its identifier asking for a clean session, each connection replaced as often as it likes | `GrantedIsReachable`, `ReturnsWithAll`, `GrantedIsStored`, `TablesAgree` |
| `sessions_one` | the same | **contradicted**: one connection per client identifier |
| `threads`, part `pool` | two threads, one task, one event, one removal, both settings of `preemtive` and of the wait at exit | `ExitIsClean`, `EventsSafe`; `TasksSettle` under fairness |
| `threads`, part `reader` | a connection and a listener, one visitor, two calls | `PolledIsReferenced`, `HandlerOwns`; `ForeachIsAnswered` under fairness |
| `broker`, part `packets` | two packets with bodies of 0 and 5 bytes, cut anywhere, one read without data | `PacketsReadWhole` |
| `broker`, part `topics` | every topic and filter up to four characters over one letter, `/`, `$`, `+`, `#` | `FiltersAgree` |
| `broker`, part `retained` | two threads, two topics of one hash, two messages stored, one recovered or released, one kill | `RetainedIsLast` |
| `broker`, part `connection` | one handler, two reconnect events, two breaks, each kind of options | `RefsAreHeld`, `HandlersAreCalled` |
| `broker`, part `domains` | two domains, two users databases, three clients (names in agreement, in disagreement, none), one SIGHUP | `HandedToItsOwn` |
| `broker`, part `handover` | two connections of one identifier, both settings of `drop-conn-same-client-id` | `EntryIsAlive` |
| `broker`, part `quota` | three messages of which one is stored for a client that is away | `CounterFollowsDisk` |
| `broker`, part `listener` | two connections, two shutdowns | `ListenerIsAlive`, `ShutdownReachesAll` |
| `broker`, part `waiting` | one waiter, two unlocks | `WaiterIsWoken` |

`broker` also checks `BrokerTypeOK`, the types of its modules; the types of the other
modules are theorems (section 4).

Bounds, and why they are enough:

- *sequencer*: three messages give a first, a middle and a last position for the
  cursor, removal at each, and a long message overtaken by two; connections do not
  share anything but the list, so one connection has all the interference of a list
  with messages before and after.  `MaxTorn` bounds writes that a full socket cuts.
- *pkgids*: `MaxId` stands for 65535; two identifiers make the list full with three
  operations, which is where the scan goes past the end.  With three the recovered
  session shows its collision without overflow.
- *subscriptions*: two connections are a subscriber being served and another being
  cleaned up, subscribed, unsubscribed or served after it; one exact and one wild
  filter are the two tables.  `MCNext` lets at most two of the requests be made: no
  request is under a fairness condition, so the bound removes behaviours and none of
  their ends.
- *qos*: two connections are the one a message is published over and one whose flush
  takes it up.  `MaxConns` is the bound; `MCNext` has both messages only when both are
  queued and over the first connection, again on steps with no fairness: two files are
  what a flush goes through, one message is what several connections meet over.
- *sessions*: two connections of one identifier are the owner and a rival, and a slot
  that is gone is used again, so their number is not bounded.  Identifiers do not share
  any entry, so one is enough.
- *threads*: two threads are the one that walks the events or exits and the one that
  does something else; `MaxRemovals`, `MaxCalls` bound calls of the API; `MaxSet` is
  the size of the mechanism's set, small enough to be full.
- *broker*: `Radix` is 128 in the code; with 2 a body of 5 bytes has a length of three
  digits, so each kind of header is read in each way it can be cut (the codec itself is
  proved for every radix).  `MaxNoData` is 25 in the code.  Four characters hold three levels
  two of which are empty, and every pair of wild cards that fits; walks do not depend
  on which letter, nor on more than two levels at a time.  `MaxStored`, `MaxTaken`,
  `MaxKills`, `MaxBreaks`, `MaxListed`, `MaxReloads` and `Retries` (10 in the code)
  bound what the environment does; two threads, connections or shutdowns are enough
  for each pair of steps to meet.  `Quota` is 3 with sizes 1, 2 and 2: two messages
  fit, or one, depending on which.

`CHECK_DEADLOCK FALSE` everywhere: once every message, operation or request of the
instance is over the system rests.

**Fairness.**  A thread that is in the middle of an operation goes on: weak fairness
of the sequencer thread, of callers that have their reference, of a close, of pool
tasks, of the reader (it polls its list for ever), of each thread of the pool and of
the one that runs its exit, and of the senders, whose waits for replies are all timed.
Nothing is assumed of peers, of calls yet to be made, of sockets (a write may fail at
every try) or of failures.  Outside `ThreadPool` the pool starts every task: it has
threads as long as it is not exiting, which `TasksSettle` shows up to removals that
stop them all.

## 4. What is proved

Every theorem holds for all values of the constants that satisfy the `ASSUME` of its
module; those only say what the constants are (`RetainedAssumption` also that no topic
is the value `"none"`, which stands for no topic).  TLC checked the inductive
invariants below on the instance of their run before they were proved, but for those of
packets and topic filters, which quantify over all numbers.

- **`SequencerProofs`**: `TypeCorrect`, `PendingIsReferencedCorrect`,
  `FlushedBeforeDisconnectCorrect`, `SequencerImplementsChannel`.  The inequality of
  `PendingIsReferenced` is not inductive; `SequencerInv` has the equality behind it
  (`CountersExact`: the counter of a connection is the number of its messages that
  are counted, its references those between `myqtt_sequencer_send` and the release)
  and `ListSound` (what is in the list is there once and counted).  The flush follows
  from the counter `myqtt_conn_close` waits for (`FlushInv`: with it at 0 what was due is
  released, and while the connection works a released message is whole or torn).  For
  the refinement `WireInv` says of each message of the list which pieces are on the
  wire, and that those the cursor has passed have more than one; then the append to
  the list is an `Accept` (`AcceptMaps`), a release a `Deliver` or a `Lose` whose turn
  has come (`ReleaseMaps`), and every other step a stutter (`ChannelStep`).  The queue
  and what is delivered are computed from the list and the wire by folds, whose value
  after an append or a removal is shown by induction (`UpToExists`, `MsgsOfRemove`).
- **`PacketIdsProofs`**: `PacketIdsTypeCorrect`, `IdentifiersAreDistinct`,
  `NoIdentifierLeaks`, `RepliesAreOwn`, `EntriesAreLive`.  First what the scan of
  `__myqtt_conn_get_next_pkgid` computes, by induction over the prefixes of the list
  (`ScanIsBounded`, `ScanFindsTheRun`): an identifier that is not in the list, put
  where the list stays in ascending order (`NextPkgIdIsFree`).  `FreshInv`, of a
  session that began with the connection, then says where identifiers (`IdsInv`),
  installed queues (`EntriesInv`), requests and replies under way (`MessagesInv`) and
  queued answers (`QueuesInv`) are: each in one place, and of one operation, but for the
  entry that a failed send leaves on a broken connection (`LeftBySend`).  All but the
  types are about such sessions, of which the identifiers can be stored.
- **`SubscriptionsProofs`**: `TypeCorrect`, `GateCorrect` (`GateIsExclusive`),
  `TablesAreStatic` (`StaticWhilePublishing`), `RefsBalanceCorrect`,
  `DueIsServedCorrect`, `FreedIsUnusedCorrect`.  The gate is inductive together with
  the types; the work is in counting: `publish_ops` is the cardinality of the
  publications that walk (`WalkersCount`).  That no table changes under a publication
  follows because every step that changes one holds `subs_m`.  `RefsInv` counts the
  holders of a connection (its tasks and the reader, once).  `PubInv` says why each
  connection that was due needs nothing more of a publication, or is still ahead of its
  cursor (`Served`).  `SettledInv` says that the table of the context and that of the
  connection agree but for what a task or the clean-up is between, and that what the
  clean-up has passed is gone, so that what it frees is in no table.
- **`QosExchangeProofs`**: `QosTypeCorrect`, `ReportedIsHandedCorrect`,
  `NotLostCorrect`.  The types need `Known` (a thread that sends has a message and a
  connection).  `ReportedIsHanded` needs `Evidence`: a PUBACK or PUBCOMP anywhere, on
  the wire or in the queue of anybody, proves that the message was handed over, and a
  PUBREC that it was or that its task has passed the point of handing over; replies of
  one sender may reach another, so it is stated of messages and not of exchanges.
- **`SessionsProofs`**: `SessionsTypeCorrect`, `GrantedIsStoredCorrect`,
  `ReturnsWithAllCorrect`, `TablesAgreeCorrect`, `GrantedIsReachableCorrect`.  The
  heart is `OneAtWork`: unless an identifier was given away while another connection of
  the session was busy (`taken`), one connection works on the session at a time;
  `Activation` shows that only CONNECT brings a connection to work.  With it what a
  task is about to grant is stored (`PendingIsStored`), what it is about to remove is
  given up (`GivenUp`), and `Whole` says, for each step of CONNECT, how much of the
  session is back.  `TablesInv` follows the subscriptions between the
  tables: those of a working connection and of the context differ in the filter a step
  is about (`AgreeInv`), a clean session has none (`CleanInv`), and one that leaves by
  DISCONNECT is not cleaned up before it moved them (`LeavingInv`).
- **`ThreadsProofs`**: for the pool `PoolTypeCorrect`, `EventsSafeCorrect`,
  `ExitIsCleanCorrect`; for the reader `ReaderTypeCorrect`,
  `PolledIsReferencedCorrect`, `HandlerOwnsCorrect`; of both together
  `ThreadsImplementParts` and `ThreadsCorrect`.  The types of the pool need
  `JoinInv` (one thread joins at a time, as it has `stopped_mutex`).  `EventsInv`
  counts the references of an event, that of the list and that of the running handler,
  of which there is one.  `TaskInv` says where each task is, and `ExitInv` what the
  list of threads and the queue hold at each step of the exit; together they leave
  nothing queued or running.  The types of the reader need `ListInv` (what it is to
  visit, and what the poll reported, is in its lists).  `WatchInv` counts the
  references of a connection (its holder, the list, an item of the queue) and orders
  the items of the queue: it is handed over before its unwatch asks for it, so that
  nothing brings it back once that was answered.  Each is shown of `Init` and `Next` of
  its component without fairness, which is what a step of the composition implies.
- **`BrokerProofs`**, a section for each module of the run `broker` that has proofs:
  - packets: `LengthRoundTrip` and `HeaderFits` about the operators the packets are
    built with, for every radix (128 in the code) and every length, and `SixteenBits`.
    `PacketsReadWholeCorrect`, for any packets cut anywhere: `Laid` says where in the
    stream each packet lies (the value of `FlattenSeq`, by induction on the packets, the
    read ones having been taken from the front), `PacketsInv` that what was returned,
    the header and the part of a body kept in the buffer are together what has been
    taken, and each reading state at which byte of the next packet it is.  `TakeFrom`
    and `HeaderTaken` give what one read returns.  `PacketTypeCorrect` has the bounds of
    header and buffer;
  - topic filters: `TopicTypeCorrect` and `FiltersAgreeCorrect`, for strings of any
    length.  `Begins` and `Level` place a level in its string by the number of
    separators before it (`LevelsExist` by induction).  `FiltersInv` says that the walk
    is at the start of a level of both strings, those before having matched (`Met`), or
    that one has ended and what `AtEnd` is about to return is the rule's answer; each
    branch of the walk has a lemma (`SeparatorGoes`, `SingleLevelGoes`,
    `MultiLevelGoes`, `HiddenGoes`, `LiteralGoes`) and `LiteralIs` gives what its loop
    over characters finds.  Each disjunct of `Excepted` is used: without it, one of
    these steps ends the walk with the other answer;
  - connections: `ConnectionTypeCorrect`, `RefsAreHeldCorrect`,
    `HandlersAreCalledCorrect`.  The invariant of the references adds that a thread
    breaks the connection once at a time and that the user closes what the opening
    returned; `Balance` turns each step into an equation between the change of
    `ref_count` and that of its holders.  `HandlersInv` says who is to call a handler
    that was set and was not told yet;
  - listeners: `ListenerTypeCorrect`, `ListenerIsAliveCorrect`,
    `WaiterIsWokenCorrect`, `ShutdownReachesAllCorrect`.  The second is by counting the
    connections and shutdowns that hold the listener (`MastersChange`,
    `EndingChange`); `QueueSound` says that what waits in the queue of the reader is
    there once.  `WokenInv` relates the place of the waiter to the queue it made
    and to where an unlock is,
    `ReachedInv` follows, for a shutdown, each connection registered before it;
  - domains and hand-over: `HandedToItsOwnCorrect` (`UsersKept`: users once loaded
    stay, so who was authenticated still is; `FoundSoFar`: what each place of the search
    knows of the domain chosen and of the way to it), `HandoverTypeCorrect` and
    `EntryIsAliveCorrect`.  The latter needs, for each connection, who holds its copy
    at each step of its task (`CopyHeld`, `CopyGiven`), since what is in the table is
    alive because the reader or the task has a reference (`EntryIsHeld`);
  - retained messages: `RetainedIsLastCorrect`.  `OwnInv` holds however calls overlap
    (a task that found a file found one of its topic); `Undisturbed` says, until two
    calls overlap, what the only task has done to the files of its topic at each of its
    steps, and that those of the other topics are paired and the last ones, or cut;
  - quota: `CounterFollowsDiskCorrect`.  The sizes in a directory are added by a fold
    over a set; `SizeOfAll` is shown, by induction on the cardinality, to be defined
    and to grow by the size of what is added, in whatever order it is taken.
- **`ListLemmas`**: induction over the natural numbers, from the library's
  well-founded orderings, and what the operators on sequences return (`InsertAt`,
  `RemoveAt`, an append), which the modules above cite.

The library states induction with an operator as a parameter, which the provers
cannot instantiate; `IntervalInduction` in `ListLemmas` has a set in its place (the
numbers of which something holds) and the inductions above use it.

- the end of `BrokerProofs` is about the composition: `BrokerImplementsParts` shows that
  `BrokerSpec` implies the specification of each component, so that every theorem above
  holds of what TLC explores as one instance, `BrokerTypeCorrect` puts the types of all
  of them together, and `BrokerCorrect` the invariants of the run.

The assumptions are the named ones of the modules (`PacketAssumption`,
`TopicAssumption`, ...), which TLC evaluates in every run.  `Levels` counts the
separators before a place instead of sorting them: sorting is defined by an arbitrary
choice among permutations, counting can be reasoned about; both give the same levels.

A theorem claims no more than its property: the exceptions are in the property, its
comment and the theorem's entry in `PROJECT.json`, and section 5 has what happens
outside several of them.

Every invariant a passing run checks is stated by a theorem.  Only model-checked: the liveness
properties (`QueuedIsReleased`, `CloseReturns`, `GateOpensAgain`, `ExchangesEnd`,
`QueuedIsFlushed`, `TasksSettle`, `ForeachIsAnswered`), since fairness and `ENABLED` are
beyond the prover.

## 5. Where the code differs from what it says

Each of these is the counterexample of a run (`findings` in `PROJECT.json`):

1. A message of more than 4096 bytes is interleaved with another of its connection
   (`WholeMessages`).
2. Over a recovered session a new operation may take the identifier of a stored
   message (`DistinctWhenRecovered`).
3. A SUBSCRIBE that runs while its connection is cleaned up leaves the freed
   connection in `ctx->subs` (`NoFreedConn`).
4. The flush of a new connection sends again what a caller is sending: a QoS 2
   message arrives twice (`ExactlyOnce`).
5. The clean-up of a refused duplicate frees the identifier of the client that is
   connected (`OneConnection`).

The modules also keep, as definitions no run lists, properties one might expect and
that the code does not have; a comment at each says why.  Adding one to the
configuration of its module gives a counterexample (`OneThreadStays` needs both threads
in `Base` and two removals).

| Definition | What happens |
|---|---|
| `ReplyFindsItsQueue` | the queue of an operation that could not be sent is released and stays among the wait replies, where a late reply finds it (`lib/myqtt-reader.c:2304`) |
| `AcknowledgedIsReleased` | a published QoS 1 message is stored with `qos \| 126` (`lib/myqtt-storage.c:1310`): the flush takes it for one of QoS 1 and 2 that skips the storage, waits for PUBREC after PUBACK and leaves the file, which every connection sends again; `QueuedIsFlushed` leaves these out |
| `OneThreadStays`, `UnrunIsDestroyed` | a removal does not count the beacons already queued (`lib/myqtt-thread-pool.c:757`), against "must have at minimum one thread running" (776); a task popped when the exit has begun is neither run nor destroyed (408), against the promise at 916 |
| `PacketsReadAlways` | a header of which one byte has arrived is taken for a packet without body (`lib/myqtt-msg.c:649`), a length byte that has not arrived for 0 (747), a body that has not for -2 bytes (856); `PacketsReadWhole` leaves out such reads (`torn`) |
| `FiltersAgreeAlways` | a trailing `/`, `+` before the last level when the topic has ended (`a` matches `+/+`), `$` at the start of a later level; `Excepted` lists them |
| `RetainedForEvery` | recovering a retained message removes it (`lib/myqtt-storage.c:1598`), against "every new subscription on that topic will receive that message" (1374) |
| `WatchedOnce`, `ClosedStaysClosed`, `OneOpener`, `OptsAlive` | a reconnect watches the connection twice (`lib/myqtt-conn.c:4617`), brings back one the user has closed and uses options `myqtt_conn_close` has freed (3134); each break of a greeting starts another event |
| `WokenByUnlock` | an unlock and a wait that is starting miss one another (`lib/myqtt-listener.c:1038`, 1044, 1060): it is lost, or frees the queue the wait is about to use; `WaiterIsWoken` leaves out those cases (`missed`) |
| `QuotaIsKept` | two messages stored at once both pass (`server/myqttd-run.c:583`); the quota is not asked for messages stored while the client is away (`lib/myqtt-storage.c:1238`) |
| `UsersFollowConfig`, `AcceptedByDomain` | users are not loaded again when SIGHUP changes their database; listeners accept before a domain is there to (`server/myqttd-run.c:1430`) |
| `EntryIsAliveAlways`, `OnePerIdentifier`, `LimitIsKept` | a connection that broke before it was copied stays in the table of the domain; the close handler and the clean-up of a connection remove the entry of the one after it; `conn-limit` is compared without a lock (932) |

Found while modelling, and part of the model or of what a property excludes: the flush
releases a stored message that could not be sent or was not answered, although
`lib/myqtt-conn.c:1667` promises to resend it (`dropped`); a subscription is stored
before `on_subscribe` refuses it (`lib/myqtt-reader.c:932`); a CONNECT task that runs
after the clean-up of its connection registers an identifier that nothing removes
(`lib/myqtt-reader.c:302`); a connection that breaks without DISCONNECT does not move
its subscriptions to the offline tables (`abrupt`); a push or an event that passes its
check before the exit may reach a freed queue or list, as may threads added and events
removed with no check at all (`lib/myqtt-thread-pool.c:934`, 1028, 720, 1072, `late`),
and a reap beacon left at the exit is used as a task (860, `hurt`); a message of which
only a part could be written is reported as failed but flushed
(`lib/myqtt-storage.c:1267`), a retained one that could not be written stays until the
next (1492, `cut`) and has its path freed twice (1487); an item read after a change of
the waiting mechanism is taken for the answer (`lib/myqtt-reader.c:2162`, `swallowed`)
and a visit asked for once the reader ended is never answered; connections being
accepted when their listener is shut down stay open (`before`); a users database may be loaded from a path that a reload is
freeing (`server/myqttd-domain.c:156`).

## 6. Not modelled

Payloads, sizes, formatting and logs.  QoS 0, `wait_publish = 0` and the crash of a
receiver (`QosExchange`); crashes in `PacketIds`; clients that do not wait for an
answer before the next request, and files that cannot be removed (`Sessions`).  The
search for an offline identifier (`lib/myqtt-conn.c:2530`), and stored messages
together with their identifiers (2274).  Options of a connection, the timeouts of a
blocking opening, addresses and ping (`Connections`); sockets and the steps before a
listener enables a connection, a listener that fails to start
(`lib/myqtt-listener.c:750`) and connections a domain's reader takes over during a
visit (`Listeners`); connections dropped because their socket is no longer valid
(`lib/myqtt-reader.c:3096`, `ReaderLoop`); a context that ends, or a thread that cannot
be created, while close handlers are told (`lib/myqtt-conn.c:4427`, 4454,
`Connections`); a connection that breaks in the middle of its copy, and domains without
settings (`server/myqttd-run.c:973`, `DomainHandover`); the values of the fields of packets and
the buffers they are kept in (`Packets`).

Whole parts, with the reason in `PROJECT.json`: hash tables and support code (locked
wrappers and platform code); the start and exit of a context beyond what each thread
does at it (one caller, in sequence); TLS and WebSocket (bindings: the protocol is in
OpenSSL and noPoll), the Python binding, the command line client, the vendored parser
of arguments.  Of the broker: its child processes and its connection manager (nothing
calls `myqttd_process_create_child`, nor registers the manager), modules, XML
configuration, logs and signal handlers, which are system calls with no protocol state.
Several of these are among the largest files, so the map covers a modest part of the
lines of the repository although the protocol logic of `lib/` and `server/` is there.

## 7. Where to go on

A composition of `PacketIds` with the stored messages of `QosExchange`, which would
cover the release of an identifier before its message (`lib/myqtt-conn.c:2274`); the
offline identifiers; `PUBREC` kept by the receiver, were the code to get it.
