--------------------------- MODULE Subscriptions ---------------------------
(***************************************************************************)
(* The broker's subscription tables (lib/myqtt-reader.c): publications     *)
(* walk ctx->subs and the other tables without a lock; SUBSCRIBE and       *)
(* UNSUBSCRIBE (pool tasks), DISCONNECT and the clean-up of a closed       *)
(* connection (both in the reader thread) change them only while they hold *)
(* subs_m and ctx->publish_ops is 0.  The tables hold connections without  *)
(* a reference of their own.                                               *)
(*                                                                         *)
(* Every connection is the only one of its client identifier.  The context *)
(* is not exiting.                                                         *)
(***************************************************************************)
EXTENDS Integers, FiniteSets

CONSTANTS
    Conns,       \* connections the broker accepted
    Persistent,  \* those with a session (clean_session is false)
    WillTopic,   \* the topic of each connection's will, or None
    Topics,
    Filters,     \* topic filters
    Wild,        \* the filters with wild cards, kept in wild_subs
    Matches,     \* the filters each topic matches
    Confirmed,   \* filters subscribed with QoS 1 or 2
    Tasks,       \* SUBSCRIBE and UNSUBSCRIBE requests, one filter each
    TaskKind,    \* "sub" or "unsub"
    TaskConn,    \* the connection each request comes from
    TaskFilter,
    Pubs,        \* publications received (from connections not modelled)
    PubTopic,
    Reader,      \* the reader thread
    None

\* A connection's will is published in its name.
Publishers == Pubs \cup Conns

ASSUME SubscriptionsAssumption ==
    /\ Persistent \subseteq Conns
    /\ WillTopic \in [Conns -> Topics \cup {None}]
    /\ Wild \subseteq Filters
    /\ Matches \in [Topics -> SUBSET Filters]
    /\ Confirmed \subseteq Filters
    /\ TaskKind \in [Tasks -> {"sub", "unsub"}]
    /\ TaskConn \in [Tasks -> Conns]
    /\ TaskFilter \in [Tasks -> Filters]
    /\ PubTopic \in [Pubs -> Topics]
    /\ IsFiniteSet(Publishers)
    /\ IsFiniteSet(Tasks)
    /\ Pubs \cap Conns = {}
    /\ None \notin Topics \cup Conns \cup Tasks \cup {Reader} \cup (Filters \X Conns)
    /\ Reader \notin Tasks

VARIABLES
    is_ok,         \* myqtt_conn_is_ok of each connection
    ref_count,     \* references: the reader's list and one per request
    watched,       \* connections in the reader's list
    will,          \* connections whose will_topic is set
    conn_subs,     \* conn->subs and conn->wild_subs
    subs,          \* ctx->subs and ctx->wild_subs: connections per filter
    offline_subs,  \* ctx->offline_subs and offline_wild_subs: client ids
    subs_m,        \* who holds ctx->subs_m
    publish_ops,   \* ctx->publish_ops
    task,          \* where each request is
    reader,        \* where the reader thread is, for which connection, and
                   \* the filters its cursor has still to pass
    pub,           \* where each publication is
    visited,       \* table entries the publication's cursors passed
    visiting,      \* the entry it is delivering to
    delivered,     \* connections it was sent to
    stored,        \* sessions it was stored for
    due,           \* connections subscribed when it began
    unsettled      \* connections that came or went down with a request of
                   \* theirs, or of the same filter, unfinished

vars == <<is_ok, ref_count, watched, will, conn_subs, subs, offline_subs,
          subs_m, publish_ops, task, reader, pub, visited, visiting,
          delivered, stored, due, unsettled>>

connVars  == <<is_ok, ref_count, watched, will>>
tableVars == <<subs, offline_subs>>
pubVars   == <<pub, visited, visiting, delivered, stored, due>>

Entries   == Filters \X Conns
TaskSteps == {"idle", "queued", "registered", "inside", "answered", "done"}
PubSteps  == {"idle", "walking", "visiting", "waiting", "ending", "done"}
ReaderSteps == {"move", "moving", "clean_subs", "gate_subs", "in_subs",
                "clean_wild", "gate_wild", "in_wild", "will", "publishing",
                "unref"}

Idle   == [at |-> "idle", conn |-> None, todo |-> {}]
AtWork == [at : ReaderSteps, conn : Conns, todo : SUBSET Filters]

\* The tables hold connections and filters only, and counters are integers.
TypeOK ==
    /\ is_ok \in [Conns -> BOOLEAN]
    /\ ref_count \in [Conns -> Int]
    /\ watched \subseteq Conns
    /\ will \subseteq Conns
    /\ conn_subs \in [Conns -> SUBSET Filters]
    /\ subs \in [Filters -> SUBSET Conns]
    /\ offline_subs \in [Filters -> SUBSET Conns]
    /\ subs_m \in Tasks \cup {Reader, None}
    /\ publish_ops \in Int
    /\ task \in [Tasks -> TaskSteps]
    /\ reader \in {Idle} \cup AtWork
    /\ pub \in [Publishers -> PubSteps]
    /\ visited \in [Publishers -> SUBSET Entries]
    /\ visiting \in [Publishers -> Entries \cup {None}]
    /\ \A p \in Publishers : pub[p] \in {"visiting", "waiting"} => visiting[p] \in Entries
    /\ delivered \in [Publishers -> SUBSET Conns]
    /\ stored \in [Publishers -> SUBSET Conns]
    /\ due \in [Publishers -> SUBSET Conns]
    /\ unsettled \subseteq Conns

Init ==
    /\ is_ok = [c \in Conns |-> TRUE]
    /\ ref_count = [c \in Conns |-> 1]
    /\ watched = Conns
    /\ will = {c \in Conns : WillTopic[c] # None}
    /\ conn_subs = [c \in Conns |-> {}]
    /\ subs = [f \in Filters |-> {}]
    /\ offline_subs = [f \in Filters |-> {}]
    /\ subs_m = None
    /\ publish_ops = 0
    /\ task = [t \in Tasks |-> "idle"]
    /\ reader = Idle
    /\ pub = [p \in Publishers |-> "idle"]
    /\ visited = [p \in Publishers |-> {}]
    /\ visiting = [p \in Publishers |-> None]
    /\ delivered = [p \in Publishers |-> {}]
    /\ stored = [p \in Publishers |-> {}]
    /\ due = [p \in Publishers |-> {}]
    /\ unsettled = {}

\* Mutant: publish_ops is changed without subs_m.
Unguarded == TRUE
Lockable  == subs_m = None

\* Mutant: the publications taking place are not waited for.
GateLockable == Lockable

\* Locking subs_m and waiting, 10 ms at a time and without it, until no
\* publication is taking place.
GateOpen == Lockable /\ publish_ops = 0

\* Mutant: a reference is never given back.
Kept(c) == ref_count

\* myqtt_conn_unref: the connection is freed with the last reference.
Unref(c) == [ref_count EXCEPT ![c] = @ - 1]

\* conn->op_mutex is free: only the clean-up keeps it from step to step.
OpMutexFree(c) == ~(reader.at \in {"in_subs", "in_wild"} /\ reader.conn = c)

Unfinished(t) == task[t] \notin {"idle", "done"}

-----------------------------------------------------------------------------
(* SUBSCRIBE and UNSUBSCRIBE, each in a task of the pool.                   *)

\* __myqtt_reader_async_run, in the reader: the task takes a reference.
TaskStart(t) ==
    LET c == TaskConn[t]
    IN  /\ task[t] = "idle"
        /\ reader.at = "idle"
        /\ c \in watched
        /\ is_ok[c]
        /\ task' = [task EXCEPT ![t] = "queued"]
        /\ ref_count' = [ref_count EXCEPT ![c] = @ + 1]
        /\ unsettled' = IF \E u \in Tasks : /\ u # t
                                            /\ Unfinished(u)
                                            /\ TaskConn[u] = c
                                            /\ TaskFilter[u] = TaskFilter[t]
                        THEN unsettled \cup {c} ELSE unsettled
        /\ UNCHANGED <<is_ok, watched, will, conn_subs, tableVars, subs_m,
                       publish_ops, reader, pubVars>>

\* on_subscribe denies the request, on_unsubscribe or the storage refuses it.
TaskRefused(t) ==
    /\ task[t] = "queued"
    /\ task' = [task EXCEPT ![t] = "answered"]
    /\ UNCHANGED <<connVars, conn_subs, tableVars, subs_m, publish_ops, reader,
                   pubVars, unsettled>>

\* First the connection's own table, under its op_mutex.
ConnTable(t) ==
    LET c == TaskConn[t]
    IN  /\ task[t] = "queued"
        /\ OpMutexFree(c)
        /\ conn_subs' = [conn_subs EXCEPT ![c] =
                            IF TaskKind[t] = "sub" THEN @ \cup {TaskFilter[t]}
                                                   ELSE @ \ {TaskFilter[t]}]
        /\ task' = [task EXCEPT ![t] = "registered"]
        /\ UNCHANGED <<connVars, tableVars, subs_m, publish_ops, reader,
                       pubVars, unsettled>>

TaskGate(t) ==
    /\ task[t] = "registered"
    /\ GateOpen
    /\ subs_m' = t
    /\ task' = [task EXCEPT ![t] = "inside"]
    /\ UNCHANGED <<connVars, conn_subs, tableVars, publish_ops, reader, pubVars,
                   unsettled>>

\* ... then the context's, without looking at the connection again.
ContextTable(t) ==
    /\ task[t] = "inside"
    /\ subs' = [subs EXCEPT ![TaskFilter[t]] =
                    IF TaskKind[t] = "sub" THEN @ \cup {TaskConn[t]}
                                           ELSE @ \ {TaskConn[t]}]
    /\ subs_m' = None
    /\ task' = [task EXCEPT ![t] = "answered"]
    /\ UNCHANGED <<connVars, conn_subs, offline_subs, publish_ops, reader,
                   pubVars, unsettled>>

\* __myqtt_reader_async_run_proxy gives the reference back.
TaskEnd(t) ==
    /\ task[t] = "answered"
    /\ task' = [task EXCEPT ![t] = "done"]
    /\ ref_count' = Unref(TaskConn[t])
    /\ UNCHANGED <<is_ok, watched, will, conn_subs, tableVars, subs_m,
                   publish_ops, reader, pubVars, unsettled>>

-----------------------------------------------------------------------------
(* __myqtt_reader_handle_disconnect, in the reader thread.                  *)

\* The connection is shut down and its will forgotten; with a session its
\* subscriptions go to the offline tables, one by one.
Disconnect(c) ==
    /\ reader.at = "idle"
    /\ c \in watched
    /\ is_ok[c]
    /\ is_ok' = [is_ok EXCEPT ![c] = FALSE]
    /\ will' = will \ {c}
    /\ reader' = IF c \in Persistent /\ conn_subs[c] # {}
                 THEN [at |-> "move", conn |-> c, todo |-> conn_subs[c]]
                 ELSE Idle
    /\ UNCHANGED <<ref_count, watched, conn_subs, tableVars, subs_m,
                   publish_ops, task, pubVars, unsettled>>

MoveGate ==
    /\ reader.at = "move"
    /\ GateOpen
    /\ subs_m' = Reader
    /\ reader' = [reader EXCEPT !.at = "moving"]
    /\ UNCHANGED <<connVars, conn_subs, tableVars, publish_ops, task, pubVars,
                   unsettled>>

MoveOffline ==
    /\ reader.at = "moving"
    /\ \E f \in reader.todo :
          /\ offline_subs' = [offline_subs EXCEPT ![f] = @ \cup {reader.conn}]
          /\ reader' = IF reader.todo = {f} THEN Idle
                       ELSE [reader EXCEPT !.at = "move", !.todo = @ \ {f}]
    /\ subs_m' = None
    /\ UNCHANGED <<connVars, conn_subs, subs, publish_ops, task, pubVars,
                   unsettled>>

-----------------------------------------------------------------------------
(* The reader finds the connection down: __myqtt_reader_remove_conn_refs.   *)

Cleanup(c) ==
    /\ reader.at = "idle"
    /\ c \in watched
    /\ ~is_ok[c]
    /\ watched' = watched \ {c}
    /\ reader' = [at |-> "clean_subs", conn |-> c, todo |-> {}]
    /\ unsettled' = IF \E t \in Tasks : TaskConn[t] = c /\ Unfinished(t)
                    THEN unsettled \cup {c} ELSE unsettled
    /\ UNCHANGED <<is_ok, ref_count, will, conn_subs, tableVars, subs_m,
                   publish_ops, task, pubVars>>

\* Mutant: only subs is cleaned.
PlainFilters(c, wild_card) == IF wild_card THEN {} ELSE conn_subs[c] \ Wild

\* First subs, then wild_subs: nothing is done for an empty table, otherwise a
\* cursor is created before subs_m is locked.
OwnFilters(c, wild_card) ==
    IF wild_card THEN conn_subs[c] \cap Wild ELSE conn_subs[c] \ Wild

CleanTable(at, gate, next, wild_card) ==
    /\ reader.at = at
    /\ reader' = IF OwnFilters(reader.conn, wild_card) = {}
                 THEN [reader EXCEPT !.at = next]
                 ELSE [reader EXCEPT !.at = gate,
                                     !.todo = OwnFilters(reader.conn, wild_card)]
    /\ UNCHANGED <<connVars, conn_subs, tableVars, subs_m, publish_ops, task,
                   pubVars, unsettled>>

\* The connection's table may have changed under the cursor: it does not pass
\* what was removed, and may or may not pass what was added.
CleanGate(gate, inside, wild_card) ==
    /\ reader.at = gate
    /\ GateOpen
    /\ subs_m' = Reader
    /\ \E added \in SUBSET (OwnFilters(reader.conn, wild_card) \ reader.todo) :
          reader' = [reader EXCEPT !.at = inside,
                                   !.todo = (@ \cap conn_subs[reader.conn]) \cup added]
    /\ UNCHANGED <<connVars, conn_subs, tableVars, publish_ops, task, pubVars,
                   unsettled>>

\* __myqtt_reader_remove_conn_from_hash
CleanEntry(inside, next) ==
    /\ reader.at = inside
    /\ \/ \E f \in reader.todo :
              /\ subs' = [subs EXCEPT ![f] = @ \ {reader.conn}]
              /\ reader' = [reader EXCEPT !.todo = @ \ {f}]
              /\ UNCHANGED subs_m
       \/ /\ reader.todo = {}
          /\ reader' = [reader EXCEPT !.at = next]
          /\ subs_m' = None
          /\ UNCHANGED subs
    /\ UNCHANGED <<connVars, conn_subs, offline_subs, publish_ops, task, pubVars,
                   unsettled>>

CleanSubs == \/ CleanTable("clean_subs", "gate_subs", "clean_wild", FALSE)
             \/ CleanGate("gate_subs", "in_subs", FALSE)
             \/ CleanEntry("in_subs", "clean_wild")
CleanWild == \/ CleanTable("clean_wild", "gate_wild", "will", TRUE)
             \/ CleanGate("gate_wild", "in_wild", TRUE)
             \/ CleanEntry("in_wild", "will")

\* No will to publish, or it has been published.
NoWill ==
    /\ \/ reader.at = "will" /\ reader.conn \notin will
       \/ reader.at = "publishing" /\ pub[reader.conn] = "done"
    /\ reader' = [reader EXCEPT !.at = "unref"]
    /\ UNCHANGED <<connVars, conn_subs, tableVars, subs_m, publish_ops, task,
                   pubVars, unsettled>>

CleanUnref ==
    /\ reader.at = "unref"
    /\ ref_count' = Unref(reader.conn)
    /\ reader' = Idle
    /\ UNCHANGED <<is_ok, watched, will, conn_subs, tableVars, subs_m,
                   publish_ops, task, pubVars, unsettled>>

-----------------------------------------------------------------------------
(* __myqtt_reader_do_publish.                                               *)

TopicOf(p) == IF p \in Pubs THEN PubTopic[p] ELSE WillTopic[p]

\* publish_ops is raised under subs_m.
Start(p) ==
    /\ pub[p] = "idle"
    /\ Lockable
    /\ publish_ops' = publish_ops + 1
    /\ pub' = [pub EXCEPT ![p] = "walking"]
    /\ due' = [due EXCEPT ![p] = {c \in Conns : /\ is_ok[c]
                                                /\ \E f \in Matches[TopicOf(p)] : c \in subs[f]}]
    /\ UNCHANGED <<connVars, conn_subs, tableVars, subs_m, task, visited,
                   visiting, delivered, stored, unsettled>>

PubStart(p) == p \in Pubs /\ Start(p) /\ UNCHANGED reader

\* __myqtt_reader_check_and_trigger_will: the reader publishes the will itself.
WillStart ==
    /\ reader.at = "will"
    /\ reader.conn \in will
    /\ Start(reader.conn)
    /\ reader' = [reader EXCEPT !.at = "publishing"]

\* Entries of the tables the cursors have not passed; subs before wild_subs.
Ahead(p) == {e \in Entries : /\ e[1] \in Matches[TopicOf(p)]
                             /\ e[2] \in subs[e[1]]
                             /\ e \notin visited[p]}

Visit(p) ==
    /\ pub[p] = "walking"
    /\ \E e \in Ahead(p) :
          /\ e[1] \in Wild => \A a \in Ahead(p) : a[1] \in Wild
          /\ visited' = [visited EXCEPT ![p] = @ \cup {e}]
          /\ visiting' = [visiting EXCEPT ![p] = e]
    /\ pub' = [pub EXCEPT ![p] = "visiting"]
    /\ UNCHANGED <<connVars, conn_subs, tableVars, subs_m, publish_ops, task,
                   reader, delivered, stored, due, unsettled>>

\* With QoS 1 or 2 the entry's connection is used until the reply comes.
StillUsed(e) == IF e[1] \in Confirmed THEN e ELSE None

\* __myqtt_reader_do_publish_aux: a connection that is down is skipped, and
\* myqtt_conn_pub may fail at once; with QoS 1 or 2 it waits for the reply.
Deliver(p) ==
    LET e == visiting[p]
    IN  /\ pub[p] = "visiting"
        /\ \/ /\ is_ok[e[2]]
              /\ delivered' = [delivered EXCEPT ![p] = @ \cup {e[2]}]
              /\ pub' = [pub EXCEPT ![p] = IF e[1] \in Confirmed THEN "waiting"
                                                                  ELSE "walking"]
              /\ visiting' = [visiting EXCEPT ![p] = StillUsed(e)]
           \/ /\ ~is_ok[e[2]]
              /\ pub' = [pub EXCEPT ![p] = "walking"]
              /\ visiting' = [visiting EXCEPT ![p] = None]
              /\ UNCHANGED delivered
        /\ UNCHANGED <<connVars, conn_subs, tableVars, subs_m, publish_ops,
                       task, reader, visited, stored, due, unsettled>>

WaitEnds(p) ==
    /\ pub[p] = "waiting"
    /\ pub' = [pub EXCEPT ![p] = "walking"]
    /\ visiting' = [visiting EXCEPT ![p] = None]
    /\ UNCHANGED <<connVars, conn_subs, tableVars, subs_m, publish_ops, task,
                   reader, visited, delivered, stored, due, unsettled>>

\* The reply comes in through the reader thread, when it is not held up ...
Acknowledged(p) == reader.at = "idle" /\ WaitEnds(p)

\* Mutant: the wait is not timed.
NoGiveUp(p) == FALSE

\* ... or __myqtt_reader_get_reply gives up after 60 seconds, or because the
\* connection is down.
GiveUp(p) == WaitEnds(p)

\* The offline tables come last: the message is stored for their sessions.
QueueOffline(p) ==
    /\ pub[p] = "walking"
    /\ Ahead(p) = {}
    /\ stored' = [stored EXCEPT ![p] =
                    {c \in Conns : \E f \in Matches[TopicOf(p)] : c \in offline_subs[f]}]
    /\ pub' = [pub EXCEPT ![p] = "ending"]
    /\ UNCHANGED <<connVars, conn_subs, tableVars, subs_m, publish_ops, task,
                   reader, visited, visiting, delivered, due, unsettled>>

PubEnd(p) ==
    /\ pub[p] = "ending"
    /\ Lockable
    /\ publish_ops' = publish_ops - 1
    /\ pub' = [pub EXCEPT ![p] = "done"]
    /\ UNCHANGED <<connVars, conn_subs, tableVars, subs_m, task, reader, visited,
                   visiting, delivered, stored, due, unsettled>>

-----------------------------------------------------------------------------
\* The peer closes, or any write to the connection fails.
ConnDown(c) ==
    /\ ref_count[c] > 0
    /\ is_ok[c]
    /\ is_ok' = [is_ok EXCEPT ![c] = FALSE]
    /\ UNCHANGED <<ref_count, watched, will, conn_subs, tableVars, subs_m,
                   publish_ops, task, reader, pubVars, unsettled>>

TaskStep(t) == TaskRefused(t) \/ ConnTable(t) \/ TaskGate(t) \/ ContextTable(t) \/ TaskEnd(t)
MoveStep    == MoveGate \/ MoveOffline
CleanStep   == CleanSubs \/ CleanWild \/ NoWill \/ WillStart \/ CleanUnref
PubStep(p)  == \/ Visit(p) \/ Deliver(p) \/ Acknowledged(p) \/ GiveUp(p)
               \/ QueueOffline(p) \/ PubEnd(p)

Next == \/ \E t \in Tasks : TaskStart(t) \/ TaskStep(t)
        \/ \E c \in Conns : Disconnect(c) \/ Cleanup(c) \/ ConnDown(c)
        \/ MoveStep \/ CleanStep
        \/ \E p \in Pubs : PubStart(p)
        \/ \E p \in Publishers : PubStep(p)

\* Running threads go on; a wait for a reply is timed; the reader polls its list.
Fairness == /\ \A t \in Tasks : WF_vars(TaskStep(t))
            /\ WF_vars(MoveStep \/ CleanStep)
            /\ \A c \in Conns : WF_vars(Cleanup(c))
            /\ \A p \in Publishers : WF_vars(PubStep(p))

Spec == Init /\ [][Next]_vars /\ Fairness

-----------------------------------------------------------------------------
(* Properties.                                                              *)

Publishing(p) == pub[p] \in {"walking", "visiting", "waiting", "ending"}

\* publish_ops counts the publications that walk the tables, and whoever holds
\* the gate open for itself does so alone and while there are none.
GateIsExclusive ==
    /\ publish_ops = Cardinality({p \in Publishers : Publishing(p)})
    /\ subs_m # None => publish_ops = 0
    /\ \A t \in Tasks : task[t] = "inside" => subs_m = t
    /\ reader.at \in {"moving", "in_subs", "in_wild"} => subs_m = Reader

\* The tables are static structures while any publication walks them without
\* the lock: publish_ops counts every walk, and nobody that waited for 0 is
\* still changing a table when the next one begins.
StaticWhilePublishing ==
    [][(\E p \in Publishers : Publishing(p)) => UNCHANGED tableVars]_vars

\* A publication visits every connection that was subscribed and working when
\* it began and stays so, once per subscription, whoever unsubscribes,
\* subscribes or is cleaned up meanwhile.
DueIsServed ==
    \A p \in Publishers : pub[p] = "done" =>
        \A c \in due[p] : c \in delivered[p] \/ ~is_ok[c]

\* A connection is not freed under a publication that is delivering to it (the
\* clean-up drops the reader's reference behind the gate), and once freed it is in
\* no table: for a connection whose requests came one at a time per filter and were
\* over when it was cleaned up (for the others see NoFreedConn).
FreedIsUnused ==
    \A c \in Conns : ref_count[c] <= 0 =>
        \/ c \in unsettled
        \/ /\ \A p \in Publishers : visiting[p] = None \/ visiting[p][2] # c
           /\ \A f \in Filters : c \notin subs[f]

\* A connection that is freed is in no table: __myqtt_reader_remove_conn_refs
\* removes "all connection references".
NoFreedConn == \A c \in Conns : ref_count[c] <= 0 => \A f \in Filters : c \notin subs[f]

\* A reference is given back once: the reader's by the clean-up, the others by
\* the tasks that took them.
RefsBalance ==
    \A c \in Conns :
        ref_count[c] = Cardinality({t \in Tasks : TaskConn[t] = c /\ Unfinished(t)})
                       + (IF c \in watched \/ reader.conn = c THEN 1 ELSE 0)

\* Nobody waits at the gate for ever.  The reader gets back to its sockets: neither the gate
\* nor a will it publishes holds it up, although the replies that would open the gate come in
\* through the reader itself; and every request is answered, once publications stop coming.
GateOpensAgain ==
  /\ reader.at # "idle" ~> reader.at = "idle"
  /\ \A t \in Tasks : task[t] = "queued" ~> task[t] = "done"
=============================================================================
