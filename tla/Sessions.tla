------------------------------ MODULE Sessions ------------------------------
(***************************************************************************)
(* Sessions of the clients of a server: who owns a client identifier, and  *)
(* where the subscriptions of a session are, in the tables of a connection,*)
(* in the offline tables or on disk (lib/myqtt-reader.c, lib/myqtt-conn.c  *)
(* and lib/myqtt-storage.c).                                               *)
(*                                                                         *)
(* CONNECT, SUBSCRIBE and UNSUBSCRIBE run as tasks of the pool; DISCONNECT *)
(* and the clean-up of closed connections run in the reader thread.  Steps *)
(* under the gate of module Subscriptions are single steps here.           *)
(*                                                                         *)
(* The clients wait for CONNACK before they subscribe, and for the answer  *)
(* to a request before the next one, but they may leave at any point.      *)
(***************************************************************************)
EXTENDS FiniteSets

CONSTANTS
    Conns,     \* connections; one that is gone is taken for a new one
    Ids,       \* client identifiers
    ClientOf,  \* the identifier each connection gives
    Clean,     \* connections that ask for a clean session
    Filters,   \* topic filters
    Wants,     \* the filters the client of each connection asks for
    Wild,      \* those with wild cards, kept in tables of their own
    None

ASSUME SessionsAssumption ==
    /\ ClientOf \in [Conns -> Ids]
    /\ Clean \subseteq Conns
    /\ Wants \in [Conns -> SUBSET Filters]
    /\ Wild \subseteq Filters
    /\ None \notin Conns \cup Filters

VARIABLES
    client_ids,    \* ctx->client_ids: the connection registered for each
    is_ok,         \* the connection works
    watched,       \* the reader holds it: it is not cleaned up yet
    at,            \* the task that works for it, and where that task is
    filter,        \* the topic filter the task works on
    todo,          \* stored subscriptions the CONNECT task has not read yet
    conn_subs,     \* conn->subs and conn->wild_subs
    subs,          \* ctx->subs and ctx->wild_subs
    offline_subs,  \* ctx->offline_subs and ctx->offline_wild_subs
    disk,          \* subs directory of each session
    reader,        \* what the reader thread is doing, for which connection
    granted,       \* subscriptions the client was told it has
    abrupt,        \* sessions whose connection broke without DISCONNECT
    taken          \* identifiers given away while an earlier connection of the
                   \* session was not gone

vars == <<client_ids, is_ok, watched, at, filter, todo, conn_subs, subs,
          offline_subs, disk, reader, granted, abrupt, taken>>

tableVars == <<conn_subs, subs, offline_subs>>
taskVars  == <<at, filter, todo>>
connVars  == <<is_ok, watched>>
pastVars  == <<abrupt, taken>>

ConnectSteps == {"connect", "registered", "recovering", "recover_ctx",
                 "move_exact", "move_wild", "accepting", "refusing"}
RequestSteps == {"sub_store", "sub_conn", "sub_ctx", "suback",
                 "unsub_store", "unsub_conn", "unsub_ctx", "unsuback"}
Steps        == {"none", "ready", "gone"} \cup ConnectSteps
                \cup RequestSteps
ReaderSteps  == {"release", "move", "clean_id", "clean_exact", "clean_wild"}

Idle == [at |-> "idle", conn |-> None, left |-> {}]

\* Every field and table holds what the code may put in it: no subscription
\* without a filter, no identifier registered for nothing but a connection.
TypeOK ==
    /\ client_ids \in [Ids -> Conns \cup {None}]
    /\ is_ok \in [Conns -> BOOLEAN]
    /\ watched \in [Conns -> BOOLEAN]
    /\ at \in [Conns -> Steps]
    /\ filter \in [Conns -> Filters \cup {None}]
    /\ todo \in [Conns -> SUBSET Filters]
    /\ conn_subs \in [Conns -> SUBSET Filters]
    /\ subs \subseteq Filters \X Conns
    /\ offline_subs \subseteq Filters \X Ids
    /\ disk \in [Ids -> SUBSET Filters]
    /\ reader \in [at : ReaderSteps, conn : Conns, left : SUBSET Filters]
                  \cup {Idle}
    /\ granted \in [Ids -> SUBSET Filters]
    /\ abrupt \subseteq Ids
    /\ taken \subseteq Ids

Init ==
    /\ client_ids = [i \in Ids |-> None]
    /\ is_ok = [c \in Conns |-> FALSE]
    /\ watched = [c \in Conns |-> FALSE]
    /\ at = [c \in Conns |-> "gone"]
    /\ filter = [c \in Conns |-> None]
    /\ todo = [c \in Conns |-> {}]
    /\ conn_subs = [c \in Conns |-> {}]
    /\ subs = {}
    /\ offline_subs = {}
    /\ disk = [i \in Ids |-> {}]
    /\ reader = Idle
    /\ granted = [i \in Ids |-> {}]
    /\ abrupt = {}
    /\ taken = {}

Goes(c, step) == at' = [at EXCEPT ![c] = step]

\* The reader takes what a client sends between two of its own tasks.
Reads(c) == reader = Idle /\ watched[c] /\ is_ok[c]

-----------------------------------------------------------------------------
(* CONNECT: __myqtt_reader_handle_connect and myqtt_conn_send_connect_reply. *)

\* The listener accepts a connection from the network.
NewConn(c) ==
    /\ ~watched[c]
    /\ at[c] \in {"none", "ready", "gone"}
    /\ client_ids[ClientOf[c]] # c
    /\ \A f \in Filters : <<f, c>> \notin subs
    /\ is_ok' = [is_ok EXCEPT ![c] = TRUE]
    /\ watched' = [watched EXCEPT ![c] = TRUE]
    /\ Goes(c, "none")
    /\ conn_subs' = [conn_subs EXCEPT ![c] = {}]
    /\ UNCHANGED <<client_ids, filter, todo, subs, offline_subs, disk, reader,
                   granted, pastVars>>

Connect(c) ==
    /\ Reads(c)
    /\ at[c] = "none"
    /\ Goes(c, "connect")
    /\ UNCHANGED <<client_ids, connVars, filter, todo, tableVars, disk, reader,
                   granted, pastVars>>

\* Another connection of the session has not ended.
Busy(d) == \/ at[d] # "none" /\ watched[d]
           \/ at[d] \in ConnectSteps \cup RequestSteps
           \/ reader.conn = d

Rivals(c) == {d \in Conns \ {c} : ClientOf[d] = ClientOf[c]}

\* Under client_ids_m.
CheckClientId(c) ==
    LET i == ClientOf[c]
    IN  /\ at[c] = "connect"
        /\ IF client_ids[i] # None
           THEN /\ Goes(c, "refusing")
                /\ UNCHANGED <<client_ids, pastVars>>
           ELSE /\ client_ids' = [client_ids EXCEPT ![i] = c]
                /\ Goes(c, "registered")
                /\ taken' = IF \E d \in Rivals(c) : Busy(d)
                            THEN taken \cup {i} ELSE taken
                /\ abrupt' = IF is_ok[c] \/ c \in Clean THEN abrupt
                             ELSE abrupt \cup {i}
        /\ UNCHANGED <<connVars, filter, todo, tableVars, disk, reader, granted>>

\* The storage of the session cannot be used, before the identifier is
\* registered or before the session is recovered.
StorageFails(c) ==
    /\ c \notin Clean
    /\ \/ at[c] = "connect" /\ client_ids[ClientOf[c]] = None
       \/ at[c] = "registered"
    /\ Goes(c, "refusing")
    /\ UNCHANGED <<client_ids, connVars, filter, todo, tableVars, disk, reader,
                   granted, pastVars>>

\* on_connect decides, at once or later.
Refuse(c) ==
    /\ at[c] = "registered"
    /\ Goes(c, "refusing")
    /\ UNCHANGED <<client_ids, connVars, filter, todo, tableVars, disk, reader,
                   granted, pastVars>>

\* myqtt_storage_clear: the offline tables are left as they are.
Clear(c) ==
    /\ at[c] = "registered"
    /\ c \in Clean
    /\ disk' = [disk EXCEPT ![ClientOf[c]] = {}]
    /\ granted' = [granted EXCEPT ![ClientOf[c]] = {}]
    /\ Goes(c, "accepting")
    /\ UNCHANGED <<client_ids, connVars, filter, todo, tableVars, reader,
                   pastVars>>

\* myqtt_storage_session_recover reads the directory of subscriptions; what is
\* stored meanwhile may be read or not.
Recover(c) ==
    /\ at[c] = "registered"
    /\ c \notin Clean
    /\ todo' = [todo EXCEPT ![c] = disk[ClientOf[c]]]
    /\ Goes(c, "recovering")
    /\ UNCHANGED <<client_ids, connVars, filter, tableVars, disk, reader, granted,
                   pastVars>>

\* __myqtt_reader_subscribe registers each in the connection, then in the context.
RecoverConn(c) ==
    /\ at[c] = "recovering"
    /\ \E f \in disk[ClientOf[c]] :
          /\ filter' = [filter EXCEPT ![c] = f]
          /\ todo' = [todo EXCEPT ![c] = @ \ {f}]
          /\ conn_subs' = [conn_subs EXCEPT ![c] = @ \cup {f}]
    /\ Goes(c, "recover_ctx")
    /\ UNCHANGED <<client_ids, connVars, subs, offline_subs, disk, reader, granted,
                   pastVars>>

RecoverContext(c) ==
    /\ at[c] = "recover_ctx"
    /\ subs' = subs \cup {<<filter[c], c>>}
    /\ filter' = [filter EXCEPT ![c] = None]
    /\ Goes(c, "recovering")
    /\ UNCHANGED <<client_ids, connVars, todo, conn_subs, offline_subs, disk,
                   reader, granted, pastVars>>

\* Mutant: the directory is not read to its end.
FirstRead(c) == conn_subs[c] # {} \/ todo[c] = {}
AllRead(c)   == todo[c] \cap disk[ClientOf[c]] = {}

\* With no subscription at all there is nothing to move.
RecoverEnd(c) ==
    /\ at[c] = "recovering"
    /\ AllRead(c)
    /\ todo' = [todo EXCEPT ![c] = {}]
    /\ Goes(c, IF conn_subs[c] = {} THEN "accepting" ELSE "move_exact")
    /\ UNCHANGED <<client_ids, connVars, filter, tableVars, disk, reader, granted,
                   pastVars>>

\* __myqtt_reader_move_offline_to_online, one table and then the other.
MoveOnline(c, step, next, table) ==
    /\ at[c] = step
    /\ offline_subs' = offline_subs \ ((conn_subs[c] \cap table) \X {ClientOf[c]})
    /\ Goes(c, next)
    /\ UNCHANGED <<client_ids, connVars, filter, todo, conn_subs, subs, disk,
                   reader, granted, pastVars>>

\* CONNACK is written; the session is whole again if it arrives.
Accept(c) ==
    /\ at[c] = "accepting"
    /\ Goes(c, "ready")
    /\ abrupt' = IF is_ok[c] THEN abrupt \ {ClientOf[c]} ELSE abrupt
    /\ UNCHANGED <<client_ids, connVars, filter, todo, tableVars, disk, reader,
                   granted, taken>>

\* CONNACK with an error, and the connection is shut down.
Deny(c) ==
    /\ at[c] = "refusing"
    /\ Goes(c, "gone")
    /\ is_ok' = [is_ok EXCEPT ![c] = FALSE]
    /\ UNCHANGED <<client_ids, watched, filter, todo, tableVars, disk, reader,
                   granted, pastVars>>

-----------------------------------------------------------------------------
(* SUBSCRIBE: __myqtt_reader_handle_subscribe.                              *)

Request(c, step) ==
    /\ Reads(c)
    /\ at[c] = "ready"
    /\ \E f \in Wants[c] : filter' = [filter EXCEPT ![c] = f]
    /\ Goes(c, step)
    /\ UNCHANGED <<client_ids, connVars, todo, tableVars, disk, reader, pastVars>>

Subscribe(c) == Request(c, "sub_store") /\ UNCHANGED granted

\* Mutant: a session that has a subscription stored gets no other one.
StoredOnce(i, f) == IF disk[i] = {} THEN {f} ELSE disk[i]

\* myqtt_storage_sub
Stored(i, f) == disk[i] \cup {f}

\* Stored before it is known that on_subscribe refused it.
StoreSub(c) ==
    /\ at[c] = "sub_store"
    /\ disk' = IF c \in Clean THEN disk
               ELSE [disk EXCEPT ![ClientOf[c]] = Stored(ClientOf[c], filter[c])]
    /\ \/ Goes(c, "sub_conn") /\ UNCHANGED filter
       \/ Goes(c, "ready") /\ filter' = [filter EXCEPT ![c] = None]
    /\ UNCHANGED <<client_ids, connVars, todo, tableVars, reader, granted, pastVars>>

\* It is refused as well if it cannot be stored.
StoreSubFails(c) ==
    /\ at[c] = "sub_store"
    /\ c \notin Clean
    /\ Goes(c, "ready")
    /\ filter' = [filter EXCEPT ![c] = None]
    /\ UNCHANGED <<client_ids, connVars, todo, tableVars, disk, reader, granted,
                   pastVars>>

SubConn(c) ==
    /\ at[c] = "sub_conn"
    /\ conn_subs' = [conn_subs EXCEPT ![c] = @ \cup {filter[c]}]
    /\ Goes(c, "sub_ctx")
    /\ UNCHANGED <<client_ids, connVars, filter, todo, subs, offline_subs, disk,
                   reader, granted, pastVars>>

SubContext(c) ==
    /\ at[c] = "sub_ctx"
    /\ subs' = subs \cup {<<filter[c], c>>}
    /\ Goes(c, "suback")
    /\ UNCHANGED <<client_ids, connVars, filter, todo, conn_subs, offline_subs,
                   disk, reader, granted, pastVars>>

\* The client learns that it is subscribed.
Suback(c) ==
    /\ at[c] = "suback"
    /\ granted' = IF is_ok[c] /\ c \notin Clean
                  THEN [granted EXCEPT ![ClientOf[c]] = @ \cup {filter[c]}]
                  ELSE granted
    /\ filter' = [filter EXCEPT ![c] = None]
    /\ Goes(c, "ready")
    /\ UNCHANGED <<client_ids, connVars, todo, tableVars, disk, reader, pastVars>>

-----------------------------------------------------------------------------
(* UNSUBSCRIBE: __myqtt_reader_handle_unsubscribe.                          *)

\* The client gives the subscription up.
Unsubscribe(c) ==
    /\ Request(c, "unsub_store")
    /\ granted' = IF c \in Clean THEN granted
                  ELSE [granted EXCEPT ![ClientOf[c]] = @ \ {filter'[c]}]

\* myqtt_storage_unsub; then on_unsubscribe may refuse.
UnsubStore(c) ==
    /\ at[c] = "unsub_store"
    /\ disk' = IF c \in Clean THEN disk
               ELSE [disk EXCEPT ![ClientOf[c]] = @ \ {filter[c]}]
    /\ Goes(c, "unsub_conn") \/ Goes(c, "unsuback")
    /\ UNCHANGED <<client_ids, connVars, filter, todo, tableVars, reader, granted,
                   pastVars>>

UnsubConn(c) ==
    /\ at[c] = "unsub_conn"
    /\ conn_subs' = [conn_subs EXCEPT ![c] = @ \ {filter[c]}]
    /\ Goes(c, "unsub_ctx")
    /\ UNCHANGED <<client_ids, connVars, filter, todo, subs, offline_subs, disk,
                   reader, granted, pastVars>>

\* Mutant: ctx->wild_subs is left as it is.
OnlySubs(f, c) == IF f \in Wild THEN subs ELSE subs \ {<<f, c>>}

\* Without the connection in the table of the filter.
Without(f, c)  == subs \ {<<f, c>>}

UnsubContext(c) ==
    /\ at[c] = "unsub_ctx"
    /\ subs' = Without(filter[c], c)
    /\ Goes(c, "unsuback")
    /\ UNCHANGED <<client_ids, connVars, filter, todo, conn_subs, offline_subs,
                   disk, reader, granted, pastVars>>

Unsuback(c) ==
    /\ at[c] = "unsuback"
    /\ filter' = [filter EXCEPT ![c] = None]
    /\ Goes(c, "ready")
    /\ UNCHANGED <<client_ids, connVars, todo, tableVars, disk, reader, granted,
                   pastVars>>

-----------------------------------------------------------------------------
(* The reader: __myqtt_reader_handle_disconnect.                            *)

\* Also while a request of the connection is served.
Disconnect(c) ==
    /\ Reads(c)
    /\ at[c] \in RequestSteps \cup {"ready"}
    /\ is_ok' = [is_ok EXCEPT ![c] = FALSE]
    /\ reader' = [at |-> "release", conn |-> c, left |-> {}]
    /\ UNCHANGED <<client_ids, watched, taskVars, tableVars, disk, granted, pastVars>>

\* Whoever the identifier is registered for.
Unregistered(c) == [client_ids EXCEPT ![ClientOf[c]] = None]

\* The identifier is free before the subscriptions are moved.
ReleaseId ==
    LET c == reader.conn
    IN  /\ reader.at = "release"
        /\ client_ids' = Unregistered(c)
        /\ reader' = IF c \in Clean \/ conn_subs[c] = {} THEN Idle
                     ELSE [reader EXCEPT !.at = "move", !.left = conn_subs[c]]
        /\ UNCHANGED <<connVars, taskVars, tableVars, disk, granted, pastVars>>

\* Mutant: only the filters without wild cards are moved.
OnlyExact(f, c) == IF f \in Wild THEN {} ELSE {<<f, ClientOf[c]>>}
Entry(f, c)     == {<<f, ClientOf[c]>>}

\* __myqtt_reader_move_online_to_offline, one subscription at a time.
MoveOffline ==
    /\ reader.at = "move"
    /\ \E f \in reader.left :
          /\ offline_subs' = offline_subs \cup Entry(f, reader.conn)
          /\ reader' = IF reader.left = {f} THEN Idle
                       ELSE [reader EXCEPT !.left = @ \ {f}]
    /\ UNCHANGED <<client_ids, connVars, taskVars, conn_subs, subs, disk, granted,
                   pastVars>>

-----------------------------------------------------------------------------
(* The reader: __myqtt_reader_remove_conn_refs.                             *)

Cleanup(c) ==
    /\ reader = Idle
    /\ watched[c]
    /\ ~is_ok[c]
    /\ reader' = [at |-> "clean_id", conn |-> c, left |-> {}]
    /\ UNCHANGED <<client_ids, connVars, taskVars, tableVars, disk, granted, pastVars>>

\* The connection has no identifier before CONNECT; its task takes it from the
\* message some time before it checks it.
CleanId ==
    LET c == reader.conn
    IN  /\ reader.at = "clean_id"
        /\ \/ at[c] # "none" /\ client_ids' = Unregistered(c)
           \/ at[c] \in {"none", "connect"} /\ client_ids' = client_ids
        /\ reader' = [reader EXCEPT !.at = "clean_exact"]
        /\ UNCHANGED <<connVars, taskVars, tableVars, disk, granted, pastVars>>

\* The filters that conn->subs holds by then, and then conn->wild_subs.
CleanTable(table) ==
    subs' = subs \ ((conn_subs[reader.conn] \cap table) \X {reader.conn})

CleanExact ==
    /\ reader.at = "clean_exact"
    /\ CleanTable(Filters \ Wild)
    /\ reader' = [reader EXCEPT !.at = "clean_wild"]
    /\ UNCHANGED <<client_ids, connVars, taskVars, conn_subs, offline_subs, disk,
                   granted, pastVars>>

CleanWild ==
    /\ reader.at = "clean_wild"
    /\ CleanTable(Wild)
    /\ watched' = [watched EXCEPT ![reader.conn] = FALSE]
    /\ reader' = Idle
    /\ UNCHANGED <<client_ids, is_ok, taskVars, conn_subs, offline_subs, disk,
                   granted, pastVars>>

-----------------------------------------------------------------------------
(* Failures.                                                                *)

\* The peer closes without DISCONNECT, or the socket fails.
ConnDown(c) ==
    /\ is_ok[c]
    /\ is_ok' = [is_ok EXCEPT ![c] = FALSE]
    /\ abrupt' = IF at[c] \in {"none", "connect"} \/ c \in Clean THEN abrupt
                 ELSE abrupt \cup {ClientOf[c]}
    /\ UNCHANGED <<client_ids, watched, taskVars, tableVars, disk, reader, granted,
                   taken>>

\* The server ends and starts again: myqtt_storage_load.
Restart ==
    /\ client_ids' = [i \in Ids |-> None]
    /\ at' = [c \in Conns |-> "gone"]
    /\ is_ok' = [c \in Conns |-> FALSE]
    /\ watched' = [c \in Conns |-> FALSE]
    /\ filter' = [c \in Conns |-> None]
    /\ todo' = [c \in Conns |-> {}]
    /\ conn_subs' = [c \in Conns |-> {}]
    /\ subs' = {}
    /\ offline_subs' = UNION {disk[i] \X {i} : i \in Ids}
    /\ reader' = Idle
    /\ abrupt' = {}
    /\ UNCHANGED <<disk, granted, taken>>

ConnectTask(c) ==
    \/ CheckClientId(c) \/ StorageFails(c) \/ Refuse(c) \/ Clear(c)
    \/ Recover(c) \/ RecoverConn(c) \/ RecoverContext(c) \/ RecoverEnd(c)
    \/ MoveOnline(c, "move_exact", "move_wild", Filters \ Wild)
    \/ MoveOnline(c, "move_wild", "accepting", Wild)
    \/ Accept(c) \/ Deny(c)

RequestTask(c) ==
    \/ StoreSub(c) \/ StoreSubFails(c) \/ SubConn(c) \/ SubContext(c) \/ Suback(c)
    \/ UnsubStore(c) \/ UnsubConn(c) \/ UnsubContext(c) \/ Unsuback(c)

Client(c) == NewConn(c) \/ Connect(c) \/ Subscribe(c) \/ Unsubscribe(c)
             \/ Disconnect(c)

Reader == \/ ReleaseId \/ MoveOffline \/ CleanId \/ CleanExact \/ CleanWild
          \/ \E c \in Conns : Cleanup(c)

Next == \/ \E c \in Conns : Client(c) \/ ConnectTask(c) \/ RequestTask(c)
        \/ Reader
        \/ \E c \in Conns : ConnDown(c)
        \/ Restart

Spec == Init /\ [][Next]_vars

-----------------------------------------------------------------------------
(* Properties.                                                              *)

\* CONNACK was sent, and the connection works.
Connected(c) == is_ok[c] /\ at[c] \in RequestSteps \cup {"ready"}

Online(c) == {f \in Filters : <<f, c>> \in subs}

\* DISCONNECT of a connection is being handled and the filter is to be moved.
Leaving(f, c) ==
    /\ reader.conn = c
    /\ \/ reader.at = "release" /\ f \in conn_subs[c]
       \/ reader.at = "move" /\ f \in reader.left

\* A subscription that was granted is found by publications, at a connection
\* that works or among the offline ones, from the answer to SUBSCRIBE on:
\* through DISCONNECT (but for the moment in which it is moved), the absence of
\* the client, its return and a restart of the server.  The code does not
\* ensure it for a session whose connection broke without DISCONNECT, or whose
\* identifier was given away too early.
GrantedIsReachable ==
    \A i \in Ids \ (abrupt \cup taken) : \A f \in granted[i] :
        \/ <<f, i>> \in offline_subs
        \/ \E c \in Conns : /\ ClientOf[c] = i
                            /\ \/ is_ok[c] /\ f \in Online(c)
                               \/ Leaving(f, c)

\* A client that comes back is subscribed to all it was granted before it gets
\* CONNACK, however its last connection ended.
ReturnsWithAll ==
    \A c \in Conns \ Clean :
        Connected(c) /\ ClientOf[c] \notin taken
            => granted[ClientOf[c]] \subseteq Online(c)

\* What was granted is on disk, for the next start of the server.
GrantedIsStored ==
    \A i \in Ids \ taken : granted[i] \subseteq disk[i]

\* The tables of a connection that works agree between its requests.
TablesAgree ==
    \A c \in Conns : is_ok[c] /\ at[c] = "ready" => conn_subs[c] = Online(c)

\* Contradicted by a run.  "Checking that is not accepted two connections with
\* the same client identifier" (test/myqtt-regression-client.c).
OneConnection ==
    \A c, d \in Conns :
        Connected(c) /\ Connected(d) /\ ClientOf[c] = ClientOf[d] => c = d
=============================================================================
