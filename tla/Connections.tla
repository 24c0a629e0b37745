---------------------------- MODULE Connections ----------------------------
(* The life of a client connection (lib/myqtt-conn.c): how it is opened, how it  *)
(* is marked as broken, its handlers notified, its references released and, when *)
(* asked for, how it is opened again by events of the thread pool.               *)
(* One connection.  The reader is the list it keeps of it (see ReaderLoop).      *)
EXTENDS Integers, FiniteSets

CONSTANTS
  Handlers,    \* close handlers the user sets
  ReconnectEvents,    \* reconnect events, each made by one break of the connection
  MaxListed,   \* bound of listed when the server accepts it (once more is left alone)
  MaxBreaks    \* times the peer or the network breaks it

ASSUME ConnectionAssumption ==
  /\ IsFiniteSet(Handlers) /\ {MaxListed, MaxBreaks} \subseteq Nat
  /\ ReconnectEvents \intersect {"new", "reader", "close"} = {}

Openers == ReconnectEvents \union {"new"}   \* who runs __myqtt_conn_new_internal

VARIABLES
  is_connected, session, last_err,
  opts,          \* "none", "plain", "reconnect", "reuse" (with reconnect), "freed"
  close_called,
  ref_count,
  freed,         \* myqtt_conn_free has run
  listed,        \* times the reader has it in its list or queue
  opening,       \* by opener: "no", "connect", "greet", "accepted", "report", "told"
  unwatching,    \* calls of do_reconnect whose unwatch task has not run
  breaking,      \* threads inside set_not_connected, by what they do next
  closing,       \* myqtt_conn_close: "no", "wait", "sent", "last", "done"
  handler,       \* by handler: "no", "set", "late" (set on a broken one), "thread", "called", "removed"
  has_conn,      \* the user has been given the connection
  breaks

openVars == <<is_connected, session, last_err, opts>>
connectionVars == <<openVars, close_called, ref_count, freed, listed, opening, unwatching,
                    breaking, closing, handler, has_conn, breaks>>

IsOk == is_connected /\ session = "open"   \* myqtt_conn_is_ok
Reconnects == opts \in {"reconnect", "reuse"}

\* myqtt_conn_new_full_common; the opener runs in the caller or in the pool
ConnectionInit ==
  /\ is_connected = FALSE /\ session = "none" /\ last_err = "unknown"
  /\ opts \in {"none", "plain", "reconnect", "reuse"}
  /\ close_called = FALSE /\ ref_count = 1 /\ freed = FALSE /\ listed = 0
  /\ opening = [k \in Openers |-> IF k = "new" THEN "connect" ELSE "no"]
  /\ unwatching = 0 /\ breaking = {} /\ closing = "no"
  /\ handler = [h \in Handlers |-> "no"] /\ has_conn = FALSE /\ breaks = 0

ConnectionTypeOK ==
  /\ {is_connected, close_called, freed, has_conn} \subseteq BOOLEAN
  /\ session \in {"none", "open"}
  /\ last_err \in {"unknown", "unable", "refused", "code", "timeout", "accepted"}
  /\ opts \in {"none", "plain", "reconnect", "reuse", "freed"}
  /\ ref_count \in Int /\ listed \in Nat /\ unwatching \in Nat
  /\ opening \in [Openers -> {"no", "connect", "greet", "accepted", "report", "told"}]
  /\ breaking \subseteq (Openers \union {"reader", "close"}) \X {"handlers", "socket"}
  /\ closing \in {"no", "wait", "sent", "last", "done"}
  /\ handler \in [Handlers -> {"no", "set", "thread", "called", "late", "removed"}]
  /\ breaks \in 0 .. MaxBreaks

\* myqtt_conn_unref; myqtt_conn_free with the last one, which frees the options too
Unref(n) ==
  /\ ref_count' = ref_count - n
  /\ freed' = (freed \/ ref_count - n = 0)
Quiet == UNCHANGED <<ref_count, freed>>
OpenAt(k, at) == opening' = [opening EXCEPT ![k] = at]

(* --------------------- __myqtt_conn_set_not_connected --------------------- *)
\* who finds the connection broken marks it and takes a reference; whoever finds it
\* marked does nothing
Mark(who) ==
  IF is_connected
  THEN /\ is_connected' = FALSE /\ ref_count' = ref_count + 1
       /\ breaking' = breaking \union {<<who, "handlers">>}
       /\ UNCHANGED <<session, last_err, opts, freed>>
  ELSE UNCHANGED <<openVars, ref_count, freed, breaking>>

\* Mutant: handlers are passed over.
InvokeNone(who) ==
  /\ <<who, "handlers">> \in breaking
  /\ breaking' = (breaking \ {<<who, "handlers">>}) \union {<<who, "socket">>}
  /\ UNCHANGED <<openVars, close_called, ref_count, freed, listed, opening, unwatching,
                 closing, handler, has_conn, breaks>>

\* __myqtt_conn_invoke_on_close: each handler leaves the list and gets a thread of its
\* own with a reference
InvokeOnClose(who) ==
  /\ <<who, "handlers">> \in breaking
  /\ LET set == {h \in Handlers : handler[h] \in {"set", "late"}}
     IN  \/ /\ set = {} /\ UNCHANGED <<handler, ref_count>>
            /\ breaking' = (breaking \ {<<who, "handlers">>}) \union {<<who, "socket">>}
         \/ \E h \in set : /\ handler' = [handler EXCEPT ![h] = "thread"]
                           /\ ref_count' = ref_count + 1 /\ UNCHANGED breaking
  /\ UNCHANGED <<openVars, close_called, freed, listed, opening, unwatching, closing,
                 has_conn, breaks>>

\* Mutant: without giving the reference back.
HandlerKeeps(h) ==
  /\ handler[h] = "thread" /\ handler' = [handler EXCEPT ![h] = "called"] /\ Quiet
  /\ UNCHANGED <<openVars, close_called, listed, opening, unwatching, breaking, closing,
                 has_conn, breaks>>
HandlerRuns(h) ==
  /\ handler[h] = "thread" /\ handler' = [handler EXCEPT ![h] = "called"] /\ Unref(1)
  /\ UNCHANGED <<openVars, close_called, listed, opening, unwatching, breaking, closing,
                 has_conn, breaks>>

\* the socket is closed and, if asked for, __myqtt_conn_do_reconnect takes a reference
\* for the event and asks the reader to forget the connection
Broken(who) ==
  /\ <<who, "socket">> \in breaking /\ breaking' = breaking \ {<<who, "socket">>}
  /\ session' = "none"
  /\ IF Reconnects /\ \E e \in ReconnectEvents : opening[e] = "no"
     THEN unwatching' = unwatching + 1 /\ Quiet
     ELSE Unref(1) /\ UNCHANGED unwatching
  /\ UNCHANGED <<is_connected, last_err, opts, close_called, listed, opening, closing,
                 handler, has_conn, breaks>>

Inside(who) == \E at \in {"handlers", "socket"} : <<who, at>> \in breaking

(* -------------------------------- opening -------------------------------- *)
\* the setup handler, or the name, the socket, connect and the wait for it
Connect(k) ==
  /\ opening[k] = "connect"
  /\ \/ /\ session' = "open" /\ is_connected' = TRUE /\ OpenAt(k, "greet")
        /\ UNCHANGED last_err
     \/ /\ session' = "none" /\ is_connected' = FALSE /\ last_err' = "unable"
        /\ OpenAt(k, "report")
     \/ /\ session' = "open" /\ is_connected' = FALSE /\ last_err' = "unable"   \* no local name
        /\ OpenAt(k, "report")
  /\ Quiet
  /\ UNCHANGED <<opts, close_called, listed, unwatching, breaking, closing, handler, has_conn,
                 breaks>>

\* CONNECT is sent and CONNACK read.  The reader is given the connection before the
\* opener has finished with it.
Accepted(k) ==
  /\ opening[k] = "greet" /\ IsOk /\ ~Inside(k) /\ listed < MaxListed /\ OpenAt(k, "accepted")
  /\ listed' = listed + 1 /\ ref_count' = ref_count + 1
  /\ UNCHANGED <<openVars, close_called, freed, unwatching, breaking, closing, handler,
                 has_conn, breaks>>
AcceptedEnds(k) ==
  /\ opening[k] = "accepted" /\ last_err' = "accepted" /\ OpenAt(k, "report")
  /\ Quiet
  /\ UNCHANGED <<is_connected, session, opts, close_called, listed, unwatching, breaking,
                 closing, handler, has_conn, breaks>>

\* the server answers with a code, or nothing comes in time: no handler is told
NotAccepted(k) ==
  /\ opening[k] = "greet" /\ ~Inside(k)
  /\ OpenAt(k, "report") /\ is_connected' = FALSE
  /\ \/ IsOk /\ last_err' = "code" /\ UNCHANGED session
     \/ IsOk /\ last_err' = "timeout" /\ session' = "none"
     \/ ~IsOk /\ last_err' = "refused" /\ session' = "none"
  /\ Quiet
  /\ UNCHANGED <<opts, close_called, listed, unwatching, breaking, closing, handler, has_conn,
                 breaks>>

\* the peer closes instead of answering
GreetingBreaks(k) ==
  /\ opening[k] = "greet" /\ IsOk /\ ~Inside(k) /\ breaks < MaxBreaks /\ breaks' = breaks + 1
  /\ Mark(k)
  /\ UNCHANGED <<close_called, listed, opening, unwatching, closing, handler, has_conn>>

\* the options are freed, unless they are to be reused; the user gets the connection
NewReports ==
  /\ opening["new"] = "report" /\ OpenAt("new", "told") /\ has_conn' = TRUE
  /\ opts' = IF opts = "plain" THEN "freed" ELSE opts
  /\ Quiet
  /\ UNCHANGED <<is_connected, session, last_err, close_called, listed, unwatching, breaking,
                 closing, handler, breaks>>

\* __myqtt_conn_do_reconnect_third_step: another watch for a connection that is well,
\* and the event ends; otherwise it runs again in a second
EventReports(e) ==
  /\ e \in ReconnectEvents /\ opening[e] = "report"
  /\ IF IsOk THEN OpenAt(e, "told") /\ listed' = listed + 1 /\ Quiet
     ELSE OpenAt(e, "connect") /\ UNCHANGED listed /\ Quiet
  /\ UNCHANGED <<openVars, close_called, unwatching, breaking, closing, handler, has_conn,
                 breaks>>

(* ------------------------------- the reader ------------------------------- *)
\* __myqtt_reader_unwatch_connection_launch: a connection the reader does not have gets
\* its event at once; one it has is marked, and gets it when the reader meets the mark
UnwatchAnswered ==
  /\ unwatching > 0 /\ unwatching' = unwatching - 1
  /\ \E e \in ReconnectEvents : opening[e] = "no" /\ OpenAt(e, "connect")
  /\ IF listed > 0 /\ IsOk THEN listed' = listed - 1 /\ Unref(1) ELSE UNCHANGED listed /\ Quiet
  /\ UNCHANGED <<openVars, close_called, breaking, closing, handler, has_conn, breaks>>

ReadFails ==
  /\ listed > 0 /\ IsOk /\ breaks < MaxBreaks /\ breaks' = breaks + 1
  /\ ~Inside("reader") /\ Mark("reader")
  /\ UNCHANGED <<close_called, listed, opening, unwatching, closing, handler, has_conn>>

\* __myqtt_reader_build_set_to_watch_aux drops what is not well
ReaderDrops ==
  /\ listed > 0 /\ ~IsOk /\ ~Inside("reader") /\ listed' = listed - 1 /\ Unref(1)
  /\ UNCHANGED <<openVars, close_called, opening, unwatching, breaking, closing, handler,
                 has_conn, breaks>>

(* -------------------------------- the user -------------------------------- *)
SetOnClose(h) ==
  /\ has_conn /\ closing = "no" /\ handler[h] = "no"
  /\ handler' = [handler EXCEPT ![h] = IF is_connected THEN "set" ELSE "late"] /\ Quiet
  /\ UNCHANGED <<openVars, close_called, listed, opening, unwatching, breaking, closing,
                 has_conn, breaks>>
RemoveOnClose(h) ==
  /\ has_conn /\ closing = "no" /\ handler[h] \in {"set", "late"}
  /\ handler' = [handler EXCEPT ![h] = "removed"] /\ Quiet
  /\ UNCHANGED <<openVars, close_called, listed, opening, unwatching, breaking, closing,
                 has_conn, breaks>>

\* myqtt_conn_close: the options go first; then what is queued and awaited is waited
\* for, a while (see Sequencer)
Close ==
  /\ has_conn /\ ~close_called /\ close_called' = TRUE /\ closing' = "wait"
  /\ opts' = IF opts = "reconnect" THEN "none" ELSE opts
  /\ Quiet
  /\ UNCHANGED <<is_connected, session, last_err, listed, opening, unwatching, breaking,
                 handler, has_conn, breaks>>
\* DISCONNECT, with a reference
CloseSends ==
  /\ closing = "wait" /\ IsOk /\ closing' = "sent" /\ ref_count' = ref_count + 1
  /\ UNCHANGED <<openVars, close_called, freed, listed, opening, unwatching, breaking,
                 handler, has_conn, breaks>>
CloseSkips ==
  /\ closing = "wait" /\ ~IsOk /\ closing' = "done" /\ Unref(1)
  /\ UNCHANGED <<openVars, close_called, listed, opening, unwatching, breaking, handler,
                 has_conn, breaks>>
CloseShuts ==
  /\ closing = "sent" /\ closing' = "last" /\ Mark("close")
  /\ UNCHANGED <<close_called, listed, opening, unwatching, handler, has_conn, breaks>>
CloseEnds ==
  /\ closing = "last" /\ ~Inside("close") /\ closing' = "done" /\ Unref(2)
  /\ UNCHANGED <<openVars, close_called, listed, opening, unwatching, breaking, handler,
                 has_conn, breaks>>

ConnectionNext ==
  \/ \E who \in Openers \union {"reader", "close"} : InvokeOnClose(who) \/ Broken(who)
  \/ \E h \in Handlers : HandlerRuns(h) \/ SetOnClose(h) \/ RemoveOnClose(h)
  \/ \E k \in Openers : \/ Connect(k) \/ Accepted(k) \/ AcceptedEnds(k) \/ NotAccepted(k)
                        \/ GreetingBreaks(k) \/ EventReports(k)
  \/ NewReports \/ UnwatchAnswered \/ ReadFails \/ ReaderDrops
  \/ Close \/ CloseSends \/ CloseSkips \/ CloseShuts \/ CloseEnds
ConnectionSpec == ConnectionInit /\ [][ConnectionNext]_connectionVars

(* ------------------------------ properties ------------------------------ *)
One(b) == IF b THEN 1 ELSE 0
UnderWay == {e \in ReconnectEvents : opening[e] \notin {"no", "told"}}

\* Every reference of the connection has a holder and every holder a reference: the
\* user until close ends, each entry of the reader, each handler thread, each reconnect
\* under way, each thread that is breaking it.  So it is freed once, after the last use.
RefsAreHeld ==
  /\ ref_count = One(closing # "done") + listed + Cardinality(breaking) + unwatching
                 + Cardinality(UnderWay) + Cardinality({h \in Handlers : handler[h] = "thread"})
                 + One(closing \in {"sent", "last"})
  /\ freed = (ref_count = 0)

\* A handler set on a connection that is well is told when it breaks, whoever breaks it
\* (myqtt_conn_set_on_close): one not told is about to be, or the connection is being
\* opened again (a refusal there tells nobody).
HandlersAreCalled ==
  \A h \in Handlers : handler[h] = "set" /\ ~is_connected => breaking # {} \/ UnderWay # {}

(* What the code does not ensure, each with a short counterexample. *)
\* The reader has the connection once at most.  Not so: the third step of a reconnect
\* (line 4617) watches again what the opening had watched.
WatchedOnce == listed <= 1
\* A connection the user has closed does not come back.  Not so: an event under way opens it.
ClosedStaysClosed == closing = "done" => ~IsOk
\* One event at a time opens it.  Not so: each break of the greeting starts another.
OneOpener == Cardinality(UnderWay) + unwatching <= 1
\* The options are not used once freed.  Not so: myqtt_conn_close (line 3134) frees them
\* while an event is using them.
OptsAlive == opts = "none" /\ close_called => UnderWay = {}
=============================================================================
