---------------------------- MODULE QosExchange ----------------------------
(***************************************************************************)
(* QoS 1 and QoS 2 exchanges between the two ends of a session:            *)
(* myqtt_conn_pub stores a message, sends it and waits for the replies     *)
(* (lib/myqtt-conn.c); what is stored when a connection is accepted is     *)
(* sent again by a background task (myqtt_storage_queued_flush); the other *)
(* end acknowledges and hands over (__myqtt_reader_handle_publish).        *)
(*                                                                         *)
(* Connections come and go and the sending process may crash: only the     *)
(* stored messages survive.  Every message has a packet identifier of its  *)
(* own (see PacketIds), so the message stands for the identifier in the    *)
(* replies and in the tables of reply queues.                              *)
(***************************************************************************)
EXTENDS Integers, FiniteSets

CONSTANTS
    Msgs,      \* messages
    Qos,       \* 1 or 2, for each
    MaxConns,  \* bound on the connections of the session
    None

ASSUME QosExchangeAssumption ==
    /\ Qos \in [Msgs -> {1, 2}]
    /\ MaxConns \in Nat \ {0}
    /\ Msgs \cap Nat = {}
    /\ None \notin Msgs \cup Nat

\* Connections are numbered.  A message is sent by the caller of myqtt_conn_pub,
\* named as the message, or by the flush of a connection, named as it.
Conns   == 1 .. MaxConns
Senders == Msgs \cup Conns

VARIABLES
    conn,       \* the last connection, 0 before the first
    is_ok,      \* it works
    stored,     \* files in the session's msgs directory
    offline,    \* messages that were queued with myqtt_conn_offline_pub
    at,         \* where each sender is
    sending,    \* the message it is sending
    on,         \* the connection it was given
    due,        \* files that were there when the flush of a connection began
    seen,       \* files it has passed
    queue,      \* per connection and message: the replies queued, or None
    wire,       \* replies and PUBREL messages on their way
    tasks,      \* PUBLISH messages sent, and what the other end does with them
    handed,     \* how often each message was given to its delivery task
    dropped,    \* messages a flush released without having sent them
    accepted    \* messages the session took charge of

vars == <<conn, is_ok, stored, offline, at, sending, on, due, seen, queue, wire, tasks,
          handed, dropped, accepted>>

connVars   == <<conn, is_ok>>
senderVars == <<at, sending, on, due, seen, dropped>>
peerVars   == <<tasks, handed>>
takenVars  == <<offline, accepted>>

SenderSteps == {"idle", "scan", "stored", "sent", "acked", "recced", "rel_sent",
                "done", "failed", "crashed"}
TaskSteps   == {"publish", "received", "recced", "handed"}
ReplyTypes  == {"PUBACK", "PUBREC", "PUBCOMP"}
QueueTypes  == (SUBSET ReplyTypes) \cup {None}

\* Every sender and task is at a step of its own, and a reply queue exists only
\* for a connection and a message.
TypeOK ==
    /\ conn \in Conns \cup {0}
    /\ is_ok \in BOOLEAN
    /\ {stored, offline} \subseteq SUBSET Msgs
    /\ at \in [Senders -> SenderSteps]
    /\ sending \in [Senders -> Msgs \cup {None}]
    /\ on \in [Senders -> Conns \cup {0}]
    /\ due \in [Conns -> SUBSET Msgs]
    /\ seen \in [Conns -> SUBSET Msgs]
    /\ queue \in [Conns \X Msgs -> QueueTypes]
    /\ wire \subseteq Msgs \X (ReplyTypes \cup {"PUBREL"})
    /\ tasks \subseteq [from : Senders, msg : Msgs, on : Conns, at : TaskSteps]
    /\ handed \in [Msgs -> Nat]
    /\ dropped \subseteq Msgs
    /\ accepted \subseteq Msgs

Init ==
    /\ conn = 0
    /\ is_ok = FALSE
    /\ stored = {} /\ offline = {}
    /\ at = [s \in Senders |-> "idle"]
    /\ sending = [s \in Senders |-> IF s \in Msgs THEN s ELSE None]
    /\ on = [s \in Senders |-> IF s \in Msgs THEN 0 ELSE s]
    /\ due = [c \in Conns |-> {}]
    /\ seen = [c \in Conns |-> {}]
    /\ queue = [e \in Conns \X Msgs |-> None]
    /\ wire = {}
    /\ tasks = {}
    /\ handed = [m \in Msgs |-> 0]
    /\ dropped = {}
    /\ accepted = {}

\* myqtt_conn_is_ok
Works(c) == is_ok /\ c = conn

-----------------------------------------------------------------------------
(* Taking charge of a message.                                              *)

\* myqtt_conn_pub stores the message before it is sent.
Store(m) ==
    /\ at[m] = "idle"
    /\ is_ok
    /\ at' = [at EXCEPT ![m] = "stored"]
    /\ on' = [on EXCEPT ![m] = conn]
    /\ stored' = stored \cup {m}
    /\ accepted' = accepted \cup {m}
    /\ UNCHANGED <<connVars, offline, sending, due, seen, dropped, queue, wire, peerVars>>

\* myqtt_conn_offline_pub, whether the session has a connection or not.
OfflinePub(m) ==
    /\ at[m] = "idle"
    /\ at' = [at EXCEPT ![m] = "done"]
    /\ stored' = stored \cup {m}
    /\ offline' = offline \cup {m}
    /\ accepted' = accepted \cup {m}
    /\ UNCHANGED <<connVars, sending, on, due, seen, dropped, queue, wire,
                   peerVars>>

\* on_store refuses the message, or there is no file for it; or the file could not be
\* written to its end, and stays.
StoreFails(m) ==
    /\ at[m] = "idle"
    /\ offline' \in {offline \cup {m}} \cup (IF is_ok THEN {offline} ELSE {})
    /\ stored' \in {stored, stored \cup {m}}
    /\ at' = [at EXCEPT ![m] = "failed"]
    /\ UNCHANGED <<connVars, sending, on, due, seen, dropped, queue, wire, peerVars,
                   accepted>>

-----------------------------------------------------------------------------
(* myqtt_storage_queued_flush_work, a task of the pool for each connection. *)

\* A file found while the directory is read; it may belong to a message that a
\* caller is sending at this moment.
FlushNext(c) ==
    /\ at[c] = "scan"
    /\ \E m \in stored \ seen[c] :
          /\ sending' = [sending EXCEPT ![c] = m]
          /\ seen' = [seen EXCEPT ![c] = @ \cup {m}]
    /\ at' = [at EXCEPT ![c] = "stored"]
    /\ UNCHANGED <<connVars, stored, on, due, dropped, queue, wire, peerVars, takenVars>>

\* readdir returns no more; it may pass over what was stored after opendir.
StoppedEarly(c) == seen[c] # {} \/ due[c] = {}
AllRead(c)      == due[c] \cap stored \subseteq seen[c]

FlushEnd(c) ==
    /\ at[c] = "scan"
    /\ AllRead(c)
    /\ at' = [at EXCEPT ![c] = "done"]
    /\ sending' = [sending EXCEPT ![c] = None]
    /\ due' = [due EXCEPT ![c] = {}]
    /\ seen' = [seen EXCEPT ![c] = {}]
    /\ UNCHANGED <<connVars, stored, on, dropped, queue, wire, peerVars, takenVars>>

-----------------------------------------------------------------------------
(* __myqtt_conn_pub_send_and_handle_reply.                                  *)

\* The QoS in the name of the file of a published message has MYQTT_QOS_SKIP_STOREAGE_NOTIFY
\* in it: with that, QoS 1 reads as QoS 1 and 2 with MYQTT_QOS_SKIP_STORAGE for the flush.
\* For QoS 2 it makes no difference.
SkipsStorage(s) == s \in Conns /\ Qos[sending[s]] = 1 /\ sending[s] \notin offline

\* The caller gets the result; the flush goes on to the next file whatever the
\* result is.
Ends(s, result) ==
    /\ at' = [at EXCEPT ![s] = IF s \in Conns THEN "scan" ELSE result]
    /\ dropped' = IF s \in Conns /\ result = "failed" /\ sending[s] \in stored
                     /\ ~SkipsStorage(s)
                  THEN dropped \cup {sending[s]} ELSE dropped
    /\ UNCHANGED <<sending, on, due, seen>>

\* myqtt_storage_release_msg
Forget(s) == stored' = IF SkipsStorage(s) THEN stored ELSE stored \ {sending[s]}

Entry(s) == <<on[s], sending[s]>>

\* A reply queue is installed, then the message goes to the sequencer.
Prepare(s) == queue' = [queue EXCEPT ![Entry(s)] = {}]

SendPublish(s) ==
    /\ at[s] = "stored"
    /\ Works(on[s])
    /\ Prepare(s)
    /\ tasks' = tasks \cup {[from |-> s, msg |-> sending[s], on |-> on[s],
                             at |-> "publish"]}
    /\ at' = [at EXCEPT ![s] = "sent"]
    /\ UNCHANGED <<connVars, stored, sending, on, due, seen, dropped, wire, handed,
                   takenVars>>

\* Nothing can be sent: the stored message is released as well.
SendFails(s) ==
    /\ at[s] = "stored"
    /\ ~Works(on[s])
    /\ Forget(s)
    /\ Ends(s, "failed")
    /\ UNCHANGED <<connVars, queue, wire, peerVars, takenVars>>

\* The reply to a PUBLISH that is expected, and what follows it.
FirstReply(m) == IF Qos[m] = 1 THEN "PUBACK" ELSE "PUBREC"
AtOnce(m)     == "done"
AfterFirst(m) == IF Qos[m] = 1 THEN "done" ELSE "recced"

\* The reply to PUBLISH.  The message is released whatever the reply is.
TakeFirst(s) ==
    LET m == sending[s]
    IN  /\ at[s] = "sent"
        /\ ~SkipsStorage(s)
        /\ queue[Entry(s)] \notin {None, {}}
        /\ \E reply \in queue[Entry(s)] :
              IF reply = FirstReply(m) /\ AfterFirst(m) = "recced"
              THEN /\ at' = [at EXCEPT ![s] = "recced"]
                   /\ UNCHANGED <<sending, on, due, seen, dropped>>
              ELSE Ends(s, IF reply = FirstReply(m) THEN "done" ELSE "failed")
        /\ queue' = [queue EXCEPT ![Entry(s)] = None]
        /\ Forget(s)
        /\ UNCHANGED <<connVars, wire, peerVars, takenVars>>

SendPubrel(s) ==
    /\ at[s] = "recced"
    /\ IF Works(on[s])
       THEN /\ Prepare(s)
            /\ wire' = wire \cup {<<sending[s], "PUBREL">>}
            /\ at' = [at EXCEPT ![s] = "rel_sent"]
            /\ UNCHANGED <<sending, on, due, seen, dropped>>
       ELSE /\ Ends(s, "failed")
            /\ UNCHANGED <<queue, wire>>
    /\ UNCHANGED <<connVars, stored, peerVars, takenVars>>

TakePubcomp(s) ==
    /\ at[s] = "rel_sent"
    /\ queue[Entry(s)] \notin {None, {}}
    /\ \E reply \in queue[Entry(s)] :
          Ends(s, IF reply = "PUBCOMP" THEN "done" ELSE "failed")
    /\ queue' = [queue EXCEPT ![Entry(s)] = None]
    /\ Forget(s)
    /\ UNCHANGED <<connVars, wire, peerVars, takenVars>>

\* Another thread works with the same message over the same connection, and may
\* have replaced or removed the queue this one waits on.
Shared(s) == \E t \in Senders \ {s} : Entry(t) = Entry(s)

\* __myqtt_reader_get_reply gives up: in time, or because the connection is
\* down.  What is in the queue by then is still taken.
OnlyDown(s) == queue[Entry(s)] \in {None, {}} /\ ~Works(on[s])
NoReply(s)  == queue[Entry(s)] \in {None, {}} \/ Shared(s)

GiveUp(s) ==
    /\ at[s] \in {"sent", "rel_sent"}
    /\ ~SkipsStorage(s)
    /\ NoReply(s)
    /\ queue' = [queue EXCEPT ![Entry(s)] = None]
    /\ Forget(s)
    /\ Ends(s, "failed")
    /\ UNCHANGED <<connVars, wire, peerVars, takenVars>>

\* A flush that takes the message for QoS 1 and 2 goes on to wait for PUBREC, whatever it got
\* or did not get for PUBACK, on the queue of another thread if there is one; it fails, and
\* releases nothing.
TakeBoth(s) ==
    /\ at[s] \in {"sent", "acked"}
    /\ SkipsStorage(s)
    /\ queue[Entry(s)] \notin {None, {}} \/ NoReply(s)
    /\ queue' = [queue EXCEPT ![Entry(s)] = None]
    /\ IF at[s] = "sent"
       THEN /\ at' = [at EXCEPT ![s] = "acked"]
            /\ UNCHANGED <<sending, on, due, seen, dropped>>
       ELSE Ends(s, "failed")
    /\ UNCHANGED <<connVars, stored, wire, peerVars, takenVars>>

\* __myqtt_reader_handle_wait_reply: a reply nobody waits for is dropped.
HandleReply(m, reply) ==
    /\ <<m, reply>> \in wire
    /\ wire' = wire \ {<<m, reply>>}
    /\ queue' = IF queue[<<conn, m>>] = None THEN queue
                ELSE [queue EXCEPT ![<<conn, m>>] = @ \cup {reply}]
    /\ UNCHANGED <<connVars, stored, senderVars, peerVars, takenVars>>

-----------------------------------------------------------------------------
(* __myqtt_reader_handle_publish, a task of the pool at the other end.      *)

Moves(t, to) == tasks' = (tasks \ {t}) \cup {[t EXCEPT !.at = to]}
Finishes(t)  == tasks' = tasks \ {t}

\* The reader takes the message from the socket.
Receive(t) ==
    /\ t.at = "publish"
    /\ Works(t.on)
    /\ Moves(t, "received")
    /\ UNCHANGED <<connVars, stored, senderVars, queue, wire, handed, takenVars>>

\* on_publish is asked before anything is answered, and tells to ignore it.
BeforeAnswer == "received"

Discard(t) ==
    /\ t.at = BeforeAnswer
    /\ Finishes(t)
    /\ UNCHANGED <<connVars, stored, senderVars, queue, wire, handed, takenVars>>

\* A reply bears the identifier of the message; it is lost with the connection.
OfMessage(t) == t.msg

Reply(t, reply) ==
    wire' = IF Works(t.on) THEN wire \cup {<<OfMessage(t), reply>>} ELSE wire

\* QoS 2: PUBREC comes first, and if it cannot be sent nothing is handed over.
SendPubrec(t) ==
    /\ t.at = "received"
    /\ Qos[t.msg] = 2
    /\ Reply(t, "PUBREC")
    /\ IF Works(t.on) THEN Moves(t, "recced") ELSE Finishes(t)
    /\ UNCHANGED <<connVars, stored, senderVars, queue, handed, takenVars>>

ReadyToHand(m) == IF Qos[m] = 1 THEN "received" ELSE "recced"

\* The task __myqtt_reader_initiate_onward_delivery is created.
HandOver(t) ==
    /\ t.at = ReadyToHand(t.msg)
    /\ handed' = [handed EXCEPT ![t.msg] = @ + 1]
    /\ Moves(t, "handed")
    /\ UNCHANGED <<connVars, stored, senderVars, queue, wire, takenVars>>

Unhanded == "received"
Handed   == "handed"

SendPuback(t) ==
    /\ t.at = Handed
    /\ Qos[t.msg] = 1
    /\ Reply(t, "PUBACK")
    /\ Finishes(t)
    /\ UNCHANGED <<connVars, stored, senderVars, queue, handed, takenVars>>

\* PUBREL has come.
SendPubcomp(t) ==
    /\ t.at = "handed"
    /\ Qos[t.msg] = 2
    /\ Works(t.on)
    /\ <<t.msg, "PUBREL">> \in wire
    /\ wire' = (wire \ {<<t.msg, "PUBREL">>}) \cup {<<t.msg, "PUBCOMP">>}
    /\ Finishes(t)
    /\ UNCHANGED <<connVars, stored, senderVars, queue, handed, takenVars>>

\* It does not, within 60 seconds or before the connection goes down.
NoPubrel(t) ==
    /\ t.at = "handed"
    /\ Qos[t.msg] = 2
    /\ Finishes(t)
    /\ UNCHANGED <<connVars, stored, senderVars, queue, wire, handed, takenVars>>

-----------------------------------------------------------------------------
(* Connections.                                                             *)

\* The connection is accepted; if anything is stored its flush begins.
Connect ==
    /\ ~is_ok
    /\ conn < MaxConns
    /\ conn' = conn + 1
    /\ is_ok' = TRUE
    /\ at' = IF stored = {} THEN at ELSE [at EXCEPT ![conn + 1] = "scan"]
    /\ due' = [due EXCEPT ![conn + 1] = stored]
    /\ UNCHANGED <<stored, sending, on, seen, dropped, queue, wire, peerVars,
                   takenVars>>

\* What was on its way is lost with the connection.
ConnDown ==
    /\ is_ok
    /\ is_ok' = FALSE
    /\ wire' = {}
    /\ tasks' = {t \in tasks : t.at # "publish"}
    /\ UNCHANGED <<conn, stored, senderVars, queue, handed, takenVars>>

\* The process ends at any point; what is stored is all that is left.
Crash ==
    /\ is_ok' = FALSE
    /\ wire' = {}
    /\ tasks' = {t \in tasks : t.at # "publish"}
    /\ queue' = [e \in Conns \X Msgs |-> None]
    /\ at' = [s \in Senders |-> IF at[s] \in {"idle", "done", "failed"} THEN at[s]
                                ELSE "crashed"]
    /\ UNCHANGED <<conn, stored, sending, on, due, seen, dropped, handed, takenVars>>

Take(s)   == TakeFirst(s) \/ TakePubcomp(s) \/ GiveUp(s) \/ TakeBoth(s)
Sender(s) == SendPublish(s) \/ SendFails(s) \/ SendPubrel(s) \/ Take(s)
Flush(c)  == FlushNext(c) \/ FlushEnd(c)
Peer(t)   == \/ Receive(t) \/ Discard(t) \/ SendPubrec(t) \/ HandOver(t)
             \/ SendPuback(t) \/ SendPubcomp(t) \/ NoPubrel(t)

Next == \/ \E m \in Msgs : Store(m) \/ OfflinePub(m) \/ StoreFails(m)
        \/ \E c \in Conns : Flush(c)
        \/ \E s \in Senders : Sender(s)
        \/ \E m \in Msgs, reply \in ReplyTypes : HandleReply(m, reply)
        \/ \E t \in tasks : Peer(t)
        \/ Connect \/ ConnDown \/ Crash

\* The threads that send go on, and their waits are timed; the other end may do
\* nothing at all.
Fairness == /\ \A c \in Conns : WF_vars(Flush(c))
            /\ \A s \in Senders : WF_vars(Sender(s))

Spec == Init /\ [][Next]_vars /\ Fairness

-----------------------------------------------------------------------------
(* Properties.                                                              *)

\* A caller of myqtt_conn_pub is told that a message was published only when the
\* other end has given it to a delivery task, whatever connections broke and
\* whoever else was sending the message.
ReportedIsHanded ==
    \A m \in Msgs \ offline : at[m] = "done" => handed[m] > 0

\* A QoS 2 message that is released by PUBREC is about to be handed over.
OnItsWay(m) == \E t \in tasks : t.msg = m /\ t.at = "recced"

\* A message the session has taken charge of is handed over, or it is stored, so
\* that the next connection sends it; or its caller was told that it was not
\* published; or the flush has given it up.
NotLost ==
    \A m \in accepted :
        \/ handed[m] > 0 \/ OnItsWay(m)
        \/ m \in stored \/ m \in dropped \/ at[m] = "failed"

\* myqtt_conn_pub and the flush return from every message they send, even when
\* the other end never answers.
ExchangesEnd ==
    \A s \in Senders :
        at[s] \in {"stored", "sent", "acked", "recced", "rel_sent"}
            ~> at[s] \in {"scan", "done", "failed", "crashed"}

\* What is stored when a connection is accepted leaves the storage, unless the
\* process ends before; but for QoS 1 messages that were published, and survived a crash
\* or could not be written, which the flush of every connection sends again.
QueuedIsFlushed ==
    \A c \in Conns, m \in Msgs :
        (at[c] = "scan" /\ m \in due[c] /\ (Qos[m] = 2 \/ m \in offline))
            ~> (m \notin stored \/ at[c] = "crashed")

\* "in any case, remove message from local storage" (lib/myqtt-conn.c:2194): what the
\* other end acknowledged to a flush leaves the storage.  Not so for a QoS 1 message that
\* was published (SkipsStorage).
AcknowledgedIsReleased ==
    \A c \in Conns, m \in Msgs :
        (at[c] = "sent" /\ sending[c] = m /\ "PUBACK" \in queue[<<c, m>>])
            ~> (m \notin stored \/ at[c] = "crashed")

\* Contradicted by a run.  QoS 2 is "for use when neither loss nor duplication of
\* messages are acceptable" (lib/myqtt-types.h): without a crash a message is
\* handed over once.
ExactlyOnce ==
    \A m \in Msgs : Qos[m] = 2 /\ at[m] # "crashed" => handed[m] <= 1
=============================================================================
