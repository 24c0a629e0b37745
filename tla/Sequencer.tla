----------------------------- MODULE Sequencer -----------------------------
(***************************************************************************)
(* The MyQtt sequencer (lib/myqtt-sequencer.c): the one thread of a        *)
(* context that writes queued MQTT messages to the sockets, the callers    *)
(* that queue messages with myqtt_sequencer_send, and myqtt_conn_close,    *)
(* which flushes a connection and writes DISCONNECT behind the sequencer's *)
(* back.                                                                   *)
(*                                                                         *)
(* A message is written in steps of at most 4096 bytes, one step each time *)
(* the cursor passes over it.  The thread keeps pending_messages_m from    *)
(* the moment it finds the list non-empty until the list is empty again,   *)
(* so callers append only while it waits.                                  *)
(***************************************************************************)
EXTENDS Integers, FiniteSets, Sequences, SequencesExt

CONSTANTS
    Conns,        \* connections of the context
    Initiators,   \* those opened by this side (role MyQttRoleInitiator)
    Msgs,         \* messages, each queued once, by a caller of its own
    ConnOf,       \* the connection each message is queued for
    Steps,        \* number of 4096-byte steps each message needs
    DISCONNECT,   \* the one message written by myqtt_conn_close itself
    MaxTorn       \* bound on writes given up on a socket that stays full

ASSUME SequencerAssumption ==
    /\ Initiators \subseteq Conns
    /\ IsFiniteSet(Msgs)
    /\ ConnOf \in [Msgs -> Conns]
    /\ Steps \in [Msgs -> Nat \ {0}]
    /\ DISCONNECT \notin Msgs
    /\ MaxTorn \in Nat

VARIABLES
    myqtt_exit,          \* ctx->myqtt_exit
    is_ok,               \* myqtt_conn_is_ok of each connection
    ref_count,           \* references the sequencer holds on each connection
    sequencer_messages,  \* conn->sequencer_messages
    pending_messages,    \* ctx->pending_messages: [msg, step]
    cursor,              \* position of the thread's list cursor
    sequencer,           \* where the thread is
    sender,              \* where the caller queueing each message is
    wire,                \* what each connection's socket has accepted
    torn,                \* messages given up in the middle of a write
    close,               \* where myqtt_conn_close of each connection is
    close_timeout,       \* the close stopped waiting because time ran out
    due                  \* messages already accepted when close was called

vars == <<myqtt_exit, is_ok, ref_count, sequencer_messages, pending_messages,
          cursor, sequencer, sender, wire, torn, close, close_timeout, due>>

callerVars == <<ref_count, sequencer_messages, sender>>
closeVars  == <<close, close_timeout, due>>
threadVars == <<pending_messages, cursor, sequencer>>
writeVars  == <<wire, torn>>

SenderStates == {"idle", "refused", "referenced", "counted", "queued", "released"}
CloseStates  == {"open", "flushing", "sending", "sent", "closed"}

\* What a socket accepts at once: step number step of a message.
Piece == [msg : Msgs \cup {DISCONNECT}, step : Nat]

\* Counters never go below zero, and the cursor stays on the list.
TypeOK ==
    /\ myqtt_exit \in BOOLEAN
    /\ is_ok \in [Conns -> BOOLEAN]
    /\ ref_count \in [Conns -> Nat]
    /\ sequencer_messages \in [Conns -> Nat]
    /\ pending_messages \in Seq([msg : Msgs, step : Nat])
    /\ cursor \in 1 .. Len(pending_messages) + 1
    /\ sequencer \in {"waiting", "writing", "ended"}
    /\ sender \in [Msgs -> SenderStates]
    /\ wire \in [Conns -> Seq(Piece)]
    /\ torn \subseteq Msgs
    /\ close \in [Conns -> CloseStates]
    /\ close_timeout \subseteq Conns
    /\ due \in [Conns -> SUBSET Msgs]

Init ==
    /\ myqtt_exit = FALSE
    /\ is_ok = [c \in Conns |-> TRUE]
    /\ ref_count = [c \in Conns |-> 0]
    /\ sequencer_messages = [c \in Conns |-> 0]
    /\ pending_messages = <<>>
    /\ cursor = 1
    /\ sequencer = "waiting"
    /\ sender = [m \in Msgs |-> "idle"]
    /\ wire = [c \in Conns |-> <<>>]
    /\ torn = {}
    /\ close = [c \in Conns |-> "open"]
    /\ close_timeout = {}
    /\ due = [c \in Conns |-> {}]

-----------------------------------------------------------------------------
(* myqtt_sequencer_queue_data, step by step, in the caller of message m.    *)

\* The context is exiting or the connection is down: the message is freed.
QueueRefused(m) ==
    /\ sender[m] = "idle"
    /\ myqtt_exit \/ ~is_ok[ConnOf[m]]
    /\ sender' = [sender EXCEPT ![m] = "refused"]
    /\ UNCHANGED <<myqtt_exit, is_ok, ref_count, sequencer_messages,
                   threadVars, writeVars, closeVars>>

\* myqtt_conn_ref: the list will hold a reference to the connection.
QueueRef(m) ==
    /\ sender[m] = "idle"
    /\ ~myqtt_exit
    /\ is_ok[ConnOf[m]]
    /\ ref_count' = [ref_count EXCEPT ![ConnOf[m]] = @ + 1]
    /\ sender' = [sender EXCEPT ![m] = "referenced"]
    /\ UNCHANGED <<myqtt_exit, is_ok, sequencer_messages, threadVars,
                   writeVars, closeVars>>

\* sequencer_messages is raised under op_mutex before the message is queued.
QueueCount(m) ==
    /\ sender[m] = "referenced"
    /\ sequencer_messages' = [sequencer_messages EXCEPT ![ConnOf[m]] = @ + 1]
    /\ sender' = [sender EXCEPT ![m] = "counted"]
    /\ UNCHANGED <<myqtt_exit, is_ok, ref_count, threadVars, writeVars, closeVars>>

\* The thread releases pending_messages_m only while it waits, or at its end.
MutexFree == sequencer # "writing"

\* Mutant: a message is queued although it was not counted yet.
CountedLate(m) == sender[m] \in {"referenced", "counted"}
Counted(m)     == sender[m] = "counted"

\* Mutant: the message is put first in the list.
Prepended(item) == <<item>> \o pending_messages
Appended(item)  == Append(pending_messages, item)

QueueAppend(m) ==
    /\ Counted(m)
    /\ MutexFree
    /\ pending_messages' = Appended([msg |-> m, step |-> 0])
    /\ sender' = [sender EXCEPT ![m] = "queued"]
    /\ UNCHANGED <<myqtt_exit, is_ok, ref_count, sequencer_messages, cursor,
                   sequencer, writeVars, closeVars>>

-----------------------------------------------------------------------------
(* __myqtt_sequencer_run.                                                   *)

\* The wait on the condition ends: messages were queued.
Wake ==
    /\ sequencer = "waiting"
    /\ pending_messages # <<>>
    /\ ~myqtt_exit
    /\ sequencer' = "writing"
    /\ cursor' = 1
    /\ UNCHANGED <<myqtt_exit, is_ok, pending_messages, callerVars, writeVars,
                   closeVars>>

\* The exit flag is looked at before a pass, never within one.
End ==
    /\ myqtt_exit
    /\ \/ sequencer = "waiting"
       \/ sequencer = "writing" /\ cursor > Len(pending_messages)
    /\ sequencer' = "ended"
    /\ UNCHANGED <<myqtt_exit, is_ok, pending_messages, cursor, callerVars,
                   writeVars, closeVars>>

\* A pass is over: wait again (releasing the mutex) only if the list is empty.
NextPass ==
    /\ sequencer = "writing"
    /\ cursor > Len(pending_messages)
    /\ ~myqtt_exit
    /\ sequencer' = IF pending_messages = <<>> THEN "waiting" ELSE "writing"
    /\ cursor' = 1
    /\ UNCHANGED <<myqtt_exit, is_ok, pending_messages, callerVars, writeVars,
                   closeVars>>

AtCursor == sequencer = "writing" /\ cursor <= Len(pending_messages)
Item     == pending_messages[cursor]
ItemConn == ConnOf[Item.msg]

\* The cursor is on the next message already.
AfterRemoved == cursor

\* release_message: on_msg_sent is called, the counter and the reference are
\* given back and the message leaves the list; the cursor is on the next one.
ReleaseMessage ==
    /\ sequencer_messages' = [sequencer_messages EXCEPT ![ItemConn] = @ - 1]
    /\ ref_count' = [ref_count EXCEPT ![ItemConn] = @ - 1]
    /\ sender' = [sender EXCEPT ![Item.msg] = "released"]
    /\ pending_messages' = RemoveAt(pending_messages, cursor)
    /\ cursor' = AfterRemoved

NextStep == Item.step + 1

\* The message moves one step and the cursor goes on to the next message.
KeepMessage ==
    /\ pending_messages' = [pending_messages EXCEPT ![cursor].step = NextStep]
    /\ cursor' = cursor + 1
    /\ UNCHANGED <<sequencer_messages, ref_count, sender>>

\* One step is written whole.
WriteStep ==
    /\ AtCursor
    /\ is_ok[ItemConn]
    /\ wire' = [wire EXCEPT ![ItemConn] = Append(@, Item)]
    /\ IF Item.step + 1 = Steps[Item.msg] THEN ReleaseMessage ELSE KeepMessage
    /\ UNCHANGED <<myqtt_exit, is_ok, sequencer, torn, closeVars>>

\* The write fails and myqtt_msg_send_raw shuts the connection down.
WriteFails ==
    /\ AtCursor
    /\ is_ok[ItemConn]
    /\ is_ok' = [is_ok EXCEPT ![ItemConn] = FALSE]
    /\ ReleaseMessage
    /\ UNCHANGED <<myqtt_exit, sequencer, wire, torn, closeVars>>

\* After three partial writes myqtt_msg_send_raw gives up and leaves the
\* connection working: part of the step is on the wire, the rest never will.
WriteTorn ==
    /\ AtCursor
    /\ is_ok[ItemConn]
    /\ Cardinality(torn) < MaxTorn
    /\ torn' = torn \cup {Item.msg}
    /\ ReleaseMessage
    /\ UNCHANGED <<myqtt_exit, is_ok, sequencer, wire, closeVars>>

\* Mutant: a message whose connection is down stays in the list.
SkipMessage ==
    /\ AtCursor
    /\ ~is_ok[ItemConn]
    /\ cursor' = cursor + 1
    /\ UNCHANGED <<myqtt_exit, is_ok, pending_messages, sequencer, callerVars,
                   writeVars, closeVars>>

\* A message whose connection is down is dropped.
DropMessage ==
    /\ AtCursor
    /\ ~is_ok[ItemConn]
    /\ ReleaseMessage
    /\ UNCHANGED <<myqtt_exit, is_ok, sequencer, wire, torn, closeVars>>

-----------------------------------------------------------------------------
(* myqtt_conn_close: only the first call progresses.                        *)

CloseCall(c) ==
    /\ close[c] = "open"
    /\ close' = [close EXCEPT ![c] = "flushing"]
    /\ due' = [due EXCEPT ![c] = {m \in Msgs : ConnOf[m] = c /\ sender[m] = "queued"}]
    /\ UNCHANGED <<myqtt_exit, is_ok, threadVars, callerVars, writeVars,
                   close_timeout>>

\* Mutant: the last message is not waited for.
FlushedEarly(c) == sequencer_messages[c] <= 1 \/ ~is_ok[c]
Flushed(c)      == sequencer_messages[c] = 0 \/ ~is_ok[c]

\* The loops that wait for sequencer_messages = 0 and then for the replies end.
CloseFlushed(c) ==
    /\ close[c] = "flushing"
    /\ Flushed(c)
    /\ close' = [close EXCEPT ![c] = "sending"]
    /\ UNCHANGED <<myqtt_exit, is_ok, threadVars, callerVars, writeVars,
                   close_timeout, due>>

\* Mutant: the wait is not timed.
NoCloseTimeout(c) == FALSE

\* ... or the connection's timeout is used up while messages are pending.
CloseTimeout(c) ==
    /\ close[c] = "flushing"
    /\ sequencer_messages[c] > 0
    /\ is_ok[c]
    /\ close' = [close EXCEPT ![c] = "sending"]
    /\ close_timeout' = close_timeout \cup {c}
    /\ UNCHANGED <<myqtt_exit, is_ok, threadVars, callerVars, writeVars, due>>

\* DISCONNECT goes straight to the socket, without pending_messages_m.
CloseSend(c) ==
    /\ close[c] = "sending"
    /\ c \in Initiators
    /\ is_ok[c]
    /\ wire' = [wire EXCEPT ![c] =
                        Append(@, [msg |-> DISCONNECT, step |-> 0])]
    /\ close' = [close EXCEPT ![c] = "sent"]
    /\ UNCHANGED <<myqtt_exit, is_ok, threadVars, callerVars, torn,
                   close_timeout, due>>

\* The connection is shut down once DISCONNECT is written (or not written).
CloseShutdown(c) ==
    /\ close[c] = "sent"
    /\ is_ok' = [is_ok EXCEPT ![c] = FALSE]
    /\ close' = [close EXCEPT ![c] = "closed"]
    /\ UNCHANGED <<myqtt_exit, threadVars, callerVars, writeVars,
                   close_timeout, due>>

\* A connection that is down, or that the peer opened, is only unreferenced.
CloseSkip(c) ==
    /\ close[c] = "sending"
    /\ c \notin Initiators \/ ~is_ok[c]
    /\ close' = [close EXCEPT ![c] = "closed"]
    /\ UNCHANGED <<myqtt_exit, is_ok, threadVars, callerVars, writeVars,
                   close_timeout, due>>

-----------------------------------------------------------------------------
(* The rest of the library: the reader finds the peer gone, the context is  *)
(* finished with myqtt_exit_ctx.                                            *)

ConnDown(c) ==
    /\ is_ok[c]
    /\ is_ok' = [is_ok EXCEPT ![c] = FALSE]
    /\ UNCHANGED <<myqtt_exit, threadVars, callerVars, writeVars, closeVars>>

Exit ==
    /\ ~myqtt_exit
    /\ myqtt_exit' = TRUE
    /\ UNCHANGED <<is_ok, threadVars, callerVars, writeVars, closeVars>>

Caller(m) == QueueRefused(m) \/ QueueRef(m) \/ QueueCount(m) \/ QueueAppend(m)
Thread    == \/ Wake \/ End \/ NextPass
             \/ WriteStep \/ WriteFails \/ WriteTorn \/ DropMessage
Closer(c) == \/ CloseFlushed(c) \/ CloseTimeout(c) \/ CloseSend(c)
             \/ CloseShutdown(c) \/ CloseSkip(c)

Next ==
    \/ \E m \in Msgs : Caller(m)
    \/ Thread
    \/ \E c \in Conns : CloseCall(c) \/ Closer(c) \/ ConnDown(c)
    \/ Exit

\* The thread never stops before myqtt_exit, a caller that has its reference
\* goes on, and a close that started goes on: each is a running thread.
Fairness ==
    /\ WF_vars(Thread)
    /\ \A m \in Msgs : WF_vars(QueueCount(m) \/ QueueAppend(m))
    /\ \A c \in Conns : WF_vars(Closer(c))

Spec == Init /\ [][Next]_vars /\ Fairness

-----------------------------------------------------------------------------
(* Properties.                                                              *)

\* Every step of message m was written.
Complete(m) ==
    \A step \in 0 .. Steps[m] - 1 : [msg |-> m, step |-> step] \in ToSet(wire[ConnOf[m]])

\* A close that did not run out of time writes DISCONNECT only after every
\* message accepted before the call was sent whole (or torn by a full socket):
\* sequencer_messages covers a message from before it is queued until its last
\* step.
FlushedBeforeDisconnect ==
    \A c \in Conns :
        close[c] = "sent" /\ c \notin close_timeout
            => \A m \in due[c] : Complete(m) \/ m \in torn

\* The connection of a message in the list is referenced until the message is
\* released, and so is the counter myqtt_conn_close waits for: a released
\* message gives back exactly what its caller took.
PendingIsReferenced ==
    \A c \in Conns :
        LET pending == {i \in 1 .. Len(pending_messages) :
                            ConnOf[pending_messages[i].msg] = c}
        IN  /\ Cardinality(pending) <= sequencer_messages[c]
            /\ sequencer_messages[c] <= ref_count[c]

\* A message that was queued is eventually sent or dropped, whatever its
\* connection and the other connections do, unless the context exits.
QueuedIsReleased ==
    \A m \in Msgs : sender[m] = "queued" ~> (sender[m] = "released" \/ myqtt_exit)

\* myqtt_conn_close returns: it never waits for ever for the sequencer.
CloseReturns == \A c \in Conns : close[c] = "flushing" ~> close[c] = "closed"

\* The messages of the items of a list that are chosen, in order.
MsgsOf(items, chosen) ==
    LET upTo[k \in 0 .. Len(items)] ==
            IF k = 0 THEN <<>>
            ELSE IF items[k] \in chosen THEN Append(upTo[k - 1], items[k].msg)
                                        ELSE upTo[k - 1]
    IN  upTo[Len(items)]

\* The messages on the list for connection c, and those whose last step its
\* socket has accepted, in order.
MsgsPending(c) ==
    MsgsOf(pending_messages, [msg : {m \in Msgs : ConnOf[m] = c}, step : Nat])
MsgsWritten(c) ==
    MsgsOf(wire[c], {[msg |-> m, step |-> Steps[m] - 1] : m \in Msgs})

Channel == INSTANCE OrderedChannel WITH
    queue     <- [c \in Conns |-> MsgsPending(c)],
    delivered <- [c \in Conns |-> MsgsWritten(c)],
    lost      <- [c \in Conns |-> {m \in Msgs : /\ ConnOf[m] = c
                                              /\ sender[m] = "released"
                                              /\ ~Complete(m)}],
    Long      <- {m \in Msgs : Steps[m] > 1}

\* Queueing, the list, the cursor and its removals implement an OrderedChannel
\* for each connection: a message of one step is never overtaken, and every
\* message leaves the list once, sent whole or lost.
ImplementsChannel == Channel!ChannelSpec

\* The steps of a message follow each other on the wire: the peer parses one
\* message after the other (test_17c expects a big message back unchanged).
WholeMessages ==
    \A c \in Conns : \A i \in 1 .. Len(wire[c]) - 1 :
        LET p == wire[c][i]
            q == wire[c][i + 1]
        IN  p.msg \in Msgs /\ p.step + 1 < Steps[p.msg] /\ q.msg \in Msgs
                => q = [msg |-> p.msg, step |-> p.step + 1]
=============================================================================
