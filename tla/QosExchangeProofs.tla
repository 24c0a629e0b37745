------------------------- MODULE QosExchangeProofs -------------------------
(***************************************************************************)
(* Proofs about QosExchange, for any messages and any number of            *)
(* connections: its types, that a caller told of success was served, and   *)
(* that a message is not lost unless a flush gives it up.                  *)
(***************************************************************************)
EXTENDS QosExchange, TLAPS

USE QosExchangeAssumption DEF Conns, Senders

Busy == {"stored", "sent", "acked", "recced", "rel_sent"}

\* A thread that sends has a message and a connection: a caller its own message,
\* a flush its own connection.
Known ==
    /\ is_ok => conn \in Conns
    /\ \A m \in Msgs : sending[m] = m
    /\ \A c \in Conns : on[c] = c
    /\ \A s \in Senders : at[s] \in Busy => sending[s] \in Msgs /\ on[s] \in Conns

\* The reply has been sent, and it may still be taken.
Told(m, reply) ==
    \/ <<m, reply>> \in wire
    \/ \E c \in Conns : queue[<<c, m>>] # None /\ reply \in queue[<<c, m>>]

\* What a reply proves: PUBACK and PUBCOMP that the message is handed over,
\* PUBREC that it is or is about to be.
Evidence ==
    /\ \A m \in Msgs : Told(m, "PUBACK") \/ Told(m, "PUBCOMP") => handed[m] > 0
    /\ \A m \in Msgs : Told(m, "PUBREC") => handed[m] > 0 \/ OnItsWay(m)
    /\ \A t \in tasks : t.at = "handed" => handed[t.msg] > 0

-----------------------------------------------------------------------------
(* Types.                                                                   *)

\* Changing one queue, and moving one task on.
LEMMA QueueChange ==
    ASSUME TypeOK, NEW e \in Conns \X Msgs, NEW q \in QueueTypes
    PROVE  [queue EXCEPT ![e] = q] \in [Conns \X Msgs -> QueueTypes]
BY DEF TypeOK

LEMMA QueueGrows ==
    ASSUME TypeOK, NEW e \in Conns \X Msgs, queue[e] # None, NEW reply \in ReplyTypes
    PROVE  [queue EXCEPT ![e] = @ \cup {reply}] \in [Conns \X Msgs -> QueueTypes]
<1>1. queue[e] \cup {reply} \in QueueTypes
  BY DEF TypeOK, QueueTypes
<1> QED BY <1>1, QueueChange

LEMMA TaskMove ==
    ASSUME TypeOK, NEW t \in tasks, NEW to \in TaskSteps, Moves(t, to)
    PROVE  tasks' \subseteq [from : Senders, msg : Msgs, on : Conns, at : TaskSteps]
<1>1. t \in [from : Senders, msg : Msgs, on : Conns, at : TaskSteps]
  BY DEF TypeOK
<1>2. [t EXCEPT !.at = to] \in [from : Senders, msg : Msgs, on : Conns, at : TaskSteps]
  BY <1>1
<1> QED BY <1>2 DEF TypeOK, Moves

\* The steps of a thread that sends.
LEMMA SenderTypes ==
    ASSUME TypeOK, Known, NEW s \in Senders, Sender(s)
    PROVE  TypeOK' /\ Known'
<1> USE DEF TypeOK, Known, Busy, SenderSteps, ReplyTypes, QueueTypes, TaskSteps,
            connVars, peerVars, takenVars
<1>1. sending[s] \in Msgs /\ on[s] \in Conns
  BY DEF Sender, Take, SendPublish, SendFails, SendPubrel, TakeFirst, TakePubcomp,
         GiveUp, TakeBoth
\* What an end leaves to check of the other variables.
<1> DEFINE Ended == /\ at' \in [Senders -> SenderSteps]
                    /\ dropped' \subseteq Msgs
                    /\ \A u \in Senders : at'[u] \in Busy => sending[u] \in Msgs
                                                                 /\ on[u] \in Conns
                    /\ UNCHANGED <<sending, on, due, seen>>
<1>2. ASSUME NEW result \in SenderSteps \ Busy, Ends(s, result)
      PROVE  Ended
  BY <1>1, <1>2 DEF Ends
<1>9. ASSUME Ended, stored' \subseteq Msgs,
             queue' \in [Conns \X Msgs -> QueueTypes],
             UNCHANGED <<connVars, wire, peerVars, takenVars>>
      PROVE  TypeOK' /\ Known'
  BY <1>9
<1>3. CASE SendPublish(s)
  <2>1. on[s] \in Conns
    BY <1>3 DEF SendPublish, Works
  <2> QED BY <1>1, <1>3, <2>1 DEF SendPublish, Prepare, Entry
<1>4. CASE SendFails(s)
  <2>1. Ended
    BY <1>2, <1>4 DEF SendFails
  <2> QED BY <1>4, <2>1, <1>9 DEF SendFails, Forget
<1>5. CASE SendPubrel(s)
  <2>1. CASE Works(on[s])
    <3>1. on[s] \in Conns
      BY <2>1 DEF Works
    <3>2. queue' \in [Conns \X Msgs -> QueueTypes]
      <4>1. Entry(s) \in Conns \X Msgs /\ {} \in QueueTypes
        BY <1>1 DEF Entry
      <4>2. queue' = [queue EXCEPT ![Entry(s)] = {}]
        BY <1>5, <2>1 DEF SendPubrel, Prepare
      <4> QED BY <4>1, <4>2, QueueChange
    <3>3. wire' \subseteq Msgs \X (ReplyTypes \cup {"PUBREL"})
      BY <1>1, <1>5, <2>1 DEF SendPubrel
    <3>4. /\ at' = [at EXCEPT ![s] = "rel_sent"]
          /\ UNCHANGED <<sending, on, due, seen, dropped, connVars, stored, peerVars,
                         takenVars>>
      BY <1>5, <2>1 DEF SendPubrel
    <3> QED BY <1>1, <3>2, <3>3, <3>4
  <2>2. CASE ~Works(on[s])
    <3>1. Ended
      BY <1>2, <1>5, <2>2 DEF SendPubrel
    <3> QED BY <1>5, <2>2, <3>1, <1>9 DEF SendPubrel
  <2> QED BY <2>1, <2>2
<1>6. CASE TakeFirst(s)
  <2>1. queue' \in [Conns \X Msgs -> QueueTypes] /\ stored' \subseteq Msgs
    BY <1>6 DEF TakeFirst, Forget
  <2>2. \/ /\ at' = [at EXCEPT ![s] = "recced"]
           /\ UNCHANGED <<sending, on, due, seen, dropped>>
        \/ Ends(s, "done") \/ Ends(s, "failed")
    BY <1>6 DEF TakeFirst
  <2>3. UNCHANGED <<connVars, wire, peerVars, takenVars>>
    BY <1>6 DEF TakeFirst
  <2>4. Ended
    <3>1. CASE Ends(s, "done") \/ Ends(s, "failed")
      BY <3>1, <1>2
    <3>2. CASE /\ at' = [at EXCEPT ![s] = "recced"]
               /\ UNCHANGED <<sending, on, due, seen, dropped>>
      BY <3>2, <1>1
    <3> QED BY <2>2, <3>1, <3>2
  <2> QED BY <2>1, <2>3, <2>4, <1>9
<1>7. CASE TakePubcomp(s)
  <2>1. Ends(s, "done") \/ Ends(s, "failed")
    BY <1>7 DEF TakePubcomp
  <2>2. queue' \in [Conns \X Msgs -> QueueTypes] /\ stored' \subseteq Msgs
    BY <1>7 DEF TakePubcomp, Forget
  <2>3. UNCHANGED <<connVars, wire, peerVars, takenVars>>
    BY <1>7 DEF TakePubcomp
  <2> QED BY <1>2, <1>9, <2>1, <2>2, <2>3
<1>8. CASE GiveUp(s)
  <2>1. queue' \in [Conns \X Msgs -> QueueTypes] /\ stored' \subseteq Msgs
    BY <1>8 DEF GiveUp, Forget
  <2>2. Ended
    BY <1>2, <1>8 DEF GiveUp
  <2>3. UNCHANGED <<connVars, wire, peerVars, takenVars>>
    BY <1>8 DEF GiveUp
  <2> QED BY <1>9, <2>1, <2>2, <2>3
<1>10. CASE TakeBoth(s)
  <2>1. queue' \in [Conns \X Msgs -> QueueTypes] /\ stored' \subseteq Msgs
    BY <1>10 DEF TakeBoth
  <2>2. Ended
    <3>1. CASE Ends(s, "failed")
      BY <3>1, <1>2
    <3>2. CASE /\ at' = [at EXCEPT ![s] = "acked"]
               /\ UNCHANGED <<sending, on, due, seen, dropped>>
      BY <3>2, <1>1
    <3> QED BY <1>10, <3>1, <3>2 DEF TakeBoth
  <2>3. UNCHANGED <<connVars, wire, peerVars, takenVars>>
    BY <1>10 DEF TakeBoth
  <2> QED BY <1>9, <2>1, <2>2, <2>3
<1> QED BY <1>3, <1>4, <1>5, <1>6, <1>7, <1>8, <1>10 DEF Sender, Take

\* The steps of the other end.
LEMMA PeerTypes ==
    ASSUME TypeOK, Known, NEW t \in tasks, Peer(t)
    PROVE  TypeOK' /\ Known'
<1> USE DEF TypeOK, Known, Busy, ReplyTypes, TaskSteps, connVars, senderVars, takenVars
<1>1. /\ t \in [from : Senders, msg : Msgs, on : Conns, at : TaskSteps]
      /\ t.msg \in Msgs
  OBVIOUS
<1>2. ASSUME NEW to \in TaskSteps, Moves(t, to)
      PROVE  tasks' \subseteq [from : Senders, msg : Msgs, on : Conns, at : TaskSteps]
  BY <1>2, TaskMove
<1>3. ASSUME Finishes(t)
      PROVE  tasks' \subseteq [from : Senders, msg : Msgs, on : Conns, at : TaskSteps]
  BY <1>3 DEF Finishes
<1>4. ASSUME NEW reply \in ReplyTypes, Reply(t, reply)
      PROVE  wire' \subseteq Msgs \X (ReplyTypes \cup {"PUBREL"})
  BY <1>1, <1>4 DEF Reply, OfMessage
<1>5. CASE Receive(t)
  BY <1>2, <1>5 DEF Receive
<1>6. CASE Discard(t)
  BY <1>3, <1>6 DEF Discard
<1>7. CASE SendPubrec(t)
  BY <1>2, <1>3, <1>4, <1>7 DEF SendPubrec
<1>8. CASE HandOver(t)
  BY <1>1, <1>2, <1>8 DEF HandOver
<1>9. CASE SendPuback(t)
  BY <1>3, <1>4, <1>9 DEF SendPuback
<1>10. CASE SendPubcomp(t)
  BY <1>1, <1>3, <1>10 DEF SendPubcomp
<1>11. CASE NoPubrel(t)
  BY <1>3, <1>11 DEF NoPubrel
<1> QED BY <1>5, <1>6, <1>7, <1>8, <1>9, <1>10, <1>11 DEF Peer

LEMMA NoConnIsMsg == \A c \in Conns : c \notin Msgs
OBVIOUS

\* Every other action.
LEMMA SessionTypes ==
    ASSUME TypeOK, Known,
           \/ \E m \in Msgs : Store(m) \/ OfflinePub(m) \/ StoreFails(m)
           \/ \E c \in Conns : FlushNext(c) \/ FlushEnd(c)
           \/ \E m \in Msgs, reply \in ReplyTypes : HandleReply(m, reply)
           \/ Connect \/ ConnDown \/ Crash
    PROVE  TypeOK' /\ Known'
<1> USE DEF TypeOK, Known, Busy, SenderSteps, ReplyTypes, QueueTypes, TaskSteps,
            connVars, senderVars, peerVars, takenVars
<1>1. CASE \E m \in Msgs : Store(m) \/ OfflinePub(m) \/ StoreFails(m)
  <2>1. ASSUME NEW m \in Msgs, Store(m) PROVE TypeOK' /\ Known'
    BY <2>1 DEF Store
  <2>2. ASSUME NEW m \in Msgs, OfflinePub(m) PROVE TypeOK' /\ Known'
    BY <2>2 DEF OfflinePub
  <2>3. ASSUME NEW m \in Msgs, StoreFails(m) PROVE TypeOK' /\ Known'
    BY <2>3 DEF StoreFails
  <2> QED BY <1>1, <2>1, <2>2, <2>3
<1>2. CASE \E c \in Conns : FlushNext(c) \/ FlushEnd(c)
  <2>1. \A c \in Conns : c \notin Msgs
    BY NoConnIsMsg
  <2>2. ASSUME NEW c \in Conns, FlushNext(c) PROVE TypeOK' /\ Known'
    BY <2>1, <2>2 DEF FlushNext
  <2>3. ASSUME NEW c \in Conns, FlushEnd(c) PROVE TypeOK' /\ Known'
    BY <2>1, <2>3 DEF FlushEnd
  <2> QED BY <1>2, <2>2, <2>3
<1>3. CASE \E m \in Msgs, reply \in ReplyTypes : HandleReply(m, reply)
  <2>1. PICK m \in Msgs, reply \in ReplyTypes : HandleReply(m, reply)
    BY <1>3
  <2>2. ASSUME queue[<<conn, m>>] # None, <<conn, m>> \in Conns \X Msgs
        PROVE  [queue EXCEPT ![<<conn, m>>] = @ \cup {reply}]
                   \in [Conns \X Msgs -> QueueTypes]
    BY <2>2, QueueGrows
  <2>3. queue' \in [Conns \X Msgs -> QueueTypes]
    BY <2>1, <2>2 DEF HandleReply
  <2> QED BY <2>1, <2>3 DEF HandleReply
<1>4. CASE Connect
  BY <1>4 DEF Connect
<1>5. CASE ConnDown
  BY <1>5 DEF ConnDown
<1>6. CASE Crash
  BY <1>6 DEF Crash
<1> QED BY <1>1, <1>2, <1>3, <1>4, <1>5, <1>6

LEMMA TypesStep ==
    ASSUME TypeOK, Known, [Next]_vars
    PROVE  TypeOK' /\ Known'
<1>1. CASE UNCHANGED vars
  BY <1>1 DEF vars, TypeOK, Known
<1> QED BY <1>1, SenderTypes, PeerTypes, SessionTypes DEF Next, Flush

LEMMA TypesInit ==
    ASSUME Init
    PROVE  TypeOK /\ Known
<1>1. queue \in [Conns \X Msgs -> QueueTypes]
  BY DEF Init, QueueTypes
<1>2. at \in [Senders -> SenderSteps] /\ handed \in [Msgs -> Nat]
  BY DEF Init, SenderSteps
<1>3. sending \in [Senders -> Msgs \cup {None}] /\ on \in [Senders -> Conns \cup {0}]
  BY DEF Init
<1>4. Known
  <2>1. \A c \in Conns : c \notin Msgs
    BY NoConnIsMsg
  <2>2. \A m \in Msgs : sending[m] = m
    BY DEF Init
  <2>3. \A c \in Conns : on[c] = c
    BY <2>1 DEF Init
  <2>4. is_ok = FALSE /\ \A s \in Senders : at[s] \notin Busy
    BY DEF Init, Busy
  <2> QED BY <2>2, <2>3, <2>4 DEF Known
<1> QED BY <1>1, <1>2, <1>3, <1>4 DEF Init, TypeOK

\* The type invariant holds for any messages and any number of connections.
THEOREM QosTypeCorrect == Spec => []TypeOK
<1>1. TypeOK /\ Known /\ [Next]_vars => (TypeOK /\ Known)'
  BY TypesStep
<1> QED BY <1>1, TypesInit, PTL DEF Spec

-----------------------------------------------------------------------------
(* What replies prove.                                                      *)

\* Evidence holds on when no reply appears, no task is done by magic and none
\* that is about to hand over disappears.
LEMMA EvidenceKept ==
    ASSUME Evidence, handed' = handed,
           \A m \in Msgs, reply \in ReplyTypes : Told(m, reply)' => Told(m, reply),
           \A t \in tasks' : t.at = "handed" => t \in tasks,
           \A t \in tasks : t.at = "recced" => t \in tasks'
    PROVE  Evidence'
<1>1. \A m \in Msgs : OnItsWay(m) => OnItsWay(m)'
  BY DEF OnItsWay
<1> QED BY <1>1 DEF Evidence, ReplyTypes

\* No reply appears when queues are only emptied, and PUBREL is all that is sent.
LEMMA NothingToldAnew ==
    ASSUME wire' \subseteq wire \cup (Msgs \X {"PUBREL"}),
           \A e \in Conns \X Msgs : queue'[e] \in {queue[e], {}, None}
    PROVE  \A m \in Msgs, reply \in ReplyTypes : Told(m, reply)' => Told(m, reply)
BY DEF Told, ReplyTypes

LEMMA SenderEvidence ==
    ASSUME TypeOK, Known, Evidence, NEW s \in Senders, Sender(s)
    PROVE  Evidence'
<1>1. sending[s] \in Msgs
  BY DEF Known, Busy, Sender, Take, SendPublish, SendFails, SendPubrel, TakeFirst,
         TakePubcomp, GiveUp, TakeBoth
<1>2. handed' = handed
  BY DEF Sender, Take, SendPublish, SendFails, SendPubrel, TakeFirst, TakePubcomp,
         GiveUp, TakeBoth, peerVars
<1>3. wire' \subseteq wire \cup (Msgs \X {"PUBREL"})
  BY <1>1 DEF Sender, Take, SendPublish, SendFails, SendPubrel, TakeFirst,
              TakePubcomp, GiveUp, TakeBoth
<1>4. \/ queue' = queue
      \/ queue' = [queue EXCEPT ![Entry(s)] = {}]
      \/ queue' = [queue EXCEPT ![Entry(s)] = None]
  BY DEF Sender, Take, SendPublish, SendFails, SendPubrel, TakeFirst, TakePubcomp,
         GiveUp, TakeBoth, Prepare
<1>5. \A e \in Conns \X Msgs : queue'[e] \in {queue[e], {}, None}
  BY <1>4 DEF TypeOK
<1>6. \/ tasks' = tasks
      \/ tasks' = tasks \cup {[from |-> s, msg |-> sending[s], on |-> on[s],
                               at |-> "publish"]}
  BY DEF Sender, Take, SendPublish, SendFails, SendPubrel, TakeFirst, TakePubcomp,
         GiveUp, TakeBoth, peerVars
<1> QED BY <1>2, <1>3, <1>5, <1>6, NothingToldAnew, EvidenceKept

LEMMA PeerEvidence ==
    ASSUME TypeOK, Evidence, NEW t \in tasks, Peer(t)
    PROVE  Evidence'
<1>1. /\ t.msg \in Msgs
      /\ \A u \in tasks : u \in [from : Senders, msg : Msgs, on : Conns, at : TaskSteps]
  BY DEF TypeOK
<1>2. queue' = queue
  BY DEF Peer, Receive, Discard, SendPubrec, HandOver, SendPuback, SendPubcomp, NoPubrel
\* The steps that neither reply nor hand over.
<1>3. ASSUME handed' = handed, wire' = wire, t.at # "recced",
             tasks' = tasks \ {t} \/ Moves(t, "received")
      PROVE  Evidence'
  <2>1. \A m \in Msgs, reply \in ReplyTypes : Told(m, reply)' => Told(m, reply)
    BY <1>2, <1>3 DEF Told
  <2>2. \A u \in tasks' : u.at = "handed" => u \in tasks
    BY <1>1, <1>3 DEF Moves
  <2>3. \A u \in tasks : u.at = "recced" => u \in tasks'
    BY <1>3 DEF Moves
  <2> QED BY <1>3, <2>1, <2>2, <2>3, EvidenceKept
<1>4. CASE Receive(t) \/ Discard(t) \/ NoPubrel(t)
  BY <1>3, <1>4 DEF Receive, Discard, BeforeAnswer, NoPubrel, Finishes
<1>5. CASE SendPubrec(t)
  <2>1. CASE ~Works(t.on)
    BY <1>3, <1>5, <2>1 DEF SendPubrec, Reply, Finishes
  <2>2. CASE Works(t.on)
    <3>1. /\ tasks' = (tasks \ {t}) \cup {[t EXCEPT !.at = "recced"]}
          /\ wire' = wire \cup {<<t.msg, "PUBREC">>}
          /\ handed' = handed /\ t.at = "received"
      BY <1>5, <2>2 DEF SendPubrec, Reply, Moves, OfMessage
    <3>2. OnItsWay(t.msg)'
      <4> DEFINE u == [t EXCEPT !.at = "recced"]
      <4>1. u \in tasks' /\ u.msg = t.msg /\ u.at = "recced"
        BY <1>1, <3>1
      <4> QED BY <4>1 DEF OnItsWay
    <3>3. \A m \in Msgs : OnItsWay(m) => OnItsWay(m)'
      BY <3>1 DEF OnItsWay
    <3>4. \A m \in Msgs, reply \in ReplyTypes :
              Told(m, reply)' => Told(m, reply) \/ (m = t.msg /\ reply = "PUBREC")
      BY <1>2, <3>1 DEF Told
    <3>5. \A u \in tasks' : u.at = "handed" => u \in tasks
      BY <1>1, <3>1
    <3> QED BY <3>1, <3>2, <3>3, <3>4, <3>5 DEF Evidence, ReplyTypes
  <2> QED BY <2>1, <2>2
<1>6. CASE HandOver(t)
  <2>1. /\ tasks' = (tasks \ {t}) \cup {[t EXCEPT !.at = "handed"]}
        /\ handed' = [handed EXCEPT ![t.msg] = @ + 1]
        /\ wire' = wire
    BY <1>6 DEF HandOver, Moves
  <2>2. handed'[t.msg] > 0 /\ \A m \in Msgs : handed[m] > 0 => handed'[m] > 0
    BY <1>1, <2>1 DEF TypeOK
  <2>3. \A m \in Msgs : OnItsWay(m) => OnItsWay(m)' \/ m = t.msg
    BY <2>1 DEF OnItsWay
  <2>4. \A m \in Msgs, reply \in ReplyTypes : Told(m, reply)' => Told(m, reply)
    BY <1>2, <2>1 DEF Told
  <2>5. \A u \in tasks' : u.at = "handed" => u \in tasks \/ u.msg = t.msg
    BY <1>1, <2>1
  <2>6. \A u \in tasks' : u.at = "handed" => handed'[u.msg] > 0
    BY <1>1, <2>2, <2>5 DEF Evidence
  <2> QED BY <2>2, <2>3, <2>4, <2>6 DEF Evidence, ReplyTypes
<1>7. CASE SendPuback(t) \/ SendPubcomp(t)
  <2>1. /\ tasks' = tasks \ {t} /\ t.at = "handed"
        /\ handed' = handed
        /\ wire' \subseteq wire \cup {<<t.msg, "PUBACK">>, <<t.msg, "PUBCOMP">>}
    BY <1>7 DEF SendPuback, SendPubcomp, Finishes, Reply, OfMessage, Handed
  <2>2. handed[t.msg] > 0
    BY <2>1 DEF Evidence
  <2>3. \A m \in Msgs, reply \in ReplyTypes : Told(m, reply)' => Told(m, reply) \/ m = t.msg
    BY <1>2, <2>1 DEF Told
  <2>4. \A m \in Msgs : OnItsWay(m) => OnItsWay(m)'
    BY <2>1 DEF OnItsWay
  <2> QED BY <2>1, <2>2, <2>3, <2>4 DEF Evidence, ReplyTypes
<1> QED BY <1>4, <1>5, <1>6, <1>7 DEF Peer

LEMMA EvidenceStep ==
    ASSUME TypeOK, Known, Evidence, [Next]_vars
    PROVE  Evidence'
<1>1. ASSUME handed' = handed, tasks' = tasks, wire' = wire, queue' = queue
      PROVE  Evidence'
  BY <1>1 DEF Evidence, Told, OnItsWay
<1>2. ASSUME NEW m \in Msgs, Store(m) \/ OfflinePub(m) \/ StoreFails(m)
      PROVE  Evidence'
  BY <1>1, <1>2 DEF Store, OfflinePub, StoreFails, peerVars
<1>3. ASSUME NEW c \in Conns, Flush(c) PROVE Evidence'
  BY <1>1, <1>3 DEF Flush, FlushNext, FlushEnd, peerVars
<1>4. ASSUME NEW m \in Msgs, NEW reply \in ReplyTypes, HandleReply(m, reply)
      PROVE  Evidence'
  <2>1. \A n \in Msgs, r \in ReplyTypes : Told(n, r)' => Told(n, r)
    <3>1. ASSUME NEW c \in Conns, NEW n \in Msgs, NEW r \in ReplyTypes,
                 queue'[<<c, n>>] # None, r \in queue'[<<c, n>>]
          PROVE  Told(n, r)
      <4>1. CASE queue' = queue
        BY <3>1, <4>1 DEF Told
      <4>2. CASE queue[<<conn, m>>] # None
                 /\ queue' = [queue EXCEPT ![<<conn, m>>] = @ \cup {reply}]
        <5>1. CASE c = conn /\ n = m
          <6>1. queue'[<<c, n>>] = queue[<<c, n>>] \cup {reply}
            BY <4>2, <5>1 DEF TypeOK
          <6> QED BY <1>4, <3>1, <4>2, <5>1, <6>1 DEF Told, HandleReply
        <5>2. CASE <<c, n>> # <<conn, m>>
          <6>1. queue'[<<c, n>>] = queue[<<c, n>>]
            BY <4>2, <5>2 DEF TypeOK
          <6> QED BY <3>1, <6>1 DEF Told
        <5> QED BY <5>1, <5>2
      <4> QED BY <1>4, <4>1, <4>2 DEF HandleReply
    <3> QED BY <1>4, <3>1 DEF Told, HandleReply
  <2> QED BY <1>4, <2>1, EvidenceKept DEF HandleReply, peerVars
<1>5. CASE Connect
  BY <1>1, <1>5 DEF Connect, peerVars
<1>6. CASE ConnDown \/ Crash
  <2>1. /\ handed' = handed /\ wire' = {}
        /\ tasks' = {t \in tasks : t.at # "publish"}
        /\ \A e \in Conns \X Msgs : queue'[e] \in {queue[e], {}, None}
    BY <1>6 DEF ConnDown, Crash
  <2> QED BY <2>1, NothingToldAnew, EvidenceKept
<1>7. CASE UNCHANGED vars
  BY <1>1, <1>7 DEF vars
<1> QED BY <1>2, <1>3, <1>4, <1>5, <1>6, <1>7, SenderEvidence, PeerEvidence DEF Next

LEMMA EvidenceInit ==
    ASSUME Init
    PROVE  Evidence
BY DEF Init, Evidence, Told

-----------------------------------------------------------------------------
(* A caller told of success was served.                                     *)

\* A message that was queued stays one that was.
LEMMA OfflineGrows ==
    ASSUME [Next]_vars
    PROVE  offline \subseteq offline'
<1>1. ASSUME NEW m \in Msgs, Store(m) \/ OfflinePub(m) \/ StoreFails(m)
      PROVE  offline \subseteq offline'
  BY <1>1 DEF Store, OfflinePub, StoreFails
<1>2. ASSUME NEW c \in Conns, Flush(c)
      PROVE  offline' = offline
  BY <1>2 DEF Flush, FlushNext, FlushEnd, takenVars
<1>3. ASSUME NEW s \in Senders, Sender(s)
      PROVE  offline' = offline
  BY <1>3 DEF Sender, Take, SendPublish, SendFails, SendPubrel, TakeFirst, TakePubcomp,
              GiveUp, TakeBoth, takenVars
<1>4. ASSUME NEW t \in tasks, Peer(t)
      PROVE  offline' = offline
  BY <1>4 DEF Peer, Receive, Discard, SendPubrec, HandOver, SendPuback, SendPubcomp,
              NoPubrel, takenVars
<1>5. ASSUME NEW m \in Msgs, NEW reply \in ReplyTypes, HandleReply(m, reply)
      PROVE  offline' = offline
  BY <1>5 DEF HandleReply, takenVars
<1>6. CASE Connect \/ ConnDown \/ Crash \/ UNCHANGED vars
  BY <1>6 DEF Connect, ConnDown, Crash, takenVars, vars
<1> QED BY <1>1, <1>2, <1>3, <1>4, <1>5, <1>6 DEF Next

\* A thread ends well only with a PUBACK or a PUBCOMP in its hands.
LEMMA ReportedStep ==
    ASSUME TypeOK, Known, Evidence, ReportedIsHanded, [Next]_vars
    PROVE  ReportedIsHanded'
<1>1. \A m \in Msgs : handed[m] > 0 => handed'[m] > 0
  <2>1. ASSUME NEW t \in tasks, HandOver(t), NEW m \in Msgs, handed[m] > 0
        PROVE  handed'[m] > 0
    BY <2>1 DEF HandOver, TypeOK
  <2>2. ASSUME NEW t \in tasks, Peer(t), ~HandOver(t)
        PROVE  handed' = handed
    BY <2>2 DEF Peer, Receive, Discard, SendPubrec, SendPuback, SendPubcomp,
           NoPubrel
  <2>3. ASSUME NEW s \in Senders, Sender(s)
        PROVE  handed' = handed
    BY <2>3 DEF Sender, Take, SendPublish, SendFails, SendPubrel, TakeFirst,
           TakePubcomp, GiveUp, TakeBoth, peerVars
  <2>4. ASSUME NEW c \in Conns, Flush(c)
        PROVE  handed' = handed
    BY <2>4 DEF Flush, FlushNext, FlushEnd, peerVars
  <2>5. ASSUME NEW k \in Msgs, Store(k) \/ OfflinePub(k) \/ StoreFails(k)
        PROVE  handed' = handed
    BY <2>5 DEF Store, OfflinePub, StoreFails, peerVars
  <2>6. ASSUME NEW k \in Msgs, NEW reply \in ReplyTypes, HandleReply(k, reply)
        PROVE  handed' = handed
    BY <2>6 DEF HandleReply, peerVars
  <2>7. CASE Connect \/ ConnDown \/ Crash \/ UNCHANGED vars
    BY <2>7 DEF Connect, ConnDown, Crash, vars, peerVars
  <2> QED BY <2>1, <2>2, <2>3, <2>4, <2>5, <2>6, <2>7 DEF Next
<1>2. SUFFICES ASSUME NEW m \in Msgs \ offline', at'[m] = "done", at[m] # "done"
               PROVE  handed[m] > 0
  <2>1. offline \subseteq offline'
    BY OfflineGrows
  <2> QED BY <1>1, <2>1 DEF ReportedIsHanded
<1>3. m \notin Conns
  BY NoConnIsMsg
<1>4. PICK s \in Senders : Sender(s)
  <2>1. ASSUME NEW k \in Msgs, Store(k) \/ OfflinePub(k) \/ StoreFails(k)
        PROVE  FALSE
    BY <1>2, <2>1 DEF TypeOK, Store, OfflinePub, StoreFails
  <2>2. ASSUME NEW c \in Conns, Flush(c)
        PROVE  FALSE
    BY <1>2, <1>3, <2>2 DEF TypeOK, Flush, FlushNext, FlushEnd
  <2>3. ASSUME NEW t \in tasks, Peer(t)
        PROVE  FALSE
    BY <1>2, <2>3 DEF Peer, Receive, Discard, SendPubrec, HandOver, SendPuback,
           SendPubcomp, NoPubrel, senderVars
  <2>4. ASSUME NEW k \in Msgs, NEW reply \in ReplyTypes, HandleReply(k, reply)
        PROVE  FALSE
    BY <1>2, <2>4 DEF HandleReply, senderVars
  <2>5. CASE Connect \/ ConnDown \/ Crash
    BY <1>2, <1>3, <2>5 DEF TypeOK, Connect, ConnDown, Crash, senderVars, Conns
  <2>6. CASE UNCHANGED vars
    BY <1>2, <2>6 DEF vars
  <2> QED BY <2>1, <2>2, <2>3, <2>4, <2>5, <2>6 DEF Next
<1>5. ASSUME NEW u \in Senders, NEW result \in SenderSteps, Ends(u, result)
      PROVE  u = m /\ result = "done"
  BY <1>2, <1>3, <1>5 DEF Ends, TypeOK
<1>7. CASE TakeFirst(s)
  <2>1. PICK reply \in queue[Entry(s)] :
            IF reply = FirstReply(sending[s]) /\ AfterFirst(sending[s]) = "recced"
            THEN /\ at' = [at EXCEPT ![s] = "recced"]
                 /\ UNCHANGED <<sending, on, due, seen, dropped>>
            ELSE Ends(s, IF reply = FirstReply(sending[s]) THEN "done" ELSE "failed")
    BY <1>7 DEF TakeFirst
  <2>2. ~(reply = FirstReply(sending[s]) /\ AfterFirst(sending[s]) = "recced")
    BY <1>2, <2>1 DEF TypeOK
  <2>3. s = m /\ reply = FirstReply(m) /\ AfterFirst(m) # "recced"
    BY <1>5, <2>1, <2>2 DEF Known, SenderSteps
  <2>4. reply = "PUBACK"
    BY <2>3 DEF FirstReply, AfterFirst
  <2>5. on[m] \in Conns /\ queue[<<on[m], m>>] # None
    BY <1>7, <2>3 DEF TakeFirst, Entry, Known, Busy
  <2>6. Told(m, "PUBACK")
    BY <2>1, <2>3, <2>4, <2>5 DEF Told, Entry, Known
  <2> QED BY <2>6 DEF Evidence
<1>8. CASE TakePubcomp(s)
  <2>1. PICK reply \in queue[Entry(s)] :
            Ends(s, IF reply = "PUBCOMP" THEN "done" ELSE "failed")
    BY <1>8 DEF TakePubcomp
  <2>2. s = m /\ reply = "PUBCOMP"
    BY <1>5, <2>1 DEF SenderSteps
  <2>3. on[m] \in Conns /\ queue[<<on[m], m>>] # None
    BY <1>8, <2>2 DEF TakePubcomp, Entry, Known, Busy
  <2>4. Told(m, "PUBCOMP")
    BY <2>1, <2>2, <2>3 DEF Told, Entry, Known
  <2> QED BY <2>4 DEF Evidence
<1>9. CASE SendPublish(s) \/ SendFails(s) \/ SendPubrel(s) \/ GiveUp(s) \/ TakeBoth(s)
  BY <1>2, <1>5, <1>9 DEF SendPublish, SendFails, SendPubrel, GiveUp, TakeBoth,
         SenderSteps, TypeOK
<1> QED BY <1>4, <1>7, <1>8, <1>9 DEF Sender, Take

\* myqtt_conn_pub reports success only for a message that was handed over.
THEOREM ReportedIsHandedCorrect == Spec => []ReportedIsHanded
<1> DEFINE IInv == TypeOK /\ Known /\ Evidence /\ ReportedIsHanded
<1>1. Init => IInv
  BY TypesInit, EvidenceInit DEF Init, ReportedIsHanded
<1>2. IInv /\ [Next]_vars => IInv'
  BY TypesStep, EvidenceStep, ReportedStep
<1>3. IInv => ReportedIsHanded
  OBVIOUS
<1> QED BY <1>1, <1>2, <1>3, PTL DEF Spec

-----------------------------------------------------------------------------
(* No message is lost unless a flush gives it up.                           *)

Kept(m) == \/ handed[m] > 0 \/ OnItsWay(m)
           \/ m \in stored \/ m \in dropped \/ at[m] = "failed"

\* A thread that sends releases its message when it was told of it, or gives it
\* up and says so.
LEMMA SenderKeeps ==
    ASSUME TypeOK, Known, Evidence, NEW s \in Senders, Sender(s), NEW m \in Msgs,
           Kept(m)
    PROVE  Kept(m)'
<1>1. /\ sending[s] \in Msgs /\ on[s] \in Conns
      /\ at[s] \in Busy
  BY DEF Known, Busy, Sender, Take, SendPublish, SendFails, SendPubrel, TakeFirst,
         TakePubcomp, GiveUp, TakeBoth
<1>2. /\ handed' = handed
      /\ OnItsWay(m) => OnItsWay(m)'
  BY DEF Sender, Take, SendPublish, SendFails, SendPubrel, TakeFirst, TakePubcomp,
         GiveUp, TakeBoth, peerVars, OnItsWay
<1>3. ASSUME NEW result \in {"done", "failed"}, Ends(s, result)
      PROVE  /\ dropped \subseteq dropped'
             /\ at[m] = "failed" => at'[m] = "failed"
             /\ result = "failed" /\ sending[s] = m /\ m \in stored /\ ~SkipsStorage(s)
                   => m \in dropped' \/ at'[m] = "failed"
  <2>1. s \notin Conns => s = sending[s]
    BY DEF Known
  <2> QED BY <1>1, <1>3, <2>1 DEF Ends, TypeOK, Busy
\* A flush that releases nothing keeps what is stored.
<1>9. ASSUME Forget(s)
      PROVE  \/ stored' = stored
             \/ stored' = stored \ {sending[s]} /\ ~SkipsStorage(s)
  BY <1>9 DEF Forget
<1>4. ASSUME Told(m, FirstReply(m)) \/ Told(m, "PUBCOMP")
      PROVE  Kept(m)'
  BY <1>2, <1>4 DEF Evidence, FirstReply, Kept
<1>5. CASE SendPublish(s) \/ SendPubrel(s)
  <2>1. stored' = stored
    BY <1>5 DEF SendPublish, SendPubrel
  <2>2. dropped \subseteq dropped' /\ (at[m] = "failed" => at'[m] = "failed")
    BY <1>1, <1>3, <1>5 DEF SendPublish, SendPubrel, TypeOK, Busy
  <2> QED BY <1>2, <2>1, <2>2 DEF Kept
<1>6. CASE SendFails(s) \/ GiveUp(s)
  <2>1. Ends(s, "failed") /\ Forget(s)
    BY <1>6 DEF SendFails, GiveUp
  <2> QED BY <1>2, <1>3, <1>9, <2>1 DEF Kept
<1>7. CASE TakeFirst(s)
  <2>1. PICK reply \in queue[Entry(s)] :
            IF reply = FirstReply(sending[s]) /\ AfterFirst(sending[s]) = "recced"
            THEN /\ at' = [at EXCEPT ![s] = "recced"]
                 /\ UNCHANGED <<sending, on, due, seen, dropped>>
            ELSE Ends(s, IF reply = FirstReply(sending[s]) THEN "done" ELSE "failed")
    BY <1>7 DEF TakeFirst
  <2>2. stored' = stored \ {sending[s]} /\ ~SkipsStorage(s)
    BY <1>7 DEF TakeFirst, Forget
  <2>3. CASE reply = FirstReply(sending[s])
    <3>1. Told(sending[s], FirstReply(sending[s]))
      BY <1>1, <1>7, <2>1, <2>3 DEF Told, Entry, TakeFirst
    <3>2. dropped \subseteq dropped' /\ (at[m] = "failed" => at'[m] = "failed")
      BY <1>1, <1>3, <2>1, <2>3 DEF TypeOK, Busy
    <3> QED BY <1>2, <1>4, <2>2, <3>1, <3>2 DEF Kept
  <2>4. CASE reply # FirstReply(sending[s])
    <3>1. Ends(s, "failed")
      BY <2>1, <2>4
    <3> QED BY <1>2, <1>3, <2>2, <3>1 DEF Kept
  <2> QED BY <2>3, <2>4
<1>8. CASE TakePubcomp(s)
  <2>1. PICK reply \in queue[Entry(s)] :
            Ends(s, IF reply = "PUBCOMP" THEN "done" ELSE "failed")
    BY <1>8 DEF TakePubcomp
  <2>2. \/ stored' = stored
        \/ stored' = stored \ {sending[s]} /\ ~SkipsStorage(s)
    BY <1>8, <1>9 DEF TakePubcomp
  <2>3. CASE reply = "PUBCOMP"
    <3>1. Told(sending[s], "PUBCOMP")
      BY <1>1, <1>8, <2>1, <2>3 DEF Told, Entry, TakePubcomp
    <3>2. dropped \subseteq dropped' /\ (at[m] = "failed" => at'[m] = "failed")
      BY <1>3, <2>1, <2>3
    <3> QED BY <1>2, <1>4, <2>2, <3>1, <3>2 DEF Kept
  <2>4. CASE reply # "PUBCOMP"
    <3>1. Ends(s, "failed")
      BY <2>1, <2>4
    <3> QED BY <1>2, <1>3, <2>2, <3>1 DEF Kept
  <2> QED BY <2>3, <2>4
<1>10. CASE TakeBoth(s)
  <2>1. stored' = stored
    BY <1>10 DEF TakeBoth
  <2>2. dropped \subseteq dropped' /\ (at[m] = "failed" => at'[m] = "failed")
    BY <1>1, <1>3, <1>10 DEF TakeBoth, TypeOK, Busy
  <2> QED BY <1>2, <2>1, <2>2 DEF Kept
<1> QED BY <1>5, <1>6, <1>7, <1>8, <1>10 DEF Sender, Take

\* The other end drops only what it has not confirmed.
LEMMA PeerKeeps ==
    ASSUME TypeOK, NEW t \in tasks, Peer(t), NEW m \in Msgs, Kept(m)
    PROVE  Kept(m)'
<1>1. /\ t.msg \in Msgs
      /\ stored' = stored /\ dropped' = dropped /\ at' = at
  BY DEF TypeOK, Peer, Receive, Discard, SendPubrec, HandOver, SendPuback, SendPubcomp,
         NoPubrel, senderVars
<1>2. CASE HandOver(t)
  <2>1. handed' = [handed EXCEPT ![t.msg] = @ + 1]
    BY <1>2 DEF HandOver
  <2>2. handed'[t.msg] > 0 /\ (handed[m] > 0 => handed'[m] > 0)
    BY <1>1, <2>1 DEF TypeOK
  <2>3. OnItsWay(m) => OnItsWay(m)' \/ m = t.msg
    BY <1>2 DEF HandOver, Moves, OnItsWay
  <2> QED BY <1>1, <2>2, <2>3 DEF Kept
<1>3. ASSUME handed' = handed, t.at # "recced", \A u \in tasks : u = t \/ u \in tasks'
      PROVE  Kept(m)'
  BY <1>1, <1>3 DEF Kept, OnItsWay
<1>4. CASE Receive(t) \/ Discard(t) \/ SendPubrec(t) \/ SendPuback(t) \/ SendPubcomp(t)
              \/ NoPubrel(t)
  BY <1>3, <1>4 DEF Receive, Discard, BeforeAnswer, SendPubrec, SendPuback, SendPubcomp, NoPubrel,
                    Moves, Finishes, Handed
<1> QED BY <1>2, <1>4 DEF Peer

LEMMA NotLostStep ==
    ASSUME TypeOK, Known, Evidence, NotLost, [Next]_vars
    PROVE  NotLost'
<1>1. \A m \in accepted : m \in Msgs /\ Kept(m)
  BY DEF NotLost, Kept, TypeOK
<1>2. SUFFICES ASSUME NEW m \in accepted' PROVE Kept(m)'
  BY DEF NotLost, Kept
<1>3. ASSUME NEW n \in Msgs, Store(n) \/ OfflinePub(n) \/ StoreFails(n)
      PROVE  Kept(m)'
  <2>1. /\ at[n] = "idle"
        /\ stored \subseteq stored' /\ handed' = handed /\ dropped' = dropped
        /\ tasks' = tasks /\ (m \in accepted \/ m \in stored')
    BY <1>3 DEF Store, OfflinePub, StoreFails, peerVars
  <2>2. \A u \in Msgs : at[u] = "failed" => at'[u] = "failed"
    BY <1>3 DEF Store, OfflinePub, StoreFails, TypeOK
  <2> QED BY <1>1, <1>3, <2>1, <2>2 DEF Kept, OnItsWay, Store, OfflinePub, StoreFails,
                                        peerVars
<1>4. ASSUME accepted' = accepted, stored' = stored, handed' = handed,
             dropped' = dropped, \A u \in Msgs : at[u] = "failed" => at'[u] = "failed",
             \A t \in tasks : t.at = "recced" => t \in tasks'
      PROVE  Kept(m)'
  BY <1>1, <1>4 DEF Kept, OnItsWay
<1>5. ASSUME NEW c \in Conns, Flush(c) PROVE Kept(m)'
  <2>1. \A u \in Msgs : at[u] = "failed" => at'[u] = "failed"
    BY <1>5 DEF Flush, FlushNext, FlushEnd, TypeOK
  <2> QED BY <1>4, <1>5, <2>1 DEF Flush, FlushNext, FlushEnd, peerVars, takenVars
<1>6. ASSUME NEW n \in Msgs, NEW reply \in ReplyTypes, HandleReply(n, reply)
      PROVE  Kept(m)'
  BY <1>4, <1>6 DEF HandleReply, senderVars, peerVars, takenVars
<1>7. CASE Connect
  <2>1. \A u \in Msgs : at[u] = "failed" => at'[u] = "failed"
    BY <1>7, NoConnIsMsg DEF Connect, TypeOK
  <2> QED BY <1>4, <1>7, <2>1 DEF Connect, peerVars, takenVars
<1>8. CASE ConnDown \/ Crash
  <2>1. \A u \in Msgs : at[u] = "failed" => at'[u] = "failed"
    BY <1>8 DEF ConnDown, Crash, senderVars, TypeOK
  <2> QED BY <1>4, <1>8, <2>1 DEF ConnDown, Crash, senderVars, takenVars
<1>9. CASE UNCHANGED vars
  BY <1>4, <1>9 DEF vars
<1>10. ASSUME NEW s \in Senders, Sender(s) PROVE Kept(m)'
  <2>1. accepted' = accepted
    BY <1>10 DEF Sender, Take, SendPublish, SendFails, SendPubrel, TakeFirst,
                 TakePubcomp, GiveUp, TakeBoth, takenVars
  <2> QED BY <1>1, <1>10, <2>1, SenderKeeps
<1>11. ASSUME NEW t \in tasks, Peer(t) PROVE Kept(m)'
  <2>1. accepted' = accepted
    BY <1>11 DEF Peer, Receive, Discard, SendPubrec, HandOver, SendPuback, SendPubcomp,
                 NoPubrel, takenVars
  <2> QED BY <1>1, <1>11, <2>1, PeerKeeps
<1> QED BY <1>3, <1>5, <1>6, <1>7, <1>8, <1>9, <1>10, <1>11 DEF Next

\* A message the session took charge of is handed over, still stored, reported
\* as not published to its caller, or given up by a flush.
THEOREM NotLostCorrect == Spec => []NotLost
<1> DEFINE IInv == TypeOK /\ Known /\ Evidence /\ NotLost
<1>1. Init => IInv
  BY TypesInit, EvidenceInit DEF Init, NotLost
<1>2. IInv /\ [Next]_vars => IInv'
  BY TypesStep, EvidenceStep, NotLostStep
<1>3. IInv => NotLost
  OBVIOUS
<1> QED BY <1>1, <1>2, <1>3, PTL DEF Spec
=============================================================================
