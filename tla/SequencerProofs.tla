--------------------------- MODULE SequencerProofs ---------------------------
(***************************************************************************)
(* Proofs about Sequencer, for any connections, messages and lengths:      *)
(* every message between myqtt_sequencer_send and its release holds one    *)
(* reference of its connection, and from the moment it is counted one unit *)
(* of the counter that myqtt_conn_close waits for; what was due is written *)
(* before DISCONNECT; and the sequencer implements OrderedChannel.         *)
(***************************************************************************)
EXTENDS Sequencer, ListLemmas, FiniteSetTheorems, TLAPS

USE SequencerAssumption

\* The messages of a connection that are counted, and those that hold a reference.
CountedFor(c)    == {m \in Msgs : ConnOf[m] = c /\ sender[m] \in {"counted", "queued"}}
ReferencedFor(c) == {m \in Msgs : /\ ConnOf[m] = c
                                  /\ sender[m] \in {"referenced", "counted", "queued"}}

\* What the list holds was queued, and is there once.
ListSound ==
    /\ \A i \in 1 .. Len(pending_messages) : sender[pending_messages[i].msg] = "queued"
    /\ \A i, j \in 1 .. Len(pending_messages) :
          pending_messages[i].msg = pending_messages[j].msg => i = j

\* The counters of a connection count its messages.
CountersExact ==
    \A c \in Conns : /\ sequencer_messages[c] = Cardinality(CountedFor(c))
                     /\ ref_count[c] = Cardinality(ReferencedFor(c))

SequencerInv == TypeOK /\ ListSound /\ CountersExact

-----------------------------------------------------------------------------
(* Lemmas.                                                                  *)

LEMMA SetsFinite ==
    ASSUME NEW c
    PROVE  /\ IsFiniteSet(CountedFor(c)) /\ IsFiniteSet(ReferencedFor(c))
           /\ Cardinality(CountedFor(c)) \in Nat /\ Cardinality(ReferencedFor(c)) \in Nat
           /\ Cardinality(CountedFor(c)) <= Cardinality(ReferencedFor(c))
<1>1. /\ CountedFor(c) \subseteq Msgs /\ ReferencedFor(c) \subseteq Msgs
      /\ CountedFor(c) \subseteq ReferencedFor(c)
  BY DEF CountedFor, ReferencedFor
<1>2. IsFiniteSet(CountedFor(c)) /\ IsFiniteSet(ReferencedFor(c))
  BY <1>1, FS_Subset
<1> QED BY <1>1, <1>2, FS_Subset, FS_CardinalityType

\* A message that moves on changes the counts of its connection by one at most.
LEMMA SenderMoves ==
    ASSUME TypeOK, NEW m \in Msgs, NEW to \in SenderStates,
           sender' = [sender EXCEPT ![m] = to], NEW c \in Conns
    PROVE  /\ ConnOf[m] # c => /\ CountedFor(c)' = CountedFor(c)
                               /\ ReferencedFor(c)' = ReferencedFor(c)
           /\ ConnOf[m] = c =>
                /\ m \notin CountedFor(c) /\ to \in {"counted", "queued"} =>
                      Cardinality(CountedFor(c)') = Cardinality(CountedFor(c)) + 1
                /\ m \in CountedFor(c) /\ to \notin {"counted", "queued"} =>
                      Cardinality(CountedFor(c)') = Cardinality(CountedFor(c)) - 1
                /\ (m \in CountedFor(c) <=> to \in {"counted", "queued"}) =>
                      CountedFor(c)' = CountedFor(c)
                /\ m \notin ReferencedFor(c) /\ to \in {"referenced", "counted", "queued"} =>
                      Cardinality(ReferencedFor(c)') = Cardinality(ReferencedFor(c)) + 1
                /\ m \in ReferencedFor(c) /\ to \notin {"referenced", "counted", "queued"} =>
                      Cardinality(ReferencedFor(c)') = Cardinality(ReferencedFor(c)) - 1
                /\ (m \in ReferencedFor(c) <=> to \in {"referenced", "counted", "queued"}) =>
                      ReferencedFor(c)' = ReferencedFor(c)
<1>1. sender'[m] = to /\ \A o \in Msgs \ {m} : sender'[o] = sender[o]
  BY DEF TypeOK
<1>2. ConnOf[m] # c => CountedFor(c)' = CountedFor(c) /\ ReferencedFor(c)' = ReferencedFor(c)
  BY <1>1 DEF CountedFor, ReferencedFor
<1>3. ASSUME ConnOf[m] = c
      PROVE  /\ CountedFor(c)' = IF to \in {"counted", "queued"} THEN CountedFor(c) \cup {m}
                                                                 ELSE CountedFor(c) \ {m}
             /\ ReferencedFor(c)' = IF to \in {"referenced", "counted", "queued"}
                                    THEN ReferencedFor(c) \cup {m} ELSE ReferencedFor(c) \ {m}
  BY <1>1, <1>3 DEF CountedFor, ReferencedFor
<1>4. /\ m \notin CountedFor(c) =>
            Cardinality(CountedFor(c) \cup {m}) = Cardinality(CountedFor(c)) + 1
      /\ m \in CountedFor(c) =>
            Cardinality(CountedFor(c) \ {m}) = Cardinality(CountedFor(c)) - 1
  BY SetsFinite, FS_AddElement, FS_RemoveElement
<1>5. /\ m \notin ReferencedFor(c) =>
            Cardinality(ReferencedFor(c) \cup {m}) = Cardinality(ReferencedFor(c)) + 1
      /\ m \in ReferencedFor(c) =>
            Cardinality(ReferencedFor(c) \ {m}) = Cardinality(ReferencedFor(c)) - 1
  BY SetsFinite, FS_AddElement, FS_RemoveElement
<1>6. CASE ConnOf[m] = c
  BY <1>3, <1>4, <1>5, <1>6
<1> QED BY <1>2, <1>6

LEMMA SequencerInitially == Init => SequencerInv
<1> SUFFICES ASSUME Init
             PROVE  SequencerInv
  OBVIOUS
<1>1. TypeOK
  <2>1. myqtt_exit \in BOOLEAN /\ is_ok \in [Conns -> BOOLEAN]
    BY DEF Init
  <2>2. /\ ref_count \in [Conns -> Nat] /\ sequencer_messages \in [Conns -> Nat]
        /\ due \in [Conns -> SUBSET Msgs] /\ close_timeout \subseteq Conns /\ torn \subseteq Msgs
    BY DEF Init
  <2>3. /\ pending_messages \in Seq([msg : Msgs, step : Nat])
        /\ cursor \in 1 .. Len(pending_messages) + 1
        /\ wire \in [Conns -> Seq(Piece)]
    BY DEF Init
  <2>4. /\ sequencer \in {"waiting", "writing", "ended"} /\ sender \in [Msgs -> SenderStates]
        /\ close \in [Conns -> CloseStates]
    BY DEF Init, SenderStates, CloseStates
  <2> QED BY <2>1, <2>2, <2>3, <2>4 DEF TypeOK
<1>2. ListSound
  BY DEF Init, ListSound
<1>3. CountersExact
  <2>1. Cardinality({}) = 0
    BY FS_EmptySet
  <2>2. \A c \in Conns : CountedFor(c) = {} /\ ReferencedFor(c) = {}
    BY DEF Init, CountedFor, ReferencedFor
  <2> QED BY <2>1, <2>2 DEF Init, CountersExact
<1> QED BY <1>1, <1>2, <1>3 DEF SequencerInv

-----------------------------------------------------------------------------
(* The steps.                                                               *)

LEMMA ListTyped ==
    ASSUME TypeOK
    PROVE  /\ pending_messages \in Seq([msg : Msgs, step : Nat]) /\ Len(pending_messages) \in Nat
           /\ \A i \in 1 .. Len(pending_messages) : /\ pending_messages[i] \in [msg : Msgs, step : Nat]
                                                    /\ pending_messages[i].msg \in Msgs
<1> DEFINE Items == [msg : Msgs, step : Nat]
<1>1. pending_messages \in Seq(Items)
  BY DEF TypeOK
<1>2. \A item \in Items : item.msg \in Msgs
  OBVIOUS
<1> HIDE DEF Items
<1>3. Len(pending_messages) \in Nat
      /\ \A i \in 1 .. Len(pending_messages) : pending_messages[i] \in Items
  BY <1>1
<1> QED BY <1>1, <1>2, <1>3 DEF Items

\* A message that is not in the list moves on.
LEMMA ListStill ==
    ASSUME SequencerInv, NEW m \in Msgs, sender[m] # "queued", NEW to,
           sender' = [sender EXCEPT ![m] = to], UNCHANGED pending_messages
    PROVE  ListSound'
<1>1. \A o \in Msgs : sender[o] = "queued" => sender'[o] = "queued"
  BY DEF SequencerInv, TypeOK
<1>2. \A i \in 1 .. Len(pending_messages) : sender'[pending_messages[i].msg] = "queued"
  BY <1>1, ListTyped DEF SequencerInv, ListSound
<1> QED BY <1>2 DEF SequencerInv, ListSound

\* What does not touch the list, the senders and the counters keeps their part.
LEMMA CountersStill ==
    ASSUME SequencerInv, UNCHANGED <<ref_count, sequencer_messages, sender>>
    PROVE  CountersExact'
BY DEF SequencerInv, CountersExact, CountedFor, ReferencedFor

LEMMA RefusedKeeps ==
    ASSUME SequencerInv, NEW m \in Msgs, QueueRefused(m)
    PROVE  SequencerInv'
<1>1. sender[m] = "idle" /\ sender' = [sender EXCEPT ![m] = "refused"]
  BY DEF QueueRefused
<1>2. TypeOK'
  BY <1>1 DEF QueueRefused, SequencerInv, TypeOK, SenderStates, threadVars, writeVars, closeVars
<1>3. ListSound'
  BY <1>1, ListStill DEF QueueRefused, threadVars
<1>4. CountersExact'
  <2>1. \A c \in Conns : CountedFor(c)' = CountedFor(c) /\ ReferencedFor(c)' = ReferencedFor(c)
    BY <1>1 DEF SequencerInv, TypeOK, CountedFor, ReferencedFor
  <2> QED BY <2>1 DEF QueueRefused, SequencerInv, CountersExact
<1> QED BY <1>2, <1>3, <1>4 DEF SequencerInv

LEMMA RefKeeps ==
    ASSUME SequencerInv, NEW m \in Msgs, QueueRef(m)
    PROVE  SequencerInv'
<1>1. /\ sender[m] = "idle" /\ sender' = [sender EXCEPT ![m] = "referenced"]
      /\ ref_count' = [ref_count EXCEPT ![ConnOf[m]] = @ + 1] /\ UNCHANGED sequencer_messages
      /\ ConnOf[m] \in Conns
  BY DEF QueueRef, SequencerAssumption
<1>2. TypeOK'
  BY <1>1 DEF QueueRef, SequencerInv, TypeOK, SenderStates, threadVars, writeVars, closeVars
<1>3. ListSound'
  BY <1>1, ListStill DEF QueueRef, threadVars
<1>4. CountersExact'
  <2>1. ASSUME NEW c \in Conns
        PROVE  /\ CountedFor(c)' = CountedFor(c)
               /\ Cardinality(ReferencedFor(c)') = IF ConnOf[m] = c THEN Cardinality(ReferencedFor(c)) + 1
                                                   ELSE Cardinality(ReferencedFor(c))
    <3>1. m \notin CountedFor(c) /\ m \notin ReferencedFor(c) /\ "referenced" \in SenderStates
      BY <1>1 DEF CountedFor, ReferencedFor, SenderStates
    <3> QED BY <1>1, <3>1, SenderMoves DEF SequencerInv
  <2> QED BY <1>1, <2>1 DEF SequencerInv, TypeOK, CountersExact
<1> QED BY <1>2, <1>3, <1>4 DEF SequencerInv

LEMMA CountKeeps ==
    ASSUME SequencerInv, NEW m \in Msgs, QueueCount(m)
    PROVE  SequencerInv'
<1>1. /\ sender[m] = "referenced" /\ sender' = [sender EXCEPT ![m] = "counted"]
      /\ sequencer_messages' = [sequencer_messages EXCEPT ![ConnOf[m]] = @ + 1]
      /\ UNCHANGED ref_count /\ ConnOf[m] \in Conns
  BY DEF QueueCount, SequencerAssumption
<1>2. TypeOK'
  BY <1>1 DEF QueueCount, SequencerInv, TypeOK, SenderStates, threadVars, writeVars, closeVars
<1>3. ListSound'
  BY <1>1, ListStill DEF QueueCount, threadVars
<1>4. CountersExact'
  <2>1. ASSUME NEW c \in Conns
        PROVE  /\ ReferencedFor(c)' = ReferencedFor(c)
               /\ Cardinality(CountedFor(c)') = IF ConnOf[m] = c THEN Cardinality(CountedFor(c)) + 1
                                                ELSE Cardinality(CountedFor(c))
    <3>1. /\ m \notin CountedFor(c) /\ (ConnOf[m] = c => m \in ReferencedFor(c))
          /\ "counted" \in SenderStates
      BY <1>1 DEF CountedFor, ReferencedFor, SenderStates
    <3> QED BY <1>1, <3>1, SenderMoves DEF SequencerInv
  <2> QED BY <1>1, <2>1 DEF SequencerInv, TypeOK, CountersExact
<1> QED BY <1>2, <1>3, <1>4 DEF SequencerInv

\* The message is put last in the list, in which it was not.
LEMMA AppendKeeps ==
    ASSUME SequencerInv, NEW m \in Msgs, QueueAppend(m)
    PROVE  SequencerInv'
<1> DEFINE item == [msg |-> m, step |-> 0]
<1>1. /\ sender[m] = "counted" /\ sender' = [sender EXCEPT ![m] = "queued"]
      /\ pending_messages' = Append(pending_messages, item)
      /\ pending_messages \in Seq([msg : Msgs, step : Nat])
      /\ UNCHANGED <<ref_count, sequencer_messages, cursor>>
  BY DEF QueueAppend, Counted, Appended, SequencerInv, TypeOK
<1>2. /\ pending_messages' \in Seq([msg : Msgs, step : Nat])
      /\ Len(pending_messages') = Len(pending_messages) + 1
      /\ \A i \in 1 .. Len(pending_messages) : pending_messages'[i] = pending_messages[i]
      /\ pending_messages'[Len(pending_messages) + 1] = item
  BY <1>1
<1>3. TypeOK'
  <2>1. cursor' \in 1 .. Len(pending_messages') + 1
    BY <1>1, <1>2 DEF SequencerInv, TypeOK
  <2> QED BY <1>1, <1>2, <2>1 DEF QueueAppend, SequencerInv, TypeOK, SenderStates, writeVars, closeVars
<1>4. ListSound'
  <2>1. \A i \in 1 .. Len(pending_messages) : pending_messages[i].msg # m
    BY <1>1 DEF SequencerInv, ListSound
  <2>2. \A i \in 1 .. Len(pending_messages) : sender'[pending_messages[i].msg] = "queued"
    <3>1. \A o \in Msgs \ {m} : sender'[o] = sender[o]
      BY <1>1 DEF SequencerInv, TypeOK
    <3> QED BY <2>1, <3>1, ListTyped DEF SequencerInv, ListSound
  <2>3. item.msg = m /\ sender'[m] = "queued"
    BY <1>1 DEF SequencerInv, TypeOK
  <2>4. \A i \in 1 .. Len(pending_messages') :
           \/ i \in 1 .. Len(pending_messages) /\ pending_messages'[i] = pending_messages[i]
           \/ i = Len(pending_messages) + 1 /\ pending_messages'[i] = item
    BY <1>2
  <2> HIDE DEF item
  <2>5. \A i \in 1 .. Len(pending_messages') : sender'[pending_messages'[i].msg] = "queued"
    BY <2>2, <2>3, <2>4
  <2>6. \A i, j \in 1 .. Len(pending_messages') :
           pending_messages'[i].msg = pending_messages'[j].msg => i = j
    BY <2>1, <2>3, <2>4 DEF SequencerInv, ListSound
  <2> QED BY <2>5, <2>6 DEF ListSound
<1>5. CountersExact'
  <2>1. \A c \in Conns : CountedFor(c)' = CountedFor(c) /\ ReferencedFor(c)' = ReferencedFor(c)
    BY <1>1 DEF SequencerInv, TypeOK, CountedFor, ReferencedFor
  <2> QED BY <1>1, <2>1 DEF SequencerInv, CountersExact
<1> QED BY <1>3, <1>4, <1>5 DEF SequencerInv

\* release_message gives back what the caller of the message took.
LEMMA ReleaseKeeps ==
    ASSUME SequencerInv, AtCursor, ReleaseMessage
    PROVE  /\ ListSound' /\ CountersExact'
           /\ ref_count' \in [Conns -> Nat] /\ sequencer_messages' \in [Conns -> Nat]
           /\ pending_messages' \in Seq([msg : Msgs, step : Nat])
           /\ cursor' \in 1 .. Len(pending_messages') + 1
           /\ sender' \in [Msgs -> SenderStates]
<1> DEFINE m == Item.msg
<1>1. /\ cursor \in 1 .. Len(pending_messages) /\ Item \in [msg : Msgs, step : Nat]
      /\ pending_messages \in Seq([msg : Msgs, step : Nat])
  <2>1. cursor \in 1 .. Len(pending_messages)
    BY ListTyped DEF AtCursor, SequencerInv, TypeOK
  <2> QED BY <2>1, ListTyped DEF Item, SequencerInv
<1>2. m \in Msgs /\ ItemConn = ConnOf[m] /\ ItemConn \in Conns /\ sender[m] = "queued"
  BY <1>1 DEF SequencerAssumption, ItemConn, Item, SequencerInv, ListSound
<1>3. m \in CountedFor(ItemConn) /\ m \in ReferencedFor(ItemConn)
  BY <1>2 DEF CountedFor, ReferencedFor
<1>4. /\ sequencer_messages' = [sequencer_messages EXCEPT ![ItemConn] = @ - 1]
      /\ ref_count' = [ref_count EXCEPT ![ItemConn] = @ - 1]
      /\ sender' = [sender EXCEPT ![m] = "released"]
      /\ pending_messages' = RemoveAt(pending_messages, cursor) /\ cursor' = cursor
  BY DEF ReleaseMessage, AfterRemoved
<1>5. /\ pending_messages' \in Seq([msg : Msgs, step : Nat])
      /\ Len(pending_messages') = Len(pending_messages) - 1
      /\ \A j \in 1 .. Len(pending_messages') :
            pending_messages'[j] = IF j < cursor THEN pending_messages[j] ELSE pending_messages[j + 1]
  BY <1>1, <1>4, RemoveAtIs, ZenonT(30)
<1>6. ListSound'
  <2> DEFINE was(j) == IF j < cursor THEN j ELSE j + 1
  <2>1. \A j \in 1 .. Len(pending_messages') :
           /\ was(j) \in 1 .. Len(pending_messages) /\ was(j) # cursor
           /\ pending_messages'[j] = pending_messages[was(j)]
    <3> TAKE j \in 1 .. Len(pending_messages')
    <3>0. /\ j \in 1 .. Len(pending_messages) - 1 /\ cursor \in 1 .. Len(pending_messages)
          /\ Len(pending_messages) \in Nat
      BY <1>1, <1>5, ListTyped DEF SequencerInv
    <3>1. was(j) \in 1 .. Len(pending_messages) /\ was(j) # cursor
      BY <3>0
    <3>2. pending_messages'[j] = pending_messages[was(j)]
      BY <1>5
    <3> QED BY <3>1, <3>2
  <2>2. \A j, k \in 1 .. Len(pending_messages') : was(j) = was(k) => j = k
    <3> TAKE j, k \in 1 .. Len(pending_messages')
    <3>1. j \in Int /\ k \in Int /\ cursor \in Int
      BY <1>1, <1>5
    <3> QED BY <3>1
  <2> HIDE DEF was
  <2>3. \A i \in 1 .. Len(pending_messages) : i # cursor => pending_messages[i].msg # m
    BY <1>1 DEF Item, SequencerInv, ListSound
  <2>4. \A i \in 1 .. Len(pending_messages) :
           i # cursor => sender'[pending_messages[i].msg] = "queued"
    <3>1. \A o \in Msgs \ {m} : sender'[o] = sender[o]
      BY <1>2, <1>4 DEF SequencerInv, TypeOK
    <3> QED BY <2>3, <3>1, ListTyped DEF SequencerInv, ListSound
  <2>5. \A j \in 1 .. Len(pending_messages') : sender'[pending_messages'[j].msg] = "queued"
    BY <2>1, <2>4
  <2>6. \A j, k \in 1 .. Len(pending_messages') :
           pending_messages'[j].msg = pending_messages'[k].msg => j = k
    <3>1. \A i, n \in 1 .. Len(pending_messages) :
             pending_messages[i].msg = pending_messages[n].msg => i = n
      BY DEF SequencerInv, ListSound
    <3> TAKE j, k \in 1 .. Len(pending_messages')
    <3> HAVE pending_messages'[j].msg = pending_messages'[k].msg
    <3>2. pending_messages[was(j)].msg = pending_messages[was(k)].msg
      BY <2>1, Zenon
    <3>3. was(j) \in 1 .. Len(pending_messages) /\ was(k) \in 1 .. Len(pending_messages)
      BY <2>1, Zenon
    <3>4. was(j) = was(k)
      BY <3>1, <3>2, <3>3, Zenon
    <3> QED BY <2>2, <3>4, Zenon
  <2> QED BY <2>5, <2>6 DEF ListSound
<1> HIDE DEF m
<1>7. ASSUME NEW c \in Conns
      PROVE  /\ Cardinality(CountedFor(c)') = IF ItemConn = c THEN Cardinality(CountedFor(c)) - 1
                                              ELSE Cardinality(CountedFor(c))
             /\ Cardinality(ReferencedFor(c)') = IF ItemConn = c THEN Cardinality(ReferencedFor(c)) - 1
                                                 ELSE Cardinality(ReferencedFor(c))
  <2>1. "released" \in SenderStates
    BY DEF SenderStates
  <2> QED BY <1>2, <1>3, <1>4, <2>1, SenderMoves DEF SequencerInv
<1>8. CountersExact'
  BY <1>2, <1>4, <1>7 DEF SequencerInv, TypeOK, CountersExact
<1>9. sequencer_messages[ItemConn] >= 1 /\ ref_count[ItemConn] >= 1
  <2>1. Cardinality(CountedFor(ItemConn)) # 0 /\ Cardinality(ReferencedFor(ItemConn)) # 0
    BY <1>3, SetsFinite, FS_EmptySet
  <2> QED BY <1>2, <2>1, SetsFinite DEF SequencerInv, CountersExact
<1>10. ref_count' \in [Conns -> Nat] /\ sequencer_messages' \in [Conns -> Nat]
  BY <1>2, <1>4, <1>9 DEF SequencerInv, TypeOK
<1>11. sender' \in [Msgs -> SenderStates]
  BY <1>2, <1>4 DEF SequencerInv, TypeOK, SenderStates
<1>12. cursor' \in 1 .. Len(pending_messages') + 1
  BY <1>1, <1>4, <1>5
<1> QED BY <1>5, <1>6, <1>8, <1>10, <1>11, <1>12

\* A write moves the message at the cursor one step, or releases it.
LEMMA KeepKeeps ==
    ASSUME SequencerInv, AtCursor, KeepMessage
    PROVE  /\ ListSound' /\ CountersExact'
           /\ ref_count' \in [Conns -> Nat] /\ sequencer_messages' \in [Conns -> Nat]
           /\ pending_messages' \in Seq([msg : Msgs, step : Nat])
           /\ cursor' \in 1 .. Len(pending_messages') + 1
           /\ sender' \in [Msgs -> SenderStates]
<1>1. /\ cursor \in 1 .. Len(pending_messages) /\ Item \in [msg : Msgs, step : Nat]
      /\ Len(pending_messages) \in Nat
  <2>1. cursor \in 1 .. Len(pending_messages) /\ Len(pending_messages) \in Nat
    BY ListTyped DEF AtCursor, SequencerInv, TypeOK
  <2> QED BY <2>1, ListTyped DEF Item, SequencerInv
<1>2. /\ pending_messages' = [pending_messages EXCEPT ![cursor] = [Item EXCEPT !.step = NextStep]]
      /\ cursor' = cursor + 1 /\ UNCHANGED <<sequencer_messages, ref_count, sender>>
  BY DEF KeepMessage, Item
<1>3. [Item EXCEPT !.step = NextStep] \in [msg : Msgs, step : Nat]
      /\ [Item EXCEPT !.step = NextStep].msg = Item.msg
  BY <1>1 DEF NextStep
<1>4. /\ pending_messages' \in Seq([msg : Msgs, step : Nat])
      /\ Len(pending_messages') = Len(pending_messages)
      /\ \A i \in 1 .. Len(pending_messages) : pending_messages'[i].msg = pending_messages[i].msg
  BY <1>1, <1>2, <1>3, ListTyped DEF Item, SequencerInv
<1>5. ListSound'
  BY <1>2, <1>4, SMTT(30) DEF SequencerInv, ListSound
<1>6. CountersExact'
  BY <1>2, CountersStill
<1>7. /\ ref_count' \in [Conns -> Nat] /\ sequencer_messages' \in [Conns -> Nat]
      /\ sender' \in [Msgs -> SenderStates]
  BY <1>2 DEF SequencerInv, TypeOK
<1>8. cursor' \in 1 .. Len(pending_messages') + 1
  BY <1>1, <1>2, <1>4, SMTT(30)
<1> QED BY <1>4, <1>5, <1>6, <1>7, <1>8

LEMMA WriteKeeps ==
    ASSUME SequencerInv, WriteStep \/ WriteFails \/ WriteTorn \/ DropMessage
    PROVE  SequencerInv'
<1>1. AtCursor /\ (ReleaseMessage \/ KeepMessage)
  BY DEF WriteStep, WriteFails, WriteTorn, DropMessage
<1>2. /\ ListSound' /\ CountersExact'
      /\ ref_count' \in [Conns -> Nat] /\ sequencer_messages' \in [Conns -> Nat]
      /\ pending_messages' \in Seq([msg : Msgs, step : Nat])
      /\ cursor' \in 1 .. Len(pending_messages') + 1
      /\ sender' \in [Msgs -> SenderStates]
  BY <1>1, ReleaseKeeps, KeepKeeps
<1>3. Item \in Piece /\ ItemConn \in Conns /\ Item.msg \in Msgs
  <2>1. cursor \in 1 .. Len(pending_messages)
    BY <1>1, ListTyped DEF AtCursor, SequencerInv, TypeOK
  <2>2. Item \in [msg : Msgs, step : Nat]
    BY <2>1, ListTyped DEF Item, SequencerInv
  <2> QED BY <2>2 DEF Piece, ItemConn, SequencerAssumption
<1>4. /\ wire' \in [Conns -> Seq(Piece)] /\ torn' \subseteq Msgs /\ is_ok' \in [Conns -> BOOLEAN]
      /\ UNCHANGED <<myqtt_exit, sequencer, close, close_timeout, due>>
  <2>1. CASE WriteStep
    <3>1. Append(wire[ItemConn], Item) \in Seq(Piece)
      BY <1>3 DEF SequencerInv, TypeOK
    <3> QED BY <1>3, <2>1, <3>1 DEF WriteStep, closeVars, SequencerInv, TypeOK
  <2>2. CASE WriteFails \/ WriteTorn \/ DropMessage
    BY <1>3, <2>2 DEF WriteFails, WriteTorn, DropMessage, closeVars, SequencerInv, TypeOK
  <2> QED BY <1>1, <2>1, <2>2
<1>5. TypeOK'
  BY <1>2, <1>4 DEF SequencerInv, TypeOK
<1> QED BY <1>2, <1>5 DEF SequencerInv

LEMMA ThreadKeeps ==
    ASSUME SequencerInv, Wake \/ End \/ NextPass
    PROVE  SequencerInv'
<1>1. UNCHANGED <<myqtt_exit, is_ok, pending_messages, callerVars, writeVars, closeVars>>
  BY DEF Wake, End, NextPass
<1>2. sequencer' \in {"waiting", "writing", "ended"} /\ cursor' \in {1, cursor}
  BY DEF Wake, End, NextPass
<1>3. cursor' \in 1 .. Len(pending_messages') + 1
  <2>1. cursor \in 1 .. Len(pending_messages) + 1 /\ Len(pending_messages) \in Nat
    BY ListTyped DEF SequencerInv, TypeOK
  <2> QED BY <1>1, <1>2, <2>1
<1>4. TypeOK'
  BY <1>1, <1>2, <1>3 DEF SequencerInv, TypeOK, callerVars, writeVars, closeVars
<1>5. ListSound' /\ CountersExact'
  BY <1>1, CountersStill DEF SequencerInv, ListSound, callerVars
<1> QED BY <1>4, <1>5 DEF SequencerInv

\* Closing, breaking and exiting leave the list and its callers alone.
LEMMA CloseKeeps ==
    ASSUME SequencerInv,
           \/ Exit
           \/ \E c \in Conns : CloseCall(c) \/ Closer(c) \/ ConnDown(c)
    PROVE  SequencerInv'
<1>1. UNCHANGED <<threadVars, callerVars, torn>>
  BY DEF Exit, CloseCall, Closer, CloseFlushed, CloseTimeout, CloseSend, CloseShutdown, CloseSkip,
         ConnDown, writeVars
<1>2. myqtt_exit' \in BOOLEAN
  BY DEF Exit, CloseCall, Closer, CloseFlushed, CloseTimeout, CloseSend, CloseShutdown, CloseSkip,
         ConnDown, SequencerInv, TypeOK
<1>3. /\ is_ok' \in [Conns -> BOOLEAN] /\ close' \in [Conns -> CloseStates]
      /\ close_timeout' \subseteq Conns /\ due' \in [Conns -> SUBSET Msgs]
  <2>1. CASE Exit
    BY <2>1 DEF Exit, closeVars, SequencerInv, TypeOK
  <2>2. ASSUME NEW c \in Conns, CloseCall(c) \/ ConnDown(c)
        PROVE  <1>3!:
    <3>1. CASE CloseCall(c)
      <4>1. /\ close' = [close EXCEPT ![c] = "flushing"] /\ UNCHANGED <<is_ok, close_timeout>>
            /\ \E set \in SUBSET Msgs : due' = [due EXCEPT ![c] = set]
        BY <3>1 DEF CloseCall
      <4> QED BY <4>1 DEF CloseStates, SequencerInv, TypeOK
    <3>2. CASE ConnDown(c)
      BY <3>2 DEF ConnDown, closeVars, SequencerInv, TypeOK
    <3> QED BY <2>2, <3>1, <3>2
  <2>3. ASSUME NEW c \in Conns, Closer(c)
        PROVE  <1>3!:
    BY <2>3 DEF Closer, CloseFlushed, CloseTimeout, CloseSend, CloseShutdown, CloseSkip, closeVars,
                CloseStates, SequencerInv, TypeOK
  <2> QED BY <2>1, <2>2, <2>3
<1>4. wire' \in [Conns -> Seq(Piece)]
  <2>1. \/ UNCHANGED wire
        \/ \E c \in Conns :
              wire' = [wire EXCEPT ![c] = Append(@, [msg |-> DISCONNECT, step |-> 0])]
    BY DEF Exit, CloseCall, Closer, CloseFlushed, CloseTimeout, CloseSend, CloseShutdown, CloseSkip,
           ConnDown, writeVars
  <2>2. [msg |-> DISCONNECT, step |-> 0] \in Piece
    BY DEF Piece
  <2>3. wire \in [Conns -> Seq(Piece)]
    BY DEF SequencerInv, TypeOK
  <2>4. \A c \in Conns : Append(wire[c], [msg |-> DISCONNECT, step |-> 0]) \in Seq(Piece)
    BY <2>2, <2>3
  <2> QED BY <2>1, <2>3, <2>4
<1>5. TypeOK'
  BY <1>1, <1>2, <1>3, <1>4 DEF SequencerInv, TypeOK, threadVars, callerVars
<1>6. ListSound' /\ CountersExact'
  BY <1>1, CountersStill DEF SequencerInv, ListSound, callerVars, threadVars
<1> QED BY <1>5, <1>6 DEF SequencerInv

LEMMA SequencerStep == SequencerInv /\ [Next]_vars => SequencerInv'
<1> SUFFICES ASSUME SequencerInv, [Next]_vars
             PROVE  SequencerInv'
  OBVIOUS
<1>1. ASSUME NEW m \in Msgs, Caller(m)
      PROVE  SequencerInv'
  BY <1>1, RefusedKeeps, RefKeeps, CountKeeps, AppendKeeps DEF Caller
<1>2. CASE Thread
  BY <1>2, ThreadKeeps, WriteKeeps DEF Thread
<1>3. CASE Exit \/ \E c \in Conns : CloseCall(c) \/ Closer(c) \/ ConnDown(c)
  BY <1>3, CloseKeeps
<1>4. CASE UNCHANGED vars
  <2>1. TypeOK'
    BY <1>4 DEF SequencerInv, TypeOK, vars
  <2>2. ListSound' /\ CountersExact'
    BY <1>4, CountersStill DEF SequencerInv, ListSound, vars
  <2> QED BY <2>1, <2>2 DEF SequencerInv
<1> QED BY <1>1, <1>2, <1>3, <1>4 DEF Next

-----------------------------------------------------------------------------
(* The theorems.                                                            *)

\* The messages of the list are different messages that are counted, so there
\* are no more of them than the counter says, nor of these than references.
LEMMA ListIsCounted == SequencerInv => PendingIsReferenced
<1> SUFFICES ASSUME SequencerInv, NEW c \in Conns
             PROVE  LET pending == {i \in 1 .. Len(pending_messages) :
                                        ConnOf[pending_messages[i].msg] = c}
                    IN  /\ Cardinality(pending) <= sequencer_messages[c]
                        /\ sequencer_messages[c] <= ref_count[c]
  BY DEF PendingIsReferenced
<1> DEFINE pending == {i \in 1 .. Len(pending_messages) : ConnOf[pending_messages[i].msg] = c}
           msgAt   == [i \in pending |-> pending_messages[i].msg]
<1>1. msgAt \in Injection(pending, CountedFor(c))
  <2>1. \A i \in pending : pending_messages[i].msg \in CountedFor(c)
    BY ListTyped DEF SequencerInv, ListSound, CountedFor
  <2>2. \A i, j \in pending : msgAt[i] = msgAt[j] => i = j
    BY DEF SequencerInv, ListSound
  <2> QED BY <2>1, <2>2 DEF Injection, IsInjective
<1>2. Cardinality(pending) <= Cardinality(CountedFor(c))
  BY <1>1, SetsFinite, FS_Injection
<1> QED BY <1>2, SetsFinite DEF SequencerInv, CountersExact

\* Every variable keeps its type: no counter or cursor leaves its range.
THEOREM TypeCorrect == Spec => []TypeOK
<1>1. SequencerInv => TypeOK
  BY DEF SequencerInv
<1> QED BY <1>1, SequencerInitially, SequencerStep, PTL DEF Spec

\* However callers, the thread and closing interleave, the connection of a
\* message in the list is referenced, and counted as having it.
THEOREM PendingIsReferencedCorrect == Spec => []PendingIsReferenced
<1> QED BY ListIsCounted, SequencerInitially, SequencerStep, PTL DEF Spec

-----------------------------------------------------------------------------
(* What is on the wire: of a message in the list, the steps it has made.    *)

OnWire(m, n) == [msg |-> m, step |-> n] \in ToSet(wire[ConnOf[m]])

\* A message of the list has a step to make; those the cursor has passed have
\* made one, so they have more than one.
StepsLeft ==
    \A i \in 1 .. Len(pending_messages) :
        /\ pending_messages[i].step < Steps[pending_messages[i].msg]
        /\ sequencer = "writing" /\ i < cursor => pending_messages[i].step # 0

WireSound ==
    /\ \A m \in Msgs, n \in Nat : OnWire(m, n) => sender[m] \in {"queued", "released"}
    /\ \A i \in 1 .. Len(pending_messages), n \in Nat :
          OnWire(pending_messages[i].msg, n) <=> n < pending_messages[i].step

WireInv == SequencerInv /\ StepsLeft /\ WireSound

LEMMA AtItem ==
    ASSUME SequencerInv, AtCursor
    PROVE  /\ cursor \in 1 .. Len(pending_messages) /\ Len(pending_messages) \in Nat
           /\ Item \in [msg : Msgs, step : Nat] /\ Item.msg \in Msgs /\ Item.step \in Nat
           /\ sender[Item.msg] = "queued" /\ ItemConn = ConnOf[Item.msg] /\ ItemConn \in Conns
<1>1. cursor \in 1 .. Len(pending_messages) /\ Len(pending_messages) \in Nat
  BY ListTyped DEF AtCursor, SequencerInv, TypeOK
<1>2. Item \in [msg : Msgs, step : Nat] /\ sender[Item.msg] = "queued"
  BY <1>1, ListTyped DEF Item, SequencerInv, ListSound
<1>3. Item.msg \in Msgs /\ Item.step \in Nat
  BY <1>2
<1> QED BY <1>1, <1>2, <1>3 DEF ItemConn, SequencerAssumption

\* The list after a release: what it held, but for the message at the cursor.
LEMMA ReleasedList ==
    ASSUME SequencerInv, AtCursor, ReleaseMessage
    PROVE  /\ \A j \in 1 .. Len(pending_messages') :
                 \E i \in 1 .. Len(pending_messages) :
                    /\ i # cursor /\ pending_messages'[j] = pending_messages[i]
                    /\ j < cursor => i = j
           /\ cursor' = cursor
           /\ \A m \in Msgs \ {Item.msg} : sender'[m] = sender[m]
           /\ sender'[Item.msg] = "released"
<1>1. /\ pending_messages' = RemoveAt(pending_messages, cursor) /\ cursor' = cursor
      /\ sender' = [sender EXCEPT ![Item.msg] = "released"]
  BY DEF ReleaseMessage, AfterRemoved
<1>2. /\ Len(pending_messages') = Len(pending_messages) - 1
      /\ \A j \in 1 .. Len(pending_messages) - 1 :
            pending_messages'[j] = IF j < cursor THEN pending_messages[j] ELSE pending_messages[j + 1]
  <2>1. cursor \in 1 .. Len(pending_messages) /\ pending_messages \in Seq([msg : Msgs, step : Nat])
    BY AtItem, ListTyped DEF SequencerInv
  <2> DEFINE rest == RemoveAt(pending_messages, cursor)
  <2>2. /\ Len(rest) = Len(pending_messages) - 1
        /\ \A j \in 1 .. Len(pending_messages) - 1 :
              rest[j] = IF j < cursor THEN pending_messages[j] ELSE pending_messages[j + 1]
    BY <2>1, RemoveAtIs, ZenonT(30)
  <2>3. pending_messages' = rest
    BY <1>1
  <2> HIDE DEF rest
  <2> QED BY <2>2, <2>3
<1>3. ASSUME NEW j \in 1 .. Len(pending_messages')
      PROVE  \E i \in 1 .. Len(pending_messages) :
                    /\ i # cursor /\ pending_messages'[j] = pending_messages[i]
                    /\ j < cursor => i = j
  <2>1. /\ j \in 1 .. Len(pending_messages) /\ j + 1 \in 1 .. Len(pending_messages)
        /\ cursor \in Nat
    BY <1>2, AtItem
  <2>2. CASE j < cursor
    BY <1>2, <2>1, <2>2
  <2>3. CASE ~(j < cursor)
    <3>1. j + 1 # cursor
      BY <2>1, <2>3
    <3>2. pending_messages'[j] = pending_messages[j + 1]
      BY <1>2, <2>3
    <3> QED BY <2>1, <2>3, <3>1, <3>2
  <2> QED BY <2>2, <2>3
<1> QED BY <1>1, <1>3, AtItem DEF SequencerInv, TypeOK

\* The list after a step that was not the last one.
LEMMA KeptList ==
    ASSUME SequencerInv, AtCursor, KeepMessage
    PROVE  /\ Len(pending_messages') = Len(pending_messages)
           /\ \A i \in 1 .. Len(pending_messages) : i # cursor => pending_messages'[i] = pending_messages[i]
           /\ pending_messages'[cursor].msg = Item.msg
           /\ pending_messages'[cursor].step = Item.step + 1
           /\ cursor' = cursor + 1 /\ sender' = sender
<1>1. pending_messages' = [pending_messages EXCEPT ![cursor] = [Item EXCEPT !.step = Item.step + 1]]
  BY DEF KeepMessage, NextStep, Item
<1>2. /\ [Item EXCEPT !.step = Item.step + 1] \in [msg : Msgs, step : Nat]
      /\ [Item EXCEPT !.step = Item.step + 1].msg = Item.msg
      /\ [Item EXCEPT !.step = Item.step + 1].step = Item.step + 1
  BY AtItem
<1>3. /\ Len(pending_messages') = Len(pending_messages)
      /\ \A j \in 1 .. Len(pending_messages) :
            pending_messages'[j] = IF j = cursor THEN [Item EXCEPT !.step = Item.step + 1]
                                                 ELSE pending_messages[j]
  BY <1>1, <1>2, AtItem, ListTyped, ExceptSeq, SMTT(30) DEF SequencerInv
<1> QED BY <1>2, <1>3, AtItem DEF KeepMessage

\* What a write puts on the wire.
LEMMA WriteStepWrites ==
    ASSUME SequencerInv, WriteStep
    PROVE  \A m \in Msgs, n \in Nat :
              OnWire(m, n)' <=> OnWire(m, n) \/ (m = Item.msg /\ n = Item.step)
<1> USE DEF SequencerInv, TypeOK
<1>1. /\ wire' = [wire EXCEPT ![ItemConn] = Append(wire[ItemConn], Item)] /\ AtCursor
  BY DEF WriteStep
<1>2. Item \in Piece /\ wire[ItemConn] \in Seq(Piece)
  BY <1>1, AtItem DEF Piece
<1>3. ToSet(Append(wire[ItemConn], Item)) = ToSet(wire[ItemConn]) \cup {Item}
  BY <1>2, AppendSet
<1>4. ASSUME NEW m \in Msgs, NEW n \in Nat
      PROVE  OnWire(m, n)' <=> OnWire(m, n) \/ (m = Item.msg /\ n = Item.step)
  <2>1. [msg |-> m, step |-> n] = Item <=> m = Item.msg /\ n = Item.step
    <3>1. Item \in [msg : Msgs, step : Nat]
      BY <1>1, AtItem
    <3> HIDE DEF SequencerInv, TypeOK
    <3> QED BY <3>1
  <2>2. CASE ConnOf[m] = ItemConn
    <3>1. ToSet(wire'[ConnOf[m]]) = ToSet(wire[ConnOf[m]]) \cup {Item}
      BY <1>1, <1>3, <2>2, AtItem
    <3> QED BY <2>1, <3>1 DEF OnWire
  <2>3. CASE ConnOf[m] # ItemConn
    <3>1. wire'[ConnOf[m]] = wire[ConnOf[m]] /\ m # Item.msg
      BY <1>1, <2>3, AtItem
    <3> QED BY <3>1 DEF OnWire
  <2> QED BY <2>2, <2>3
<1> QED BY <1>4

\* Nothing else writes a step of a message of the list.
LEMMA OthersWriteNone ==
    ASSUME SequencerInv, UNCHANGED wire \/ \E c \in Conns : CloseSend(c)
    PROVE  \A m \in Msgs, n \in Nat : OnWire(m, n)' <=> OnWire(m, n)
<1>1. CASE UNCHANGED wire
  BY <1>1 DEF OnWire
<1>2. ASSUME NEW c \in Conns, CloseSend(c)
      PROVE  \A m \in Msgs, n \in Nat : OnWire(m, n)' <=> OnWire(m, n)
  <2> DEFINE d == [msg |-> DISCONNECT, step |-> 0]
  <2>1. d \in Piece /\ wire[c] \in Seq(Piece) /\ d.msg = DISCONNECT
    BY DEF Piece, SequencerInv, TypeOK
  <2>2. wire' = [wire EXCEPT ![c] = Append(wire[c], d)]
    BY <1>2 DEF CloseSend
  <2> HIDE DEF d
  <2>3. ToSet(Append(wire[c], d)) = ToSet(wire[c]) \cup {d}
    BY <2>1, AppendSet
  <2>4. ASSUME NEW m \in Msgs, NEW n \in Nat PROVE OnWire(m, n)' <=> OnWire(m, n)
    <3>1. [msg |-> m, step |-> n] # d
      BY <2>1
    <3>2. ToSet(wire'[ConnOf[m]]) = ToSet(wire[ConnOf[m]])
             \/ ToSet(wire'[ConnOf[m]]) = ToSet(wire[ConnOf[m]]) \cup {d}
      <4>1. CASE ConnOf[m] = c
        <5>1. wire'[c] = Append(wire[c], d)
          BY <2>2 DEF SequencerInv, TypeOK
        <5> QED BY <2>3, <4>1, <5>1
      <4>2. CASE ConnOf[m] # c
        <5>1. wire'[ConnOf[m]] = wire[ConnOf[m]]
          BY <2>2, <4>2 DEF SequencerInv, TypeOK
        <5> QED BY <5>1
      <4> QED BY <4>1, <4>2
    <3> QED BY <3>1, <3>2 DEF OnWire
  <2> QED BY <2>4
<1> QED BY <1>1, <1>2

LEMMA AppendWires ==
    ASSUME WireInv, NEW m \in Msgs, QueueAppend(m)
    PROVE  StepsLeft' /\ WireSound'
<1> DEFINE item == [msg |-> m, step |-> 0]
           len  == Len(pending_messages)
<1>1. /\ sender[m] = "counted" /\ sender' = [sender EXCEPT ![m] = "queued"]
      /\ UNCHANGED <<cursor, sequencer, wire>> /\ sequencer # "writing"
      /\ len \in Nat /\ Len(pending_messages') = len + 1
      /\ \A i \in 1 .. len : pending_messages'[i] = pending_messages[i]
      /\ pending_messages'[len + 1] = item
  <2>1. /\ pending_messages' = Append(pending_messages, item)
        /\ pending_messages \in Seq([msg : Msgs, step : Nat])
        /\ item \in [msg : Msgs, step : Nat]
    BY DEF QueueAppend, Appended, WireInv, SequencerInv, TypeOK
  <2>2. /\ sender[m] = "counted" /\ sender' = [sender EXCEPT ![m] = "queued"]
        /\ UNCHANGED <<cursor, sequencer, wire>> /\ sequencer # "writing"
    BY DEF QueueAppend, Counted, MutexFree, writeVars
  <2> HIDE DEF item
  <2> QED BY <2>1, <2>2, AppendProperties
<1>2. item.msg = m /\ item.step = 0 /\ Steps[m] > 0
  BY DEF SequencerAssumption
<1>3. \A i \in 1 .. len + 1 : i \in 1 .. len \/ i = len + 1
  BY <1>1
<1> HIDE DEF item, len
<1>4. \A o \in Msgs, n \in Nat : OnWire(o, n)' <=> OnWire(o, n)
  BY <1>1, OthersWriteNone DEF WireInv
<1>5. \A o \in Msgs : sender[o] \in {"queued", "released"} => sender'[o] \in {"queued", "released"}
  BY <1>1 DEF WireInv, SequencerInv, TypeOK
<1>6. \A n \in Nat : ~OnWire(m, n)
  BY <1>1 DEF WireInv, WireSound
<1>7. StepsLeft'
  BY <1>1, <1>2, <1>3 DEF WireInv, StepsLeft, len
<1>8. ASSUME NEW i \in 1 .. len + 1, NEW n \in Nat
      PROVE  (OnWire(pending_messages[i].msg, n) <=> n < pending_messages[i].step)'
  <2>1. CASE i \in 1 .. len
    <3>1. pending_messages[i].msg \in Msgs /\ pending_messages'[i] = pending_messages[i]
      BY <1>1, <2>1, ListTyped DEF WireInv, SequencerInv, len
    <3>2. OnWire(pending_messages[i].msg, n) <=> n < pending_messages[i].step
      BY <2>1 DEF WireInv, WireSound, len
    <3> QED BY <1>1, <3>1, <3>2 DEF OnWire
  <2>2. CASE i = len + 1
    <3>1. pending_messages'[i].msg = m /\ pending_messages'[i].step = 0
      BY <1>1, <1>2, <2>2
    <3>2. ~(n < 0)
      OBVIOUS
    <3>3. [msg |-> m, step |-> n] \notin ToSet(wire'[ConnOf[m]])
      BY <1>1, <1>6 DEF OnWire
    <3> QED BY <3>1, <3>2, <3>3 DEF OnWire
  <2> QED BY <1>3, <2>1, <2>2
<1>9. WireSound'
  <2>1. \A o \in Msgs, n \in Nat : (OnWire(o, n) => sender[o] \in {"queued", "released"})'
    BY <1>4, <1>5 DEF WireInv, WireSound
  <2> QED BY <1>1, <1>8, <2>1 DEF WireSound
<1> QED BY <1>7, <1>9

\* A message that leaves the list keeps what it wrote, and so do the others.
LEMMA ReleaseWires ==
    ASSUME WireInv, AtCursor, ReleaseMessage, sequencer' = sequencer,
           \A m \in Msgs \ {Item.msg}, n \in Nat : OnWire(m, n)' <=> OnWire(m, n)
    PROVE  StepsLeft' /\ WireSound'
<1>0. SequencerInv
  BY DEF WireInv
<1>1. ASSUME NEW j \in 1 .. Len(pending_messages')
      PROVE  /\ (pending_messages[j].step < Steps[pending_messages[j].msg])'
             /\ (sequencer = "writing" /\ j < cursor => pending_messages[j].step # 0)'
             /\ \A n \in Nat : (OnWire(pending_messages[j].msg, n) <=> n < pending_messages[j].step)'
  <2>1. PICK i \in 1 .. Len(pending_messages) :
                    /\ i # cursor /\ pending_messages'[j] = pending_messages[i]
                    /\ j < cursor => i = j
    BY <1>0, ReleasedList
  <2>2. PICK m \in Msgs : m = pending_messages[i].msg /\ m # Item.msg
    BY <1>0, <2>1, AtItem, ListTyped DEF Item, SequencerInv, ListSound
  <2>3. \A n \in Nat : OnWire(m, n) <=> n < pending_messages[i].step
    BY <2>2 DEF WireInv, WireSound
  <2>4. \A n \in Nat : OnWire(m, n)' <=> n < pending_messages'[j].step
    BY <2>1, <2>2, <2>3
  <2>5. \A n \in Nat : (OnWire(pending_messages[j].msg, n) <=> n < pending_messages[j].step)'
    BY <2>1, <2>2, <2>4 DEF OnWire
  <2> QED BY <1>0, <2>1, <2>5, ReleasedList DEF WireInv, StepsLeft
<1>2. \A m \in Msgs, n \in Nat : (OnWire(m, n) => sender[m] \in {"queued", "released"})'
  <2>1. \A m \in Msgs \ {Item.msg} : sender'[m] = sender[m]
    BY <1>0, ReleasedList
  <2>2. sender'[Item.msg] = "released"
    BY <1>0, ReleasedList
  <2>3. ASSUME NEW m \in Msgs \ {Item.msg}, NEW n \in Nat, OnWire(m, n)'
        PROVE  sender'[m] \in {"queued", "released"}
    BY <2>1, <2>3 DEF WireInv, WireSound
  <2> QED BY <2>2, <2>3
<1> QED BY <1>1, <1>2 DEF StepsLeft, WireSound

\* A message that stays in the list has made one step more.
LEMMA KeepWires ==
    ASSUME WireInv, WriteStep, KeepMessage, sequencer' = sequencer,
           Item.step + 1 # Steps[Item.msg]
    PROVE  StepsLeft' /\ WireSound'
<1>0. SequencerInv /\ AtCursor
  BY DEF WireInv, WriteStep
<1>1. /\ cursor \in 1 .. Len(pending_messages) /\ Len(pending_messages) \in Nat
      /\ Item.msg \in Msgs /\ Item.step \in Nat /\ Steps[Item.msg] \in Nat
      /\ Item = pending_messages[cursor] /\ sender[Item.msg] = "queued"
  BY <1>0, AtItem DEF Item, SequencerAssumption
<1>2. Item.step + 1 < Steps[Item.msg]
  BY <1>1 DEF WireInv, StepsLeft
<1>3. \A m \in Msgs, n \in Nat : OnWire(m, n)' <=> OnWire(m, n) \/ (m = Item.msg /\ n = Item.step)
  BY <1>0, WriteStepWrites
<1>4. /\ Len(pending_messages') = Len(pending_messages)
      /\ \A i \in 1 .. Len(pending_messages) : i # cursor => pending_messages'[i] = pending_messages[i]
      /\ pending_messages'[cursor].msg = Item.msg
      /\ pending_messages'[cursor].step = Item.step + 1
      /\ cursor' = cursor + 1 /\ sender' = sender
  BY <1>0, KeptList
<1>5. ASSUME NEW i \in 1 .. Len(pending_messages), NEW n \in Nat
      PROVE  (OnWire(pending_messages[i].msg, n) <=> n < pending_messages[i].step)'
  <2>1. CASE i = cursor
    <3>1. OnWire(Item.msg, n) <=> n < Item.step
      BY <1>1 DEF WireInv, WireSound
    <3> DEFINE m == Item.msg
    <3>2. [msg |-> m, step |-> n] \in ToSet(wire'[ConnOf[m]]) <=> n < Item.step + 1
      <4>1. OnWire(Item.msg, n) \/ n = Item.step <=> n < Item.step + 1
        BY <1>1, <3>1
      <4> QED BY <1>1, <1>3, <4>1 DEF OnWire
    <3> QED BY <1>4, <2>1, <3>2 DEF OnWire
  <2>2. CASE i # cursor
    <3>1. PICK m \in Msgs : m = pending_messages[i].msg /\ m # Item.msg
      BY <1>0, <1>1, <2>2, ListTyped DEF Item, SequencerInv, ListSound
    <3>2. OnWire(m, n)' <=> n < pending_messages[i].step
      BY <1>3, <3>1 DEF WireInv, WireSound
    <3> QED BY <1>4, <2>2, <3>1, <3>2 DEF OnWire
  <2> QED BY <2>1, <2>2
<1>6. \A m \in Msgs, n \in Nat : (OnWire(m, n) => sender[m] \in {"queued", "released"})'
  BY <1>1, <1>3, <1>4 DEF WireInv, WireSound
<1>7. StepsLeft'
  <2>1. \A i \in 1 .. Len(pending_messages) :
           /\ pending_messages'[i].step < Steps[pending_messages'[i].msg]
           /\ sequencer' = "writing" /\ i < cursor' => pending_messages'[i].step # 0
    <3> TAKE i \in 1 .. Len(pending_messages)
    <3>1. CASE i = cursor
      BY <1>1, <1>2, <1>4, <3>1
    <3>2. CASE i # cursor
      <4>1. i < cursor + 1 => i < cursor
        BY <1>1, <3>2
      <4> QED BY <1>4, <3>2, <4>1 DEF WireInv, StepsLeft
    <3> QED BY <3>1, <3>2
  <2> QED BY <1>4, <2>1 DEF StepsLeft
<1> QED BY <1>4, <1>5, <1>6, <1>7 DEF WireSound

\* What leaves the list alone.
LEMMA StillWires ==
    ASSUME WireInv, UNCHANGED pending_messages,
           sequencer' = "writing" => cursor' = 1 \/ (sequencer = "writing" /\ cursor' = cursor),
           \A m \in Msgs : sender[m] \in {"queued", "released"} => sender'[m] = sender[m],
           \A m \in Msgs, n \in Nat : OnWire(m, n)' <=> OnWire(m, n)
    PROVE  StepsLeft' /\ WireSound'
<1>1. ASSUME NEW i \in 1 .. Len(pending_messages), NEW n \in Nat
      PROVE  (OnWire(pending_messages[i].msg, n) <=> n < pending_messages[i].step)'
  <2>1. PICK m \in Msgs : m = pending_messages[i].msg
    BY ListTyped DEF WireInv, SequencerInv
  <2>2. OnWire(m, n)' <=> n < pending_messages[i].step
    BY <2>1 DEF WireInv, WireSound
  <2> QED BY <2>1, <2>2 DEF OnWire
<1>2. \A m \in Msgs, n \in Nat : (OnWire(m, n) => sender[m] \in {"queued", "released"})'
  BY DEF WireInv, WireSound
<1>3. StepsLeft'
  <2>1. \A i \in 1 .. Len(pending_messages) : ~(i < 1)
    BY ListTyped DEF WireInv, SequencerInv
  <2> QED BY <2>1 DEF WireInv, StepsLeft
<1> QED BY <1>1, <1>2, <1>3 DEF WireSound

LEMMA WireStep == WireInv /\ [Next]_vars => WireInv'
<1> SUFFICES ASSUME WireInv, [Next]_vars
             PROVE  StepsLeft' /\ WireSound'
  BY SequencerStep DEF WireInv
<1>0. SequencerInv
  BY DEF WireInv
<1>1. ASSUME NEW m \in Msgs, Caller(m)
      PROVE  StepsLeft' /\ WireSound'
  <2>1. CASE QueueAppend(m)
    BY <2>1, AppendWires
  <2>2. CASE QueueRefused(m) \/ QueueRef(m) \/ QueueCount(m)
    <3>1. /\ UNCHANGED <<pending_messages, cursor, sequencer, wire>>
          /\ \A o \in Msgs : sender[o] \in {"queued", "released"} => sender'[o] = sender[o]
      BY <1>0, <2>2 DEF QueueRefused, QueueRef, QueueCount, threadVars, writeVars,
                        SequencerInv, TypeOK
    <3> QED BY <1>0, <3>1, StillWires, OthersWriteNone
  <2> QED BY <1>1, <2>1, <2>2 DEF Caller
<1>2. CASE Wake \/ End \/ NextPass
  <2>1. /\ UNCHANGED <<pending_messages, wire, sender>>
        /\ sequencer' = "writing" => cursor' = 1
    BY <1>2 DEF Wake, End, NextPass, callerVars, writeVars
  <2> QED BY <1>0, <2>1, StillWires, OthersWriteNone
<1>3. CASE WriteStep
  <2>1. AtCursor /\ sequencer' = sequencer
        /\ \/ ReleaseMessage
           \/ KeepMessage /\ Item.step + 1 # Steps[Item.msg]
    BY <1>3 DEF WriteStep
  <2>2. \A m \in Msgs \ {Item.msg}, n \in Nat : OnWire(m, n)' <=> OnWire(m, n)
    BY <1>0, <1>3, WriteStepWrites
  <2> QED BY <1>3, <2>1, <2>2, ReleaseWires, KeepWires
<1>4. CASE WriteFails \/ WriteTorn \/ DropMessage
  <2>1. AtCursor /\ ReleaseMessage /\ UNCHANGED <<sequencer, wire>>
    BY <1>4 DEF WriteFails, WriteTorn, DropMessage
  <2> QED BY <1>0, <2>1, ReleaseWires, OthersWriteNone
<1>5. CASE Exit \/ (\E c \in Conns : CloseCall(c) \/ Closer(c) \/ ConnDown(c)) \/ UNCHANGED vars
  <2>1. /\ UNCHANGED <<pending_messages, cursor, sequencer, sender>>
        /\ UNCHANGED wire \/ \E c \in Conns : CloseSend(c)
    BY <1>5 DEF Exit, CloseCall, Closer, CloseFlushed, CloseTimeout, CloseSend, CloseShutdown,
                CloseSkip, ConnDown, writeVars, threadVars, callerVars, vars
  <2> QED BY <1>0, <2>1, StillWires, OthersWriteNone
<1> QED BY <1>0, <1>1, <1>2, <1>3, <1>4, <1>5 DEF Next, Thread

LEMMA WireInitially == Init => WireInv
<1> SUFFICES ASSUME Init
             PROVE  StepsLeft /\ WireSound
  BY SequencerInitially DEF WireInv
<1>1. StepsLeft
  BY DEF Init, StepsLeft
<1>2. \A m \in Msgs, n \in Nat : ~OnWire(m, n)
  BY DEF Init, OnWire, ToSet, SequencerAssumption
<1> QED BY <1>1, <1>2 DEF Init, WireSound

-----------------------------------------------------------------------------
(* What close waits for.                                                    *)

\* A message released while its connection works was written whole or torn; the
\* messages that were due when close was called are released when DISCONNECT is
\* to be sent, if close did not run out of time and the connection still works.
FlushInv ==
    /\ \A m \in Msgs : sender[m] = "released" /\ is_ok[ConnOf[m]] => Complete(m) \/ m \in torn
    /\ \A c \in Conns : \A m \in due[c] : ConnOf[m] = c /\ sender[m] \in {"queued", "released"}
    /\ \A c \in Conns : close[c] = "sending" /\ c \notin close_timeout /\ is_ok[c]
                           => \A m \in due[c] : sender[m] = "released"
    /\ FlushedBeforeDisconnect

LEMMA CompleteIs ==
    ASSUME NEW m \in Msgs
    PROVE  /\ Complete(m) <=> \A n \in 0 .. Steps[m] - 1 : OnWire(m, n)
           /\ Complete(m)' <=> \A n \in 0 .. Steps[m] - 1 : OnWire(m, n)'
  BY DEF Complete, OnWire

\* No step unwrites, mends a torn message or reopens a connection, and a message
\* leaves the list whole, torn, or with its connection down.
LEMMA Progress ==
    ASSUME WireInv, [Next]_vars
    PROVE  /\ \A m \in Msgs : Complete(m) => Complete(m)'
           /\ torn \subseteq torn'
           /\ \A c \in Conns : is_ok'[c] => is_ok[c]
           /\ \A m \in Msgs : /\ sender[m] = "released" => sender'[m] = "released"
                              /\ sender[m] = "queued" => sender'[m] \in {"queued", "released"}
           /\ \A m \in Msgs : sender'[m] = "released" /\ sender[m] # "released"
                 => Complete(m)' \/ m \in torn' \/ ~is_ok'[ConnOf[m]]
<1> DEFINE Goes(m) == /\ sender[m] = "released" => sender'[m] = "released"
                      /\ sender[m] = "queued" => sender'[m] \in {"queued", "released"}
                      /\ sender'[m] = "released" /\ sender[m] # "released"
                            => Complete(m)' \/ m \in torn' \/ ~is_ok'[ConnOf[m]]
           Goal == /\ \A m \in Msgs, n \in Nat : OnWire(m, n) => OnWire(m, n)'
                   /\ torn \subseteq torn'
                   /\ \A c \in Conns : is_ok'[c] => is_ok[c]
                   /\ \A m \in Msgs : Goes(m)
<1>0. SequencerInv /\ sender \in [Msgs -> SenderStates] /\ is_ok \in [Conns -> BOOLEAN]
  BY DEF WireInv, SequencerInv, TypeOK
<1>1. ASSUME NEW m \in Msgs, Caller(m)
      PROVE  Goal
  <2>1. /\ UNCHANGED <<torn, is_ok, wire>>
        /\ sender[m] \in {"idle", "referenced", "counted"}
        /\ \E to \in {"refused", "referenced", "counted", "queued"} :
              sender' = [sender EXCEPT ![m] = to]
    BY <1>1 DEF Caller, QueueRefused, QueueRef, QueueCount, QueueAppend, Counted, writeVars
  <2> QED BY <1>0, <2>1, OthersWriteNone
<1>2. ASSUME \/ Wake \/ End \/ NextPass \/ Exit \/ UNCHANGED vars
             \/ \E c \in Conns : CloseCall(c) \/ Closer(c) \/ ConnDown(c)
      PROVE  Goal
  <2>1. /\ UNCHANGED <<torn, sender>>
        /\ UNCHANGED wire \/ \E c \in Conns : CloseSend(c)
        /\ is_ok' = is_ok \/ \E c \in Conns : is_ok' = [is_ok EXCEPT ![c] = FALSE]
    BY <1>2 DEF Wake, End, NextPass, Exit, CloseCall, Closer, CloseFlushed, CloseTimeout, CloseSend,
                CloseShutdown, CloseSkip, ConnDown, writeVars, threadVars, callerVars, vars
  <2>2. \A c \in Conns : is_ok'[c] => is_ok[c]
    BY <1>0, <2>1
  <2> QED BY <1>0, <2>1, <2>2, OthersWriteNone
<1>3. ASSUME AtCursor, ReleaseMessage,
             \A m \in Msgs, n \in Nat : OnWire(m, n) => OnWire(m, n)',
             torn \subseteq torn', \A c \in Conns : is_ok'[c] => is_ok[c],
             NEW i, i = Item.msg, Complete(i)' \/ i \in torn' \/ ~is_ok'[ConnOf[i]]
      PROVE  Goal
  <2>1. /\ i \in Msgs /\ sender[i] = "queued"
        /\ \A m \in Msgs \ {i} : sender'[m] = sender[m]
        /\ sender'[i] = "released"
    BY <1>0, <1>3, AtItem, ReleasedList
  <2>2. \A m \in Msgs : Goes(m)
    BY <1>3, <2>1
  <2> QED BY <1>3, <2>2
<1>4. ASSUME WriteStep
      PROVE  Goal
  <2>0. AtCursor /\ UNCHANGED <<torn, is_ok>>
    BY <1>4 DEF WriteStep
  <2> DEFINE Is(i) == i = Item.msg
  <2>1. PICK i \in Msgs : Is(i)
    BY <1>0, <2>0, AtItem
  <2>2. \A m \in Msgs, n \in Nat : OnWire(m, n)' <=> OnWire(m, n) \/ (m = i /\ n = Item.step)
    BY <1>0, <1>4, <2>1, WriteStepWrites
  <2>3. CASE Item.step + 1 = Steps[i]
    <3>1. ReleaseMessage
      BY <1>4, <2>1, <2>3 DEF WriteStep
    <3>2. Item.step \in Nat /\ cursor \in 1 .. Len(pending_messages)
      BY <1>0, <2>0, AtItem
    <3>3. \A n \in Nat : n < Item.step => OnWire(i, n)
      BY <2>1, <3>2 DEF WireInv, WireSound, Item
    <3>4. \A n \in 0 .. Steps[i] - 1 : n \in Nat /\ (n < Item.step \/ n = Item.step)
      BY <2>3, <3>2
    <3>5. \A n \in 0 .. Steps[i] - 1 : OnWire(i, n)'
      BY <2>2, <3>3, <3>4
    <3>6. Complete(i)'
      BY <3>5, CompleteIs
    <3> QED BY <1>3, <2>0, <2>1, <2>2, <3>1, <3>6
  <2>4. CASE Item.step + 1 # Steps[i]
    <3>1. UNCHANGED sender
      BY <1>4, <2>1, <2>4 DEF WriteStep, KeepMessage
    <3> QED BY <2>0, <2>2, <3>1
  <2> QED BY <2>3, <2>4
<1>5. ASSUME WriteFails \/ WriteTorn \/ DropMessage
      PROVE  Goal
  <2>1. /\ AtCursor /\ ReleaseMessage /\ UNCHANGED wire
        /\ torn \subseteq torn' /\ \A c \in Conns : is_ok'[c] => is_ok[c]
    BY <1>0, <1>5, AtItem DEF WriteFails, WriteTorn, DropMessage
  <2> DEFINE Is(i) == i = Item.msg /\ ItemConn = ConnOf[i]
  <2>2. PICK i \in Msgs : Is(i)
    BY <1>0, <2>1, AtItem
  <2>3. i \in torn' \/ ~is_ok'[ConnOf[i]]
    BY <1>0, <1>5, <2>2 DEF WriteFails, WriteTorn, DropMessage, SequencerAssumption
  <2> QED BY <1>0, <1>3, <2>1, <2>2, <2>3, OthersWriteNone
<1>6. Goal
  BY <1>1, <1>2, <1>4, <1>5 DEF Next, Thread
<1>7. ASSUME NEW m \in Msgs, Complete(m) PROVE Complete(m)'
  <2>1. \A n \in 0 .. Steps[m] - 1 : n \in Nat
    OBVIOUS
  <2> QED BY <1>6, <1>7, <2>1, CompleteIs
<1> QED BY <1>6, <1>7

\* close[c] and what it is due to wait for, step by step.
LEMMA CloseCases ==
    ASSUME TypeOK, [Next]_vars, NEW c \in Conns
    PROVE  /\ c \in close_timeout => c \in close_timeout'
           /\ \/ close'[c] = close[c] /\ due'[c] = due[c]
              \/ close'[c] = "flushing"
                    /\ due'[c] = {m \in Msgs : ConnOf[m] = c /\ sender[m] = "queued"}
                    /\ UNCHANGED sender
              \/ due'[c] = due[c] /\ UNCHANGED <<callerVars, is_ok>> /\ close[c] = "flushing" /\ close'[c] = "sending"
                    /\ (Flushed(c) \/ c \in close_timeout')
              \/ due'[c] = due[c] /\ UNCHANGED <<close_timeout, sender, torn>>
                    /\ close[c] = "sending" /\ close'[c] = "sent" /\ is_ok[c]
              \/ due'[c] = due[c] /\ close'[c] = "closed"
<1> USE DEF TypeOK
<1>1. CASE UNCHANGED closeVars
  BY <1>1 DEF closeVars
<1>2. ASSUME NEW d \in Conns, CloseCall(d)
      PROVE  \/ close'[c] = close[c] /\ due'[c] = due[c]
             \/ close'[c] = "flushing"
                    /\ due'[c] = {m \in Msgs : ConnOf[m] = c /\ sender[m] = "queued"}
                    /\ UNCHANGED sender
  BY <1>2 DEF CloseCall, callerVars
<1>3. ASSUME NEW d \in Conns, CloseFlushed(d) \/ CloseTimeout(d) \/ CloseSend(d) \/ CloseShutdown(d)
                                \/ CloseSkip(d)
      PROVE  /\ due' = due /\ close_timeout \subseteq close_timeout'
             /\ \/ close'[c] = close[c]
                \/ UNCHANGED <<callerVars, is_ok>> /\ close[c] = "flushing" /\ close'[c] = "sending"
                    /\ (Flushed(c) \/ c \in close_timeout')
                \/ UNCHANGED <<close_timeout, sender, torn>>
                    /\ close[c] = "sending" /\ close'[c] = "sent" /\ is_ok[c]
                \/ close'[c] = "closed"
  BY <1>3 DEF CloseFlushed, CloseTimeout, CloseSend, CloseShutdown, CloseSkip, callerVars
<1>4. CASE (\E m \in Msgs : Caller(m)) \/ Thread \/ Exit \/ (\E d \in Conns : ConnDown(d)) \/ UNCHANGED vars
  <2>1. UNCHANGED closeVars
    BY <1>4 DEF Caller, QueueRefused, QueueRef, QueueCount, QueueAppend, Thread, Wake, End, NextPass,
           WriteStep, WriteFails, WriteTorn, DropMessage, Exit, ConnDown, vars, closeVars
  <2> QED BY <1>1, <2>1
<1>5. CASE \E d \in Conns : CloseCall(d)
  <2>1. UNCHANGED close_timeout
    BY <1>5 DEF CloseCall
  <2> QED BY <1>2, <1>5, <2>1
<1>6. CASE \E d \in Conns : Closer(d)
  BY <1>3, <1>6 DEF Closer
<1> QED BY <1>4, <1>5, <1>6 DEF Next

LEMMA FlushStep ==
    ASSUME WireInv, FlushInv, [Next]_vars
    PROVE  FlushInv'
<1>0. TypeOK /\ SequencerInv
  BY DEF WireInv, SequencerInv
<1>1. ASSUME NEW m \in Msgs, sender'[m] = "released", is_ok'[ConnOf[m]]
      PROVE  Complete(m)' \/ m \in torn'
  <2>1. ConnOf[m] \in Conns
    BY DEF SequencerAssumption
  <2> QED BY <1>1, <2>1, Progress DEF FlushInv
<1> SUFFICES ASSUME NEW c \in Conns
             PROVE  /\ \A m \in due'[c] : ConnOf[m] = c /\ sender'[m] \in {"queued", "released"}
                    /\ close'[c] = "sending" /\ c \notin close_timeout' /\ is_ok'[c]
                           => \A m \in due'[c] : sender'[m] = "released"
                    /\ close'[c] = "sent" /\ c \notin close_timeout'
                           => \A m \in due'[c] : Complete(m)' \/ m \in torn'
  BY <1>1 DEF FlushInv, FlushedBeforeDisconnect
<1>2. due[c] \subseteq Msgs
  BY <1>0 DEF TypeOK
<1>3. c \in close_timeout => c \in close_timeout'
  BY <1>0, CloseCases
<1>4. \A m \in due[c] : ConnOf[m] = c /\ sender'[m] \in {"queued", "released"}
  BY <1>2, Progress DEF FlushInv
<1>5. CASE close'[c] = close[c] /\ due'[c] = due[c]
  BY <1>2, <1>3, <1>4, <1>5, Progress DEF FlushInv, FlushedBeforeDisconnect
<1>6. CASE /\ close'[c] = "flushing" /\ UNCHANGED sender
           /\ due'[c] = {m \in Msgs : ConnOf[m] = c /\ sender[m] = "queued"}
  BY <1>6
<1>7. CASE /\ due'[c] = due[c] /\ UNCHANGED <<callerVars, is_ok>>
           /\ close[c] = "flushing" /\ close'[c] = "sending"
           /\ Flushed(c) \/ c \in close_timeout'
  <2>1. ASSUME sequencer_messages[c] = 0, NEW m \in due[c]
        PROVE  sender[m] = "released"
    <3>1. Cardinality(CountedFor(c)) = 0 /\ IsFiniteSet(CountedFor(c))
      BY <1>0, <2>1, SetsFinite DEF SequencerInv, CountersExact
    <3>2. CountedFor(c) = {}
      BY <3>1, FS_EmptySet
    <3>3. m \in Msgs /\ ConnOf[m] = c /\ sender[m] \in {"queued", "released"}
      BY <1>2 DEF FlushInv
    <3> QED BY <3>2, <3>3 DEF CountedFor
  <2> QED BY <1>4, <1>7, <2>1 DEF Flushed, callerVars
<1>8. CASE /\ due'[c] = due[c] /\ UNCHANGED <<close_timeout, sender, torn>>
           /\ close[c] = "sending" /\ close'[c] = "sent" /\ is_ok[c]
  <2>1. c \notin close_timeout' => \A m \in due[c] : sender[m] = "released" /\ ConnOf[m] = c
    BY <1>8 DEF FlushInv
  <2>2. c \notin close_timeout' => \A m \in due[c] : Complete(m) \/ m \in torn
    BY <1>2, <1>8, <2>1 DEF FlushInv
  <2> QED BY <1>2, <1>4, <1>8, <2>2, Progress
<1>9. CASE due'[c] = due[c] /\ close'[c] = "closed"
  BY <1>4, <1>9
<1> QED BY <1>0, <1>5, <1>6, <1>7, <1>8, <1>9, CloseCases

LEMMA FlushInvariance == Spec => [](WireInv /\ FlushInv)
<1>1. Init => FlushInv
  BY DEF Init, FlushInv, FlushedBeforeDisconnect
<1>2. WireInv /\ FlushInv /\ [Next]_vars => (WireInv /\ FlushInv)'
  BY WireStep, FlushStep
<1> QED BY <1>1, <1>2, WireInitially, PTL DEF Spec

\* DISCONNECT follows every message that was accepted before the close, whole or
\* torn by a full socket, unless the close ran out of time: the counter covers a
\* message until its last step, for any number of connections, of messages and of
\* steps they take.
THEOREM FlushedBeforeDisconnectCorrect == Spec => []FlushedBeforeDisconnect
<1>1. FlushInv => FlushedBeforeDisconnect
  BY DEF FlushInv
<1> QED BY <1>1, FlushInvariance, PTL

-----------------------------------------------------------------------------
(* The messages of a list (MsgsOf).                                         *)

\* The recursive definition of MsgsOf does define a function.
IsUpTo(g, items, chosen, n) ==
    g = [k \in 0 .. n |-> IF k = 0 THEN <<>>
                          ELSE IF items[k] \in chosen THEN Append(g[k - 1], items[k].msg)
                                                      ELSE g[k - 1]]

LEMMA UpToExists ==
    ASSUME NEW items \in Seq(Piece), NEW chosen
    PROVE  \E g : IsUpTo(g, items, chosen, Len(items))
<1> DEFINE Next1(g, k) == IF k = 0 THEN <<>>
                          ELSE IF items[k] \in chosen THEN Append(g[k - 1], items[k].msg)
                                                      ELSE g[k - 1]
           L == Len(items)
           G == {n \in 0 .. L : \E g : IsUpTo(g, items, chosen, n)}
<1>1. L \in Nat
  OBVIOUS
<1>2. 0 \in G
  <2> DEFINE g == [k \in 0 .. 0 |-> <<>>]
  <2>1. IsUpTo(g, items, chosen, 0)
    BY DEF IsUpTo
  <2> QED BY <1>1, <2>1
<1>3. ASSUME NEW n \in 1 .. L, n - 1 \in G
      PROVE  n \in G
  <2>1. PICK g : IsUpTo(g, items, chosen, n - 1)
    BY <1>3
  <2> DEFINE h == [k \in 0 .. n |-> IF k = n THEN Next1(g, n) ELSE g[k]]
  <2>2. ASSUME NEW k \in 0 .. n
        PROVE  h[k] = Next1(h, k)
    <3>1. CASE k = n
      <4>1. n - 1 \in 0 .. n /\ n - 1 # n /\ n # 0
        BY <1>1
      <4>2. h[n - 1] = g[n - 1]
        BY <4>1
      <4> QED BY <3>1, <4>1, <4>2
    <3>2. CASE k # n
      <4>1. k \in 0 .. n - 1 /\ (k # 0 => k - 1 \in 0 .. n /\ k - 1 # n)
        BY <1>1, <3>2
      <4>2. h[k] = g[k] /\ g[k] = Next1(g, k)
        BY <2>1, <3>2, <4>1 DEF IsUpTo
      <4>3. k # 0 => h[k - 1] = g[k - 1]
        BY <4>1
      <4> QED BY <4>2, <4>3
    <3> QED BY <3>1, <3>2
  <2>3. IsUpTo(h, items, chosen, n)
    BY <2>2 DEF IsUpTo
  <2> QED BY <1>1, <2>3
<1>4. L \in G
  <2> HIDE DEF G
  <2>1. 0 .. L \subseteq G
    BY <1>1, <1>2, <1>3, IntervalInduction
  <2> QED BY <1>1, <2>1
<1> QED BY <1>4

LEMMA MsgsOfIs ==
    ASSUME NEW items \in Seq(Piece), NEW chosen
    PROVE  \E g : IsUpTo(g, items, chosen, Len(items)) /\ MsgsOf(items, chosen) = g[Len(items)]
<1> DEFINE g == CHOOSE f : IsUpTo(f, items, chosen, Len(items))
<1>1. MsgsOf(items, chosen) = g[Len(items)]
  BY DEF MsgsOf, IsUpTo
<1>2. IsUpTo(g, items, chosen, Len(items))
  BY UpToExists
<1> QED BY <1>1, <1>2

LEMMA UpToValue ==
    ASSUME NEW n \in Nat, NEW items, NEW chosen, NEW g, IsUpTo(g, items, chosen, n)
    PROVE  /\ g[0] = <<>>
           /\ \A k \in 1 .. n : g[k] = IF items[k] \in chosen THEN Append(g[k - 1], items[k].msg)
                                                              ELSE g[k - 1]
<1>1. \A k \in 0 .. n : g[k] = IF k = 0 THEN <<>>
                               ELSE IF items[k] \in chosen THEN Append(g[k - 1], items[k].msg)
                                                           ELSE g[k - 1]
  BY DEF IsUpTo
<1>2. \A k \in 1 .. n : k \in 0 .. n /\ k # 0
  OBVIOUS
<1> QED BY <1>1, <1>2

Values == Msgs \cup {DISCONNECT}

\* The messages so far are among those of the items so far.
LEMMA UpToElements ==
    ASSUME NEW items \in Seq(Piece), NEW chosen, NEW g, IsUpTo(g, items, chosen, Len(items)),
           NEW n \in 0 .. Len(items)
    PROVE  /\ g[n] \in Seq(Values)
           /\ \A q \in 1 .. Len(g[n]) : \E j \in 1 .. n : items[j] \in chosen /\ g[n][q] = items[j].msg
<1> DEFINE Good(k) == /\ g[k] \in Seq(Values)
                      /\ \A q \in 1 .. Len(g[k]) :
                            \E j \in 1 .. k : items[j] \in chosen /\ g[k][q] = items[j].msg
           G == {k \in 0 .. Len(items) : Good(k)}
<1>0. Len(items) \in Nat
  OBVIOUS
<1>1. 0 \in G
  <2>1. g[0] = <<>>
    BY <1>0, UpToValue
  <2>2. <<>> \in Seq(Values) /\ 1 .. Len(<<>>) = {}
    OBVIOUS
  <2>3. Good(0)
    BY <2>1, <2>2
  <2> QED BY <1>0, <2>3
<1>2. ASSUME NEW k \in 1 .. Len(items), k - 1 \in G
      PROVE  k \in G
  <2>1. /\ g[k - 1] \in Seq(Values) /\ \A j \in 1 .. k - 1 : j \in 1 .. k
        /\ \A q \in 1 .. Len(g[k - 1]) :
              \E j \in 1 .. k - 1 : items[j] \in chosen /\ g[k - 1][q] = items[j].msg
    BY <1>2
  <2>2. CASE items[k] \notin chosen
    <3>1. g[k] = g[k - 1]
      BY <1>0, <2>2, UpToValue
    <3>2. Good(k)
      BY <2>1, <3>1
    <3> QED BY <3>2
  <2>3. CASE items[k] \in chosen
    <3>1. g[k] = Append(g[k - 1], items[k].msg)
      <4>1. g[k] = IF items[k] \in chosen THEN Append(g[k - 1], items[k].msg) ELSE g[k - 1]
        BY <1>0, UpToValue
      <4> QED BY <2>3, <4>1
    <3>2. items[k].msg \in Values
      <4>1. items[k] \in Piece
        BY <1>2, ElementOfSeq
      <4> QED BY <4>1 DEF Piece, Values
    <3>3. /\ g[k] \in Seq(Values) /\ Len(g[k]) = Len(g[k - 1]) + 1 /\ Len(g[k - 1]) \in Nat
          /\ \A q \in 1 .. Len(g[k - 1]) : g[k][q] = g[k - 1][q]
          /\ g[k][Len(g[k - 1]) + 1] = items[k].msg
      BY <2>1, <3>1, <3>2, AppendProperties
    <3>4. ASSUME NEW q \in 1 .. Len(g[k])
          PROVE  \E j \in 1 .. k : items[j] \in chosen /\ g[k][q] = items[j].msg
      <4>1. CASE q \in 1 .. Len(g[k - 1])
        BY <2>1, <3>3, <4>1
      <4>2. CASE q = Len(g[k - 1]) + 1
        BY <2>3, <3>3, <4>2
      <4> QED BY <3>3, <4>1, <4>2
    <3>5. Good(k)
      BY <3>3, <3>4
    <3> QED BY <3>5
  <2> QED BY <2>2, <2>3
<1>3. n \in G
  <2> HIDE DEF G
  <2>1. 0 .. Len(items) \subseteq G
    BY <1>0, <1>1, <1>2, IntervalInduction
  <2> QED BY <2>1
<1> QED BY <1>3

LEMMA MsgsOfElements ==
    ASSUME NEW items \in Seq(Piece), NEW chosen
    PROVE  /\ MsgsOf(items, chosen) \in Seq(Values)
           /\ \A q \in 1 .. Len(MsgsOf(items, chosen)) :
                 \E j \in 1 .. Len(items) :
                    items[j] \in chosen /\ MsgsOf(items, chosen)[q] = items[j].msg
<1>1. PICK g : IsUpTo(g, items, chosen, Len(items)) /\ MsgsOf(items, chosen) = g[Len(items)]
  BY MsgsOfIs
<1>2. Len(items) \in 0 .. Len(items)
  OBVIOUS
<1> QED BY <1>1, <1>2, UpToElements

\* Lists that are chosen from alike have the same messages so far.
LEMMA UpToSame ==
    ASSUME NEW n \in Nat, NEW p \in Nat, n <= p, NEW items, NEW others, NEW chosen, NEW g, NEW h,
           IsUpTo(g, items, chosen, n), IsUpTo(h, others, chosen, p),
           \A k \in 1 .. n : /\ items[k] \in chosen <=> others[k] \in chosen
                             /\ items[k].msg = others[k].msg
    PROVE  g[n] = h[n]
<1> DEFINE G == {k \in 0 .. n : g[k] = h[k]}
<1>1. 0 \in G
  <2>1. g[0] = <<>> /\ h[0] = <<>>
    BY UpToValue
  <2> QED BY <2>1
<1>2. ASSUME NEW k \in 1 .. n, k - 1 \in G
      PROVE  k \in G
  <2>1. k \in 1 .. p
    OBVIOUS
  <2>2. /\ g[k] = IF items[k] \in chosen THEN Append(g[k - 1], items[k].msg) ELSE g[k - 1]
        /\ h[k] = IF others[k] \in chosen THEN Append(h[k - 1], others[k].msg) ELSE h[k - 1]
    BY <2>1, UpToValue
  <2>3. g[k - 1] = h[k - 1]
    BY <1>2
  <2> QED BY <2>2, <2>3
<1>3. n \in G
  <2> HIDE DEF G
  <2>1. 0 .. n \subseteq G
    BY <1>1, <1>2, IntervalInduction
  <2> QED BY <2>1
<1> QED BY <1>3

LEMMA MsgsOfSame ==
    ASSUME NEW items \in Seq(Piece), NEW others \in Seq(Piece), NEW chosen, Len(items) = Len(others),
           \A k \in 1 .. Len(items) : /\ items[k] \in chosen <=> others[k] \in chosen
                                      /\ items[k].msg = others[k].msg
    PROVE  MsgsOf(items, chosen) = MsgsOf(others, chosen)
<1>1. PICK g : IsUpTo(g, items, chosen, Len(items)) /\ MsgsOf(items, chosen) = g[Len(items)]
  BY MsgsOfIs
<1>2. PICK h : IsUpTo(h, others, chosen, Len(others)) /\ MsgsOf(others, chosen) = h[Len(others)]
  BY MsgsOfIs
<1> DEFINE n == Len(items)
<1>3. n \in Nat /\ n <= n /\ n = Len(others)
  OBVIOUS
<1>4. g[n] = h[n]
  <2>1. IsUpTo(g, items, chosen, n) /\ IsUpTo(h, others, chosen, n)
    BY <1>1, <1>2, <1>3
  <2>2. \A k \in 1 .. n : (items[k] \in chosen <=> others[k] \in chosen) /\ items[k].msg = others[k].msg
    OBVIOUS
  <2> HIDE DEF n
  <2> QED BY <1>3, <2>1, <2>2, UpToSame, SMTT(30)
<1> QED BY <1>1, <1>2, <1>3, <1>4

LEMMA MsgsOfEmpty ==
    ASSUME NEW chosen
    PROVE  MsgsOf(<<>>, chosen) = <<>>
<1>1. <<>> \in Seq(Piece) /\ Len(<<>>) = 0
  OBVIOUS
<1>2. PICK g : IsUpTo(g, <<>>, chosen, 0) /\ MsgsOf(<<>>, chosen) = g[0]
  BY <1>1, MsgsOfIs
<1> QED BY <1>2, UpToValue

LEMMA MsgsOfAppend ==
    ASSUME NEW items \in Seq(Piece), NEW chosen, NEW last \in Piece
    PROVE  MsgsOf(Append(items, last), chosen) =
              IF last \in chosen THEN Append(MsgsOf(items, chosen), last.msg)
                                 ELSE MsgsOf(items, chosen)
<1> DEFINE more == Append(items, last)
           len  == Len(items)
<1>1. /\ more \in Seq(Piece) /\ Len(more) = len + 1 /\ len \in Nat
      /\ \A k \in 1 .. len : more[k] = items[k]
      /\ more[len + 1] = last
  BY AppendProperties
<1>2. PICK g : IsUpTo(g, items, chosen, len) /\ MsgsOf(items, chosen) = g[len]
  BY MsgsOfIs
<1> HIDE DEF more
<1>3. PICK h : IsUpTo(h, more, chosen, len + 1) /\ MsgsOf(more, chosen) = h[len + 1]
  BY <1>1, MsgsOfIs
<1>4. g[len] = h[len]
  <2>1. len <= len + 1 /\ len + 1 \in Nat
    BY <1>1
  <2> QED BY <1>1, <1>2, <1>3, <2>1, UpToSame
<1>5. h[len + 1] = IF last \in chosen THEN Append(h[len], last.msg) ELSE h[len]
  <2>1. len + 1 \in 1 .. len + 1 /\ len + 1 \in Nat /\ len + 1 - 1 = len
    BY <1>1
  <2>2. h[len + 1] = IF more[len + 1] \in chosen THEN Append(h[len + 1 - 1], more[len + 1].msg)
                                                 ELSE h[len + 1 - 1]
    BY <1>3, <2>1, UpToValue, SMTT(30)
  <2> QED BY <1>1, <2>1, <2>2
<1>6. MsgsOf(more, chosen) = IF last \in chosen THEN Append(MsgsOf(items, chosen), last.msg)
                                                ELSE MsgsOf(items, chosen)
  BY <1>2, <1>3, <1>4, <1>5
<1> QED BY <1>6 DEF more


\* Appending to the second of two lists appends to both.
LEMMA ConcatAppend ==
    ASSUME NEW S, NEW a \in Seq(S), NEW b \in Seq(S), NEW v \in S
    PROVE  a \o Append(b, v) = Append(a \o b, v)
<1> DEFINE w == <<v>>
<1>1. w \in Seq(S) /\ a \o b \in Seq(S)
  BY ConcatProperties
<1>2. Append(b, v) = b \o w /\ Append(a \o b, v) = (a \o b) \o w
  BY <1>1, AppendIsConcat
<1> HIDE DEF w
<1>3. (a \o b) \o w = a \o (b \o w)
  BY <1>1, ConcatAssociative, SMTT(30)
<1> QED BY <1>2, <1>3

\* The messages of a list in two parts.
LEMMA MsgsOfConcat ==
    ASSUME NEW a \in Seq(Piece), NEW b \in Seq(Piece), NEW chosen
    PROVE  MsgsOf(a \o b, chosen) = MsgsOf(a, chosen) \o MsgsOf(b, chosen)
<1> DEFINE pre(k) == SubSeq(b, 1, k)
           G == {k \in 0 .. Len(b) :
                    MsgsOf(a \o pre(k), chosen) = MsgsOf(a, chosen) \o MsgsOf(pre(k), chosen)}
<1>0. Len(b) \in Nat /\ MsgsOf(a, chosen) \in Seq(Values)
  BY MsgsOfElements
<1>1. 0 \in G
  <2>1. pre(0) = <<>>
    BY SubSeqEmpty
  <2>2. a \o <<>> = a /\ MsgsOf(a, chosen) \o <<>> = MsgsOf(a, chosen)
    BY <1>0, ConcatEmptySeq
  <2>3. MsgsOf(a \o pre(0), chosen) = MsgsOf(a, chosen) \o MsgsOf(pre(0), chosen)
    BY <2>1, <2>2, MsgsOfEmpty, Zenon
  <2> QED BY <1>0, <2>3
<1>2. ASSUME NEW k \in 1 .. Len(b), k - 1 \in G
      PROVE  k \in G
  <2> DEFINE p == pre(k - 1)
             e == b[k]
  <2>1. p \in Seq(Piece) /\ e \in Piece
    <3>1. \A i \in 1 .. Len(b) : b[i] \in Piece
      BY ElementOfSeq
    <3>2. \A i \in 1 .. k - 1 : b[i] \in Piece
      BY <3>1
    <3>3. p \in Seq(Piece)
      BY <1>0, <3>2, SubSeqProperties
    <3> QED BY <3>1, <3>3
  <2>2. pre(k) = Append(p, e)
    <3>1. pre(k) = p \o <<e>>
      <4>1. 1 \in 1 .. Len(b) /\ k \in 1 .. Len(b)
        BY <1>0
      <4> QED BY <4>1, SubSeqRecursiveSecond
    <3> HIDE DEF pre, p, e
    <3> QED BY <2>1, <3>1, AppendIsConcat
  <2>3. MsgsOf(a \o p, chosen) = MsgsOf(a, chosen) \o MsgsOf(p, chosen)
    BY <1>2
  <2> HIDE DEF p, e
  <2>4. a \o Append(p, e) = Append(a \o p, e) /\ a \o p \in Seq(Piece)
    BY <2>1, ConcatAppend, ConcatProperties
  <2> DEFINE x == MsgsOf(a, chosen)
             y == MsgsOf(p, chosen)
  <2>5. x \in Seq(Values) /\ y \in Seq(Values) /\ e.msg \in Values
    <3>1. e.msg \in Values
      BY <2>1 DEF Piece, Values
    <3> QED BY <1>0, <2>1, <3>1, MsgsOfElements
  <2>6. x \o Append(y, e.msg) = Append(x \o y, e.msg)
    <3> HIDE DEF x, y
    <3> QED BY <2>5, ConcatAppend
  <2>7. MsgsOf(Append(a \o p, e), chosen) = IF e \in chosen THEN Append(MsgsOf(a \o p, chosen), e.msg)
                                                            ELSE MsgsOf(a \o p, chosen)
    BY <2>1, <2>4, MsgsOfAppend
  <2>8. MsgsOf(Append(p, e), chosen) = IF e \in chosen THEN Append(y, e.msg) ELSE y
    BY <2>1, MsgsOfAppend
  <2>9. MsgsOf(a \o Append(p, e), chosen) = x \o MsgsOf(Append(p, e), chosen)
    <3> HIDE DEF x, y
    <3>1. MsgsOf(a \o p, chosen) = x \o y
      BY <2>3 DEF x, y
    <3> QED BY <2>4, <2>6, <2>7, <2>8, <3>1
  <2>10. MsgsOf(a \o pre(k), chosen) = MsgsOf(a, chosen) \o MsgsOf(pre(k), chosen)
    <3> HIDE DEF pre
    <3> QED BY <2>2, <2>9
  <2> QED BY <1>0, <2>10
<1>3. Len(b) \in G
  <2> HIDE DEF G
  <2>1. 0 .. Len(b) \subseteq G
    BY <1>0, <1>1, <1>2, IntervalInduction
  <2> QED BY <1>0, <2>1
<1>4. pre(Len(b)) = b
  BY SubSeqFull
<1>5. MsgsOf(a \o pre(Len(b)), chosen) = MsgsOf(a, chosen) \o MsgsOf(pre(Len(b)), chosen)
  BY <1>3
<1> HIDE DEF pre
<1> QED BY <1>4, <1>5

\* An element that is removed takes its message away, if it was chosen; the
\* messages before it are those of elements before it.
LEMMA MsgsOfRemove ==
    ASSUME NEW items \in Seq(Piece), NEW chosen, NEW i \in 1 .. Len(items)
    PROVE  /\ items[i] \notin chosen => MsgsOf(RemoveAt(items, i), chosen) = MsgsOf(items, chosen)
           /\ items[i] \in chosen =>
                 \E p \in 1 .. Len(MsgsOf(items, chosen)) :
                    /\ MsgsOf(items, chosen)[p] = items[i].msg
                    /\ MsgsOf(RemoveAt(items, i), chosen) = RemoveAt(MsgsOf(items, chosen), p)
                    /\ \A q \in 1 .. p - 1 : \E j \in 1 .. i - 1 :
                          items[j] \in chosen /\ MsgsOf(items, chosen)[q] = items[j].msg
<1> DEFINE before == SubSeq(items, 1, i - 1)
           after  == SubSeq(items, i + 1, Len(items))
           upTo   == SubSeq(items, 1, i)
           e      == items[i]
<1>0. Len(items) \in Nat /\ \A k \in 1 .. Len(items) : items[k] \in Piece
  BY ElementOfSeq
<1>1. /\ before \in Seq(Piece) /\ Len(before) = i - 1
      /\ \A k \in 1 .. i - 1 : before[k] = items[k]
  <2>1. \A k \in 1 .. i - 1 : items[k] \in Piece /\ 1 + k - 1 = k
    BY <1>0
  <2>2. /\ before \in Seq(Piece) /\ Len(before) = IF 1 <= i - 1 THEN i - 1 - 1 + 1 ELSE 0
        /\ \A k \in 1 .. i - 1 - 1 + 1 : before[k] = items[1 + k - 1]
    BY <2>1, SubSeqProperties
  <2> QED BY <2>1, <2>2
<1>2. after \in Seq(Piece) /\ e \in Piece /\ e.msg \in Values
  <2>1. \A k \in i + 1 .. Len(items) : items[k] \in Piece
    BY <1>0
  <2>2. after \in Seq(Piece)
    BY <1>0, <2>1, SubSeqProperties
  <2> QED BY <1>0, <2>2 DEF Piece, Values
<1>3. RemoveAt(items, i) = before \o after
  BY DEF RemoveAt
<1>4. items = Append(before, e) \o after /\ Append(before, e) \in Seq(Piece)
  <2>1. SubSeq(items, 1, i) \o SubSeq(items, i + 1, Len(items)) = SubSeq(items, 1, Len(items))
    <3>1. 1 \in 1 .. Len(items) + 1 /\ i \in 1 - 1 .. Len(items) /\ Len(items) \in i .. Len(items)
      BY <1>0
    <3> QED BY <3>1, ConcatAdjacentSubSeq
  <2>2. SubSeq(items, 1, Len(items)) = items
    BY SubSeqFull
  <2>3. SubSeq(items, 1, i) = before \o <<e>>
    <3>1. 1 \in 1 .. Len(items) /\ i \in 1 .. Len(items)
      BY <1>0
    <3> QED BY <3>1, SubSeqRecursiveSecond
  <2>4. before \o <<e>> = Append(before, e) /\ Append(before, e) \in Seq(Piece)
    <3> HIDE DEF before, e
    <3> QED BY <1>1, <1>2, AppendIsConcat, AppendProperties
  <2> HIDE DEF before, e
  <2> QED BY <2>1, <2>2, <2>3, <2>4
<1> HIDE DEF before, after, e
<1> DEFINE x == MsgsOf(before, chosen)
           y == MsgsOf(after, chosen)
<1>5. x \in Seq(Values) /\ y \in Seq(Values)
  BY <1>1, <1>2, MsgsOfElements
<1>6. MsgsOf(RemoveAt(items, i), chosen) = x \o y
  BY <1>1, <1>2, <1>3, MsgsOfConcat, SMTT(30)
<1>7. MsgsOf(items, chosen) = MsgsOf(Append(before, e), chosen) \o y
  <2> DEFINE w == Append(before, e)
  <2>1. w \in Seq(Piece) /\ items = w \o after
    BY <1>4
  <2> HIDE DEF w
  <2>2. MsgsOf(w \o after, chosen) = MsgsOf(w, chosen) \o MsgsOf(after, chosen)
    BY <1>2, <2>1, MsgsOfConcat
  <2>3. MsgsOf(items, chosen) = MsgsOf(w, chosen) \o MsgsOf(after, chosen)
    BY <2>1, <2>2
  <2> QED BY <2>3 DEF w
<1>8. CASE e \notin chosen
  <2>1. MsgsOf(Append(before, e), chosen) = x
    BY <1>1, <1>2, <1>8, MsgsOfAppend
  <2> QED BY <1>6, <1>7, <1>8, <2>1 DEF e
<1>9. CASE e \in chosen
  <2>1. MsgsOf(Append(before, e), chosen) = Append(x, e.msg)
    BY <1>1, <1>2, <1>9, MsgsOfAppend
  <2> DEFINE z == Append(x, e.msg) \o y
             p == Len(x) + 1
             v == e.msg
  <2>2. MsgsOf(items, chosen) = z
    BY <1>7, <2>1
  <2>3. \A q \in 1 .. Len(x) : \E j \in 1 .. i - 1 : items[j] \in chosen /\ x[q] = items[j].msg
    BY <1>1, MsgsOfElements
  <2> HIDE DEF x, y
  <2>4. /\ Len(x) \in Nat /\ Len(y) \in Nat /\ Append(x, v) \in Seq(Values)
        /\ Len(Append(x, v)) = p /\ \A q \in 1 .. Len(x) : Append(x, v)[q] = x[q]
        /\ Append(x, v)[p] = v
    BY <1>2, <1>5, AppendProperties
  <2>5. /\ z \in Seq(Values) /\ Len(z) = p + Len(y)
        /\ \A q \in 1 .. p + Len(y) : z[q] = IF q <= p THEN Append(x, v)[q] ELSE y[q - p]
    BY <1>5, <2>4, ConcatProperties
  <2> HIDE DEF z, v
  <2>6. p \in 1 .. Len(z) /\ z[p] = v
    BY <2>4, <2>5
  <2>7. \A q \in 1 .. p - 1 : q \in 1 .. Len(x) /\ z[q] = x[q]
    BY <2>4, <2>5
  <2>8. RemoveAt(z, p) = x \o y
    <3>1. /\ RemoveAt(z, p) \in Seq(Values) /\ Len(RemoveAt(z, p)) = Len(z) - 1
          /\ \A q \in 1 .. Len(z) - 1 : RemoveAt(z, p)[q] = IF q < p THEN z[q] ELSE z[q + 1]
      BY <2>5, <2>6, RemoveAtIs
    <3>2. /\ x \o y \in Seq(Values) /\ Len(x \o y) = Len(x) + Len(y)
          /\ \A q \in 1 .. Len(x) + Len(y) : (x \o y)[q] = IF q <= Len(x) THEN x[q] ELSE y[q - Len(x)]
      BY <1>5, ConcatProperties
    <3>3. Len(z) - 1 = Len(x) + Len(y)
      BY <2>4, <2>5
    <3>4. ASSUME NEW q \in 1 .. Len(x) + Len(y)
          PROVE  RemoveAt(z, p)[q] = (x \o y)[q]
      <4>1. CASE q <= Len(x)
        BY <2>4, <2>7, <3>1, <3>2, <3>3, <4>1, SMTT(30)
      <4>2. CASE ~(q <= Len(x))
        <5>1. q + 1 \in 1 .. p + Len(y) /\ ~(q + 1 <= p) /\ q + 1 - p = q - Len(x) /\ ~(q < p)
          BY <2>4, <4>2
        <5>2. z[q + 1] = y[q - Len(x)]
          BY <2>5, <5>1
        <5> QED BY <3>1, <3>2, <3>3, <4>2, <5>1, <5>2
      <4> QED BY <4>1, <4>2
    <3> QED BY <3>1, <3>2, <3>3, <3>4, SeqEqual
  <2>9. \A q \in 1 .. p - 1 : \E j \in 1 .. i - 1 : items[j] \in chosen /\ z[q] = items[j].msg
    BY <2>3, <2>7
  <2> HIDE DEF p
  <2> DEFINE u == MsgsOf(items, chosen)
             t == MsgsOf(RemoveAt(items, i), chosen)
  <2>10. u = z /\ t = RemoveAt(z, p) /\ v = items[i].msg
    BY <1>6, <2>2, <2>8 DEF e, v, x, y
  <2> HIDE DEF u, t
  <2>11. /\ p \in 1 .. Len(u) /\ u[p] = items[i].msg /\ t = RemoveAt(u, p)
         /\ \A q \in 1 .. p - 1 : \E j \in 1 .. i - 1 : items[j] \in chosen /\ u[q] = items[j].msg
    BY <2>6, <2>9, <2>10
  <2>12. \E o \in 1 .. Len(u) :
            /\ u[o] = items[i].msg /\ t = RemoveAt(u, o)
            /\ \A q \in 1 .. o - 1 : \E j \in 1 .. i - 1 : items[j] \in chosen /\ u[q] = items[j].msg
    BY <2>11, Zenon
  <2> QED BY <1>9, <2>12 DEF e, u, t
<1> QED BY <1>8, <1>9 DEF e

LEMMA MsgsOfTakes ==
    ASSUME NEW items \in Seq(Piece), NEW chosen, NEW i \in 1 .. Len(items), items[i] \in chosen
    PROVE  \E p \in 1 .. Len(MsgsOf(items, chosen)) :
              /\ MsgsOf(items, chosen)[p] = items[i].msg
              /\ MsgsOf(RemoveAt(items, i), chosen) = RemoveAt(MsgsOf(items, chosen), p)
              /\ \A q \in 1 .. p - 1 : \E j \in 1 .. i - 1 :
                    items[j] \in chosen /\ MsgsOf(items, chosen)[q] = items[j].msg
<1> QED BY MsgsOfRemove

-----------------------------------------------------------------------------
(* The sequencer as a channel.                                              *)

\* The items of connection c in the list, and the last steps of messages.
Mine(c) == [msg : {m \in Msgs : ConnOf[m] = c}, step : Nat]
Lasts   == {[msg |-> m, step |-> Steps[m] - 1] : m \in Msgs}
Gone(c) == {m \in Msgs : ConnOf[m] = c /\ sender[m] = "released" /\ ~Complete(m)}

LEMMA ItemsArePieces ==
    ASSUME NEW items \in Seq([msg : Msgs, step : Nat])
    PROVE  /\ items \in Seq(Piece)
           /\ \A k \in 1 .. Len(items), c \in Conns : items[k] \in Mine(c) <=> ConnOf[items[k].msg] = c
<1> DEFINE Items == [msg : Msgs, step : Nat]
<1>1. Items \subseteq Piece
  BY DEF Piece
<1>2. \A item \in Items, c \in Conns : item \in Mine(c) <=> ConnOf[item.msg] = c
  BY DEF Mine
<1>3. \A S, T : \A s \in Seq(S) : S \subseteq T => s \in Seq(T)
  OBVIOUS
<1>4. items \in Seq(Items)
  OBVIOUS
<1> HIDE DEF Items
<1>5. \A k \in 1 .. Len(items) : items[k] \in Items
  BY <1>4, ElementOfSeq
<1> QED BY <1>1, <1>2, <1>3, <1>4, <1>5

\* Lists with the same messages are the same queues.
LEMMA QueuesStill ==
    ASSUME TypeOK, TypeOK', Len(pending_messages') = Len(pending_messages),
           \A k \in 1 .. Len(pending_messages) : pending_messages'[k].msg = pending_messages[k].msg
    PROVE  \A c \in Conns : MsgsPending(c)' = MsgsPending(c)
<1> TAKE c \in Conns
<1>1. /\ pending_messages \in Seq(Piece) /\ pending_messages' \in Seq(Piece)
      /\ \A k \in 1 .. Len(pending_messages) :
            pending_messages[k] \in Mine(c) <=> ConnOf[pending_messages[k].msg] = c
      /\ \A k \in 1 .. Len(pending_messages) :
            pending_messages'[k] \in Mine(c) <=> ConnOf[pending_messages'[k].msg] = c
  <2>1. /\ pending_messages \in Seq([msg : Msgs, step : Nat])
        /\ pending_messages' \in Seq([msg : Msgs, step : Nat])
    BY DEF TypeOK
  <2> QED BY <2>1, ItemsArePieces
<1>2. MsgsOf(pending_messages', Mine(c)) = MsgsOf(pending_messages, Mine(c))
  <2>1. \A k \in 1 .. Len(pending_messages') :
           /\ pending_messages'[k] \in Mine(c) <=> pending_messages[k] \in Mine(c)
           /\ pending_messages'[k].msg = pending_messages[k].msg
    BY <1>1
  <2> QED BY <1>1, <2>1, MsgsOfSame
<1> QED BY <1>2 DEF MsgsPending, Mine

LEMMA QueueGrows ==
    ASSUME TypeOK, NEW m \in Msgs, QueueAppend(m)
    PROVE  \A c \in Conns : MsgsPending(c)' = IF c = ConnOf[m] THEN Append(MsgsPending(c), m)
                                                              ELSE MsgsPending(c)
<1> TAKE c \in Conns
<1> DEFINE item == [msg |-> m, step |-> 0]
<1>1. item \in Piece /\ item.msg = m /\ (item \in Mine(c) <=> c = ConnOf[m])
  BY DEF Piece, Mine
<1>2. pending_messages' = Append(pending_messages, item) /\ pending_messages \in Seq(Piece)
  BY ListTyped, ItemsArePieces DEF QueueAppend, Appended
<1> HIDE DEF item
<1>3. MsgsOf(pending_messages', Mine(c)) =
         IF item \in Mine(c) THEN Append(MsgsOf(pending_messages, Mine(c)), item.msg)
                             ELSE MsgsOf(pending_messages, Mine(c))
  BY <1>1, <1>2, MsgsOfAppend
<1> QED BY <1>1, <1>3 DEF MsgsPending, Mine

\* The message at the cursor leaves its queue, where only long messages are
\* before it: those have been written in part in this pass.
LEMMA QueueShrinks ==
    ASSUME WireInv, AtCursor, ReleaseMessage, NEW o, o = ItemConn
    PROVE  /\ \A c \in Conns \ {o} : MsgsPending(c)' = MsgsPending(c)
           /\ \E p \in 1 .. Len(MsgsPending(o)) :
                 /\ MsgsPending(o)[p] = Item.msg
                 /\ MsgsPending(o)' = RemoveAt(MsgsPending(o), p)
                 /\ \A q \in 1 .. p - 1 : MsgsPending(o)[q] \in {m \in Msgs : Steps[m] > 1}
<1>0. TypeOK /\ SequencerInv
  BY DEF WireInv, SequencerInv
<1>1. /\ pending_messages \in Seq(Piece) /\ cursor \in 1 .. Len(pending_messages)
      /\ pending_messages[cursor] = Item /\ ItemConn = ConnOf[Item.msg] /\ ItemConn \in Conns
      /\ pending_messages' = RemoveAt(pending_messages, cursor)
      /\ \A c \in Conns : Item \in Mine(c) <=> c = ItemConn
  BY <1>0, AtItem, ListTyped, ItemsArePieces DEF Item, ItemConn, ReleaseMessage
<1>2. ASSUME NEW c \in Conns \ {o}
      PROVE  MsgsPending(c)' = MsgsPending(c)
  <2>1. pending_messages[cursor] \notin Mine(c)
    BY <1>1
  <2>2. MsgsOf(RemoveAt(pending_messages, cursor), Mine(c)) = MsgsOf(pending_messages, Mine(c))
    BY <1>1, <2>1, MsgsOfRemove
  <2>3. MsgsOf(pending_messages', Mine(c)) = MsgsOf(pending_messages, Mine(c))
    BY <1>1, <2>2
  <2> QED BY <2>3 DEF MsgsPending, Mine
<1>3. ASSUME NEW j \in 1 .. cursor - 1
      PROVE  pending_messages[j].msg \in {m \in Msgs : Steps[m] > 1}
  <2>1. j \in 1 .. Len(pending_messages) /\ j < cursor
    BY <1>1
  <2>2. /\ pending_messages[j].step # 0
        /\ pending_messages[j].step < Steps[pending_messages[j].msg]
    BY <2>1 DEF WireInv, StepsLeft, AtCursor
  <2>3. pending_messages[j].step \in Nat /\ pending_messages[j].msg \in Msgs
    BY <1>0, <2>1, ListTyped
  <2>4. Steps[pending_messages[j].msg] \in Nat
    BY <2>3 DEF SequencerAssumption
  <2> QED BY <2>2, <2>3, <2>4
<1>4. \E p \in 1 .. Len(MsgsPending(o)) :
         /\ MsgsPending(o)[p] = Item.msg
         /\ MsgsPending(o)' = RemoveAt(MsgsPending(o), p)
         /\ \A q \in 1 .. p - 1 : MsgsPending(o)[q] \in {m \in Msgs : Steps[m] > 1}
  <2> DEFINE u == MsgsOf(pending_messages, Mine(o))
             t == MsgsOf(pending_messages', Mine(o))
  <2>1. PICK p \in 1 .. Len(u) :
           /\ u[p] = Item.msg /\ t = RemoveAt(u, p)
           /\ \A q \in 1 .. p - 1 : \E j \in 1 .. cursor - 1 :
                 pending_messages[j] \in Mine(o) /\ u[q] = pending_messages[j].msg
    <3>1. pending_messages[cursor] \in Mine(o)
      BY <1>1
    <3>2. \E p \in 1 .. Len(MsgsOf(pending_messages, Mine(o))) :
             /\ MsgsOf(pending_messages, Mine(o))[p] = pending_messages[cursor].msg
             /\ MsgsOf(RemoveAt(pending_messages, cursor), Mine(o))
                   = RemoveAt(MsgsOf(pending_messages, Mine(o)), p)
             /\ \A q \in 1 .. p - 1 : \E j \in 1 .. cursor - 1 :
                   /\ pending_messages[j] \in Mine(o)
                   /\ MsgsOf(pending_messages, Mine(o))[q] = pending_messages[j].msg
      <4> DEFINE ch == Mine(o)
      <4>1. /\ pending_messages \in Seq(Piece) /\ cursor \in 1 .. Len(pending_messages)
            /\ pending_messages[cursor] \in ch
        BY <1>1, <3>1
      <4> HIDE DEF ch
      <4>2. \E p \in 1 .. Len(MsgsOf(pending_messages, ch)) :
                  /\ MsgsOf(pending_messages, ch)[p] = pending_messages[cursor].msg
                  /\ MsgsOf(RemoveAt(pending_messages, cursor), ch)
                        = RemoveAt(MsgsOf(pending_messages, ch), p)
                  /\ \A q \in 1 .. p - 1 : \E j \in 1 .. cursor - 1 :
                        /\ pending_messages[j] \in ch
                        /\ MsgsOf(pending_messages, ch)[q] = pending_messages[j].msg
        BY <4>1, MsgsOfTakes
      <4> QED BY <4>1, <4>2 DEF ch
    <3>3. t = MsgsOf(RemoveAt(pending_messages, cursor), Mine(o))
      BY <1>1
    <3>4. pending_messages[cursor].msg = Item.msg
      BY <1>1
    <3> HIDE DEF t
    <3> QED BY <3>2, <3>3, <3>4, Zenon DEF u
  <2>2. u = MsgsPending(o) /\ t = MsgsPending(o)'
    BY DEF MsgsPending, Mine
  <2> HIDE DEF u, t
  <2>3. \A q \in 1 .. p - 1 : u[q] \in {m \in Msgs : Steps[m] > 1}
    BY <1>3, <2>1
  <2>4. /\ MsgsPending(o)[p] = Item.msg
        /\ MsgsPending(o)' = RemoveAt(MsgsPending(o), p)
        /\ \A q \in 1 .. p - 1 : MsgsPending(o)[q] \in {m \in Msgs : Steps[m] > 1}
        /\ p \in 1 .. Len(MsgsPending(o))
    BY <2>1, <2>2, <2>3
  <2> QED BY <2>4
<1> QED BY <1>2, <1>4

\* What a step puts on a wire, and what it makes of the messages delivered.
LEMMA WrittenStill ==
    ASSUME SequencerInv, UNCHANGED wire \/ \E c \in Conns : CloseSend(c)
    PROVE  \A c \in Conns : MsgsWritten(c)' = MsgsWritten(c)
<1> TAKE c \in Conns
<1>1. CASE wire'[c] = wire[c]
  BY <1>1 DEF MsgsWritten
<1>2. ASSUME NEW d \in Conns, CloseSend(d), d = c
      PROVE  MsgsWritten(c)' = MsgsWritten(c)
  <2> DEFINE item == [msg |-> DISCONNECT, step |-> 0]
  <2>1. item \in Piece /\ item \notin Lasts /\ wire[c] \in Seq(Piece)
    <3>1. \A last \in Lasts : last.msg \in Msgs
      BY DEF Lasts
    <3>2. item.msg = DISCONNECT /\ item \in Piece
      BY DEF Piece
    <3> QED BY <3>1, <3>2 DEF SequencerInv, TypeOK
  <2>2. wire'[c] = Append(wire[c], item)
    BY <1>2 DEF CloseSend, SequencerInv, TypeOK
  <2> HIDE DEF item
  <2>3. MsgsOf(wire'[c], Lasts) = MsgsOf(wire[c], Lasts)
    BY <2>1, <2>2, MsgsOfAppend
  <2> QED BY <2>3 DEF MsgsWritten, Lasts
<1>3. CASE wire'[c] # wire[c]
  <2>1. PICK d \in Conns : CloseSend(d)
    BY <1>3
  <2>2. d = c
    BY <1>3, <2>1 DEF CloseSend, SequencerInv, TypeOK
  <2> QED BY <1>2, <2>1, <2>2
<1> QED BY <1>1, <1>3

LEMMA WrittenGrows ==
    ASSUME SequencerInv, WriteStep, NEW o, o = ItemConn
    PROVE  /\ \A c \in Conns \ {o} : MsgsWritten(c)' = MsgsWritten(c)
           /\ MsgsWritten(o)' = IF Item.step + 1 = Steps[Item.msg] THEN Append(MsgsWritten(o), Item.msg)
                                                                   ELSE MsgsWritten(o)
<1>1. /\ AtCursor /\ o \in Conns
      /\ wire' = [wire EXCEPT ![o] = Append(wire[o], Item)] /\ wire \in [Conns -> Seq(Piece)]
  BY AtItem DEF WriteStep, SequencerInv, TypeOK
<1>2. Item \in [msg : Msgs, step : Nat] /\ Item.msg \in Msgs /\ Item.step \in Nat
  BY <1>1, AtItem
<1>3. Item \in Piece
  BY <1>2 DEF Piece
<1>4. Item \in Lasts <=> Item.step + 1 = Steps[Item.msg]
  <2>1. \A m \in Msgs : Steps[m] \in Nat
    BY DEF SequencerAssumption
  <2>2. \A m \in Msgs : Item = [msg |-> m, step |-> Steps[m] - 1]
                           <=> m = Item.msg /\ Item.step = Steps[m] - 1
    BY <1>2
  <2>3. Item \in Lasts <=> Item.step = Steps[Item.msg] - 1
    BY <1>2, <2>2 DEF Lasts
  <2> QED BY <1>2, <2>1, <2>3
<1>5. wire[o] \in Seq(Piece) /\ wire'[o] = Append(wire[o], Item)
  BY <1>1
<1>6. MsgsOf(wire'[o], Lasts) = IF Item \in Lasts THEN Append(MsgsOf(wire[o], Lasts), Item.msg)
                                                  ELSE MsgsOf(wire[o], Lasts)
  <2> DEFINE w == wire[o]
             it == Item
             ch == Lasts
  <2>1. w \in Seq(Piece) /\ it \in Piece /\ wire'[o] = Append(w, it)
    BY <1>3, <1>5
  <2> HIDE DEF w, it, ch
  <2>2. MsgsOf(Append(w, it), ch) = IF it \in ch THEN Append(MsgsOf(w, ch), it.msg) ELSE MsgsOf(w, ch)
    BY <2>1, MsgsOfAppend
  <2>3. MsgsOf(wire'[o], ch) = IF it \in ch THEN Append(MsgsOf(w, ch), it.msg) ELSE MsgsOf(w, ch)
    BY <2>1, <2>2
  <2> QED BY <2>3 DEF w, it, ch
<1>7. ASSUME NEW c \in Conns \ {o} PROVE MsgsWritten(c)' = MsgsWritten(c)
  <2>1. wire'[c] = wire[c]
    BY <1>1
  <2> QED BY <2>1 DEF MsgsWritten
<1>8. MsgsWritten(o)' = MsgsOf(wire'[o], Lasts) /\ MsgsWritten(o) = MsgsOf(wire[o], Lasts)
  BY DEF MsgsWritten, Lasts
<1> QED BY <1>4, <1>6, <1>7, <1>8

\* The messages lost are those released before, and the one that is released
\* without all its steps.
LEMMA LostStill ==
    ASSUME SequencerInv, UNCHANGED wire \/ \E c \in Conns : CloseSend(c),
           \A m \in Msgs : sender'[m] = "released" <=> sender[m] = "released"
    PROVE  \A c \in Conns : Gone(c)' = Gone(c)
<1>1. \A m \in Msgs, n \in Nat : OnWire(m, n)' <=> OnWire(m, n)
  BY OthersWriteNone
<1>2. ASSUME NEW m \in Msgs PROVE Complete(m)' <=> Complete(m)
  <2>1. \A n \in 0 .. Steps[m] - 1 : n \in Nat
    OBVIOUS
  <2> QED BY <1>1, <2>1, CompleteIs
<1> QED BY <1>2 DEF Gone

LEMMA LostKept ==
    ASSUME SequencerInv, WriteStep, KeepMessage
    PROVE  \A c \in Conns : Gone(c)' = Gone(c)
<1>1. AtCursor /\ sender' = sender
  BY DEF WriteStep, KeepMessage
<1>2. ASSUME NEW m \in Msgs, sender[m] = "released"
      PROVE  Complete(m)' <=> Complete(m)
  <2>1. m # Item.msg
    BY <1>1, <1>2, AtItem
  <2>2. \A n \in Nat : OnWire(m, n)' <=> OnWire(m, n)
    BY <2>1, WriteStepWrites
  <2>3. \A n \in 0 .. Steps[m] - 1 : n \in Nat
    OBVIOUS
  <2> QED BY <2>2, <2>3, CompleteIs
<1> QED BY <1>1, <1>2 DEF Gone

LEMMA LostGrows ==
    ASSUME WireInv, AtCursor, ReleaseMessage, NEW o, o = ItemConn,
           \A m \in Msgs \ {Item.msg}, n \in Nat : OnWire(m, n)' <=> OnWire(m, n)
    PROVE  /\ \A c \in Conns \ {o} : Gone(c)' = Gone(c)
           /\ \A i : i = Item.msg => Gone(o)' = IF Complete(i)' THEN Gone(o) ELSE Gone(o) \cup {i}
<1>0. SequencerInv
  BY DEF WireInv
<1>1. \E i : i = Item.msg /\ i \in Msgs /\ ConnOf[i] = o
  BY <1>0, AtItem
<1>2. PICK i : i = Item.msg /\ i \in Msgs /\ ConnOf[i] = o
  BY <1>1
<1>3. /\ \A m \in Msgs \ {i} : sender'[m] = sender[m]
      /\ sender[i] = "queued" /\ sender'[i] = "released"
  BY <1>0, <1>2, AtItem, ReleasedList
<1>4. ASSUME NEW m \in Msgs \ {i}
      PROVE  Complete(m)' <=> Complete(m)
  <2>1. \A n \in 0 .. Steps[m] - 1 : n \in Nat
    OBVIOUS
  <2> QED BY <1>2, <2>1, CompleteIs
<1>5. \A c \in Conns \ {o} : Gone(c)' = Gone(c)
  BY <1>2, <1>3, <1>4 DEF Gone
<1>6. Gone(o)' = IF Complete(i)' THEN Gone(o) ELSE Gone(o) \cup {i}
  BY <1>2, <1>3, <1>4 DEF Gone
<1> QED BY <1>2, <1>5, <1>6

\* A step that neither queues nor releases a message leaves the channels alone.
LEMMA ChannelStill ==
    ASSUME \A c \in Conns : /\ MsgsPending(c)' = MsgsPending(c)
                            /\ MsgsWritten(c)' = MsgsWritten(c)
                            /\ Gone(c)' = Gone(c)
    PROVE  UNCHANGED Channel!channelVars
  BY DEF Channel!channelVars, Gone

LEMMA AcceptMaps ==
    ASSUME WireInv, NEW m \in Msgs, QueueAppend(m)
    PROVE  Channel!ChannelNext
<1>0. TypeOK /\ SequencerInv /\ ConnOf[m] \in Conns
  BY DEF WireInv, SequencerInv, SequencerAssumption
<1>1. \A c \in Conns : MsgsPending(c)' = IF c = ConnOf[m] THEN Append(MsgsPending(c), m) ELSE MsgsPending(c)
  BY <1>0, QueueGrows
<1>2. \A c \in Conns : MsgsWritten(c)' = MsgsWritten(c) /\ Gone(c)' = Gone(c)
  <2>1. UNCHANGED wire /\ \A o \in Msgs : sender'[o] = "released" <=> sender[o] = "released"
    BY <1>0 DEF QueueAppend, Counted, writeVars, TypeOK
  <2> QED BY <1>0, <2>1, WrittenStill, LostStill
<1>3. Channel!Accept(m)
  BY <1>1, <1>2 DEF Channel!Accept, Gone
<1>4. [c \in Conns |-> MsgsPending(c)'] # [c \in Conns |-> MsgsPending(c)]
  <2> DEFINE q == MsgsPending(ConnOf[m])
  <2>1. q \in Seq(Values) /\ m \in Values
    <3>1. pending_messages \in Seq(Piece)
      BY <1>0, ListTyped, ItemsArePieces
    <3> QED BY <3>1, MsgsOfElements DEF MsgsPending, Values
  <2> HIDE DEF q
  <2>2. Append(q, m) # q
    BY <2>1, AppendProperties
  <2>3. \E c \in Conns : MsgsPending(c)' # MsgsPending(c)
    BY <1>0, <1>1, <2>2 DEF q
  <2> QED BY <2>3
<1> QED BY <1>3, <1>4 DEF Channel!ChannelNext

\* The message at the cursor is released: it was sent whole by the last step,
\* or it is lost and some step of it was never written.
LEMMA ReleaseMaps ==
    ASSUME WireInv, AtCursor, ReleaseMessage,
           UNCHANGED wire \/ (WriteStep /\ Item.step + 1 = Steps[Item.msg])
    PROVE  Channel!ChannelNext
<1>0. TypeOK /\ SequencerInv
  BY DEF WireInv, SequencerInv
<1> DEFINE Is(i, o) == i = Item.msg /\ o = ItemConn
<1>1. PICK i \in Msgs, o \in Conns : Is(i, o) /\ Steps[i] \in Nat
  BY <1>0, AtItem DEF SequencerAssumption
<1>2. \A c \in Conns \ {o} : MsgsPending(c)' = MsgsPending(c)
  BY <1>1, QueueShrinks
<1>3. PICK p \in 1 .. Len(MsgsPending(o)) :
         /\ MsgsPending(o)[p] = i
         /\ MsgsPending(o)' = RemoveAt(MsgsPending(o), p)
         /\ \A q \in 1 .. p - 1 : MsgsPending(o)[q] \in {m \in Msgs : Steps[m] > 1}
  BY <1>1, QueueShrinks
<1>4. \A m \in Msgs \ {Item.msg}, n \in Nat : OnWire(m, n)' <=> OnWire(m, n)
  BY <1>0, OthersWriteNone, WriteStepWrites
<1>5. /\ \A c \in Conns \ {o} : Gone(c)' = Gone(c)
      /\ Gone(o)' = IF Complete(i)' THEN Gone(o) ELSE Gone(o) \cup {i}
  BY <1>1, <1>4, LostGrows
<1>6. MsgsPending(o) \in Seq(Values)
  <2>1. pending_messages \in Seq(Piece)
    BY <1>0, ListTyped, ItemsArePieces
  <2> QED BY <2>1, MsgsOfElements DEF MsgsPending
<1>7. \A n \in Nat : OnWire(i, n) <=> n < Item.step
  BY <1>0, <1>1, AtItem DEF WireInv, WireSound, Item
<1>8. Item.step \in Nat /\ Item.step < Steps[i]
  BY <1>0, <1>1, AtItem DEF WireInv, StepsLeft, Item
<1>9. [c \in Conns |-> MsgsPending(c)'] # [c \in Conns |-> MsgsPending(c)]
  <2> DEFINE q == MsgsPending(o)
             r == MsgsPending(o)'
  <2>1. q \in Seq(Values) /\ p \in 1 .. Len(q) /\ r = RemoveAt(q, p)
    BY <1>3, <1>6
  <2> HIDE DEF q, r
  <2>2. Len(r) = Len(q) - 1 /\ Len(q) \in Nat
    BY <2>1, RemoveAtIs
  <2>3. r # q
    BY <2>2
  <2>4. \E c \in Conns : MsgsPending(c)' # MsgsPending(c)
    BY <2>3 DEF q, r
  <2> QED BY <2>4
<1>10. p \in Channel!Served(o)
  <2>1. p \in DOMAIN MsgsPending(o)
    BY <1>3, <1>6
  <2> QED BY <1>3, <2>1 DEF Channel!Served
<1>11. [c \in Conns |-> MsgsPending(c)']
          = [[c \in Conns |-> MsgsPending(c)] EXCEPT ![o] = RemoveAt(@, p)]
  BY <1>2, <1>3
<1>12. CASE WriteStep /\ Item.step + 1 = Steps[Item.msg]
  <2>1. \A n \in Nat : OnWire(i, n)' <=> n < Item.step \/ n = Item.step
    BY <1>0, <1>1, <1>7, <1>12, WriteStepWrites
  <2>2. \A n \in 0 .. Steps[i] - 1 : n \in Nat /\ (n < Item.step \/ n = Item.step)
    BY <1>1, <1>8, <1>12
  <2>3. Complete(i)'
    BY <2>1, <2>2, CompleteIs
  <2>4. \A c \in Conns : Gone(c)' = Gone(c)
    BY <1>5, <2>3
  <2>5. /\ \A c \in Conns \ {o} : MsgsWritten(c)' = MsgsWritten(c)
        /\ MsgsWritten(o)' = Append(MsgsWritten(o), i)
    BY <1>0, <1>1, <1>12, WrittenGrows
  <2>6. [c \in Conns |-> MsgsWritten(c)']
           = [[c \in Conns |-> MsgsWritten(c)] EXCEPT ![o] = Append(@, MsgsPending(o)[p])]
    BY <1>3, <2>5
  <2>7. Channel!Deliver(o)
    <3>1. \E q \in Channel!Served(o) :
             /\ [c \in Conns |-> MsgsPending(c)']
                   = [[c \in Conns |-> MsgsPending(c)] EXCEPT ![o] = RemoveAt(@, q)]
             /\ [c \in Conns |-> MsgsWritten(c)']
                   = [[c \in Conns |-> MsgsWritten(c)] EXCEPT
                        ![o] = Append(@, [c \in Conns |-> MsgsPending(c)][o][q])]
      BY <1>10, <1>11, <2>6
    <3>2. [c \in Conns |-> Gone(c)'] = [c \in Conns |-> Gone(c)]
      BY <2>4
    <3> QED BY <3>1, <3>2, Zenon DEF Channel!Deliver, Gone, RemoveAt, Channel!RemoveAt
  <2> QED BY <1>9, <2>7 DEF Channel!ChannelNext
<1>13. CASE UNCHANGED wire
  <2>1. ~Complete(i)'
    <3>1. PICK n \in Nat : n = Item.step
      BY <1>8
    <3>2. n \in 0 .. Steps[i] - 1 /\ ~OnWire(i, n)
      BY <1>1, <1>7, <1>8, <3>1
    <3>3. ~OnWire(i, n)'
      BY <1>0, <1>13, <3>2, OthersWriteNone
    <3> QED BY <3>2, <3>3, CompleteIs
  <2>2. \A c \in Conns : MsgsWritten(c)' = MsgsWritten(c)
    BY <1>0, <1>13, WrittenStill
  <2>3. [c \in Conns |-> Gone(c)']
           = [[c \in Conns |-> Gone(c)] EXCEPT ![o] = @ \cup {MsgsPending(o)[p]}]
    BY <1>3, <1>5, <2>1
  <2>4. Channel!Lose(o)
    <3>1. \E q \in Channel!Served(o) :
             /\ [c \in Conns |-> MsgsPending(c)']
                   = [[c \in Conns |-> MsgsPending(c)] EXCEPT ![o] = RemoveAt(@, q)]
             /\ [c \in Conns |-> Gone(c)']
                   = [[c \in Conns |-> Gone(c)] EXCEPT
                        ![o] = @ \cup {[c \in Conns |-> MsgsPending(c)][o][q]}]
      BY <1>10, <1>11, <2>3
    <3>2. [c \in Conns |-> MsgsWritten(c)'] = [c \in Conns |-> MsgsWritten(c)]
      BY <2>2
    <3> QED BY <3>1, <3>2, Zenon DEF Channel!Lose, Gone, RemoveAt, Channel!RemoveAt
  <2> QED BY <1>9, <2>4 DEF Channel!ChannelNext
<1> QED BY <1>12, <1>13

LEMMA ChannelInitially == Init => Channel!ChannelInit
<1> SUFFICES ASSUME Init
             PROVE  Channel!ChannelInit
  OBVIOUS
<1>1. \A c \in Conns : MsgsPending(c) = <<>> /\ MsgsWritten(c) = <<>>
  <2>1. pending_messages = <<>> /\ \A c \in Conns : wire[c] = <<>>
    BY DEF Init
  <2> QED BY <2>1, MsgsOfEmpty DEF MsgsPending, MsgsWritten
<1>2. \A c \in Conns : Gone(c) = {}
  BY DEF Init, Gone
<1> QED BY <1>1, <1>2 DEF Channel!ChannelInit, Gone

LEMMA ChannelStep ==
    ASSUME WireInv, WireInv', [Next]_vars
    PROVE  [Channel!ChannelNext]_Channel!channelVars
<1>0. TypeOK /\ SequencerInv /\ TypeOK'
  BY DEF WireInv, SequencerInv
<1>1. ASSUME UNCHANGED pending_messages, UNCHANGED wire \/ \E c \in Conns : CloseSend(c),
             \A m \in Msgs : sender'[m] = "released" <=> sender[m] = "released"
      PROVE  UNCHANGED Channel!channelVars
  <2>1. \A c \in Conns : MsgsPending(c)' = MsgsPending(c)
    BY <1>0, <1>1, QueuesStill
  <2>2. \A c \in Conns : MsgsWritten(c)' = MsgsWritten(c) /\ Gone(c)' = Gone(c)
    BY <1>0, <1>1, WrittenStill, LostStill
  <2> QED BY <2>1, <2>2, ChannelStill
<1>2. ASSUME NEW m \in Msgs, Caller(m)
      PROVE  Channel!ChannelNext \/ UNCHANGED Channel!channelVars
  <2>1. CASE QueueAppend(m)
    BY <2>1, AcceptMaps
  <2>2. CASE QueueRefused(m) \/ QueueRef(m) \/ QueueCount(m)
    <3>1. /\ UNCHANGED <<pending_messages, wire>>
          /\ \A o \in Msgs : sender'[o] = "released" <=> sender[o] = "released"
      BY <1>0, <2>2 DEF QueueRefused, QueueRef, QueueCount, threadVars, writeVars, TypeOK
    <3> QED BY <1>1, <3>1
  <2> QED BY <1>2, <2>1, <2>2 DEF Caller
<1>3. CASE Wake \/ End \/ NextPass \/ Exit \/ UNCHANGED vars
             \/ \E c \in Conns : CloseCall(c) \/ Closer(c) \/ ConnDown(c)
  <2>1. /\ UNCHANGED <<pending_messages, sender>>
        /\ UNCHANGED wire \/ \E c \in Conns : CloseSend(c)
    BY <1>3 DEF Wake, End, NextPass, Exit, CloseCall, Closer, CloseFlushed, CloseTimeout, CloseSend,
                CloseShutdown, CloseSkip, ConnDown, writeVars, threadVars, callerVars, vars
  <2> QED BY <1>1, <2>1
<1>4. CASE WriteStep
  <2>1. AtCursor
    BY <1>4 DEF WriteStep
  <2>2. CASE Item.step + 1 = Steps[Item.msg]
    <3>1. ReleaseMessage
      BY <1>4, <2>2 DEF WriteStep
    <3> QED BY <1>4, <2>1, <2>2, <3>1, ReleaseMaps
  <2>3. CASE Item.step + 1 # Steps[Item.msg]
    <3>1. KeepMessage
      BY <1>4, <2>3 DEF WriteStep
    <3>2. /\ Len(pending_messages') = Len(pending_messages)
          /\ \A k \in 1 .. Len(pending_messages) : pending_messages'[k].msg = pending_messages[k].msg
      BY <1>0, <2>1, <3>1, KeptList DEF Item
    <3>3. \A c \in Conns : MsgsPending(c)' = MsgsPending(c)
      BY <1>0, <3>2, QueuesStill
    <3>4. \A c \in Conns : MsgsWritten(c)' = MsgsWritten(c)
      BY <1>0, <1>4, <2>3, WrittenGrows
    <3> QED BY <1>0, <1>4, <3>1, <3>3, <3>4, LostKept, ChannelStill
  <2> QED BY <2>2, <2>3
<1>5. CASE WriteFails \/ WriteTorn \/ DropMessage
  <2>1. AtCursor /\ ReleaseMessage /\ UNCHANGED wire
    BY <1>5 DEF WriteFails, WriteTorn, DropMessage
  <2> QED BY <2>1, ReleaseMaps
<1> QED BY <1>2, <1>3, <1>4, <1>5 DEF Next, Thread

\* The sequencer implements an ordered channel for each connection, whatever
\* callers, closers and failing writes do: a message leaves the list once, sent
\* whole or lost, and only messages of more than one step are overtaken.
THEOREM SequencerImplementsChannel == Spec => ImplementsChannel
<1>1. WireInv /\ [Next]_vars => WireInv'
  BY WireStep
<1>2. WireInv /\ WireInv' /\ [Next]_vars => [Channel!ChannelNext]_Channel!channelVars
  BY ChannelStep
<1> QED BY <1>1, <1>2, WireInitially, ChannelInitially, PTL
        DEF Spec, ImplementsChannel, Channel!ChannelSpec
=============================================================================
