------------------------ MODULE SubscriptionsProofs ------------------------
(***************************************************************************)
(* Proofs about Subscriptions, for any set of connections, requests and    *)
(* publications: its types; that the publish gate keeps the tables static  *)
(* while a publication walks them; that the walk misses nobody; that       *)
(* references balance; and that a freed connection is in no table and under*)
(* no publication.                                                         *)
(***************************************************************************)
EXTENDS Subscriptions, FiniteSetTheorems, TLAPS

USE SubscriptionsAssumption

\* A reader that is not idle works for a connection.
LEMMA ReaderBusy ==
    ASSUME reader \in {Idle} \cup AtWork, reader.at # "idle"
    PROVE  /\ reader \in AtWork
           /\ reader.conn \in Conns
           /\ reader.todo \in SUBSET Filters
<1>1. reader \in AtWork
  BY DEF Idle
<1> QED BY <1>1 DEF AtWork

\* Moving on, with or without its cursor, leaves it in its type.
LEMMA ReaderMoves ==
    ASSUME reader \in {Idle} \cup AtWork, reader.at # "idle",
           NEW next \in ReaderSteps, NEW todo \in SUBSET Filters
    PROVE  /\ [reader EXCEPT !.at = next] \in AtWork
           /\ [reader EXCEPT !.todo = todo] \in AtWork
           /\ [reader EXCEPT !.at = next, !.todo = todo] \in AtWork
BY ReaderBusy DEF AtWork

\* The three steps over one of the connection's tables.
LEMMA CleanTableTypes ==
    ASSUME TypeOK, NEW at \in ReaderSteps, NEW gate \in ReaderSteps,
           NEW next \in ReaderSteps, NEW wild_card \in BOOLEAN,
           CleanTable(at, gate, next, wild_card)
    PROVE  TypeOK'
<1> DEFINE own == OwnFilters(reader.conn, wild_card)
<1>1. reader \in {Idle} \cup AtWork /\ reader.at # "idle"
  BY DEF TypeOK, CleanTable, ReaderSteps
<1>2. own \in SUBSET Filters
  BY <1>1, ReaderBusy DEF TypeOK, OwnFilters
<1>3. reader' \in AtWork
  BY <1>1, <1>2, ReaderMoves DEF CleanTable
<1> QED BY <1>3 DEF TypeOK, CleanTable, connVars, tableVars, pubVars

LEMMA CleanGateTypes ==
    ASSUME TypeOK, NEW gate \in ReaderSteps, NEW inside \in ReaderSteps,
           NEW wild_card \in BOOLEAN, CleanGate(gate, inside, wild_card)
    PROVE  TypeOK'
<1>1. reader \in {Idle} \cup AtWork /\ reader.at # "idle"
  BY DEF TypeOK, CleanGate, ReaderSteps
<1>2. PICK added \in SUBSET (OwnFilters(reader.conn, wild_card) \ reader.todo) :
          reader' = [reader EXCEPT !.at = inside,
                                   !.todo = (@ \cap conn_subs[reader.conn]) \cup added]
  BY DEF CleanGate
<1>3. (reader.todo \cap conn_subs[reader.conn]) \cup added \in SUBSET Filters
  BY <1>1, ReaderBusy DEF TypeOK, OwnFilters
<1>4. reader' \in AtWork
  BY <1>1, <1>2, <1>3, ReaderMoves
<1> QED BY <1>4 DEF TypeOK, CleanGate, connVars, tableVars, pubVars

LEMMA CleanEntryTypes ==
    ASSUME TypeOK, NEW inside \in ReaderSteps, NEW next \in ReaderSteps,
           CleanEntry(inside, next)
    PROVE  TypeOK'
<1>1. reader \in {Idle} \cup AtWork /\ reader.at # "idle"
  BY DEF TypeOK, CleanEntry, ReaderSteps
<1>2. reader' \in AtWork
  <2>1. CASE reader' = [reader EXCEPT !.at = next]
    BY <1>1, <2>1, ReaderMoves
  <2>2. ASSUME NEW f \in reader.todo, reader' = [reader EXCEPT !.todo = @ \ {f}]
        PROVE  reader' \in AtWork
    <3>1. reader.todo \ {f} \in SUBSET Filters
      BY <1>1, ReaderBusy
    <3> QED BY <1>1, <2>2, <3>1, ReaderMoves
  <2> QED BY <2>1, <2>2 DEF CleanEntry
<1>3. subs' \in [Filters -> SUBSET Conns] /\ subs_m' \in Tasks \cup {Reader, None}
  BY SMTT(30) DEF TypeOK, CleanEntry
<1> QED BY <1>2, <1>3 DEF TypeOK, CleanEntry, connVars, pubVars

\* A publication that begins, wherever the reader is then.
LEMMA StartTypes ==
    ASSUME TypeOK, NEW p \in Publishers, Start(p), reader' \in {Idle} \cup AtWork
    PROVE  TypeOK'
BY DEF TypeOK, Start, Lockable, PubSteps, connVars, tableVars

\* The steps of the reader while it cleans a connection up leave every variable
\* in its type.
LEMMA CleanTypes ==
    ASSUME TypeOK, CleanStep
    PROVE  TypeOK'
<1>1. CASE CleanSubs
  BY <1>1, CleanTableTypes, CleanGateTypes, CleanEntryTypes DEF CleanSubs, ReaderSteps
<1>2. CASE CleanWild
  BY <1>2, CleanTableTypes, CleanGateTypes, CleanEntryTypes DEF CleanWild, ReaderSteps
<1>3. CASE NoWill
  <2>1. reader.at # "idle" /\ reader' = [reader EXCEPT !.at = "unref"]
    BY <1>3 DEF NoWill
  <2>2. reader' \in AtWork
    BY <2>1, ReaderMoves DEF TypeOK, ReaderSteps
  <2> QED BY <1>3, <2>2 DEF NoWill, TypeOK, connVars, tableVars, pubVars
<1>4. CASE WillStart
  <2>1. reader.at # "idle" /\ reader' = [reader EXCEPT !.at = "publishing"]
    BY <1>4 DEF WillStart
  <2>2. reader' \in AtWork
    BY <2>1, ReaderMoves DEF TypeOK, ReaderSteps
  <2> QED BY <1>4, <2>1, <2>2, ReaderBusy, StartTypes DEF WillStart, TypeOK, Publishers
<1>5. CASE CleanUnref
  <2>1. reader.conn \in Conns
    BY <1>5, ReaderBusy DEF CleanUnref, Unref, TypeOK
  <2> QED BY <1>5, <2>1 DEF CleanUnref, Unref, TypeOK, tableVars, pubVars
<1> QED BY <1>1, <1>2, <1>3, <1>4, <1>5 DEF CleanStep

\* So do the steps of a publication.
LEMMA PublishTypes ==
    ASSUME TypeOK, NEW p \in Publishers, PubStep(p)
    PROVE  TypeOK'
<1> USE DEF TypeOK, PubSteps, Entries, tableVars, pubVars, connVars
<1>1. CASE Visit(p)
  BY <1>1 DEF Visit, Ahead
<1>2. CASE Deliver(p)
  <2>1. visiting[p] \in Entries /\ visiting[p][2] \in Conns
    BY <1>2 DEF Deliver
  <2>2. /\ \/ /\ pub' = [pub EXCEPT ![p] = "waiting"]
              /\ visiting' = [visiting EXCEPT ![p] = visiting[p]]
           \/ /\ pub' = [pub EXCEPT ![p] = "walking"]
              /\ visiting' = [visiting EXCEPT ![p] = None]
        /\ \/ delivered' = delivered
           \/ delivered' = [delivered EXCEPT ![p] = @ \cup {visiting[p][2]}]
    BY <1>2, Zenon DEF Deliver, StillUsed
  <2>3. delivered' \in [Publishers -> SUBSET Conns]
    <3>1. CASE delivered' = delivered
      BY <3>1
    <3>2. CASE delivered' = [delivered EXCEPT ![p] = @ \cup {visiting[p][2]}]
      BY <2>1, <3>2
    <3> QED BY <2>2, <3>1, <3>2
  <2>4. /\ pub' \in [Publishers -> PubSteps]
        /\ visiting' \in [Publishers -> Entries \cup {None}]
        /\ \A q \in Publishers : pub'[q] \in {"visiting", "waiting"} => visiting'[q] \in Entries
    <3>1. CASE /\ pub' = [pub EXCEPT ![p] = "waiting"]
               /\ visiting' = [visiting EXCEPT ![p] = visiting[p]]
      BY <2>1, <3>1
    <3>2. CASE /\ pub' = [pub EXCEPT ![p] = "walking"]
               /\ visiting' = [visiting EXCEPT ![p] = None]
      BY <3>2
    <3> QED BY <2>2, <3>1, <3>2
  <2> QED BY <1>2, <2>3, <2>4 DEF Deliver
<1>3. CASE Acknowledged(p) \/ GiveUp(p)
  BY <1>3, SMTT(30) DEF Acknowledged, GiveUp, WaitEnds
<1>4. CASE QueueOffline(p)
  BY <1>4 DEF QueueOffline
<1>5. CASE PubEnd(p)
  BY <1>5 DEF PubEnd, Lockable
<1> QED BY <1>1, <1>2, <1>3, <1>4, <1>5 DEF PubStep

\* And those of a request.
LEMMA TaskTypes ==
    ASSUME TypeOK, NEW t \in Tasks, TaskStart(t) \/ TaskStep(t)
    PROVE  TypeOK'
<1> USE DEF TypeOK, TaskSteps, tableVars, pubVars, connVars
<1>1. CASE TaskStart(t)
  BY <1>1 DEF TaskStart
<1>2. CASE TaskRefused(t)
  BY <1>2 DEF TaskRefused
<1>3. CASE ConnTable(t)
  BY <1>3 DEF ConnTable
<1>4. CASE TaskGate(t)
  BY <1>4 DEF TaskGate
<1>5. CASE ContextTable(t)
  BY <1>5 DEF ContextTable
<1>6. CASE TaskEnd(t)
  BY <1>6 DEF TaskEnd, Unref
<1> QED BY <1>1, <1>2, <1>3, <1>4, <1>5, <1>6 DEF TaskStep

\* Every variable keeps its type, whatever the connections, requests and
\* publications are.
THEOREM TypeCorrect == Spec => []TypeOK
<1>1. Init => TypeOK
  BY DEF Init, TypeOK, TaskSteps, PubSteps, Publishers
<1>2. TypeOK /\ [Next]_vars => TypeOK'
  <2> SUFFICES ASSUME TypeOK, [Next]_vars PROVE TypeOK'
    OBVIOUS
  <2>1. ASSUME NEW t \in Tasks, TaskStart(t) \/ TaskStep(t) PROVE TypeOK'
    BY <2>1, TaskTypes
  <2>2. ASSUME NEW c \in Conns, Disconnect(c) PROVE TypeOK'
    <3>1. reader' \in {Idle} \cup AtWork
      BY <2>2 DEF Disconnect, TypeOK, AtWork, ReaderSteps
    <3> QED BY <2>2, <3>1 DEF Disconnect, TypeOK, tableVars, pubVars
  <2>3. ASSUME NEW c \in Conns, Cleanup(c) PROVE TypeOK'
    BY <2>3 DEF Cleanup, TypeOK, AtWork, ReaderSteps, tableVars, pubVars
  <2>4. ASSUME NEW c \in Conns, ConnDown(c) PROVE TypeOK'
    BY <2>4 DEF ConnDown, TypeOK, tableVars, pubVars
  <2>5. CASE MoveGate
    <3>1. reader.at # "idle" /\ reader' = [reader EXCEPT !.at = "moving"]
      BY <2>5 DEF MoveGate
    <3>2. reader' \in AtWork
      BY <3>1, ReaderMoves DEF TypeOK, ReaderSteps
    <3> QED BY <2>5, <3>2 DEF MoveGate, TypeOK, tableVars, pubVars, connVars
  <2>6. CASE MoveOffline
    <3>1. reader.at # "idle" /\ reader.conn \in Conns
      BY <2>6, ReaderBusy DEF MoveOffline, TypeOK
    <3>2. PICK f \in reader.todo :
             /\ offline_subs' = [offline_subs EXCEPT ![f] = @ \cup {reader.conn}]
             /\ reader' = IF reader.todo = {f} THEN Idle
                          ELSE [reader EXCEPT !.at = "move", !.todo = @ \ {f}]
      BY <2>6 DEF MoveOffline
    <3>3. reader.todo \ {f} \in SUBSET Filters
      BY <3>1, ReaderBusy DEF TypeOK
    <3>4. reader' \in {Idle} \cup AtWork
      BY <3>1, <3>2, <3>3, ReaderMoves DEF TypeOK, ReaderSteps
    <3>5. offline_subs' \in [Filters -> SUBSET Conns]
      BY <3>1, <3>2, ZenonT(30) DEF TypeOK
    <3> QED BY <2>6, <3>4, <3>5 DEF MoveOffline, TypeOK, pubVars, connVars
  <2>7. CASE CleanStep
    BY <2>7, CleanTypes
  <2>8. ASSUME NEW p \in Pubs, PubStart(p) PROVE TypeOK'
    BY <2>8, StartTypes DEF PubStart, TypeOK, Publishers
  <2>9. ASSUME NEW p \in Publishers, PubStep(p) PROVE TypeOK'
    BY <2>9, PublishTypes
  <2>10. CASE UNCHANGED vars
    BY <2>10 DEF vars, TypeOK
  <2> QED
    BY <2>1, <2>2, <2>3, <2>4, <2>5, <2>6, <2>7, <2>8, <2>9, <2>10 DEF Next, MoveStep
<1> QED BY <1>1, <1>2, PTL DEF Spec

-----------------------------------------------------------------------------
(* The gate.                                                                *)

\* The publications walking the tables.
Walkers == {p \in Publishers : Publishing(p)}

\* How a step of publication p changes the number of walkers.
LEMMA WalkersCount ==
    ASSUME TypeOK, NEW p \in Publishers, NEW step \in PubSteps,
           pub' = [pub EXCEPT ![p] = step]
    PROVE  /\ Publishing(p) /\ step \in {"walking", "visiting", "waiting", "ending"}
                  => Walkers' = Walkers
           /\ ~Publishing(p) /\ step \in {"walking", "visiting", "waiting", "ending"}
                  => Cardinality(Walkers') = Cardinality(Walkers) + 1
           /\ Publishing(p) /\ step = "done"
                  => Cardinality(Walkers') = Cardinality(Walkers) - 1
<1>1. IsFiniteSet(Walkers)
  BY FS_Subset, SubscriptionsAssumption DEF Walkers
<1>2. \A q \in Publishers : q # p => Publishing(q)' = Publishing(q)
  BY DEF TypeOK, Publishing
<1>3. Publishing(p)' <=> step \in {"walking", "visiting", "waiting", "ending"}
  BY DEF TypeOK, Publishing
<1>4. ASSUME Publishing(p), step \in {"walking", "visiting", "waiting", "ending"}
      PROVE  Walkers' = Walkers
  BY <1>2, <1>3, <1>4 DEF Walkers
<1>5. ASSUME ~Publishing(p), step \in {"walking", "visiting", "waiting", "ending"}
      PROVE  Cardinality(Walkers') = Cardinality(Walkers) + 1
  <2>1. Walkers' = Walkers \cup {p} /\ p \notin Walkers
    BY <1>2, <1>3, <1>5 DEF Walkers
  <2> QED BY <1>1, <2>1, FS_AddElement
<1>6. ASSUME Publishing(p), step = "done"
      PROVE  Cardinality(Walkers') = Cardinality(Walkers) - 1
  <2>1. Walkers' = Walkers \ {p} /\ p \in Walkers
    BY <1>2, <1>3, <1>6 DEF Walkers
  <2> QED BY <1>1, <2>1, FS_RemoveElement
<1> QED BY <1>4, <1>5, <1>6

\* A step that no publication takes, by who holds subs_m before and after.
LEMMA GateSteps ==
    ASSUME GateIsExclusive, UNCHANGED <<pub, publish_ops>>,
           subs_m' # None => subs_m' = subs_m \/ publish_ops = 0,
           \A t \in Tasks : task'[t] = "inside" => subs_m' = t,
           reader'.at \in {"moving", "in_subs", "in_wild"} => subs_m' = Reader
    PROVE  GateIsExclusive'
BY DEF GateIsExclusive, Publishing

\* The steps of a request.
LEMMA GateTask ==
    ASSUME TypeOK, GateIsExclusive, NEW t \in Tasks, TaskStart(t) \/ TaskStep(t)
    PROVE  GateIsExclusive'
<1> USE DEF TypeOK, TaskSteps, GateIsExclusive, pubVars
<1>1. CASE TaskStart(t)
  BY <1>1, GateSteps DEF TaskStart
<1>2. CASE TaskRefused(t) \/ ConnTable(t) \/ TaskEnd(t)
  BY <1>2, GateSteps DEF TaskRefused, ConnTable, TaskEnd, Unref
<1>3. CASE TaskGate(t)
  <2>1. \A u \in Tasks : task[u] # "inside"
    BY <1>3, SubscriptionsAssumption DEF TaskGate, GateOpen, Lockable
  <2>2. reader.at \notin {"moving", "in_subs", "in_wild"}
    BY <1>3, SubscriptionsAssumption DEF TaskGate, GateOpen, Lockable
  <2> QED BY <1>3, <2>1, <2>2, GateSteps DEF TaskGate, GateOpen, Lockable
<1>4. CASE ContextTable(t)
  <2>1. subs_m = t /\ \A u \in Tasks : u # t => task[u] # "inside"
    BY <1>4 DEF ContextTable
  <2>2. reader.at \notin {"moving", "in_subs", "in_wild"}
    BY <2>1, SubscriptionsAssumption
  <2> QED BY <1>4, <2>1, <2>2, GateSteps DEF ContextTable
<1> QED BY <1>1, <1>2, <1>3, <1>4 DEF TaskStep

\* The steps of the reader, but for a will it begins to publish.
LEMMA GateReader ==
    ASSUME TypeOK, GateIsExclusive, MoveStep \/ CleanStep, ~WillStart
    PROVE  GateIsExclusive'
<1> USE DEF GateIsExclusive, pubVars
<1>1. ASSUME subs_m = None PROVE \A t \in Tasks : task[t] # "inside"
  BY <1>1, SubscriptionsAssumption
<1>2. ASSUME subs_m = Reader PROVE \A t \in Tasks : task[t] # "inside"
  BY <1>2, SubscriptionsAssumption
<1>3. CASE MoveGate
  BY <1>1, <1>3, GateSteps DEF MoveGate, GateOpen, Lockable
<1>4. CASE MoveOffline
  <2>1. subs_m = Reader /\ subs_m' = None /\ task' = task
    BY <1>4 DEF MoveOffline
  <2>2. reader'.at \in {"idle", "move"}
    BY <1>4 DEF MoveOffline, TypeOK, Idle, AtWork
  <2> QED BY <1>2, <1>4, <2>1, <2>2, GateSteps DEF MoveOffline
<1>5. ASSUME NEW at \in ReaderSteps, NEW gate \in {"gate_subs", "gate_wild"},
             NEW next \in {"clean_wild", "will"}, NEW wild_card \in BOOLEAN,
             CleanTable(at, gate, next, wild_card)
      PROVE  GateIsExclusive'
  <2>1. reader'.at \in {gate, next}
    BY <1>5 DEF CleanTable, TypeOK, Idle, AtWork
  <2> QED BY <1>5, <2>1, GateSteps DEF CleanTable
<1>6. ASSUME NEW gate \in ReaderSteps, NEW inside \in ReaderSteps,
             NEW wild_card \in BOOLEAN, CleanGate(gate, inside, wild_card)
      PROVE  GateIsExclusive'
  BY <1>1, <1>6, GateSteps DEF CleanGate, GateOpen, Lockable
<1>7. ASSUME NEW inside \in {"in_subs", "in_wild"},
             NEW next \in {"clean_wild", "will"}, CleanEntry(inside, next)
      PROVE  GateIsExclusive'
  <2>1. subs_m = Reader /\ task' = task /\ subs_m' \in {Reader, None}
    BY <1>7 DEF CleanEntry
  <2>2. reader'.at = next \/ (reader'.at = inside /\ subs_m' = subs_m)
    BY <1>7 DEF CleanEntry, TypeOK, Idle, AtWork
  <2> QED BY <1>2, <1>7, <2>1, <2>2, GateSteps DEF CleanEntry
<1>8. CASE NoWill
  <2>1. reader'.at = "unref"
    BY <1>8 DEF NoWill, TypeOK, Idle, AtWork
  <2> QED BY <1>8, <2>1, GateSteps DEF NoWill
<1>9. CASE CleanUnref
  BY <1>9, GateSteps DEF CleanUnref, Unref, Idle
<1> QED BY <1>3, <1>4, <1>5, <1>6, <1>7, <1>8, <1>9
        DEF MoveStep, CleanStep, CleanSubs, CleanWild, ReaderSteps

\* A publication that begins is counted, while nobody is inside the gate.
LEMMA GateStart ==
    ASSUME TypeOK, GateIsExclusive, NEW p \in Publishers, Start(p),
           reader'.at \notin {"moving", "in_subs", "in_wild"} \/ reader' = reader
    PROVE  GateIsExclusive'
<1> USE DEF GateIsExclusive, Start, Lockable
<1>1. subs_m' = None /\ task' = task /\ \A t \in Tasks : task[t] # "inside"
  BY SubscriptionsAssumption
<1>2. reader.at \notin {"moving", "in_subs", "in_wild"}
  BY SubscriptionsAssumption
<1>3. Cardinality(Walkers') = Cardinality(Walkers) + 1
  BY WalkersCount DEF Publishing, PubSteps
<1>4. publish_ops' = Cardinality(Walkers')
  BY <1>3 DEF Walkers
<1> QED BY <1>1, <1>2, <1>4 DEF Walkers

\* The other steps of a publication.
LEMMA GatePublish ==
    ASSUME TypeOK, GateIsExclusive, NEW p \in Publishers, PubStep(p)
    PROVE  GateIsExclusive'
<1> DEFINE walk == {"walking", "visiting", "waiting", "ending"}
<1>1. CASE PubEnd(p)
  <2>1. Cardinality(Walkers') = Cardinality(Walkers) - 1
    BY <1>1, WalkersCount DEF PubEnd, Lockable, Publishing, PubSteps
  <2>2. publish_ops' = Cardinality(Walkers')
    BY <1>1, <2>1 DEF PubEnd, Lockable, Walkers, GateIsExclusive
  <2> QED BY <1>1, <2>2 DEF PubEnd, Lockable, Walkers, GateIsExclusive
<1>2. CASE ~PubEnd(p)
  <2>1. /\ Publishing(p)
        /\ UNCHANGED <<publish_ops, subs_m, task, reader>>
    BY <1>2 DEF PubStep, Visit, Deliver, StillUsed, Acknowledged, GiveUp, WaitEnds,
                QueueOffline, Publishing
  <2>2. \E step \in walk : pub' = [pub EXCEPT ![p] = step]
    <3>1. CASE Visit(p)
      BY <3>1 DEF Visit
    <3>2. CASE Deliver(p)
      BY <3>2, Zenon DEF Deliver, StillUsed
    <3>3. CASE Acknowledged(p) \/ GiveUp(p) \/ QueueOffline(p)
      BY <3>3 DEF Acknowledged, GiveUp, WaitEnds, QueueOffline
    <3> QED BY <1>2, <3>1, <3>2, <3>3 DEF PubStep
  <2>3. Walkers' = Walkers
    BY <2>1, <2>2, WalkersCount DEF PubSteps
  <2> QED BY <2>1, <2>3 DEF Walkers, GateIsExclusive
<1> QED BY <1>1, <1>2

\* publish_ops counts the walking publications, and the holder of the gate is
\* alone, for any number of requests and publications.
THEOREM GateCorrect == Spec => []GateIsExclusive
<1>1. Init => GateIsExclusive
  <2> SUFFICES ASSUME Init PROVE GateIsExclusive
    OBVIOUS
  <2>1. {p \in Publishers : Publishing(p)} = {}
    BY DEF Init, Publishing
  <2> QED BY <2>1, FS_EmptySet DEF Init, GateIsExclusive, Idle
<1>2. TypeOK /\ GateIsExclusive /\ [Next]_vars => GateIsExclusive'
  <2> SUFFICES ASSUME TypeOK, GateIsExclusive, [Next]_vars PROVE GateIsExclusive'
    OBVIOUS
  <2>1. ASSUME NEW t \in Tasks, TaskStart(t) \/ TaskStep(t) PROVE GateIsExclusive'
    BY <2>1, GateTask
  <2>2. ASSUME NEW c \in Conns, Disconnect(c) PROVE GateIsExclusive'
    <3>1. reader'.at \in {"move", "idle"}
      BY <2>2 DEF Disconnect, Idle
    <3> QED BY <2>2, <3>1, GateSteps DEF Disconnect, pubVars, GateIsExclusive
  <2>3. ASSUME NEW c \in Conns, Cleanup(c) \/ ConnDown(c) PROVE GateIsExclusive'
    BY <2>3, GateSteps DEF Cleanup, ConnDown, pubVars, GateIsExclusive
  <2>4. CASE (MoveStep \/ CleanStep) /\ ~WillStart
    BY <2>4, GateReader
  <2>5. CASE WillStart
    <3>1. reader.conn \in Publishers
      BY <2>5 DEF WillStart, TypeOK, Publishers
    <3>2. reader'.at = "publishing"
      BY <2>5 DEF WillStart, TypeOK, Idle, AtWork
    <3> QED BY <2>5, <3>1, <3>2, GateStart DEF WillStart
  <2>6. ASSUME NEW p \in Pubs, PubStart(p) PROVE GateIsExclusive'
    BY <2>6, GateStart DEF PubStart, Publishers
  <2>7. ASSUME NEW p \in Publishers, PubStep(p) PROVE GateIsExclusive'
    BY <2>7, GatePublish
  <2>8. CASE UNCHANGED vars
    BY <2>8 DEF vars, GateIsExclusive, Publishing
  <2> QED
    BY <2>1, <2>2, <2>3, <2>4, <2>5, <2>6, <2>7, <2>8 DEF Next
<1> QED BY <1>1, <1>2, TypeCorrect, PTL DEF Spec

\* The step of anyone leaves the tables as they are while a publication walks
\* them.
LEMMA StaticStep ==
    ASSUME TypeOK, GateIsExclusive, [Next]_vars, NEW p \in Publishers, Publishing(p)
    PROVE  UNCHANGED tableVars
<1>1. subs_m = None
  <2>1. Walkers # {} /\ IsFiniteSet(Walkers)
    BY FS_Subset, SubscriptionsAssumption DEF Walkers
  <2>2. Cardinality(Walkers) # 0
    BY <2>1, FS_EmptySet
  <2> QED BY <2>2 DEF Walkers, GateIsExclusive
<1>2. /\ \A t \in Tasks : task[t] # "inside"
      /\ reader.at \notin {"moving", "in_subs", "in_wild"}
  BY <1>1, SubscriptionsAssumption DEF GateIsExclusive
<1>3. ASSUME NEW t \in Tasks, TaskStart(t) \/ TaskStep(t) PROVE UNCHANGED tableVars
  BY <1>2, <1>3 DEF TaskStart, TaskStep, TaskRefused, ConnTable, TaskGate,
                    ContextTable, TaskEnd, tableVars
<1>4. ASSUME NEW c \in Conns, Disconnect(c) \/ Cleanup(c) \/ ConnDown(c)
      PROVE  UNCHANGED tableVars
  BY <1>4 DEF Disconnect, Cleanup, ConnDown, tableVars
<1>5. CASE MoveStep
  BY <1>2, <1>5 DEF MoveStep, MoveGate, MoveOffline, tableVars
<1>6. CASE CleanStep
  BY <1>2, <1>6 DEF CleanStep, CleanSubs, CleanWild, CleanTable, CleanGate,
                    CleanEntry, NoWill, WillStart, Start, CleanUnref, tableVars
<1>7. ASSUME NEW q \in Publishers, PubStep(q) \/ PubStart(q) PROVE UNCHANGED tableVars
  BY <1>7 DEF PubStep, PubStart, Start, Lockable, Visit, Deliver, StillUsed, Acknowledged, GiveUp,
              WaitEnds, QueueOffline, PubEnd, tableVars
<1>8. CASE UNCHANGED vars
  BY <1>8 DEF vars, tableVars
<1> QED
  BY <1>3, <1>4, <1>5, <1>6, <1>7, <1>8 DEF Next, Publishers

\* The comment in __myqtt_reader_do_publish, "the code ensures these hashes are
\* static structures": no step changes a table while a publication walks it.
THEOREM TablesAreStatic == Spec => StaticWhilePublishing
<1>1. TypeOK /\ GateIsExclusive /\ [Next]_vars
        => [(\E p \in Publishers : Publishing(p)) => UNCHANGED tableVars]_vars
  BY StaticStep
<1> QED BY <1>1, TypeCorrect, GateCorrect, PTL DEF Spec, StaticWhilePublishing

-----------------------------------------------------------------------------
(* References.                                                              *)

\* The unfinished requests of a connection.
TasksOf(c) == {t \in Tasks : TaskConn[t] = c /\ Unfinished(t)}

\* The reader's own reference of c is still held.
OfReader(c) == c \in watched \/ reader.conn = c

\* The reader works for a connection in its list until it cleans it up, and then
\* for one it took out of the list: it holds one reference of it, never two.
HeldOnce ==
    /\ reader.at \in {"move", "moving"} => reader.conn \in watched
    /\ reader.at \notin {"idle", "move", "moving"} => reader.conn \notin watched

Balanced(c) == ref_count[c] = Cardinality(TasksOf(c)) + (IF OfReader(c) THEN 1 ELSE 0)

RefsInv == (\A c \in Conns : Balanced(c)) /\ HeldOnce

\* How a step of request t changes the number of unfinished requests.
LEMMA TasksCount ==
    ASSUME TypeOK, NEW t \in Tasks, NEW step \in TaskSteps,
           task' = [task EXCEPT ![t] = step]
    PROVE  /\ \A c \in Conns : IsFiniteSet(TasksOf(c)) /\ Cardinality(TasksOf(c)) \in Nat
           /\ \A c \in Conns : c # TaskConn[t] => TasksOf(c)' = TasksOf(c)
           /\ Unfinished(t) /\ step \notin {"idle", "done"}
                 => \A c \in Conns : TasksOf(c)' = TasksOf(c)
           /\ task[t] = "idle" /\ step = "queued"
                 => Cardinality(TasksOf(TaskConn[t])') = Cardinality(TasksOf(TaskConn[t])) + 1
           /\ Unfinished(t) /\ step = "done"
                 => Cardinality(TasksOf(TaskConn[t])') = Cardinality(TasksOf(TaskConn[t])) - 1
<1> DEFINE c == TaskConn[t]
<1>1. \A d \in Conns : IsFiniteSet(TasksOf(d)) /\ Cardinality(TasksOf(d)) \in Nat
  BY FS_Subset, FS_CardinalityType DEF TasksOf
<1>2. c \in Conns /\ \A u \in Tasks : u # t => Unfinished(u)' = Unfinished(u)
  BY DEF TypeOK, Unfinished
<1>3. task'[t] = step
  BY DEF TypeOK
<1>4. ASSUME task[t] = "idle", step = "queued"
      PROVE  Cardinality(TasksOf(c)') = Cardinality(TasksOf(c)) + 1
  <2>1. TasksOf(c)' = TasksOf(c) \cup {t} /\ t \notin TasksOf(c)
    BY <1>2, <1>3, <1>4 DEF TasksOf, Unfinished
  <2> QED BY <1>1, <1>2, <2>1, FS_AddElement
<1>5. ASSUME Unfinished(t), step = "done"
      PROVE  Cardinality(TasksOf(c)') = Cardinality(TasksOf(c)) - 1
  <2>1. TasksOf(c)' = TasksOf(c) \ {t} /\ t \in TasksOf(c)
    BY <1>2, <1>3, <1>5 DEF TasksOf, Unfinished
  <2>2. IsFiniteSet(TasksOf(c))
    BY <1>1, <1>2
  <2>3. Cardinality(TasksOf(c) \ {t}) = Cardinality(TasksOf(c)) - 1
    BY <2>1, <2>2, FS_RemoveElement
  <2> QED BY <2>1, <2>3, Zenon
<1>6. \A d \in Conns : d # c => TasksOf(d)' = TasksOf(d)
  BY <1>2 DEF TasksOf
<1>7. ASSUME Unfinished(t), step \notin {"idle", "done"}
      PROVE  \A d \in Conns : TasksOf(d)' = TasksOf(d)
  BY <1>2, <1>3, <1>7 DEF TasksOf, Unfinished
<1> QED BY <1>1, <1>4, <1>5, <1>6, <1>7

\* A step that takes and gives back no reference.
LEMMA RefsKept ==
    ASSUME \A c \in Conns : Balanced(c), ref_count' = ref_count,
           \A c \in Conns : TasksOf(c)' = TasksOf(c),
           \A c \in Conns : OfReader(c)' <=> OfReader(c)
    PROVE  \A c \in Conns : Balanced(c)'
BY DEF Balanced

\* The steps of a request: one reference when it starts, back when it ends.
LEMMA RefsTask ==
    ASSUME TypeOK, RefsInv, NEW t \in Tasks, TaskStart(t) \/ TaskStep(t)
    PROVE  RefsInv'
<1> DEFINE c == TaskConn[t]
<1>1. c \in Conns /\ UNCHANGED <<watched, reader>>
  BY DEF TaskStart, TaskStep, TaskRefused, ConnTable, TaskGate, ContextTable, TaskEnd, connVars
<1>2. HeldOnce' /\ \A d \in Conns : OfReader(d)' <=> OfReader(d)
  BY <1>1 DEF RefsInv, HeldOnce, OfReader
<1>3. \A d \in Conns : Balanced(d)'
  <2>1. CASE TaskStart(t)
    <3>1. /\ \A d \in Conns : d # c => TasksOf(d)' = TasksOf(d)
          /\ Cardinality(TasksOf(c)') = Cardinality(TasksOf(c)) + 1
          /\ Cardinality(TasksOf(c)) \in Nat
      BY <1>1, <2>1, TasksCount DEF TaskStart, TaskSteps
    <3>2. ref_count' = [ref_count EXCEPT ![c] = @ + 1]
      BY <2>1 DEF TaskStart
    <3>3. ASSUME NEW d \in Conns PROVE Balanced(d)'
      <4>1. CASE d = c
        BY <1>1, <1>2, <3>1, <3>2, <4>1 DEF RefsInv, Balanced, TypeOK
      <4>2. CASE d # c
        BY <1>1, <1>2, <3>1, <3>2, <4>2 DEF RefsInv, Balanced, TypeOK
      <4> QED BY <4>1, <4>2
    <3> QED BY <3>3
  <2>2. CASE TaskEnd(t)
    <3>1. /\ \A d \in Conns : d # c => TasksOf(d)' = TasksOf(d)
          /\ Cardinality(TasksOf(c)') = Cardinality(TasksOf(c)) - 1
          /\ Cardinality(TasksOf(c)) \in Nat
      BY <1>1, <2>2, TasksCount DEF TaskEnd, TaskSteps, Unfinished
    <3>2. ref_count' = [ref_count EXCEPT ![c] = @ - 1]
      BY <2>2 DEF TaskEnd, Unref
    <3>3. ASSUME NEW d \in Conns PROVE Balanced(d)'
      <4>1. CASE d = c
        BY <1>1, <1>2, <3>1, <3>2, <4>1 DEF RefsInv, Balanced, TypeOK
      <4>2. CASE d # c
        BY <1>1, <1>2, <3>1, <3>2, <4>2 DEF RefsInv, Balanced, TypeOK
      <4> QED BY <4>1, <4>2
    <3> QED BY <3>3
  <2>3. CASE TaskRefused(t) \/ ConnTable(t) \/ TaskGate(t) \/ ContextTable(t)
    <3>1. ref_count' = ref_count
      BY <2>3 DEF TaskRefused, ConnTable, TaskGate, ContextTable, connVars
    <3>2. PICK step \in {"registered", "inside", "answered"} :
               task' = [task EXCEPT ![t] = step]
      BY <2>3 DEF TaskRefused, ConnTable, TaskGate, ContextTable
    <3>3. Unfinished(t)
      BY <2>3 DEF TaskRefused, ConnTable, TaskGate, ContextTable, Unfinished
    <3>4. \A d \in Conns : TasksOf(d)' = TasksOf(d)
      BY <3>2, <3>3, TasksCount DEF TaskSteps
    <3> QED BY <1>2, <3>1, <3>4, RefsKept DEF RefsInv
  <2> QED BY <2>1, <2>2, <2>3 DEF TaskStep
<1> QED BY <1>2, <1>3 DEF RefsInv

\* A step that is no request's: the requests keep their references.
LEMMA TasksKept ==
    ASSUME task' = task
    PROVE  \A c \in Conns : TasksOf(c)' = TasksOf(c)
BY DEF TasksOf, Unfinished

\* A clean-up step but for the last one goes on with the same connection.
LEMMA CleanGoesOn ==
    ASSUME TypeOK, CleanStep, ~CleanUnref
    PROVE  /\ reader.conn \in Conns /\ reader'.conn = reader.conn
           /\ reader.at \notin {"idle", "move", "moving"}
           /\ reader'.at \notin {"idle", "move", "moving"}
           /\ UNCHANGED <<is_ok, watched, will, ref_count, task, conn_subs, unsettled>>
<1>1. reader.at \notin {"idle", "move", "moving"}
  BY DEF CleanStep, CleanSubs, CleanWild, CleanTable, CleanGate, CleanEntry, NoWill, WillStart
<1>2. reader \in AtWork /\ reader.conn \in Conns
  BY <1>1, ReaderBusy DEF TypeOK
<1>3. UNCHANGED <<is_ok, watched, will, ref_count, task, conn_subs, unsettled>>
  BY DEF CleanStep, CleanSubs, CleanWild, CleanTable, CleanGate, CleanEntry, NoWill, WillStart,
         Start, connVars
<1>4. /\ reader'.conn = reader.conn
      /\ reader'.at \notin {"idle", "move", "moving"}
  <2>1. ASSUME NEW at, NEW gate \in {"gate_subs", "gate_wild"}, NEW next \in {"clean_wild", "will"},
               NEW wild_card, CleanTable(at, gate, next, wild_card)
        PROVE  reader'.conn = reader.conn /\ reader'.at \notin {"idle", "move", "moving"}
    BY <1>2, <2>1 DEF CleanTable, AtWork
  <2>2. ASSUME NEW gate, NEW inside \in {"in_subs", "in_wild"}, NEW wild_card,
               CleanGate(gate, inside, wild_card)
        PROVE  reader'.conn = reader.conn /\ reader'.at \notin {"idle", "move", "moving"}
    BY <1>2, <2>2 DEF CleanGate, AtWork
  <2>3. ASSUME NEW inside, NEW next \in {"clean_wild", "will"}, CleanEntry(inside, next)
        PROVE  reader'.conn = reader.conn /\ reader'.at \notin {"idle", "move", "moving"}
    BY <1>1, <1>2, <2>3 DEF CleanEntry, AtWork
  <2>4. CASE NoWill \/ WillStart
    BY <1>2, <2>4 DEF NoWill, WillStart, AtWork
  <2> QED BY <2>1, <2>2, <2>3, <2>4 DEF CleanStep, CleanSubs, CleanWild
<1> QED BY <1>1, <1>2, <1>3, <1>4

\* The other steps.
LEMMA RefsOthers ==
    ASSUME TypeOK, RefsInv,
           \/ \E c \in Conns : Disconnect(c) \/ Cleanup(c) \/ ConnDown(c)
           \/ MoveStep \/ CleanStep
           \/ \E p \in Publishers : PubStart(p) \/ PubStep(p)
           \/ UNCHANGED vars
    PROVE  RefsInv'
<1> USE DEF RefsInv, HeldOnce, OfReader
<1>1. ASSUME reader.at = "idle" PROVE reader.conn = None
  BY <1>1 DEF TypeOK, Idle, AtWork, ReaderSteps
<1>2. ASSUME NEW c \in Conns, Disconnect(c) PROVE RefsInv'
  <2>1. \/ reader'.at = "move" /\ reader'.conn = c
        \/ reader'.at = "idle" /\ reader'.conn = None
    BY <1>2 DEF Disconnect, Idle
  <2> QED BY <1>1, <1>2, <2>1, RefsKept, TasksKept DEF Disconnect
<1>3. ASSUME NEW c \in Conns, Cleanup(c) PROVE RefsInv'
  BY <1>1, <1>3, RefsKept, TasksKept DEF Cleanup
<1>4. ASSUME NEW c \in Conns, ConnDown(c) PROVE RefsInv'
  BY <1>4, RefsKept, TasksKept DEF ConnDown
<1>5. CASE MoveGate
  <2>1. reader.at # "idle" /\ reader \in AtWork
    BY <1>5, ReaderBusy DEF MoveGate, TypeOK
  <2>2. reader'.at = "moving" /\ reader'.conn = reader.conn
    BY <1>5, <2>1 DEF MoveGate, AtWork
  <2> QED BY <1>5, <2>2, RefsKept, TasksKept DEF MoveGate, connVars
<1>6. CASE MoveOffline
  <2>1. reader.at # "idle" /\ reader \in AtWork
    BY <1>6, ReaderBusy DEF MoveOffline, TypeOK
  <2>2. \/ reader'.at = "move" /\ reader'.conn = reader.conn
        \/ reader'.at = "idle" /\ reader'.conn = None
    BY <1>6, <2>1 DEF MoveOffline, AtWork, Idle
  <2> QED BY <1>6, <2>2, RefsKept, TasksKept DEF MoveOffline, connVars
<1>7. CASE CleanStep /\ ~CleanUnref
  BY <1>7, CleanGoesOn, RefsKept, TasksKept
<1>8. CASE CleanUnref
  <2>1. PICK r \in Conns : r = reader.conn /\ r \notin watched
    BY <1>8, ReaderBusy DEF CleanUnref, TypeOK
  <2>2. /\ reader' = Idle /\ watched' = watched
        /\ ref_count' = [ref_count EXCEPT ![reader.conn] = @ - 1]
    BY <1>8 DEF CleanUnref, Unref
  <2>3. \A c \in Conns : TasksOf(c)' = TasksOf(c) /\ Cardinality(TasksOf(c)) \in Nat
    BY <1>8, TasksKept, FS_Subset, FS_CardinalityType DEF CleanUnref, TasksOf
  <2>4. \A d \in Conns : d # r => (OfReader(d)' <=> OfReader(d))
    BY <2>1, <2>2 DEF Idle
  <2>5. OfReader(r) /\ ~OfReader(r)'
    BY <2>1, <2>2 DEF Idle
  <2>6. ASSUME NEW d \in Conns PROVE Balanced(d)'
    BY <2>1, <2>2, <2>3, <2>4, <2>5, <2>6 DEF Balanced, TypeOK
  <2> QED BY <2>2, <2>6 DEF Idle
<1>9. ASSUME NEW p \in Publishers, PubStart(p) \/ PubStep(p) PROVE RefsInv'
  <2>1. UNCHANGED <<ref_count, watched, reader, task>>
    BY <1>9 DEF PubStart, Start, PubStep, Visit, Deliver, Acknowledged, GiveUp, WaitEnds, QueueOffline,
                PubEnd, connVars
  <2> QED BY <2>1, RefsKept, TasksKept
<1>10. CASE UNCHANGED vars
  BY <1>10, RefsKept, TasksKept DEF vars
<1> QED BY <1>2, <1>3, <1>4, <1>5, <1>6, <1>7, <1>8, <1>9, <1>10 DEF MoveStep

LEMMA RefsInvariance == Spec => []RefsInv
<1>1. Init => RefsInv
  <2> SUFFICES ASSUME Init PROVE RefsInv
    OBVIOUS
  <2>1. \A c \in Conns : TasksOf(c) = {}
    BY DEF Init, TasksOf, Unfinished
  <2>2. \A c \in Conns : Cardinality(TasksOf(c)) = 0
    BY <2>1, FS_EmptySet
  <2> QED BY <2>2 DEF Init, RefsInv, Balanced, OfReader, HeldOnce, Idle
<1>2. TypeOK /\ RefsInv /\ [Next]_vars => RefsInv'
  BY RefsTask, RefsOthers DEF Next, Publishers
<1> QED BY <1>1, <1>2, TypeCorrect, PTL DEF Spec

\* The references of a connection are those of the reader's list and of its
\* unfinished requests, whatever order they are given back in.
THEOREM RefsBalanceCorrect == Spec => []RefsBalance
<1>1. RefsInv => RefsBalance
  BY DEF RefsInv, Balanced, RefsBalance, TasksOf, OfReader
<1> QED BY <1>1, RefsInvariance, PTL

-----------------------------------------------------------------------------
(* What a publication has reached, and has still to reach.                  *)

\* A will is published only when it has a topic, so every publication has one.
HasTopic ==
    /\ \A c \in will : WillTopic[c] # None
    /\ \A p \in Publishers : pub[p] # "idle" => TopicOf(p) \in Topics

\* An entry of c the cursors of p have not passed.
StillAhead(p, c) ==
    /\ pub[p] \in {"walking", "visiting", "waiting"}
    /\ \E f \in Matches[TopicOf(p)] : c \in subs[f] /\ <<f, c>> \notin visited[p]

\* Why c needs nothing more of p, or is still going to get it.
Served(p, c) ==
    \/ c \in delivered[p]
    \/ ~is_ok[c]
    \/ pub[p] = "visiting" /\ visiting[p][2] = c
    \/ StillAhead(p, c)

WalkInv ==
    \A p \in Publishers :
        /\ pub[p] = "idle" => visited[p] = {}
        /\ pub[p] # "idle" => \A c \in due[p] : Served(p, c)

\* The entry a publication is delivering to is still in its table.
VisitInv ==
    \A p \in Publishers : visiting[p] # None =>
        /\ pub[p] \in {"visiting", "waiting"}
        /\ visiting[p] \in Entries
        /\ visiting[p][2] \in subs[visiting[p][1]]

PubInv == HasTopic /\ WalkInv /\ VisitInv

\* A step that no publication takes: connections go down and do not come back, and
\* the tables are static for those that walk them.
LEMMA WalkKept ==
    ASSUME TypeOK, PubInv, UNCHANGED pubVars, will' \subseteq will,
           \A c \in Conns : is_ok'[c] => is_ok[c],
           \A p \in Publishers : Publishing(p) => subs' = subs
    PROVE  PubInv'
<1> USE DEF pubVars, PubInv
<1>1. HasTopic'
  BY DEF HasTopic, TopicOf
<1>2. ASSUME NEW p \in Publishers PROVE (pub[p] = "idle" => visited[p] = {})'
  BY DEF WalkInv
<1>3. ASSUME NEW p \in Publishers, pub'[p] # "idle", NEW c \in due'[p] PROVE Served(p, c)'
  <2>1. Served(p, c) /\ c \in Conns
    BY <1>3 DEF WalkInv, TypeOK
  <2>2. ASSUME StillAhead(p, c) PROVE StillAhead(p, c)'
    BY <2>2 DEF StillAhead, TopicOf, Publishing
  <2> QED BY <2>1, <2>2 DEF Served
<1>4. VisitInv'
  BY DEF VisitInv, Publishing
<1> QED BY <1>1, <1>2, <1>3, <1>4 DEF WalkInv

\* The other publications are not disturbed by a step of publication p.
LEMMA WalkOthers ==
    ASSUME TypeOK, PubInv, NEW p \in Publishers, UNCHANGED <<subs, is_ok>>,
           \A q \in Publishers : q # p =>
               /\ pub'[q] = pub[q] /\ visited'[q] = visited[q] /\ visiting'[q] = visiting[q]
               /\ delivered'[q] = delivered[q] /\ due'[q] = due[q],
           pub'[p] # "idle",
           \A c \in due'[p] : Served(p, c)',
           visiting'[p] # None =>
               /\ pub'[p] \in {"visiting", "waiting"}
               /\ visiting'[p] \in Entries
               /\ visiting'[p][2] \in subs[visiting'[p][1]]
    PROVE  WalkInv' /\ VisitInv'
<1> USE DEF PubInv
<1>1. ASSUME NEW q \in Publishers, q # p PROVE (pub[q] = "idle" => visited[q] = {})'
  BY <1>1 DEF WalkInv
<1>2. ASSUME NEW q \in Publishers, q # p, pub'[q] # "idle", NEW c \in due'[q] PROVE Served(q, c)'
  <2>1. Served(q, c)
    BY <1>2 DEF WalkInv
  <2>2. ASSUME StillAhead(q, c) PROVE StillAhead(q, c)'
    BY <1>2, <2>2 DEF StillAhead, TopicOf
  <2> QED BY <1>2, <2>1, <2>2 DEF Served
<1>3. VisitInv'
  BY DEF VisitInv
<1> QED BY <1>1, <1>2, <1>3 DEF WalkInv

\* A publication begins: everything it owes is ahead of it.
LEMMA WalkStart ==
    ASSUME TypeOK, PubInv, NEW p \in Publishers, Start(p), TopicOf(p) \in Topics
    PROVE  PubInv'
<1> USE DEF PubInv
<1>1. /\ pub[p] = "idle" /\ pub' = [pub EXCEPT ![p] = "walking"]
      /\ UNCHANGED <<is_ok, subs, will, visited, visiting, delivered>>
      /\ due' = [due EXCEPT ![p] = {c \in Conns : /\ is_ok[c]
                                                  /\ \E f \in Matches[TopicOf(p)] : c \in subs[f]}]
  BY DEF Start, connVars, tableVars
<1>2. HasTopic'
  BY <1>1 DEF HasTopic, TypeOK, TopicOf
<1>3. ASSUME NEW c \in due'[p] PROVE Served(p, c)'
  <2>1. \E f \in Matches[TopicOf(p)] : c \in subs[f]
    BY <1>1, <1>3 DEF TypeOK
  <2>2. visited'[p] = {} /\ pub'[p] = "walking"
    BY <1>1 DEF TypeOK, WalkInv
  <2>3. StillAhead(p, c)'
    BY <1>1, <2>1, <2>2 DEF StillAhead, TopicOf
  <2> QED BY <2>3 DEF Served
<1>4. visiting'[p] = None
  BY <1>1 DEF VisitInv
<1>5. \A q \in Publishers : q # p => pub'[q] = pub[q] /\ due'[q] = due[q]
  BY <1>1 DEF TypeOK
<1>6. pub'[p] = "walking"
  BY <1>1 DEF TypeOK
<1>7. WalkInv' /\ VisitInv'
  BY <1>1, <1>3, <1>4, <1>5, <1>6, WalkOthers
<1> QED BY <1>2, <1>7

\* The cursors move on to an entry, which is delivered to next ...
LEMMA WalkVisit ==
    ASSUME TypeOK, PubInv, NEW p \in Publishers, Visit(p)
    PROVE  PubInv'
<1> USE DEF PubInv
<1>1. PICK e \in Ahead(p) : /\ visited' = [visited EXCEPT ![p] = @ \cup {e}]
                            /\ visiting' = [visiting EXCEPT ![p] = e]
  BY DEF Visit
<1>2. /\ pub[p] = "walking" /\ pub' = [pub EXCEPT ![p] = "visiting"]
      /\ UNCHANGED <<is_ok, subs, will, delivered, due>>
  BY DEF Visit, connVars, tableVars
<1>3. /\ e \in Entries /\ e = <<e[1], e[2]>> /\ e[2] \in subs[e[1]]
      /\ visited'[p] = visited[p] \cup {e} /\ visiting'[p] = e /\ pub'[p] = "visiting"
  BY <1>1, <1>2 DEF TypeOK, Ahead, Entries
<1>4. HasTopic'
  BY <1>2 DEF HasTopic, TypeOK, TopicOf
<1>5. ASSUME NEW c \in due'[p] PROVE Served(p, c)'
  <2>1. Served(p, c)
    BY <1>2, <1>5 DEF WalkInv
  <2>2. CASE c = e[2]
    BY <1>3, <2>2 DEF Served
  <2>3. CASE c # e[2] /\ StillAhead(p, c)
    <3>1. PICK f \in Matches[TopicOf(p)] : c \in subs[f] /\ <<f, c>> \notin visited[p]
      BY <2>3 DEF StillAhead
    <3>2. <<f, c>> # e
      BY <2>3
    <3>3. <<f, c>> \notin visited'[p]
      BY <1>3, <3>1, <3>2
    <3>4. StillAhead(p, c)'
      BY <1>2, <1>3, <3>1, <3>3 DEF StillAhead, TopicOf
    <3> QED BY <3>4 DEF Served
  <2> QED BY <1>2, <2>1, <2>2, <2>3 DEF Served
<1>6. \A q \in Publishers : q # p =>
          pub'[q] = pub[q] /\ visited'[q] = visited[q] /\ visiting'[q] = visiting[q]
  BY <1>1, <1>2 DEF TypeOK
<1>7. WalkInv' /\ VisitInv'
  BY <1>2, <1>3, <1>5, <1>6, WalkOthers
<1> QED BY <1>4, <1>7

\* ... and is either sent to its connection, or its connection is down.
LEMMA WalkDeliver ==
    ASSUME TypeOK, PubInv, NEW p \in Publishers, Deliver(p)
    PROVE  PubInv'
<1> USE DEF PubInv
<1>1. /\ pub[p] = "visiting" /\ visiting[p] \in Entries /\ visiting[p][2] \in Conns
      /\ visiting[p] # None /\ visiting[p][2] \in subs[visiting[p][1]]
  <2>1. pub[p] = "visiting" /\ visiting[p] \in Entries
    BY DEF Deliver, TypeOK
  <2>2. visiting[p] # None /\ visiting[p][2] \in Conns
    BY <2>1, SubscriptionsAssumption DEF Entries
  <2> QED BY <2>1, <2>2 DEF VisitInv
<1>2. UNCHANGED <<is_ok, subs, will, visited, due>>
  BY DEF Deliver, connVars, tableVars
<1>3. /\ \/ pub' = [pub EXCEPT ![p] = "walking"] /\ visiting' = [visiting EXCEPT ![p] = None]
         \/ pub' = [pub EXCEPT ![p] = "waiting"] /\ visiting' = [visiting EXCEPT ![p] = visiting[p]]
      /\ \/ delivered' = [delivered EXCEPT ![p] = @ \cup {visiting[p][2]}]
         \/ ~is_ok[visiting[p][2]] /\ delivered' = delivered
  BY Zenon DEF Deliver, StillUsed
<1>4. /\ pub'[p] \in {"walking", "waiting"}
      /\ visiting'[p] # None => pub'[p] = "waiting" /\ visiting'[p] = visiting[p]
      /\ \A q \in Publishers : q # p => pub'[q] = pub[q] /\ visiting'[q] = visiting[q]
  BY <1>3 DEF TypeOK
<1>5. /\ visiting[p][2] \in delivered'[p] \/ ~is_ok[visiting[p][2]]
      /\ delivered[p] \subseteq delivered'[p]
      /\ \A q \in Publishers : q # p => delivered'[q] = delivered[q]
  BY <1>3 DEF TypeOK
<1>6. HasTopic'
  BY <1>1, <1>2, <1>4 DEF HasTopic, TypeOK, TopicOf
<1>7. ASSUME NEW c \in due'[p] PROVE Served(p, c)'
  <2>1. Served(p, c)
    BY <1>1, <1>2, <1>7 DEF WalkInv
  <2>2. ASSUME StillAhead(p, c) PROVE StillAhead(p, c)'
    BY <1>2, <1>4, <2>2 DEF StillAhead, TopicOf
  <2> QED BY <1>2, <1>5, <2>1, <2>2 DEF Served
<1>8. WalkInv' /\ VisitInv'
  BY <1>1, <1>2, <1>4, <1>5, <1>7, WalkOthers
<1> QED BY <1>6, <1>8

\* The wait for its reply ends; the walk is over when nothing is ahead.
LEMMA WalkGoesOn ==
    ASSUME TypeOK, PubInv, NEW p \in Publishers,
           Acknowledged(p) \/ GiveUp(p) \/ QueueOffline(p) \/ PubEnd(p)
    PROVE  PubInv'
<1> USE DEF PubInv
<1>1. UNCHANGED <<is_ok, subs, will, visited, delivered, due>>
  BY DEF Acknowledged, GiveUp, WaitEnds, QueueOffline, PubEnd, connVars, tableVars
<1>2. PICK step \in {"walking", "ending", "done"} :
        /\ pub' = [pub EXCEPT ![p] = step]
        /\ pub[p] \notin {"idle", "visiting"}
        /\ \/ visiting' = [visiting EXCEPT ![p] = None]
           \/ visiting' = visiting /\ visiting[p] = None
        /\ \/ step = "walking"
           \/ Ahead(p) = {}
           \/ pub[p] = "ending"
  BY DEF Acknowledged, GiveUp, WaitEnds, QueueOffline, PubEnd, VisitInv
<1>3. /\ pub'[p] = step /\ visiting'[p] = None
      /\ \A q \in Publishers : q # p => pub'[q] = pub[q] /\ visiting'[q] = visiting[q]
  BY <1>2 DEF TypeOK
<1>4. HasTopic'
  BY <1>1, <1>2, <1>3 DEF HasTopic, TopicOf
<1>5. ASSUME NEW c \in due'[p] PROVE Served(p, c)'
  <2>1. Served(p, c) /\ c \in Conns
    BY <1>1, <1>2, <1>5 DEF WalkInv, TypeOK
  <2>2. ASSUME StillAhead(p, c) PROVE StillAhead(p, c)'
    <3>1. TopicOf(p) \in Topics
      BY <1>2 DEF HasTopic
    <3>2. PICK f \in Matches[TopicOf(p)] : c \in subs[f] /\ <<f, c>> \notin visited[p]
      BY <2>2 DEF StillAhead
    <3>3. f \in Filters
      BY <3>1, <3>2
    <3>4. <<f, c>> \in Ahead(p)
      BY <2>1, <3>2, <3>3 DEF Ahead, Entries
    <3>5. step = "walking"
      BY <1>2, <2>2, <3>4 DEF StillAhead
    <3> QED BY <1>1, <1>3, <3>2, <3>5 DEF StillAhead, TopicOf
  <2> QED BY <1>1, <1>2, <2>1, <2>2 DEF Served
<1>6. WalkInv' /\ VisitInv'
  BY <1>1, <1>2, <1>3, <1>5, WalkOthers
<1> QED BY <1>4, <1>6

LEMMA PubInvariance == Spec => []PubInv
<1>1. Init => PubInv
  BY DEF Init, PubInv, HasTopic, WalkInv, VisitInv
<1>2. TypeOK /\ GateIsExclusive /\ PubInv /\ [Next]_vars => PubInv'
  <2> SUFFICES ASSUME TypeOK, GateIsExclusive, PubInv, [Next]_vars PROVE PubInv'
    OBVIOUS
  <2>1. \A p \in Publishers : Publishing(p) => subs' = subs
    BY StaticStep DEF tableVars
  <2>2. ASSUME NEW t \in Tasks, TaskStart(t) \/ TaskStep(t) PROVE PubInv'
    <3>1. UNCHANGED <<will, is_ok, pubVars>>
      BY <2>2 DEF TaskStart, TaskStep, TaskRefused, ConnTable, TaskGate, ContextTable, TaskEnd,
                  connVars
    <3> QED BY <2>1, <3>1, WalkKept
  <2>3. ASSUME NEW c \in Conns, Disconnect(c) \/ Cleanup(c) \/ ConnDown(c) PROVE PubInv'
    <3>1. UNCHANGED pubVars /\ will' \subseteq will /\ \A d \in Conns : is_ok'[d] => is_ok[d]
      BY <2>3 DEF Disconnect, Cleanup, ConnDown, TypeOK
    <3> QED BY <2>1, <3>1, WalkKept
  <2>4. CASE (MoveStep \/ CleanStep) /\ ~WillStart
    <3>1. UNCHANGED <<will, is_ok, pubVars>>
      BY <2>4 DEF MoveStep, MoveGate, MoveOffline, CleanStep, CleanSubs, CleanWild, CleanTable,
                  CleanGate, CleanEntry, NoWill, CleanUnref, connVars
    <3> QED BY <2>1, <3>1, WalkKept
  <2>5. CASE WillStart
    <3>1. PICK p \in Conns : p = reader.conn /\ p \in will /\ Start(p)
      BY <2>5, ReaderBusy DEF WillStart, TypeOK
    <3>2. TopicOf(p) \in Topics
      BY <3>1, SubscriptionsAssumption DEF PubInv, HasTopic, TopicOf
    <3> QED BY <3>1, <3>2, WalkStart DEF Publishers
  <2>6. ASSUME NEW p \in Pubs, PubStart(p) PROVE PubInv'
    BY <2>6, WalkStart DEF PubStart, Publishers, TopicOf
  <2>7. ASSUME NEW p \in Publishers, PubStep(p) PROVE PubInv'
    BY <2>7, WalkVisit, WalkDeliver, WalkGoesOn DEF PubStep
  <2>8. CASE UNCHANGED vars
    <3>1. UNCHANGED <<will, is_ok, pubVars>>
      BY <2>8 DEF vars, pubVars
    <3> QED BY <2>1, <3>1, WalkKept
  <2> QED BY <2>2, <2>3, <2>4, <2>5, <2>6, <2>7, <2>8 DEF Next
<1> QED BY <1>1, <1>2, TypeCorrect, GateCorrect, PTL DEF Spec

\* Once a publication is over, every connection that was subscribed when it began
\* got it or is down: the walk without a lock misses nobody, whoever subscribes,
\* unsubscribes or is cleaned up meanwhile.
THEOREM DueIsServedCorrect == Spec => []DueIsServed
<1>1. PubInv => DueIsServed
  BY DEF PubInv, WalkInv, Served, StillAhead, DueIsServed
<1> QED BY <1>1, PubInvariance, PTL

-----------------------------------------------------------------------------
(* A freed connection.                                                      *)

Same(t, u) == TaskConn[t] = TaskConn[u] /\ TaskFilter[t] = TaskFilter[u]

\* A request that changed its connection's table and not yet the context's.
Between(t) == task[t] \in {"registered", "inside"}

\* The requests of a settled connection came one at a time per filter ...
OneAtATime ==
    \A t, u \in Tasks :
        Unfinished(t) /\ Unfinished(u) /\ Same(t, u) /\ TaskConn[t] \notin unsettled => t = u

\* ... and were over when it was taken out of the reader's list.
NoneAfter == \A t \in Tasks : Unfinished(t) => TaskConn[t] \in watched \cup unsettled

\* The connection's table has what the request is about to do to the context's ...
Announced ==
    \A t \in Tasks : Between(t) /\ TaskConn[t] \notin unsettled =>
        (TaskKind[t] = "sub" => TaskFilter[t] \in conn_subs[TaskConn[t]])

\* ... which holds the connection only for filters in its own table, or that an
\* UNSUBSCRIBE is about to take out.
TableAgrees ==
    \A c \in Conns \ unsettled : \A f \in Filters : c \in subs[f] =>
        \/ f \in conn_subs[c]
        \/ \E t \in Tasks : /\ TaskConn[t] = c /\ TaskFilter[t] = f
                            /\ TaskKind[t] # "sub" /\ Between(t)

\* The clean-up is past the entry of c for filter f.
Passed(c, f) ==
    \/ c \notin watched /\ reader.conn # c
    \/ /\ reader.conn = c
       /\ \/ reader.at \in {"will", "publishing", "unref"}
          \/ reader.at \in {"clean_wild", "gate_wild"} /\ f \notin Wild
          \/ reader.at = "in_subs" /\ f \notin Wild /\ f \notin reader.todo
          \/ reader.at = "in_wild" /\ f \notin reader.todo

\* What the clean-up is past is gone, and its cursor has the rest ahead of it.
Cleaned(c) ==
    /\ \A f \in Filters : Passed(c, f) => c \notin subs[f]
    /\ reader.conn = c /\ reader.at = "gate_subs" => OwnFilters(c, FALSE) \subseteq reader.todo
    /\ reader.conn = c /\ reader.at = "gate_wild" => OwnFilters(c, TRUE) \subseteq reader.todo

CleanedInv == \A c \in Conns \ unsettled : Cleaned(c)

SettledInv == OneAtATime /\ NoneAfter /\ Announced /\ TableAgrees /\ CleanedInv

\* A step that changes no table, no request and nothing the reader is at.
LEMMA SettledKept ==
    ASSUME SettledInv, UNCHANGED <<task, subs, conn_subs, unsettled, watched, reader>>
    PROVE  SettledInv'
BY DEF SettledInv, OneAtATime, NoneAfter, Announced, TableAgrees, CleanedInv, Cleaned, Passed,
       OwnFilters, Unfinished, Between

\* The steps of a request that change the two tables of its connection.
LEMMA SettledConnTable ==
    ASSUME TypeOK, HeldOnce, SettledInv, NEW t \in Tasks, ConnTable(t)
    PROVE  SettledInv'
<1> DEFINE c == TaskConn[t]
           g == TaskFilter[t]
<1> USE DEF SettledInv
<1>1. /\ task[t] = "queued" /\ task' = [task EXCEPT ![t] = "registered"]
      /\ UNCHANGED <<subs, unsettled, watched, reader>>
      /\ c \in Conns /\ g \in Filters
  BY DEF ConnTable, connVars, tableVars
<1>2. /\ \A d \in Conns : d # c => conn_subs'[d] = conn_subs[d]
      /\ conn_subs'[c] = IF TaskKind[t] = "sub" THEN conn_subs[c] \cup {g} ELSE conn_subs[c] \ {g}
  BY <1>1 DEF ConnTable, TypeOK
<1>3. /\ \A u \in Tasks : Unfinished(u)' <=> Unfinished(u)
      /\ \A u \in Tasks : u # t => (Between(u)' <=> Between(u))
      /\ Unfinished(t) /\ ~Between(t) /\ Between(t)'
  BY <1>1 DEF TypeOK, Unfinished, Between
<1>4. OneAtATime'
  BY <1>1, <1>3 DEF OneAtATime
<1>5. NoneAfter'
  BY <1>1, <1>3 DEF NoneAfter
<1>6. ASSUME NEW u \in Tasks, Between(u)', TaskConn[u] \notin unsettled', TaskKind[u] = "sub"
      PROVE  TaskFilter[u] \in conn_subs'[TaskConn[u]]
  <2>1. CASE u = t
    BY <1>2, <1>6, <2>1
  <2>2. CASE u # t
    <3>1. Between(u) /\ Unfinished(u)
      BY <1>3, <1>6, <2>2 DEF Between, Unfinished
    <3>2. ~Same(u, t)
      BY <1>1, <1>3, <1>6, <2>2, <3>1 DEF OneAtATime
    <3>3. TaskFilter[u] \in conn_subs[TaskConn[u]]
      BY <1>1, <1>6, <3>1 DEF Announced
    <3> QED BY <1>2, <3>2, <3>3 DEF Same
  <2> QED BY <2>1, <2>2
<1>7. ASSUME NEW d \in Conns \ unsettled', NEW f \in Filters, d \in subs'[f]
      PROVE  \/ f \in conn_subs'[d]
             \/ \E u \in Tasks : /\ TaskConn[u] = d /\ TaskFilter[u] = f
                                 /\ TaskKind[u] # "sub" /\ Between(u)'
  <2>1. CASE d = c /\ f = g
    BY <1>2, <1>3, <2>1
  <2>2. CASE ~(d = c /\ f = g)
    <3>1. \/ f \in conn_subs[d]
          \/ \E u \in Tasks : /\ TaskConn[u] = d /\ TaskFilter[u] = f
                              /\ TaskKind[u] # "sub" /\ Between(u)
      BY <1>1, <1>7 DEF TableAgrees
    <3>2. CASE f \in conn_subs[d]
      BY <1>2, <2>2, <3>2
    <3>3. CASE \E u \in Tasks : /\ TaskConn[u] = d /\ TaskFilter[u] = f
                                /\ TaskKind[u] # "sub" /\ Between(u)
      BY <1>3, <3>3
    <3> QED BY <3>1, <3>2, <3>3
  <2> QED BY <2>1, <2>2
<1>8. ASSUME NEW d \in Conns \ unsettled' PROVE Cleaned(d)'
  <2>1. Cleaned(d)
    BY <1>1, <1>8 DEF CleanedInv
  <2>2. d = c => d \in watched
    BY <1>1, <1>3, <1>8 DEF NoneAfter
  <2>3. reader.conn = d /\ reader.at \in {"gate_subs", "gate_wild"} => d # c
    BY <2>2 DEF HeldOnce
  <2>4. d # c => conn_subs'[d] = conn_subs[d]
    BY <1>2, <1>8
  <2> QED BY <1>1, <2>1, <2>3, <2>4 DEF Cleaned, Passed, OwnFilters
<1> QED BY <1>4, <1>5, <1>6, <1>7, <1>8 DEF Announced, TableAgrees, CleanedInv

LEMMA SettledContextTable ==
    ASSUME TypeOK, HeldOnce, SettledInv, NEW t \in Tasks, ContextTable(t)
    PROVE  SettledInv'
<1> DEFINE c == TaskConn[t]
           g == TaskFilter[t]
<1> USE DEF SettledInv
<1>1. /\ task[t] = "inside" /\ task' = [task EXCEPT ![t] = "answered"]
      /\ UNCHANGED <<conn_subs, unsettled, watched, reader>>
      /\ c \in Conns /\ g \in Filters
  BY DEF ContextTable, connVars, tableVars
<1>2. /\ \A f \in Filters : f # g => subs'[f] = subs[f]
      /\ subs'[g] = IF TaskKind[t] = "sub" THEN subs[g] \cup {c} ELSE subs[g] \ {c}
  BY <1>1 DEF ContextTable, TypeOK
<1>3. /\ \A u \in Tasks : Unfinished(u)' <=> Unfinished(u)
      /\ \A u \in Tasks : u # t => (Between(u)' <=> Between(u))
      /\ Unfinished(t) /\ Between(t) /\ ~Between(t)'
  BY <1>1 DEF TypeOK, Unfinished, Between
<1>4. OneAtATime'
  BY <1>1, <1>3 DEF OneAtATime
<1>5. NoneAfter'
  BY <1>1, <1>3 DEF NoneAfter
<1>6. Announced'
  BY <1>1, <1>3 DEF Announced
<1>7. ASSUME NEW d \in Conns \ unsettled', NEW f \in Filters, d \in subs'[f]
      PROVE  \/ f \in conn_subs'[d]
             \/ \E u \in Tasks : /\ TaskConn[u] = d /\ TaskFilter[u] = f
                                 /\ TaskKind[u] # "sub" /\ Between(u)'
  <2>1. CASE d = c /\ f = g
    <3>1. TaskKind[t] = "sub"
      BY <1>2, <1>7, <2>1
    <3> QED BY <1>1, <1>3, <1>7, <2>1, <3>1 DEF Announced
  <2>2. CASE ~(d = c /\ f = g)
    <3>1. d \in subs[f]
      BY <1>2, <1>7, <2>2
    <3>2. \/ f \in conn_subs[d]
          \/ \E u \in Tasks : /\ TaskConn[u] = d /\ TaskFilter[u] = f
                              /\ TaskKind[u] # "sub" /\ Between(u)
      BY <1>1, <1>7, <3>1 DEF TableAgrees
    <3> QED BY <1>1, <1>3, <2>2, <3>2
  <2> QED BY <2>1, <2>2
<1>8. ASSUME NEW d \in Conns \ unsettled' PROVE Cleaned(d)'
  <2>1. Cleaned(d)
    BY <1>1, <1>8 DEF CleanedInv
  <2>2. d = c => d \in watched
    BY <1>1, <1>3, <1>8 DEF NoneAfter
  <2>3. ASSUME NEW f \in Filters, Passed(d, f)' PROVE d \notin subs'[f]
    <3>1. Passed(d, f)
      BY <1>1, <2>3 DEF Passed
    <3>2. d # c
      BY <2>2, <3>1 DEF HeldOnce, Passed
    <3> QED BY <1>2, <1>8, <2>1, <3>1, <3>2 DEF Cleaned
  <2> QED BY <1>1, <2>1, <2>3 DEF Cleaned, OwnFilters
<1> QED BY <1>4, <1>5, <1>6, <1>7, <1>8 DEF TableAgrees, CleanedInv

\* Its other steps.
LEMMA SettledTask ==
    ASSUME TypeOK, SettledInv, NEW t \in Tasks,
           TaskStart(t) \/ TaskRefused(t) \/ TaskGate(t) \/ TaskEnd(t)
    PROVE  SettledInv'
<1> USE DEF SettledInv
<1>1. /\ UNCHANGED <<conn_subs, subs, watched, reader>>
      /\ unsettled \subseteq unsettled'
      /\ TaskStart(t) \/ unsettled' = unsettled
  BY DEF TaskStart, TaskRefused, TaskGate, TaskEnd, connVars, tableVars
<1>2. /\ \A u \in Tasks : u # t => (Unfinished(u)' <=> Unfinished(u))
      /\ Unfinished(t)' => Unfinished(t) \/ TaskStart(t)
      /\ \A u \in Tasks : Between(u)' <=> Between(u)
  BY DEF TypeOK, Unfinished, Between, TaskStart, TaskRefused, TaskGate, TaskEnd
<1>3. OneAtATime'
  <2> SUFFICES ASSUME NEW u \in Tasks, NEW v \in Tasks, Unfinished(u)', Unfinished(v)', Same(u, v),
                      TaskConn[u] \notin unsettled'
               PROVE  u = v
    BY DEF OneAtATime, Same
  <2>1. CASE TaskStart(t)
    <3>1. (\E w \in Tasks : w # t /\ Unfinished(w) /\ Same(w, t)) => TaskConn[t] \in unsettled'
      BY <2>1 DEF TaskStart, Same
    <3> QED BY <1>1, <1>2, <3>1 DEF OneAtATime, Same
  <2>2. CASE ~TaskStart(t)
    BY <1>1, <1>2, <2>2 DEF OneAtATime, Same
  <2> QED BY <2>1, <2>2
<1>4. NoneAfter'
  <2>1. TaskStart(t) => TaskConn[t] \in watched
    BY DEF TaskStart
  <2> QED BY <1>1, <1>2, <2>1 DEF NoneAfter
<1>5. Announced'
  BY <1>1, <1>2 DEF Announced
<1>6. TableAgrees'
  BY <1>1, <1>2 DEF TableAgrees
<1>7. CleanedInv'
  BY <1>1 DEF CleanedInv, Cleaned, Passed, OwnFilters
<1> QED BY <1>3, <1>4, <1>5, <1>6, <1>7

\* A step of the reader that changes no table: what it does to its cursor decides.
LEMMA SettledReader ==
    ASSUME TypeOK, SettledInv, UNCHANGED <<task, subs, conn_subs>>,
           unsettled \subseteq unsettled',
           \A t \in Tasks : Unfinished(t) /\ TaskConn[t] \in watched
                               => TaskConn[t] \in watched' \cup unsettled',
           \A c \in Conns \ unsettled' : Cleaned(c)'
    PROVE  SettledInv'
<1> USE DEF SettledInv
<1>1. \A t \in Tasks : (Unfinished(t)' <=> Unfinished(t)) /\ (Between(t)' <=> Between(t))
  BY DEF Unfinished, Between
<1>2. OneAtATime'
  BY <1>1 DEF OneAtATime
<1>3. NoneAfter'
  BY <1>1 DEF NoneAfter
<1>4. Announced'
  BY <1>1 DEF Announced
<1>5. TableAgrees'
  BY <1>1 DEF TableAgrees
<1> QED BY <1>2, <1>3, <1>4, <1>5 DEF CleanedInv

\* Taking a connection out of the list, and what goes before that.
LEMMA SettledDown ==
    ASSUME TypeOK, HeldOnce, SettledInv, NEW c \in Conns, Disconnect(c) \/ Cleanup(c)
    PROVE  SettledInv'
<1> USE DEF SettledInv
<1>1. UNCHANGED <<task, subs, conn_subs>> /\ unsettled \subseteq unsettled'
  BY DEF Disconnect, Cleanup, tableVars
<1>2. reader.conn = None
  BY DEF Disconnect, Cleanup, TypeOK, Idle, AtWork, ReaderSteps
<1>3. \A t \in Tasks : Unfinished(t) /\ TaskConn[t] \in watched
                           => TaskConn[t] \in watched' \cup unsettled'
  BY DEF Disconnect, Cleanup
<1>4. ASSUME NEW d \in Conns \ unsettled' PROVE Cleaned(d)'
  <2>1. Cleaned(d)
    BY <1>1, <1>4 DEF CleanedInv
  <2>2. CASE Disconnect(c)
    <3>1. watched' = watched /\ c \in watched
      BY <2>2 DEF Disconnect
    <3>2. \/ reader'.at = "move" /\ reader'.conn = c
          \/ reader'.at = "idle" /\ reader'.conn = None
      BY <2>2 DEF Disconnect, Idle
    <3>3. \A f \in Filters : Passed(d, f)' => Passed(d, f)
      BY <1>2, <3>1, <3>2 DEF Passed
    <3> QED BY <1>1, <2>1, <3>2, <3>3 DEF Cleaned
  <2>3. CASE Cleanup(c)
    <3>1. watched' = watched \ {c} /\ reader'.at = "clean_subs" /\ reader'.conn = c
      BY <2>3 DEF Cleanup
    <3>2. \A f \in Filters : Passed(d, f)' => Passed(d, f)
      BY <1>2, <3>1 DEF Passed
    <3> QED BY <1>1, <2>1, <3>1, <3>2 DEF Cleaned
  <2> QED BY <2>2, <2>3
<1> QED BY <1>1, <1>3, <1>4, SettledReader

LEMMA SettledMove ==
    ASSUME TypeOK, HeldOnce, SettledInv, MoveStep
    PROVE  SettledInv'
<1> USE DEF SettledInv
<1>1. UNCHANGED <<task, subs, conn_subs, unsettled, watched>>
  BY DEF MoveStep, MoveGate, MoveOffline, connVars, tableVars
<1>2. reader.at \in {"move", "moving"} /\ reader \in AtWork
  <2>1. reader.at \in {"move", "moving"}
    BY DEF MoveStep, MoveGate, MoveOffline
  <2> QED BY <2>1, ReaderBusy DEF TypeOK
<1>3. \/ reader'.at \in {"move", "moving"} /\ reader'.conn = reader.conn
      \/ reader'.at = "idle" /\ reader'.conn = None
  <2>1. CASE MoveGate
    BY <1>2, <2>1 DEF MoveGate, AtWork
  <2>2. CASE MoveOffline
    BY <1>2, <2>2 DEF MoveOffline, AtWork, Idle
  <2> QED BY <2>1, <2>2 DEF MoveStep
<1>4. ASSUME NEW d \in Conns \ unsettled' PROVE Cleaned(d)'
  <2>1. Cleaned(d)
    BY <1>1, <1>4 DEF CleanedInv
  <2>2. \A f \in Filters : Passed(d, f)' => Passed(d, f)
    BY <1>1, <1>2, <1>3 DEF Passed, HeldOnce
  <2> QED BY <1>1, <1>3, <2>1, <2>2 DEF Cleaned
<1> QED BY <1>1, <1>4, SettledReader

\* The steps of the clean-up.  The connection has left the list: if it is settled no
\* request of it is unfinished, and the context's tables hold it for its own filters
\* only, which the cursor passes.
LEMMA SettledClean ==
    ASSUME TypeOK, HeldOnce, SettledInv, CleanStep
    PROVE  SettledInv'
<1> USE DEF SettledInv
<1>1. PICK c \in Conns : c = reader.conn /\ c \notin watched
  <2>1. reader.at \notin {"idle", "move", "moving"}
    BY CleanGoesOn DEF CleanUnref
  <2> QED BY <2>1, ReaderBusy DEF TypeOK, HeldOnce
<1>2. reader \in AtWork
  BY <1>1, CleanGoesOn, ReaderBusy DEF TypeOK, CleanUnref
<1>3. UNCHANGED <<task, conn_subs, unsettled, watched>>
  BY CleanGoesOn DEF CleanUnref
<1>4. \A f \in Filters : c \notin unsettled /\ c \in subs[f] => f \in conn_subs[c]
  BY <1>1 DEF TableAgrees, NoneAfter, Between, Unfinished
<1>5. ASSUME subs' = subs,
             \A d \in Conns : d # c => (reader'.conn # d),
             c \notin unsettled => Cleaned(c)'
      PROVE  SettledInv'
  <2>1. ASSUME NEW d \in Conns \ unsettled', d # c PROVE Cleaned(d)'
    BY <1>1, <1>3, <1>5, <2>1 DEF CleanedInv, Cleaned, Passed
  <2>2. \A d \in Conns \ unsettled' : Cleaned(d)'
    BY <1>3, <1>5, <2>1
  <2>3. \A t \in Tasks : Unfinished(t) /\ TaskConn[t] \in watched
                             => TaskConn[t] \in watched' \cup unsettled'
    BY <1>3
  <2> QED BY <1>3, <1>5, <2>2, <2>3, SettledReader
<1>6. ASSUME NEW at, NEW gate, NEW next, NEW wild_card, CleanTable(at, gate, next, wild_card),
             \/ /\ at = "clean_subs" /\ gate = "gate_subs"
                /\ next = "clean_wild" /\ wild_card = FALSE
             \/ /\ at = "clean_wild" /\ gate = "gate_wild"
                /\ next = "will" /\ wild_card = TRUE
      PROVE  SettledInv'
  <2>1. subs' = subs /\ reader'.conn = c /\ reader.at = at
    BY <1>1, <1>2, <1>6 DEF CleanTable, AtWork, tableVars
  <2>2. \/ OwnFilters(c, wild_card) = {} /\ reader'.at = next
        \/ reader'.at = gate /\ reader'.todo = OwnFilters(c, wild_card)
    BY <1>1, <1>2, <1>6 DEF CleanTable, AtWork
  <2>3. ASSUME c \notin unsettled PROVE Cleaned(c)'
    <3>1. Cleaned(c)
      BY <2>3 DEF CleanedInv
    <3>2. ASSUME NEW f \in Filters, Passed(c, f)' PROVE c \notin subs'[f]
      <4>1. CASE at = "clean_subs"
        BY <1>1, <1>3, <1>4, <1>6, <2>1, <2>2, <2>3, <3>2, <4>1 DEF Passed, OwnFilters
      <4>2. CASE at = "clean_wild"
        <5>1. f \notin Wild => c \notin subs[f]
          BY <1>1, <2>1, <3>1, <4>2 DEF Cleaned, Passed
        <5> QED BY <1>1, <1>3, <1>4, <1>6, <2>1, <2>2, <2>3, <3>2, <4>2, <5>1 DEF Passed, OwnFilters
      <4> QED BY <1>6, <4>1, <4>2
    <3> QED BY <1>3, <1>6, <2>2, <3>2 DEF Cleaned, OwnFilters
  <2> QED BY <1>5, <2>1, <2>3
<1>7. ASSUME NEW gate, NEW inside, NEW wild_card, CleanGate(gate, inside, wild_card),
             \/ gate = "gate_subs" /\ inside = "in_subs" /\ wild_card = FALSE
             \/ gate = "gate_wild" /\ inside = "in_wild" /\ wild_card = TRUE
      PROVE  SettledInv'
  <2>1. subs' = subs /\ reader'.conn = c /\ reader.at = gate /\ reader'.at = inside
    BY <1>1, <1>2, <1>7 DEF CleanGate, AtWork, tableVars
  <2>2. reader.todo \cap conn_subs[c] \subseteq reader'.todo
    BY <1>1, <1>2, <1>7 DEF CleanGate, AtWork
  <2>3. ASSUME c \notin unsettled PROVE Cleaned(c)'
    <3>1. Cleaned(c)
      BY <2>3 DEF CleanedInv
    <3>2. OwnFilters(c, wild_card) \subseteq reader.todo
      BY <1>1, <1>7, <2>1, <3>1 DEF Cleaned
    <3>3. ASSUME NEW f \in Filters, Passed(c, f)' PROVE c \notin subs'[f]
      <4>1. CASE gate = "gate_subs"
        BY <1>1, <1>3, <1>4, <1>7, <2>1, <2>2, <2>3, <3>2, <3>3, <4>1 DEF Passed, OwnFilters
      <4>2. CASE gate = "gate_wild"
        <5>1. f \notin Wild => c \notin subs[f]
          BY <1>1, <2>1, <3>1, <4>2 DEF Cleaned, Passed
        <5> QED
          BY <1>1, <1>3, <1>4, <1>7, <2>1, <2>2, <2>3, <3>2, <3>3, <4>2, <5>1 DEF Passed, OwnFilters
      <4> QED BY <1>7, <4>1, <4>2
    <3> QED BY <1>7, <2>1, <3>3 DEF Cleaned
  <2> QED BY <1>5, <2>1, <2>3
<1>8. ASSUME NEW inside, NEW next, CleanEntry(inside, next),
             \/ inside = "in_subs" /\ next = "clean_wild"
             \/ inside = "in_wild" /\ next = "will"
      PROVE  SettledInv'
  <2>1. reader.at = inside
    BY <1>8 DEF CleanEntry
  <2>2. CASE reader.todo = {} /\ reader' = [reader EXCEPT !.at = next] /\ subs' = subs
    <3>1. reader'.conn = c /\ reader'.at = next
      BY <1>1, <1>2, <2>2 DEF AtWork
    <3>2. ASSUME c \notin unsettled PROVE Cleaned(c)'
      <4>1. Cleaned(c)
        BY <3>2 DEF CleanedInv
      <4>2. \A f \in Filters : Passed(c, f)' => Passed(c, f)
        BY <1>1, <1>8, <2>1, <2>2, <3>1 DEF Passed
      <4> QED BY <1>8, <2>2, <3>1, <4>1, <4>2 DEF Cleaned
    <3> QED BY <1>5, <2>2, <3>1, <3>2
  <2>3. ASSUME NEW g \in reader.todo, subs' = [subs EXCEPT ![g] = @ \ {c}],
               reader' = [reader EXCEPT !.todo = @ \ {g}]
        PROVE  SettledInv'
    <3>1. /\ reader'.conn = c /\ reader'.at = inside /\ reader'.todo = reader.todo \ {g}
          /\ g \in Filters
      BY <1>1, <1>2, <2>1, <2>3 DEF AtWork
    <3>2. /\ \A f \in Filters : f # g => subs'[f] = subs[f]
          /\ subs'[g] = subs[g] \ {c}
      BY <2>3, <3>1 DEF TypeOK
    <3>3. ASSUME NEW d \in Conns \ unsettled' PROVE Cleaned(d)'
      <4>1. Cleaned(d)
        BY <1>3, <3>3 DEF CleanedInv
      <4>2. ASSUME NEW f \in Filters, Passed(d, f)' PROVE d \notin subs'[f]
        <5>1. (d = c /\ f = g) \/ Passed(d, f)
          BY <1>1, <1>3, <2>1, <3>1, <4>2 DEF Passed
        <5> QED BY <3>2, <4>1, <5>1 DEF Cleaned
      <4> QED BY <1>8, <3>1, <4>2 DEF Cleaned
    <3>4. \A t \in Tasks : (Unfinished(t)' <=> Unfinished(t)) /\ (Between(t)' <=> Between(t))
      BY <1>3 DEF Unfinished, Between
    <3>5. OneAtATime' /\ NoneAfter'
      BY <1>3, <3>4 DEF OneAtATime, NoneAfter
    <3>6. Announced'
      BY <1>3, <3>4 DEF Announced
    <3>7. TableAgrees'
      BY <1>3, <3>2, <3>4 DEF TableAgrees
    <3> QED BY <3>3, <3>5, <3>6, <3>7 DEF CleanedInv
  <2> QED BY <1>1, <1>8, <2>2, <2>3 DEF CleanEntry
<1>9. CASE NoWill \/ WillStart
  <2>1. /\ reader.at \in {"will", "publishing"} /\ reader'.at \in {"publishing", "unref"}
        /\ reader'.conn = c /\ subs' = subs
    BY <1>1, <1>2, <1>9 DEF NoWill, WillStart, Start, AtWork, tableVars
  <2>2. ASSUME c \notin unsettled PROVE Cleaned(c)'
    <3>1. Cleaned(c)
      BY <2>2 DEF CleanedInv
    <3> QED BY <1>1, <2>1, <3>1 DEF Cleaned, Passed
  <2> QED BY <1>5, <2>1, <2>2
<1>10. CASE CleanUnref
  <2>1. reader.at = "unref" /\ reader'.at = "idle" /\ reader'.conn = None /\ subs' = subs
    BY <1>10 DEF CleanUnref, Idle, tableVars
  <2>2. ASSUME c \notin unsettled PROVE Cleaned(c)'
    <3>1. Cleaned(c)
      BY <2>2 DEF CleanedInv
    <3> QED BY <1>1, <2>1, <3>1 DEF Cleaned, Passed
  <2> QED BY <1>5, <2>1, <2>2, SubscriptionsAssumption
<1> QED BY <1>6, <1>7, <1>8, <1>9, <1>10 DEF CleanStep, CleanSubs, CleanWild

LEMMA SettledInvariance == Spec => []SettledInv
<1>1. Init => SettledInv
  BY DEF Init, SettledInv, OneAtATime, NoneAfter, Announced, TableAgrees, CleanedInv, Cleaned, Passed,
         Unfinished, Between, Idle
<1>2. TypeOK /\ RefsInv /\ SettledInv /\ [Next]_vars => SettledInv'
  <2> SUFFICES ASSUME TypeOK, HeldOnce, SettledInv, [Next]_vars PROVE SettledInv'
    BY DEF RefsInv
  <2>1. ASSUME NEW t \in Tasks, TaskStart(t) \/ TaskStep(t) PROVE SettledInv'
    BY <2>1, SettledTask, SettledConnTable, SettledContextTable DEF TaskStep
  <2>2. ASSUME NEW c \in Conns, Disconnect(c) \/ Cleanup(c) PROVE SettledInv'
    BY <2>2, SettledDown
  <2>3. CASE MoveStep
    BY <2>3, SettledMove
  <2>4. CASE CleanStep
    BY <2>4, SettledClean
  <2>5. ASSUME \/ \E c \in Conns : ConnDown(c)
               \/ \E p \in Publishers : PubStart(p) \/ PubStep(p)
               \/ UNCHANGED vars
        PROVE  SettledInv'
    <3>1. UNCHANGED <<task, subs, conn_subs, unsettled, watched, reader>>
      BY <2>5 DEF ConnDown, PubStart, Start, PubStep, Visit, Deliver, Acknowledged, GiveUp, WaitEnds,
                  QueueOffline, PubEnd, connVars, tableVars, vars
    <3> QED BY <3>1, SettledKept
  <2> QED BY <2>1, <2>2, <2>3, <2>4, <2>5 DEF Next, Publishers
<1> QED BY <1>1, <1>2, TypeCorrect, RefsInvariance, PTL DEF Spec

\* A freed connection is in no table and under no publication, however its requests,
\* its DISCONNECT, its clean-up and the publications interleave, if its requests came
\* one at a time per filter and were over when it was cleaned up.
THEOREM FreedIsUnusedCorrect == Spec => []FreedIsUnused
<1>1. TypeOK /\ RefsInv /\ PubInv /\ SettledInv => FreedIsUnused
  <2> SUFFICES ASSUME TypeOK, RefsInv, PubInv, SettledInv,
                      NEW c \in Conns, ref_count[c] <= 0, c \notin unsettled
               PROVE  /\ \A p \in Publishers : visiting[p] = None \/ visiting[p][2] # c
                      /\ \A f \in Filters : c \notin subs[f]
    BY DEF FreedIsUnused
  <2>1. Cardinality(TasksOf(c)) \in Nat
    BY FS_Subset, FS_CardinalityType DEF TasksOf
  <2>2. ~OfReader(c)
    BY <2>1 DEF RefsInv, Balanced
  <2>3. \A f \in Filters : c \notin subs[f]
    BY <2>2 DEF SettledInv, CleanedInv, Cleaned, Passed, OfReader
  <2>4. ASSUME NEW p \in Publishers, visiting[p] # None PROVE visiting[p][2] # c
    <3>1. visiting[p] \in Entries /\ visiting[p][2] \in subs[visiting[p][1]]
      BY <2>4 DEF PubInv, VisitInv
    <3> QED BY <2>3, <3>1 DEF Entries
  <2> QED BY <2>3, <2>4
<1> QED BY <1>1, TypeCorrect, RefsInvariance, PubInvariance, SettledInvariance, PTL
=============================================================================
