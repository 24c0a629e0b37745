--------------------------- MODULE SessionsProofs ---------------------------
(***************************************************************************)
(* Proofs about module Sessions: what was granted is stored, a client that *)
(* comes back is subscribed to it before it gets CONNACK, and the tables   *)
(* agree and hold what was granted in between.                             *)
(*                                                                         *)
(* Both rest on who may work on a session: as long as its identifier was   *)
(* not given away too early, one connection at a time (OneAtWork).         *)
(***************************************************************************)
EXTENDS Sessions, TLAPS

Working == {"registered", "recovering", "recover_ctx", "move_exact",
            "move_wild", "accepting"} \cup RequestSteps

\* A task that registers or removes a subscription knows its filter.
HasFilter == \A c \in Conns :
                at[c] \in RequestSteps \cup {"recover_ctx"} => filter[c] \in Filters

TypeInv == TypeOK /\ HasFilter

\* The connection is, or may get, at work on its session.
Active(c) == at[c] \in Working \/ (at[c] = "ready" /\ watched[c])

OneAtWork ==
    \A c, d \in Conns :
        Active(c) /\ Active(d) /\ ClientOf[c] = ClientOf[d] /\ c # d
            => ClientOf[c] \in taken

\* What SUBSCRIBE is about to grant is stored.
PendingIsStored ==
    \A c \in Conns \ Clean :
        at[c] \in {"sub_conn", "sub_ctx", "suback"} /\ ClientOf[c] \notin taken
            => filter[c] \in disk[ClientOf[c]]

\* What UNSUBSCRIBE is about to remove is not granted any more.
GivenUp ==
    \A c \in Conns \ Clean :
        at[c] \in {"unsub_store", "unsub_conn", "unsub_ctx"}
          /\ ClientOf[c] \notin taken
            => filter[c] \notin granted[ClientOf[c]]

StoredInv == OneAtWork /\ PendingIsStored /\ GivenUp /\ GrantedIsStored

\* The reader cleans up connections that are closed and that it holds.
ReaderInv ==
    /\ \A c \in Conns : is_ok[c] => watched[c]
    /\ reader.at \in {"clean_id", "clean_exact", "clean_wild"}
         => ~is_ok[reader.conn] /\ watched[reader.conn]

\* How much of the session the connection has got back, step by step.
Whole(c) ==
    LET owed == granted[ClientOf[c]]
    IN  /\ at[c] \in {"move_exact", "move_wild", "accepting", "ready"}
                     \cup RequestSteps
             => owed \subseteq Online(c)
        /\ at[c] = "recovering" => owed \subseteq todo[c] \cup Online(c)
        /\ at[c] = "recover_ctx"
             => owed \subseteq todo[c] \cup {filter[c]} \cup Online(c)
        /\ at[c] = "suback" => filter[c] \in Online(c)

OnlineInv ==
    \A c \in Conns \ Clean : is_ok[c] /\ ClientOf[c] \notin taken => Whole(c)

SessionsInv == TypeInv /\ StoredInv /\ ReaderInv /\ OnlineInv

-----------------------------------------------------------------------------

USE SessionsAssumption

\* Types: the initial states, then each kind of step.
LEMMA InitType == Init => TypeInv
  BY DEF Init, TypeInv, TypeOK, HasFilter, ConnectSteps, RequestSteps, Steps, Idle

LEMMA ConnectType ==
  ASSUME TypeInv, NEW c \in Conns, ConnectTask(c)
  PROVE  TypeInv'
<1> USE DEF TypeInv, TypeOK, HasFilter, Steps, ConnectSteps, RequestSteps, Goes,
            connVars, tableVars, pastVars
<1>1. CASE CheckClientId(c)
  BY <1>1 DEF CheckClientId
<1>2. CASE StorageFails(c)
  BY <1>2 DEF StorageFails
<1>3. CASE Refuse(c)
  BY <1>3 DEF Refuse
<1>4. CASE Clear(c)
  BY <1>4 DEF Clear
<1>5. CASE Recover(c)
  BY <1>5 DEF Recover
<1>6. CASE RecoverConn(c)
  BY <1>6 DEF RecoverConn
<1>7. CASE RecoverContext(c)
  BY <1>7 DEF RecoverContext
<1>8. CASE RecoverEnd(c)
  BY <1>8 DEF RecoverEnd
<1>9. CASE MoveOnline(c, "move_exact", "move_wild", Filters \ Wild)
  BY <1>9 DEF MoveOnline
<1>10. CASE MoveOnline(c, "move_wild", "accepting", Wild)
  BY <1>10 DEF MoveOnline
<1>11. CASE Accept(c)
  BY <1>11 DEF Accept
<1>12. CASE Deny(c)
  BY <1>12 DEF Deny
<1>q. QED
  BY <1>1, <1>2, <1>3, <1>4, <1>5, <1>6, <1>7, <1>8, <1>9, <1>10, <1>11, <1>12, ConnectTask(c) DEF ConnectTask

LEMMA RequestType ==
  ASSUME TypeInv, NEW c \in Conns, RequestTask(c)
  PROVE  TypeInv'
<1> USE DEF TypeInv, TypeOK, HasFilter, Steps, ConnectSteps, RequestSteps, Goes,
            connVars, tableVars, pastVars
<1>1. CASE StoreSub(c)
  BY <1>1 DEF StoreSub, Stored
<1>2. CASE StoreSubFails(c)
  BY <1>2 DEF StoreSubFails
<1>3. CASE SubConn(c)
  BY <1>3 DEF SubConn
<1>4. CASE SubContext(c)
  BY <1>4 DEF SubContext
<1>5. CASE Suback(c)
  BY <1>5 DEF Suback
<1>6. CASE UnsubStore(c)
  BY <1>6 DEF UnsubStore
<1>7. CASE UnsubConn(c)
  BY <1>7 DEF UnsubConn
<1>8. CASE UnsubContext(c)
  BY <1>8 DEF UnsubContext, Without
<1>9. CASE Unsuback(c)
  BY <1>9 DEF Unsuback
<1>q. QED
  BY <1>1, <1>2, <1>3, <1>4, <1>5, <1>6, <1>7, <1>8, <1>9, RequestTask(c) DEF RequestTask

LEMMA ClientType ==
  ASSUME TypeInv, NEW c \in Conns, Client(c) \/ ConnDown(c) \/ Cleanup(c)
  PROVE  TypeInv'
<1> USE DEF TypeInv, TypeOK, HasFilter, Steps, ConnectSteps, RequestSteps,
            ReaderSteps, Reads, Goes, connVars, taskVars, tableVars, pastVars
<1>1. CASE NewConn(c)
  BY <1>1 DEF NewConn
<1>2. CASE Connect(c)
  BY <1>2 DEF Connect
<1>3. CASE Subscribe(c)
  BY <1>3 DEF Subscribe, Request
<1>4. CASE Unsubscribe(c)
  BY <1>4 DEF Unsubscribe, Request
<1>5. CASE Disconnect(c)
  BY <1>5 DEF Disconnect
<1>6. CASE ConnDown(c)
  BY <1>6 DEF ConnDown
<1>7. CASE Cleanup(c)
  BY <1>7 DEF Cleanup
<1>q. QED
  BY <1>1, <1>2, <1>3, <1>4, <1>5, <1>6, <1>7, Client(c) \/ ConnDown(c) \/ Cleanup(c)
  DEF Client

LEMMA ReaderType ==
  ASSUME TypeInv, ReleaseId \/ MoveOffline \/ CleanId \/ CleanExact \/ CleanWild
  PROVE  TypeInv'
<1> USE DEF TypeInv, TypeOK, HasFilter, ReaderSteps, connVars, taskVars, tableVars, pastVars
<1>1. CASE ReleaseId
  <2> DEFINE c == reader.conn
  <2>1. c \in Conns /\ reader = [at |-> "release", conn |-> c, left |-> reader.left]
        /\ reader.left \in SUBSET Filters
    BY <1>1 DEF ReleaseId, Idle
  <2>2. reader' \in [at : ReaderSteps, conn : Conns, left : SUBSET Filters]
                    \cup {Idle}
    BY <1>1, <2>1 DEF ReleaseId
  <2>3. client_ids' \in [Ids -> Conns \cup {None}]
    BY <1>1, <2>1 DEF ReleaseId, Unregistered
  <2>4. QED
    BY <1>1, <2>2, <2>3 DEF ReleaseId
<1>2. CASE MoveOffline
  BY <1>2 DEF MoveOffline, Entry, Idle
<1>3. CASE CleanId
  BY <1>3 DEF CleanId, Unregistered, Idle
<1>4. CASE CleanExact
  BY <1>4 DEF CleanExact, CleanTable, Idle
<1>5. CASE CleanWild
  BY <1>5 DEF CleanWild, CleanTable, Idle
<1>q. QED
  BY <1>1, <1>2, <1>3, <1>4, <1>5,
     ReleaseId \/ MoveOffline \/ CleanId \/ CleanExact \/ CleanWild

LEMMA RestartType == ASSUME TypeInv, Restart PROVE TypeInv'
<1>1. UNION {disk[i] \X {i} : i \in Ids} \subseteq Filters \X Ids
  BY DEF TypeInv, TypeOK, HasFilter
<1>2. QED
  BY <1>1 DEF TypeInv, TypeOK, HasFilter, Restart, Steps, RequestSteps

LEMMA TypeStep == TypeInv /\ [Next]_vars => TypeInv'
<1>1. ASSUME TypeInv, UNCHANGED vars PROVE TypeInv'
  BY <1>1 DEF TypeInv, TypeOK, HasFilter, vars
<1>2. QED
  BY <1>1, ConnectType, RequestType, ClientType, ReaderType, RestartType
  DEF Next, Reader

-----------------------------------------------------------------------------
(* One connection works on a session at a time.                             *)

\* A step of the client, or of the task that works for its connection.
Own(c) == Client(c) \/ ConnectTask(c) \/ RequestTask(c)

\* An identifier given away too early is never taken for one that was not.
LEMMA TakenGrows == [Next]_vars => taken \subseteq taken'
<1> USE DEF pastVars
<1>1. ASSUME NEW c \in Conns, ConnectTask(c) PROVE taken \subseteq taken'
  BY <1>1 DEF ConnectTask, CheckClientId, StorageFails, Refuse, Clear, Recover,
              RecoverConn, RecoverContext, RecoverEnd, MoveOnline, Accept, Deny
<1>2. ASSUME NEW c \in Conns, RequestTask(c) PROVE taken \subseteq taken'
  BY <1>2 DEF RequestTask, StoreSub, StoreSubFails, SubConn, SubContext, Suback,
              UnsubStore, UnsubConn, UnsubContext, Unsuback
<1>3. ASSUME NEW c \in Conns, Client(c) \/ ConnDown(c) PROVE taken \subseteq taken'
  BY <1>3 DEF Client, ConnDown, NewConn, Connect, Subscribe, Unsubscribe, Request,
              Disconnect
<1>4. ASSUME Reader \/ Restart \/ UNCHANGED vars PROVE taken \subseteq taken'
  BY <1>4 DEF Reader, ReleaseId, MoveOffline, CleanId, CleanExact, CleanWild,
              Cleanup, Restart, vars
<1>5. QED
  BY <1>1, <1>2, <1>3, <1>4 DEF Next

\* A step of a connection or of one of its tasks touches no other connection,
\* and what is stored of a session only if it works on that session.
LEMMA TaskOnly ==
  ASSUME TypeInv, NEW d \in Conns, Own(d)
  PROVE  /\ \A c \in Conns \ {d} :
              /\ at'[c] = at[c] /\ filter'[c] = filter[c] /\ todo'[c] = todo[c]
              /\ is_ok'[c] = is_ok[c] /\ watched'[c] = watched[c]
              /\ \A f \in Filters : <<f, c>> \in subs' <=> <<f, c>> \in subs
         /\ \A i \in Ids : i # ClientOf[d] \/ ~Active(d)
              => disk'[i] = disk[i] /\ granted'[i] = granted[i]
<1> USE DEF TypeInv, TypeOK, Goes, Reads, Active, Working, RequestSteps, connVars,
            taskVars, tableVars, pastVars
<1>1. CASE NewConn(d)
  BY <1>1 DEF NewConn
<1>2. CASE Connect(d)
  BY <1>2 DEF Connect
<1>3. CASE CheckClientId(d)
  BY <1>3 DEF CheckClientId
<1>4. CASE StorageFails(d)
  BY <1>4 DEF StorageFails
<1>5. CASE Refuse(d)
  BY <1>5 DEF Refuse
<1>6. CASE Clear(d)
  BY <1>6 DEF Clear
<1>7. CASE Recover(d)
  BY <1>7 DEF Recover
<1>8. CASE RecoverConn(d)
  BY <1>8 DEF RecoverConn
<1>9. CASE RecoverContext(d)
  BY <1>9 DEF RecoverContext
<1>10. CASE RecoverEnd(d)
  BY <1>10 DEF RecoverEnd, AllRead
<1>11. CASE MoveOnline(d, "move_exact", "move_wild", Filters \ Wild)
  BY <1>11 DEF MoveOnline
<1>12. CASE MoveOnline(d, "move_wild", "accepting", Wild)
  BY <1>12 DEF MoveOnline
<1>13. CASE Accept(d)
  BY <1>13 DEF Accept
<1>14. CASE Deny(d)
  BY <1>14 DEF Deny
<1>15. CASE Subscribe(d)
  BY <1>15 DEF Subscribe, Request
<1>16. CASE StoreSub(d)
  BY <1>16 DEF StoreSub, Stored
<1>17. CASE StoreSubFails(d)
  BY <1>17 DEF StoreSubFails
<1>18. CASE SubConn(d)
  BY <1>18 DEF SubConn
<1>19. CASE SubContext(d)
  BY <1>19 DEF SubContext
<1>20. CASE Suback(d)
  BY <1>20 DEF Suback
<1>21. CASE Unsubscribe(d)
  BY <1>21 DEF Unsubscribe, Request
<1>22. CASE UnsubStore(d)
  BY <1>22 DEF UnsubStore
<1>23. CASE UnsubConn(d)
  BY <1>23 DEF UnsubConn
<1>24. CASE UnsubContext(d)
  BY <1>24 DEF UnsubContext, Without
<1>25. CASE Unsuback(d)
  BY <1>25 DEF Unsuback
<1>26. CASE Disconnect(d)
  BY <1>26 DEF Disconnect
<1>q. QED
  BY <1>1, <1>2, <1>3, <1>4, <1>5, <1>6, <1>7, <1>8, <1>9, <1>10, <1>11,
     <1>12, <1>13, <1>14, <1>15, <1>16, <1>17, <1>18, <1>19, <1>20, <1>21,
     <1>22, <1>23, <1>24, <1>25, <1>26, Own(d)
  DEF Own, Client, ConnectTask, RequestTask

\* The steps of the reader, and those that only change how connections are.
Other == Reader \/ UNCHANGED vars \/ \E c \in Conns : ConnDown(c)

LEMMA OtherOnly ==
  ASSUME TypeInv, ReaderInv, Other
  PROVE  /\ at' = at /\ filter' = filter /\ todo' = todo /\ disk' = disk
         /\ granted' = granted
         /\ \A c \in Conns : is_ok'[c] => is_ok[c]
         /\ \A c \in Conns : watched'[c] => watched[c]
         /\ \A c \in Conns : is_ok'[c] =>
              \A f \in Filters : <<f, c>> \in subs => <<f, c>> \in subs'
<1> USE DEF TypeInv, TypeOK, ReaderInv, taskVars, tableVars, connVars, pastVars
<1>1. CASE ReleaseId \/ MoveOffline \/ CleanId
  BY <1>1 DEF ReleaseId, MoveOffline, CleanId
<1>2. CASE CleanExact
  BY <1>2 DEF CleanExact, CleanTable
<1>3. CASE CleanWild
  BY <1>3 DEF CleanWild, CleanTable
<1>4. CASE UNCHANGED vars \/ \E c \in Conns : Cleanup(c) \/ ConnDown(c)
  BY <1>4 DEF Cleanup, ConnDown, vars
<1>5. QED
  BY <1>1, <1>2, <1>3, <1>4 DEF Other, Reader

\* Every step is of one of these kinds.
LEMMA Cases ==
  ASSUME [Next]_vars
  PROVE  Other \/ Restart \/ \E d \in Conns : Own(d)
  BY DEF Next, Other, Own

\* Only CONNECT puts a connection at work.
LEMMA Activation ==
  ASSUME TypeInv, NEW c \in Conns, Own(c), Active(c)', ~Active(c)
  PROVE  CheckClientId(c) /\ at[c] = "connect"
<1> USE DEF TypeInv, TypeOK, Goes, Reads, Active, Working, RequestSteps, connVars,
            tableVars, pastVars
<1>1. CASE NewConn(c)
  BY <1>1, Active(c)', ~Active(c) DEF NewConn
<1>2. CASE Connect(c)
  BY <1>2, Active(c)', ~Active(c) DEF Connect
<1>3. CASE CheckClientId(c)
  BY <1>3, Active(c)', ~Active(c) DEF CheckClientId
<1>4. CASE StorageFails(c)
  BY <1>4, Active(c)', ~Active(c) DEF StorageFails
<1>5. CASE Refuse(c)
  BY <1>5, Active(c)', ~Active(c) DEF Refuse
<1>6. CASE Clear(c)
  BY <1>6, Active(c)', ~Active(c) DEF Clear
<1>7. CASE Recover(c)
  BY <1>7, Active(c)', ~Active(c) DEF Recover
<1>8. CASE RecoverConn(c)
  BY <1>8, Active(c)', ~Active(c) DEF RecoverConn
<1>9. CASE RecoverContext(c)
  BY <1>9, Active(c)', ~Active(c) DEF RecoverContext
<1>10. CASE RecoverEnd(c)
  BY <1>10, Active(c)', ~Active(c) DEF RecoverEnd, AllRead
<1>11. CASE MoveOnline(c, "move_exact", "move_wild", Filters \ Wild)
  BY <1>11, Active(c)', ~Active(c) DEF MoveOnline
<1>12. CASE MoveOnline(c, "move_wild", "accepting", Wild)
  BY <1>12, Active(c)', ~Active(c) DEF MoveOnline
<1>13. CASE Accept(c)
  BY <1>13, Active(c)', ~Active(c) DEF Accept
<1>14. CASE Deny(c)
  BY <1>14, Active(c)', ~Active(c) DEF Deny
<1>15. CASE Subscribe(c)
  BY <1>15, Active(c)', ~Active(c) DEF Subscribe, Request
<1>16. CASE StoreSub(c)
  BY <1>16, Active(c)', ~Active(c) DEF StoreSub, Stored
<1>17. CASE StoreSubFails(c)
  BY <1>17, Active(c)', ~Active(c) DEF StoreSubFails
<1>18. CASE SubConn(c)
  BY <1>18, Active(c)', ~Active(c) DEF SubConn
<1>19. CASE SubContext(c)
  BY <1>19, Active(c)', ~Active(c) DEF SubContext
<1>20. CASE Suback(c)
  BY <1>20, Active(c)', ~Active(c) DEF Suback
<1>21. CASE Unsubscribe(c)
  BY <1>21, Active(c)', ~Active(c) DEF Unsubscribe, Request
<1>22. CASE UnsubStore(c)
  BY <1>22, Active(c)', ~Active(c) DEF UnsubStore
<1>23. CASE UnsubConn(c)
  BY <1>23, Active(c)', ~Active(c) DEF UnsubConn
<1>24. CASE UnsubContext(c)
  BY <1>24, Active(c)', ~Active(c) DEF UnsubContext, Without
<1>25. CASE Unsuback(c)
  BY <1>25, Active(c)', ~Active(c) DEF Unsuback
<1>26. CASE Disconnect(c)
  BY <1>26, Active(c)', ~Active(c) DEF Disconnect
<1>q. QED
  BY <1>1, <1>2, <1>3, <1>4, <1>5, <1>6, <1>7, <1>8, <1>9, <1>10, <1>11,
     <1>12, <1>13, <1>14, <1>15, <1>16, <1>17, <1>18, <1>19, <1>20, <1>21,
     <1>22, <1>23, <1>24, <1>25, <1>26, Own(c)
  DEF Own, Client, ConnectTask, RequestTask

\* Whoever comes to work while another one is there has the identifier taken.
LEMMA OneAtWorkStep ==
  ASSUME TypeInv, ReaderInv, OneAtWork, [Next]_vars
  PROVE  OneAtWork'
<1> SUFFICES ASSUME NEW c \in Conns, NEW d \in Conns, Active(c)', Active(d)',
                    ClientOf[c] = ClientOf[d], c # d
             PROVE  ClientOf[c] \in taken'
  BY DEF OneAtWork
<1>1. taken \subseteq taken'
  BY TakenGrows
<1>2. CASE Restart
  BY <1>2 DEF Restart, Active, Working, RequestSteps
<1>3. CASE Other
  <2>1. at' = at /\ \A e \in Conns : watched'[e] => watched[e]
    BY <1>3, OtherOnly
  <2>2. Active(c) /\ Active(d)
    BY <2>1 DEF Active
  <2>3. QED
    BY <1>1, <2>2 DEF OneAtWork
<1>4. ASSUME NEW e \in Conns, NEW x \in Conns, Own(e), Active(e)', Active(x)',
             x # e, ClientOf[x] = ClientOf[e]
      PROVE  ClientOf[x] \in taken'
  <2>1. Active(x)
    BY <1>4, TaskOnly DEF Active
  <2>2. CASE Active(e)
    BY <1>1, <1>4, <2>1, <2>2 DEF OneAtWork
  <2>3. CASE ~Active(e)
    <3>1. CheckClientId(e) /\ at[e] = "connect"
      BY <1>4, <2>3, Activation
    <3>2. Busy(x) /\ x \in Rivals(e)
      BY <1>4, <2>1
      DEF Busy, Rivals, Active, Working, ConnectSteps, RequestSteps
    <3>3. at'[e] # "refusing"
      BY <1>4 DEF Active, Working, RequestSteps
    <3>4. QED
      BY <1>4, <3>1, <3>2, <3>3 DEF CheckClientId, Goes, TypeInv, TypeOK, Steps
  <2>4. QED
    BY <2>2, <2>3
<1>5. ASSUME NEW e \in Conns, Own(e) PROVE ClientOf[c] \in taken'
  <2>1. CASE e = c
    BY <1>4, <1>5, <2>1
  <2>2. CASE e = d
    BY <1>4, <1>5, <2>2
  <2>3. CASE e # c /\ e # d
    BY <1>1, <1>5, <2>3, TaskOnly DEF Active, OneAtWork
  <2>4. QED
    BY <2>1, <2>2, <2>3
<1>6. QED
  BY <1>2, <1>3, <1>5, Cases

-----------------------------------------------------------------------------
(* What is known of a connection, whose session has not been given away.    *)

Local(c) ==
    LET i == ClientOf[c]
    IN  /\ at[c] \in {"sub_conn", "sub_ctx", "suback"} => filter[c] \in disk[i]
        /\ at[c] \in {"unsub_store", "unsub_conn", "unsub_ctx"}
             => filter[c] \notin granted[i]
        /\ granted[i] \subseteq disk[i]
        /\ is_ok[c] => Whole(c)

\* By a step of the connection or of its task.
LEMMA LocalOwn ==
  ASSUME TypeInv, NEW c \in Conns \ Clean, Own(c), Local(c)
  PROVE  Local(c)'
<1> USE DEF TypeInv, TypeOK, HasFilter, Local, Whole, Online, Goes, Reads,
            RequestSteps, connVars, taskVars, tableVars, pastVars
<1>1. CASE NewConn(c)
  BY <1>1 DEF NewConn
<1>2. CASE Connect(c)
  BY <1>2 DEF Connect
<1>3. CASE CheckClientId(c)
  BY <1>3 DEF CheckClientId
<1>4. CASE StorageFails(c)
  BY <1>4 DEF StorageFails
<1>5. CASE Refuse(c)
  BY <1>5 DEF Refuse
<1>6. CASE Clear(c)
  BY <1>6 DEF Clear
<1>7. CASE Recover(c)
  BY <1>7 DEF Recover
<1>8. CASE RecoverConn(c)
  BY <1>8 DEF RecoverConn
<1>9. CASE RecoverContext(c)
  BY <1>9 DEF RecoverContext
<1>10. CASE RecoverEnd(c)
  BY <1>10 DEF RecoverEnd, AllRead
<1>11. CASE MoveOnline(c, "move_exact", "move_wild", Filters \ Wild)
  BY <1>11 DEF MoveOnline
<1>12. CASE MoveOnline(c, "move_wild", "accepting", Wild)
  BY <1>12 DEF MoveOnline
<1>13. CASE Accept(c)
  BY <1>13 DEF Accept
<1>14. CASE Deny(c)
  BY <1>14 DEF Deny
<1>15. CASE Subscribe(c)
  BY <1>15 DEF Subscribe, Request
<1>16. CASE StoreSub(c)
  BY <1>16 DEF StoreSub, Stored
<1>17. CASE StoreSubFails(c)
  BY <1>17 DEF StoreSubFails
<1>18. CASE SubConn(c)
  BY <1>18 DEF SubConn
<1>19. CASE SubContext(c)
  BY <1>19 DEF SubContext
<1>20. CASE Suback(c)
  BY <1>20 DEF Suback
<1>21. CASE Unsubscribe(c)
  BY <1>21 DEF Unsubscribe, Request
<1>22. CASE UnsubStore(c)
  BY <1>22 DEF UnsubStore
<1>23. CASE UnsubConn(c)
  BY <1>23 DEF UnsubConn
<1>24. CASE UnsubContext(c)
  BY <1>24 DEF UnsubContext, Without
<1>25. CASE Unsuback(c)
  BY <1>25 DEF Unsuback
<1>26. CASE Disconnect(c)
  BY <1>26 DEF Disconnect
<1>q. QED
  BY <1>1, <1>2, <1>3, <1>4, <1>5, <1>6, <1>7, <1>8, <1>9, <1>10, <1>11,
     <1>12, <1>13, <1>14, <1>15, <1>16, <1>17, <1>18, <1>19, <1>20, <1>21,
     <1>22, <1>23, <1>24, <1>25, <1>26, Own(c)
  DEF Own, Client, ConnectTask, RequestTask

\* By a step of another connection.
LEMMA LocalForeign ==
  ASSUME TypeInv, ReaderInv, OneAtWork, NEW c \in Conns \ Clean,
         ClientOf[c] \notin taken, Local(c),
         NEW d \in Conns, d # c, Own(d),
         granted'[ClientOf[c]] \subseteq disk'[ClientOf[c]]
  PROVE  Local(c)'
<1>1. /\ at'[c] = at[c] /\ filter'[c] = filter[c] /\ todo'[c] = todo[c]
      /\ is_ok'[c] = is_ok[c]
      /\ \A f \in Filters : <<f, c>> \in subs' <=> <<f, c>> \in subs
  BY TaskOnly
<1>2. Online(c)' = Online(c)
  BY <1>1 DEF Online
<1>3. CASE Active(c)
  <2>1. ClientOf[c] # ClientOf[d] \/ ~Active(d)
    BY <1>3 DEF OneAtWork
  <2>2. ClientOf[c] \in Ids
    BY SessionsAssumption
  <2>3. disk'[ClientOf[c]] = disk[ClientOf[c]]
        /\ granted'[ClientOf[c]] = granted[ClientOf[c]]
    BY <2>1, <2>2, TaskOnly
  <2>4. QED
    BY <1>1, <1>2, <2>3 DEF Local, Whole
<1>4. CASE ~Active(c)
  BY <1>1, <1>4 DEF Local, Whole, Active, Working, RequestSteps, ReaderInv
<1>5. QED
  BY <1>3, <1>4

LEMMA LocalOther ==
  ASSUME TypeInv, ReaderInv, NEW c \in Conns \ Clean, Local(c), Other
  PROVE  Local(c)'
<1>1. /\ at' = at /\ filter' = filter /\ todo' = todo /\ disk' = disk
      /\ granted' = granted
      /\ is_ok'[c] => is_ok[c]
      /\ is_ok'[c] =>
           \A f \in Filters : <<f, c>> \in subs => <<f, c>> \in subs'
  BY OtherOnly
<1>2. ASSUME is_ok'[c] PROVE Online(c) \subseteq Online(c)'
  BY <1>1, <1>2 DEF Online
<1>3. QED
  BY <1>1, <1>2 DEF Local, Whole

\* What a client asking for a clean session does leaves nothing granted.
LEMMA CleanOwn ==
  ASSUME TypeInv, NEW d \in Conns, d \in Clean, Own(d),
         granted[ClientOf[d]] \subseteq disk[ClientOf[d]]
  PROVE  granted'[ClientOf[d]] \subseteq disk'[ClientOf[d]]
<1> USE DEF TypeInv, TypeOK, Reads, Goes, connVars, taskVars, tableVars, pastVars
<1>1. CASE NewConn(d)
  BY <1>1 DEF NewConn
<1>2. CASE Connect(d)
  BY <1>2 DEF Connect
<1>3. CASE CheckClientId(d)
  BY <1>3 DEF CheckClientId
<1>4. CASE StorageFails(d)
  BY <1>4 DEF StorageFails
<1>5. CASE Refuse(d)
  BY <1>5 DEF Refuse
<1>6. CASE Clear(d)
  BY <1>6 DEF Clear
<1>7. CASE Recover(d)
  BY <1>7 DEF Recover
<1>8. CASE RecoverConn(d)
  BY <1>8 DEF RecoverConn
<1>9. CASE RecoverContext(d)
  BY <1>9 DEF RecoverContext
<1>10. CASE RecoverEnd(d)
  BY <1>10 DEF RecoverEnd, AllRead
<1>11. CASE MoveOnline(d, "move_exact", "move_wild", Filters \ Wild)
  BY <1>11 DEF MoveOnline
<1>12. CASE MoveOnline(d, "move_wild", "accepting", Wild)
  BY <1>12 DEF MoveOnline
<1>13. CASE Accept(d)
  BY <1>13 DEF Accept
<1>14. CASE Deny(d)
  BY <1>14 DEF Deny
<1>15. CASE Subscribe(d)
  BY <1>15 DEF Subscribe, Request
<1>16. CASE StoreSub(d)
  BY <1>16 DEF StoreSub, Stored
<1>17. CASE StoreSubFails(d)
  BY <1>17 DEF StoreSubFails
<1>18. CASE SubConn(d)
  BY <1>18 DEF SubConn
<1>19. CASE SubContext(d)
  BY <1>19 DEF SubContext
<1>20. CASE Suback(d)
  BY <1>20 DEF Suback
<1>21. CASE Unsubscribe(d)
  BY <1>21 DEF Unsubscribe, Request
<1>22. CASE UnsubStore(d)
  BY <1>22 DEF UnsubStore
<1>23. CASE UnsubConn(d)
  BY <1>23 DEF UnsubConn
<1>24. CASE UnsubContext(d)
  BY <1>24 DEF UnsubContext, Without
<1>25. CASE Unsuback(d)
  BY <1>25 DEF Unsuback
<1>26. CASE Disconnect(d)
  BY <1>26 DEF Disconnect
<1>q. QED
  BY <1>1, <1>2, <1>3, <1>4, <1>5, <1>6, <1>7, <1>8, <1>9, <1>10, <1>11,
     <1>12, <1>13, <1>14, <1>15, <1>16, <1>17, <1>18, <1>19, <1>20, <1>21,
     <1>22, <1>23, <1>24, <1>25, <1>26, Own(d)
  DEF Own, Client, ConnectTask, RequestTask

\* The reader only cleans up what it holds and what is closed for good.
LEMMA ReaderStep ==
  ASSUME TypeInv, ReaderInv, [Next]_vars
  PROVE  ReaderInv'
<1> USE DEF TypeInv, TypeOK, ReaderInv, Reads, Goes, connVars, taskVars, tableVars,
            pastVars, Idle
<1>1. ASSUME NEW c \in Conns, ConnectTask(c) PROVE ReaderInv'
  BY <1>1 DEF ConnectTask, CheckClientId, StorageFails, Refuse, Clear, Recover,
              RecoverConn, RecoverContext, RecoverEnd, MoveOnline, Accept, Deny
<1>2. ASSUME NEW c \in Conns, RequestTask(c) PROVE ReaderInv'
  BY <1>2 DEF RequestTask, StoreSub, StoreSubFails, SubConn, SubContext, Suback,
              UnsubStore, UnsubConn, UnsubContext, Unsuback
<1>3. ASSUME NEW c \in Conns, NewConn(c) \/ Connect(c) \/ Subscribe(c)
                              \/ Unsubscribe(c) \/ ConnDown(c)
      PROVE  ReaderInv'
  BY <1>3 DEF NewConn, Connect, Subscribe, Unsubscribe, Request, ConnDown
<1>4. ASSUME NEW c \in Conns, Disconnect(c) \/ Cleanup(c) PROVE ReaderInv'
  BY <1>4 DEF Disconnect, Cleanup
<1>5. CASE ReleaseId \/ MoveOffline
  <2>1. reader \in [at : ReaderSteps, conn : Conns, left : SUBSET Filters]
    BY <1>5 DEF ReleaseId, MoveOffline
  <2>2. ASSUME reader' = Idle PROVE reader'.at = "idle"
    BY <2>2
  <2>3. ASSUME reader' = [reader EXCEPT !.at = "move", !.left = conn_subs[reader.conn]]
        PROVE  reader'.at = "move"
    BY <2>1, <2>3
  <2>4. ASSUME NEW f, reader.at = "move", reader' = [reader EXCEPT !.left = @ \ {f}]
        PROVE  reader'.at = "move"
    BY <2>1, <2>4
  <2>5. reader'.at \in {"idle", "move"}
    BY <1>5, <2>2, <2>3, <2>4 DEF ReleaseId, MoveOffline
  <2>6. QED
    BY <1>5, <2>5 DEF ReleaseId, MoveOffline
<1>6. CASE CleanId \/ CleanExact \/ CleanWild
  BY <1>6 DEF CleanId, CleanExact, CleanWild
<1>7. CASE Restart \/ UNCHANGED vars
  BY <1>7 DEF Restart, vars
<1>8. QED
  BY <1>1, <1>2, <1>3, <1>4, <1>5, <1>6, <1>7 DEF Next, Client, Reader

\* The invariants of connections, from those of one connection and back.
LEMMA Locally ==
  ASSUME TypeInv, StoredInv, OnlineInv, NEW c \in Conns \ Clean,
         ClientOf[c] \notin taken
  PROVE  Local(c)
<1>1. ClientOf[c] \in Ids
  BY SessionsAssumption
<1>2. QED
  BY <1>1 DEF StoredInv, PendingIsStored, GivenUp, GrantedIsStored, OnlineInv, Local

LEMMA StoredStep ==
  ASSUME TypeInv, ReaderInv, StoredInv, OnlineInv, [Next]_vars, ~Restart
  PROVE  GrantedIsStored'
<1> SUFFICES ASSUME NEW i \in Ids, i \notin taken' PROVE granted'[i] \subseteq disk'[i]
  BY DEF GrantedIsStored
<1>1. i \notin taken /\ granted[i] \subseteq disk[i]
  BY TakenGrows DEF StoredInv, GrantedIsStored
<1>2. CASE Other
  BY <1>1, <1>2, OtherOnly
<1>3. ASSUME NEW d \in Conns, Own(d) PROVE granted'[i] \subseteq disk'[i]
  <2>1. CASE ClientOf[d] # i
    BY <1>1, <1>3, <2>1, TaskOnly
  <2>2. CASE ClientOf[d] = i /\ d \in Clean
    BY <1>1, <1>3, <2>2, CleanOwn
  <2>3. CASE ClientOf[d] = i /\ d \notin Clean
    <3>1. Local(d)'
      BY <1>1, <1>3, <2>3, Locally, LocalOwn
    <3>2. QED
      BY <2>3, <3>1 DEF Local
  <2>4. QED
    BY <2>1, <2>2, <2>3
<1>4. QED
  BY <1>2, <1>3, Cases

LEMMA LocalStep ==
  ASSUME TypeInv, ReaderInv, StoredInv, OnlineInv, [Next]_vars, ~Restart,
         NEW c \in Conns \ Clean, ClientOf[c] \notin taken'
  PROVE  Local(c)'
<1>1. ClientOf[c] \notin taken /\ Local(c)
  BY TakenGrows, Locally
<1>2. ClientOf[c] \in Ids
  BY SessionsAssumption
<1>3. granted'[ClientOf[c]] \subseteq disk'[ClientOf[c]]
  BY <1>2, StoredStep DEF GrantedIsStored
<1>4. CASE Other
  BY <1>1, <1>4, LocalOther
<1>5. ASSUME NEW d \in Conns, Own(d) PROVE Local(c)'
  <2>1. CASE d = c
    BY <1>1, <1>5, <2>1, LocalOwn
  <2>2. CASE d # c
    BY <1>1, <1>3, <1>5, <2>2, LocalForeign DEF StoredInv
  <2>3. QED
    BY <2>1, <2>2
<1>6. QED
  BY <1>4, <1>5, Cases

LEMMA RestartStep ==
  ASSUME TypeInv, StoredInv, Restart
  PROVE  StoredInv' /\ OnlineInv'
<1>1. \A c \in Conns : at'[c] = "gone" /\ is_ok'[c] = FALSE
  BY DEF Restart
<1>2. OneAtWork' /\ PendingIsStored' /\ GivenUp' /\ OnlineInv'
  BY <1>1
  DEF OneAtWork, PendingIsStored, GivenUp, OnlineInv, Active, Working, RequestSteps
<1>3. GrantedIsStored'
  BY DEF Restart, StoredInv, GrantedIsStored
<1>4. QED
  BY <1>2, <1>3 DEF StoredInv

\* What was granted to a client is stored, the client that works on it has got
\* it back, and only one works on it.
LEMMA Inductive == SessionsInv /\ [Next]_vars => SessionsInv'
<1> SUFFICES ASSUME SessionsInv, [Next]_vars PROVE SessionsInv'
  OBVIOUS
<1> USE DEF SessionsInv
<1>1. TypeInv' /\ ReaderInv'
  BY TypeStep, ReaderStep
<1>2. CASE Restart
  BY <1>1, <1>2, RestartStep
<1>3. CASE ~Restart
  <2>1. \A c \in Conns \ Clean : ClientOf[c] \notin taken' => Local(c)'
    BY <1>3, LocalStep
  <2>2. OneAtWork' /\ GrantedIsStored'
    BY <1>3, OneAtWorkStep, StoredStep DEF StoredInv
  <2>3. PendingIsStored' /\ GivenUp' /\ OnlineInv'
    BY <2>1 DEF PendingIsStored, GivenUp, OnlineInv, Local
  <2>4. QED
    BY <1>1, <2>2, <2>3 DEF StoredInv
<1>4. QED
  BY <1>2, <1>3

LEMMA InitInv == Init => SessionsInv
<1> SUFFICES ASSUME Init PROVE SessionsInv
  OBVIOUS
<1>1. TypeInv
  BY InitType
<1>2. \A c \in Conns : at[c] = "gone" /\ is_ok[c] = FALSE
  BY DEF Init
<1>3. OneAtWork /\ PendingIsStored /\ GivenUp /\ OnlineInv
  BY <1>2
  DEF OneAtWork, PendingIsStored, GivenUp, OnlineInv, Active, Working, RequestSteps
<1>4. GrantedIsStored
  BY DEF Init, GrantedIsStored
<1>5. ReaderInv
  BY <1>2 DEF Init, ReaderInv, Idle
<1>6. QED
  BY <1>1, <1>3, <1>4, <1>5 DEF SessionsInv, StoredInv

-----------------------------------------------------------------------------
(* The tables of a connection, and what becomes of its subscriptions when   *)
(* it leaves.                                                               *)

\* What conn->subs and the tables of the context hold of a connection that
\* works: the same, but between the two steps that register or remove.
Agrees(c) ==
    /\ at[c] # "gone"
    /\ at[c] \in {"none", "connect", "registered", "refusing"}
         => conn_subs[c] = {} /\ Online(c) = {}
    /\ at[c] \in {"sub_ctx", "recover_ctx"} => conn_subs[c] = Online(c) \cup {filter[c]}
    /\ at[c] = "unsub_ctx" => conn_subs[c] = Online(c) \ {filter[c]}
    /\ at[c] \notin {"sub_ctx", "recover_ctx", "unsub_ctx"} => conn_subs[c] = Online(c)

AgreeInv == \A c \in Conns : is_ok[c] => Agrees(c)

\* A connection that asked for a clean session recovers nothing, and nothing is
\* granted while it is at work.
Cleared(c) ==
    /\ at[c] \notin {"recovering", "recover_ctx", "move_exact", "move_wild"}
    /\ Active(c) /\ at[c] # "registered" /\ ClientOf[c] \notin taken
         => granted[ClientOf[c]] = {}

CleanInv == \A c \in Clean : Cleared(c)

\* A connection that broke while its session was recovered is remembered.
Broken(c) ==
    /\ at[c] \in {"registered", "recovering", "recover_ctx", "move_exact", "move_wild",
                  "accepting"}
    /\ ~is_ok[c]

AbruptInv == \A c \in Conns \ Clean : Broken(c) => ClientOf[c] \in abrupt \cup taken

\* A connection whose DISCONNECT is handled is closed and not cleaned up.
LeavingInv ==
    reader.at \in {"release", "move"}
      => /\ ~is_ok[reader.conn]
         /\ watched[reader.conn]
         /\ at[reader.conn] \in RequestSteps \cup {"ready"}

\* A step of a connection leaves alone what others have in the tables.
LEMMA TaskTables ==
  ASSUME TypeInv, NEW d \in Conns, Own(d)
  PROVE  /\ \A c \in Conns \ {d} : conn_subs'[c] = conn_subs[c]
         /\ \A i \in Ids \ {ClientOf[d]} :
              /\ \A f \in Filters : <<f, i>> \in offline_subs' <=> <<f, i>> \in offline_subs
              /\ i \in abrupt' <=> i \in abrupt
         /\ reader' = reader \/ Disconnect(d)
<1> USE DEF TypeInv, TypeOK, connVars, tableVars, pastVars
<1>1. CASE NewConn(d)
  BY <1>1 DEF NewConn
<1>2. CASE Connect(d)
  BY <1>2 DEF Connect
<1>3. CASE CheckClientId(d)
  BY <1>3 DEF CheckClientId
<1>4. CASE StorageFails(d)
  BY <1>4 DEF StorageFails
<1>5. CASE Refuse(d)
  BY <1>5 DEF Refuse
<1>6. CASE Clear(d)
  BY <1>6 DEF Clear
<1>7. CASE Recover(d)
  BY <1>7 DEF Recover
<1>8. CASE RecoverConn(d)
  BY <1>8 DEF RecoverConn
<1>9. CASE RecoverContext(d)
  BY <1>9 DEF RecoverContext
<1>10. CASE RecoverEnd(d)
  BY <1>10 DEF RecoverEnd, AllRead
<1>11. CASE MoveOnline(d, "move_exact", "move_wild", Filters \ Wild)
  BY <1>11 DEF MoveOnline
<1>12. CASE MoveOnline(d, "move_wild", "accepting", Wild)
  BY <1>12 DEF MoveOnline
<1>13. CASE Accept(d)
  BY <1>13 DEF Accept
<1>14. CASE Deny(d)
  BY <1>14 DEF Deny
<1>15. CASE Subscribe(d)
  BY <1>15 DEF Subscribe, Request
<1>16. CASE StoreSub(d)
  BY <1>16 DEF StoreSub, Stored
<1>17. CASE StoreSubFails(d)
  BY <1>17 DEF StoreSubFails
<1>18. CASE SubConn(d)
  BY <1>18 DEF SubConn
<1>19. CASE SubContext(d)
  BY <1>19 DEF SubContext
<1>20. CASE Suback(d)
  BY <1>20 DEF Suback
<1>21. CASE Unsubscribe(d)
  BY <1>21 DEF Unsubscribe, Request
<1>22. CASE UnsubStore(d)
  BY <1>22 DEF UnsubStore
<1>23. CASE UnsubConn(d)
  BY <1>23 DEF UnsubConn
<1>24. CASE UnsubContext(d)
  BY <1>24 DEF UnsubContext, Without
<1>25. CASE Unsuback(d)
  BY <1>25 DEF Unsuback
<1>26. CASE Disconnect(d)
  BY <1>26 DEF Disconnect
<1>q. QED
  BY <1>1, <1>2, <1>3, <1>4, <1>5, <1>6, <1>7, <1>8, <1>9, <1>10, <1>11,
     <1>12, <1>13, <1>14, <1>15, <1>16, <1>17, <1>18, <1>19, <1>20, <1>21,
     <1>22, <1>23, <1>24, <1>25, <1>26, Own(d)
  DEF Own, Client, ConnectTask, RequestTask
\* So does the reader, but for connections that are closed.
LEMMA OtherTables ==
  ASSUME TypeInv, Other
  PROVE  /\ conn_subs' = conn_subs /\ subs' \subseteq subs
         /\ offline_subs \subseteq offline_subs' /\ abrupt \subseteq abrupt'
<1> USE DEF TypeInv, TypeOK, taskVars, tableVars, connVars, pastVars
<1>1. CASE ReleaseId \/ MoveOffline \/ CleanId
  BY <1>1 DEF ReleaseId, MoveOffline, CleanId
<1>2. CASE CleanExact
  BY <1>2 DEF CleanExact, CleanTable
<1>3. CASE CleanWild
  BY <1>3 DEF CleanWild, CleanTable
<1>4. CASE UNCHANGED vars \/ \E c \in Conns : Cleanup(c) \/ ConnDown(c)
  BY <1>4 DEF Cleanup, ConnDown, vars
<1>5. QED
  BY <1>1, <1>2, <1>3, <1>4 DEF Other, Reader

LEMMA AgreeOwn ==
  ASSUME TypeInv, ReaderInv, NEW c \in Conns, Own(c), is_ok[c] => Agrees(c)
  PROVE  (is_ok[c] => Agrees(c))'
<1> USE DEF TypeInv, TypeOK, HasFilter, ReaderInv, Agrees, Online, Goes, Reads, RequestSteps,
            connVars, taskVars, tableVars, pastVars
<1>1. CASE NewConn(c)
  BY <1>1 DEF NewConn
<1>2. CASE Connect(c)
  BY <1>2 DEF Connect
<1>3. CASE CheckClientId(c)
  BY <1>3 DEF CheckClientId
<1>4. CASE StorageFails(c)
  BY <1>4 DEF StorageFails
<1>5. CASE Refuse(c)
  BY <1>5 DEF Refuse
<1>6. CASE Clear(c)
  BY <1>6 DEF Clear
<1>7. CASE Recover(c)
  BY <1>7 DEF Recover
<1>8. CASE RecoverConn(c)
  BY <1>8 DEF RecoverConn
<1>9. CASE RecoverContext(c)
  BY <1>9 DEF RecoverContext
<1>10. CASE RecoverEnd(c)
  BY <1>10 DEF RecoverEnd, AllRead
<1>11. CASE MoveOnline(c, "move_exact", "move_wild", Filters \ Wild)
  BY <1>11 DEF MoveOnline
<1>12. CASE MoveOnline(c, "move_wild", "accepting", Wild)
  BY <1>12 DEF MoveOnline
<1>13. CASE Accept(c)
  BY <1>13 DEF Accept
<1>14. CASE Deny(c)
  BY <1>14 DEF Deny
<1>15. CASE Subscribe(c)
  BY <1>15 DEF Subscribe, Request
<1>16. CASE StoreSub(c)
  BY <1>16 DEF StoreSub, Stored
<1>17. CASE StoreSubFails(c)
  BY <1>17 DEF StoreSubFails
<1>18. CASE SubConn(c)
  BY <1>18 DEF SubConn
<1>19. CASE SubContext(c)
  BY <1>19 DEF SubContext
<1>20. CASE Suback(c)
  BY <1>20 DEF Suback
<1>21. CASE Unsubscribe(c)
  BY <1>21 DEF Unsubscribe, Request
<1>22. CASE UnsubStore(c)
  BY <1>22 DEF UnsubStore
<1>23. CASE UnsubConn(c)
  BY <1>23 DEF UnsubConn
<1>24. CASE UnsubContext(c)
  BY <1>24 DEF UnsubContext, Without
<1>25. CASE Unsuback(c)
  BY <1>25 DEF Unsuback
<1>26. CASE Disconnect(c)
  BY <1>26 DEF Disconnect
<1>q. QED
  BY <1>1, <1>2, <1>3, <1>4, <1>5, <1>6, <1>7, <1>8, <1>9, <1>10, <1>11,
     <1>12, <1>13, <1>14, <1>15, <1>16, <1>17, <1>18, <1>19, <1>20, <1>21,
     <1>22, <1>23, <1>24, <1>25, <1>26, Own(c)
  DEF Own, Client, ConnectTask, RequestTask
LEMMA AgreeStep ==
  ASSUME TypeInv, ReaderInv, AgreeInv, [Next]_vars
  PROVE  AgreeInv'
<1> SUFFICES ASSUME NEW c \in Conns, is_ok'[c] PROVE Agrees(c)'
  BY DEF AgreeInv
<1>1. CASE Restart
  BY <1>1 DEF Restart
<1>2. CASE Other
  <2>1. /\ at' = at /\ filter' = filter /\ conn_subs' = conn_subs /\ is_ok[c]
        /\ Online(c)' = Online(c)
    BY <1>2, OtherOnly, OtherTables DEF Online
  <2>2. QED
    BY <2>1 DEF AgreeInv, Agrees
<1>3. ASSUME NEW d \in Conns, Own(d) PROVE Agrees(c)'
  <2>1. CASE d = c
    BY <1>3, <2>1, AgreeOwn DEF AgreeInv
  <2>2. CASE d # c
    <3>1. /\ at'[c] = at[c] /\ filter'[c] = filter[c] /\ conn_subs'[c] = conn_subs[c]
          /\ is_ok[c] /\ Online(c)' = Online(c)
      BY <1>3, <2>2, TaskOnly, TaskTables DEF Online
    <3>2. QED
      BY <3>1 DEF AgreeInv, Agrees
  <2>3. QED
    BY <2>1, <2>2
<1>4. QED
  BY <1>1, <1>2, <1>3, Cases

\* Clean sessions, sessions that broke, and connections that leave.
LEMMA ClearedOwn ==
  ASSUME TypeInv, ReaderInv, NEW c \in Clean, Own(c), Cleared(c), CheckClientId(c) => ~Active(c)
  PROVE  Cleared(c)'
<1> USE DEF TypeInv, TypeOK, Cleared, Active, Working, Goes, Reads, RequestSteps,
            connVars, taskVars, tableVars, pastVars
<1>1. CASE NewConn(c)
  BY <1>1 DEF NewConn
<1>2. CASE Connect(c)
  BY <1>2 DEF Connect
<1>3. CASE CheckClientId(c)
  BY <1>3 DEF CheckClientId
<1>4. CASE StorageFails(c)
  BY <1>4 DEF StorageFails
<1>5. CASE Refuse(c)
  BY <1>5 DEF Refuse
<1>6. CASE Clear(c)
  BY <1>6 DEF Clear
<1>7. CASE Recover(c)
  BY <1>7 DEF Recover
<1>8. CASE RecoverConn(c)
  BY <1>8 DEF RecoverConn
<1>9. CASE RecoverContext(c)
  BY <1>9 DEF RecoverContext
<1>10. CASE RecoverEnd(c)
  BY <1>10 DEF RecoverEnd, AllRead
<1>11. CASE MoveOnline(c, "move_exact", "move_wild", Filters \ Wild)
  BY <1>11 DEF MoveOnline
<1>12. CASE MoveOnline(c, "move_wild", "accepting", Wild)
  BY <1>12 DEF MoveOnline
<1>13. CASE Accept(c)
  BY <1>13 DEF Accept
<1>14. CASE Deny(c)
  BY <1>14 DEF Deny
<1>15. CASE Subscribe(c)
  BY <1>15 DEF Subscribe, Request
<1>16. CASE StoreSub(c)
  BY <1>16 DEF StoreSub, Stored
<1>17. CASE StoreSubFails(c)
  BY <1>17 DEF StoreSubFails
<1>18. CASE SubConn(c)
  BY <1>18 DEF SubConn
<1>19. CASE SubContext(c)
  BY <1>19 DEF SubContext
<1>20. CASE Suback(c)
  BY <1>20 DEF Suback
<1>21. CASE Unsubscribe(c)
  BY <1>21 DEF Unsubscribe, Request
<1>22. CASE UnsubStore(c)
  BY <1>22 DEF UnsubStore
<1>23. CASE UnsubConn(c)
  BY <1>23 DEF UnsubConn
<1>24. CASE UnsubContext(c)
  BY <1>24 DEF UnsubContext, Without
<1>25. CASE Unsuback(c)
  BY <1>25 DEF Unsuback
<1>26. CASE Disconnect(c)
  BY <1>26 DEF Disconnect
<1>q. QED
  BY <1>1, <1>2, <1>3, <1>4, <1>5, <1>6, <1>7, <1>8, <1>9, <1>10, <1>11,
     <1>12, <1>13, <1>14, <1>15, <1>16, <1>17, <1>18, <1>19, <1>20, <1>21,
     <1>22, <1>23, <1>24, <1>25, <1>26, Own(c)
  DEF Own, Client, ConnectTask, RequestTask
LEMMA BrokenOwn ==
  ASSUME TypeInv, ReaderInv, NEW c \in Conns \ Clean, Own(c),
         Broken(c) => ClientOf[c] \in abrupt \cup taken
  PROVE  (Broken(c) => ClientOf[c] \in abrupt \cup taken)'
<1> USE DEF TypeInv, TypeOK, Broken, Goes, Reads, RequestSteps,
            connVars, taskVars, tableVars, pastVars
<1>1. CASE NewConn(c)
  BY <1>1 DEF NewConn
<1>2. CASE Connect(c)
  BY <1>2 DEF Connect
<1>3. CASE CheckClientId(c)
  BY <1>3 DEF CheckClientId
<1>4. CASE StorageFails(c)
  BY <1>4 DEF StorageFails
<1>5. CASE Refuse(c)
  BY <1>5 DEF Refuse
<1>6. CASE Clear(c)
  BY <1>6 DEF Clear
<1>7. CASE Recover(c)
  BY <1>7 DEF Recover
<1>8. CASE RecoverConn(c)
  BY <1>8 DEF RecoverConn
<1>9. CASE RecoverContext(c)
  BY <1>9 DEF RecoverContext
<1>10. CASE RecoverEnd(c)
  BY <1>10 DEF RecoverEnd, AllRead
<1>11. CASE MoveOnline(c, "move_exact", "move_wild", Filters \ Wild)
  BY <1>11 DEF MoveOnline
<1>12. CASE MoveOnline(c, "move_wild", "accepting", Wild)
  BY <1>12 DEF MoveOnline
<1>13. CASE Accept(c)
  BY <1>13 DEF Accept
<1>14. CASE Deny(c)
  BY <1>14 DEF Deny
<1>15. CASE Subscribe(c)
  BY <1>15 DEF Subscribe, Request
<1>16. CASE StoreSub(c)
  BY <1>16 DEF StoreSub, Stored
<1>17. CASE StoreSubFails(c)
  BY <1>17 DEF StoreSubFails
<1>18. CASE SubConn(c)
  BY <1>18 DEF SubConn
<1>19. CASE SubContext(c)
  BY <1>19 DEF SubContext
<1>20. CASE Suback(c)
  BY <1>20 DEF Suback
<1>21. CASE Unsubscribe(c)
  BY <1>21 DEF Unsubscribe, Request
<1>22. CASE UnsubStore(c)
  BY <1>22 DEF UnsubStore
<1>23. CASE UnsubConn(c)
  BY <1>23 DEF UnsubConn
<1>24. CASE UnsubContext(c)
  BY <1>24 DEF UnsubContext, Without
<1>25. CASE Unsuback(c)
  BY <1>25 DEF Unsuback
<1>26. CASE Disconnect(c)
  BY <1>26 DEF Disconnect
<1>q. QED
  BY <1>1, <1>2, <1>3, <1>4, <1>5, <1>6, <1>7, <1>8, <1>9, <1>10, <1>11,
     <1>12, <1>13, <1>14, <1>15, <1>16, <1>17, <1>18, <1>19, <1>20, <1>21,
     <1>22, <1>23, <1>24, <1>25, <1>26, Own(c)
  DEF Own, Client, ConnectTask, RequestTask

LEMMA CleanStep ==
  ASSUME TypeInv, ReaderInv, OneAtWork, CleanInv, [Next]_vars
  PROVE  CleanInv'
<1> SUFFICES ASSUME NEW c \in Clean PROVE Cleared(c)'
  BY DEF CleanInv
<1>0. c \in Conns /\ Cleared(c) /\ taken \subseteq taken'
  BY SessionsAssumption, TakenGrows DEF CleanInv
<1>1. CASE Restart
  BY <1>0, <1>1 DEF Restart, Cleared, Active, Working, RequestSteps
<1>2. CASE Other
  BY <1>0, <1>2, OtherOnly DEF Cleared, Active
<1>3. ASSUME NEW d \in Conns, Own(d) PROVE Cleared(c)'
  <2>1. CASE d = c
    <3>1. CheckClientId(c) => ~Active(c)
      BY DEF CheckClientId, Active, Working, RequestSteps
    <3>2. QED
      BY <1>0, <1>3, <2>1, <3>1, ClearedOwn
  <2>2. CASE d # c
    <3>1. at'[c] = at[c] /\ watched'[c] = watched[c]
      BY <1>0, <1>3, <2>2, TaskOnly
    <3>2. ASSUME Active(c), ClientOf[c] \notin taken
          PROVE  granted'[ClientOf[c]] = granted[ClientOf[c]]
      <4>1. ClientOf[c] # ClientOf[d] \/ ~Active(d)
        BY <1>0, <2>2, <3>2 DEF OneAtWork
      <4>2. ClientOf[c] \in Ids
        BY <1>0, SessionsAssumption
      <4>3. QED
        BY <1>3, <4>1, <4>2, TaskOnly
    <3>3. QED
      BY <1>0, <3>1, <3>2 DEF Cleared, Active
  <2>3. QED
    BY <2>1, <2>2
<1>4. QED
  BY <1>1, <1>2, <1>3, Cases

\* Only CONNACK makes a session whole again.
LEMMA AbruptStays ==
  ASSUME TypeInv, NEW d \in Conns, Own(d), ~(Accept(d) /\ is_ok[d])
  PROVE  abrupt \subseteq abrupt'
<1> USE DEF TypeInv, TypeOK, connVars, tableVars, pastVars
<1>1. CASE NewConn(d)
  BY <1>1 DEF NewConn
<1>2. CASE Connect(d)
  BY <1>2 DEF Connect
<1>3. CASE CheckClientId(d)
  BY <1>3 DEF CheckClientId
<1>4. CASE StorageFails(d)
  BY <1>4 DEF StorageFails
<1>5. CASE Refuse(d)
  BY <1>5 DEF Refuse
<1>6. CASE Clear(d)
  BY <1>6 DEF Clear
<1>7. CASE Recover(d)
  BY <1>7 DEF Recover
<1>8. CASE RecoverConn(d)
  BY <1>8 DEF RecoverConn
<1>9. CASE RecoverContext(d)
  BY <1>9 DEF RecoverContext
<1>10. CASE RecoverEnd(d)
  BY <1>10 DEF RecoverEnd, AllRead
<1>11. CASE MoveOnline(d, "move_exact", "move_wild", Filters \ Wild)
  BY <1>11 DEF MoveOnline
<1>12. CASE MoveOnline(d, "move_wild", "accepting", Wild)
  BY <1>12 DEF MoveOnline
<1>13. CASE Accept(d)
  BY <1>13 DEF Accept
<1>14. CASE Deny(d)
  BY <1>14 DEF Deny
<1>15. CASE Subscribe(d)
  BY <1>15 DEF Subscribe, Request
<1>16. CASE StoreSub(d)
  BY <1>16 DEF StoreSub, Stored
<1>17. CASE StoreSubFails(d)
  BY <1>17 DEF StoreSubFails
<1>18. CASE SubConn(d)
  BY <1>18 DEF SubConn
<1>19. CASE SubContext(d)
  BY <1>19 DEF SubContext
<1>20. CASE Suback(d)
  BY <1>20 DEF Suback
<1>21. CASE Unsubscribe(d)
  BY <1>21 DEF Unsubscribe, Request
<1>22. CASE UnsubStore(d)
  BY <1>22 DEF UnsubStore
<1>23. CASE UnsubConn(d)
  BY <1>23 DEF UnsubConn
<1>24. CASE UnsubContext(d)
  BY <1>24 DEF UnsubContext, Without
<1>25. CASE Unsuback(d)
  BY <1>25 DEF Unsuback
<1>26. CASE Disconnect(d)
  BY <1>26 DEF Disconnect
<1>q. QED
  BY <1>1, <1>2, <1>3, <1>4, <1>5, <1>6, <1>7, <1>8, <1>9, <1>10, <1>11,
     <1>12, <1>13, <1>14, <1>15, <1>16, <1>17, <1>18, <1>19, <1>20, <1>21,
     <1>22, <1>23, <1>24, <1>25, <1>26, Own(d)
  DEF Own, Client, ConnectTask, RequestTask
LEMMA AbruptStep ==
  ASSUME TypeInv, ReaderInv, OneAtWork, AbruptInv, [Next]_vars
  PROVE  AbruptInv'
<1> SUFFICES ASSUME NEW c \in Conns \ Clean, Broken(c)'
             PROVE  ClientOf[c] \in abrupt' \cup taken'
  BY DEF AbruptInv
<1>0. taken \subseteq taken' /\ ClientOf[c] \in Ids
  BY TakenGrows, SessionsAssumption
<1>1. CASE Restart
  BY <1>1 DEF Restart, Broken
<1>2. CASE Other
  <2>1. at' = at /\ abrupt \subseteq abrupt'
    BY <1>2, OtherOnly, OtherTables
  <2>2. CASE Broken(c)
    BY <1>0, <2>1, <2>2 DEF AbruptInv
  <2>3. CASE ~Broken(c)
    <3>1. is_ok[c] /\ ~is_ok'[c] /\ at[c] \notin {"none", "connect"}
      BY <2>1, <2>3 DEF Broken
    <3>2. ConnDown(c)
      BY <1>2, <3>1 DEF Other, Reader, ReleaseId, MoveOffline, CleanId, CleanExact, CleanWild,
                        Cleanup, ConnDown, connVars, vars, TypeInv, TypeOK
    <3>3. QED
      BY <3>1, <3>2 DEF ConnDown
  <2>4. QED
    BY <2>2, <2>3
<1>3. ASSUME NEW d \in Conns, Own(d) PROVE ClientOf[c] \in abrupt' \cup taken'
  <2>1. CASE d = c
    BY <1>3, <2>1, BrokenOwn DEF AbruptInv
  <2>2. CASE d # c
    <3>1. Broken(c)
      BY <1>3, <2>2, TaskOnly DEF Broken
    <3>2. ClientOf[c] \in abrupt \cup taken
      BY <3>1 DEF AbruptInv
    <3>3. CASE Accept(d) /\ ClientOf[d] = ClientOf[c]
      <4>1. Active(c) /\ Active(d)
        BY <3>1, <3>3 DEF Broken, Accept, Active, Working
      <4>2. QED
        BY <1>0, <2>2, <3>3, <4>1 DEF OneAtWork
    <3>4. CASE ~Accept(d)
      BY <1>0, <1>3, <3>2, <3>4, AbruptStays
    <3>5. CASE ClientOf[d] # ClientOf[c]
      BY <1>0, <1>3, <3>2, <3>5, TaskTables
    <3>6. QED
      BY <3>3, <3>4, <3>5
  <2>3. QED
    BY <2>1, <2>2
<1>4. QED
  BY <1>1, <1>2, <1>3, Cases

\* A connection that has sent DISCONNECT only ends the request it had.
LEMMA LeavingOwn ==
  ASSUME TypeInv, ReaderInv, NEW c \in Conns, Own(c), ~is_ok[c], watched[c],
         at[c] \in RequestSteps \cup {"ready"}
  PROVE  ~is_ok'[c] /\ watched'[c] /\ at'[c] \in RequestSteps \cup {"ready"}
<1> USE DEF TypeInv, TypeOK, Goes, Reads, RequestSteps, connVars, taskVars, tableVars, pastVars
<1>1. CASE NewConn(c)
  BY <1>1 DEF NewConn
<1>2. CASE Connect(c)
  BY <1>2 DEF Connect
<1>3. CASE CheckClientId(c)
  BY <1>3 DEF CheckClientId
<1>4. CASE StorageFails(c)
  BY <1>4 DEF StorageFails
<1>5. CASE Refuse(c)
  BY <1>5 DEF Refuse
<1>6. CASE Clear(c)
  BY <1>6 DEF Clear
<1>7. CASE Recover(c)
  BY <1>7 DEF Recover
<1>8. CASE RecoverConn(c)
  BY <1>8 DEF RecoverConn
<1>9. CASE RecoverContext(c)
  BY <1>9 DEF RecoverContext
<1>10. CASE RecoverEnd(c)
  BY <1>10 DEF RecoverEnd, AllRead
<1>11. CASE MoveOnline(c, "move_exact", "move_wild", Filters \ Wild)
  BY <1>11 DEF MoveOnline
<1>12. CASE MoveOnline(c, "move_wild", "accepting", Wild)
  BY <1>12 DEF MoveOnline
<1>13. CASE Accept(c)
  BY <1>13 DEF Accept
<1>14. CASE Deny(c)
  BY <1>14 DEF Deny
<1>15. CASE Subscribe(c)
  BY <1>15 DEF Subscribe, Request
<1>16. CASE StoreSub(c)
  BY <1>16 DEF StoreSub, Stored
<1>17. CASE StoreSubFails(c)
  BY <1>17 DEF StoreSubFails
<1>18. CASE SubConn(c)
  BY <1>18 DEF SubConn
<1>19. CASE SubContext(c)
  BY <1>19 DEF SubContext
<1>20. CASE Suback(c)
  BY <1>20 DEF Suback
<1>21. CASE Unsubscribe(c)
  BY <1>21 DEF Unsubscribe, Request
<1>22. CASE UnsubStore(c)
  BY <1>22 DEF UnsubStore
<1>23. CASE UnsubConn(c)
  BY <1>23 DEF UnsubConn
<1>24. CASE UnsubContext(c)
  BY <1>24 DEF UnsubContext, Without
<1>25. CASE Unsuback(c)
  BY <1>25 DEF Unsuback
<1>26. CASE Disconnect(c)
  BY <1>26 DEF Disconnect
<1>q. QED
  BY <1>1, <1>2, <1>3, <1>4, <1>5, <1>6, <1>7, <1>8, <1>9, <1>10, <1>11,
     <1>12, <1>13, <1>14, <1>15, <1>16, <1>17, <1>18, <1>19, <1>20, <1>21,
     <1>22, <1>23, <1>24, <1>25, <1>26, Own(c)
  DEF Own, Client, ConnectTask, RequestTask
LEMMA LeavingStep ==
  ASSUME TypeInv, ReaderInv, LeavingInv, [Next]_vars
  PROVE  LeavingInv'
<1> DEFINE Left(c) == /\ ~is_ok[c] /\ watched[c]
                      /\ at[c] \in RequestSteps \cup {"ready"}
<1>0. ASSUME NEW c \in Conns, reader.at \in {"release", "move"}, reader.conn = c
      PROVE  Left(c)
  BY <1>0 DEF LeavingInv
<1>1. CASE Restart \/ UNCHANGED vars
  BY <1>1 DEF Restart, Idle, LeavingInv, vars
<1>2. ASSUME NEW c \in Conns, Cleanup(c) \/ ConnDown(c)
      PROVE  LeavingInv'
  BY <1>2 DEF Cleanup, ConnDown, LeavingInv, taskVars, connVars, TypeInv, TypeOK, Idle
<1>3. CASE CleanId \/ CleanExact \/ CleanWild
  <2>1. reader' = Idle \/ reader'.at \in {"clean_exact", "clean_wild"}
    BY <1>3 DEF CleanId, CleanExact, CleanWild, TypeInv, TypeOK, Idle
  <2>2. QED
    BY <2>1 DEF LeavingInv, Idle
<1>4. CASE ReleaseId \/ MoveOffline
  <2>1. reader.at \in {"release", "move"} /\ UNCHANGED <<at, is_ok, watched>>
        /\ (reader' = Idle \/ reader'.conn = reader.conn)
    BY <1>4 DEF ReleaseId, MoveOffline, TypeInv, TypeOK, Idle, connVars, taskVars
  <2>2. QED
    BY <2>1 DEF LeavingInv, Idle
<1>5. ASSUME NEW d \in Conns, Own(d)
      PROVE  LeavingInv'
  <2>1. CASE Disconnect(d)
    BY <2>1 DEF Disconnect, LeavingInv, Reads, taskVars, TypeInv, TypeOK
  <2>2. CASE reader' = reader
    <3> SUFFICES ASSUME reader.at \in {"release", "move"} PROVE Left(reader.conn)'
      BY <2>2 DEF LeavingInv
    <3>1. PICK c \in Conns : c = reader.conn
      BY DEF TypeInv, TypeOK, Idle
    <3>2. Left(c)
      BY <3>1 DEF LeavingInv
    <3>3. Left(c)'
      BY <1>5, <3>2, LeavingOwn, TaskOnly
    <3>4. QED
      BY <2>2, <3>1, <3>3
  <2>3. QED
    BY <1>5, <2>1, <2>2, TaskTables
<1>6. QED
  BY <1>1, <1>2, <1>3, <1>4, <1>5, Cases DEF Other, Reader

-----------------------------------------------------------------------------
(* Where a subscription is found.                                           *)

\* At a connection that works, or one that is leaving; or there, or offline.
Holds(f, c) == (is_ok[c] /\ f \in Online(c)) \/ Leaving(f, c)
Found(f, i) == \/ <<f, i>> \in offline_subs
               \/ \E c \in Conns : ClientOf[c] = i /\ Holds(f, c)

LEMMA FoundIs ==
  GrantedIsReachable <=> \A i \in Ids \ (abrupt \cup taken) : \A f \in granted[i] : Found(f, i)
  BY DEF GrantedIsReachable, Found, Holds

\* By a step of another connection.
LEMMA HoldsForeign ==
  ASSUME TypeInv, NEW d \in Conns, Own(d), NEW c \in Conns \ {d}, NEW f \in Filters, Holds(f, c)
  PROVE  Holds(f, c)'
<1>1. /\ is_ok'[c] = is_ok[c] /\ conn_subs'[c] = conn_subs[c]
      /\ <<f, c>> \in subs' <=> <<f, c>> \in subs
  BY TaskOnly, TaskTables
<1>2. Leaving(f, c) => reader' = reader
  <2>1. Disconnect(d) => reader.conn = None
    BY DEF Disconnect, Reads, Idle
  <2>2. None # c
    BY SessionsAssumption
  <2>3. QED
    BY <2>1, <2>2, TaskTables DEF Leaving
<1>3. QED
  BY <1>1, <1>2 DEF Holds, Online, Leaving

\* By a step of the connection: it gives up only what is not granted any more.
LEMMA HoldsOwn ==
  ASSUME TypeInv, ReaderInv, LeavingInv, NEW c \in Conns, Own(c), is_ok[c] => Agrees(c),
         at[c] \in {"unsub_conn", "unsub_ctx"} => filter[c] \notin granted[ClientOf[c]],
         NEW f \in granted[ClientOf[c]], f \in granted'[ClientOf[c]], Holds(f, c)
  PROVE  Holds(f, c)'
<1> USE DEF TypeInv, TypeOK, HasFilter, ReaderInv, LeavingInv, Agrees, Holds, Online, Leaving, Goes,
            Reads, RequestSteps, Idle, connVars, taskVars, tableVars, pastVars
<1>0. f \in Filters /\ ClientOf[c] \in Ids
  BY SessionsAssumption
<1>1. CASE NewConn(c)
  BY <1>1 , <1>0 DEF NewConn
<1>2. CASE Connect(c)
  BY <1>2 , <1>0 DEF Connect
<1>3. CASE CheckClientId(c)
  BY <1>3 , <1>0 DEF CheckClientId
<1>4. CASE StorageFails(c)
  BY <1>4 , <1>0 DEF StorageFails
<1>5. CASE Refuse(c)
  BY <1>5 , <1>0 DEF Refuse
<1>6. CASE Clear(c)
  BY <1>6 , <1>0 DEF Clear
<1>7. CASE Recover(c)
  BY <1>7 , <1>0 DEF Recover
<1>8. CASE RecoverConn(c)
  BY <1>8 , <1>0 DEF RecoverConn
<1>9. CASE RecoverContext(c)
  BY <1>9 , <1>0 DEF RecoverContext
<1>10. CASE RecoverEnd(c)
  BY <1>10 , <1>0 DEF RecoverEnd, AllRead
<1>11. CASE MoveOnline(c, "move_exact", "move_wild", Filters \ Wild)
  BY <1>11 , <1>0 DEF MoveOnline
<1>12. CASE MoveOnline(c, "move_wild", "accepting", Wild)
  BY <1>12 , <1>0 DEF MoveOnline
<1>13. CASE Accept(c)
  BY <1>13 , <1>0 DEF Accept
<1>14. CASE Deny(c)
  BY <1>14 , <1>0 DEF Deny
<1>15. CASE Subscribe(c)
  BY <1>15 , <1>0 DEF Subscribe, Request
<1>16. CASE StoreSub(c)
  BY <1>16 , <1>0 DEF StoreSub, Stored
<1>17. CASE StoreSubFails(c)
  BY <1>17 , <1>0 DEF StoreSubFails
<1>18. CASE SubConn(c)
  BY <1>18 , <1>0 DEF SubConn
<1>19. CASE SubContext(c)
  BY <1>19 , <1>0 DEF SubContext
<1>20. CASE Suback(c)
  BY <1>20 , <1>0 DEF Suback
<1>21. CASE Unsubscribe(c)
  BY <1>21 , <1>0 DEF Unsubscribe, Request
<1>22. CASE UnsubStore(c)
  BY <1>22 , <1>0 DEF UnsubStore
<1>23. CASE UnsubConn(c)
  BY <1>23 , <1>0 DEF UnsubConn
<1>24. CASE UnsubContext(c)
  BY <1>24 , <1>0 DEF UnsubContext, Without
<1>25. CASE Unsuback(c)
  BY <1>25 , <1>0 DEF Unsuback
<1>26. CASE Disconnect(c)
  BY <1>26 , <1>0 DEF Disconnect
<1>q. QED
  BY <1>1, <1>2, <1>3, <1>4, <1>5, <1>6, <1>7, <1>8, <1>9, <1>10, <1>11,
     <1>12, <1>13, <1>14, <1>15, <1>16, <1>17, <1>18, <1>19, <1>20, <1>21,
     <1>22, <1>23, <1>24, <1>25, <1>26, Own(c)
  DEF Own, Client, ConnectTask, RequestTask
\* Offline subscriptions are taken by a connection that has them already.
LEMMA OfflineOwn ==
  ASSUME TypeInv, NEW c \in Conns, Own(c), is_ok[c] => Agrees(c),
         c \notin Clean /\ Broken(c) => ClientOf[c] \in abrupt,
         c \in Clean => Cleared(c), ClientOf[c] \notin abrupt,
         NEW f \in Filters, <<f, ClientOf[c]>> \in offline_subs
  PROVE  <<f, ClientOf[c]>> \in offline_subs' \/ Holds(f, c)'
<1> USE DEF TypeInv, TypeOK, Agrees, Broken, Cleared, Holds, Online, Goes,
            connVars, taskVars, tableVars, pastVars
<1>1. CASE NewConn(c)
  BY <1>1 DEF NewConn
<1>2. CASE Connect(c)
  BY <1>2 DEF Connect
<1>3. CASE CheckClientId(c)
  BY <1>3 DEF CheckClientId
<1>4. CASE StorageFails(c)
  BY <1>4 DEF StorageFails
<1>5. CASE Refuse(c)
  BY <1>5 DEF Refuse
<1>6. CASE Clear(c)
  BY <1>6 DEF Clear
<1>7. CASE Recover(c)
  BY <1>7 DEF Recover
<1>8. CASE RecoverConn(c)
  BY <1>8 DEF RecoverConn
<1>9. CASE RecoverContext(c)
  BY <1>9 DEF RecoverContext
<1>10. CASE RecoverEnd(c)
  BY <1>10 DEF RecoverEnd, AllRead
<1>11. CASE MoveOnline(c, "move_exact", "move_wild", Filters \ Wild)
  BY <1>11 DEF MoveOnline
<1>12. CASE MoveOnline(c, "move_wild", "accepting", Wild)
  BY <1>12 DEF MoveOnline
<1>13. CASE Accept(c)
  BY <1>13 DEF Accept
<1>14. CASE Deny(c)
  BY <1>14 DEF Deny
<1>15. CASE Subscribe(c)
  BY <1>15 DEF Subscribe, Request
<1>16. CASE StoreSub(c)
  BY <1>16 DEF StoreSub, Stored
<1>17. CASE StoreSubFails(c)
  BY <1>17 DEF StoreSubFails
<1>18. CASE SubConn(c)
  BY <1>18 DEF SubConn
<1>19. CASE SubContext(c)
  BY <1>19 DEF SubContext
<1>20. CASE Suback(c)
  BY <1>20 DEF Suback
<1>21. CASE Unsubscribe(c)
  BY <1>21 DEF Unsubscribe, Request
<1>22. CASE UnsubStore(c)
  BY <1>22 DEF UnsubStore
<1>23. CASE UnsubConn(c)
  BY <1>23 DEF UnsubConn
<1>24. CASE UnsubContext(c)
  BY <1>24 DEF UnsubContext, Without
<1>25. CASE Unsuback(c)
  BY <1>25 DEF Unsuback
<1>26. CASE Disconnect(c)
  BY <1>26 DEF Disconnect
<1>q. QED
  BY <1>1, <1>2, <1>3, <1>4, <1>5, <1>6, <1>7, <1>8, <1>9, <1>10, <1>11,
     <1>12, <1>13, <1>14, <1>15, <1>16, <1>17, <1>18, <1>19, <1>20, <1>21,
     <1>22, <1>23, <1>24, <1>25, <1>26, Own(c)
  DEF Own, Client, ConnectTask, RequestTask
\* What is granted by a step was registered before.
LEMMA GrantedOwn ==
  ASSUME TypeInv, NEW c \in Conns, Own(c), c \notin Clean /\ is_ok[c] => Whole(c),
         NEW f \in Filters, f \in granted'[ClientOf[c]], f \notin granted[ClientOf[c]]
  PROVE  Holds(f, c)'
<1> USE DEF TypeInv, TypeOK, Whole, Holds, Online, Goes, Reads,
            connVars, taskVars, tableVars, pastVars
<1>0. ClientOf[c] \in Ids
  BY SessionsAssumption
<1>1. CASE NewConn(c)
  BY <1>1 , <1>0 DEF NewConn
<1>2. CASE Connect(c)
  BY <1>2 , <1>0 DEF Connect
<1>3. CASE CheckClientId(c)
  BY <1>3 , <1>0 DEF CheckClientId
<1>4. CASE StorageFails(c)
  BY <1>4 , <1>0 DEF StorageFails
<1>5. CASE Refuse(c)
  BY <1>5 , <1>0 DEF Refuse
<1>6. CASE Clear(c)
  BY <1>6 , <1>0 DEF Clear
<1>7. CASE Recover(c)
  BY <1>7 , <1>0 DEF Recover
<1>8. CASE RecoverConn(c)
  BY <1>8 , <1>0 DEF RecoverConn
<1>9. CASE RecoverContext(c)
  BY <1>9 , <1>0 DEF RecoverContext
<1>10. CASE RecoverEnd(c)
  BY <1>10 , <1>0 DEF RecoverEnd, AllRead
<1>11. CASE MoveOnline(c, "move_exact", "move_wild", Filters \ Wild)
  BY <1>11 , <1>0 DEF MoveOnline
<1>12. CASE MoveOnline(c, "move_wild", "accepting", Wild)
  BY <1>12 , <1>0 DEF MoveOnline
<1>13. CASE Accept(c)
  BY <1>13 , <1>0 DEF Accept
<1>14. CASE Deny(c)
  BY <1>14 , <1>0 DEF Deny
<1>15. CASE Subscribe(c)
  BY <1>15 , <1>0 DEF Subscribe, Request
<1>16. CASE StoreSub(c)
  BY <1>16 , <1>0 DEF StoreSub, Stored
<1>17. CASE StoreSubFails(c)
  BY <1>17 , <1>0 DEF StoreSubFails
<1>18. CASE SubConn(c)
  BY <1>18 , <1>0 DEF SubConn
<1>19. CASE SubContext(c)
  BY <1>19 , <1>0 DEF SubContext
<1>20. CASE Suback(c)
  BY <1>20 , <1>0 DEF Suback
<1>21. CASE Unsubscribe(c)
  BY <1>21 , <1>0 DEF Unsubscribe, Request
<1>22. CASE UnsubStore(c)
  BY <1>22 , <1>0 DEF UnsubStore
<1>23. CASE UnsubConn(c)
  BY <1>23 , <1>0 DEF UnsubConn
<1>24. CASE UnsubContext(c)
  BY <1>24 , <1>0 DEF UnsubContext, Without
<1>25. CASE Unsuback(c)
  BY <1>25 , <1>0 DEF Unsuback
<1>26. CASE Disconnect(c)
  BY <1>26 , <1>0 DEF Disconnect
<1>q. QED
  BY <1>1, <1>2, <1>3, <1>4, <1>5, <1>6, <1>7, <1>8, <1>9, <1>10, <1>11,
     <1>12, <1>13, <1>14, <1>15, <1>16, <1>17, <1>18, <1>19, <1>20, <1>21,
     <1>22, <1>23, <1>24, <1>25, <1>26, Own(c)
  DEF Own, Client, ConnectTask, RequestTask
LEMMA FoundOwn ==
  ASSUME SessionsInv, AgreeInv, CleanInv, AbruptInv, LeavingInv, GrantedIsReachable,
         [Next]_vars, NEW c \in Conns, Own(c),
         NEW f \in Filters, f \in granted'[ClientOf[c]], ClientOf[c] \notin abrupt' \cup taken'
  PROVE  Found(f, ClientOf[c])'
<1> DEFINE i == ClientOf[c]
<1>0. /\ TypeInv /\ ReaderInv /\ i \in Ids /\ i \notin taken
      /\ is_ok[c] => Agrees(c)
      /\ c \in Clean => Cleared(c)
      /\ c \notin Clean => Local(c)
  BY TakenGrows, Locally, SessionsAssumption DEF SessionsInv, AgreeInv, CleanInv
<1>1. CASE f \notin granted[i]
  <2>1. Holds(f, c)'
    BY <1>0, <1>1, GrantedOwn DEF Local
  <2>2. QED
    BY <2>1 DEF Found
<1>2. CASE f \in granted[i] /\ i \in abrupt
  <2>1. Accept(c) /\ is_ok[c]
    BY <1>0, <1>2, AbruptStays
  <2>2. c \notin Clean
    BY <1>0, <1>2, <2>1 DEF Accept, Cleared, Active, Working
  <2>3. f \in Online(c)
    BY <1>0, <1>2, <2>1, <2>2 DEF Accept, Local, Whole
  <2>4. Holds(f, c)'
    BY <2>1, <2>3 DEF Accept, Holds, Online, tableVars, connVars
  <2>5. QED
    BY <2>4 DEF Found
<1>3. CASE f \in granted[i] /\ i \notin abrupt
  <2>1. Found(f, i)
    BY <1>0, <1>3, FoundIs
  <2>2. CASE <<f, i>> \in offline_subs
    <3>1. c \notin Clean /\ Broken(c) => i \in abrupt
      BY <1>0 DEF AbruptInv
    <3>2. <<f, i>> \in offline_subs' \/ Holds(f, c)'
      BY <1>0, <1>3, <2>2, <3>1, OfflineOwn
    <3>3. QED
      BY <3>2 DEF Found
  <2>3. ASSUME NEW d \in Conns, ClientOf[d] = i, Holds(f, d)
        PROVE  Found(f, i)'
    <3>1. CASE d # c
      BY <1>0, <2>3, <3>1, HoldsForeign DEF Found
    <3>2. CASE d = c
      <4>1. at[c] \in {"unsub_conn", "unsub_ctx"} => filter[c] \notin granted[i]
        BY <1>0, <1>3 DEF Local, Cleared, Active, Working, RequestSteps
      <4>2. Holds(f, c)'
        BY <1>0, <1>3, <2>3, <3>2, <4>1, HoldsOwn
      <4>3. QED
        BY <4>2 DEF Found
    <3>3. QED
      BY <3>1, <3>2
  <2>4. QED
    BY <2>1, <2>2, <2>3 DEF Found
<1>4. QED
  BY <1>1, <1>2, <1>3

\* By a step of the reader, or a connection that breaks.
LEMMA FoundOther ==
  ASSUME SessionsInv, AgreeInv, CleanInv, LeavingInv, Other, [Next]_vars,
         NEW i \in Ids, i \notin abrupt' \cup taken', NEW f \in granted[i], Found(f, i)
  PROVE  Found(f, i)'
<1>0. /\ TypeInv /\ ReaderInv /\ f \in Filters /\ i \notin taken
      /\ offline_subs \subseteq offline_subs' /\ conn_subs' = conn_subs
  BY TakenGrows, OtherTables DEF SessionsInv, TypeInv, TypeOK
<1>1. ASSUME NEW c \in Conns, ClientOf[c] = i, is_ok[c], f \in Online(c)
      PROVE  Holds(f, c)'
  <2>1. CASE is_ok'[c]
    BY <1>0, <1>1, <2>1, OtherOnly DEF Holds, Online
  <2>2. CASE ~is_ok'[c]
    <3>1. ConnDown(c)
      BY <1>0, <1>1, <2>2 DEF Other, Reader, ReleaseId, MoveOffline, CleanId, CleanExact, CleanWild,
                        Cleanup, ConnDown, connVars, vars, TypeInv, TypeOK
    <3>2. at[c] \in {"none", "connect"} \/ c \in Clean
      BY <1>1, <3>1 DEF ConnDown
    <3>3. Agrees(c) /\ watched[c]
      BY <1>0, <1>1 DEF AgreeInv, ReaderInv
    <3>4. at[c] \notin {"gone", "none", "connect", "registered", "refusing"}
      BY <1>1, <3>3 DEF Agrees
    <3>5. Cleared(c) /\ at[c] \in Steps
      BY <1>0, <3>2, <3>4 DEF CleanInv, TypeInv, TypeOK
    <3>6. Active(c)
      BY <3>3, <3>4, <3>5 DEF Cleared, Active, Working, Steps, ConnectSteps
    <3>7. QED
      BY <1>0, <1>1, <3>4, <3>5, <3>6 DEF Cleared
  <2>3. QED
    BY <2>1, <2>2
<1>2. ASSUME NEW c \in Conns, ClientOf[c] = i, Leaving(f, c)
      PROVE  Found(f, i)'
  <2>1. /\ reader.conn = c /\ reader.at \in {"release", "move"}
        /\ reader \in [at : ReaderSteps, conn : Conns, left : SUBSET Filters]
    BY <1>0, <1>2 DEF Leaving, TypeInv, TypeOK, Idle
  <2>2. c \notin Clean
    <3>1. Active(c) /\ at[c] # "registered"
      BY <2>1 DEF LeavingInv, Active, Working, RequestSteps
    <3>2. QED
      BY <1>0, <1>2, <3>1 DEF CleanInv, Cleared
  <2>3. CASE ReleaseId
    <3>1. f \in conn_subs[c] /\ reader.at = "release"
      BY <1>2, <2>3 DEF Leaving, ReleaseId
    <3>2. reader' = [reader EXCEPT !.at = "move", !.left = conn_subs[c]]
      BY <2>1, <2>2, <2>3, <3>1 DEF ReleaseId
    <3>3. reader'.conn = c /\ reader'.at = "move" /\ reader'.left = conn_subs[c]
      BY <2>1, <3>2
    <3>4. QED
      BY <1>2, <3>1, <3>3 DEF Found, Holds, Leaving
  <2>4. CASE MoveOffline
    <3>1. f \in reader.left /\ reader.at = "move"
      BY <1>2, <2>4 DEF Leaving, MoveOffline
    <3>2. PICK g \in reader.left :
             /\ offline_subs' = offline_subs \cup Entry(g, reader.conn)
             /\ reader' = IF reader.left = {g} THEN Idle ELSE [reader EXCEPT !.left = reader.left \ {g}]
      BY <2>4 DEF MoveOffline
    <3>3. CASE f = g
      BY <1>2, <2>1, <3>2, <3>3 DEF Found, Entry
    <3>4. CASE f # g
      <4>1. reader' = [reader EXCEPT !.left = reader.left \ {g}]
        BY <3>1, <3>2, <3>4
      <4>2. reader'.conn = c /\ reader'.at = "move" /\ f \in reader'.left
        BY <2>1, <3>1, <3>4, <4>1
      <4>3. QED
        BY <1>2, <4>2 DEF Found, Holds, Leaving
    <3>5. QED
      BY <3>3, <3>4
  <2>5. CASE UNCHANGED reader
    BY <1>0, <1>2, <2>5 DEF Found, Holds, Leaving
  <2>6. QED
    BY <2>1, <2>3, <2>4, <2>5 DEF Other, Reader, CleanId, CleanExact, CleanWild, Cleanup, ConnDown,
                                  Idle, vars
<1>3. QED
  BY <1>0, <1>1, <1>2 DEF Found, Holds

LEMMA ReachStep ==
  ASSUME SessionsInv, AgreeInv, CleanInv, AbruptInv, LeavingInv, GrantedIsReachable, [Next]_vars
  PROVE  GrantedIsReachable'
<1> SUFFICES ASSUME NEW i \in Ids, i \notin abrupt' \cup taken', NEW f \in granted'[i]
             PROVE  Found(f, i)'
  BY DEF GrantedIsReachable, Found, Holds
<1>0. SessionsInv' /\ i \notin taken /\ f \in Filters
  <2>1. SessionsInv' /\ i \notin taken
    BY Inductive, TakenGrows
  <2>2. QED
    BY <2>1 DEF SessionsInv, TypeInv, TypeOK
<1>1. CASE Restart
  <2>1. f \in disk[i]
    BY <1>0, <1>1 DEF Restart, SessionsInv, StoredInv, GrantedIsStored
  <2>2. QED
    BY <1>1, <2>1 DEF Restart, Found
<1>2. CASE Other
  <2>1. f \in granted[i] /\ i \notin abrupt
    BY <1>0, <1>2, OtherOnly, OtherTables DEF SessionsInv
  <2>2. QED
    BY <1>0, <1>2, <2>1, FoundIs, FoundOther
<1>3. ASSUME NEW c \in Conns, Own(c) PROVE Found(f, i)'
  <2>1. CASE ClientOf[c] = i
    BY <1>0, <1>3, <2>1, FoundOwn
  <2>2. CASE ClientOf[c] # i
    <3>1. /\ f \in granted[i] /\ i \notin abrupt
          /\ <<f, i>> \in offline_subs => <<f, i>> \in offline_subs'
      BY <1>0, <1>3, <2>2, TaskOnly, TaskTables DEF SessionsInv
    <3>2. Found(f, i)
      BY <1>0, <3>1, FoundIs
    <3>3. ASSUME NEW d \in Conns, ClientOf[d] = i, Holds(f, d) PROVE Holds(f, d)'
      BY <1>0, <1>3, <2>2, <3>3, HoldsForeign DEF SessionsInv
    <3>4. QED
      BY <3>1, <3>2, <3>3 DEF Found
  <2>3. QED
    BY <2>1, <2>2
<1>4. QED
  BY <1>1, <1>2, <1>3, Cases

TablesInv == AgreeInv /\ CleanInv /\ AbruptInv /\ LeavingInv /\ GrantedIsReachable

LEMMA TablesInitially == Init => TablesInv
<1> SUFFICES ASSUME Init PROVE TablesInv
  OBVIOUS
<1>1. \A c \in Conns : at[c] = "gone" /\ is_ok[c] = FALSE
  BY DEF Init
<1>2. AgreeInv /\ AbruptInv
  BY <1>1 DEF AgreeInv, AbruptInv, Broken
<1>3. CleanInv
  BY <1>1, SessionsAssumption DEF CleanInv, Cleared, Active, Working, RequestSteps
<1>4. LeavingInv /\ GrantedIsReachable
  BY DEF Init, Idle, LeavingInv, GrantedIsReachable
<1>5. QED
  BY <1>2, <1>3, <1>4 DEF TablesInv

LEMMA TablesStep ==
  ASSUME SessionsInv, TablesInv, [Next]_vars
  PROVE  TablesInv'
<1>1. TypeInv /\ ReaderInv /\ OneAtWork
  BY DEF SessionsInv, StoredInv
<1>2. QED
  BY <1>1, AgreeStep, CleanStep, AbruptStep, LeavingStep, ReachStep DEF TablesInv

LEMMA TablesInvariance == Spec => []TablesInv
  BY InitInv, Inductive, TablesInitially, TablesStep, PTL DEF Spec

-----------------------------------------------------------------------------

\* The strengthened invariant, of which the theorems below are parts.
THEOREM SessionsInvariance == Spec => []SessionsInv
  BY InitInv, Inductive, PTL DEF Spec

\* Every variable keeps its type, for any connections, identifiers and filters;
\* it needs that a task that registers a subscription still has its filter.
THEOREM SessionsTypeCorrect == Spec => []TypeOK
<1>1. SessionsInv => TypeOK
  BY DEF SessionsInv, TypeInv
<1>2. QED
  BY <1>1, SessionsInvariance, PTL

\* What __myqtt_reader_handle_subscribe granted is on disk, until the client gives
\* it up or asks for a clean session, as long as the identifier of the session was
\* not given to a second connection while another one was at work.
THEOREM GrantedIsStoredCorrect == Spec => []GrantedIsStored
<1>1. SessionsInv => GrantedIsStored
  BY DEF SessionsInv, StoredInv
<1>2. QED
  BY <1>1, SessionsInvariance, PTL

\* However the last connection of the session ended, a client that gets CONNACK
\* is subscribed to all that it was granted: __myqtt_reader_handle_connect
\* recovers the session from disk before the answer.
THEOREM ReturnsWithAllCorrect == Spec => []ReturnsWithAll
<1>1. SessionsInv => ReturnsWithAll
  BY DEF SessionsInv, OnlineInv, ReturnsWithAll, Connected, Whole
<1>2. QED
  BY <1>1, SessionsInvariance, PTL

\* Between two requests of a connection that works, what conn->subs holds of it
\* is what the tables of the context hold, whatever other connections, the
\* reader and restarts do.
THEOREM TablesAgreeCorrect == Spec => []TablesAgree
<1>1. TablesInv => TablesAgree
  BY DEF TablesInv, AgreeInv, Agrees, TablesAgree
<1>2. QED
  BY <1>1, TablesInvariance, PTL

\* A subscription that was granted is always where publications look for it,
\* but for the moment in which DISCONNECT moves it: through requests,
\* DISCONNECT, the absence of the client, its return and restarts, unless a
\* connection of the session broke or its identifier was given away too early.
THEOREM GrantedIsReachableCorrect == Spec => []GrantedIsReachable
<1>1. TablesInv => GrantedIsReachable
  BY DEF TablesInv
<1>2. QED
  BY <1>1, TablesInvariance, PTL
=============================================================================
