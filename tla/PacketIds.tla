----------------------------- MODULE PacketIds -----------------------------
(***************************************************************************)
(* Packet identifiers of one connection: how publish, subscribe and        *)
(* unsubscribe operations choose one (__myqtt_conn_get_next_pkgid), wait   *)
(* for the reply that carries it (lib/myqtt-reader.c, wait replies) and    *)
(* give it back or keep it (lib/myqtt-conn.c).                             *)
(*                                                                         *)
(* An identifier in use is recorded three times: in conn->sent_pkgids, as  *)
(* a file of the session's pkgids directory (a lock that outlives the      *)
(* connection) and, while a reply is awaited, in conn->wait_replies.       *)
(***************************************************************************)
EXTENDS Integers, Sequences, FiniteSets, SequencesExt

CONSTANTS
    Ops,          \* operations, each run by a thread of its own
    Kind,         \* "pub1", "pub2" (publish) or "sub" (subscribe, unsubscribe)
    FlushId,      \* identifiers of stored messages: over a recovered session
                  \* these publishes may be their resending
    Leftover,     \* identifiers a recovered session still holds locked
    MaxId,        \* the largest identifier (65535 in the code)
    None

ASSUME PacketIdsAssumption ==
    /\ IsFiniteSet(Ops)
    /\ Kind \in [Ops -> {"pub1", "pub2", "sub"}]
    /\ MaxId \in Nat \ {0}
    /\ Leftover \subseteq 1 .. MaxId
    /\ DOMAIN FlushId \subseteq {o \in Ops : Kind[o] # "sub"}
    /\ FlushId \in [DOMAIN FlushId -> Leftover]
    /\ None \notin Ops

VARIABLES
    recovered,     \* the connection took up an earlier session
    storage_ok,    \* the session's pkgids directory can be used
    is_ok,         \* the connection works
    sent_pkgids,   \* conn->sent_pkgids, the list the allocator scans
    locked,        \* files in the session's pkgids directory
    wait_replies,  \* conn->wait_replies: whose queue is installed for each id
    queue,         \* replies pushed to the queue each operation installed
    pc,            \* where each operation is
    pkg_id,        \* the identifier each operation uses
    waits_on,      \* the queue __myqtt_reader_get_reply found
    resent,        \* publishes that send a stored message again
    round,         \* 2 once a QoS 2 publish has its PUBREC
    requests,      \* sent to the peer and not answered
    replies,       \* answers on their way back
    accepted       \* the answers each operation took as its own

vars == <<recovered, storage_ok, is_ok, sent_pkgids, locked, wait_replies, queue,
          pc, pkg_id, waits_on, resent, round, requests, replies, accepted>>

opVars    == <<pkg_id, resent>>
idVars    == <<recovered, storage_ok, sent_pkgids, locked>>
netVars   == <<requests, replies>>
replyVars == <<wait_replies, queue, waits_on, accepted>>

\* An append at the end of a full list may go past MaxId.
Ids == 1 .. MaxId + Cardinality(Ops)

\* What the peer is asked and answers.  Replies carry an identifier and a type
\* (given by kind and round); op is who asked, which the wire does not tell.
Request == [op : Ops, id : Ids, round : {1, 2}]

\* Identifiers stay above 0, and go past MaxId by no more than the operations.
TypeOK ==
    /\ recovered \in BOOLEAN
    /\ storage_ok \in BOOLEAN
    /\ is_ok \in BOOLEAN
    /\ sent_pkgids \in Seq(Ids)
    /\ locked \subseteq Ids
    /\ wait_replies \in [Ids -> Ops \cup {None}]
    /\ queue \in [Ops -> Seq(Request)]
    /\ pc \in [Ops -> {"idle", "built", "prepared", "sent", "waiting",
                       "replied", "done", "failed"}]
    /\ pkg_id \in [Ops -> Ids \cup {0}]
    /\ waits_on \in [Ops -> Ops \cup {None}]
    /\ resent \subseteq DOMAIN FlushId
    /\ round \in [Ops -> {1, 2}]
    /\ requests \subseteq Request
    /\ replies \subseteq Request
    /\ accepted \subseteq Ops \X Request

Init ==
    /\ recovered \in BOOLEAN
    /\ storage_ok \in BOOLEAN
    /\ is_ok = TRUE
    /\ sent_pkgids = <<>>
    /\ locked = IF recovered THEN Leftover ELSE {}
    /\ wait_replies = [i \in Ids |-> None]
    /\ queue = [o \in Ops |-> <<>>]
    /\ pc = [o \in Ops |-> "idle"]
    /\ pkg_id = [o \in Ops |-> 0]
    /\ waits_on = [o \in Ops |-> None]
    /\ resent = {}
    /\ round = [o \in Ops |-> 1]
    /\ requests = {}
    /\ replies = {}
    /\ accepted = {}

-----------------------------------------------------------------------------
(* __myqtt_conn_get_next_pkgid_aux, under conn->op_mutex.                   *)

Waited(i) == wait_replies[i] # None

\* An empty list and no reply awaited: the first identifier whose lock file can
\* be created; the last one is used without trying to lock it.
FirstUnlocked ==
    CHOOSE i \in 1 .. MaxId :
        /\ i = MaxId \/ i \notin locked
        /\ \A j \in 1 .. i - 1 : j \in locked

\* Mutant: a candidate that is in the list is only given up if it is awaited or
\* locked.
TakenElsewhere(i, value) == Waited(i) \/ i \in locked
Taken(i, value)          == i = value \/ Waited(i) \/ i \in locked

\* One turn of the scan, over a value of the list.  The scan moves past the
\* value also when the candidate itself is rejected, and only a candidate
\* smaller than the value is looked up in wait_replies and locked.
ScanValue(scan, value) ==
    IF scan.found \/ scan.id > value
    THEN [scan EXCEPT !.at = IF scan.found THEN @ ELSE @ + 1]
    ELSE IF Taken(scan.id, value)
    THEN [scan EXCEPT !.id = @ + 1, !.at = @ + 1]
    ELSE [scan EXCEPT !.found = TRUE]

\* The scan after the first k values of the list.
ScanAfter[k \in 0 .. Len(sent_pkgids)] ==
    IF k = 0 THEN [id |-> 1, at |-> 1, found |-> FALSE]
             ELSE ScanValue(ScanAfter[k - 1], sent_pkgids[k])

Scan == ScanAfter[Len(sent_pkgids)]

\* The chosen identifier, the list with it, and the lock taken for it: an
\* identifier appended after a whole scan is neither looked up nor locked.
NextPkgId ==
    IF sent_pkgids = <<>> /\ \A i \in Ids : ~Waited(i)
    THEN [id |-> FirstUnlocked, list |-> <<FirstUnlocked>>,
          lock |-> {FirstUnlocked} \ {MaxId}]
    ELSE IF Scan.found
    THEN [id |-> Scan.id, list |-> InsertAt(sent_pkgids, Scan.at, Scan.id),
          lock |-> {Scan.id}]
    ELSE [id |-> Scan.id, list |-> Append(sent_pkgids, Scan.id), lock |-> {}]

\* The identifier does not fit in 16 bits: the message is not built.  A publish
\* returns without giving the identifier back, a subscribe gives it back.
Overflows(i) == i > MaxId

Allocate(o) ==
    /\ pc[o] = "idle"
    /\ is_ok
    /\ UNCHANGED <<recovered, storage_ok>>
    /\ \/ /\ storage_ok
          /\ pkg_id' = [pkg_id EXCEPT ![o] = NextPkgId.id]
          /\ IF Overflows(NextPkgId.id) /\ Kind[o] = "sub"
             THEN UNCHANGED <<sent_pkgids, locked>>
             ELSE /\ sent_pkgids' = NextPkgId.list
                  /\ locked' = locked \cup NextPkgId.lock
          /\ pc' = [pc EXCEPT ![o] = IF Overflows(NextPkgId.id) THEN "failed"
                                                                ELSE "built"]
       \* myqtt_storage_init fails: identifier 1, recorded nowhere.
       \/ /\ ~storage_ok
          /\ pkg_id' = [pkg_id EXCEPT ![o] = 1]
          /\ pc' = [pc EXCEPT ![o] = "built"]
          /\ UNCHANGED <<sent_pkgids, locked>>
    /\ UNCHANGED <<is_ok, replyVars, resent, round, netVars>>

\* myqtt_storage_queued_flush_work takes the identifier of the stored message.
AllocateFlush(o) ==
    /\ pc[o] = "idle"
    /\ o \in DOMAIN FlushId
    /\ recovered
    /\ resent' = resent \cup {o}
    /\ pkg_id' = [pkg_id EXCEPT ![o] = FlushId[o]]
    /\ pc' = [pc EXCEPT ![o] = "built"]
    /\ UNCHANGED <<is_ok, idVars, replyVars, round, netVars>>

\* Mutant: the identifier stays in the list.
ReleaseLock(o) ==
    /\ locked' = locked \ {pkg_id[o]}
    /\ UNCHANGED <<recovered, storage_ok, sent_pkgids>>

\* __myqtt_conn_release_pkgid: the first match leaves the list, the lock goes.
Release(o) ==
    /\ sent_pkgids' = RemoveFirst(sent_pkgids, pkg_id[o])
    /\ locked' = locked \ {pkg_id[o]}
    /\ UNCHANGED <<recovered, storage_ok>>

\* Mutant: a failed publish releases its identifier too.
ReleaseAlways(o) == Release(o)

\* A failed publish keeps its identifier, a failed subscribe releases it.
ReleaseOnFailure(o) == IF Kind[o] = "sub" THEN Release(o) ELSE UNCHANGED idVars

\* The message cannot be stored, before it is first sent: a publish does
\* release it here.
StoreFails(o) ==
    /\ pc[o] = "built"
    /\ Kind[o] # "sub"
    /\ round[o] = 1
    /\ o \notin resent
    /\ Release(o)
    /\ pc' = [pc EXCEPT ![o] = "failed"]
    /\ UNCHANGED <<is_ok, replyVars, opVars, round, netVars>>

-----------------------------------------------------------------------------
(* Waiting for the reply.                                                   *)

\* __myqtt_reader_prepare_wait_reply: a fresh queue is installed, over another
\* one if there is one.
Prepare(o) ==
    /\ pc[o] = "built"
    /\ wait_replies' = [wait_replies EXCEPT ![pkg_id[o]] = o]
    /\ queue' = [queue EXCEPT ![o] = <<>>]
    /\ pc' = [pc EXCEPT ![o] = "prepared"]
    /\ UNCHANGED <<is_ok, idVars, opVars, waits_on, accepted, round, netVars>>

Send(o) ==
    /\ pc[o] = "prepared"
    /\ is_ok
    /\ requests' = requests \cup {[op |-> o, id |-> pkg_id[o], round |-> round[o]]}
    /\ pc' = [pc EXCEPT ![o] = "sent"]
    /\ UNCHANGED <<is_ok, idVars, replyVars, opVars, round, replies>>

\* The sequencer refuses the message.  __myqtt_reader_remove_wait_reply frees
\* the queue but leaves it in the hash.
SendFails(o) ==
    /\ pc[o] = "prepared"
    /\ ~is_ok
    /\ ReleaseOnFailure(o)
    /\ pc' = [pc EXCEPT ![o] = "failed"]
    /\ UNCHANGED <<is_ok, replyVars, opVars, round, netVars>>

\* __myqtt_reader_get_reply looks the queue up again, by the identifier.
Wait(o) ==
    /\ pc[o] = "sent"
    /\ Waited(pkg_id[o])
    /\ waits_on' = [waits_on EXCEPT ![o] = wait_replies[pkg_id[o]]]
    /\ pc' = [pc EXCEPT ![o] = "waiting"]
    /\ UNCHANGED <<is_ok, idVars, wait_replies, queue, accepted, opVars, round,
                   netVars>>

\* ... and returns NULL if it is not there any more.
WaitFails(o) ==
    /\ pc[o] = "sent"
    /\ ~Waited(pkg_id[o])
    /\ ReleaseOnFailure(o)
    /\ pc' = [pc EXCEPT ![o] = "failed"]
    /\ UNCHANGED <<is_ok, replyVars, opVars, round, netVars>>

\* Mutant: the entry is left in the hash.
EntryKept(i) == wait_replies

\* The entry of an identifier is deleted.
EntryDeleted(i) == [wait_replies EXCEPT ![i] = None]

ReplyType(r) == <<Kind[r.op] = "sub", r.round,
                  Kind[r.op] = "pub2">>
ExpectedType(o) == <<Kind[o] = "sub", round[o], Kind[o] = "pub2">>

\* A reply was queued: the entry is deleted and the reply is checked for its
\* identifier (always right) and its type.  A QoS 2 publish then goes for the
\* second round with the same identifier.
TakeReply(o) ==
    /\ pc[o] = "waiting"
    /\ queue[waits_on[o]] # <<>>
    /\ LET reply == Head(queue[waits_on[o]])
           right == ReplyType(reply) = ExpectedType(o)
       IN  /\ queue' = [queue EXCEPT ![waits_on[o]] = Tail(@)]
           /\ wait_replies' = EntryDeleted(pkg_id[o])
           /\ accepted' = IF right THEN accepted \cup {<<o, reply>>} ELSE accepted
           /\ IF ~right
              THEN /\ ReleaseOnFailure(o)
                   /\ pc' = [pc EXCEPT ![o] = "failed"]
                   /\ UNCHANGED round
              ELSE IF Kind[o] = "pub2" /\ round[o] = 1
              THEN /\ round' = [round EXCEPT ![o] = 2]
                   /\ pc' = [pc EXCEPT ![o] = "built"]
                   /\ UNCHANGED idVars
              ELSE /\ pc' = [pc EXCEPT ![o] = "replied"]
                   /\ UNCHANGED <<idVars, round>>
    /\ waits_on' = [waits_on EXCEPT ![o] = None]
    /\ UNCHANGED <<is_ok, opVars, netVars>>

\* The time is over, or the connection is down, and nothing was queued.
GiveUp(o) ==
    /\ pc[o] = "waiting"
    /\ queue[waits_on[o]] = <<>>
    /\ wait_replies' = EntryDeleted(pkg_id[o])
    /\ ReleaseOnFailure(o)
    /\ pc' = [pc EXCEPT ![o] = "failed"]
    /\ waits_on' = [waits_on EXCEPT ![o] = None]
    /\ UNCHANGED <<is_ok, queue, accepted, opVars, round, netVars>>

Complete(o) ==
    /\ pc[o] = "replied"
    /\ Release(o)
    /\ pc' = [pc EXCEPT ![o] = "done"]
    /\ UNCHANGED <<is_ok, replyVars, opVars, round, netVars>>

-----------------------------------------------------------------------------
\* The peer answers what it was asked, in any order, once.
PeerAnswers(r) ==
    /\ r \in requests
    /\ requests' = requests \ {r}
    /\ replies' = replies \cup {r}
    /\ UNCHANGED <<is_ok, idVars, replyVars, pc, opVars, round>>

\* __myqtt_reader_handle_wait_reply, run by the pool: the reply goes to the
\* queue installed for its identifier, or nowhere.
HandleReply(r) ==
    /\ r \in replies
    /\ replies' = replies \ {r}
    /\ IF Waited(r.id)
       THEN queue' = [queue EXCEPT ![wait_replies[r.id]] = Append(@, r)]
       ELSE UNCHANGED queue
    /\ UNCHANGED <<is_ok, idVars, wait_replies, waits_on, accepted, pc, opVars,
                   round, requests>>

\* Of the replies that arrived, those the asynchronous proxy has already taken
\* are still delivered; the rest goes with the socket.
ConnDown ==
    /\ is_ok
    /\ is_ok' = FALSE
    /\ requests' = {}
    /\ replies' \in SUBSET replies
    /\ UNCHANGED <<idVars, replyVars, pc, opVars, round>>

Op(o) == \/ Prepare(o) \/ Send(o) \/ SendFails(o) \/ Wait(o) \/ WaitFails(o)
         \/ TakeReply(o) \/ GiveUp(o) \/ Complete(o)

Next == \/ \E o \in Ops : Allocate(o) \/ AllocateFlush(o) \/ StoreFails(o) \/ Op(o)
        \/ \E r \in requests : PeerAnswers(r)
        \/ \E r \in replies : HandleReply(r)
        \/ ConnDown

Spec == Init /\ [][Next]_vars

-----------------------------------------------------------------------------
(* Properties.                                                              *)

InFlight(o) == pc[o] \in {"built", "prepared", "sent", "waiting", "replied"}

\* A session that begins with the connection, and whose identifiers can be
\* recorded.
FreshSession == ~recovered /\ storage_ok

\* Two operations of a connection never use the same identifier at the same
\* time, whatever was released, refused or kept in between.
DistinctInFlight ==
    FreshSession =>
        \A o, p \in Ops : o # p /\ InFlight(o) /\ InFlight(p) => pkg_id[o] # pkg_id[p]

\* ... also over a recovered session: an identifier is not "used by any other
\* operation in progress".
DistinctWhenRecovered ==
    storage_ok =>
        \A o, p \in Ops : o # p /\ InFlight(o) /\ InFlight(p) => pkg_id[o] # pkg_id[p]

\* Every identifier in the list is used by an operation or was kept by a publish
\* that failed, and is there once: nothing leaks, and nothing is given back twice.
IdsAccounted ==
    FreshSession =>
        /\ \A i, j \in DOMAIN sent_pkgids : i # j => sent_pkgids[i] # sent_pkgids[j]
        /\ ToSet(sent_pkgids) \subseteq
              {pkg_id[o] : o \in {p \in Ops : InFlight(p) \/ pc[p] = "failed"}}
        /\ \A o \in Ops : InFlight(o) => pkg_id[o] \in ToSet(sent_pkgids)

\* The reply a publish takes is the answer to its own request, not a late
\* answer to an earlier operation that used the same identifier: that is what
\* keeping the identifiers of failed publishes is for.
ReplyIsOwn ==
    FreshSession =>
        \A a \in accepted : Kind[a[1]] # "sub"
                               => a[2].op = a[1] /\ a[2].id = pkg_id[a[1]]

\* Over a session that begins with the connection, and while it works, an
\* installed queue belongs to an operation that is still to wait on it:
\* myqtt_conn_close, which waits for wait_replies to be empty, is not held up by
\* an operation that ended.  What a failed send leaves is below.
WaitEntryIsLive ==
    FreshSession /\ is_ok => \A i \in Ids : Waited(i) =>
                 \E o \in Ops : /\ pkg_id[o] = i
                                /\ pc[o] \in {"prepared", "sent", "waiting"}

\* A reply, however late, reaches the queue of an operation in progress or none: that
\* of one that ended was removed "from the set of wait replies" (lib/myqtt-reader.c:2303).
\* Not so: when a send fails its queue is released, and its entry stays.
ReplyFindsItsQueue ==
    FreshSession => \A r \in replies : Waited(r.id) => InFlight(wait_replies[r.id])
=============================================================================
