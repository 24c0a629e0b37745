------------------------------ MODULE Listeners ------------------------------
(* A listener (lib/myqtt-listener.c): the connections the reader accepts for it, *)
(* its shutdown with or without them, and the thread that waits in                *)
(* myqtt_listener_wait until myqtt_listener_unlock, called by a signal or by the  *)
(* exit of the context.                                                           *)
EXTENDS Integers, Sequences, FiniteSets

CONSTANTS
  Arrivals,    \* connections that may come
  Stoppers,    \* calls of myqtt_listener_shutdown
  Unlockers,   \* calls of myqtt_listener_unlock
  NoAccept

ASSUME ListenerAssumption ==
  /\ IsFiniteSet(Arrivals) /\ IsFiniteSet(Stoppers) /\ NoAccept \notin Arrivals
  /\ Arrivals \intersect Stoppers = {}

VARIABLES
  listener_ok, listener_refs,  \* myqtt_conn_is_ok and ref_count of the listener
  in_srv_list,     \* the reader has it
  accepting,       \* the connection myqtt_listener_accept_connections is busy with
  accepted,        \* by connection: "no", "filter", "queued", "listed", "loose" (only others hold
                   \*   it), "freed"
  accepted_ok, held_by_others, \* its myqtt_conn_is_ok; a task has a reference
  to_read,         \* ctx->reader_queue: connections and visits of Stoppers
  stopper,         \* by shutdown: "no", "called", "waits", "last", "done"
  also_created,    \* by shutdown: also_created_conns
  before,          \* history: by shutdown, the connections registered when it was called
  listener_hurt,   \* history: a listener was used after it was freed
  wait_lock,       \* ctx->listener_wait_lock: "null", "queue"
  wait_queue,      \* the queue: its items, its waiters, and whether it is freed
  skip_listener_wait, \* "vo:listener:skip:wait"
  waiter,          \* myqtt_listener_wait: "no", "test", "create", "read", "pop", "blocked", "returned"
  unlocker,        \* by unlock: "no", "null" or "queue" (what it found), "push", "drop", "told",
                   \*   "done"
  missed, wait_hurt  \* history: an unlock and a wait missed one another; a freed queue used

acceptVars == <<listener_ok, listener_refs, in_srv_list, accepting, accepted, accepted_ok,
                held_by_others, to_read, stopper, also_created, before, listener_hurt>>
waitVars == <<wait_lock, wait_queue, skip_listener_wait, waiter, unlocker, missed, wait_hurt>>
listenerVars == <<acceptVars, waitVars>>

NoQueue == [items |-> 0, waiters |-> 0, freed |-> FALSE]

\* __myqtt_listener_new: the reader has the only reference
ListenerInit ==
  /\ listener_ok = TRUE /\ listener_refs = 1 /\ in_srv_list = TRUE /\ accepting = NoAccept
  /\ accepted = [c \in Arrivals |-> "no"] /\ accepted_ok = [c \in Arrivals |-> FALSE]
  /\ held_by_others = {} /\ to_read = <<>>
  /\ stopper = [s \in Stoppers |-> "no"] /\ also_created = [s \in Stoppers |-> FALSE]
  /\ before = [s \in Stoppers |-> {}] /\ listener_hurt = FALSE
  /\ wait_lock = "null" /\ wait_queue = NoQueue /\ skip_listener_wait = FALSE
  /\ waiter = "no" /\ unlocker = [u \in Unlockers |-> "no"]
  /\ missed = FALSE /\ wait_hurt = FALSE

ListenerTypeOK ==
  /\ {listener_ok, in_srv_list, listener_hurt, skip_listener_wait, missed, wait_hurt} \subseteq BOOLEAN
  /\ listener_refs \in Nat /\ accepting \in Arrivals \cup {NoAccept}
  /\ accepted \in [Arrivals -> {"no", "filter", "queued", "listed", "loose", "freed"}]
  /\ accepted_ok \in [Arrivals -> BOOLEAN] /\ held_by_others \subseteq Arrivals
  /\ to_read \in Seq(Arrivals \cup Stoppers)
  /\ stopper \in [Stoppers -> {"no", "called", "waits", "last", "done"}]
  /\ also_created \in [Stoppers -> BOOLEAN] /\ before \in [Stoppers -> SUBSET Arrivals]
  /\ wait_lock \in {"null", "queue"}
  /\ wait_queue \in [items : Nat, waiters : 0 .. 1, freed : BOOLEAN]
  /\ waiter \in {"no", "test", "create", "read", "pop", "blocked", "returned"}
  /\ unlocker \in [Unlockers -> {"no", "null", "queue", "push", "drop", "told", "done"}]

(* --------------------------- accepting, by the reader --------------------------- *)
Masters == {c \in Arrivals : accepted[c] \notin {"no", "freed"}}  \* those with "_vo:li:master"

\* __myqtt_listener_initial_accept: the connection takes a reference of the listener; a socket
\* too many is closed at once, and leaves nothing
InitialAccept(c) ==
  /\ in_srv_list /\ listener_ok /\ accepting = NoAccept /\ accepted[c] = "no"
  /\ accepting' = c /\ listener_refs' = listener_refs + 1
  /\ accepted' = [accepted EXCEPT ![c] = "filter"]
  /\ accepted_ok' = [accepted_ok EXCEPT ![c] = TRUE]
  /\ UNCHANGED <<listener_ok, in_srv_list, held_by_others, to_read, stopper, also_created, before,
                 listener_hurt, waitVars>>

\* Mutant: the reference of the listener is kept.
FreedKeeps(c) == /\ accepted' = [accepted EXCEPT ![c] = "freed"] /\ UNCHANGED listener_refs
\* with the last reference of a connection goes the one it has of its listener
FreedAccepted(c) ==
  /\ accepted' = [accepted EXCEPT ![c] = "freed"] /\ listener_refs' = listener_refs - 1

\* an on_accept handler says no
AcceptFiltered(c) ==
  /\ accepting = c /\ accepting' = NoAccept /\ FreedAccepted(c)
  /\ accepted_ok' = [accepted_ok EXCEPT ![c] = FALSE]
  /\ UNCHANGED <<listener_ok, in_srv_list, held_by_others, to_read, stopper, also_created, before,
                 listener_hurt, waitVars>>

\* myqtt_listener_complete_register; a handler may have kept a reference
CompleteRegister(c) ==
  /\ accepting = c /\ accepting' = NoAccept
  /\ accepted' = [accepted EXCEPT ![c] = "queued"] /\ to_read' = Append(to_read, c)
  /\ \/ held_by_others' = held_by_others \cup {c} \/ UNCHANGED held_by_others
  /\ UNCHANGED <<listener_ok, listener_refs, in_srv_list, accepted_ok, stopper, also_created,
                 before, listener_hurt, waitVars>>

AcceptedBreaks(c) ==
  /\ accepted_ok[c] /\ accepted[c] \in {"queued", "listed"}
  /\ accepted_ok' = [accepted_ok EXCEPT ![c] = FALSE]
  /\ UNCHANGED <<listener_ok, listener_refs, in_srv_list, accepting, accepted, held_by_others,
                 to_read, stopper, also_created, before, listener_hurt, waitVars>>

LetGoOf(c) == IF c \in held_by_others
              THEN accepted' = [accepted EXCEPT ![c] = "loose"] /\ UNCHANGED listener_refs
              ELSE FreedAccepted(c)

\* the reader lists what its queue has (what broke meanwhile it drops), and answers visits:
\* __myqtt_listener_shutdown_foreach over the connections it has
ReadRegistered ==
  /\ accepting = NoAccept /\ to_read # <<>> /\ Head(to_read) \in Arrivals
  /\ to_read' = Tail(to_read)
  /\ LET c == Head(to_read)
     IN  IF accepted_ok[c] THEN accepted' = [accepted EXCEPT ![c] = "listed"] /\ UNCHANGED listener_refs
         ELSE LetGoOf(c)
  /\ UNCHANGED <<listener_ok, in_srv_list, accepting, accepted_ok, held_by_others, stopper,
                 also_created, before, listener_hurt, waitVars>>

\* Mutant: nobody is shut down.
NoneVisited == {}
Visited == {c \in Arrivals : accepted[c] = "listed"}
ShutdownForeach ==
  /\ accepting = NoAccept /\ to_read # <<>> /\ Head(to_read) \in Stoppers
  /\ to_read' = Tail(to_read)
  /\ accepted_ok' = [c \in Arrivals |-> accepted_ok[c] /\ c \notin Visited]
  /\ stopper' = [stopper EXCEPT ![Head(to_read)] = "last"]
  /\ UNCHANGED <<listener_ok, listener_refs, in_srv_list, accepting, accepted, held_by_others,
                 also_created, before, listener_hurt, waitVars>>

\* what the reader finds broken when it builds its set leaves its lists
DropAccepted(c) ==
  /\ accepting = NoAccept /\ accepted[c] = "listed" /\ ~accepted_ok[c] /\ LetGoOf(c)
  /\ UNCHANGED <<listener_ok, in_srv_list, accepting, accepted_ok, held_by_others, to_read, stopper,
                 also_created, before, listener_hurt, waitVars>>
DropListener ==
  /\ accepting = NoAccept /\ in_srv_list /\ ~listener_ok
  /\ in_srv_list' = FALSE /\ listener_refs' = listener_refs - 1
  /\ UNCHANGED <<listener_ok, accepting, accepted, accepted_ok, held_by_others, to_read, stopper,
                 also_created, before, listener_hurt, waitVars>>

\* a task gives its reference back
OthersRelease(c) ==
  /\ c \in held_by_others /\ held_by_others' = held_by_others \ {c}
  /\ IF accepted[c] = "loose" THEN FreedAccepted(c) ELSE UNCHANGED <<accepted, listener_refs>>
  /\ UNCHANGED <<listener_ok, in_srv_list, accepting, accepted_ok, to_read, stopper, also_created,
                 before, listener_hurt, waitVars>>

(* ---------------------------- myqtt_listener_shutdown ---------------------------- *)
\* the caller has no reference of its own: it looks at the listener and then takes one
ShutdownCalled(s) ==
  /\ stopper[s] = "no" /\ listener_refs > 0 /\ listener_ok
  /\ stopper' = [stopper EXCEPT ![s] = "called"]
  /\ \E also \in BOOLEAN : also_created' = [also_created EXCEPT ![s] = also]
  /\ before' = [before EXCEPT ![s] = {c \in Arrivals : accepted[c] \in {"queued", "listed"}}]
  /\ UNCHANGED <<listener_ok, listener_refs, in_srv_list, accepting, accepted, accepted_ok,
                 held_by_others, to_read, listener_hurt, waitVars>>

ShutdownRefs(s) ==
  /\ stopper[s] = "called"
  /\ IF listener_refs = 0
     THEN /\ listener_hurt' = TRUE /\ stopper' = [stopper EXCEPT ![s] = "done"]
          /\ UNCHANGED <<listener_refs, to_read>>
     ELSE /\ listener_refs' = listener_refs + 1 /\ UNCHANGED listener_hurt
          /\ IF also_created[s]
             THEN to_read' = Append(to_read, s) /\ stopper' = [stopper EXCEPT ![s] = "waits"]
             ELSE stopper' = [stopper EXCEPT ![s] = "last"] /\ UNCHANGED to_read
  /\ UNCHANGED <<listener_ok, in_srv_list, accepting, accepted, accepted_ok, held_by_others,
                 also_created, before, waitVars>>

\* once the reader has answered
ShutdownEnds(s) ==
  /\ stopper[s] = "last" /\ stopper' = [stopper EXCEPT ![s] = "done"]
  /\ listener_ok' = FALSE /\ listener_refs' = listener_refs - 1
  /\ UNCHANGED <<in_srv_list, accepting, accepted, accepted_ok, held_by_others, to_read,
                 also_created, before, listener_hurt, waitVars>>

(* ------------------------------ myqtt_listener_wait ------------------------------ *)
WaitGoes(there) == waiter' = there /\ UNCHANGED <<acceptVars, unlocker>>

WaitBegins ==
  /\ waiter = "no" /\ WaitGoes("test")
  /\ UNCHANGED <<wait_lock, wait_queue, skip_listener_wait, missed, wait_hurt>>
\* under listener_mutex, which the unlock does not take: one that found no queue may have
\* its flag still to set
WaitTests ==
  /\ waiter = "test" /\ WaitGoes(IF skip_listener_wait THEN "returned" ELSE "create")
  /\ missed' = (missed \/ (~skip_listener_wait /\ \E u \in Unlockers : unlocker[u] = "null"))
  /\ UNCHANGED <<wait_lock, wait_queue, skip_listener_wait, wait_hurt>>
WaitCreates ==
  /\ waiter = "create" /\ WaitGoes("read") /\ wait_lock' = "queue"
  /\ wait_queue' = IF wait_lock = "null" THEN NoQueue ELSE wait_queue
  /\ UNCHANGED <<skip_listener_wait, missed, wait_hurt>>
\* without the mutex
WaitReads ==
  /\ waiter = "read" /\ WaitGoes(IF wait_lock = "null" THEN "returned" ELSE "pop")
  /\ UNCHANGED <<wait_lock, wait_queue, skip_listener_wait, missed, wait_hurt>>
WaitPops ==
  /\ waiter = "pop" /\ ~wait_queue.freed /\ WaitGoes("blocked")
  /\ wait_queue' = [wait_queue EXCEPT !.waiters = 1]
  /\ UNCHANGED <<wait_lock, skip_listener_wait, missed, wait_hurt>>
WaitPopsFreed ==
  /\ waiter = "pop" /\ wait_queue.freed /\ WaitGoes("returned") /\ wait_hurt' = TRUE
  /\ UNCHANGED <<wait_lock, wait_queue, skip_listener_wait, missed>>
WaitReturns ==
  /\ waiter = "blocked" /\ wait_queue.items > 0 /\ WaitGoes("returned")
  /\ wait_queue' = [items |-> wait_queue.items - 1, waiters |-> 0, freed |-> TRUE]
  /\ UNCHANGED <<wait_lock, skip_listener_wait, missed, wait_hurt>>

(* ----------------------------- myqtt_listener_unlock ----------------------------- *)
\* under listener_unlock, which the wait does not take: one unlock at a time
UnlockerGoes(u, there) == /\ unlocker' = [unlocker EXCEPT ![u] = there]
                          /\ UNCHANGED <<acceptVars, waiter>>

UnlockBegins(u) ==
  /\ unlocker[u] = "no" /\ \A v \in Unlockers : unlocker[v] \in {"no", "done"}
  /\ UnlockerGoes(u, wait_lock)
  /\ missed' = (missed \/ (wait_lock = "null" /\ waiter = "create"))
  /\ UNCHANGED <<wait_lock, wait_queue, skip_listener_wait, wait_hurt>>

\* Mutant: nothing is left for a wait that comes later.
UnlockForgets(u) ==
  /\ unlocker[u] = "null" /\ UnlockerGoes(u, "done")
  /\ UNCHANGED <<wait_lock, wait_queue, skip_listener_wait, missed, wait_hurt>>
UnlockSets(u) ==
  /\ unlocker[u] = "null" /\ UnlockerGoes(u, "done") /\ skip_listener_wait' = TRUE
  /\ UNCHANGED <<wait_lock, wait_queue, missed, wait_hurt>>

\* with nobody blocked on it the queue is dropped
UnlockLooks(u) ==
  /\ unlocker[u] = "queue" /\ UnlockerGoes(u, IF wait_queue.waiters > 0 THEN "push" ELSE "drop")
  /\ missed' = (missed \/ wait_queue.waiters = 0)
  /\ UNCHANGED <<wait_lock, wait_queue, skip_listener_wait, wait_hurt>>
UnlockPushes(u) ==
  /\ unlocker[u] = "push" /\ UnlockerGoes(u, "told")
  /\ wait_queue' = [wait_queue EXCEPT !.items = @ + 1]
  /\ UNCHANGED <<wait_lock, skip_listener_wait, missed, wait_hurt>>
UnlockDrops(u) ==
  /\ unlocker[u] = "drop" /\ UnlockerGoes(u, "told")
  /\ wait_queue' = [wait_queue EXCEPT !.freed = TRUE]
  /\ wait_hurt' = (wait_hurt \/ waiter = "blocked")
  /\ UNCHANGED <<wait_lock, skip_listener_wait, missed>>
UnlockEnds(u) ==
  /\ unlocker[u] = "told" /\ UnlockerGoes(u, "done") /\ wait_lock' = "null"
  /\ UNCHANGED <<wait_queue, skip_listener_wait, missed, wait_hurt>>

\* The two halves share no variable.
AcceptNext ==
  \/ \E c \in Arrivals : \/ InitialAccept(c) \/ AcceptFiltered(c) \/ CompleteRegister(c)
                         \/ AcceptedBreaks(c) \/ DropAccepted(c) \/ OthersRelease(c)
  \/ ReadRegistered \/ ShutdownForeach \/ DropListener
  \/ \E s \in Stoppers : ShutdownCalled(s) \/ ShutdownRefs(s) \/ ShutdownEnds(s)
WaitNext ==
  \/ WaitBegins \/ WaitTests \/ WaitCreates \/ WaitReads \/ WaitPops \/ WaitPopsFreed \/ WaitReturns
  \/ \E u \in Unlockers : \/ UnlockBegins(u) \/ UnlockSets(u) \/ UnlockLooks(u) \/ UnlockPushes(u)
                           \/ UnlockDrops(u) \/ UnlockEnds(u)
ListenerNext == AcceptNext \/ WaitNext
ListenerSpec == ListenerInit /\ [][ListenerNext]_listenerVars

(* ------------------------------- properties ------------------------------- *)
\* The listener of a connection (myqtt_conn_get_listener) lives as long as the connection,
\* whoever holds it last, although its own shutdown comes first; and it is freed in the end:
\* its references are those of the reader, of its connections and of the shutdowns under way.
ListenerIsAlive ==
  listener_refs = (IF in_srv_list THEN 1 ELSE 0) + Cardinality(Masters)
                  + Cardinality({s \in Stoppers : stopper[s] \in {"waits", "last"}})

\* A shutdown of a listener with its connections leaves none that was registered when it was
\* called, although some were still in the queue of the reader; those being accepted then
\* may stay ("shutdown on the listener and connections created", lib/myqtt-listener.c:1337).
ShutdownReachesAll ==
  \A s \in Stoppers : stopper[s] = "done" /\ also_created[s] /\ ~listener_hurt =>
    \A c \in before[s] : ~accepted_ok[c]

\* What is promised of myqtt_listener_unlock: "Unlock the thread blocked at the
\* myqtt_listener_wait" (lib/myqtt-listener.c:1026), or the one that comes later.  Not so by
\* itself: an unlock that meets a wait that is starting is lost.
WokenByUnlock ==
  waiter = "blocked" /\ (\E u \in Unlockers : unlocker[u] = "done") => wait_queue.items > 0

\* An unlock wakes the wait, whichever of them comes first and whatever other unlocks did,
\* and the queue between them is not used once freed. They take different mutexes, and miss
\* one another in three cases: the unlock finds no queue when the wait is about to make it; the
\* wait reads the flag an unlock has still to set; the unlock finds the queue before the wait
\* is blocked on it.
WaiterIsWoken == ~missed => (~wait_hurt /\ WokenByUnlock)
=============================================================================
