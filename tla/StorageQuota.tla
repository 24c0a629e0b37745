---------------------------- MODULE StorageQuota ----------------------------
(* The quota of a client on stored messages (server/myqttd-run.c, on_store and    *)
(* on_release of a domain; lib/myqtt-storage.c, storing and releasing a message). *)
(* A counter in the context follows the sizes of the files in the msgs directory  *)
(* of the client; it is read and written in two calls, and 0 stands for unknown.  *)
EXTENDS Integers, FiniteSets, FiniteSetsExt

CONSTANTS
  Messages,       \* messages
  SizeOf,       \* their sizes
  Offline,      \* those stored for a client that is away
  Quota         \* storage-quota-limit, in the unit of the sizes

ASSUME QuotaAssumption ==
  SizeOf \in [Messages -> Nat \ {0}] /\ Offline \subseteq Messages /\ Quota \in Nat \ {0}

VARIABLES
  counted,      \* the counter, "<client>_str:qt", 0 when it is not there
  file,         \* messages in the directory
  storing,      \* by message: "no", "count", "write", "denied", "stored", "uncount", "unlink",
                \*   "released", "failed"
  seen,         \* by message: the counter as its operation read it
  apart,        \* operations of the counter have not overlapped, nor left it wrong
  rough         \* a file was written that on_store did not let pass, or could not be
quotaVars == <<counted, file, storing, seen, apart, rough>>

QuotaInit ==
  /\ counted = 0 /\ file = {} /\ apart = TRUE /\ rough = FALSE
  /\ storing = [m \in Messages |-> "no"] /\ seen = [m \in Messages |-> 0]

QuotaSteps == {"no", "count", "write", "denied", "stored", "uncount", "unlink", "released", "failed"}
Storing == {m \in Messages : storing[m] \in {"count", "write", "uncount", "unlink"}}

\* myqtt_storage_queued_messages_quota_offline: the sizes are in the names of the files
SizeOfAll(msgs) == MapThenSumSet(LAMBDA m : SizeOf[m], msgs)
\* the counter, or a look at the directory when it is not there
Known == IF counted = 0 THEN SizeOfAll(file) ELSE counted

QuotaTypeOK ==
  /\ counted \in Nat /\ file \subseteq Messages
  /\ storing \in [Messages -> QuotaSteps] /\ seen \in [Messages -> Nat]
  /\ {apart, rough} \subseteq BOOLEAN

Become(m, there) == storing' = [storing EXCEPT ![m] = there]
Alone(m) == apart' = (apart /\ Storing \ {m} = {})

\* on_store; myqtt_storage_store_msg_offline means to skip it when the caller asks so, but
\* "qos && MYQTT_QOS_SKIP_STOREAGE_NOTIFY" skips it for every message of QoS 1 or 2
StoreReads(m) ==
  /\ storing[m] = "no"
  /\ IF m \in Offline THEN Become(m, "write") /\ rough' = TRUE /\ UNCHANGED seen
     ELSE /\ seen' = [seen EXCEPT ![m] = Known] /\ UNCHANGED rough
          /\ Become(m, IF Known + SizeOf[m] > Quota THEN "denied" ELSE "count")
  /\ Alone(m) /\ UNCHANGED <<counted, file>>
StoreCounts(m) ==
  /\ storing[m] = "count" /\ Become(m, "write") /\ counted' = seen[m] + SizeOf[m]
  /\ UNCHANGED <<file, seen, apart, rough>>
\* a failed write is not taken back from the counter
StoreWrites(m) ==
  /\ storing[m] = "write"
  /\ \/ Become(m, "stored") /\ file' = file \union {m} /\ UNCHANGED rough
     \/ Become(m, "failed") /\ rough' = TRUE /\ UNCHANGED file
  /\ UNCHANGED <<counted, seen, apart>>

\* myqtt_storage_release_msg: on_release, then the file goes
ReleaseReads(m) ==
  /\ storing[m] = "stored" /\ Become(m, "uncount") /\ seen' = [seen EXCEPT ![m] = Known]
  /\ Alone(m) /\ UNCHANGED <<counted, file, rough>>
\* Mutant: whatever it was.
LeftBelow(m) == seen[m] - SizeOf[m]
Left(m) == IF seen[m] > SizeOf[m] THEN seen[m] - SizeOf[m] ELSE 0
\* Mutant: the counter is left alone.
ReleaseForgets(m) ==
  /\ storing[m] = "uncount" /\ Become(m, "unlink")
  /\ UNCHANGED <<counted, file, seen, apart, rough>>
ReleaseCounts(m) ==
  /\ storing[m] = "uncount" /\ Become(m, "unlink") /\ counted' = Left(m)
  /\ UNCHANGED <<file, seen, apart, rough>>
ReleaseUnlinks(m) ==
  /\ storing[m] = "unlink" /\ Become(m, "released") /\ file' = file \ {m}
  /\ UNCHANGED <<counted, seen, apart, rough>>

\* the broker stops and starts: the counter is only in memory
Restart ==
  /\ Storing = {} /\ counted # 0 /\ counted' = 0 /\ UNCHANGED <<file, storing, seen, apart, rough>>

QuotaNext ==
  \/ Restart
  \/ \E m \in Messages : \/ StoreReads(m) \/ StoreCounts(m) \/ StoreWrites(m)
                       \/ ReleaseReads(m) \/ ReleaseCounts(m) \/ ReleaseUnlinks(m)
QuotaSpec == QuotaInit /\ [][QuotaNext]_quotaVars

(* ------------------------------- properties ------------------------------- *)
\* As long as no operations have overlapped, no write has failed (it stays counted) and no
\* message was stored for an absent client (it is not counted), the counter is, between
\* operations, unknown or what the directory holds, which is no more than the quota.
CounterFollowsDisk ==
  apart /\ ~rough /\ Storing = {} => counted \in {0, SizeOfAll(file)} /\ SizeOfAll(file) <= Quota

\* "max amount of space used (100MB)" (server/basic.conf:7).  Not so: two messages stored at
\* once both pass, and those for an absent client are not counted (lib/myqtt-storage.c:1238).
QuotaIsKept == SizeOfAll(file) <= Quota
=============================================================================
