-------------------------- MODULE RetainedMessages --------------------------
(* Retained messages (lib/myqtt-storage.c, lib/myqtt-reader.c): two files for   *)
(* each, one with the topic and one with the message, in a directory by hash of *)
(* the topic, that threads of the pool read and write without a lock.  Topics   *)
(* here have the same hash and length, so that they share the directory and     *)
(* only the content of the file tells them apart.                               *)
EXTENDS Naturals, FiniteSets

CONSTANTS
  RetainTasks,    \* pool threads that publish or subscribe
  RTopics,    \* topics of the same hash and length
  MaxStored,  \* messages retained
  MaxTaken,   \* subscriptions and releases
  MaxKills    \* times the process is killed

ASSUME RetainedAssumption == {MaxStored, MaxTaken, MaxKills} \subseteq Nat /\ "none" \notin RTopics

Numbers == 1 .. MaxStored   \* the message, and the time stamp in the name of its files

VARIABLES
  hash_dir,    \* "no", "made"
  name_file,   \* by message, its file with the topic: "no", "part" (nothing of it, or some) until it
               \*   is closed and when it could not be written, "whole"
  msg_file,    \* the same for its .msg file
  topic_of,    \* the topic it is for, once chosen
  task,        \* what each thread does
  recovered,   \* what subscribers got: topic and message, 0 if the file was not whole
  took, kills, \* bounds
  cut,         \* history: messages one of whose files could not be made or written
  expected,    \* history: by topic, the last message stored and not released, or 0
  consumed,    \* history: a subscription has recovered a message
  overlapped   \* history: two calls were under way at once, or one was cut by a kill

retainedVars == <<hash_dir, name_file, msg_file, topic_of, task, recovered, took, kills, cut,
                  expected, consumed, overlapped>>

NoRetainTask == [op |-> "none", at |-> "idle", topic |-> "none", left |-> {}, entries |-> {}, file |-> 0]
TypeOfTask == [op : {"none", "set", "release", "recover"},
               at : {"idle", "list", "test", "mkdir", "open", "scan", "unlink", "read",
                     "unlink_msg", "create", "write", "create_msg", "write_msg", "stuck"},
               topic : RTopics \union {"none"}, left : SUBSET RTopics,
               entries : SUBSET Numbers, file : Numbers \union {0}]

RetainedInit ==
  /\ hash_dir \in {"no", "made"}
  /\ name_file = [m \in Numbers |-> "no"] /\ msg_file = [m \in Numbers |-> "no"]
  /\ topic_of = [m \in Numbers |-> "none"]
  /\ task = [t \in RetainTasks |-> NoRetainTask] /\ recovered = {}
  /\ took = 0 /\ kills = 0 /\ cut = {}
  /\ expected = [t \in RTopics |-> 0] /\ consumed = FALSE /\ overlapped = FALSE

RetainedTypeOK ==
  /\ hash_dir \in {"no", "made"}
  /\ {name_file, msg_file} \subseteq [Numbers -> {"no", "part", "whole"}]
  /\ topic_of \in [Numbers -> RTopics \union {"none"}]
  /\ task \in [RetainTasks -> TypeOfTask]
  /\ recovered \subseteq RTopics \X (Numbers \union {0})
  /\ took \in 0 .. MaxTaken /\ kills \in 0 .. MaxKills /\ cut \subseteq Numbers
  /\ expected \in [RTopics -> Numbers \union {0}]
  /\ consumed \in BOOLEAN /\ overlapped \in BOOLEAN

BusyTasks == {t \in RetainTasks : task[t].at # "idle"}
Begin(t, r) == /\ task[t].at = "idle" /\ task' = [task EXCEPT ![t] = r]
               /\ overlapped' = (overlapped \/ BusyTasks # {})
files == <<hash_dir, name_file, msg_file>>
retainHistory == <<recovered, took, kills, cut, expected, consumed, overlapped>>
Proceed(t, at) == task' = [task EXCEPT ![t].at = at]
EndCall(t) == task' = [task EXCEPT ![t] = NoRetainTask]
Entries == {m \in Numbers : name_file[m] # "no"}

(* --------------- __myqtt_reader_handle_retained_msg, the publisher -------------- *)
SetRetained(t) == \E topic \in RTopics, m \in Numbers :
  /\ topic_of[m] = "none" /\ \A k \in Numbers : k < m => topic_of[k] # "none"
  /\ topic_of' = [topic_of EXCEPT ![m] = topic]
  /\ Begin(t, [NoRetainTask EXCEPT !.op = "set", !.topic = topic, !.file = m,
                             !.at = IF hash_dir = "no" THEN "test" ELSE "open"])
  /\ UNCHANGED <<files, recovered, took, kills, cut, expected, consumed>>

\* with retain, QoS 0 or no message: whatever is retained for the topic goes
ReleaseRetained(t) == \E topic \in RTopics :
  /\ took < MaxTaken /\ took' = took + 1
  /\ Begin(t, [NoRetainTask EXCEPT !.op = "release", !.topic = topic, !.at = "open"])
  /\ UNCHANGED <<files, topic_of, recovered, kills, cut, expected, consumed>>

\* myqtt_mkdir tests and then creates: of two at once the second fails, as one alone may
TestDir(t) ==
  /\ task[t].at = "test" /\ Proceed(t, IF hash_dir = "no" THEN "mkdir" ELSE "create")
  /\ UNCHANGED <<files, topic_of, retainHistory>>
MakeDir(t) ==
  /\ task[t].at = "mkdir"
  /\ \/ hash_dir = "no" /\ hash_dir' = "made" /\ Proceed(t, "create")
     \/ UNCHANGED hash_dir /\ EndCall(t)
  /\ UNCHANGED <<name_file, msg_file, topic_of, retainHistory>>

(* ------ __myqtt_reader_recover_retained_message, the subscriber ------ *)
\* a filter with wildcards, and one without
Subscribe(t) == \E wild \in BOOLEAN, topic \in RTopics :
  /\ took < MaxTaken /\ took' = took + 1
  /\ Begin(t, [NoRetainTask EXCEPT !.op = "recover", !.at = IF wild THEN "list" ELSE "open",
                             !.topic = IF wild THEN "none" ELSE topic])
  /\ UNCHANGED <<files, topic_of, recovered, kills, cut, expected, consumed>>

\* myqtt_storage_get_retained_topics skips a name that has nothing in it yet; then
\* every topic listed is recovered
NextTopic(t, left, entry) ==
  \/ left = {} /\ EndCall(t)
  \/ \E topic \in left :
       task' = [task EXCEPT ![t] = [entry EXCEPT !.at = "open", !.topic = topic,
                                                 !.left = left \ {topic}, !.file = 0,
                                                 !.entries = {}]]
ListTopics(t) ==
  /\ task[t].at = "list"
  /\ NextTopic(t, {topic_of[m] : m \in {k \in Numbers : name_file[k] = "whole"}}, task[t])
  /\ UNCHANGED <<files, topic_of, retainHistory>>

(* --------------------- __myqtt_storage_sub_exists --------------------- *)
NotFound(t) == IF task[t].op = "set" THEN Proceed(t, "create")
               ELSE NextTopic(t, task[t].left, task[t])
OpenDir(t) ==
  /\ task[t].at = "open"
  /\ IF hash_dir = "no" THEN NotFound(t)
     ELSE task' = [task EXCEPT ![t].at = "scan", ![t].entries = Entries]
  /\ UNCHANGED <<files, topic_of, retainHistory>>

\* Mutant: files of the directory are taken for those of the topic.
HasHash(m, topic) == TRUE
HasTopic(m, topic) == topic_of[m] = topic

\* the file may have gone (it is skipped), or may hold nothing yet: then the loop that
\* compares reads no bytes for ever, for the end of a file is remembered by its stream
ScanEntry(t) ==
  /\ task[t].at = "scan"
  /\ \/ task[t].entries = {} /\ NotFound(t) /\ UNCHANGED expected
     \/ \E m \in task[t].entries :
          IF name_file[m] = "part" THEN Proceed(t, "stuck") /\ UNCHANGED expected
          ELSE IF name_file[m] = "no" \/ ~HasTopic(m, task[t].topic)
          THEN /\ task' = [task EXCEPT ![t].entries = @ \ {m}] /\ UNCHANGED expected
          ELSE /\ task' = [task EXCEPT ![t].at = "unlink", ![t].entries = {m}]
               /\ expected' = IF task[t].op = "recover" THEN expected
                              ELSE [expected EXCEPT ![task[t].topic] = 0]
  /\ UNCHANGED <<files, topic_of, recovered, took, kills, cut, consumed, overlapped>>

Found(t) == CHOOSE m \in task[t].entries : TRUE

\* also when the message is only recovered
UnlinkName(t) ==
  /\ task[t].at = "unlink"
  /\ name_file' = [name_file EXCEPT ![Found(t)] = "no"]
  /\ Proceed(t, IF task[t].op = "recover" THEN "read" ELSE "unlink_msg")
  /\ UNCHANGED <<hash_dir, msg_file, topic_of, retainHistory>>

\* no .msg file, no message; what there is of one is the message
ReadMessage(t) ==
  /\ task[t].at = "read" /\ Proceed(t, "unlink_msg")
  /\ LET m == Found(t)
     IN  recovered' = CASE msg_file[m] = "whole" -> recovered \union {<<task[t].topic, m>>}
                         [] msg_file[m] = "part" -> recovered \union {<<task[t].topic, 0>>}
                         [] msg_file[m] = "no" -> recovered
  /\ consumed' = TRUE
  /\ UNCHANGED <<files, topic_of, took, kills, cut, expected, overlapped>>

UnlinkMessage(t) ==
  /\ task[t].at = "unlink_msg"
  /\ msg_file' = [msg_file EXCEPT ![Found(t)] = "no"]
  /\ NotFound(t)
  /\ UNCHANGED <<hash_dir, name_file, topic_of, retainHistory>>

(* ---------------- myqtt_storage_retain_msg_set, the two files ---------------- *)
\* what is written reaches the file when it is closed (another thread may have unlinked it);
\* a file that cannot be written stays as it is, and that its close fails is not noticed
CreateName(t) ==
  /\ task[t].at = "create"
  /\ \/ Proceed(t, "write") /\ name_file' = [name_file EXCEPT ![task[t].file] = "part"]
     \/ EndCall(t) /\ UNCHANGED name_file
  /\ UNCHANGED <<hash_dir, msg_file, topic_of, retainHistory>>
WriteName(t) ==
  /\ task[t].at = "write"
  /\ \/ /\ Proceed(t, "create_msg") /\ UNCHANGED cut
        /\ name_file' = [name_file EXCEPT ![task[t].file] = IF @ = "part" THEN "whole" ELSE @]
     \/ /\ Proceed(t, "create_msg") \/ EndCall(t)
        /\ cut' = cut \union {task[t].file} /\ UNCHANGED name_file
  /\ UNCHANGED <<hash_dir, msg_file, topic_of, recovered, took, kills, expected, consumed, overlapped>>

\* a failure over the .msg frees a path already freed: nothing comes of it, or the process
\* is ended by the allocator
EndFreeingTwice(t) ==
  \/ EndCall(t) /\ UNCHANGED overlapped
  \/ task' = [u \in RetainTasks |-> NoRetainTask] /\ overlapped' = TRUE
CreateMessage(t) ==
  /\ task[t].at = "create_msg"
  /\ \/ /\ Proceed(t, "write_msg") /\ UNCHANGED <<cut, overlapped>>
        /\ msg_file' = [msg_file EXCEPT ![task[t].file] = "part"]
     \/ EndFreeingTwice(t) /\ cut' = cut \union {task[t].file} /\ UNCHANGED msg_file
  /\ UNCHANGED <<hash_dir, name_file, topic_of, recovered, took, kills, expected, consumed>>
WriteMessage(t) ==
  /\ task[t].at = "write_msg"
  /\ \/ /\ EndCall(t) /\ UNCHANGED <<cut, overlapped>>
        /\ msg_file' = [msg_file EXCEPT ![task[t].file] = IF @ = "part" THEN "whole" ELSE @]
        /\ expected' = [expected EXCEPT ![task[t].topic] = IF task[t].file \in cut THEN @ ELSE task[t].file]
     \/ /\ EndFreeingTwice(t)
        /\ cut' = cut \union {task[t].file} /\ UNCHANGED <<msg_file, expected>>
  /\ UNCHANGED <<hash_dir, name_file, topic_of, recovered, took, kills, consumed>>

\* the process is killed: the files stay
Kill ==
  /\ kills < MaxKills /\ kills' = kills + 1
  /\ task' = [t \in RetainTasks |-> NoRetainTask]
  /\ overlapped' = (overlapped \/ BusyTasks # {})
  /\ UNCHANGED <<files, topic_of, recovered, took, cut, expected, consumed>>

RetainedStep(t) ==
  \/ TestDir(t) \/ MakeDir(t) \/ ListTopics(t) \/ OpenDir(t) \/ ScanEntry(t)
  \/ UnlinkName(t) \/ ReadMessage(t) \/ UnlinkMessage(t)
  \/ CreateName(t) \/ WriteName(t) \/ CreateMessage(t) \/ WriteMessage(t)
RetainedNext ==
  \/ Kill
  \/ \E t \in RetainTasks : SetRetained(t) \/ ReleaseRetained(t) \/ Subscribe(t) \/ RetainedStep(t)
RetainedSpec == RetainedInit /\ [][RetainedNext]_retainedVars

(* ------------------------------ properties ------------------------------ *)
Kept(topic) == {m \in Numbers : name_file[m] # "no" /\ topic_of[m] = topic}

RecoveredIsOwn ==
  \A r \in recovered :
    IF r[2] = 0 THEN overlapped \/ \E m \in cut : topic_of[m] = r[1] ELSE topic_of[r[2]] = r[1]

\* A subscriber is given a message of its topic, whichever threads write and remove files of
\* topics with the same hash meanwhile; one that is not whole only if two calls overlapped or
\* one of that topic could not be written.  While no calls have overlapped, a topic keeps one
\* message at most, and it is the last one stored with both its files, or one that could not
\* be written: replacing never leaves the one before behind, a failure over one topic takes
\* nothing from another, and the next message that is stored for the topic makes up for it.
RetainedIsLast ==
  RecoveredIsOwn /\ (~overlapped /\ BusyTasks = {} =>
    /\ \A topic \in RTopics :
         /\ \A m, n \in Kept(topic) : m = n
         /\ Kept(topic) \ cut \subseteq {expected[topic]}
         /\ ~consumed => Kept(topic) \ cut = {expected[topic]} \ {0}
    /\ \A m \in Numbers \ cut : (name_file[m] = "whole") = (msg_file[m] = "whole"))

\* "every new subscription on that topic will receive that message"
\* (lib/myqtt-storage.c:1374): what is stored stays until it is replaced or released.
\* Not so: recovering a message removes it.
RetainedForEvery ==
  ~overlapped /\ BusyTasks = {} =>
    \A topic \in RTopics : expected[topic] # 0 => Kept(topic) # {}
=============================================================================
