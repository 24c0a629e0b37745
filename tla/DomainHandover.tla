--------------------------- MODULE DomainHandover ---------------------------
(* The handing over of an accepted connection to the context of its domain       *)
(* (server/myqttd-run.c, myqttd_run_send_connection_to_domain): the CONNECT task  *)
(* of each connection starts the domain, takes the client identifier there, moves *)
(* the connection to a copy watched by the reader of the domain and lets the      *)
(* original go.  Several CONNECT tasks, both readers and the close handlers run   *)
(* at once.  The connections are of one domain (see Domains).                     *)
EXTENDS Integers, FiniteSets

CONSTANTS
  Peers,        \* connections accepted by the listener, each with its copy in the domain
  ClientIds,
  ClientOf,     \* the client identifier of each
  Retries,      \* looks at an identifier in use before it is refused (10 in the code)
  ConnLimit,    \* conn-limit of the domain, 0 for none
  NoPeer

ASSUME HandoverAssumption ==
  /\ ClientOf \in [Peers -> ClientIds] /\ {Retries, ConnLimit} \subseteq Nat
  /\ NoPeer \notin Peers /\ IsFiniteSet(Peers)

VARIABLES
  drop_same,    \* drop-conn-same-client-id of the domain
  initialized,  \* of the domain
  main_ids,     \* client_ids of the listener's context
  client_ids,   \* client_ids of the domain
  step,         \* by connection: where its CONNECT task is
  looks,        \* by connection: retries left
  original,     \* by connection: "open", "broken", or "moved" (its socket is the copy's)
  watched,      \* connections the main reader has
  copy,         \* by connection: "no", "open", "broken", "dead" (copied broken)
  copy_refs,    \* its references
  copy_watched, \* by connection: "no", "watched", "cleaning" (client identifier removed)
  on_close      \* by connection: "no", "set", "thread", "done"
handoverVars == <<drop_same, initialized, main_ids, client_ids, step, looks, original, watched, copy,
                  copy_refs, copy_watched, on_close>>
domain == <<drop_same, initialized>>
mainSide == <<main_ids, original, watched>>
copySide == <<copy, copy_refs, copy_watched, on_close>>

HandoverSteps == {"read", "named", "init", "limit", "take", "storage", "forget", "handler", "watch",
          "reply", "leave", "end", "refused", "unavailable", "gone"}

HandoverInit ==
  /\ drop_same \in BOOLEAN /\ initialized = FALSE
  /\ main_ids = [i \in ClientIds |-> NoPeer] /\ client_ids = [i \in ClientIds |-> NoPeer]
  /\ step = [p \in Peers |-> "read"] /\ looks = [p \in Peers |-> Retries]
  /\ original = [p \in Peers |-> "open"] /\ watched = Peers
  /\ copy = [p \in Peers |-> "no"] /\ copy_refs = [p \in Peers |-> 0]
  /\ copy_watched = [p \in Peers |-> "no"] /\ on_close = [p \in Peers |-> "no"]

HandoverTypeOK ==
  /\ {drop_same, initialized} \subseteq BOOLEAN
  /\ main_ids \in [ClientIds -> Peers \union {NoPeer}]
  /\ client_ids \in [ClientIds -> Peers \union {NoPeer}]
  /\ step \in [Peers -> HandoverSteps] /\ looks \in [Peers -> 0 .. Retries]
  /\ original \in [Peers -> {"open", "broken", "moved"}] /\ watched \subseteq Peers
  /\ copy \in [Peers -> {"no", "open", "broken", "dead"}] /\ copy_refs \in [Peers -> 0 .. 3]
  /\ copy_watched \in [Peers -> {"no", "watched", "cleaning"}]
  /\ on_close \in [Peers -> {"no", "set", "thread", "done"}]

\* what axl_hash_remove does, and all its callers: the entry goes, whoever it is for
Removed(ids, p) == [ids EXCEPT ![ClientOf[p]] = NoPeer]
Goes(p, there) == step' = [step EXCEPT ![p] = there]

(* --------------------------- the CONNECT task --------------------------- *)
\* __myqtt_reader_check_client_id, in the context of the listener
CheckClientId(p) ==
  /\ step[p] = "read"
  /\ IF main_ids[ClientOf[p]] # NoPeer THEN Goes(p, "refused") /\ UNCHANGED main_ids
     ELSE Goes(p, "init") /\ main_ids' = [main_ids EXCEPT ![ClientOf[p]] = p]
  /\ UNCHANGED <<domain, client_ids, looks, original, watched, copySide>>

\* a connection is refused: no domain for it (see Domains)
NoDomainFound(p) ==
  /\ step[p] = "init" /\ Goes(p, "refused")
  /\ UNCHANGED <<domain, client_ids, looks, mainSide, copySide>>

\* __myqttd_init_domain_context, by the first to come; it may fail, and is tried again
InitDomain(p) ==
  /\ step[p] = "init"
  /\ \/ initialized' = TRUE /\ Goes(p, "limit")
     \/ ~initialized /\ Goes(p, "unavailable") /\ UNCHANGED initialized
  /\ UNCHANGED <<drop_same, client_ids, looks, mainSide, copySide>>

\* the limit is compared with what the reader of the domain has or is about to take
Served == {p \in Peers : copy_watched[p] = "watched"}
CheckLimit(p) ==
  /\ step[p] = "limit"
  /\ Goes(p, IF ConnLimit > 0 /\ Cardinality(Served) + 1 > ConnLimit THEN "refused" ELSE "take")
  /\ UNCHANGED <<domain, client_ids, looks, mainSide, copySide>>

\* myqtt_conn_shutdown of the connection that has the identifier: its close handler gets
\* a thread
CopyShut(p) ==
  /\ copy' = [copy EXCEPT ![p] = IF @ = "open" THEN "broken" ELSE @]
  /\ IF copy[p] = "open" /\ on_close[p] = "set"
     THEN /\ on_close' = [on_close EXCEPT ![p] = "thread"]
          /\ copy_refs' = [copy_refs EXCEPT ![p] = @ + 1]
     ELSE UNCHANGED <<on_close, copy_refs>>

\* the identifier is in use and connections are not dropped: looked at again in a while
LookAgain(p) ==
  /\ step[p] = "take" /\ client_ids[ClientOf[p]] # NoPeer /\ ~drop_same
  /\ IF looks[p] > 0 THEN looks' = [looks EXCEPT ![p] = @ - 1] /\ UNCHANGED step
     ELSE Goes(p, "refused") /\ UNCHANGED looks
  /\ UNCHANGED <<domain, client_ids, mainSide, copySide>>

\* __myqttd_run_internal_copy and the new entry, with client_ids_m locked: the copy is as
\* well as the original is, and has one reference, that of the task
TakeId(p) ==
  LET other == client_ids[ClientOf[p]]
  IN  /\ step[p] = "take" /\ Goes(p, "storage")
      /\ other = NoPeer \/ drop_same
      /\ client_ids' = [client_ids EXCEPT ![ClientOf[p]] = p]
      /\ original' = [original EXCEPT ![p] = "moved"]
      /\ LET well == IF original[p] = "open" THEN "open" ELSE "dead"
             hit == other # NoPeer /\ copy[other] = "open"
             call == hit /\ on_close[other] = "set"
         IN  /\ copy' = [q \in Peers |-> IF q = p THEN well
                                         ELSE IF hit /\ q = other THEN "broken" ELSE copy[q]]
             /\ copy_refs' = [q \in Peers |-> IF q = p THEN 1 ELSE
                                copy_refs[q] + IF call /\ q = other THEN 1 ELSE 0]
             /\ on_close' = [q \in Peers |-> IF call /\ q = other THEN "thread" ELSE on_close[q]]
      /\ UNCHANGED <<domain, main_ids, looks, watched, copy_watched>>

\* myqtt_storage_init, unless the session is clean; when it fails the copy is forgotten,
\* with its entry and its reference
InitStorage(p) ==
  /\ step[p] = "storage" /\ (Goes(p, "forget") \/ Goes(p, "unavailable"))
  /\ UNCHANGED <<domain, client_ids, looks, mainSide, copySide>>

ForgetOriginal(p) ==
  /\ step[p] = "forget" /\ Goes(p, "handler") /\ main_ids' = Removed(main_ids, p)
  /\ UNCHANGED <<domain, client_ids, looks, original, watched, copySide>>

SetHandler(p) ==
  /\ step[p] = "handler" /\ Goes(p, "watch") /\ on_close' = [on_close EXCEPT ![p] = "set"]
  /\ UNCHANGED <<domain, client_ids, looks, mainSide, copy, copy_refs, copy_watched>>

\* Mutant: without a reference for the reader.
WatchUnreferenced(p) ==
  /\ step[p] = "watch" /\ Goes(p, "reply")
  /\ copy_watched' = [copy_watched EXCEPT ![p] = IF copy[p] = "open" THEN "watched" ELSE @]
  /\ UNCHANGED <<domain, client_ids, looks, mainSide, copy, copy_refs, on_close>>

\* myqtt_reader_watch_connection declines a connection that is not well
WatchCopy(p) ==
  /\ step[p] = "watch" /\ Goes(p, "reply")
  /\ IF copy[p] = "open"
     THEN /\ copy_watched' = [copy_watched EXCEPT ![p] = "watched"]
          /\ copy_refs' = [copy_refs EXCEPT ![p] = @ + 1]
     ELSE UNCHANGED <<copy_watched, copy_refs>>
  /\ UNCHANGED <<domain, client_ids, looks, mainSide, copy, on_close>>

\* stored messages are flushed and CONNACK sent; the write may find the peer gone
Reply(p) ==
  /\ step[p] = "reply" /\ Goes(p, "leave")
  /\ (CopyShut(p) \/ UNCHANGED <<copy, on_close, copy_refs>>)
  /\ UNCHANGED <<domain, client_ids, looks, mainSide, copy_watched>>

\* the main reader is asked to drop the original, the task drops its reference
LeaveMain(p) ==
  /\ step[p] = "leave" /\ Goes(p, "end") /\ copy_refs' = [copy_refs EXCEPT ![p] = @ - 1]
  /\ UNCHANGED <<domain, client_ids, looks, mainSide, copy, copy_watched, on_close>>

\* CONNACK with the refusal, and the original is shut down
Refuse(p) ==
  /\ step[p] \in {"refused", "unavailable"} /\ Goes(p, "gone")
  /\ original' = [original EXCEPT ![p] = IF @ = "open" THEN "broken" ELSE @]
  /\ UNCHANGED <<domain, main_ids, client_ids, looks, watched, copySide>>

(* ------------------------------ the readers ------------------------------ *)
OriginalBreaks(p) ==
  /\ original[p] = "open" /\ original' = [original EXCEPT ![p] = "broken"]
  /\ UNCHANGED <<domain, main_ids, client_ids, step, looks, watched, copySide>>

\* __myqtt_reader_remove_conn_refs, in the context of the listener
CleanOriginal(p) ==
  /\ p \in watched /\ original[p] # "open" /\ watched' = watched \ {p}
  /\ main_ids' = Removed(main_ids, p)
  /\ UNCHANGED <<domain, client_ids, step, looks, original, copySide>>

CopyBreaks(p) ==
  /\ copy[p] = "open" /\ copy_watched[p] = "watched" /\ CopyShut(p)
  /\ UNCHANGED <<domain, client_ids, step, looks, mainSide, copy_watched>>

\* the same in the domain: the identifier first, the reference last
CleanCopy(p) ==
  /\ copy_watched[p] = "watched" /\ copy[p] = "broken"
  /\ copy_watched' = [copy_watched EXCEPT ![p] = "cleaning"]
  /\ client_ids' = Removed(client_ids, p)
  /\ UNCHANGED <<domain, step, looks, mainSide, copy, copy_refs, on_close>>
CleanEnds(p) ==
  /\ copy_watched[p] = "cleaning" /\ copy_watched' = [copy_watched EXCEPT ![p] = "no"]
  /\ copy_refs' = [copy_refs EXCEPT ![p] = @ - 1]
  /\ UNCHANGED <<domain, client_ids, step, looks, mainSide, copy, on_close>>

\* __myqttd_run_on_connection_close, in a thread that holds a reference
OnCloseRuns(p) ==
  /\ on_close[p] = "thread" /\ on_close' = [on_close EXCEPT ![p] = "done"]
  /\ client_ids' = Removed(client_ids, p)
  /\ copy_refs' = [copy_refs EXCEPT ![p] = @ - 1]
  /\ UNCHANGED <<domain, step, looks, mainSide, copy, copy_watched>>

HandoverNext ==
  \E p \in Peers :
    \/ CheckClientId(p) \/ NoDomainFound(p) \/ InitDomain(p) \/ CheckLimit(p) \/ LookAgain(p)
    \/ TakeId(p) \/ InitStorage(p) \/ ForgetOriginal(p) \/ SetHandler(p) \/ WatchCopy(p)
    \/ Reply(p) \/ LeaveMain(p) \/ Refuse(p) \/ OriginalBreaks(p) \/ CleanOriginal(p)
    \/ CopyBreaks(p) \/ CleanCopy(p) \/ CleanEnds(p) \/ OnCloseRuns(p)
HandoverSpec == HandoverInit /\ [][HandoverNext]_handoverVars

(* ------------------------------- properties ------------------------------- *)
Freed(p) == copy[p] # "no" /\ copy_refs[p] = 0

\* The table of the domain holds no connection that was freed: the next CONNECT with the
\* identifier reads its socket (server/myqttd-run.c:976).  It does when the connection
\* broke in the listener's context just before it was copied.
EntryIsAlive ==
  \A i \in ClientIds : LET p == client_ids[i]
                       IN  p # NoPeer /\ Freed(p) => copy[p] = "dead"
\* ... and without that exception, which the code does not ensure
EntryIsAliveAlways == \A i \in ClientIds : client_ids[i] # NoPeer => ~Freed(client_ids[i])

\* "checking that is not accepted two connections with the same client identifier"
\* (test/myqtt-regression-client.c:1212): one connection at a time has an identifier.
\* Not so: close handler and clean-up of a connection remove the entry of the one after.
OnePerIdentifier ==
  \A p, q \in Peers : p # q /\ ClientOf[p] = ClientOf[q] => ~(copy[p] = "open" /\ copy[q] = "open")

\* conn-limit is the "amount of concurrent connections" (server/basic.conf:4).  Not so:
\* several tasks compare before any of them is counted.
LimitIsKept == ConnLimit > 0 => Cardinality(Served) <= ConnLimit
=============================================================================
