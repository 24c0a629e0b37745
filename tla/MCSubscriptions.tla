-------------------------- MODULE MCSubscriptions --------------------------
(* The instance of Subscriptions for TLC.                                   *)
EXTENDS Subscriptions, TLC

CONSTANTS a, b, exact, wild, topic, s1, s2, u1, p1

\* A session with a will and a clean connection; a subscribes to the topic, b
\* with a wild card, and one of them unsubscribes.
MCConns      == {a, b}
MCPersistent == {a}
MCWillTopic  == (a :> topic) @@ (b :> None)
MCFilters    == {exact, wild}
MCMatches    == topic :> {exact, wild}
MCTasks      == {s1, s2, u1}
MCTaskKind   == (s1 :> "sub") @@ (s2 :> "sub") @@ (u1 :> "unsub")
MCTaskConn   == (s1 :> a) @@ (s2 :> b) @@ (u1 :> b)
MCTaskFilter == (s1 :> exact) @@ (s2 :> wild) @@ (u1 :> wild)
MCPubTopic   == [p \in Pubs |-> topic]

\* At most two of the requests are made: no request is under a fairness condition.
MCNext == Next /\ Cardinality({t \in Tasks : task'[t] # "idle"}) <= 2
MCSpec == Init /\ [][MCNext]_vars /\ Fairness
=============================================================================
