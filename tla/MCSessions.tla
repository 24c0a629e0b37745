----------------------------- MODULE MCSessions -----------------------------
(* Instances of Sessions for TLC.                                           *)
EXTENDS Sessions, TLC

CONSTANTS c1, c2, client, exact, wild

\* A client that keeps its session, with a filter of each kind, and connections
\* with its identifier that ask for a clean one.
MCClientOf == [c \in Conns |-> client]
MCFilters  == {exact, wild}
MCWants    == (c1 :> {exact, wild}) @@ (c2 :> {})
=============================================================================
