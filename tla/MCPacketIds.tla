---------------------------- MODULE MCPacketIds ----------------------------
(* Instances of PacketIds for TLC.                                          *)
EXTENDS PacketIds, TLC

CONSTANTS p1, p2, s1

\* Two publications and a subscription; over a recovered session the first may
\* be a stored message that is sent again.
MCOps     == {p1, p2, s1}
MCKind    == (p1 :> "pub2") @@ (p2 :> "pub2") @@ (s1 :> "sub")
MCFlushId == p1 :> 1
=============================================================================
