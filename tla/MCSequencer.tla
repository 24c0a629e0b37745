---------------------------- MODULE MCSequencer ----------------------------
(* Instances of Sequencer for TLC.                                          *)
EXTENDS Sequencer, TLC

CONSTANTS c1, big, small, other

\* Three messages share a connection, one of them longer than 4096 bytes.
MCConns      == {c1}
MCInitiators == {c1}
MCMsgs       == {big, small, other}
MCConnOf     == [m \in MCMsgs |-> c1]
MCSteps      == (big :> 2) @@ (small :> 1) @@ (other :> 1)
=============================================================================
