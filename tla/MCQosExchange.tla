-------------------------- MODULE MCQosExchange --------------------------
(* The instance of QosExchange for TLC.                                     *)
EXTENDS QosExchange, TLC

CONSTANTS m1, m2

\* A message of each QoS, which may be published or queued.
MCMsgs == {m1, m2}
MCQos  == (m1 :> 1) @@ (m2 :> 2)

\* One message over several connections, or both queued and flushed over one: neither
\* storing a message nor connecting is under a fairness condition.
MCNext == /\ Next
          /\ \/ at'[m1] = "idle" \/ at'[m2] = "idle"
             \/ MCMsgs \subseteq offline' /\ conn' <= 1
MCSpec == Init /\ [][MCNext]_vars /\ Fairness
=============================================================================
