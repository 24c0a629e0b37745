------------------------------- MODULE MCBroker -------------------------------
(* The components that have no liveness property on one instance for TLC.  They   *)
(* share no variable, so a behaviour exercises one of them, chosen by part, and   *)
(* the others stay as they began.                                                 *)
EXTENDS Packets, TopicFilters, RetainedMessages, Connections, Domains, DomainHandover,
        StorageQuota, Listeners, TLC

\* One client names two domains, in disagreement, and one comes by a server name: each is
\* searched for when what it names is not active.
MCClaims == [c1 |-> [id |-> "d1", user |-> "d2", server |-> "none"],
             c2 |-> [id |-> "none", user |-> "none", server |-> "d2"]]
\* One database grants c2 nothing when it is only searched.
MCAccepts == {<<"u1", "c1", "stripped">>, <<"u2", "c1", "stripped">>, <<"u2", "c1", "search">>,
              <<"u1", "c2", "selected">>, <<"u2", "c2", "search">>}

\* Connections with the same client identifier.
MCClientOf == [p \in Peers |-> "i"]

MCSizeOf == [m1 |-> 1, m2 |-> 2, m3 |-> 2]

VARIABLE part

brokerVars == <<packetVars, topicVars, retainedVars, connectionVars, domainsVars, handoverVars,
                quotaVars, listenerVars, part>>

\* The component that part names begins in any of its initial states.
BrokerInit ==
  /\ part \in {"packets", "topics", "retained", "connection", "domains", "handover", "quota",
               "listener", "waiting"}
  /\ topic_name \in (IF part = "topics" THEN Topics ELSE {<<"/">>})
  /\ topic_filter \in (IF part = "topics" THEN Filters ELSE {<<"/">>})
  /\ TopicInit
  /\ PacketInit /\ (part # "packets" => sent = <<0>>)
  /\ RetainedInit /\ (part # "retained" => hash_dir = "no")
  /\ ConnectionInit /\ (part # "connection" => opts = "none")
  /\ HandoverInit /\ (part # "handover" => ~drop_same)
  /\ DomainsInit /\ QuotaInit /\ ListenerInit

Still(vars, name) == part # name => UNCHANGED vars
BrokerNext ==
  /\ UNCHANGED part
  /\ \/ part = "packets" /\ PacketNext
     \/ part = "topics" /\ TopicNext
     \/ part = "retained" /\ RetainedNext
     \/ part = "connection" /\ ConnectionNext
     \/ part = "domains" /\ DomainsNext
     \/ part = "handover" /\ HandoverNext
     \/ part = "quota" /\ QuotaNext
     \/ part = "listener" /\ AcceptNext
     \/ part = "waiting" /\ WaitNext
  /\ Still(packetVars, "packets") /\ Still(topicVars, "topics")
  /\ Still(retainedVars, "retained") /\ Still(connectionVars, "connection")
  /\ Still(domainsVars, "domains") /\ Still(handoverVars, "handover")
  /\ Still(quotaVars, "quota")
  /\ Still(acceptVars, "listener") /\ Still(waitVars, "waiting")

BrokerSpec == BrokerInit /\ [][BrokerNext]_brokerVars

BrokerTypeOK ==
  /\ PacketTypeOK /\ TopicTypeOK /\ RetainedTypeOK /\ ConnectionTypeOK /\ DomainsTypeOK
  /\ HandoverTypeOK /\ QuotaTypeOK /\ ListenerTypeOK
===============================================================================
