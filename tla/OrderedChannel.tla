--------------------------- MODULE OrderedChannel ---------------------------
(***************************************************************************)
(* What the sequencer promises to its callers: every connection is a       *)
(* channel of whole messages.  A message that was accepted is delivered or *)
(* lost once, and never before a short message accepted earlier for the    *)
(* same connection: only long ones, written in several steps, are          *)
(* overtaken.                                                              *)
(***************************************************************************)
EXTENDS Integers, Sequences, SequencesExt

CONSTANTS Conns, Msgs, ConnOf,
          Long  \* messages that may be overtaken

VARIABLES
    queue,      \* accepted and not served yet, per connection
    delivered,  \* handed to the socket whole, per connection
    lost        \* given up, per connection

channelVars == <<queue, delivered, lost>>

ChannelInit ==
    /\ queue = [c \in Conns |-> <<>>]
    /\ delivered = [c \in Conns |-> <<>>]
    /\ lost = [c \in Conns |-> {}]

Accept(m) ==
    /\ queue' = [queue EXCEPT ![ConnOf[m]] = Append(@, m)]
    /\ UNCHANGED <<delivered, lost>>

\* The positions whose turn may have come.
Served(c) == {i \in DOMAIN queue[c] : \A j \in 1 .. i - 1 : queue[c][j] \in Long}

Deliver(c) == \E i \in Served(c) :
    /\ queue' = [queue EXCEPT ![c] = RemoveAt(@, i)]
    /\ delivered' = [delivered EXCEPT ![c] = Append(@, queue[c][i])]
    /\ UNCHANGED lost

Lose(c) == \E i \in Served(c) :
    /\ queue' = [queue EXCEPT ![c] = RemoveAt(@, i)]
    /\ lost' = [lost EXCEPT ![c] = @ \cup {queue[c][i]}]
    /\ UNCHANGED delivered

\* Every step serves or extends a queue.
ChannelNext == /\ queue' # queue
               /\ \/ \E m \in Msgs : Accept(m)
                  \/ \E c \in Conns : Deliver(c) \/ Lose(c)

ChannelSpec == ChannelInit /\ [][ChannelNext]_channelVars
=============================================================================
