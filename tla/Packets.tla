------------------------------- MODULE Packets -------------------------------
(* Packets on the wire (lib/myqtt-msg.c): how they are built, the remaining     *)
(* length and the 16 bit lengths of strings, and how myqtt_msg_get_next takes   *)
(* them from a socket that gives whatever has arrived.                          *)
EXTENDS Integers, Sequences, SequencesExt

CONSTANTS
  Radix,       \* 128, half the values of a byte
  PacketSizes, \* bytes after the fixed header of the packets sent
  MaxPackets,  \* how many are sent
  MaxNoData    \* 25, reads in a row that may find nothing

ASSUME PacketAssumption ==
  /\ Radix \in Nat /\ Radix >= 2 /\ MaxPackets \in Nat /\ MaxNoData \in Nat
  /\ PacketSizes \subseteq 0 .. (Radix * Radix * Radix * Radix - 1)

(* ------------------------------- encoding ------------------------------- *)
Power(d) == <<1, Radix, Radix * Radix, Radix * Radix * Radix,
              Radix * Radix * Radix * Radix>>[d + 1]

\* digits of myqtt_msg_encode_remaining_length, which gives up at the fifth
Digits(n) == IF n < Power(1) THEN 1 ELSE IF n < Power(2) THEN 2
             ELSE IF n < Power(3) THEN 3 ELSE IF n < Power(4) THEN 4 ELSE 5

EncodeLength(n) ==
  [i \in 1 .. Digits(n) |->
     ((n \div Power(i - 1)) % Radix) + (IF i < Digits(n) THEN Radix ELSE 0)]

More(byte) == byte >= Radix   \* its highest bit
Value(byte) == byte % Radix

\* myqtt_msg_decode_remaining_length: a fourth byte that goes on is an error
DecodeLength(s) ==
  IF ~More(s[1]) THEN Value(s[1])
  ELSE IF ~More(s[2]) THEN Value(s[1]) + Value(s[2]) * Power(1)
  ELSE IF ~More(s[3]) THEN Value(s[1]) + Value(s[2]) * Power(1) + Value(s[3]) * Power(2)
  ELSE IF ~More(s[4])
       THEN Value(s[1]) + Value(s[2]) * Power(1) + Value(s[3]) * Power(2)
            + Value(s[4]) * Power(3)
  ELSE -1

\* myqtt_msg_build reserves a header before it encodes into it
HeaderSize(n) == IF n <= Power(1) - 1 THEN 2 ELSE IF n <= Power(2) - 1 THEN 3
                 ELSE IF n <= Power(3) - 1 THEN 4 ELSE IF n <= Power(4) - 1 THEN 5 ELSE 0

\* myqtt_set_16bit keeps two bytes of what it is given, myqtt_get_16bit joins them
Byte == 2 * Radix
Set16(n) == <<(n \div Byte) % Byte, n % Byte>>
Get16(s) == s[1] * Byte + s[2]

(* ------------------------------- reading -------------------------------- *)
VARIABLES
  sent,           \* sizes of the packets the peer writes
  wire,           \* bytes not read yet
  arrived,        \* how many of them the socket has
  eof,            \* nothing else will come
  reading,        \* where myqtt_msg_get_next is
  header,         \* the bytes of the header it has
  buffer,         \* connection->buffer, as the bytes read into it
  last_msg,       \* connection->last_msg: header and size, or <<>>
  no_data_opers,
  received,       \* packets returned
  open,           \* the connection has not been shut down
  torn            \* history: a header, or the start of a body, was read before it arrived

packetVars == <<sent, wire, arrived, eof, reading, header, buffer, last_msg,
                no_data_opers, received, open, torn>>

\* a byte knows its packet, its part and its place; v is its value as a length
Type(p) == [of |-> p, part |-> "type", at |-> 0, v |-> 1]
Zero == [of |-> 0, part |-> "nul", at |-> 0, v |-> 0]   \* put after what a read got
Body(p, n) == [i \in 1 .. n |-> [of |-> p, part |-> "body", at |-> i, v |-> 0]]
Wire(p, n) ==
  <<Type(p)>> \o [i \in 1 .. Digits(n) |->
                    [of |-> p, part |-> "length", at |-> i, v |-> EncodeLength(n)[i]]]
  \o Body(p, n)
Packet(type, body) == [type |-> type, body |-> body]
Expected == [p \in 1 .. Len(sent) |-> Packet(Type(p), Body(p, sent[p]))]

PacketInit ==
  /\ sent \in UNION {[1 .. n -> PacketSizes] : n \in 1 .. MaxPackets}
  /\ wire = FlattenSeq([p \in 1 .. Len(sent) |-> Wire(p, sent[p])])
  /\ arrived = 0 /\ eof = FALSE /\ reading = "no" /\ header = <<>>
  /\ buffer = <<>> /\ last_msg = <<>> /\ no_data_opers = 0
  /\ received = <<>> /\ open = TRUE /\ torn = FALSE

PacketTypeOK ==
  /\ sent \in Seq(PacketSizes) /\ arrived \in 0 .. Len(wire)
  /\ reading \in {"no", "length", "body"}
  /\ Len(header) <= 6 /\ Len(last_msg) \in 0 .. 1
  /\ no_data_opers \in 0 .. MaxNoData + 1 /\ Len(received) \in Nat
  /\ eof \in BOOLEAN /\ open \in BOOLEAN /\ torn \in BOOLEAN

Arrive ==
  /\ ~eof /\ arrived < Len(wire) /\ open
  /\ \E n \in arrived + 1 .. Len(wire) : arrived' = n
  /\ UNCHANGED <<sent, wire, eof, reading, header, buffer, last_msg, no_data_opers,
                 received, open, torn>>

PeerCloses ==
  /\ ~eof /\ open /\ eof' = TRUE
  /\ UNCHANGED <<sent, wire, arrived, reading, header, buffer, last_msg, no_data_opers,
                 received, open, torn>>

Smaller(a, b) == IF a < b THEN a ELSE b
\* myqtt_msg_receive_raw of at most n bytes; Taken is how many there are
Taken(n) == Smaller(n, arrived)
Take(n) == /\ wire' = SubSeq(wire, Taken(n) + 1, Len(wire))
           /\ arrived' = arrived - Taken(n)
Bytes(n) == SubSeq(wire, 1, Taken(n))
Nothing == arrived = 0   \* it returns -2, or 0 once the peer has closed

\* __myqtt_conn_shutdown_and_record_error
ShutDown == /\ open' = FALSE /\ reading' = "no" /\ header' = <<>>
            /\ UNCHANGED <<sent, eof, received>>

NoData ==
  /\ no_data_opers' = no_data_opers + 1
  /\ IF no_data_opers' > MaxNoData THEN ShutDown
     ELSE UNCHANGED <<sent, eof, received, open, reading, header>>
  /\ UNCHANGED <<wire, arrived>>

\* the first two bytes; one alone is taken for a packet of length 0
ReadHeader ==
  /\ open /\ reading = "no" /\ last_msg = <<>> /\ ~Nothing
  /\ Take(2) /\ no_data_opers' = 0
  /\ header' = IF Taken(2) = 2 THEN Bytes(2) ELSE Bytes(2) \o <<Zero>>
  /\ torn' = (torn \/ Taken(2) = 1)
  /\ reading' = "length"
  /\ UNCHANGED <<sent, eof, buffer, last_msg, received, open>>

ReadHeaderFails ==
  /\ open /\ reading = "no" /\ last_msg = <<>> /\ Nothing
  /\ IF eof THEN ShutDown /\ UNCHANGED <<wire, arrived, no_data_opers>> ELSE NoData
  /\ UNCHANGED <<buffer, last_msg, torn>>

WantsLength == Len(header) < 5 /\ More(header[Len(header)].v)

\* one more byte of the length; if it has not arrived the zero left there is taken
ReadLength ==
  /\ open /\ reading = "length" /\ WantsLength
  /\ IF Nothing /\ eof THEN ShutDown /\ UNCHANGED <<wire, arrived, torn>>
     ELSE IF Nothing
     THEN /\ header' = Append(header, Zero) /\ torn' = TRUE
          /\ UNCHANGED <<wire, arrived, open, reading, sent, eof, received>>
     ELSE /\ Take(1) /\ header' = header \o Bytes(1)
          /\ UNCHANGED <<torn, open, reading, sent, eof, received>>
  /\ UNCHANGED <<buffer, last_msg, no_data_opers>>

Size == DecodeLength([i \in 1 .. Len(header) - 1 |-> header[i + 1].v])

\* a wrong length, a reply that is not of two bytes, QoS 3, or on_header says no
RejectHeader ==
  /\ open /\ reading = "length" /\ ~WantsLength /\ ShutDown
  /\ UNCHANGED <<wire, arrived, buffer, last_msg, no_data_opers, torn>>

AcceptHeader ==
  /\ open /\ reading = "length" /\ ~WantsLength /\ Size # -1
  /\ IF Size = 0
     THEN /\ received' = Append(received, Packet(header[1], <<>>))
          /\ reading' = "no" /\ header' = <<>>
     ELSE reading' = "body" /\ UNCHANGED <<received, header>>
  /\ UNCHANGED <<sent, wire, arrived, eof, buffer, last_msg, no_data_opers, open, torn>>

\* the body, as much as there is: the rest is left for the next call.  A body that
\* has not arrived at all is kept as if -2 bytes of it had been read
ReadBody ==
  /\ open /\ reading = "body"
  /\ IF Nothing /\ eof THEN ShutDown /\ UNCHANGED <<wire, arrived, buffer, last_msg, torn>>
     ELSE /\ reading' = "no" /\ header' = <<>>
          /\ Take(Size)
          /\ torn' = (torn \/ Nothing)
          /\ IF Taken(Size) = Size
             THEN /\ received' = Append(received, Packet(header[1], Bytes(Size)))
                  /\ UNCHANGED <<buffer, last_msg>>
             ELSE /\ last_msg' = <<[type |-> header[1],
                                    remaining |-> IF Nothing THEN Size + 2
                                                  ELSE Size - Taken(Size)]>>
                  /\ buffer' = Bytes(Size) /\ UNCHANGED received
          /\ UNCHANGED <<sent, eof, open>>
  /\ UNCHANGED no_data_opers

\* Mutant: what has just been read is expected again.
StillAll(left) == left
StillMissing(left) == left - Taken(left)

ReadRest ==
  /\ open /\ reading = "no" /\ last_msg # <<>>
  /\ LET left == last_msg[1].remaining
     IN  IF Nothing
         THEN IF eof THEN /\ ShutDown /\ buffer' = <<>> /\ last_msg' = <<>>
                          /\ UNCHANGED <<wire, arrived, no_data_opers, torn>>
              ELSE NoData /\ UNCHANGED <<buffer, last_msg, torn>>
         ELSE /\ Take(left)
              /\ IF Taken(left) = left
                 THEN /\ received' = Append(received, Packet(last_msg[1].type,
                                                             buffer \o Bytes(left)))
                      /\ buffer' = <<>> /\ last_msg' = <<>>
                 ELSE /\ buffer' = buffer \o Bytes(left)
                      /\ last_msg' = <<[last_msg[1] EXCEPT !.remaining = StillMissing(left)]>>
                      /\ UNCHANGED received
              /\ UNCHANGED <<sent, eof, reading, header, no_data_opers, open, torn>>

PacketRead ==
  \/ ReadHeader \/ ReadHeaderFails \/ ReadLength \/ RejectHeader \/ AcceptHeader
  \/ ReadBody \/ ReadRest
PacketNext == Arrive \/ PeerCloses \/ PacketRead
PacketSpec == PacketInit /\ [][PacketNext]_packetVars

(* ------------------------------ properties ------------------------------ *)
\* However the bodies of packets are cut, myqtt_msg_get_next returns the packets
\* that were sent, whole and in order, provided two bytes of a header, the length bytes
\* after them and the first byte of the body have arrived when they are read.
PacketsReadWhole == ~torn => IsPrefix(received, Expected)

\* ... and without the proviso.  Not so: one byte of a header is taken for a packet without
\* a body (lib/myqtt-msg.c:649), a missing length byte for 0 (747), a missing body for -2 bytes (856).
PacketsReadAlways == IsPrefix(received, Expected)
=============================================================================
