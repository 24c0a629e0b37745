---------------------------- MODULE BrokerProofs ----------------------------
(***************************************************************************)
(* Proofs about the components that MCBroker puts on one instance for TLC. *)
(* They share no variable, so each has a section, and an inductive         *)
(* invariant, of its own.                                                  *)
(***************************************************************************)
EXTENDS MCBroker, ListLemmas

-----------------------------------------------------------------------------
(* Messages (Packets): the remaining length and the 16 bit lengths of lib/myqtt-msg.c,
   for every number and every radix, 128 in the code, and not only those the runs send:
   what is decoded is what was encoded. *)

\* Cited where the product in the assumption would disturb the arithmetic.
LEMMA RadixIs == Radix \in Nat /\ Radix >= 2
BY Zenon, PacketAssumption

\* The laws of products that the powers of the radix need.
LEMMA Products ==
  ASSUME NEW a \in Nat, NEW b \in Nat
  PROVE  /\ a * b \in Nat /\ a * b = b * a
         /\ \A c \in Nat : a <= c => a * b <= c * b
         /\ \A c \in Nat : a < c /\ b > 0 => a * b < c * b
         /\ \A c \in Nat : (a + c) * b = a * b + c * b
         /\ \A c \in Nat : (a * b) * c = a * (b * c)
<1>1. a * b \in Nat /\ a * b = b * a
  BY SMT
<1>2. \A c \in Nat : a <= c => a * b <= c * b
  BY SMT
<1>3. \A c \in Nat : a < c /\ b > 0 => a * b < c * b
  BY SMT
<1>4. \A c \in Nat : (a + c) * b = a * b + c * b
  BY SMT
<1>5. \A c \in Nat : (a * b) * c = a * (b * c)
  BY SMT
<1> QED BY <1>1, <1>2, <1>3, <1>4, <1>5

\* A number is its quotient and its remainder ...
LEMMA DivMod ==
  ASSUME NEW n \in Nat, NEW b \in Nat, b > 0
  PROVE  /\ n \div b \in Nat /\ n % b \in 0 .. b - 1
         /\ n = (n \div b) * b + (n % b)
<1>1. n \div b \in Nat /\ n % b \in 0 .. b - 1
  BY SMT
<1>2. n = (n \div b) * b + (n % b)
  BY SMT
<1> QED BY <1>1, <1>2

\* ... which nothing else is ...
LEMMA DivUnique ==
  ASSUME NEW n \in Nat, NEW b \in Nat, b > 0, NEW q \in Nat, NEW r \in 0 .. b - 1, n = q * b + r
  PROVE  n \div b = q /\ n % b = r
BY SMT

\* ... and dividing twice is dividing once by the product.
LEMMA DivDiv ==
  ASSUME NEW n \in Nat, NEW b \in Nat, b > 0, NEW c \in Nat, c > 0
  PROVE  n \div (b * c) = (n \div b) \div c
BY SMT

\* The powers of the radix are numbers, each more than the one before.
LEMMA Powers ==
  /\ Power(0) = 1 /\ Power(1) = Radix /\ Power(2) = Radix * Radix
  /\ Power(3) = Radix * Radix * Radix /\ Power(4) = Radix * Radix * Radix * Radix
  /\ \A i \in 0 .. 4 : Power(i) \in Nat /\ Power(i) > 0
  /\ Power(1) < Power(2) /\ Power(2) < Power(3) /\ Power(3) < Power(4)
<1>1. /\ Power(0) = 1 /\ Power(1) = Radix /\ Power(2) = Radix * Radix
      /\ Power(3) = Radix * Radix * Radix /\ Power(4) = Radix * Radix * Radix * Radix
  BY DEF Power
<1>2. PICK a \in Nat, b \in Nat, c \in Nat, d \in Nat :
        a = Radix /\ b = a * a /\ c = b * a /\ d = c * a /\ 2 <= a
  <2>1. PICK a \in Nat : a = Radix /\ 2 <= a
    BY RadixIs
  <2>2. PICK b \in Nat : b = a * a
    BY Products
  <2>3. PICK c \in Nat : c = b * a
    BY Products
  <2>4. PICK d \in Nat : d = c * a
    BY Products
  <2> QED BY <2>1, <2>2, <2>3, <2>4, Zenon
<1>3. /\ Power(0) = 1 /\ Power(1) = a /\ Power(2) = b /\ Power(3) = c /\ Power(4) = d
  BY <1>1, <1>2, Zenon
<1>4. a < b /\ b < c /\ c < d
  <2>1. a > 0 /\ 1 < a /\ 1 * a = a
    BY <1>2
  <2>2. a < b
    BY <1>2, <2>1, Products
  <2>3. b < c
    BY <1>2, <2>1, <2>2, Products
  <2> QED BY <1>2, <2>1, <2>2, <2>3, Products
<1>5. \A i \in 0 .. 4 : Power(i) \in Nat /\ Power(i) > 0
  <2>1. 0 .. 4 = {0, 1, 2, 3, 4}
    OBVIOUS
  <2>2. a > 0 /\ b > 0 /\ c > 0 /\ d > 0
    BY <1>2, <1>4
  <2> HIDE <1>2
  <2> QED BY <1>3, <2>1, <2>2
<1> QED BY <1>1, <1>3, <1>4, <1>5, Zenon

\* myqtt_msg_encode_remaining_length needs one to four bytes for what MQTT allows.
LEMMA DigitsOfLength ==
  ASSUME NEW n \in Nat, n < Power(4)
  PROVE  /\ Digits(n) \in 1 .. 4
         /\ n < Power(1) => Digits(n) = 1
         /\ n >= Power(1) /\ n < Power(2) => Digits(n) = 2
         /\ n >= Power(2) /\ n < Power(3) => Digits(n) = 3
         /\ n >= Power(3) => Digits(n) = 4
<1>1. PICK a \in Nat, b \in Nat, c \in Nat, d \in Nat :
        a = Power(1) /\ b = Power(2) /\ c = Power(3) /\ d = Power(4) /\ a < b /\ b < c /\ c < d
  <2>1. Power(1) \in Nat /\ Power(2) \in Nat /\ Power(3) \in Nat /\ Power(4) \in Nat
        /\ Power(1) < Power(2) /\ Power(2) < Power(3) /\ Power(3) < Power(4)
    <3>1. 1 \in 0 .. 4 /\ 2 \in 0 .. 4 /\ 3 \in 0 .. 4 /\ 4 \in 0 .. 4
      OBVIOUS
    <3> QED BY <3>1, Powers, Zenon
  <2> QED BY <2>1, Zenon
<1>2. Digits(n) = IF n < a THEN 1 ELSE IF n < b THEN 2 ELSE IF n < c THEN 3 ELSE IF n < d THEN 4 ELSE 5
  BY <1>1, Zenon DEF Digits
<1>3. n < d
  BY <1>1, Zenon
<1>4. /\ Digits(n) \in 1 .. 4 /\ (n < a => Digits(n) = 1) /\ (n >= a /\ n < b => Digits(n) = 2)
      /\ (n >= b /\ n < c => Digits(n) = 3) /\ (n >= c => Digits(n) = 4)
  BY <1>1, <1>2, <1>3, SMT
<1> QED BY <1>1, <1>4, Zenon

\* A byte that goes on, and the last one.
LEMMA GoesOn ==
  ASSUME NEW v \in 0 .. Radix - 1
  PROVE  /\ More(v + Radix) /\ Value(v + Radix) = v
         /\ ~More(v + 0) /\ Value(v + 0) = v
<1>1. PICK r \in Nat : r = Radix /\ r >= 2
  BY RadixIs
<1>2. v \in 0 .. r - 1 /\ v \in Nat
  BY <1>1
<1>3. (v + r) % r = v
  <2>1. v + r \in Nat /\ v + r = 1 * r + v /\ r > 0 /\ 1 \in Nat
    BY <1>1, <1>2
  <2> QED BY <1>1, <1>2, <2>1, DivUnique
<1>4. (v + 0) % r = v
  <2>1. v + 0 \in Nat /\ v + 0 = 0 * r + v /\ r > 0 /\ 0 \in Nat
    BY <1>1, <1>2
  <2> QED BY <1>1, <1>2, <2>1, DivUnique
<1>5. v + r >= r /\ ~(v + 0 >= r)
  BY <1>1, <1>2
<1> QED BY <1>1, <1>3, <1>4, <1>5, Zenon DEF More, Value

\* A byte of the length: a digit, and whether another follows.
LEMMA LengthByte ==
  ASSUME NEW n \in Nat, n < Power(4), NEW i \in 1 .. Digits(n)
  PROVE  \E v \in 0 .. Radix - 1 :
            EncodeLength(n)[i] = v + (IF i < Digits(n) THEN Radix ELSE 0)
<1>1. PICK r \in Nat, x \in Nat : r = Radix /\ r > 0 /\ x = Power(i - 1) /\ x > 0
  <2>1. i - 1 \in 0 .. 4
    BY DigitsOfLength
  <2>2. Power(i - 1) \in Nat /\ Power(i - 1) > 0
    BY <2>1, Powers, Zenon
  <2>3. Radix \in Nat /\ Radix > 0
    BY RadixIs
  <2> QED BY <2>2, <2>3, Zenon
<1>2. PICK y \in Nat : y = n \div x
  BY <1>1, DivMod
<1>3. PICK z \in 0 .. r - 1 : z = y % r
  BY <1>1, DivMod
<1>4. EncodeLength(n)[i] = z + (IF i < Digits(n) THEN r ELSE 0)
  BY <1>1, <1>2, <1>3, Zenon DEF EncodeLength
<1> QED BY <1>1, <1>3, <1>4, Zenon

\* What is decoded is what was encoded, for each remaining length MQTT allows.
THEOREM LengthRoundTrip ==
  ASSUME NEW n \in Nat, n < Power(4)
  PROVE  DecodeLength(EncodeLength(n)) = n
<1> DEFINE e == EncodeLength(n)
\* the digits
<1>1. PICK r \in Nat : r = Radix /\ r >= 2
  BY RadixIs
<1>2. PICK q1 \in Nat, q2 \in Nat, q3 \in Nat :
        q1 = n \div r /\ q2 = q1 \div r /\ q3 = q2 \div r
  <2>1. n \div r \in Nat
    BY <1>1, DivMod
  <2>2. (n \div r) \div r \in Nat
    BY <1>1, <2>1, DivMod
  <2>3. ((n \div r) \div r) \div r \in Nat
    BY <1>1, <2>2, DivMod
  <2> QED BY <2>1, <2>2, <2>3, Zenon
<1>3. PICK d1 \in 0 .. r - 1, d2 \in 0 .. r - 1, d3 \in 0 .. r - 1, d4 \in 0 .. r - 1 :
        d1 = n % r /\ d2 = q1 % r /\ d3 = q2 % r /\ d4 = q3 % r
  <2>1. n % r \in 0 .. r - 1 /\ q1 % r \in 0 .. r - 1 /\ q2 % r \in 0 .. r - 1
        /\ q3 % r \in 0 .. r - 1
    BY <1>1, DivMod
  <2> QED BY <2>1, Zenon
<1>4. /\ n \div Power(0) = n /\ n \div Power(1) = q1
      /\ n \div Power(2) = q2 /\ n \div Power(3) = q3
  <2>1. n \div 1 = n
    BY SMT
  <2>2. r * r \in Nat /\ r * r > 0 /\ r > 0
    BY <1>1
  <2>3. n \div (r * r) = q2
    BY <1>1, <1>2, <2>2, DivDiv
  <2>4. n \div ((r * r) * r) = q3
    BY <1>1, <1>2, <2>2, <2>3, DivDiv
  <2>5. Power(0) = 1 /\ Power(1) = r /\ Power(2) = r * r /\ Power(3) = (r * r) * r
    BY <1>1, Powers, Zenon
  <2> QED BY <1>2, <2>1, <2>3, <2>4, <2>5, Zenon
\* the bytes
<1>5. ASSUME NEW i \in 1 .. Digits(n), NEW v \in 0 .. r - 1, v = (n \div Power(i - 1)) % r
      PROVE  /\ i < Digits(n) => More(e[i]) /\ Value(e[i]) = v
             /\ ~(i < Digits(n)) => ~More(e[i]) /\ Value(e[i]) = v
  <2>1. e[i] = v + (IF i < Digits(n) THEN r ELSE 0)
    BY <1>1, <1>5, Zenon DEF EncodeLength
  <2>2. CASE i < Digits(n)
    BY <1>1, <2>1, <2>2, GoesOn, Zenon
  <2>3. CASE ~(i < Digits(n))
    BY <1>1, <2>1, <2>3, GoesOn, Zenon
  <2> QED BY <2>2, <2>3
<1> HIDE DEF e
<1>6. ASSUME NEW k \in 1 .. 4, Digits(n) = k
      PROVE  /\ Value(e[1]) = d1 /\ (1 < k => More(e[1])) /\ (1 = k => ~More(e[1]))
             /\ 2 <= k => Value(e[2]) = d2 /\ (2 < k => More(e[2])) /\ (2 = k => ~More(e[2]))
             /\ 3 <= k => Value(e[3]) = d3 /\ (3 < k => More(e[3])) /\ (3 = k => ~More(e[3]))
             /\ 4 <= k => Value(e[4]) = d4 /\ ~More(e[4])
  <2>1. ASSUME NEW i \in 1 .. k, NEW v \in 0 .. r - 1, v = (n \div Power(i - 1)) % r
        PROVE  Value(e[i]) = v /\ (i < k => More(e[i])) /\ (i = k => ~More(e[i]))
    <3>1. i \in 1 .. Digits(n) /\ (i = k => ~(i < Digits(n)))
      BY <1>6
    <3> QED BY <1>5, <1>6, <2>1, <3>1, Zenon
  <2>2. 1 - 1 = 0 /\ 2 - 1 = 1 /\ 3 - 1 = 2 /\ 4 - 1 = 3
    OBVIOUS
  <2>3. Value(e[1]) = d1 /\ (1 < k => More(e[1])) /\ (1 = k => ~More(e[1]))
    <3>1. 1 \in 1 .. k
      OBVIOUS
    <3> QED BY <1>3, <1>4, <2>1, <2>2, <3>1, Zenon
  <2>4. 2 <= k => Value(e[2]) = d2 /\ (2 < k => More(e[2])) /\ (2 = k => ~More(e[2]))
    <3>1. 2 <= k => 2 \in 1 .. k
      OBVIOUS
    <3> QED BY <1>3, <1>4, <2>1, <2>2, <3>1, Zenon
  <2>5. 3 <= k => Value(e[3]) = d3 /\ (3 < k => More(e[3])) /\ (3 = k => ~More(e[3]))
    <3>1. 3 <= k => 3 \in 1 .. k
      OBVIOUS
    <3> QED BY <1>3, <1>4, <2>1, <2>2, <3>1, Zenon
  <2>6. 4 <= k => Value(e[4]) = d4 /\ ~More(e[4])
    <3>1. 4 <= k => 4 \in 1 .. k /\ 4 = k
      OBVIOUS
    <3> QED BY <1>3, <1>4, <2>1, <2>2, <3>1, Zenon
  <2> QED BY <2>3, <2>4, <2>5, <2>6
\* what they add up to
<1>7. PICK b \in Nat, c \in Nat : b = r * r /\ c = b * r
  <2>1. r * r \in Nat /\ (r * r) * r \in Nat
    BY SMT
  <2> QED BY <2>1, Zenon
<1>8. Power(1) = r /\ Power(2) = b /\ Power(3) = c /\ Power(4) = c * r
  BY <1>1, <1>7, Powers, Zenon
<1>9. n = q1 * r + d1 /\ q1 = q2 * r + d2 /\ q2 = q3 * r + d3
  BY <1>1, <1>2, <1>3, DivMod
<1>10. n = q2 * b + d2 * r + d1 /\ n = q3 * c + d3 * b + d2 * r + d1
  <2>1. q1 * r = q2 * b + d2 * r /\ q2 * b = q3 * c + d3 * b
    <3>1. ASSUME NEW x \in Nat, NEW y \in Nat, NEW z \in Nat, NEW u \in Nat, NEW w \in Nat,
                 x = y * z + w
          PROVE  x * u = y * (z * u) + w * u
      BY <3>1, SMT
    <3>2. q1 * r = q2 * (r * r) + d2 * r
      BY <1>9, <3>1
    <3>3. r * b = c
      BY <1>7, Products
    <3>4. q2 * b = q3 * (r * b) + d3 * b
      BY <1>9, <3>1
    <3> QED BY <1>7, <3>2, <3>3, <3>4, Zenon
  <2>2. PICK x1 \in Nat, x2 \in Nat, y2 \in Nat, x3 \in Nat, y3 \in Nat :
          x1 = q1 * r /\ x2 = q2 * b /\ y2 = d2 * r /\ x3 = q3 * c /\ y3 = d3 * b
    <3>1. q1 * r \in Nat /\ q2 * b \in Nat /\ d2 * r \in Nat /\ q3 * c \in Nat /\ d3 * b \in Nat
      BY Products
    <3> QED BY <3>1, Zenon
  <2>3. n = x1 + d1 /\ x1 = x2 + y2 /\ x2 = x3 + y3
    BY <1>9, <2>1, <2>2, Zenon
  <2>4. n = x2 + y2 + d1 /\ n = x3 + y3 + y2 + d1
    BY <2>3
  <2> QED BY <2>2, <2>4, Zenon
<1>11. ASSUME NEW x \in Nat, NEW y \in Nat, y > 0, NEW q \in Nat, NEW z \in Nat, x = q * y + z, x < y
       PROVE  q = 0 /\ x = z
  BY <1>11, SMT
<1>12. PICK a2 \in Nat, a3 \in Nat, a4 \in Nat : a2 = d2 * r /\ a3 = d3 * b /\ a4 = d4 * c
  <2>1. d2 * r \in Nat /\ d3 * b \in Nat /\ d4 * c \in Nat
    BY Products
  <2> QED BY <2>1, Zenon
<1>13. DecodeLength(e) = IF ~More(e[1]) THEN Value(e[1])
                         ELSE IF ~More(e[2]) THEN Value(e[1]) + Value(e[2]) * r
                         ELSE IF ~More(e[3]) THEN Value(e[1]) + Value(e[2]) * r + Value(e[3]) * b
                         ELSE IF ~More(e[4]) THEN Value(e[1]) + Value(e[2]) * r + Value(e[3]) * b
                                                  + Value(e[4]) * c
                         ELSE -1
  BY <1>8, Zenon DEF DecodeLength
<1>14. CASE n < r
  <2>1. Digits(n) = 1
    BY <1>8, <1>14, DigitsOfLength, Zenon
  <2>2. DecodeLength(e) = d1
    BY <1>6, <1>13, <2>1
  <2> QED BY <1>1, <1>9, <1>11, <1>14, <2>2 DEF e
<1>15. CASE ~(n < r) /\ n < b
  <2>1. Digits(n) = 2
    BY <1>8, <1>15, DigitsOfLength
  <2>2. DecodeLength(e) = d1 + a2
    BY <1>6, <1>12, <1>13, <2>1
  <2>3. n = a2 + d1
    BY <1>1, <1>7, <1>10, <1>11, <1>12, <1>15
  <2> QED BY <2>2, <2>3 DEF e
<1>16. CASE ~(n < b) /\ n < c
  <2>1. Digits(n) = 3
    BY <1>8, <1>16, DigitsOfLength
  <2>2. DecodeLength(e) = d1 + a2 + a3
    BY <1>6, <1>12, <1>13, <2>1
  <2>3. n = a3 + a2 + d1
    BY <1>1, <1>7, <1>10, <1>11, <1>12, <1>16
  <2> QED BY <2>2, <2>3 DEF e
<1>17. CASE ~(n < c)
  <2>1. Digits(n) = 4
    BY <1>8, <1>17, DigitsOfLength
  <2>2. DecodeLength(e) = d1 + a2 + a3 + a4
    BY <1>6, <1>12, <1>13, <2>1
  <2>3. n = q3 * c + a3 + a2 + d1
    BY <1>10, <1>12, Zenon
  <2>4. q3 = d4
    <3>1. q3 < r
      <4>1. ASSUME q3 >= r PROVE FALSE
        <5>1. r * c <= q3 * c /\ c * r = r * c /\ q3 * c \in Nat /\ r * c \in Nat
          BY <4>1, Products
        <5> QED BY <1>8, <2>3, <5>1
      <4> QED BY <4>1
    <3>2. q3 \in 0 .. r - 1 /\ q3 = 0 * r + q3 /\ 0 \in Nat
      BY <1>1, <3>1
    <3> QED BY <1>1, <1>3, <3>2, DivUnique
  <2>5. q3 * c = a4
    BY <1>12, <2>4, Zenon
  <2> QED BY <2>2, <2>3, <2>5 DEF e
<1> QED BY <1>14, <1>15, <1>16, <1>17

\* myqtt_msg_build reserves the bytes that the encoding takes, and the type.
THEOREM HeaderFits ==
  ASSUME NEW n \in Nat, n < Power(4)
  PROVE  HeaderSize(n) = 1 + Digits(n) /\ Len(EncodeLength(n)) = Digits(n)
<1>1. PICK a \in Nat, b \in Nat, c \in Nat, d \in Nat :
        a = Power(1) /\ b = Power(2) /\ c = Power(3) /\ d = Power(4) /\ a < b /\ b < c /\ c < d
  <2>1. Power(1) \in Nat /\ Power(2) \in Nat /\ Power(3) \in Nat /\ Power(4) \in Nat
        /\ Power(1) < Power(2) /\ Power(2) < Power(3) /\ Power(3) < Power(4)
    <3>1. 1 \in 0 .. 4 /\ 2 \in 0 .. 4 /\ 3 \in 0 .. 4 /\ 4 \in 0 .. 4
      OBVIOUS
    <3> QED BY <3>1, Powers, Zenon
  <2> QED BY <2>1, Zenon
<1>2. n < d
  BY <1>1, Zenon
<1>3. HeaderSize(n) = IF n <= a - 1 THEN 2 ELSE IF n <= b - 1 THEN 3
                      ELSE IF n <= c - 1 THEN 4 ELSE IF n <= d - 1 THEN 5 ELSE 0
  BY <1>1, Zenon DEF HeaderSize
<1>4. Digits(n) = IF n < a THEN 1 ELSE IF n < b THEN 2 ELSE IF n < c THEN 3 ELSE IF n < d THEN 4 ELSE 5
  BY <1>1, Zenon DEF Digits
<1>5. HeaderSize(n) = 1 + Digits(n)
  BY <1>1, <1>2, <1>3, <1>4
<1>6. Len(EncodeLength(n)) = Digits(n)
  <2>1. Digits(n) \in Nat
    BY DigitsOfLength
  <2> QED BY <2>1 DEF EncodeLength
<1> QED BY <1>5, <1>6

\* A 16 bit length comes back as what fits in 16 bits: a string of 65536 bytes or more is
\* announced shorter than it is (lib/myqtt-msg.c:480).
THEOREM SixteenBits ==
  ASSUME Radix = 128, NEW n \in Nat
  PROVE  /\ Get16(Set16(n)) = n % 65536
         /\ Set16(n)[1] \in 0 .. 255 /\ Set16(n)[2] \in 0 .. 255
<1>1. Byte = 256
  BY SMT DEF Byte
<1>2. Set16(n) = <<(n \div 256) % 256, n % 256>>
  BY <1>1, SMT DEF Set16
<1>3. ((n \div 256) % 256) * 256 + (n % 256) = n % 65536
  BY SMT
<1>4. (n \div 256) % 256 \in 0 .. 255 /\ n % 256 \in 0 .. 255
  BY SMT
<1> QED BY <1>1, <1>2, <1>3, <1>4, SMT DEF Get16

-----------------------------------------------------------------------------
(* Reading packets (Packets): however the bytes arrive, what has been read of    *)
(* the wire is a packet received or the part of the next one that is kept.        *)

\* What the assumption says of the sizes of packets.
LEMMA SizeIs ==
  ASSUME NEW n \in PacketSizes
  PROVE  n \in Nat /\ n < Power(4)
<1>1. PICK q : q = Radix * Radix * Radix * Radix
  BY Zenon
<1>2. PacketSizes \subseteq 0 .. (q - 1)
  BY <1>1, Zenon, PacketAssumption
<1>3. n \in 0 .. (q - 1)
  BY <1>2
<1>4. q = Power(4) /\ q \in Nat
  <2>1. 4 \in 0 .. 4
    OBVIOUS
  <2> QED BY <1>1, <2>1, Powers, Zenon
<1>5. n \in Nat /\ n < q
  BY <1>3, <1>4
<1> QED BY <1>4, <1>5, Zenon

\* A byte as the specification has it.
Pieces == [of : Nat, part : {"type", "length", "body", "nul"}, at : Nat, v : Nat]

\* The bytes of a packet: its type, its length, its body.
LEMMA WireIs ==
  ASSUME NEW p \in Nat, NEW n \in PacketSizes
  PROVE  /\ n \in Nat /\ Digits(n) \in 1 .. 4
         /\ Wire(p, n) \in Seq(Pieces) /\ Len(Wire(p, n)) = 1 + Digits(n) + n
         /\ Wire(p, n)[1] = Type(p)
         /\ \A i \in 1 .. Digits(n) : Wire(p, n)[1 + i].v = EncodeLength(n)[i]
         /\ \A i \in 1 .. n : Wire(p, n)[1 + Digits(n) + i] = [of |-> p, part |-> "body", at |-> i, v |-> 0]
<1>1. n \in Nat /\ n < Power(4)
  BY SizeIs
<1>2. Digits(n) \in 1 .. 4
  BY <1>1, DigitsOfLength, SMT
<1> DEFINE d == Digits(n)
           middle == [i \in 1 .. d |->
                        [of |-> p, part |-> "length", at |-> i, v |-> EncodeLength(n)[i]]]
<1> HIDE DEF d
<1>3. d \in 1 .. 4
  BY <1>2 DEF d
<1>4. ASSUME NEW i \in 1 .. d PROVE EncodeLength(n)[i] \in Nat
  <2>1. PICK v \in 0 .. Radix - 1 : EncodeLength(n)[i] = v + (IF i < Digits(n) THEN Radix ELSE 0)
    BY <1>1, LengthByte DEF d
  <2> QED BY <2>1, RadixIs
<1>5. middle \in Seq(Pieces) /\ Len(middle) = d
  BY <1>3, <1>4 DEF Pieces
<1>6. Body(p, n) \in Seq(Pieces) /\ Len(Body(p, n)) = n
  BY <1>1 DEF Body, Pieces
<1>7. <<Type(p)>> \in Seq(Pieces) /\ Len(<<Type(p)>>) = 1 /\ <<Type(p)>>[1] = Type(p)
  BY DEF Type, Pieces
<1> DEFINE start == <<Type(p)>> \o middle
<1>8. Wire(p, n) = start \o Body(p, n)
  BY DEF Wire, d
<1>9. start \in Seq(Pieces) /\ Len(start) = 1 + d
      /\ start[1] = Type(p) /\ \A i \in 1 .. d : start[1 + i] = middle[i]
  <2> HIDE DEF middle
  <2>1. start \in Seq(Pieces) /\ Len(start) = 1 + d
    BY <1>3, <1>5, <1>7, ConcatProperties
  <2>2. \A i \in 1 .. 1 + d : start[i] = IF i <= 1 THEN <<Type(p)>>[i] ELSE middle[i - 1]
    BY <1>3, <1>5, <1>7, ConcatProperties
  <2> HIDE DEF start
  <2> QED BY <1>3, <1>7, <2>1, <2>2
<1> HIDE DEF start
<1>10. Wire(p, n) \in Seq(Pieces) /\ Len(Wire(p, n)) = 1 + d + n
  BY <1>1, <1>3, <1>6, <1>8, <1>9, ConcatProperties
<1>11. \A i \in 1 .. 1 + d + n : Wire(p, n)[i] = IF i <= 1 + d THEN start[i] ELSE Body(p, n)[i - (1 + d)]
  BY <1>1, <1>3, <1>6, <1>8, <1>9, ConcatProperties
<1>12. Wire(p, n)[1] = Type(p)
  BY <1>1, <1>3, <1>9, <1>11
<1>13. ASSUME NEW i \in 1 .. d PROVE Wire(p, n)[1 + i].v = EncodeLength(n)[i]
  <2>1. 1 + i \in 1 .. 1 + d + n /\ 1 + i <= 1 + d
    BY <1>1, <1>3
  <2>2. Wire(p, n)[1 + i] = start[1 + i]
    <3>1. \A j \in 1 .. 1 + d + n : j <= 1 + d => Wire(p, n)[j] = start[j]
      BY <1>11
    <3> QED BY <2>1, <3>1
  <2>3. middle[i] = [of |-> p, part |-> "length", at |-> i, v |-> EncodeLength(n)[i]]
    OBVIOUS
  <2> HIDE DEF middle
  <2> QED BY <1>9, <2>2, <2>3
<1>14. ASSUME NEW i \in 1 .. n
       PROVE  Wire(p, n)[1 + d + i] = [of |-> p, part |-> "body", at |-> i, v |-> 0]
  <2>1. 1 + d + i \in 1 .. 1 + d + n /\ ~(1 + d + i <= 1 + d) /\ 1 + d + i - (1 + d) = i
    BY <1>1, <1>3
  <2>2. Wire(p, n)[1 + d + i] = Body(p, n)[i]
    <3>1. \A j \in 1 .. 1 + d + n : ~(j <= 1 + d) => Wire(p, n)[j] = Body(p, n)[j - (1 + d)]
      BY <1>11
    <3>2. PICK j \in 1 .. 1 + d + n : j = 1 + d + i /\ ~(j <= 1 + d) /\ j - (1 + d) = i
      BY <1>1, <1>3, <2>1
    <3>3. Wire(p, n)[j] = Body(p, n)[j - (1 + d)]
      BY <3>1, <3>2
    <3> QED BY <3>2, <3>3, Zenon
  <2> QED BY <1>1, <2>2 DEF Body
<1> QED BY <1>1, <1>3, <1>10, <1>12, <1>13, <1>14 DEF d

\* Which bytes of a length go on, and what they say together.
LEMMA HeaderIs ==
  ASSUME NEW p \in Nat, NEW n \in PacketSizes,
         NEW h \in 2 .. 1 + Digits(n)
  PROVE  LET header_of == SubSeq(Wire(p, n), 1, h) IN
         /\ Len(header_of) = h /\ header_of[1] = Type(p)
         /\ (h < 5 /\ More(header_of[h].v)) <=> h < 1 + Digits(n)
         /\ h = 1 + Digits(n) =>
              DecodeLength([i \in 1 .. h - 1 |-> header_of[i + 1].v]) = n
<1> DEFINE w == Wire(p, n)
           g == SubSeq(w, 1, h)
<1>1. /\ n \in Nat /\ Digits(n) \in 1 .. 4
      /\ w \in Seq(Pieces) /\ Len(w) = 1 + Digits(n) + n /\ w[1] = Type(p)
      /\ \A i \in 1 .. Digits(n) : w[1 + i].v = EncodeLength(n)[i]
  BY WireIs
<1>2. n < Power(4)
  BY SizeIs
<1> HIDE DEF w
<1>3. Len(g) = h /\ \A i \in 1 .. h : g[i] = w[i]
  BY <1>1, SubSeqProperties
<1> HIDE DEF g
<1>4. g[1] = Type(p) /\ \A i \in 1 .. h - 1 : g[i + 1].v = EncodeLength(n)[i]
  <2>1. ASSUME NEW i \in 1 .. h - 1 PROVE g[i + 1].v = EncodeLength(n)[i]
    <3>1. i + 1 \in 1 .. h /\ i \in 1 .. Digits(n) /\ 1 + i = i + 1
      BY <1>1
    <3>2. g[i + 1] = w[i + 1] /\ w[i + 1].v = EncodeLength(n)[i]
      BY <1>1, <1>3, <3>1
    <3> QED BY <3>2
  <2> QED BY <1>1, <1>3, <2>1
<1>5. More(EncodeLength(n)[h - 1]) <=> h - 1 < Digits(n)
  <2> DEFINE j == h - 1
  <2>1. j \in 1 .. Digits(n)
    BY <1>1
  <2> HIDE DEF j
  <2>2. PICK v \in 0 .. Radix - 1 : EncodeLength(n)[j] = v + (IF j < Digits(n) THEN Radix ELSE 0)
    BY <1>1, <1>2, <2>1, LengthByte
  <2>3. More(EncodeLength(n)[j]) <=> j < Digits(n)
    BY <2>2, GoesOn
  <2> QED BY <2>3 DEF j
<1>6. (h < 5 /\ More(g[h].v)) <=> h < 1 + Digits(n)
  <2>1. h - 1 \in 1 .. h - 1 /\ (h - 1) + 1 = h
    OBVIOUS
  <2>2. g[h].v = EncodeLength(n)[h - 1]
    BY <1>4, <2>1
  <2> QED BY <1>1, <1>5, <2>2
<1>7. ASSUME h = 1 + Digits(n)
      PROVE  DecodeLength([i \in 1 .. h - 1 |-> g[i + 1].v]) = n
  <2>1. h - 1 = Digits(n)
    BY <1>1, <1>7
  <2>2. [i \in 1 .. h - 1 |-> g[i + 1].v] = [i \in 1 .. h - 1 |-> EncodeLength(n)[i]]
    BY <1>4
  <2>3. [i \in 1 .. h - 1 |-> EncodeLength(n)[i]] = EncodeLength(n)
    BY <2>1 DEF EncodeLength
  <2>4. DecodeLength(EncodeLength(n)) = n
    BY <1>1, <1>2, LengthRoundTrip
  <2> QED BY <2>2, <2>3, <2>4, Zenon
<1> QED BY <1>3, <1>4, <1>6, <1>7 DEF g, w

(* ------------------------------- the wire ------------------------------- *)

\* The recursive definition of FlattenSeq does define a function, and it has each
\* part at its place: whole is their concatenation, start says where each begins.
IsFlat(f, t) ==
  f = [i \in 1 .. Len(t) |-> IF i = 1 THEN t[i] ELSE f[i - 1] \o t[i]]

\* There is such a function: by induction on how many parts it covers.
LEMMA FlatExists ==
  ASSUME NEW S, NEW t \in Seq(Seq(S)), Len(t) # 0
  PROVE  \E f \in [1 .. Len(t) -> Seq(S)] : IsFlat(f, t)
<1> DEFINE L == Len(t)
           Flat(f, n) == \A i \in 1 .. n : f[i] = IF i = 1 THEN t[i] ELSE f[i - 1] \o t[i]
           G == {0} \cup {n \in 1 .. L : \E f \in [1 .. n -> Seq(S)] : Flat(f, n)}
<1>1. L \in Nat /\ L >= 1 /\ \A i \in 1 .. L : t[i] \in Seq(S)
  OBVIOUS
<1>2. ASSUME NEW n \in 1 .. L, n - 1 \in G PROVE n \in G
  <2>1. CASE n = 1
    <3> DEFINE f == [i \in 1 .. 1 |-> t[1]]
    <3>1. f \in [1 .. 1 -> Seq(S)] /\ Flat(f, 1)
      BY <1>1
    <3> HIDE DEF f, Flat
    <3>2. \E g \in [1 .. 1 -> Seq(S)] : Flat(g, 1)
      BY <3>1
    <3> QED BY <1>1, <2>1, <3>2
  <2>2. CASE n # 1
    <3>0. n - 1 \in 1 .. L /\ n - 1 # 0
      BY <1>1, <2>2
    <3>1. PICK f \in [1 .. n - 1 -> Seq(S)] : Flat(f, n - 1)
      BY <1>2, <3>0
    <3> DEFINE g == [i \in 1 .. n |-> IF i = n THEN f[n - 1] \o t[n] ELSE f[i]]
    <3>2. f[n - 1] \o t[n] \in Seq(S)
      BY <1>1, <3>0, <3>1, ConcatProperties
    <3>3. g \in [1 .. n -> Seq(S)]
      BY <3>1, <3>2
    <3>4. ASSUME NEW i \in 1 .. n PROVE g[i] = IF i = 1 THEN t[i] ELSE g[i - 1] \o t[i]
      <4>1. CASE i = n
        <5>1. g[n] = f[n - 1] \o t[n] /\ g[n - 1] = f[n - 1]
          <6>1. n \in 1 .. n /\ n - 1 \in 1 .. n /\ n - 1 # n
            BY <3>0
          <6>2. \A j \in 1 .. n : g[j] = IF j = n THEN f[n - 1] \o t[n] ELSE f[j]
            OBVIOUS
          <6> HIDE DEF g
          <6> QED BY <6>1, <6>2
        <5> QED BY <2>2, <4>1, <5>1
      <4>2. CASE i # n
        <5>1. i \in 1 .. n - 1 /\ g[i] = f[i] /\ (i # 1 => g[i - 1] = f[i - 1])
          BY <1>1, <4>2
        <5>2. f[i] = IF i = 1 THEN t[i] ELSE f[i - 1] \o t[i]
          BY <3>1, <5>1
        <5> HIDE DEF g
        <5> QED BY <5>1, <5>2
      <4> QED BY <4>1, <4>2
    <3>5. Flat(g, n)
      BY <3>4
    <3> HIDE DEF g, Flat
    <3>6. \E h \in [1 .. n -> Seq(S)] : Flat(h, n)
      BY <3>3, <3>5
    <3> QED BY <1>1, <3>6
  <2> QED BY <2>1, <2>2
<1>3. L \in G
  <2>1. 0 \in G
    OBVIOUS
  <2> HIDE DEF G
  <2>2. 0 .. L \subseteq G
    BY <1>1, <1>2, <2>1, IntervalInduction
  <2>3. L \in 0 .. L
    BY <1>1
  <2> QED BY <2>2, <2>3
<1>4. PICK f \in [1 .. L -> Seq(S)] : Flat(f, L)
  BY <1>1, <1>3
<1>5. f = [i \in 1 .. L |-> IF i = 1 THEN t[i] ELSE f[i - 1] \o t[i]]
  BY <1>4
<1>6. IsFlat(f, t)
  BY <1>5 DEF IsFlat
<1> QED BY <1>4, <1>6

\* Places in a part that begins at a.
LEMMA Shift ==
  ASSUME NEW a \in Nat, NEW b \in Nat, NEW i \in 1 .. b
  PROVE  /\ a + i \in 1 .. a + b /\ ~(a + i <= a) /\ (a + i) - a = i
         /\ \A c \in Nat : a + b <= c => a + i \in 1 .. c /\ a + i <= c
                                       /\ \A e \in Nat : a + i \in 1 .. c + e
  OBVIOUS

\* The parts one after another, the first at 0.
Laid(whole, start, t) ==
  /\ start \in [1 .. Len(t) + 1 -> Nat]
  /\ start[1] = 0 /\ start[Len(t) + 1] = Len(whole)
  /\ \A p \in 1 .. Len(t) :
       /\ start[p + 1] = start[p] + Len(t[p]) /\ start[p + 1] <= Len(whole)
       /\ \A i \in 1 .. Len(t[p]) : whole[start[p] + i] = t[p][i]

\* FlattenSeq has each part at its place, so the bytes sent are the packets in order.
LEMMA FlatIsLaid ==
  ASSUME NEW S, NEW t \in Seq(Seq(S)), Len(t) # 0
  PROVE  FlattenSeq(t) \in Seq(S) /\ \E start : Laid(FlattenSeq(t), start, t)
<1> DEFINE f == CHOOSE g : IsFlat(g, t)
           L == Len(t)
           start == [p \in 1 .. L + 1 |-> IF p = 1 THEN 0 ELSE Len(f[p - 1])]
<1>0. L \in Nat /\ L >= 1 /\ \A i \in 1 .. L : t[i] \in Seq(S) /\ Len(t[i]) \in Nat
  OBVIOUS
<1>1. IsFlat(f, t)
  BY FlatExists
<1>2. FlattenSeq(t) = f[L]
  BY <1>0 DEF FlattenSeq, IsFlat
<1> HIDE DEF f
<1>3. \A i \in 1 .. L : f[i] = IF i = 1 THEN t[i] ELSE f[i - 1] \o t[i]
  BY <1>1 DEF IsFlat
<1> DEFINE Placed(n) ==
             /\ f[n] \in Seq(S)
             /\ Len(f[n]) = start[n] + Len(t[n])
             /\ \A p \in 1 .. n : /\ start[p] + Len(t[p]) = Len(f[p])
                                  /\ Len(f[p]) <= Len(f[n])
                                  /\ start[p] \in Nat
                                  /\ \A i \in 1 .. Len(t[p]) : f[n][start[p] + i] = t[p][i]
           G == {0} \cup {n \in 1 .. L : Placed(n)}
<1>4. \A p \in 1 .. L : start[p + 1] = Len(f[p])
  BY <1>0
<1>5. start[1] = 0
  BY <1>0
<1> HIDE DEF start
<1>6. ASSUME NEW n \in 1 .. L, n - 1 \in G PROVE n \in G
  <2>1. CASE n = 1
    <3>1. f[1] = t[1]
      BY <1>0, <1>3
    <3>2. Placed(1)
      BY <1>0, <1>5, <3>1
    <3> QED BY <1>0, <2>1, <3>2
  <2>2. CASE n # 1
    <3> DEFINE k == n - 1
    <3>1. k \in 1 .. L /\ k + 1 = n /\ \A p \in 1 .. n : p = n \/ p \in 1 .. k
      BY <1>0, <2>2
    <3>2. Placed(k)
      BY <1>6, <3>1
    <3>3. f[n] = f[k] \o t[n]
      BY <1>3, <2>2
    <3>4. start[n] = Len(f[k])
      BY <1>4, <3>1
    <3> HIDE DEF k
    <3>5. f[k] \in Seq(S) /\ t[n] \in Seq(S) /\ Len(f[k]) \in Nat /\ Len(t[n]) \in Nat
      BY <1>0, <3>2
    <3>6. f[n] \in Seq(S) /\ Len(f[n]) = Len(f[k]) + Len(t[n])
      BY <3>3, <3>5, ConcatProperties
    <3>7. \A i \in 1 .. Len(f[k]) + Len(t[n]) :
             f[n][i] = IF i <= Len(f[k]) THEN f[k][i] ELSE t[n][i - Len(f[k])]
      BY <3>3, <3>5, ConcatProperties
    <3>8. ASSUME NEW p \in 1 .. n
          PROVE  /\ start[p] + Len(t[p]) = Len(f[p]) /\ Len(f[p]) <= Len(f[n]) /\ start[p] \in Nat
                 /\ \A i \in 1 .. Len(t[p]) : f[n][start[p] + i] = t[p][i]
      <4>1. CASE p = n
        <5>1. ASSUME NEW i \in 1 .. Len(t[n]) PROVE f[n][start[n] + i] = t[n][i]
          <6>0. /\ Len(f[k]) + i \in 1 .. Len(f[k]) + Len(t[n]) /\ ~(Len(f[k]) + i <= Len(f[k]))
                /\ (Len(f[k]) + i) - Len(f[k]) = i
            BY <3>5, Shift
          <6>1. PICK j \in 1 .. Len(f[k]) + Len(t[n]) :
                   j = start[n] + i /\ ~(j <= Len(f[k])) /\ j - Len(f[k]) = i
            BY <3>4, <6>0, Zenon
          <6>2. f[n][j] = t[n][j - Len(f[k])]
            BY <3>7, <6>1
          <6> QED BY <6>1, <6>2, Zenon
        <5>2. start[n] + Len(t[n]) = Len(f[n]) /\ Len(f[n]) <= Len(f[n]) /\ start[n] \in Nat
          <6> DEFINE a == Len(f[k])
                     b == Len(t[n])
          <6>1. a \in Nat /\ b \in Nat /\ start[n] = a /\ Len(f[n]) = a + b
            BY <3>4, <3>5, <3>6
          <6> HIDE DEF a
          <6> QED BY <6>1
        <5> QED BY <4>1, <5>1, <5>2, Zenon
      <4>2. CASE p \in 1 .. k
        <5>1. /\ start[p] + Len(t[p]) = Len(f[p]) /\ Len(f[p]) <= Len(f[k]) /\ start[p] \in Nat
              /\ \A i \in 1 .. Len(t[p]) : f[k][start[p] + i] = t[p][i]
          BY <3>2, <4>2
        <5>2. Len(t[p]) \in Nat
          BY <1>0, <3>1, <4>2
        <5>3. ASSUME NEW i \in 1 .. Len(t[p]) PROVE f[n][start[p] + i] = t[p][i]
          <6>0. start[p] + Len(t[p]) <= Len(f[k])
            BY <5>1
          <6>1. PICK j \in 1 .. Len(f[k]) + Len(t[n]) : j = start[p] + i /\ j <= Len(f[k])
            <7> DEFINE a == start[p]
                       c == Len(f[k])
                       e == Len(t[n])
            <7>1. a \in Nat /\ c \in Nat /\ e \in Nat /\ a + Len(t[p]) <= c /\ i \in 1 .. Len(t[p])
              BY <3>5, <5>1, <6>0
            <7> HIDE DEF a, c, e
            <7>2. a + i \in 1 .. c + e /\ a + i <= c
              BY <5>2, <7>1, Shift
            <7>3. \E j \in 1 .. c + e : j = a + i /\ j <= c
              BY <7>2, Zenon
            <7> QED BY <7>3 DEF a, c, e
          <6>2. f[n][j] = f[k][j]
            BY <3>7, <6>1
          <6>3. f[k][j] = t[p][i]
            BY <5>1, <6>1
          <6> QED BY <6>1, <6>2, <6>3, Zenon
        <5>4. Len(f[p]) <= Len(f[n])
          <6> DEFINE a == Len(f[p])
                     b == Len(f[k])
                     e == Len(t[n])
          <6>1. a \in Nat /\ b \in Nat /\ e \in Nat /\ a <= b /\ Len(f[n]) = b + e
            <7>1. start[p] + Len(t[p]) \in Nat
              BY <5>1, <5>2
            <7> QED BY <3>5, <3>6, <5>1, <7>1
          <6> HIDE DEF a, b, e
          <6>2. a <= b + e
            BY <6>1
          <6> QED BY <6>1, <6>2 DEF a
        <5> QED BY <5>1, <5>3, <5>4, Zenon
      <4> QED BY <3>1, <4>1, <4>2
    <3>9. Placed(n)
      BY <3>4, <3>6, <3>8
    <3> HIDE DEF Placed
    <3> QED BY <3>9
  <2> QED BY <2>1, <2>2
<1>7. L \in G
  <2>1. 0 \in G
    OBVIOUS
  <2> HIDE DEF G
  <2>2. 0 .. L \subseteq G
    BY <1>0, <1>6, <2>1, IntervalInduction
  <2> QED BY <1>0, <2>2
<1>8. Placed(L)
  BY <1>0, <1>7
<1>9. start \in [1 .. L + 1 -> Nat]
  <2>1. \A p \in 1 .. L + 1 : start[p] \in Nat
    <3>1. start[L + 1] \in Nat
      <4>1. f[L] \in Seq(S) /\ start[L + 1] = Len(f[L])
        BY <1>0, <1>4, <1>8
      <4> QED BY <4>1, LenProperties
    <3>2. \A p \in 1 .. L : start[p] \in Nat
      BY <1>8
    <3> QED BY <1>0, <3>1, <3>2
  <2> QED BY <2>1 DEF start
<1>10. Laid(f[L], start, t)
  <2>1. start[L + 1] = Len(f[L])
    BY <1>0, <1>4
  <2>2. ASSUME NEW p \in 1 .. L
        PROVE  /\ start[p + 1] = start[p] + Len(t[p]) /\ start[p + 1] <= Len(f[L])
               /\ \A i \in 1 .. Len(t[p]) : f[L][start[p] + i] = t[p][i]
    <3>1. /\ start[p] + Len(t[p]) = Len(f[p]) /\ Len(f[p]) <= Len(f[L])
          /\ \A i \in 1 .. Len(t[p]) : f[L][start[p] + i] = t[p][i]
      BY <1>8
    <3>2. start[p + 1] = Len(f[p])
      BY <1>4
    <3> QED BY <3>1, <3>2, Zenon
  <2> QED BY <1>5, <1>9, <2>1, <2>2 DEF Laid
<1> QED BY <1>2, <1>8, <1>10

(* --------------------------- what has been read --------------------------- *)

\* The bytes of each packet, and what is received when k of them have been read.
Parts(s) == [p \in 1 .. Len(s) |-> Wire(p, s[p])]
Got(s, k) == [p \in 1 .. k |-> Packet(Type(p), Body(p, s[p]))]

\* The first n bytes of all that is sent have been read.
Rest(whole, n) ==
  /\ n \in 0 .. Len(whole) /\ wire = SubSeq(whole, n + 1, Len(whole))
  /\ arrived \in 0 .. Len(whole) - n

\* Nothing of a packet is kept.
Between == reading = "no" /\ header = <<>> /\ last_msg = <<>> /\ buffer = <<>>

\* Packet p, of size n and at b, has been read in part.
Begun(p, n, b, whole) ==
  \/ /\ reading = "length" /\ last_msg = <<>> /\ buffer = <<>>
     /\ \E h \in 2 .. 1 + Digits(n) : header = SubSeq(Wire(p, n), 1, h) /\ Rest(whole, b + h)
  \/ /\ reading = "body" /\ last_msg = <<>> /\ buffer = <<>> /\ n # 0
     /\ header = SubSeq(Wire(p, n), 1, 1 + Digits(n)) /\ Rest(whole, b + (1 + Digits(n)))
  \/ /\ reading = "no" /\ header = <<>>
     /\ \E c \in 1 .. n - 1 : /\ last_msg = <<[type |-> Type(p), remaining |-> n - c]>>
                              /\ buffer = Body(p, c) /\ Rest(whole, b + (1 + Digits(n) + c))

\* It has been returned.
Done(p, n, b, whole) ==
  /\ Between' /\ Rest(whole, b + (1 + Digits(n) + n))'
  /\ received' = Append(received, Packet(Type(p), Body(p, n)))

\* Where its bytes are.
At(p, n, b, whole) ==
  /\ b + (1 + Digits(n) + n) <= Len(whole)
  /\ \A i \in 1 .. 1 + Digits(n) + n : whole[b + i] = Wire(p, n)[i]

\* The elements after the first a, up to the first c.
LEMMA SubSeqIs ==
  ASSUME NEW S, NEW s \in Seq(S), NEW a \in Nat, NEW c \in Nat, a <= c, c <= Len(s)
  PROVE  /\ SubSeq(s, a + 1, c) \in Seq(S) /\ Len(SubSeq(s, a + 1, c)) = c - a
         /\ \A i \in 1 .. c - a : SubSeq(s, a + 1, c)[i] = s[a + i]
<1> DEFINE x == SubSeq(s, a + 1, c)
<1>1. \A i \in a + 1 .. c : s[i] \in S
  OBVIOUS
<1>2. a + 1 \in Int /\ c \in Int
  OBVIOUS
<1>3. /\ x \in Seq(S) /\ Len(x) = IF a + 1 <= c THEN c - (a + 1) + 1 ELSE 0
      /\ \A i \in 1 .. c - (a + 1) + 1 : x[i] = s[(a + 1) + i - 1]
  BY <1>1, <1>2, SubSeqProperties
<1>4. \A i \in 1 .. c - a : i \in 1 .. c - (a + 1) + 1 /\ (a + 1) + i - 1 = a + i
  OBVIOUS
<1>5. (IF a + 1 <= c THEN c - (a + 1) + 1 ELSE 0) = c - a
  OBVIOUS
<1> HIDE DEF x
<1>6. \A i \in 1 .. c - a : x[i] = s[a + i]
  BY <1>3, <1>4
<1> QED BY <1>3, <1>5, <1>6 DEF x

\* A part of a part.
PartAt(S, s, t, b) ==
  /\ s \in Seq(S) /\ t \in Seq(S) /\ b \in Nat /\ b + Len(t) <= Len(s)
  /\ \A i \in 1 .. Len(t) : s[b + i] = t[i]

Cut(s, a, c) == SubSeq(s, a + 1, c)

LEMMA SubSeqOfPart ==
  ASSUME NEW S, NEW s, NEW t, NEW b, PartAt(S, s, t, b),
         NEW a \in Nat, NEW c \in Nat, a <= c, c <= Len(t)
  PROVE  Cut(t, a, c) = Cut(s, b + a, b + c)
<1>0. /\ s \in Seq(S) /\ t \in Seq(S) /\ b \in Nat /\ b + Len(t) <= Len(s)
      /\ \A i \in 1 .. Len(t) : s[b + i] = t[i]
  BY DEF PartAt
<1> DEFINE x == SubSeq(t, a + 1, c)
           y == SubSeq(s, (b + a) + 1, b + c)
<1>1. x \in Seq(S) /\ Len(x) = c - a /\ \A i \in 1 .. c - a : x[i] = t[a + i]
  BY <1>0, SubSeqIs
<1>2. b + a \in Nat /\ b + c \in Nat /\ b + a <= b + c /\ b + c <= Len(s) /\ (b + c) - (b + a) = c - a
  BY <1>0
<1>3. y \in Seq(S) /\ Len(y) = (b + c) - (b + a)
      /\ \A i \in 1 .. (b + c) - (b + a) : y[i] = s[(b + a) + i]
  BY <1>0, <1>2, SubSeqIs
<1> HIDE DEF x, y
<1>4. ASSUME NEW i \in 1 .. c - a PROVE x[i] = y[i]
  <2>1. a + i \in 1 .. Len(t) /\ b + (a + i) = (b + a) + i
    BY <1>0
  <2>2. s[(b + a) + i] = t[a + i]
    BY <1>0, <2>1, Zenon
  <2> QED BY <1>1, <1>2, <1>3, <2>2
<1>5. x = y
  BY <1>1, <1>2, <1>3, <1>4, SeqEqual
<1> QED BY <1>5 DEF x, y, Cut

\* What a read of m bytes gets.
LEMMA TakeIs ==
  ASSUME NEW whole \in Seq(Pieces), NEW n \in Nat, Rest(whole, n), NEW m \in Nat, Take(m)
  PROVE  \E t \in 0 .. m :
            /\ t = Taken(m) /\ n + t <= Len(whole) /\ (t = m \/ t = arrived)
            /\ Rest(whole, n + t)' /\ Bytes(m) = SubSeq(whole, n + 1, n + t)
<1>1. n <= Len(whole) /\ wire = SubSeq(whole, n + 1, Len(whole)) /\ arrived \in 0 .. Len(whole) - n
      /\ Len(whole) \in Nat
  BY DEF Rest
<1>2. PICK t \in Nat : t = Taken(m)
  BY <1>1 DEF Taken, Smaller
<1>3. t <= m /\ t <= arrived /\ (t = m \/ t = arrived)
  BY <1>1, <1>2 DEF Taken, Smaller
<1>4. n + t <= Len(whole) /\ n + t \in 0 .. Len(whole)
  BY <1>1, <1>3
<1>5. wire \in Seq(Pieces) /\ Len(wire) = Len(whole) - n
      /\ \A i \in 1 .. Len(whole) - n : wire[i] = whole[n + i]
  BY <1>1, SubSeqIs
<1>6. SubSeq(wire, t + 1, Len(wire)) = SubSeq(whole, n + t + 1, Len(whole))
  <2>1. \A i \in 1 .. Len(wire) : whole[n + i] = wire[i]
    BY <1>5
  <2>2. Len(wire) \in Nat /\ t <= Len(wire) /\ n + Len(wire) <= Len(whole) /\ n + Len(wire) = Len(whole)
    BY <1>1, <1>3, <1>5
  <2>3. SubSeq(wire, t + 1, Len(wire)) = SubSeq(whole, n + t + 1, n + Len(wire))
    <3>1. PartAt(Pieces, whole, wire, n)
      BY <1>5, <2>1, <2>2 DEF PartAt
    <3>2. t \in Nat /\ Len(wire) \in Nat /\ t <= Len(wire) /\ Len(wire) <= Len(wire)
      BY <2>2
    <3>3. Cut(wire, t, Len(wire)) = Cut(whole, n + t, n + Len(wire))
      BY <3>1, <3>2, SubSeqOfPart
    <3> QED BY <3>3 DEF Cut
  <2> QED BY <2>2, <2>3
<1>7. SubSeq(wire, 1, t) = SubSeq(whole, n + 1, n + t)
  <2>1. \A i \in 1 .. Len(wire) : whole[n + i] = wire[i]
    BY <1>5
  <2>2. Len(wire) \in Nat /\ 0 <= t /\ t <= Len(wire) /\ n + Len(wire) <= Len(whole) /\ 0 \in Nat
    <3>1. Len(wire) = Len(whole) - n /\ Len(whole) \in Nat /\ n <= Len(whole)
      BY <1>1, <1>5
    <3>2. t <= arrived /\ arrived \in 0 .. Len(whole) - n
      BY <1>1, <1>3
    <3> QED BY <3>1, <3>2
  <2>3. SubSeq(wire, 0 + 1, t) = SubSeq(whole, n + 0 + 1, n + t)
    <3>1. PartAt(Pieces, whole, wire, n)
      BY <1>5, <2>1, <2>2 DEF PartAt
    <3>2. Cut(wire, 0, t) = Cut(whole, n + 0, n + t)
      BY <2>2, <3>1, SubSeqOfPart
    <3> QED BY <3>2 DEF Cut
  <2>4. 0 + 1 = 1 /\ n + 0 + 1 = n + 1
    OBVIOUS
  <2> QED BY <2>3, <2>4, Zenon
<1>8. wire' = SubSeq(whole, (n + t) + 1, Len(whole)) /\ arrived' \in 0 .. Len(whole) - (n + t)
  <2>1. wire' = SubSeq(wire, t + 1, Len(wire)) /\ arrived' = arrived - t
    BY <1>2 DEF Take
  <2>2. arrived - t \in 0 .. Len(whole) - (n + t)
    BY <1>1, <1>3
  <2> QED BY <1>6, <2>1, <2>2
<1>9. Rest(whole, n + t)'
  BY <1>4, <1>8 DEF Rest
<1>10. Bytes(m) = SubSeq(whole, n + 1, n + t)
  BY <1>2, <1>7 DEF Bytes
<1>11. t \in 0 .. m
  BY <1>3
<1> QED BY <1>2, <1>3, <1>4, <1>9, <1>10, <1>11

\* ... and which bytes of a packet they are, of which a have been read.
Reads(p, n, b, whole, a, m) ==
  /\ p \in Nat /\ n \in PacketSizes /\ b \in Nat /\ whole \in Seq(Pieces) /\ At(p, n, b, whole)
  /\ a \in Nat /\ m \in Nat /\ a + m <= 1 + Digits(n) + n /\ Rest(whole, b + a)

\* As far as byte c of it.
Gets(p, n, b, whole, a, m) ==
  \E c \in a .. a + m :
     /\ c - a = Taken(m) /\ (c = a + m \/ c - a = arrived)
     /\ Rest(whole, b + c)' /\ Bytes(m) = SubSeq(Wire(p, n), a + 1, c)

\* What a read gets of a packet begun is the next bytes of that packet.
LEMMA TakeFrom ==
  ASSUME NEW p, NEW n, NEW b, NEW whole, NEW a, NEW m,
         Reads(p, n, b, whole, a, m), Take(m)
  PROVE  Gets(p, n, b, whole, a, m)
<1>0. /\ p \in Nat /\ n \in PacketSizes /\ b \in Nat /\ whole \in Seq(Pieces)
      /\ At(p, n, b, whole)
      /\ a \in Nat /\ m \in Nat /\ a + m <= 1 + Digits(n) + n /\ Rest(whole, b + a)
  BY DEF Reads
<1>1. PICK t \in 0 .. m :
        /\ t = Taken(m) /\ b + a + t <= Len(whole) /\ (t = m \/ t = arrived)
        /\ Rest(whole, b + a + t)' /\ Bytes(m) = SubSeq(whole, b + a + 1, b + a + t)
  <2>1. b + a \in Nat
    BY <1>0
  <2> QED BY <1>0, <2>1, TakeIs
<1>2. /\ Wire(p, n) \in Seq(Pieces) /\ Len(Wire(p, n)) = 1 + Digits(n) + n
      /\ Digits(n) \in Nat /\ n \in Nat
  <2>1. /\ Wire(p, n) \in Seq(Pieces) /\ Len(Wire(p, n)) = 1 + Digits(n) + n
        /\ Digits(n) \in 1 .. 4 /\ n \in Nat
    BY <1>0, WireIs
  <2> QED BY <2>1
<1>3. PICK c \in a .. a + m : c - a = t /\ b + c = b + a + t /\ (c = a + m <=> t = m) /\ c \in Nat
  <2>1. /\ a + t \in a .. a + m /\ (a + t) - a = t /\ b + (a + t) = b + a + t
        /\ (a + t = a + m <=> t = m) /\ a + t \in Nat
    BY <1>0
  <2> QED BY <2>1, Zenon
<1>4. SubSeq(Wire(p, n), a + 1, c) = SubSeq(whole, b + a + 1, b + c)
  <2> DEFINE w == Wire(p, n)
  <2>1. \A i \in 1 .. Len(w) : whole[b + i] = w[i]
    BY <1>0, <1>2 DEF At
  <2>2. b + Len(w) <= Len(whole) /\ a <= c /\ c <= Len(w)
    BY <1>0, <1>2, <1>3 DEF At
  <2>3. PartAt(Pieces, whole, w, b)
    BY <1>0, <1>2, <2>1, <2>2 DEF PartAt
  <2> HIDE DEF w
  <2>4. a \in Nat /\ c \in Nat
    BY <1>0, <1>3
  <2>5. Cut(w, a, c) = Cut(whole, b + a, b + c)
    BY <2>2, <2>3, <2>4, SubSeqOfPart
  <2> QED BY <2>5 DEF w, Cut
<1>5. Rest(whole, b + c)'
  BY <1>1, <1>3
<1>6. \E e \in a .. a + m :
        /\ e - a = Taken(m) /\ (e = a + m \/ e - a = arrived)
        /\ Rest(whole, b + e)' /\ Bytes(m) = SubSeq(Wire(p, n), a + 1, e)
  BY <1>1, <1>3, <1>4, <1>5, Zenon
<1> QED BY <1>6, Zenon DEF Gets

\* Body c of packet p is what it was at a and the bytes in between.
Joins(p, n, a, c) ==
  Body(p, a) \o SubSeq(Wire(p, n), 1 + Digits(n) + a + 1, 1 + Digits(n) + c) = Body(p, c)

\* The body, and what of it is read after its first a bytes.
LEMMA BodyIs ==
  ASSUME NEW p \in Nat, NEW n \in PacketSizes, NEW a \in Nat, NEW c \in Nat,
         a <= c, c <= n
  PROVE  /\ Joins(p, n, a, c)
         /\ SubSeq(Wire(p, n), 1 + Digits(n) + 1, 1 + Digits(n) + c) = Body(p, c)
<1>1. /\ n \in Nat /\ Digits(n) \in 1 .. 4
      /\ Wire(p, n) \in Seq(Pieces) /\ Len(Wire(p, n)) = 1 + Digits(n) + n
      /\ \A i \in 1 .. n : Wire(p, n)[1 + Digits(n) + i] = [of |-> p, part |-> "body", at |-> i, v |-> 0]
  BY WireIs
<1> DEFINE w == Wire(p, n)
           d == 1 + Digits(n)
<1>2. w \in Seq(Pieces) /\ Len(w) = d + n /\ d \in Nat /\ n \in Nat
      /\ \A i \in 1 .. n : w[d + i] = [of |-> p, part |-> "body", at |-> i, v |-> 0]
  BY <1>1
<1> HIDE DEF w, d
<1>3. ASSUME NEW k \in Nat
      PROVE  Body(p, k) \in Seq(Pieces) /\ Len(Body(p, k)) = k
             /\ \A i \in 1 .. k : Body(p, k)[i] = [of |-> p, part |-> "body", at |-> i, v |-> 0]
  BY DEF Body, Pieces
<1>4. ASSUME NEW e \in Nat, e <= c
      PROVE  /\ SubSeq(w, d + e + 1, d + c) \in Seq(Pieces) /\ Len(SubSeq(w, d + e + 1, d + c)) = c - e
             /\ \A i \in 1 .. c - e : SubSeq(w, d + e + 1, d + c)[i]
                                      = [of |-> p, part |-> "body", at |-> e + i, v |-> 0]
  <2>1. d + e \in Nat /\ d + c \in Nat /\ d + e <= d + c /\ d + c <= Len(w) /\ (d + c) - (d + e) = c - e
    BY <1>2, <1>4
  <2> DEFINE x == SubSeq(w, d + e + 1, d + c)
  <2>2. x \in Seq(Pieces) /\ Len(x) = (d + c) - (d + e)
        /\ \A i \in 1 .. (d + c) - (d + e) : x[i] = w[d + e + i]
    BY <1>2, <2>1, SubSeqIs
  <2> HIDE DEF x
  <2>3. ASSUME NEW i \in 1 .. c - e PROVE x[i] = [of |-> p, part |-> "body", at |-> e + i, v |-> 0]
    <3>1. e + i \in 1 .. n /\ d + (e + i) = d + e + i
      BY <1>2, <1>4
    <3>2. x[i] = w[d + e + i]
      BY <2>1, <2>2
    <3>3. w[d + (e + i)] = [of |-> p, part |-> "body", at |-> e + i, v |-> 0]
      BY <1>2, <3>1, Zenon
    <3> QED BY <3>1, <3>2, <3>3, Zenon
  <2> QED BY <2>1, <2>2, <2>3 DEF x
<1>5. Body(p, a) \o SubSeq(w, d + a + 1, d + c) = Body(p, c)
  <2> DEFINE x == SubSeq(w, d + a + 1, d + c)
             y == Body(p, a) \o x
  <2>1. x \in Seq(Pieces) /\ Len(x) = c - a
        /\ \A i \in 1 .. c - a : x[i] = [of |-> p, part |-> "body", at |-> a + i, v |-> 0]
    BY <1>4
  <2> HIDE DEF x
  <2>0. /\ Body(p, a) \in Seq(Pieces) /\ Len(Body(p, a)) = a /\ c - a \in Nat
        /\ \A i \in 1 .. a : Body(p, a)[i] = [of |-> p, part |-> "body", at |-> i, v |-> 0]
    BY <1>3
  <2>2. y \in Seq(Pieces) /\ Len(y) = a + (c - a)
        /\ \A i \in 1 .. a + (c - a) : y[i] = IF i <= a THEN Body(p, a)[i] ELSE x[i - a]
    <3> DEFINE g == Body(p, a)
    <3>1. g \in Seq(Pieces) /\ Len(g) = a
      BY <2>0
    <3> HIDE DEF g
    <3>2. /\ g \o x \in Seq(Pieces) /\ Len(g \o x) = Len(g) + Len(x)
          /\ \A i \in 1 .. Len(g) + Len(x) : (g \o x)[i] = IF i <= Len(g) THEN g[i] ELSE x[i - Len(g)]
      BY <2>1, <3>1, ConcatProperties
    <3>3. /\ g \o x \in Seq(Pieces) /\ Len(g \o x) = a + (c - a)
          /\ \A i \in 1 .. a + (c - a) : (g \o x)[i] = IF i <= a THEN g[i] ELSE x[i - a]
      BY <2>1, <3>1, <3>2, Zenon
    <3> QED BY <3>3 DEF g
  <2>3. a + (c - a) = c
    OBVIOUS
  <2> HIDE DEF y
  <2>4. ASSUME NEW i \in 1 .. c PROVE y[i] = Body(p, c)[i]
    <3>1. Body(p, c)[i] = [of |-> p, part |-> "body", at |-> i, v |-> 0]
      BY <1>3
    <3>2. CASE i <= a
      <4>1. i \in 1 .. a
        BY <3>2
      <4>2. y[i] = Body(p, a)[i]
        BY <2>2, <2>3, <3>2
      <4> QED BY <2>0, <3>1, <4>1, <4>2, Zenon
    <3>3. CASE ~(i <= a)
      <4>1. i - a \in 1 .. c - a /\ a + (i - a) = i
        BY <3>3
      <4>2. x[i - a] = [of |-> p, part |-> "body", at |-> a + (i - a), v |-> 0]
        BY <2>1, <4>1
      <4> QED BY <2>2, <2>3, <3>1, <3>3, <4>1, <4>2
    <3> QED BY <3>2, <3>3
  <2>5. y = Body(p, c)
    BY <1>3, <2>2, <2>3, <2>4, SeqEqual
  <2> QED BY <2>5 DEF x, y
<1>6. SubSeq(w, d + 1, d + c) = Body(p, c)
  <2> DEFINE x == SubSeq(w, d + 0 + 1, d + c)
  <2>1. x \in Seq(Pieces) /\ Len(x) = c - 0
        /\ \A i \in 1 .. c - 0 : x[i] = [of |-> p, part |-> "body", at |-> 0 + i, v |-> 0]
    BY <1>4
  <2>2. c - 0 = c /\ d + 0 + 1 = d + 1 /\ \A i \in 1 .. c : 0 + i = i
    BY <1>2
  <2>3. x = SubSeq(w, d + 1, d + c)
    BY <2>2
  <2> HIDE DEF x
  <2>4. x = Body(p, c)
    BY <1>3, <2>1, <2>2, SeqEqual
  <2> QED BY <2>3, <2>4
<1> QED BY <1>5, <1>6 DEF w, d, Joins

\* The first two bytes of a packet.
LEMMA HeaderTaken ==
  ASSUME NEW p \in Nat, NEW n \in PacketSizes, NEW b \in Nat,
         NEW whole \in Seq(Pieces), At(p, n, b, whole),
         Between, Rest(whole, b), ReadHeader, ~torn'
  PROVE  Begun(p, n, b, whole)' /\ UNCHANGED <<received, sent, open>> /\ ~torn
<1>1. n \in Nat /\ Digits(n) \in 1 .. 4
  BY WireIs
<1>2. arrived # 0 /\ Take(2) /\ Taken(2) # 1 /\ ~torn
  BY DEF ReadHeader, Nothing
<1>3. PICK a \in Nat, m \in Nat : a = 0 /\ m = 2 /\ b + a = b
  <2>1. b + 0 = b /\ 0 \in Nat /\ 2 \in Nat
    OBVIOUS
  <2> QED BY <2>1, Zenon
<1>4. PICK c \in a .. a + m : c - a = Taken(m) /\ (c = a + m \/ c - a = arrived)
                              /\ Rest(whole, b + c)' /\ Bytes(m) = SubSeq(Wire(p, n), a + 1, c)
  <2>1. a + m <= 1 + Digits(n) + n
    BY <1>1, <1>3
  <2>2. Rest(whole, b + a) /\ Take(m)
    BY <1>2, <1>3, Zenon
  <2>3. Reads(p, n, b, whole, a, m)
    BY <2>1, <2>2 DEF Reads
  <2>4. Gets(p, n, b, whole, a, m)
    BY <2>2, <2>3, TakeFrom
  <2> QED BY <2>4 DEF Gets
<1>5. c = 2 /\ Taken(2) = 2 /\ a + 1 = 1
  BY <1>2, <1>3, <1>4
<1>6. header' = SubSeq(Wire(p, n), 1, 2) /\ Rest(whole, b + 2)'
  <2>1. Bytes(2) = SubSeq(Wire(p, n), 1, 2) /\ Rest(whole, b + 2)'
    BY <1>3, <1>4, <1>5, Zenon
  <2> QED BY <1>5, <2>1 DEF ReadHeader
<1>7. 2 \in 2 .. 1 + Digits(n)
  BY <1>1
<1> QED BY <1>2, <1>6, <1>7 DEF ReadHeader, Between, Begun

\* What a call leaves of a packet that it found read in part.
After(p, n, b, whole) ==
  /\ ~torn /\ sent' = sent
  /\ \/ ~open' /\ received' = received
     \/ Begun(p, n, b, whole)' /\ received' = received
     \/ Done(p, n, b, whole)

\* Reading on in the length: ReadLength, RejectHeader, AcceptHeader.
LEMMA LengthGoesOn ==
  ASSUME NEW p \in Nat, NEW n \in PacketSizes, NEW b \in Nat,
         NEW whole \in Seq(Pieces), At(p, n, b, whole),
         reading = "length", last_msg = <<>>, buffer = <<>>,
         NEW h \in 2 .. 1 + Digits(n), header = SubSeq(Wire(p, n), 1, h), Rest(whole, b + h),
         PacketRead, ~torn'
  PROVE  After(p, n, b, whole)
<1>1. /\ n \in Nat /\ Digits(n) \in 1 .. 4
      /\ Wire(p, n) \in Seq(Pieces) /\ Len(Wire(p, n)) = 1 + Digits(n) + n
  BY WireIs
<1>2. /\ Len(header) = h /\ header[1] = Type(p) /\ (WantsLength <=> h < 1 + Digits(n))
      /\ (h = 1 + Digits(n) => Size = n)
  <2>1. LET header_of == SubSeq(Wire(p, n), 1, h) IN
         /\ Len(header_of) = h /\ header_of[1] = Type(p)
         /\ (h < 5 /\ More(header_of[h].v)) <=> h < 1 + Digits(n)
         /\ h = 1 + Digits(n) =>
              DecodeLength([i \in 1 .. h - 1 |-> header_of[i + 1].v]) = n
    BY HeaderIs
  <2>2. /\ Len(header) = h /\ header[1] = Type(p)
        /\ (h < 5 /\ More(header[h].v)) <=> h < 1 + Digits(n)
        /\ h = 1 + Digits(n) => DecodeLength([i \in 1 .. h - 1 |-> header[i + 1].v]) = n
    BY <2>1, Zenon
  <2>3. WantsLength <=> h < 1 + Digits(n)
    BY <2>2, Zenon DEF WantsLength
  <2>4. h = 1 + Digits(n) => Size = n
    BY <2>2, Zenon DEF Size
  <2> QED BY <2>2, <2>3, <2>4
<1>3. ReadLength \/ RejectHeader \/ AcceptHeader
  BY DEF PacketRead, ReadHeader, ReadHeaderFails, ReadBody, ReadRest
<1>4. CASE ReadLength
  <2>1. h < 1 + Digits(n) /\ ~torn /\ sent' = sent
    BY <1>2, <1>4 DEF ReadLength, ShutDown
  <2>2. CASE Nothing
    BY <1>4, <2>1, <2>2 DEF ReadLength, ShutDown, After
  <2>3. CASE ~Nothing
    <3>1. /\ Take(1) /\ header' = header \o Bytes(1) /\ arrived # 0
          /\ UNCHANGED <<torn, open, reading, sent, eof, received, buffer, last_msg>>
      BY <1>4, <2>3 DEF ReadLength, Nothing
    <3>2. PICK m \in Nat : m = 1
      OBVIOUS
    <3>3. Reads(p, n, b, whole, h, m)
      <4>1. h \in Nat /\ h + m <= 1 + Digits(n) + n
        BY <1>1, <2>1, <3>2
      <4> QED BY <4>1 DEF Reads
    <3>4. Gets(p, n, b, whole, h, m)
      <4>1. Take(m)
        BY <3>1, <3>2, Zenon
      <4> QED BY <3>3, <4>1, TakeFrom
    <3>5. PICK c \in h .. h + m :
             /\ c - h = Taken(m) /\ (c = h + m \/ c - h = arrived)
             /\ Rest(whole, b + c)' /\ Bytes(m) = SubSeq(Wire(p, n), h + 1, c)
      BY <3>4 DEF Gets
    <3>6. c = h + 1 /\ c \in 2 .. 1 + Digits(n)
      <4>1. h \in 2 .. 1 + Digits(n) /\ Digits(n) \in Nat
        BY <1>1
      <4>2. c \in h .. h + 1 /\ (c = h + 1 \/ c - h = arrived) /\ arrived # 0
        BY <3>1, <3>2, <3>5
      <4>3. c = h + 1
        BY <4>1, <4>2
      <4> QED BY <2>1, <4>1, <4>3
    <3>7. SubSeq(Wire(p, n), 1, h) \o SubSeq(Wire(p, n), h + 1, c) = SubSeq(Wire(p, n), 1, c)
      <4>1. 1 \in 1 .. Len(Wire(p, n)) + 1 /\ h \in 1 - 1 .. Len(Wire(p, n)) /\ c \in h .. Len(Wire(p, n))
        <5>1. h \in 2 .. 1 + Digits(n) /\ Digits(n) \in Nat /\ n \in Nat
              /\ Len(Wire(p, n)) = 1 + Digits(n) + n
          BY <1>1
        <5> QED BY <2>1, <3>6, <5>1
      <4> QED BY <1>1, <4>1, ConcatAdjacentSubSeq
    <3>8. header' = SubSeq(Wire(p, n), 1, c)
      BY <3>1, <3>2, <3>5, <3>7, Zenon
    <3>9. Begun(p, n, b, whole)'
      BY <3>1, <3>5, <3>6, <3>8 DEF Begun
    <3> QED BY <2>1, <3>1, <3>9 DEF After
  <2> QED BY <2>2, <2>3
<1>5. CASE RejectHeader
  BY <1>5 DEF RejectHeader, ShutDown, After
<1>6. CASE AcceptHeader
  <2>1. h = 1 + Digits(n) /\ Size = n
    BY <1>1, <1>2, <1>6 DEF AcceptHeader
  <2>2. UNCHANGED <<sent, wire, arrived, eof, buffer, last_msg, no_data_opers, open, torn>>
    BY <1>6 DEF AcceptHeader
  <2>3. Rest(whole, b + h)'
    BY <2>2 DEF Rest
  <2>4. CASE n = 0
    <3>1. received' = Append(received, Packet(Type(p), <<>>)) /\ reading' = "no" /\ header' = <<>>
      BY <1>2, <1>6, <2>1, <2>4 DEF AcceptHeader
    <3>2. Body(p, n) = <<>>
      BY <2>4 DEF Body
    <3>3. b + (1 + Digits(n) + n) = b + h
      BY <1>1, <2>1, <2>4
    <3>4. Rest(whole, b + (1 + Digits(n) + n))'
      BY <2>3, <3>3, Zenon
    <3>5. Done(p, n, b, whole)
      BY <2>2, <3>1, <3>2, <3>4 DEF Done, Between
    <3> QED BY <2>2, <3>5 DEF After
  <2>5. CASE n # 0
    <3>1. reading' = "body" /\ UNCHANGED <<received, header>>
      BY <1>6, <2>1, <2>5 DEF AcceptHeader
    <3>2. header' = SubSeq(Wire(p, n), 1, 1 + Digits(n)) /\ Rest(whole, b + (1 + Digits(n)))'
      BY <2>1, <2>3, <3>1
    <3>3. Begun(p, n, b, whole)'
      BY <2>2, <2>5, <3>1, <3>2 DEF Begun
    <3> QED BY <2>2, <3>1, <3>3 DEF After
  <2> QED BY <2>4, <2>5
<1> QED BY <1>3, <1>4, <1>5, <1>6

\* Places in a packet with d bytes of length and n of body, of which a were read.
LEMMA Places ==
  ASSUME NEW n \in Nat, NEW d \in Nat, NEW a \in 0 .. n
  PROVE  /\ n - a \in Nat /\ 1 + d + a \in Nat /\ (1 + d + a) + (n - a) = 1 + d + n
         /\ \A c \in 1 + d + a .. (1 + d + a) + (n - a) :
              /\ c - (1 + d) \in a .. n /\ (c - (1 + d)) - a = c - (1 + d + a)
              /\ c = 1 + d + (c - (1 + d))
         /\ \A e \in a .. n : e # n => e - a # n - a /\ (n - a) - (e - a) = n - e
                                     /\ (a >= 1 => e \in 1 .. n - 1)
  OBVIOUS

\* The first read of a body: ReadBody.
LEMMA BodyGoesOn ==
  ASSUME NEW p \in Nat, NEW n \in PacketSizes, NEW b \in Nat,
         NEW whole \in Seq(Pieces), At(p, n, b, whole),
         reading = "body", last_msg = <<>>, buffer = <<>>, n # 0,
         header = SubSeq(Wire(p, n), 1, 1 + Digits(n)), Rest(whole, b + (1 + Digits(n))),
         PacketRead, ~torn'
  PROVE  After(p, n, b, whole)
<1>1. n \in Nat /\ Digits(n) \in 1 .. 4
  BY WireIs
<1>2. PICK h \in 2 .. 1 + Digits(n) : h = 1 + Digits(n)
  BY <1>1
<1>3. header[1] = Type(p) /\ Size = n
  <2>1. LET header_of == SubSeq(Wire(p, n), 1, h) IN
         /\ Len(header_of) = h /\ header_of[1] = Type(p)
         /\ (h < 5 /\ More(header_of[h].v)) <=> h < 1 + Digits(n)
         /\ h = 1 + Digits(n) =>
              DecodeLength([i \in 1 .. h - 1 |-> header_of[i + 1].v]) = n
    BY HeaderIs
  <2>2. /\ Len(header) = h /\ header[1] = Type(p)
        /\ DecodeLength([i \in 1 .. h - 1 |-> header[i + 1].v]) = n
    BY <1>2, <2>1, Zenon
  <2> QED BY <2>2, Zenon DEF Size
<1>4. ReadBody
  BY DEF PacketRead, ReadHeader, ReadHeaderFails, ReadLength, RejectHeader, AcceptHeader, ReadRest
<1>5. CASE Nothing /\ eof
  BY <1>4, <1>5 DEF ReadBody, ShutDown, After
<1>6. CASE ~(Nothing /\ eof)
  <2>1. /\ reading' = "no" /\ header' = <<>> /\ Take(n) /\ ~torn /\ arrived # 0
        /\ UNCHANGED <<sent, eof, open>>
    BY <1>3, <1>4, <1>6 DEF ReadBody, Nothing
  <2>2. Reads(p, n, b, whole, h, n)
    <3>1. h \in Nat /\ h + n <= 1 + Digits(n) + n /\ Rest(whole, b + h)
      BY <1>1, <1>2
    <3> QED BY <1>1, <3>1 DEF Reads
  <2>3. Gets(p, n, b, whole, h, n)
    BY <2>1, <2>2, TakeFrom
  <2>4. PICK c \in h .. h + n :
           /\ c - h = Taken(n) /\ (c = h + n \/ c - h = arrived)
           /\ Rest(whole, b + c)' /\ Bytes(n) = SubSeq(Wire(p, n), h + 1, c)
    BY <2>3 DEF Gets
  <2>5. PICK e \in 0 .. n : e = Taken(n) /\ c = 1 + Digits(n) + e
    <3>1. c - h \in 0 .. n /\ c = 1 + Digits(n) + (c - h)
      <4>1. n \in Nat /\ h \in Nat /\ c \in h .. h + n
        BY <1>1
      <4>2. \A x, y \in Nat, z \in Int : z \in x .. x + y => z - x \in 0 .. y /\ z = x + (z - x)
        OBVIOUS
      <4> QED BY <1>2, <4>1, <4>2
    <3> QED BY <2>4, <3>1, Zenon
  <2>6. Bytes(n) = Body(p, e)
    <3>1. SubSeq(Wire(p, n), 1 + Digits(n) + 1, 1 + Digits(n) + e) = Body(p, e)
      <4>1. e \in Nat /\ 0 \in Nat /\ 0 <= e /\ e <= n
        BY <1>1
      <4> QED BY <4>1, BodyIs
    <3> QED BY <1>2, <2>4, <2>5, <3>1, Zenon
  <2>7. Rest(whole, b + (1 + Digits(n) + e))'
    BY <2>4, <2>5, Zenon
  <2>8. CASE e = n
    <3>1. received' = Append(received, Packet(Type(p), Body(p, n))) /\ UNCHANGED <<buffer, last_msg>>
      BY <1>3, <1>4, <1>6, <2>5, <2>6, <2>8 DEF ReadBody
    <3>2. Done(p, n, b, whole)
      BY <2>1, <2>7, <2>8, <3>1 DEF Done, Between
    <3> QED BY <2>1, <3>2 DEF After
  <2>9. CASE e # n
    <3>1. /\ last_msg' = <<[type |-> Type(p), remaining |-> n - e]>>
          /\ buffer' = Body(p, e) /\ UNCHANGED received
      BY <1>3, <1>4, <1>6, <2>1, <2>5, <2>6, <2>9 DEF ReadBody, Nothing
    <3>2. e \in 1 .. n - 1
      <4>1. c - h = arrived /\ c - h = e
        BY <1>1, <1>2, <2>4, <2>5, <2>9
      <4> QED BY <1>1, <2>1, <2>9, <4>1
    <3>3. Begun(p, n, b, whole)'
      BY <2>1, <2>7, <3>1, <3>2 DEF Begun
    <3> QED BY <2>1, <3>1, <3>3 DEF After
  <2> QED BY <2>8, <2>9
<1> QED BY <1>5, <1>6

\* Reading the rest of a body that was kept as last_msg: ReadRest.
LEMMA RestGoesOn ==
  ASSUME NEW p \in Nat, NEW n \in PacketSizes, NEW b \in Nat,
         NEW whole \in Seq(Pieces), At(p, n, b, whole),
         reading = "no", header = <<>>, NEW a \in 1 .. n - 1,
         last_msg = <<[type |-> Type(p), remaining |-> n - a]>>,
         buffer = Body(p, a), Rest(whole, b + (1 + Digits(n) + a)),
         PacketRead, ~torn'
  PROVE  After(p, n, b, whole)
<1>1. n \in Nat /\ Digits(n) \in 1 .. 4
  BY WireIs
<1>2. PICK left \in Nat, h \in Nat : left = n - a /\ h = 1 + Digits(n) + a /\ h + left = 1 + Digits(n) + n
  <2>1. n - a \in Nat /\ 1 + Digits(n) + a \in Nat
        /\ (1 + Digits(n) + a) + (n - a) = 1 + Digits(n) + n
    <3>1. PICK d \in Nat : d = Digits(n)
      BY <1>1
    <3>2. a \in 0 .. n
      BY <1>1
    <3>3. n - a \in Nat /\ 1 + d + a \in Nat /\ (1 + d + a) + (n - a) = 1 + d + n
      BY <1>1, <3>2, Places
    <3> QED BY <3>1, <3>3, Zenon
  <2> QED BY <2>1, Zenon
<1>3. last_msg # <<>> /\ last_msg[1].type = Type(p) /\ last_msg[1].remaining = left
  BY <1>2
<1>4. ReadRest
  BY <1>3 DEF PacketRead, ReadHeader, ReadHeaderFails, ReadLength, RejectHeader, AcceptHeader, ReadBody
<1>5. CASE Nothing
  <2>1. CASE eof
    BY <1>4, <1>5, <2>1 DEF ReadRest, ShutDown, After
  <2>2. CASE ~eof
    <3>1. NoData /\ UNCHANGED <<buffer, last_msg, torn>>
      BY <1>4, <1>5, <2>2 DEF ReadRest
    <3>2. UNCHANGED <<sent, received, wire, arrived>> /\ (~open' \/ UNCHANGED <<reading, header>>)
      BY <3>1 DEF NoData, ShutDown
    <3>3. CASE ~open'
      BY <3>1, <3>2, <3>3 DEF After
    <3>4. CASE UNCHANGED <<reading, header>>
      <4>1. Rest(whole, b + (1 + Digits(n) + a))'
        BY <3>2 DEF Rest
      <4>2. Begun(p, n, b, whole)'
        BY <3>1, <3>4, <4>1 DEF Begun
      <4> QED BY <3>1, <3>2, <4>2 DEF After
    <3> QED BY <3>2, <3>3, <3>4
  <2> QED BY <2>1, <2>2
<1>6. CASE ~Nothing
  <2>1. /\ Take(left) /\ arrived # 0
        /\ UNCHANGED <<sent, eof, reading, header, no_data_opers, open, torn>>
        /\ IF Taken(left) = left
           THEN /\ received' = Append(received, Packet(last_msg[1].type, buffer \o Bytes(left)))
                /\ buffer' = <<>> /\ last_msg' = <<>>
           ELSE /\ buffer' = buffer \o Bytes(left)
                /\ last_msg' = <<[last_msg[1] EXCEPT !.remaining = StillMissing(left)]>>
                /\ UNCHANGED received
    BY <1>3, <1>4, <1>6 DEF ReadRest, Nothing
  <2>2. Reads(p, n, b, whole, h, left)
    <3>1. h + left <= 1 + Digits(n) + n /\ Rest(whole, b + h)
      BY <1>1, <1>2
    <3> QED BY <1>1, <3>1 DEF Reads
  <2>3. Gets(p, n, b, whole, h, left)
    BY <2>1, <2>2, TakeFrom
  <2>4. PICK c \in h .. h + left :
           /\ c - h = Taken(left) /\ (c = h + left \/ c - h = arrived)
           /\ Rest(whole, b + c)' /\ Bytes(left) = SubSeq(Wire(p, n), h + 1, c)
    BY <2>3 DEF Gets
  <2>5. PICK e \in a .. n : e - a = Taken(left) /\ c = 1 + Digits(n) + e
    <3>1. c - (1 + Digits(n)) \in a .. n /\ (c - (1 + Digits(n))) - a = c - h
          /\ c = 1 + Digits(n) + (c - (1 + Digits(n)))
      <4>1. PICK d \in Nat : d = Digits(n)
        BY <1>1
      <4>2. a \in 0 .. n
        BY <1>1
      <4>3. c \in 1 + d + a .. (1 + d + a) + (n - a) /\ h = 1 + d + a
        BY <1>2, <4>1, Zenon
      <4>4. c - (1 + d) \in a .. n /\ (c - (1 + d)) - a = c - (1 + d + a) /\ c = 1 + d + (c - (1 + d))
        BY <1>1, <4>2, <4>3, Places
      <4> QED BY <4>1, <4>3, <4>4, Zenon
    <3> QED BY <2>4, <3>1, Zenon
  <2>6. buffer \o Bytes(left) = Body(p, e)
    <3>1. Body(p, a) \o SubSeq(Wire(p, n), 1 + Digits(n) + a + 1, 1 + Digits(n) + e) = Body(p, e)
      <4>1. e \in Nat /\ a \in Nat /\ a <= e /\ e <= n
        BY <1>1
      <4>2. Joins(p, n, a, e)
        BY <4>1, BodyIs
      <4> QED BY <4>2 DEF Joins
    <3> QED BY <1>2, <2>4, <2>5, <3>1, Zenon
  <2>7. Rest(whole, b + (1 + Digits(n) + e))'
    BY <2>4, <2>5, Zenon
  <2>8. CASE e = n
    <3>1. Taken(left) = left
      BY <1>2, <2>5, <2>8
    <3>2. received' = Append(received, Packet(Type(p), Body(p, n))) /\ buffer' = <<>> /\ last_msg' = <<>>
      BY <1>3, <2>1, <2>6, <2>8, <3>1, Zenon
    <3>3. Done(p, n, b, whole)
      BY <2>1, <2>7, <2>8, <3>2 DEF Done, Between
    <3> QED BY <2>1, <3>3 DEF After
  <2>9. CASE e # n
    <3>1. Taken(left) # left /\ left - Taken(left) = n - e /\ e \in 1 .. n - 1
      <4>1. 0 \in Nat /\ a \in 0 .. n /\ a >= 1
        BY <1>1
      <4>2. e - a # n - a /\ (n - a) - (e - a) = n - e /\ e \in 1 .. n - 1
        BY <1>1, <2>9, <4>1, Places
      <4> QED BY <1>2, <2>5, <4>2, Zenon
    <3>2. [last_msg[1] EXCEPT !.remaining = StillMissing(left)]
          = [type |-> Type(p), remaining |-> n - e]
      BY <1>2, <3>1 DEF StillMissing
    <3>3. /\ last_msg' = <<[type |-> Type(p), remaining |-> n - e]>>
          /\ buffer' = Body(p, e) /\ UNCHANGED received
      BY <2>1, <2>6, <3>1, <3>2, Zenon
    <3>4. Begun(p, n, b, whole)'
      BY <2>1, <2>7, <3>1, <3>3 DEF Begun
    <3> QED BY <2>1, <3>3, <3>4 DEF After
  <2> QED BY <2>8, <2>9
<1> QED BY <1>5, <1>6

\* The packets sent, their bytes and where each begins.
Sends(s, whole, start) ==
  /\ s \in Seq(PacketSizes) /\ whole \in Seq(Pieces) /\ Laid(whole, start, Parts(s))

\* So many packets have been returned, and of the next one there is what has been read.
ReadSoFar(s, whole, start) ==
  \E k \in 0 .. Len(s) :
     /\ received = Got(s, k)
     /\ open => \/ Between /\ Rest(whole, start[k + 1])
                \/ k < Len(s) /\ Begun(k + 1, s[k + 1], start[k + 1], whole)

\* The inductive invariant: what was sent, and what has been read of it as long as
\* nothing was torn.
PacketsInv ==
  \E s, whole, start : /\ Sends(s, whole, start) /\ sent = s
                       /\ (~torn => ReadSoFar(s, whole, start))

\* Each packet has its size and its place.
LEMMA PacketIsAt ==
  ASSUME NEW s, NEW whole, NEW start, Sends(s, whole, start), NEW p \in 1 .. Len(s)
  PROVE  /\ s[p] \in PacketSizes /\ start[p] \in Nat /\ p \in Nat
         /\ At(p, s[p], start[p], whole)
         /\ start[p + 1] = start[p] + (1 + Digits(s[p]) + s[p])
<1>1. s \in Seq(PacketSizes) /\ whole \in Seq(Pieces) /\ Laid(whole, start, Parts(s))
  BY DEF Sends
<1>2. Len(Parts(s)) = Len(s) /\ Parts(s)[p] = Wire(p, s[p]) /\ Len(s) \in Nat
  BY <1>1 DEF Parts
<1>3. s[p] \in PacketSizes /\ p \in Nat
  BY <1>1
<1>4. Len(Wire(p, s[p])) = 1 + Digits(s[p]) + s[p]
  BY <1>3, WireIs
<1>5. /\ start[p] \in Nat
      /\ start[p + 1] = start[p] + Len(Wire(p, s[p])) /\ start[p + 1] <= Len(whole)
      /\ \A i \in 1 .. Len(Wire(p, s[p])) : whole[start[p] + i] = Wire(p, s[p])[i]
  <2>1. /\ start \in [1 .. Len(s) + 1 -> Nat]
        /\ start[p + 1] = start[p] + Len(Parts(s)[p]) /\ start[p + 1] <= Len(whole)
        /\ \A i \in 1 .. Len(Parts(s)[p]) : whole[start[p] + i] = Parts(s)[p][i]
    BY <1>1, <1>2 DEF Laid
  <2>2. start[p] \in Nat
    BY <1>2, <2>1
  <2> QED BY <1>2, <2>1, <2>2, Zenon
<1>6. start[p + 1] = start[p] + (1 + Digits(s[p]) + s[p])
  BY <1>4, <1>5, Zenon
<1>7. At(p, s[p], start[p], whole)
  <2>1. start[p] + (1 + Digits(s[p]) + s[p]) <= Len(whole)
    BY <1>5, <1>6, Zenon
  <2>2. \A i \in 1 .. 1 + Digits(s[p]) + s[p] : whole[start[p] + i] = Wire(p, s[p])[i]
    BY <1>4, <1>5, Zenon
  <2> QED BY <2>1, <2>2 DEF At
<1> QED BY <1>3, <1>5, <1>6, <1>7

\* Returning the next packet.
LEMMA OneMore ==
  ASSUME NEW s, NEW k \in Nat
  PROVE  Append(Got(s, k), Packet(Type(k + 1), Body(k + 1, s[k + 1]))) = Got(s, k + 1)
BY DEF Got

\* What is on the wire at first.
LEMMA WireInitially ==
  ASSUME PacketInit
  PROVE  /\ sent \in Seq(PacketSizes) /\ Len(sent) # 0 /\ Len(sent) \in Nat
         /\ Parts(sent) \in Seq(Seq(Pieces)) /\ Len(Parts(sent)) = Len(sent)
         /\ wire = FlattenSeq(Parts(sent)) /\ wire \in Seq(Pieces)
         /\ \E start : Laid(wire, start, Parts(sent))
<1>1. PICK l \in 1 .. MaxPackets : sent \in [1 .. l -> PacketSizes]
  BY DEF PacketInit
<1>2. sent \in Seq(PacketSizes) /\ Len(sent) # 0 /\ Len(sent) \in Nat
  <2>1. MaxPackets \in Nat
    BY Zenon, PacketAssumption
  <2>2. l \in Nat /\ l # 0
    BY <2>1
  <2> QED BY <1>1, <2>2
<1> DEFINE t == Parts(sent)
<1>3. t \in Seq(Seq(Pieces)) /\ Len(t) = Len(sent)
  <2>1. \A p \in 1 .. Len(sent) : Wire(p, sent[p]) \in Seq(Pieces)
    <3>1. ASSUME NEW p \in 1 .. Len(sent) PROVE Wire(p, sent[p]) \in Seq(Pieces)
      <4>1. p \in Nat /\ sent[p] \in PacketSizes
        BY <1>2
      <4> QED BY <4>1, WireIs
    <3> QED BY <3>1
  <2> QED BY <1>2, <2>1 DEF Parts
<1> HIDE DEF t
<1>4. FlattenSeq(t) \in Seq(Pieces) /\ \E start : Laid(FlattenSeq(t), start, t)
  BY <1>2, <1>3, FlatIsLaid
<1>5. wire = FlattenSeq(t)
  BY DEF PacketInit, t, Parts
<1> QED BY <1>2, <1>3, <1>4, <1>5 DEF t

\* At first nothing has been read.
LEMMA PacketsInitially ==
  ASSUME PacketInit PROVE PacketsInv
<1> DEFINE t == Parts(sent)
<1>2. sent \in Seq(PacketSizes) /\ Len(sent) # 0 /\ Len(sent) \in Nat
  BY WireInitially
<1>5. PICK whole \in Seq(Pieces) : wire = whole /\ \E start : Laid(whole, start, t)
  BY WireInitially
<1> HIDE DEF t
<1>6. PICK start : Laid(whole, start, t)
  BY <1>5
<1>7. Sends(sent, whole, start)
  BY <1>2, <1>6 DEF Sends, t
<1>8. Rest(whole, start[0 + 1])
  <2>1. start[0 + 1] = 0
    BY <1>6 DEF Laid
  <2>2. wire = SubSeq(whole, 0 + 1, Len(whole)) /\ Len(whole) \in Nat
    BY <1>5, SubSeqFull
  <2>3. arrived \in 0 .. Len(whole) - 0 /\ 0 \in 0 .. Len(whole)
    BY <2>2 DEF PacketInit
  <2> QED BY <2>1, <2>2, <2>3 DEF Rest
<1>9. received = Got(sent, 0) /\ Between
  BY DEF PacketInit, Got, Between
<1>10. ReadSoFar(sent, whole, start)
  BY <1>2, <1>8, <1>9 DEF ReadSoFar
<1> QED BY <1>7, <1>10 DEF PacketsInv

\* A step that reads nothing.
LEMMA ReadStill ==
  ASSUME NEW s, NEW whole, NEW start, whole \in Seq(Pieces), ReadSoFar(s, whole, start),
         UNCHANGED <<sent, wire, reading, header, buffer, last_msg, received, open, torn>>,
         arrived' = arrived \/ arrived' \in arrived + 1 .. Len(wire)
  PROVE  ReadSoFar(s, whole, start)'
<1>1. ASSUME NEW n, Rest(whole, n) PROVE Rest(whole, n)'
  <2>1. n \in 0 .. Len(whole) /\ wire = SubSeq(whole, n + 1, Len(whole)) /\ n \in Nat
        /\ Len(whole) \in Nat
    BY <1>1 DEF Rest
  <2>2. wire \in Seq(Pieces) /\ Len(wire) = Len(whole) - n
    BY <2>1, SubSeqIs
  <2>3. arrived \in 0 .. Len(whole) - n
    BY <1>1 DEF Rest
  <2>4. arrived' \in 0 .. Len(whole) - n
    BY <2>1, <2>2, <2>3
  <2> QED BY <2>1, <2>4 DEF Rest
<1>2. PICK k \in 0 .. Len(s) :
         /\ received = Got(s, k)
         /\ open => \/ Between /\ Rest(whole, start[k + 1])
                    \/ k < Len(s) /\ Begun(k + 1, s[k + 1], start[k + 1], whole)
  BY DEF ReadSoFar
<1>3. CASE ~open
  BY <1>2, <1>3 DEF ReadSoFar
<1>4. CASE Between /\ Rest(whole, start[k + 1])
  <2>1. Between' /\ Rest(whole, start[k + 1])'
    BY <1>1, <1>4 DEF Between
  <2> QED BY <1>2, <2>1 DEF ReadSoFar
<1>5. CASE k < Len(s) /\ Begun(k + 1, s[k + 1], start[k + 1], whole)
  <2> DEFINE p == k + 1
             n == s[p]
             b == start[p]
  <2> HIDE DEF p, n, b
  <2>1. Begun(p, n, b, whole)
    BY <1>5 DEF p, n, b
  <2>2. Begun(p, n, b, whole)'
    BY <1>1, <2>1 DEF Begun
  <2>3. Begun(k + 1, s[k + 1], start[k + 1], whole)'
    BY <2>2 DEF p, n, b
  <2> QED BY <1>2, <1>5, <2>3 DEF ReadSoFar
<1> QED BY <1>2, <1>3, <1>4, <1>5

\* A step that reads.
LEMMA ReadStep ==
  ASSUME NEW s, NEW whole, NEW start, Sends(s, whole, start),
         ~torn => ReadSoFar(s, whole, start), PacketRead, ~torn'
  PROVE  ReadSoFar(s, whole, start)'
<1>0. s \in Seq(PacketSizes) /\ whole \in Seq(Pieces) /\ Laid(whole, start, Parts(s))
      /\ Len(s) \in Nat
  BY DEF Sends
<1>1. ~torn /\ open
  BY DEF PacketRead, ReadHeader, ReadHeaderFails, ReadLength, RejectHeader, AcceptHeader,
         ReadBody, ReadRest, NoData, ShutDown
<1>2. PICK k \in 0 .. Len(s) :
         /\ received = Got(s, k)
         /\ \/ Between /\ Rest(whole, start[k + 1])
            \/ k < Len(s) /\ Begun(k + 1, s[k + 1], start[k + 1], whole)
  BY <1>1 DEF ReadSoFar
<1>3. ASSUME k < Len(s), After(k + 1, s[k + 1], start[k + 1], whole) PROVE ReadSoFar(s, whole, start)'
  <2>1. k \in 0 .. Len(s) /\ k + 1 \in 0 .. Len(s) /\ k + 1 \in 1 .. Len(s)
    BY <1>0, <1>3
  <2>2. CASE ~open' /\ received' = received
    BY <1>2, <2>2 DEF ReadSoFar
  <2>3. CASE Begun(k + 1, s[k + 1], start[k + 1], whole)' /\ received' = received
    BY <1>2, <1>3, <2>3 DEF ReadSoFar
  <2>4. CASE Done(k + 1, s[k + 1], start[k + 1], whole)
    <3>1. start[k + 1 + 1] = start[k + 1] + (1 + Digits(s[k + 1]) + s[k + 1])
      BY <2>1, PacketIsAt
    <3>2. Between' /\ Rest(whole, start[k + 1 + 1])'
      BY <2>4, <3>1 DEF Done
    <3>3. received' = Got(s, k + 1)
      <4>1. received' = Append(Got(s, k), Packet(Type(k + 1), Body(k + 1, s[k + 1])))
        BY <1>2, <2>4 DEF Done
      <4> QED BY <4>1, OneMore
    <3> QED BY <2>1, <3>2, <3>3 DEF ReadSoFar
  <2> QED BY <1>3, <2>2, <2>3, <2>4 DEF After
<1>4. CASE k < Len(s) /\ Begun(k + 1, s[k + 1], start[k + 1], whole)
  <2>1. k + 1 \in 1 .. Len(s)
    BY <1>0, <1>4
  <2>2. PICK p \in Nat, n \in PacketSizes, b \in Nat :
          p = k + 1 /\ n = s[k + 1] /\ b = start[k + 1] /\ At(p, n, b, whole)
    BY <2>1, PacketIsAt
  <2>3. Begun(p, n, b, whole)
    BY <1>4, <2>2, Zenon
  <2>4. After(p, n, b, whole)
    <3>1. CASE /\ reading = "length" /\ last_msg = <<>> /\ buffer = <<>>
               /\ \E h \in 2 .. 1 + Digits(n) : header = SubSeq(Wire(p, n), 1, h) /\ Rest(whole, b + h)
      BY <1>0, <2>2, <3>1, LengthGoesOn
    <3>2. CASE /\ reading = "body" /\ last_msg = <<>> /\ buffer = <<>> /\ n # 0
               /\ header = SubSeq(Wire(p, n), 1, 1 + Digits(n)) /\ Rest(whole, b + (1 + Digits(n)))
      BY <1>0, <2>2, <3>2, BodyGoesOn
    <3>3. CASE /\ reading = "no" /\ header = <<>>
               /\ \E c \in 1 .. n - 1 : /\ last_msg = <<[type |-> Type(p), remaining |-> n - c]>>
                                        /\ buffer = Body(p, c) /\ Rest(whole, b + (1 + Digits(n) + c))
      BY <1>0, <2>2, <3>3, RestGoesOn
    <3> QED BY <2>3, <3>1, <3>2, <3>3 DEF Begun
  <2>5. After(k + 1, s[k + 1], start[k + 1], whole)
    BY <2>2, <2>4, Zenon
  <2> QED BY <1>3, <1>4, <2>5
<1>5. CASE Between /\ Rest(whole, start[k + 1])
  <2>1. ReadHeader \/ ReadHeaderFails
    BY <1>5 DEF Between, PacketRead, ReadLength, RejectHeader, AcceptHeader, ReadBody, ReadRest
  <2>2. CASE ReadHeaderFails
    <3>1. received' = received
      BY <2>2 DEF ReadHeaderFails, ShutDown, NoData
    <3>2. ~open' \/ UNCHANGED <<wire, arrived, reading, header, buffer, last_msg>>
      BY <2>2 DEF ReadHeaderFails, ShutDown, NoData
    <3>3. ~open' \/ (Between' /\ Rest(whole, start[k + 1])')
      BY <1>5, <3>2 DEF Between, Rest
    <3> QED BY <1>2, <3>1, <3>3 DEF ReadSoFar
  <2>3. CASE ReadHeader
    <3>1. k < Len(s)
      <4>1. ASSUME k = Len(s) PROVE FALSE
        <5>1. start[k + 1] = Len(whole) /\ Len(whole) \in Nat
          <6>1. Len(Parts(s)) = Len(s)
            BY <1>0 DEF Parts
          <6> QED BY <1>0, <4>1, <6>1 DEF Laid
        <5>2. arrived = 0
          BY <1>5, <5>1 DEF Rest
        <5> QED BY <2>3, <5>2 DEF ReadHeader, Nothing
      <4> QED BY <1>0, <4>1
    <3>2. k + 1 \in 1 .. Len(s)
      BY <1>0, <3>1
    <3>3. PICK p \in Nat, n \in PacketSizes, b \in Nat :
            p = k + 1 /\ n = s[k + 1] /\ b = start[k + 1] /\ At(p, n, b, whole)
      BY <3>2, PacketIsAt
    <3>4. Begun(p, n, b, whole)' /\ UNCHANGED <<received, sent, open>> /\ ~torn
      BY <1>0, <1>5, <2>3, <3>3, HeaderTaken
    <3>5. After(p, n, b, whole)
      BY <3>4 DEF After
    <3>6. After(k + 1, s[k + 1], start[k + 1], whole)
      BY <3>3, <3>5, Zenon
    <3> QED BY <1>3, <3>1, <3>6
  <2> QED BY <2>1, <2>2, <2>3
<1> QED BY <1>2, <1>4, <1>5

\* A read by ReadStep, anything else by ReadStill.
LEMMA PacketsStep ==
  ASSUME PacketsInv, [PacketNext]_packetVars PROVE PacketsInv'
<1>1. PICK s, whole, start : Sends(s, whole, start) /\ sent = s
                             /\ (~torn => ReadSoFar(s, whole, start))
  BY DEF PacketsInv
<1>2. sent' = s
  BY <1>1 DEF PacketNext, packetVars, Arrive, PeerCloses, PacketRead, ReadHeader, ReadHeaderFails,
              ReadLength, RejectHeader, AcceptHeader, ReadBody, ReadRest, NoData, ShutDown
<1>3. ASSUME ~torn' PROVE ReadSoFar(s, whole, start)'
  <2>1. CASE PacketRead
    BY <1>1, <1>3, <2>1, ReadStep
  <2>2. CASE Arrive \/ PeerCloses \/ UNCHANGED packetVars
    <3>1. UNCHANGED <<sent, wire, reading, header, buffer, last_msg, received, open, torn>>
      BY <2>2 DEF Arrive, PeerCloses, packetVars
    <3>2. arrived' = arrived \/ arrived' \in arrived + 1 .. Len(wire)
      BY <2>2 DEF Arrive, PeerCloses, packetVars
    <3>3. ReadSoFar(s, whole, start)
      BY <1>1, <1>3, <3>1
    <3>4. whole \in Seq(Pieces)
      BY <1>1 DEF Sends
    <3> QED BY <3>1, <3>2, <3>3, <3>4, ReadStill
  <2> QED BY <2>1, <2>2 DEF PacketNext
<1> QED BY <1>1, <1>2, <1>3 DEF PacketsInv

\* However the bytes of the packets arrive, and for any packets MQTT allows, what
\* myqtt_msg_get_next returns is what was sent, whole and in order, as long as two bytes of
\* each header, the length bytes that follow and the first byte of each body had arrived when
\* they were read.
THEOREM PacketsReadWholeCorrect == PacketSpec => []PacketsReadWhole
<1>1. PacketInit => PacketsInv
  BY PacketsInitially
<1>2. PacketsInv /\ [PacketNext]_packetVars => PacketsInv'
  BY PacketsStep
<1>3. PacketsInv => PacketsReadWhole
  <2> SUFFICES ASSUME PacketsInv, ~torn PROVE IsPrefix(received, Expected)
    BY DEF PacketsReadWhole
  <2>1. PICK k \in 0 .. Len(sent) : received = Got(sent, k) /\ sent \in Seq(PacketSizes)
    BY DEF PacketsInv, ReadSoFar, Sends
  <2>2. Len(sent) \in Nat /\ Len(received) = k /\ Len(Expected) = Len(sent)
    BY <2>1 DEF Got, Expected
  <2>3. SubSeq(received, 1, k) = SubSeq(Expected, 1, k)
    BY <2>1, <2>2 DEF Got, Expected
  <2> QED BY <2>1, <2>2, <2>3 DEF IsPrefix
<1> QED BY <1>1, <1>2, <1>3, PTL DEF PacketSpec

(* -------------------------------- types -------------------------------- *)

\* What is kept and returned is made of bytes; a header never holds more than five, of
\* which each that another follows says so; reads without data are counted while open.
PacketTyped ==
  /\ sent \in Seq(PacketSizes) /\ wire \in Seq(Pieces) /\ arrived \in 0 .. Len(wire)
  /\ reading \in {"no", "length", "body"}
  /\ header \in Seq(Pieces) /\ buffer \in Seq(Pieces)
  /\ \/ last_msg = <<>>
     \/ \E t \in Pieces, left \in Nat : last_msg = <<[type |-> t, remaining |-> left]>>
  /\ received \in Seq([type : Pieces, body : Seq(Pieces)])
  /\ no_data_opers \in 0 .. MaxNoData + 1 /\ (open => no_data_opers <= MaxNoData)
  /\ eof \in BOOLEAN /\ open \in BOOLEAN /\ torn \in BOOLEAN
HeaderTyped ==
  /\ reading = "no" => header = <<>>
  /\ reading # "no" => /\ Len(header) \in 2 .. 5
                       /\ \A i \in 2 .. Len(header) - 1 : More(header[i].v)
  /\ reading = "body" => Size \in Nat
PacketTypeInv == PacketTyped /\ HeaderTyped

LEMMA ZeroIs == Zero \in Pieces
BY DEF Zero, Pieces

\* A length is a number, unless a fourth byte of it goes on.
LEMMA SizeIsNumber ==
  ASSUME PacketTypeInv, reading = "length", ~WantsLength, Size # -1
  PROVE  Size \in Nat
<1>1. header \in Seq(Pieces) /\ Len(header) \in 2 .. 5
      /\ \A i \in 2 .. Len(header) - 1 : More(header[i].v)
  BY DEF PacketTypeInv, PacketTyped, HeaderTyped
<1>2. PICK k \in 1 .. 4 : k = Len(header) - 1 /\ k + 1 = Len(header)
  BY <1>1
<1> DEFINE s == [i \in 1 .. k |-> header[i + 1].v]
<1>3. \A i \in 1 .. k : s[i] \in Nat /\ (i < k => More(s[i]))
  <2>1. ASSUME NEW i \in 1 .. k PROVE s[i] \in Nat /\ (i < k => More(s[i]))
    <3>1. i + 1 \in 1 .. Len(header) /\ (i < k => i + 1 \in 2 .. Len(header) - 1)
      BY <1>2
    <3>2. header[i + 1] \in Pieces
      BY <1>1, <3>1
    <3>3. s[i] = header[i + 1].v
      OBVIOUS
    <3> HIDE DEF s
    <3>4. s[i] \in Nat
      BY <3>2, <3>3 DEF Pieces
    <3>5. i < k => More(s[i])
      BY <1>1, <3>1, <3>3, Zenon
    <3> QED BY <3>4, <3>5
  <2> QED BY <2>1
<1>4. k < 4 => ~More(s[k])
  <2>1. s[k] = header[Len(header)].v
    BY <1>2
  <2>2. k < 4 => Len(header) < 5
    BY <1>2
  <2> QED BY <2>1, <2>2 DEF WantsLength
<1>5. Size = DecodeLength(s)
  BY <1>2 DEF Size
<1> HIDE DEF s
<1>6. ASSUME NEW v \in Nat PROVE Value(v) \in Nat /\ \A d \in 0 .. 4 : Value(v) * Power(d) \in Nat
  <2>1. Value(v) \in Nat
    BY RadixIs, DivMod DEF Value
  <2>2. \A d \in 0 .. 4 : Power(d) \in Nat
    BY Powers, Zenon
  <2> HIDE DEF Value
  <2>3. \A a, b \in Nat : a * b \in Nat
    BY Products
  <2> QED BY <2>1, <2>2, <2>3, Zenon
<1>7. 1 \in 0 .. 4 /\ 2 \in 0 .. 4 /\ 3 \in 0 .. 4
  OBVIOUS
<1>8. CASE ~More(s[1])
  <2>1. s[1] \in Nat
    BY <1>3
  <2> QED BY <1>5, <1>6, <1>8, <2>1 DEF DecodeLength
<1>9. CASE More(s[1]) /\ ~More(s[2])
  <2>1. s[1] \in Nat /\ s[2] \in Nat
    <3>1. 2 \in 1 .. k
      BY <1>3, <1>4, <1>9
    <3> QED BY <1>3, <3>1
  <2>2. Value(s[1]) \in Nat /\ Value(s[2]) * Power(1) \in Nat
    BY <1>6, <1>7, <2>1, Zenon
  <2>3. Size = Value(s[1]) + Value(s[2]) * Power(1)
    BY <1>5, <1>9, Zenon DEF DecodeLength
  <2> QED BY <2>2, <2>3
<1>10. CASE More(s[1]) /\ More(s[2]) /\ ~More(s[3])
  <2>1. s[1] \in Nat /\ s[2] \in Nat /\ s[3] \in Nat
    <3>1. 3 \in 1 .. k
      BY <1>3, <1>4, <1>10
    <3> QED BY <1>3, <3>1
  <2>2. PICK a \in Nat, b \in Nat, c \in Nat :
          a = Value(s[1]) /\ b = Value(s[2]) * Power(1) /\ c = Value(s[3]) * Power(2)
    BY <1>6, <1>7, <2>1, Zenon
  <2>3. Size = a + b + c
    BY <1>5, <1>10, <2>2, Zenon DEF DecodeLength
  <2> QED BY <2>3
<1>11. CASE More(s[1]) /\ More(s[2]) /\ More(s[3])
  <2>1. s[1] \in Nat /\ s[2] \in Nat /\ s[3] \in Nat /\ s[4] \in Nat
    <3>1. 4 \in 1 .. k
      BY <1>3, <1>4, <1>11
    <3> QED BY <1>3, <3>1
  <2>2. PICK a \in Nat, b \in Nat, c \in Nat, d \in Nat :
          a = Value(s[1]) /\ b = Value(s[2]) * Power(1) /\ c = Value(s[3]) * Power(2)
          /\ d = Value(s[4]) * Power(3)
    BY <1>6, <1>7, <2>1, Zenon
  <2>3. ~More(s[4])
    BY <1>5, <1>11 DEF DecodeLength
  <2>4. Size = a + b + c + d
    BY <1>5, <1>11, <2>2, <2>3, Zenon DEF DecodeLength
  <2> QED BY <2>4
<1> QED BY <1>8, <1>9, <1>10, <1>11

\* A read takes bytes that have arrived.
LEMMA TakeTyped ==
  ASSUME PacketTypeInv, NEW m \in Nat, Take(m)
  PROVE  /\ wire' \in Seq(Pieces) /\ arrived' \in 0 .. Len(wire')
         /\ Bytes(m) \in Seq(Pieces) /\ Len(Bytes(m)) = Taken(m)
         /\ Taken(m) \in 0 .. m /\ (arrived # 0 /\ m # 0 => Taken(m) # 0)
<1>1. wire \in Seq(Pieces) /\ arrived \in 0 .. Len(wire) /\ Len(wire) \in Nat
  BY DEF PacketTypeInv, PacketTyped
<1>2. PICK t \in Nat : t = Taken(m) /\ t <= m /\ t <= arrived /\ (arrived # 0 /\ m # 0 => t # 0)
  BY <1>1 DEF Taken, Smaller
<1>3. wire' = SubSeq(wire, t + 1, Len(wire)) /\ arrived' = arrived - t
  BY <1>2, Zenon DEF Take
<1>4. wire' \in Seq(Pieces) /\ Len(wire') = Len(wire) - t
  BY <1>1, <1>2, <1>3, SubSeqIs
<1>5. Bytes(m) \in Seq(Pieces) /\ Len(Bytes(m)) = t
  <2>1. 0 \in Nat /\ 0 <= t /\ t <= Len(wire) /\ 0 + 1 = 1 /\ t - 0 = t
    BY <1>1, <1>2
  <2>2. SubSeq(wire, 0 + 1, t) \in Seq(Pieces) /\ Len(SubSeq(wire, 0 + 1, t)) = t - 0
    BY <1>1, <1>2, <2>1, SubSeqIs
  <2>3. Bytes(m) = SubSeq(wire, 1, t)
    BY <1>2, Zenon DEF Bytes
  <2> QED BY <2>1, <2>2, <2>3, Zenon
<1>6. arrived' \in 0 .. Len(wire')
  BY <1>1, <1>2, <1>3, <1>4
<1> QED BY <1>2, <1>4, <1>5, <1>6

LEMMA PacketTypesInitially ==
  ASSUME PacketInit PROVE PacketTypeInv
<1>1. sent \in Seq(PacketSizes) /\ wire \in Seq(Pieces)
  BY WireInitially
<1>2. MaxNoData \in Nat
  BY Zenon, PacketAssumption
<1>3. Len(wire) \in Nat
  BY <1>1
<1>4. <<>> \in Seq(Pieces) /\ <<>> \in Seq([type : Pieces, body : Seq(Pieces)])
  BY EmptySeq
<1>5. PacketTyped
  <2>1. /\ arrived = 0 /\ eof = FALSE /\ reading = "no" /\ header = <<>> /\ buffer = <<>>
        /\ last_msg = <<>> /\ no_data_opers = 0 /\ received = <<>> /\ open = TRUE /\ torn = FALSE
    BY DEF PacketInit
  <2>2. arrived \in 0 .. Len(wire)
    BY <1>3, <2>1
  <2>3. no_data_opers \in 0 .. MaxNoData + 1 /\ no_data_opers <= MaxNoData
    BY <1>2, <2>1
  <2> QED BY <1>1, <1>4, <2>1, <2>2, <2>3 DEF PacketTyped
<1>6. HeaderTyped
  BY DEF PacketInit, HeaderTyped
<1> QED BY <1>5, <1>6 DEF PacketTypeInv

LEMMA PacketTypesStep ==
  ASSUME PacketTypeInv, [PacketNext]_packetVars PROVE PacketTypeInv'
<1> USE DEF PacketTypeInv
<1>1. MaxNoData \in Nat /\ Len(wire) \in Nat /\ Len(header) \in Nat
  <2>1. MaxNoData \in Nat
    BY Zenon, PacketAssumption
  <2> QED BY <2>1 DEF PacketTyped
<1>0. <<>> \in Seq(Pieces)
  BY EmptySeq
<1>2. ASSUME UNCHANGED <<reading, header>> PROVE HeaderTyped'
  BY <1>2 DEF HeaderTyped, Size
<1>3. ASSUME reading' = "no", header' = <<>> PROVE HeaderTyped'
  BY <1>3 DEF HeaderTyped
<1>4. CASE UNCHANGED packetVars
  BY <1>2, <1>4 DEF packetVars, PacketTyped
<1>5. CASE Arrive
  <2>1. arrived' \in 0 .. Len(wire)
    BY <1>1, <1>5 DEF Arrive, PacketTyped
  <2> QED BY <1>2, <1>5, <2>1 DEF Arrive, PacketTyped
<1>6. CASE PeerCloses
  BY <1>2, <1>6 DEF PeerCloses, PacketTyped
<1>7. ASSUME NoData, open PROVE /\ no_data_opers' \in 0 .. MaxNoData + 1
                          /\ (open' => no_data_opers' <= MaxNoData) /\ open' \in BOOLEAN
                          /\ reading' \in {"no", "length", "body"} /\ header' \in Seq(Pieces)
                          /\ (reading = "no" => HeaderTyped')
                          /\ UNCHANGED <<sent, eof, received, wire, arrived>>
  <2>1. CASE ShutDown
    <3>1. no_data_opers' \in 0 .. MaxNoData + 1
      BY <1>1, <1>7 DEF NoData, PacketTyped
    <3>2. /\ open' = FALSE /\ reading' = "no" /\ header' = <<>>
          /\ UNCHANGED <<sent, eof, received, wire, arrived>>
      BY <1>7, <2>1 DEF NoData, ShutDown
    <3> QED BY <1>0, <1>3, <3>1, <3>2
  <2>2. CASE UNCHANGED <<sent, eof, received, open, reading, header>> /\ ~(no_data_opers' > MaxNoData)
    BY <1>1, <1>2, <1>7, <2>2 DEF NoData, PacketTyped
  <2> QED BY <1>7, <2>1, <2>2 DEF NoData
<1>14. ASSUME NEW x \in [type : Pieces, body : Seq(Pieces)], received' = Append(received, x)
       PROVE  received' \in Seq([type : Pieces, body : Seq(Pieces)])
  <2> DEFINE T == [type : Pieces, body : Seq(Pieces)]
  <2>1. received \in Seq(T) /\ x \in T
    BY DEF PacketTyped
  <2> HIDE DEF T
  <2>2. Append(received, x) \in Seq(T)
    BY <2>1
  <2> QED BY <1>14, <2>2 DEF T
<1>8. CASE ReadHeader
  <2>1. Take(2) /\ arrived # 0 /\ reading' = "length"
    BY <1>8 DEF ReadHeader, Nothing
  <2>2. /\ wire' \in Seq(Pieces) /\ arrived' \in 0 .. Len(wire')
        /\ Bytes(2) \in Seq(Pieces) /\ Len(Bytes(2)) = Taken(2) /\ Taken(2) \in {1, 2}
    <3>1. PICK m \in Nat : m = 2
      OBVIOUS
    <3>2. /\ wire' \in Seq(Pieces) /\ arrived' \in 0 .. Len(wire')
          /\ Bytes(m) \in Seq(Pieces) /\ Len(Bytes(m)) = Taken(m)
          /\ Taken(m) \in 0 .. m /\ Taken(m) # 0
      BY <2>1, <3>1, TakeTyped
    <3> QED BY <3>1, <3>2
  <2>3. header' \in Seq(Pieces) /\ Len(header') = 2
    <3>1. CASE Taken(2) = 2
      BY <1>8, <2>2, <3>1 DEF ReadHeader
    <3>2. CASE Taken(2) = 1
      <4>1. header' = Bytes(2) \o <<Zero>>
        BY <1>8, <3>2 DEF ReadHeader
      <4> QED BY <2>2, <3>2, <4>1, ZeroIs
    <3> QED BY <2>2, <3>1, <3>2
  <2>4. HeaderTyped'
    BY <2>1, <2>3 DEF HeaderTyped
  <2> QED BY <1>1, <1>8, <2>1, <2>2, <2>3, <2>4 DEF ReadHeader, PacketTyped
<1>9. CASE ReadHeaderFails
  <2>1. CASE NoData
    BY <1>7, <1>9, <2>1 DEF ReadHeaderFails, PacketTyped
  <2>2. CASE ShutDown /\ UNCHANGED <<wire, arrived, no_data_opers>>
    BY <1>0, <1>3, <1>9, <2>2 DEF ReadHeaderFails, ShutDown, PacketTyped
  <2> QED BY <1>9, <2>1, <2>2 DEF ReadHeaderFails
<1>10. CASE ReadLength
  <2>1. reading = "length" /\ WantsLength /\ UNCHANGED <<buffer, last_msg, no_data_opers>>
    BY <1>10 DEF ReadLength
  <2>2. CASE ShutDown /\ UNCHANGED <<wire, arrived, torn>>
    BY <1>0, <1>3, <2>1, <2>2 DEF ShutDown, PacketTyped
  <2>3. Len(header) \in 2 .. 4 /\ More(header[Len(header)].v)
    <3>1. Len(header) \in 2 .. 5 /\ Len(header) < 5
      BY <2>1 DEF WantsLength, HeaderTyped
    <3>2. Len(header) \in 2 .. 4
      <4>1. \A l \in 2 .. 5 : l < 5 => l \in 2 .. 4
        OBVIOUS
      <4> QED BY <3>1, <4>1, Zenon
    <3> QED BY <2>1, <3>2 DEF WantsLength
  <2>4. ASSUME NEW byte \in Pieces, header' = Append(header, byte), reading' = "length"
        PROVE  header' \in Seq(Pieces) /\ HeaderTyped'
    <3>1. header' \in Seq(Pieces) /\ Len(header') = Len(header) + 1
          /\ \A i \in 1 .. Len(header) : header'[i] = header[i]
      BY <2>4 DEF PacketTyped
    <3>2. \A i \in 2 .. Len(header') - 1 : More(header'[i].v)
      <4>1. ASSUME NEW i \in 2 .. Len(header') - 1 PROVE More(header'[i].v)
        <5>1. i \in 1 .. Len(header) /\ (i \in 2 .. Len(header) - 1 \/ i = Len(header))
          BY <2>3, <3>1
        <5>2. header'[i] = header[i]
          BY <3>1, <5>1
        <5>3. More(header[i].v)
          BY <2>1, <2>3, <5>1 DEF HeaderTyped
        <5> QED BY <5>2, <5>3, Zenon
      <4> QED BY <4>1
    <3> QED BY <2>3, <2>4, <3>1, <3>2 DEF HeaderTyped
  <2>5. CASE /\ header' = Append(header, Zero) /\ torn' = TRUE
             /\ UNCHANGED <<wire, arrived, open, reading, sent, eof, received>>
    <3>1. header' \in Seq(Pieces) /\ HeaderTyped'
      BY <2>1, <2>4, <2>5, ZeroIs
    <3> QED BY <2>1, <2>5, <3>1 DEF PacketTyped
  <2>6. CASE /\ ~Nothing /\ Take(1) /\ header' = header \o Bytes(1)
             /\ UNCHANGED <<torn, open, reading, sent, eof, received>>
    <3>1. PICK m \in Nat : m = 1
      OBVIOUS
    <3>2. /\ wire' \in Seq(Pieces) /\ arrived' \in 0 .. Len(wire')
          /\ Bytes(m) \in Seq(Pieces) /\ Len(Bytes(m)) = 1
      <4>1. /\ wire' \in Seq(Pieces) /\ arrived' \in 0 .. Len(wire')
            /\ Bytes(m) \in Seq(Pieces) /\ Len(Bytes(m)) = Taken(m)
            /\ Taken(m) \in 0 .. m /\ Taken(m) # 0
        BY <2>6, <3>1, TakeTyped DEF Nothing
      <4>2. Taken(m) = 1
        BY <3>1, <4>1
      <4> QED BY <4>1, <4>2
    <3>3. PICK byte \in Pieces : Bytes(m) = <<byte>>
      <4> DEFINE b == Bytes(m)
      <4>1. b \in Seq(Pieces) /\ Len(b) = 1
        BY <3>2
      <4> HIDE DEF b
      <4>2. b[1] \in Pieces /\ b = <<b[1]>>
        BY <4>1
      <4> QED BY <4>2, Zenon DEF b
    <3>4. header' = Append(header, byte)
      <4>1. header' = header \o <<byte>>
        BY <2>6, <3>1, <3>3, Zenon
      <4> QED BY <4>1 DEF PacketTyped
    <3>5. header' \in Seq(Pieces) /\ HeaderTyped'
      BY <2>1, <2>4, <2>6, <3>4
    <3> QED BY <2>1, <2>6, <3>2, <3>5 DEF PacketTyped
  <2> QED BY <1>10, <2>2, <2>5, <2>6 DEF ReadLength
<1>11. CASE RejectHeader
  BY <1>0, <1>3, <1>11 DEF RejectHeader, ShutDown, PacketTyped
<1>12. CASE AcceptHeader
  <2>1. header[1] \in Pieces /\ <<>> \in Seq(Pieces)
    BY <1>12 DEF AcceptHeader, HeaderTyped, PacketTyped
  <2>2. CASE Size = 0
    <3>1. Packet(header[1], <<>>) \in [type : Pieces, body : Seq(Pieces)]
      BY <2>1 DEF Packet
    <3>2. received' \in Seq([type : Pieces, body : Seq(Pieces)])
      BY <1>14, <1>12, <2>2, <3>1 DEF AcceptHeader
    <3> QED BY <1>0, <1>3, <1>12, <2>2, <3>2 DEF AcceptHeader, PacketTyped
  <2>3. CASE Size # 0
    <3>1. Size \in Nat
      BY <1>12, SizeIsNumber DEF AcceptHeader
    <3>2. HeaderTyped'
      BY <1>12, <2>3, <3>1 DEF AcceptHeader, HeaderTyped, Size
    <3> QED BY <1>12, <2>3, <3>2 DEF AcceptHeader, PacketTyped
  <2> QED BY <2>2, <2>3
<1>13. CASE ReadBody
  <2>1. Size \in Nat /\ header[1] \in Pieces
    BY <1>13 DEF ReadBody, HeaderTyped, PacketTyped
  <2>2. CASE ShutDown /\ UNCHANGED <<wire, arrived, buffer, last_msg, torn>>
    BY <1>0, <1>3, <1>13, <2>2 DEF ReadBody, ShutDown, PacketTyped
  <2>3. CASE /\ Take(Size) /\ reading' = "no" /\ header' = <<>> /\ UNCHANGED <<sent, eof, open>>
             /\ torn' = (torn \/ Nothing)
             /\ IF Taken(Size) = Size
                THEN /\ received' = Append(received, Packet(header[1], Bytes(Size)))
                     /\ UNCHANGED <<buffer, last_msg>>
                ELSE /\ last_msg' = <<[type |-> header[1],
                                       remaining |-> IF Nothing THEN Size + 2
                                                     ELSE Size - Taken(Size)]>>
                     /\ buffer' = Bytes(Size) /\ UNCHANGED received
    <3>1. PICK m \in Nat : m = Size
      BY <2>1
    <3>2. /\ wire' \in Seq(Pieces) /\ arrived' \in 0 .. Len(wire')
          /\ Bytes(m) \in Seq(Pieces) /\ Taken(m) \in 0 .. m
      BY <2>3, <3>1, TakeTyped
    <3>3. torn' \in BOOLEAN /\ UNCHANGED no_data_opers
      BY <1>13, <2>3 DEF ReadBody, PacketTyped
    <3>4. HeaderTyped'
      BY <1>3, <2>3
    <3>5. CASE Taken(m) = m
      <4>1. Packet(header[1], Bytes(m)) \in [type : Pieces, body : Seq(Pieces)]
        BY <2>1, <3>2 DEF Packet
      <4>2. received' = Append(received, Packet(header[1], Bytes(m)))
            /\ UNCHANGED <<buffer, last_msg>>
        BY <2>3, <3>1, <3>5
      <4>3. received' \in Seq([type : Pieces, body : Seq(Pieces)])
        BY <1>14, <4>1, <4>2
      <4> QED BY <1>0, <2>3, <3>2, <3>3, <3>4, <4>2, <4>3 DEF PacketTyped
    <3>6. CASE Taken(m) # m
      <4>1. PICK left \in Nat : left = IF Nothing THEN m + 2 ELSE m - Taken(m)
        BY <3>2
      <4>2. /\ last_msg' = <<[type |-> header[1], remaining |-> left]>>
            /\ buffer' = Bytes(m) /\ UNCHANGED received
        BY <2>3, <3>1, <3>6, <4>1
      <4>3. \E t \in Pieces, n \in Nat : last_msg' = <<[type |-> t, remaining |-> n]>>
        BY <2>1, <4>2
      <4> QED BY <1>0, <2>3, <3>2, <3>3, <3>4, <4>2, <4>3 DEF PacketTyped
    <3> QED BY <3>5, <3>6
  <2> QED BY <1>13, <2>2, <2>3 DEF ReadBody
<1>15. CASE ReadRest
  <2>1. PICK t \in Pieces, left \in Nat : last_msg = <<[type |-> t, remaining |-> left]>>
    BY <1>15 DEF ReadRest, PacketTyped
  <2>2. last_msg[1].remaining = left /\ last_msg[1].type = t /\ reading = "no" /\ open
        /\ [last_msg[1] EXCEPT !.remaining = StillMissing(left)]
           = [type |-> t, remaining |-> StillMissing(left)]
    BY <1>15, <2>1 DEF ReadRest
  <2>3. CASE /\ ShutDown /\ buffer' = <<>> /\ last_msg' = <<>>
             /\ UNCHANGED <<wire, arrived, no_data_opers, torn>>
    BY <1>0, <1>3, <2>3 DEF ShutDown, PacketTyped
  <2>4. CASE NoData /\ UNCHANGED <<buffer, last_msg, torn>>
    BY <1>7, <2>2, <2>4 DEF PacketTyped
  <2>5. CASE /\ Take(left)
             /\ IF Taken(left) = left
                THEN /\ received' = Append(received, Packet(t, buffer \o Bytes(left)))
                     /\ buffer' = <<>> /\ last_msg' = <<>>
                ELSE /\ buffer' = buffer \o Bytes(left)
                     /\ last_msg' = <<[type |-> t, remaining |-> StillMissing(left)]>>
                     /\ UNCHANGED received
             /\ UNCHANGED <<sent, eof, reading, header, no_data_opers, open, torn>>
    <3>1. /\ wire' \in Seq(Pieces) /\ arrived' \in 0 .. Len(wire')
          /\ Bytes(left) \in Seq(Pieces) /\ Taken(left) \in 0 .. left
      BY <2>5, TakeTyped
    <3>2. HeaderTyped'
      BY <1>2, <2>5
    <3>3. buffer \o Bytes(left) \in Seq(Pieces)
      BY <3>1, ConcatProperties DEF PacketTyped
    <3>4. CASE Taken(left) = left
      <4>1. Packet(t, buffer \o Bytes(left)) \in [type : Pieces, body : Seq(Pieces)]
        BY <3>3 DEF Packet
      <4>2. received' \in Seq([type : Pieces, body : Seq(Pieces)])
        BY <1>14, <2>5, <3>4, <4>1
      <4> QED BY <1>0, <2>5, <3>1, <3>2, <3>4, <4>2 DEF PacketTyped
    <3>5. CASE Taken(left) # left
      <4>1. StillMissing(left) \in Nat
        BY <3>1 DEF StillMissing
      <4>2. \E u \in Pieces, n \in Nat : last_msg' = <<[type |-> u, remaining |-> n]>>
        BY <2>5, <3>5, <4>1
      <4> QED BY <1>0, <2>5, <3>1, <3>2, <3>3, <3>5, <4>2 DEF PacketTyped
    <3> QED BY <3>4, <3>5
  <2> QED BY <1>15, <2>2, <2>3, <2>4, <2>5 DEF ReadRest
<1> QED BY <1>4, <1>5, <1>6, <1>8, <1>9, <1>10, <1>11, <1>12, <1>13, <1>15
        DEF PacketNext, PacketRead

\* The headers, buffers and counts of a connection that is read stay within their bounds.
THEOREM PacketTypeCorrect == PacketSpec => []PacketTypeOK
<1>1. PacketTypeInv => PacketTypeOK
  <2> SUFFICES ASSUME PacketTypeInv PROVE PacketTypeOK
    OBVIOUS
  <2>1. Len(header) <= 6
    <3>1. CASE reading = "no"
      BY <3>1 DEF PacketTypeInv, HeaderTyped
    <3>2. CASE reading # "no"
      BY <3>2 DEF PacketTypeInv, HeaderTyped
    <3> QED BY <3>1, <3>2
  <2>2. Len(last_msg) \in 0 .. 1 /\ Len(received) \in Nat
    BY DEF PacketTypeInv, PacketTyped
  <2> QED BY <2>1, <2>2 DEF PacketTypeInv, PacketTyped, PacketTypeOK
<1> QED BY <1>1, PacketTypesInitially, PacketTypesStep, PTL DEF PacketSpec

-----------------------------------------------------------------------------
(* Topic filters (TopicFilters). *)

LEMMA LettersAre ==
  ASSUME NEW s \in Topics \cup Filters
  PROVE  Len(s) \in Nat /\ Len(s) # 0 /\ \A n \in 1 .. Len(s) : s[n] # "nul"
<1>1. PICK l \in Nat : l # 0 /\ DOMAIN s = 1 .. l /\ s \in [1 .. l -> Letters \cup {"$", "/", "+", "#"}]
  BY TopicAssumption DEF Topics, Filters
<1>2. Len(s) = l
  BY <1>1
<1>3. \A c \in Letters \cup {"$", "/", "+", "#"} : c # "nul"
  BY TopicAssumption
<1> QED BY <1>1, <1>2, <1>3

\* The end of the level the walk is in.
LEMMA LevelEndIs ==
  ASSUME TopicTypeOK
  PROVE  /\ LevelEnd \in iterator .. Len(topic_name) + 1
         /\ CharAt(topic_name, LevelEnd) \in {"/", "nul"}
         /\ \A n \in iterator .. LevelEnd - 1 : CharAt(topic_name, n) \notin {"/", "nul"}
<1> DEFINE S == {n \in iterator .. Len(topic_name) + 1 : CharAt(topic_name, n) \in {"/", "nul"}}
<1>1. iterator \in Nat /\ Len(topic_name) \in Nat /\ iterator <= Len(topic_name) + 1
  BY LettersAre DEF TopicTypeOK
<1>2. S \subseteq Nat /\ Len(topic_name) + 1 \in S
  BY <1>1 DEF CharAt
<1>3. PICK m \in S : \A n \in S : m <= n
  BY <1>2, LeastElement
<1>4. LevelEnd \in S /\ \A n \in S : LevelEnd <= n
  BY <1>3 DEF LevelEnd, Min
<1>5. ASSUME NEW n \in iterator .. LevelEnd - 1 PROVE CharAt(topic_name, n) \notin {"/", "nul"}
  <2>1. n \in iterator .. Len(topic_name) + 1 /\ ~(LevelEnd <= n)
    BY <1>1, <1>4
  <2> QED BY <1>4, <2>1
<1> QED BY <1>4, <1>5

\* How far the characters are the same: up to the end of the level, or a difference.
Alike(n) ==
  /\ \A c \in 0 .. n - 2 : /\ CharAt(topic_name, iterator + c) = CharAt(topic_filter, iterator2 + c)
                           /\ CharAt(topic_name, iterator + c) \notin {"/", "nul"}
  /\ CharAt(topic_name, iterator + (n - 1)) # "nul"
  /\ CharAt(topic_filter, iterator2 + (n - 1)) # "nul"
Differ(n) == CharAt(topic_name, iterator + (n - 1)) # CharAt(topic_filter, iterator2 + (n - 1))
EndsAt(n) == \/ CharAt(topic_name, iterator + (n - 1)) = "/"
             \/ CharAt(topic_name, iterator + n) = "nul"
             \/ CharAt(topic_filter, iterator2 + n) = "nul"

LEMMA LiteralIs ==
  ASSUME TopicTypeOK, Literal
  PROVE  \E n \in Nat \ {0} :
            /\ Alike(n)
            /\ \/ Differ(n) /\ Return(FALSE)
               \/ ~Differ(n) /\ EndsAt(n) /\ Walk(iterator + n, iterator2 + n)
<1>1. /\ Len(topic_name) \in Nat /\ Len(topic_filter) \in Nat
      /\ iterator \in 1 .. Len(topic_name) + 1 /\ iterator2 \in 1 .. Len(topic_filter) + 1
      /\ TopicChar # "nul" /\ FilterChar # "nul"
  BY LettersAre DEF TopicTypeOK, Literal, InBoth
<1> DEFINE same(n) == CharAt(topic_name, iterator + n) = CharAt(topic_filter, iterator2 + n)
           ends(n) == \/ CharAt(topic_name, iterator + n - 1) = "/"
                      \/ CharAt(topic_name, iterator + n) = "nul"
                      \/ CharAt(topic_filter, iterator2 + n) = "nul"
           S == {k \in 1 .. Len(topic_name) + Len(topic_filter) : ~same(k - 1) \/ ends(k)}
           l == Len(topic_name) + 1 - iterator
<1>2. S \subseteq Nat /\ l \in S
  <2>1. iterator <= Len(topic_name)
    BY <1>1 DEF TopicChar, CharAt
  <2>2. l \in 1 .. Len(topic_name) + Len(topic_filter) /\ iterator + l = Len(topic_name) + 1
    BY <1>1, <2>1
  <2>3. CharAt(topic_name, iterator + l) = "nul"
    BY <1>1, <2>2 DEF CharAt
  <2> QED BY <1>1, <2>2, <2>3
<1>3. PICK m \in S : \A k \in S : m <= k
  BY <1>2, LeastElement
<1>4. Min(S) \in S /\ \A k \in S : Min(S) <= k
  BY <1>3 DEF Min
<1>5. IF same(Min(S) - 1) THEN Walk(iterator + Min(S), iterator2 + Min(S)) ELSE Return(FALSE)
  BY DEF Literal
<1>6. PICK n \in Nat \ {0} :
        /\ n \in S /\ \A k \in 1 .. n - 1 : k \notin S
        /\ IF same(n - 1) THEN Walk(iterator + n, iterator2 + n) ELSE Return(FALSE)
  <2>1. Min(S) \in Nat \ {0} /\ \A k \in 1 .. Min(S) - 1 : k \notin S
    <3>1. Min(S) \in 1 .. Len(topic_name) + Len(topic_filter)
      BY <1>4
    <3>2. \A k \in 1 .. Min(S) - 1 : ~(Min(S) <= k)
      BY <1>1, <3>1
    <3>3. \A k \in 1 .. Min(S) - 1 : k \notin S
      BY <1>4, <3>2, Zenon
    <3> QED BY <3>1, <3>3
  <2> QED BY <1>4, <1>5, <2>1, Zenon
<1>7. \A k \in 1 .. n - 1 : same(k - 1) /\ ~ends(k)
  <2>1. n \in 1 .. Len(topic_name) + Len(topic_filter)
    BY <1>6
  <2>2. \A k \in 1 .. n - 1 : k \in 1 .. Len(topic_name) + Len(topic_filter)
    BY <1>1, <2>1
  <2> QED BY <1>6, <2>2
<1>8. Alike(n)
  <2>1. ASSUME NEW c \in 0 .. n - 2
        PROVE  /\ CharAt(topic_name, iterator + c) = CharAt(topic_filter, iterator2 + c)
               /\ CharAt(topic_name, iterator + c) \notin {"/", "nul"}
    <3>1. PICK k \in 1 .. n - 1 : k - 1 = c /\ iterator + k - 1 = iterator + c
      <4>1. c + 1 \in 1 .. n - 1 /\ (c + 1) - 1 = c /\ iterator + (c + 1) - 1 = iterator + c
        BY <1>1
      <4> QED BY <4>1, Zenon
    <3>2. same(c) /\ CharAt(topic_name, iterator + c) # "/"
      <4>1. same(k - 1) /\ ~ends(k)
        BY <1>7
      <4> QED BY <3>1, <4>1
    <3>3. CharAt(topic_name, iterator + c) # "nul"
      <4>1. CASE c = 0
        BY <1>1, <4>1 DEF TopicChar
      <4>2. CASE c # 0
        <5>1. c \in 1 .. n - 1
          BY <4>2
        <5> QED BY <1>7, <5>1
      <4> QED BY <4>1, <4>2
    <3> QED BY <3>2, <3>3
  <2>2. CharAt(topic_name, iterator + (n - 1)) # "nul" /\ CharAt(topic_filter, iterator2 + (n - 1)) # "nul"
    <3>1. CASE n = 1
      <4>1. iterator + (n - 1) = iterator /\ iterator2 + (n - 1) = iterator2
        BY <1>1, <3>1
      <4> QED BY <1>1, <4>1 DEF TopicChar, FilterChar
    <3>2. CASE n # 1
      <4>1. n - 1 \in 1 .. n - 1
        BY <3>2
      <4> QED BY <1>7, <4>1
    <3> QED BY <3>1, <3>2
  <2> QED BY <2>1, <2>2 DEF Alike
<1>9. Differ(n) <=> ~same(n - 1)
  BY DEF Differ
<1>10. same(n - 1) => EndsAt(n)
  <2>1. iterator + n - 1 = iterator + (n - 1)
    BY <1>1
  <2> QED BY <1>6, <2>1 DEF EndsAt
<1> QED BY <1>6, <1>8, <1>9, <1>10

LEMMA TopicTypesStep ==
  ASSUME TopicTypeOK, [TopicNext]_topicVars PROVE TopicTypeOK'
<1>1. /\ Len(topic_name) \in Nat /\ Len(topic_filter) \in Nat
      /\ iterator \in 1 .. Len(topic_name) + 1 /\ iterator2 \in 1 .. Len(topic_filter) + 1
  BY LettersAre DEF TopicTypeOK
<1>2. TopicChar # "nul" => iterator <= Len(topic_name)
  BY <1>1 DEF TopicChar, CharAt
<1>3. FilterChar # "nul" => iterator2 <= Len(topic_filter)
  BY <1>1 DEF FilterChar, CharAt
<1>4. ASSUME NEW b, Return(b) PROVE TopicTypeOK'
  BY <1>4 DEF Return, TopicTypeOK
<1>5. ASSUME NEW i \in 1 .. Len(topic_name) + 1, NEW j \in 1 .. Len(topic_filter) + 1, Walk(i, j)
      PROVE  TopicTypeOK'
  BY <1>5 DEF Walk, TopicTypeOK
<1>6. CASE UNCHANGED topicVars
  BY <1>6 DEF topicVars, TopicTypeOK
<1>7. CASE Shortcut
  <2>1. CASE Return(TRUE)
    BY <1>4, <2>1
  <2>2. CASE match' = "walking" /\ UNCHANGED <<topic_name, topic_filter, iterator, iterator2>>
    BY <2>2 DEF TopicTypeOK
  <2> QED BY <1>7, <2>1, <2>2 DEF Shortcut
<1>8. CASE Separator
  <2>1. CASE Walk(iterator + 1, iterator2 + 1)
    <3>1. iterator + 1 \in 1 .. Len(topic_name) + 1 /\ iterator2 + 1 \in 1 .. Len(topic_filter) + 1
      BY <1>1, <1>2, <1>3, <1>8 DEF Separator, InBoth
    <3> QED BY <1>5, <2>1, <3>1
  <2> QED BY <1>4, <1>8, <2>1 DEF Separator
<1>9. CASE SingleLevel
  <2>1. LevelEnd \in iterator .. Len(topic_name) + 1
    BY LevelEndIs
  <2>2. CharAt(topic_name, LevelEnd) # "nul" => LevelEnd <= Len(topic_name)
    BY <1>1, <2>1 DEF CharAt
  <2>3. (IF CharAt(topic_name, LevelEnd) = "nul" THEN LevelEnd ELSE LevelEnd + 1) \in 1 .. Len(topic_name) + 1
    BY <1>1, <2>1, <2>2
  <2>4. iterator2 <= Len(topic_filter)
    BY <1>3, <1>9 DEF SingleLevel, InBoth
  <2>5. CharAt(topic_filter, iterator2 + 1) # "nul" => iterator2 + 1 <= Len(topic_filter)
    BY <1>1, <2>4 DEF CharAt
  <2>6. (IF CharAt(topic_filter, iterator2 + 1) = "nul" THEN iterator2 + 1 ELSE iterator2 + 2)
          \in 1 .. Len(topic_filter) + 1
    BY <1>1, <2>4, <2>5
  <2> QED BY <1>5, <1>9, <2>3, <2>6 DEF SingleLevel
<1>10. CASE MultiLevel
  BY <1>4, <1>10 DEF MultiLevel
<1>11. CASE Literal
  <2>1. PICK n \in Nat \ {0} : /\ Alike(n)
                               /\ Return(FALSE) \/ Walk(iterator + n, iterator2 + n)
    BY <1>11, LiteralIs
  <2>2. iterator + n \in 1 .. Len(topic_name) + 1 /\ iterator2 + n \in 1 .. Len(topic_filter) + 1
    BY <1>1, <2>1 DEF Alike, CharAt
  <2> QED BY <1>4, <1>5, <2>1, <2>2
<1>12. CASE AtEnd
  BY <1>4, <1>12 DEF AtEnd
<1> QED BY <1>6, <1>7, <1>8, <1>9, <1>10, <1>11, <1>12 DEF TopicNext

LEMMA TopicTypesInitially ==
  ASSUME TopicInit PROVE TopicTypeOK
<1>1. topic_name \in Topics /\ topic_filter \in Filters
  BY DEF TopicInit
<1>2. 1 \in 1 .. Len(topic_name) + 1 /\ 1 \in 1 .. Len(topic_filter) + 1
  BY <1>1, LettersAre
<1> QED BY <1>2 DEF TopicInit, TopicTypeOK

\* The walk over a topic and a filter never leaves either string.
THEOREM TopicTypeCorrect == TopicSpec => []TopicTypeOK
BY TopicTypesInitially, TopicTypesStep, PTL DEF TopicSpec

(* ---------------------------- levels of a string ---------------------------- *)

\* The characters of a topic or filter.
Chars == Letters \cup {"$", "/", "+", "#"}

\* Level k of s begins at i; it ends before e.
Begins(s, k, i) ==
  k \in Nat \ {0} /\ i \in 1 .. Len(s) + 1 /\ i - 1 \in Cuts(s) /\ CutsBefore(s, i - 1) = k - 1
Level(s, k, i, e) ==
  Begins(s, k, i) /\ e \in i .. Len(s) + 1 /\ e \in Cuts(s) /\ \A n \in i .. e - 1 : n \notin Cuts(s)

LevelText(s, k, i, e) == Levels(s)[k] = SubSeq(s, i, e - 1)

\* The cuts of a string are its ends and its separators.
LEMMA CutsAre ==
  ASSUME NEW s \in Seq(Chars)
  PROVE  /\ Cuts(s) \subseteq 0 .. Len(s) + 1 /\ Len(s) \in Nat
         /\ 0 \in Cuts(s) /\ Len(s) + 1 \in Cuts(s)
         /\ \A n \in 1 .. Len(s) : n \in Cuts(s) <=> s[n] = "/"
         /\ \A n : IsFiniteSet({c \in Cuts(s) : c < n})
<1>1. Cuts(s) \subseteq 0 .. Len(s) + 1 /\ Len(s) \in Nat
  BY DEF Cuts
<1>2. IsFiniteSet(0 .. Len(s) + 1)
  <2>1. 0 \in Int /\ Len(s) + 1 \in Int
    BY <1>1
  <2> QED BY <2>1, FS_Interval
<1>3. IsFiniteSet(Cuts(s))
  BY <1>1, <1>2, FS_Subset
<1>4. ASSUME NEW n PROVE IsFiniteSet({c \in Cuts(s) : c < n})
  BY <1>3, FS_Subset
<1>5. \A n \in 1 .. Len(s) : n \in Cuts(s) <=> s[n] = "/"
  BY <1>1 DEF Cuts
<1> QED BY <1>1, <1>4, <1>5 DEF Cuts

\* A cut has more cuts before it than an earlier one, and one more than the one just before.
LEMMA CutsOrdered ==
  ASSUME NEW s \in Seq(Chars), NEW c \in Cuts(s), NEW d \in Cuts(s), c < d
  PROVE  /\ CutsBefore(s, c) \in Nat /\ CutsBefore(s, d) \in Nat
         /\ CutsBefore(s, c) < CutsBefore(s, d)
         /\ (\A n \in c + 1 .. d - 1 : n \notin Cuts(s)) => CutsBefore(s, d) = CutsBefore(s, c) + 1
<1> DEFINE C == {x \in Cuts(s) : x < c}
           D == {x \in Cuts(s) : x < d}
<1>0. Cuts(s) \subseteq Int
  <2>1. Cuts(s) \subseteq 0 .. Len(s) + 1
    BY CutsAre
  <2> QED BY <2>1
<1>1. IsFiniteSet(C) /\ IsFiniteSet(D) /\ c \in Int /\ d \in Int
  <2>1. IsFiniteSet(C) /\ IsFiniteSet(D)
    BY CutsAre, Zenon
  <2> QED BY <1>0, <2>1
<1>2. C \cup {c} \subseteq D /\ c \notin C
  <2>1. \A x \in Cuts(s) : x < c => x < d
    BY <1>0
  <2>2. ~(c < c)
    BY <1>1
  <2>3. C \subseteq D /\ c \in D /\ c \notin C
    BY <2>1, <2>2, Zenon
  <2> QED BY <2>3, Zenon
<1>3. IsFiniteSet(C \cup {c}) /\ Cardinality(C \cup {c}) = Cardinality(C) + 1
  BY <1>1, <1>2, FS_AddElement
<1>4. Cardinality(C) \in Nat /\ Cardinality(D) \in Nat
  BY <1>1, FS_CardinalityType
<1>5. Cardinality(C) + 1 <= Cardinality(D)
  BY <1>1, <1>2, <1>3, FS_Subset
<1>6. (\A n \in c + 1 .. d - 1 : n \notin Cuts(s)) => D = C \cup {c}
  <2>1. \A x \in Cuts(s) : x < d /\ ~(x < c) /\ x # c => x \in c + 1 .. d - 1
    BY <1>1, CutsAre
  <2> QED BY <1>2, <2>1
<1> HIDE DEF C, D
<1>7. Cardinality(C) < Cardinality(D)
  BY <1>4, <1>5
<1> QED BY <1>3, <1>4, <1>6, <1>7 DEF C, D, CutsBefore

\* Only one cut has so many before it.
LEMMA CutIs ==
  ASSUME NEW s \in Seq(Chars), NEW c \in Cuts(s)
  PROVE  (CHOOSE d \in Cuts(s) : CutsBefore(s, d) = CutsBefore(s, c)) = c
<1>1. ASSUME NEW d \in Cuts(s), CutsBefore(s, d) = CutsBefore(s, c), d # c PROVE FALSE
  <2>1. d < c \/ c < d
    BY <1>1, CutsAre
  <2>2. CASE d < c
    BY <1>1, <2>2, CutsOrdered
  <2>3. CASE c < d
    BY <1>1, <2>3, CutsOrdered
  <2> QED BY <2>1, <2>2, <2>3
<1> QED BY <1>1

\* The first level begins at the first character; every level ends, and the next one
\* begins after its separator.
LEMMA BeginsFirst ==
  ASSUME NEW s \in Seq(Chars)
  PROVE  Begins(s, 1, 1)
<1>1. {c \in Cuts(s) : c < 0} = {}
  BY CutsAre
<1>2. CutsBefore(s, 0) = 0
  BY <1>1, FS_EmptySet DEF CutsBefore
<1>3. 1 - 1 = 0 /\ 1 \in 1 .. Len(s) + 1
  BY CutsAre
<1> QED BY <1>2, <1>3, CutsAre DEF Begins

LEMMA LevelExists ==
  ASSUME NEW s \in Seq(Chars), NEW k, NEW i, Begins(s, k, i)
  PROVE  \E e \in Nat : Level(s, k, i, e)
<1> DEFINE E == {n \in Cuts(s) : i <= n}
<1>1. i \in Nat /\ i \in 1 .. Len(s) + 1
  BY CutsAre DEF Begins
<1>2. E \subseteq Nat /\ Len(s) + 1 \in E
  BY <1>1, CutsAre
<1>3. PICK e \in E : \A n \in E : e <= n
  BY <1>2, LeastElement
<1>4. e \in i .. Len(s) + 1 /\ \A n \in i .. e - 1 : n \notin Cuts(s)
  BY <1>1, <1>2, <1>3, CutsAre
<1> QED BY <1>2, <1>3, <1>4 DEF Level

\* Where a level begins and ends, and which one follows.
LEMMA LevelIs ==
  ASSUME NEW s \in Seq(Chars), NEW k, NEW i, NEW e, Level(s, k, i, e)
  PROVE  /\ i \in Nat /\ e \in Nat /\ k \in 1 .. Len(Levels(s)) /\ Len(Levels(s)) \in Nat
         /\ LevelText(s, k, i, e)
         /\ e = Len(s) + 1 => Len(Levels(s)) = k
         /\ e # Len(s) + 1 => Begins(s, k + 1, e + 1) /\ k < Len(Levels(s)) /\ s[e] = "/"
<1>1. /\ i \in Nat \ {0} /\ e \in Nat /\ k \in Nat \ {0} /\ i - 1 \in Cuts(s) /\ e \in Cuts(s)
      /\ CutsBefore(s, i - 1) = k - 1 /\ i - 1 < e /\ (i - 1) + 1 = i /\ e \in i .. Len(s) + 1
      /\ \A n \in i .. e - 1 : n \notin Cuts(s)
  BY CutsAre DEF Level, Begins
<1>2. CutsBefore(s, e) = k
  <2>1. CutsBefore(s, e) = CutsBefore(s, i - 1) + 1
    BY <1>1, CutsOrdered
  <2> QED BY <1>1, <2>1
<1>3. Len(s) + 1 \in Cuts(s) /\ e <= Len(s) + 1 /\ Len(s) \in Nat
  BY <1>1, CutsAre
<1>4. CutsBefore(s, Len(s) + 1) \in Nat /\ k <= CutsBefore(s, Len(s) + 1)
      /\ (e # Len(s) + 1 => k < CutsBefore(s, Len(s) + 1))
  <2>1. CASE e = Len(s) + 1
    BY <1>1, <1>2, <2>1
  <2>2. CASE e < Len(s) + 1
    BY <1>1, <1>2, <1>3, <2>2, CutsOrdered
  <2> QED BY <1>1, <1>3, <2>1, <2>2
<1>5. Len(Levels(s)) = CutsBefore(s, Len(s) + 1)
  BY <1>4 DEF Levels
<1>6. k \in 1 .. CutsBefore(s, Len(s) + 1)
  BY <1>1, <1>4
<1>7. LevelText(s, k, i, e)
  <2>1. /\ (CHOOSE c \in Cuts(s) : CutsBefore(s, c) = k - 1) = i - 1
        /\ (CHOOSE c \in Cuts(s) : CutsBefore(s, c) = k) = e
    BY <1>1, <1>2, CutIs
  <2>2. Levels(s)[k] = SubSeq(s, (CHOOSE c \in Cuts(s) : CutsBefore(s, c) = k - 1) + 1,
                              (CHOOSE c \in Cuts(s) : CutsBefore(s, c) = k) - 1)
    BY <1>6 DEF Levels
  <2> QED BY <1>1, <2>1, <2>2, Zenon DEF LevelText
<1>8. e # Len(s) + 1 => Begins(s, k + 1, e + 1) /\ s[e] = "/"
  <2> SUFFICES ASSUME e # Len(s) + 1 PROVE Begins(s, k + 1, e + 1) /\ s[e] = "/"
    OBVIOUS
  <2>1. e \in 1 .. Len(s) /\ e + 1 \in 1 .. Len(s) + 1 /\ (e + 1) - 1 = e /\ (k + 1) - 1 = k
        /\ k + 1 \in Nat \ {0}
    BY <1>1, <1>3
  <2>2. s[e] = "/"
    BY <1>1, <2>1, CutsAre
  <2> QED BY <1>1, <1>2, <2>1, <2>2, Zenon DEF Begins
<1> QED BY <1>1, <1>2, <1>4, <1>5, <1>6, <1>7, <1>8

Plus == <<"+">>
Hash == <<"#">>

\* No level but the first begins where the first does.
LEMMA BeginsOnce ==
  ASSUME NEW s \in Seq(Chars), NEW i, Begins(s, 1, i)
  PROVE  i = 1
<1>1. i \in Nat /\ i - 1 \in Cuts(s) /\ CutsBefore(s, i - 1) = 0 /\ 0 <= i - 1 /\ 0 \in Cuts(s)
  <2>1. CutsBefore(s, i - 1) = 1 - 1 /\ i \in 1 .. Len(s) + 1
    BY DEF Begins
  <2> QED BY <2>1, CutsAre DEF Begins
<1>2. ASSUME 0 < i - 1 PROVE FALSE
  <2>1. CutsBefore(s, 0) \in Nat /\ CutsBefore(s, 0) < CutsBefore(s, i - 1)
    BY <1>1, <1>2, CutsOrdered
  <2> QED BY <1>1, <2>1
<1> QED BY <1>1, <1>2

\* Every level begins and ends somewhere.
LEMMA LevelsExist ==
  ASSUME NEW s \in Seq(Chars)
  PROVE  /\ Len(Levels(s)) \in Nat \ {0}
         /\ \A k \in 1 .. Len(Levels(s)) : \E i, e : Level(s, k, i, e)
<1> DEFINE G == {k \in Nat : \E i : Begins(s, k + 1, i)}
<1>1. 0 \in G
  <2>1. 0 + 1 = 1
    OBVIOUS
  <2> QED BY <2>1, BeginsFirst
<1>2. Len(Levels(s)) \in Nat \ {0}
  <2>1. PICK e : Level(s, 1, 1, e)
    BY BeginsFirst, LevelExists
  <2>2. Len(Levels(s)) \in Nat /\ 1 \in 1 .. Len(Levels(s))
    BY <2>1, LevelIs
  <2> QED BY <2>2
<1>3. PICK n \in Nat : n + 1 = Len(Levels(s))
  <2>1. Len(Levels(s)) - 1 \in Nat /\ (Len(Levels(s)) - 1) + 1 = Len(Levels(s))
    BY <1>2
  <2> QED BY <2>1
<1>4. ASSUME NEW k \in 1 .. n, k - 1 \in G PROVE k \in G
  <2>1. PICK i : Begins(s, k, i)
    <3>1. (k - 1) + 1 = k
      OBVIOUS
    <3> QED BY <1>4, <3>1
  <2>2. PICK e : Level(s, k, i, e)
    BY <2>1, LevelExists
  <2>3. k # Len(Levels(s))
    BY <1>3
  <2>4. Begins(s, k + 1, e + 1)
    BY <2>2, <2>3, LevelIs
  <2> QED BY <2>4
<1>5. 0 .. n \subseteq G
  <2> HIDE DEF G
  <2> QED BY <1>1, <1>4, IntervalInduction
<1>6. ASSUME NEW k \in 1 .. Len(Levels(s)) PROVE \E i, e : Level(s, k, i, e)
  <2>1. k - 1 \in 0 .. n /\ (k - 1) + 1 = k
    BY <1>3
  <2>2. PICK i : Begins(s, k, i)
    BY <1>5, <2>1
  <2> QED BY <2>2, LevelExists
<1> QED BY <1>2, <1>6

\* A wildcard fills its level of an accepted filter, and nothing follows "#".
LEMMA LevelKinds ==
  ASSUME NEW s \in Seq(Chars), NEW k, NEW i, NEW e, Level(s, k, i, e), i <= Len(s)
  PROVE  /\ s[i] # "+" => Levels(s)[k] # Plus
         /\ s[i] # "#" => Levels(s)[k] # Hash
         /\ s \in Filters /\ s[i] = "+" => e = i + 1 /\ Levels(s)[k] = Plus
         /\ s \in Filters /\ s[i] = "#" =>
              e = i + 1 /\ Levels(s)[k] = Hash /\ e = Len(s) + 1 /\ Len(Levels(s)) = k
<1>1. /\ i \in 1 .. Len(s) /\ Len(s) \in Nat /\ e \in i .. Len(s) + 1
      /\ Levels(s)[k] = SubSeq(s, i, e - 1) /\ i - 1 \in Cuts(s) /\ e \in Cuts(s)
      /\ \A n \in i .. e - 1 : n \notin Cuts(s)
      /\ e = Len(s) + 1 => Len(Levels(s)) = k
  <2>0. LevelText(s, k, i, e) /\ (e = Len(s) + 1 => Len(Levels(s)) = k)
    BY LevelIs
  <2>1. /\ Levels(s)[k] = SubSeq(s, i, e - 1)
        /\ e = Len(s) + 1 => Len(Levels(s)) = k
    BY <2>0, Zenon DEF LevelText
  <2>2. /\ e \in i .. Len(s) + 1 /\ e \in Cuts(s) /\ i - 1 \in Cuts(s) /\ i \in 1 .. Len(s) + 1
        /\ \A n \in i .. e - 1 : n \notin Cuts(s)
    BY Zenon DEF Level, Begins
  <2>3. i \in 1 .. Len(s) /\ Len(s) \in Nat
    BY <2>2, CutsAre
  <2> QED BY <2>1, <2>2, <2>3, Zenon
<1>2. ASSUME NEW c, SubSeq(s, i, e - 1) = <<c>> PROVE s[i] = c
  <2>1. Len(SubSeq(s, i, e - 1)) = 1 /\ SubSeq(s, i, e - 1)[1] = c
    <3>1. Len(<<c>>) = 1 /\ <<c>>[1] = c
      OBVIOUS
    <3> QED BY <1>2, <3>1, Zenon
  <2>2. SubSeq(s, i, e - 1)[1] = s[i] /\ i <= e - 1
    <3>1. e \in Int /\ i \in Int /\ (e - 1) - i + 1 = 1
      BY <1>1, <2>1
    <3> QED BY <1>1, <3>1
  <2> QED BY <2>1, <2>2, Zenon
<1>3. s[i] # "+" => Levels(s)[k] # Plus
  BY <1>1, <1>2, Zenon DEF Plus
<1>4. s[i] # "#" => Levels(s)[k] # Hash
  BY <1>1, <1>2, Zenon DEF Hash
<1>5. ASSUME s \in Filters, s[i] \in {"+", "#"}
      PROVE  e = i + 1 /\ SubSeq(s, i, e - 1) = <<s[i]>> /\ (s[i] = "#" => e = Len(s) + 1)
  <2>1. CharAt(s, i + 1) \in {"nul", "/"}
    BY <1>1, <1>5 DEF Filters, IsWrongTopic
  <2>2. i \notin Cuts(s) /\ e # i
    BY <1>1, <1>5, CutsAre
  <2>3. i + 1 \in Cuts(s)
    <3>1. CASE i = Len(s)
      BY <3>1, CutsAre
    <3>2. CASE i < Len(s)
      <4>1. i + 1 \in 1 .. Len(s)
        BY <1>1, <3>2
      <4>2. s[i + 1] # "nul"
        BY <1>5, <4>1, LettersAre
      <4>3. s[i + 1] = "/"
        BY <2>1, <4>1, <4>2 DEF CharAt
      <4> QED BY <4>1, <4>3, CutsAre
    <3> QED BY <1>1, <3>1, <3>2
  <2>4. e = i + 1
    <3>1. i + 1 \notin i .. e - 1
      BY <1>1, <2>3
    <3> QED BY <1>1, <2>2, <3>1
  <2>5. ASSUME s[i] = "#" PROVE e = Len(s) + 1
    <3>1. ASSUME e <= Len(s) PROVE FALSE
      <4>1. e \in 1 .. Len(s) /\ i \in 1 .. e - 1
        BY <1>1, <2>4, <3>1
      <4>2. s[e] = "/"
        BY <1>1, <4>1, CutsAre
      <4> QED BY <1>5, <2>5, <4>1, <4>2 DEF Filters, IsWrongTopic
    <3> QED BY <1>1, <3>1
  <2>6. SubSeq(s, i, e - 1) = <<s[i]>>
    <3>1. e - 1 = i
      BY <1>1, <2>4
    <3>2. SubSeq(s, i, i) = <<s[i]>>
      <4>1. Len(SubSeq(s, i, i)) = 1 /\ SubSeq(s, i, i) \in Seq(Chars) /\ SubSeq(s, i, i)[1] = s[i]
        BY <1>1
      <4> DEFINE q == SubSeq(s, i, i)
      <4>2. Len(q) = 1 /\ q \in Seq(Chars) /\ q[1] = s[i]
        BY <4>1
      <4> HIDE DEF q
      <4>3. q = <<s[i]>>
        BY <4>2
      <4> QED BY <4>3 DEF q
    <3> QED BY <3>1, <3>2
  <2> QED BY <2>4, <2>5, <2>6
<1>6. s \in Filters /\ s[i] = "+" => e = i + 1 /\ Levels(s)[k] = Plus
  BY <1>1, <1>5, Zenon DEF Plus
<1>7. s \in Filters /\ s[i] = "#" =>
        e = i + 1 /\ Levels(s)[k] = Hash /\ e = Len(s) + 1 /\ Len(Levels(s)) = k
  BY <1>1, <1>5, Zenon DEF Hash
<1> QED BY <1>3, <1>4, <1>6, <1>7

(* ------------------------------ the rule, by levels ------------------------------ *)

\* The levels before k match.
Agreed(t, f, k) ==
  /\ \A n \in 1 .. k - 1 : Levels(f)[n] \in {Plus, Levels(t)[n]} /\ Levels(f)[n] # Hash
  /\ k > 1 /\ t[1] = "$" => Levels(f)[1] \notin {Plus, Hash}

\* Matches, by the number of levels that are compared one by one.
Rule(t, f, fixed) ==
  /\ IF Levels(f)[Len(Levels(f))] = Hash
     THEN fixed = Len(Levels(f)) - 1 /\ Len(Levels(t)) >= fixed
     ELSE fixed = Len(Levels(f)) /\ Len(Levels(t)) = fixed
  /\ \A k \in 1 .. fixed : Levels(f)[k] \in {Plus, Levels(t)[k]}
  /\ t[1] = "$" => Levels(f)[1] \notin {Plus, Hash}

\* The same rule.
LEMMA MatchesIs ==
  ASSUME NEW t, NEW f
  PROVE  Matches(t, f) <=> \E fixed : Rule(t, f, fixed)
<1>1. CASE Levels(f)[Len(Levels(f))] = Hash
  BY <1>1, Zenon DEF Matches, Rule, Plus, Hash
<1>2. CASE Levels(f)[Len(Levels(f))] # Hash
  BY <1>2, Zenon DEF Matches, Rule, Plus, Hash
<1> QED BY <1>1, <1>2

\* A level that does not match, too few or too many of them, or a wildcard for a topic of the server.
LEMMA MatchesNot ==
  ASSUME NEW t \in Seq(Chars), NEW f \in Seq(Chars), NEW k \in 1 .. Len(Levels(f)),
         \/ k \in 1 .. Len(Levels(t)) /\ Levels(f)[k] \notin {Plus, Levels(t)[k], Hash}
         \/ Len(Levels(t)) = k - 1 /\ Levels(f)[k] # Hash
         \/ Len(Levels(t)) > k /\ Len(Levels(f)) = k /\ Levels(f)[k] # Hash
         \/ t[1] = "$" /\ Levels(f)[1] \in {Plus, Hash}
  PROVE  ~Matches(t, f)
<1> SUFFICES ASSUME NEW fixed, Rule(t, f, fixed) PROVE FALSE
  BY MatchesIs
<1>1. Len(Levels(t)) \in Nat \ {0} /\ Len(Levels(f)) \in Nat \ {0}
  BY LevelsExist
<1>2. CASE Levels(f)[Len(Levels(f))] = Hash
  BY <1>1, <1>2 DEF Rule
<1>3. CASE Levels(f)[Len(Levels(f))] # Hash
  BY <1>1, <1>3 DEF Rule
<1> QED BY <1>2, <1>3

\* All the levels match, or those before "#".
LEMMA MatchesAll ==
  ASSUME NEW t \in Seq(Chars), NEW f \in Seq(Chars), NEW k \in 1 .. Len(Levels(f)),
         Len(Levels(f)) = k,
         \/ Len(Levels(t)) = k /\ Agreed(t, f, k + 1)
         \/ /\ Levels(f)[k] = Hash /\ Len(Levels(t)) >= k - 1 /\ Agreed(t, f, k)
            /\ k = 1 => t[1] # "$"
  PROVE  Matches(t, f)
<1>1. Len(Levels(t)) \in Nat \ {0} /\ Len(Levels(f)) \in Nat \ {0}
  BY LevelsExist
<1>2. CASE Levels(f)[k] = Hash
  <2>1. ~Agreed(t, f, k + 1)
    BY <1>1, <1>2 DEF Agreed
  <2>2. Rule(t, f, k - 1)
    BY <1>1, <1>2, <2>1 DEF Rule, Agreed
  <2> QED BY <2>2, MatchesIs
<1>3. CASE Levels(f)[k] # Hash
  <2>1. Rule(t, f, k)
    BY <1>1, <1>3 DEF Rule, Agreed
  <2> QED BY <2>1, MatchesIs
<1> QED BY <1>2, <1>3

\* One more level matches.
LEMMA AgreedOn ==
  ASSUME NEW t, NEW f, NEW k \in Nat \ {0}, Agreed(t, f, k),
         Levels(f)[k] \in {Plus, Levels(t)[k]}, Levels(f)[k] # Hash,
         k = 1 /\ t[1] = "$" => Levels(f)[1] \notin {Plus, Hash}
  PROVE  Agreed(t, f, k + 1)
<1>1. \A n \in 1 .. (k + 1) - 1 : n = k \/ n \in 1 .. k - 1
  OBVIOUS
<1> QED BY <1>1 DEF Agreed

(* -------------------------- strings without exceptions -------------------------- *)

\* Topics and filters are strings, and "nul" follows them only.
LEMMA TextIs ==
  ASSUME NEW s \in Topics \cup Filters
  PROVE  /\ s \in Seq(Chars) /\ Len(s) \in Nat \ {0}
         /\ \A n \in Nat \ {0} : CharAt(s, n) = (IF n <= Len(s) THEN s[n] ELSE "nul")
         /\ \A n \in 1 .. Len(s) : s[n] # "nul"
<1>1. s \in Seq(Chars)
  BY DEF Topics, Filters, Chars
<1> QED BY <1>1, LettersAre DEF CharAt

Plain(t, f) == t \in Topics /\ f \in Filters /\ ~Excepted(t, f)

\* No level begins at the end of a string, nor with "$" but the first.
LEMMA PlainIs ==
  ASSUME NEW t, NEW f, Plain(t, f)
  PROVE  /\ \A k, i : Begins(t, k, i) => i <= Len(t)
         /\ \A k, j : Begins(f, k, j) => j <= Len(f)
         /\ \A k, i : Begins(t, k, i) /\ k > 1 => t[i] # "$"
<1>1. /\ t \in Seq(Chars) /\ Len(t) \in Nat \ {0} /\ t[Len(t)] # "/"
      /\ f \in Seq(Chars) /\ Len(f) \in Nat \ {0} /\ f[Len(f)] # "/"
  BY TextIs DEF Plain, Excepted
<1>2. ASSUME NEW s \in Seq(Chars), Len(s) \in Nat \ {0}, s[Len(s)] # "/", NEW k, NEW i, Begins(s, k, i)
      PROVE  i <= Len(s)
  <2>1. i \in 1 .. Len(s) + 1 /\ i - 1 \in Cuts(s)
    BY <1>2 DEF Begins
  <2>2. Len(s) \notin Cuts(s)
    BY <1>2, CutsAre
  <2> QED BY <1>2, <2>1, <2>2
<1>3. ASSUME NEW k, NEW i, Begins(t, k, i), k > 1, t[i] = "$" PROVE FALSE
  <2>1. PICK e : Level(t, k, i, e)
    BY <1>1, <1>3, LevelExists
  <2>2. /\ i \in Nat /\ e \in Nat /\ k \in 1 .. Len(Levels(t)) /\ Len(Levels(t)) \in Nat
        /\ LevelText(t, k, i, e)
    BY <1>1, <2>1, LevelIs
  <2>3. i \in 1 .. Len(t) /\ i \notin Cuts(t) /\ e \in Cuts(t) /\ e \in i .. Len(t) + 1
    <3>1. i \in 1 .. Len(t) + 1 /\ e \in Cuts(t) /\ e \in i .. Len(t) + 1
      BY <2>1 DEF Level, Begins
    <3>2. i \in 1 .. Len(t)
      BY <1>1, <1>2, <1>3, <3>1
    <3> QED BY <1>1, <1>3, <3>1, <3>2, CutsAre
  <2>4. i <= e - 1
    BY <1>1, <2>2, <2>3
  <2>5. CharAt(SubSeq(t, i, e - 1), 1) = t[i]
    BY <1>1, <2>2, <2>3, <2>4 DEF CharAt
  <2>6. CharAt(Levels(t)[k], 1) = "$"
    BY <1>3, <2>2, <2>5, Zenon DEF LevelText
  <2>7. k \in 2 .. Len(Levels(t))
    BY <1>3, <2>2
  <2> QED BY <2>6, <2>7 DEF Plain, Excepted
<1> QED BY <1>1, <1>2, <1>3

\* The suffixes that are excepted, by their characters.
LEMMA SuffixIs ==
  ASSUME NEW f \in Seq(Chars), NEW j \in 1 .. Len(f), f[j] = "+", f[j + 1] = "/"
  PROVE  /\ Len(f) = j + 2 /\ f[j + 2] = "+" => IsSuffix(<<"+", "/", "+">>, f)
         /\ Len(f) = j + 3 /\ f[j + 2] = "/" /\ f[j + 3] = "#" => IsSuffix(<<"+", "/", "/", "#">>, f)
<1>1. ASSUME Len(f) = j + 2, f[j + 2] = "+" PROVE IsSuffix(<<"+", "/", "+">>, f)
  <2> DEFINE q == <<"+", "/", "+">>
  <2>1. q \in Seq({"+", "/"}) /\ Len(q) = 3 /\ q[1] = "+" /\ q[2] = "/" /\ q[3] = "+"
    OBVIOUS
  <2> HIDE DEF q
  <2> DEFINE a == Reverse(q)  b == Reverse(f)
  <2>2. /\ a \in Seq({"+", "/"}) /\ Len(a) = 3 /\ a[1] = "+" /\ a[2] = "/" /\ a[3] = "+"
    BY <2>1 DEF Reverse
  <2>3. /\ b \in Seq(Chars) /\ Len(b) >= 3 /\ b[1] = "+" /\ b[2] = "/" /\ b[3] = "+"
    BY <1>1 DEF Reverse
  <2> HIDE DEF a, b
  <2>4. SubSeq(a, 1, Len(a)) = SubSeq(b, 1, Len(a))
    BY <2>2, <2>3
  <2>5. IsPrefix(a, b)
    BY <2>2, <2>3, <2>4 DEF IsPrefix
  <2> QED BY <2>5, Zenon DEF a, b, q, IsSuffix
<1>2. ASSUME Len(f) = j + 3, f[j + 2] = "/", f[j + 3] = "#" PROVE IsSuffix(<<"+", "/", "/", "#">>, f)
  <2> DEFINE q == <<"+", "/", "/", "#">>
  <2>1. /\ q \in Seq({"+", "/", "#"}) /\ Len(q) = 4
        /\ q[1] = "+" /\ q[2] = "/" /\ q[3] = "/" /\ q[4] = "#"
    OBVIOUS
  <2> HIDE DEF q
  <2> DEFINE a == Reverse(q)  b == Reverse(f)
  <2>2. /\ a \in Seq({"+", "/", "#"}) /\ Len(a) = 4
        /\ a[1] = "#" /\ a[2] = "/" /\ a[3] = "/" /\ a[4] = "+"
    BY <2>1 DEF Reverse
  <2>3. /\ b \in Seq(Chars) /\ Len(b) >= 4
        /\ b[1] = "#" /\ b[2] = "/" /\ b[3] = "/" /\ b[4] = "+"
    BY <1>2 DEF Reverse
  <2> HIDE DEF a, b
  <2>4. SubSeq(a, 1, Len(a)) = SubSeq(b, 1, Len(a))
    BY <2>2, <2>3
  <2>5. IsPrefix(a, b)
    BY <2>2, <2>3, <2>4 DEF IsPrefix
  <2> QED BY <2>5, Zenon DEF a, b, q, IsSuffix
<1> QED BY <1>1, <1>2

LEMMA ShortSequences ==
  ASSUME NEW S, NEW q \in Seq(S)
  PROVE  /\ Len(q) = 1 => q = <<q[1]>>
         /\ Len(q) = 2 => q = <<q[1], q[2]>>
<1>1. ASSUME Len(q) = 1 PROVE q = <<q[1]>>
  BY <1>1
<1>2. ASSUME Len(q) = 2 PROVE q = <<q[1], q[2]>>
  BY <1>2
<1> QED BY <1>1, <1>2

\* What AtEnd looks for in the rest of the filter, and what it returns.
EndsWell(f, j) == SubSeq(f, j, Len(f)) \in {<<"+">>, <<"#">>, <<"/", "#">>}
Answer(t, f, i, j) == \/ CharAt(t, i) = "nul" /\ EndsWell(f, j)
                      \/ CharAt(t, i) = CharAt(f, j)

LEMMA EndsWellIs ==
  ASSUME NEW f \in Seq(Chars), NEW j \in 1 .. Len(f)
  PROVE  EndsWell(f, j) <=> \/ Len(f) = j /\ f[j] \in {"+", "#"}
                            \/ Len(f) = j + 1 /\ f[j] = "/" /\ f[j + 1] = "#"
<1> DEFINE q == SubSeq(f, j, Len(f))
<1>1. /\ q \in Seq(Chars) /\ Len(q) = Len(f) - j + 1 /\ Len(q) \in Nat
      /\ q[1] = f[j] /\ (Len(q) = 2 => q[2] = f[j + 1])
  BY DEF Chars
<1>2. EndsWell(f, j) <=> q \in {<<"+">>, <<"#">>, <<"/", "#">>}
  BY Zenon DEF EndsWell
<1> HIDE DEF q
<1>3. /\ (q = <<"+">>) <=> (Len(q) = 1 /\ q[1] = "+")
      /\ (q = <<"#">>) <=> (Len(q) = 1 /\ q[1] = "#")
      /\ (q = <<"/", "#">>) <=> (Len(q) = 2 /\ q[1] = "/" /\ q[2] = "#")
  <2>1. q \in Seq(Chars)
    BY <1>1
  <2>2. /\ Len(q) = 1 => q = <<q[1]>>
        /\ Len(q) = 2 => q = <<q[1], q[2]>>
    BY <2>1, ShortSequences, Zenon
  <2>3. /\ Len(<<"+">>) = 1 /\ <<"+">>[1] = "+" /\ Len(<<"#">>) = 1 /\ <<"#">>[1] = "#"
        /\ Len(<<"/", "#">>) = 2 /\ <<"/", "#">>[1] = "/" /\ <<"/", "#">>[2] = "#"
    OBVIOUS
  <2> QED BY <2>2, <2>3, Zenon
<1>4. EndsWell(f, j) <=> \/ Len(q) = 1 /\ q[1] \in {"+", "#"}
                         \/ Len(q) = 2 /\ q[1] = "/" /\ q[2] = "#"
  BY <1>2, <1>3, Zenon
<1>5. (Len(q) = 1 <=> Len(f) = j) /\ (Len(q) = 2 <=> Len(f) = j + 1)
  BY <1>1
<1> QED BY <1>1, <1>4, <1>5

\* The walk is at the start of level k of both, and the levels before match.
Met(t, f, k, i, j) == Begins(t, k, i) /\ Begins(f, k, j) /\ Agreed(t, f, k)

\* ... or one of them has ended, and what AtEnd returns is right.
Follows(t, f, i, j) ==
  \/ \E k : Met(t, f, k, i, j)
  \/ /\ CharAt(t, i) = "nul" \/ CharAt(f, j) = "nul"
     /\ Answer(t, f, i, j) <=> Matches(t, f)

\* What becomes of the walk when the levels up to k match.
LEMMA AfterLevel ==
  ASSUME NEW t, NEW f, Plain(t, f), NEW k, NEW i, NEW e, Level(t, k, i, e),
         NEW j, NEW g, Level(f, k, j, g), Agreed(t, f, k + 1)
  PROVE  /\ e # Len(t) + 1 /\ g # Len(f) + 1 => Met(t, f, k + 1, e + 1, g + 1)
         /\ e = Len(t) + 1 /\ g = Len(f) + 1 => Matches(t, f)
         /\ e = Len(t) + 1 /\ g # Len(f) + 1 =>
              /\ g + 1 <= Len(f) /\ f[g] = "/"
              /\ Matches(t, f) <=> f[g + 1] = "#"
              /\ f[g + 1] = "#" => Len(f) = g + 1
         /\ e # Len(t) + 1 /\ g = Len(f) + 1 => ~Matches(t, f)
<1>1. t \in Seq(Chars) /\ f \in Seq(Chars) /\ f \in Filters
  BY TextIs DEF Plain
<1>2. /\ e \in Nat /\ k \in 1 .. Len(Levels(t)) /\ Len(Levels(t)) \in Nat
      /\ e = Len(t) + 1 => Len(Levels(t)) = k
      /\ e # Len(t) + 1 => Begins(t, k + 1, e + 1) /\ k < Len(Levels(t))
  BY <1>1, LevelIs
<1>3. /\ g \in Nat /\ k \in 1 .. Len(Levels(f)) /\ Len(Levels(f)) \in Nat
      /\ g = Len(f) + 1 => Len(Levels(f)) = k
      /\ g # Len(f) + 1 => Begins(f, k + 1, g + 1) /\ k < Len(Levels(f)) /\ f[g] = "/"
  BY <1>1, LevelIs
<1>4. ASSUME e # Len(t) + 1, g # Len(f) + 1 PROVE Met(t, f, k + 1, e + 1, g + 1)
  BY <1>2, <1>3, <1>4 DEF Met
<1>5. ASSUME e = Len(t) + 1, g = Len(f) + 1 PROVE Matches(t, f)
  BY <1>1, <1>2, <1>3, <1>5, MatchesAll
<1>6. ASSUME e = Len(t) + 1, g # Len(f) + 1
      PROVE  /\ g + 1 <= Len(f)
             /\ Matches(t, f) <=> f[g + 1] = "#"
             /\ f[g + 1] = "#" => Len(f) = g + 1
  <2>1. PICK d : Level(f, k + 1, g + 1, d)
    BY <1>1, <1>3, <1>6, LevelExists
  <2>2. g + 1 <= Len(f)
    BY <1>3, <1>6, PlainIs
  <2>3. PICK n \in 1 .. Len(Levels(f)) : n = k + 1 /\ n - 1 = k /\ n # 1
    <3>1. k + 1 \in 1 .. Len(Levels(f)) /\ (k + 1) - 1 = k /\ k + 1 # 1
      BY <1>3, <1>6
    <3> QED BY <3>1
  <2>4. CASE f[g + 1] = "#"
    <3>1. Levels(f)[n] = Hash /\ Len(Levels(f)) = n /\ d = Len(f) + 1 /\ d = (g + 1) + 1
      BY <1>1, <2>1, <2>2, <2>3, <2>4, LevelKinds
    <3>2. Matches(t, f)
      BY <1>1, <1>2, <1>6, <2>3, <3>1, MatchesAll
    <3>3. Len(f) = g + 1
      BY <1>1, <1>3, <3>1, CutsAre
    <3> QED BY <2>2, <2>4, <3>2, <3>3
  <2>5. CASE f[g + 1] # "#"
    <3>1. Levels(f)[n] # Hash
      BY <1>1, <2>1, <2>2, <2>3, <2>5, LevelKinds
    <3>2. ~Matches(t, f)
      BY <1>1, <1>2, <1>6, <2>3, <3>1, MatchesNot
    <3> QED BY <2>2, <2>5, <3>2
  <2> QED BY <2>4, <2>5
<1>7. ASSUME e # Len(t) + 1, g = Len(f) + 1 PROVE ~Matches(t, f)
  <2>1. Levels(f)[k] # Hash
    <3>1. k \in 1 .. (k + 1) - 1
      BY <1>2
    <3> QED BY <3>1 DEF Agreed
  <2> QED BY <1>1, <1>2, <1>3, <1>7, <2>1, MatchesNot
<1> QED BY <1>3, <1>4, <1>5, <1>6, <1>7

\* The walk at the start of a level, of strings that do not end there.
LEMMA MetIs ==
  ASSUME NEW t, NEW f, Plain(t, f), NEW k, NEW i, NEW j, Met(t, f, k, i, j)
  PROVE  \E e, g :
           /\ Level(t, k, i, e) /\ Level(f, k, j, g)
           /\ k \in 1 .. Len(Levels(t)) /\ k \in 1 .. Len(Levels(f)) /\ k \in Nat \ {0}
           /\ i \in 1 .. Len(t) /\ j \in 1 .. Len(f) /\ e \in i .. Len(t) + 1 /\ g \in j .. Len(f) + 1
           /\ k = 1 => i = 1
           /\ k > 1 => t[i] # "$"
<1>1. t \in Seq(Chars) /\ f \in Seq(Chars)
  BY TextIs DEF Plain
<1>2. PICK e : Level(t, k, i, e)
  BY <1>1, LevelExists DEF Met
<1>3. PICK g : Level(f, k, j, g)
  BY <1>1, LevelExists DEF Met
<1>4. k \in 1 .. Len(Levels(t)) /\ k \in 1 .. Len(Levels(f)) /\ k \in Nat \ {0}
  BY <1>1, <1>2, <1>3, LevelIs DEF Met, Begins
<1>5. /\ i \in 1 .. Len(t) + 1 /\ j \in 1 .. Len(f) + 1
      /\ e \in i .. Len(t) + 1 /\ g \in j .. Len(f) + 1
  BY <1>2, <1>3 DEF Level, Begins
<1>6. i <= Len(t) /\ j <= Len(f) /\ (k > 1 => t[i] # "$")
  BY PlainIs DEF Met
<1>7. k = 1 => i = 1
  BY <1>1, BeginsOnce DEF Met
<1>8. i \in 1 .. Len(t) /\ j \in 1 .. Len(f)
  BY <1>1, <1>5, <1>6, CutsAre
<1> QED BY <1>2, <1>3, <1>4, <1>5, <1>6, <1>7, <1>8

\* The characters of a part of a string.
LEMMA PieceIs ==
  ASSUME NEW s \in Seq(Chars), NEW i \in Nat \ {0}, NEW e \in Nat, i <= e, e - 1 <= Len(s)
  PROVE  /\ SubSeq(s, i, e - 1) \in Seq(Chars) /\ Len(SubSeq(s, i, e - 1)) = e - i
         /\ \A c \in 0 .. (e - i) - 1 : SubSeq(s, i, e - 1)[c + 1] = s[i + c]
<1>1. SubSeq(s, i, e - 1) \in Seq(Chars)
  OBVIOUS
<1>2. Len(SubSeq(s, i, e - 1)) = e - i
  OBVIOUS
<1>3. \A c \in 0 .. (e - i) - 1 : SubSeq(s, i, e - 1)[c + 1] = s[i + c]
  OBVIOUS
<1> QED BY <1>1, <1>2, <1>3

\* Two levels are the same when they are as long and have the same characters.
SameText(s, i, e, r, j, g) ==
  e - i = g - j /\ \A c \in 0 .. (e - i) - 1 : s[i + c] = r[j + c]
LEMMA SameLevels ==
  ASSUME NEW s \in Seq(Chars), NEW r \in Seq(Chars), NEW k, NEW i, NEW e, Level(s, k, i, e),
         NEW l, NEW j, NEW g, Level(r, l, j, g)
  PROVE  (Levels(s)[k] = Levels(r)[l]) <=> SameText(s, i, e, r, j, g)
<1> DEFINE x == SubSeq(s, i, e - 1)  y == SubSeq(r, j, g - 1)
<1>1. Levels(s)[k] = x /\ Levels(r)[l] = y
  <2>1. LevelText(s, k, i, e) /\ LevelText(r, l, j, g)
    BY LevelIs
  <2> QED BY <2>1, Zenon DEF LevelText
<1>2. /\ i \in 1 .. Len(s) + 1 /\ e \in i .. Len(s) + 1 /\ Len(s) \in Nat
      /\ j \in 1 .. Len(r) + 1 /\ g \in j .. Len(r) + 1 /\ Len(r) \in Nat
  BY CutsAre DEF Level, Begins
<1>x. x \in Seq(Chars) /\ Len(x) = e - i /\ \A c \in 0 .. (e - i) - 1 : x[c + 1] = s[i + c]
  <2>1. i \in Nat \ {0} /\ e \in Nat /\ i <= e /\ e - 1 <= Len(s)
    BY <1>2
  <2> QED BY <2>1, PieceIs
<1>y. y \in Seq(Chars) /\ Len(y) = g - j /\ \A c \in 0 .. (g - j) - 1 : y[c + 1] = r[j + c]
  <2>1. j \in Nat \ {0} /\ g \in Nat /\ j <= g /\ g - 1 <= Len(r)
    BY <1>2
  <2> QED BY <2>1, PieceIs
<1> HIDE DEF x, y
<1>3. /\ x \in Seq(Chars) /\ Len(x) = e - i /\ \A c \in 0 .. (e - i) - 1 : x[c + 1] = s[i + c]
      /\ y \in Seq(Chars) /\ Len(y) = g - j /\ \A c \in 0 .. (g - j) - 1 : y[c + 1] = r[j + c]
  BY <1>x, <1>y
<1>4. ASSUME x = y
      PROVE  e - i = g - j /\ \A c \in 0 .. (e - i) - 1 : s[i + c] = r[j + c]
  <2>1. e - i = g - j
    BY <1>3, <1>4
  <2>2. ASSUME NEW c \in 0 .. (e - i) - 1 PROVE s[i + c] = r[j + c]
    <3>1. x[c + 1] = s[i + c] /\ y[c + 1] = r[j + c]
      BY <1>3, <2>1
    <3> QED BY <1>4, <3>1
  <2> QED BY <2>1, <2>2
<1>5. ASSUME e - i = g - j, \A c \in 0 .. (e - i) - 1 : s[i + c] = r[j + c]
      PROVE  x = y
  <2>1. Len(x) = Len(y) /\ Len(x) \in Nat
    BY <1>2, <1>3, <1>5
  <2>2. ASSUME NEW n \in 1 .. Len(x) PROVE x[n] = y[n]
    <3>1. PICK c \in 0 .. (e - i) - 1 : n = c + 1
      <4>1. n - 1 \in 0 .. (e - i) - 1 /\ n = (n - 1) + 1
        BY <1>2, <1>3
      <4> QED BY <4>1
    <3>2. x[c + 1] = s[i + c] /\ y[c + 1] = r[j + c]
      BY <1>3, <1>5
    <3> QED BY <1>5, <3>1, <3>2
  <2> QED BY <1>3, <2>1, <2>2
<1>6. (x = y) <=> SameText(s, i, e, r, j, g)
  BY <1>4, <1>5 DEF SameText
<1> QED BY <1>1, <1>6, Zenon

\* The end of the level of a character that is no separator, and of one that is.
LEMMA EndsAfter ==
  ASSUME NEW s \in Seq(Chars), NEW k, NEW i, NEW e, Level(s, k, i, e), NEW n \in Nat
  PROVE  /\ (\A c \in 0 .. n - 1 : i + c <= Len(s) /\ s[i + c] # "/") => i + n <= e
         /\ i + n \in Cuts(s) => e <= i + n
         /\ i + n <= e => \A c \in 0 .. n - 1 : i + c <= Len(s) /\ s[i + c] # "/"
<1>1. /\ i \in 1 .. Len(s) + 1 /\ e \in i .. Len(s) + 1 /\ e \in Cuts(s) /\ Len(s) \in Nat
      /\ \A m \in i .. e - 1 : m \notin Cuts(s)
      /\ \A m \in 1 .. Len(s) : m \in Cuts(s) <=> s[m] = "/"
  <2>1. /\ i \in 1 .. Len(s) + 1 /\ e \in i .. Len(s) + 1 /\ e \in Cuts(s)
        /\ \A m \in i .. e - 1 : m \notin Cuts(s)
    BY DEF Level, Begins
  <2> QED BY <2>1, CutsAre
<1>2. ASSUME \A c \in 0 .. n - 1 : i + c <= Len(s) /\ s[i + c] # "/" PROVE i + n <= e
  <2> SUFFICES ASSUME e < i + n PROVE FALSE
    BY <1>1
  <2>1. PICK c \in 0 .. n - 1 : i + c = e
    <3>1. e - i \in 0 .. n - 1 /\ i + (e - i) = e
      BY <1>1
    <3> QED BY <3>1
  <2>2. e \in 1 .. Len(s) /\ s[e] # "/"
    <3>1. i + c <= Len(s) /\ s[i + c] # "/"
      BY <1>2
    <3>2. e <= Len(s) /\ s[e] # "/"
      BY <2>1, <3>1, Zenon
    <3> QED BY <1>1, <3>2
  <2> QED BY <1>1, <2>2
<1>3. i + n \in Cuts(s) => e <= i + n
  <2>1. i + n < e => i + n \in i .. e - 1
    BY <1>1
  <2> QED BY <1>1, <2>1
<1>4. ASSUME i + n <= e, NEW c \in 0 .. n - 1 PROVE i + c <= Len(s) /\ s[i + c] # "/"
  <2>1. i + c \in i .. e - 1 /\ i + c \in 1 .. Len(s)
    BY <1>1, <1>4
  <2> QED BY <1>1, <2>1
<1> QED BY <1>2, <1>3, <1>4

\* A level of the filter that holds no wildcard is the same in the topic, or nothing matches.
LEMMA PlainLevel ==
  ASSUME NEW t, NEW f, Plain(t, f), NEW k, NEW i, NEW j, Met(t, f, k, i, j),
         NEW e, NEW g, Level(t, k, i, e), Level(f, k, j, g), f[j] \notin {"+", "#"}
  PROVE  /\ Levels(f)[k] = Levels(t)[k] => Agreed(t, f, k + 1)
         /\ Levels(f)[k] # Levels(t)[k] => ~Matches(t, f)
<1>1. t \in Seq(Chars) /\ f \in Seq(Chars) /\ f \in Filters
  BY TextIs DEF Plain
<1>2. k \in 1 .. Len(Levels(t)) /\ k \in 1 .. Len(Levels(f)) /\ k \in Nat \ {0} /\ j \in 1 .. Len(f)
  BY MetIs
<1>3. Levels(f)[k] \notin {Plus, Hash}
  BY <1>1, <1>2, LevelKinds
<1>4. Levels(f)[k] = Levels(t)[k] => Agreed(t, f, k + 1)
  BY <1>2, <1>3, AgreedOn DEF Met
<1>5. Levels(f)[k] # Levels(t)[k] => ~Matches(t, f)
  BY <1>1, <1>2, <1>3, MatchesNot
<1> QED BY <1>4, <1>5

\* Separator leaves an empty level.
LEMMA SeparatorGoes ==
  ASSUME NEW t, NEW f, Plain(t, f), NEW k, NEW i, NEW j, Met(t, f, k, i, j), f[j] = "/"
  PROVE  /\ t[i] = "/" => Met(t, f, k + 1, i + 1, j + 1)
         /\ t[i] # "/" => ~Matches(t, f)
<1>1. t \in Seq(Chars) /\ f \in Seq(Chars)
  BY TextIs DEF Plain
<1>2. PICK e, g :
           /\ Level(t, k, i, e) /\ Level(f, k, j, g)
           /\ i \in 1 .. Len(t) /\ j \in 1 .. Len(f) /\ e \in i .. Len(t) + 1 /\ g \in j .. Len(f) + 1
  BY MetIs
<1>3. g = j
  <2>1. PICK n \in Nat : j + n = j /\ j + n \in Cuts(f)
    <3>1. 0 \in Nat /\ j + 0 = j /\ j \in Cuts(f)
      BY <1>1, <1>2, CutsAre
    <3> QED BY <3>1
  <2>2. g <= j + n
    BY <1>1, <1>2, <2>1, EndsAfter
  <2> QED BY <1>2, <2>1, <2>2
<1>4. /\ Levels(f)[k] = Levels(t)[k] => Agreed(t, f, k + 1)
      /\ Levels(f)[k] # Levels(t)[k] => ~Matches(t, f)
  BY <1>2, PlainLevel
<1>5. CASE t[i] = "/"
  <2>1. e = i
    <3>1. PICK n \in Nat : i + n = i /\ i + n \in Cuts(t)
      <4>1. 0 \in Nat /\ i + 0 = i /\ i \in Cuts(t)
        BY <1>1, <1>2, <1>5, CutsAre
      <4> QED BY <4>1
    <3>2. e <= i + n
      BY <1>1, <1>2, <3>1, EndsAfter
    <3> QED BY <1>2, <3>1, <3>2
  <2>2. Levels(f)[k] = Levels(t)[k]
    BY <1>1, <1>2, <1>3, <2>1, SameLevels DEF SameText
  <2>3. e # Len(t) + 1 /\ g # Len(f) + 1
    BY <1>1, <1>2, <1>3, <2>1, CutsAre
  <2>4. Met(t, f, k + 1, e + 1, g + 1)
    BY <1>2, <1>4, <2>2, <2>3, AfterLevel
  <2> QED BY <1>3, <1>5, <2>1, <2>4
<1>6. CASE t[i] # "/"
  <2>1. i + 1 <= e
    <3>1. \A c \in 0 .. 1 - 1 : i + c <= Len(t) /\ t[i + c] # "/"
      BY <1>2, <1>6
    <3> QED BY <1>1, <1>2, <3>1, EndsAfter
  <2>2. Levels(t)[k] # Levels(f)[k]
    BY <1>1, <1>2, <1>3, <2>1, SameLevels DEF SameText
  <2> QED BY <1>4, <1>6, <2>2
<1> QED BY <1>5, <1>6

\* SingleLevel leaves the level, of both strings unless one of them ends there.
LEMMA SingleLevelGoes ==
  ASSUME NEW t, NEW f, Plain(t, f), NEW k, NEW i, NEW j, Met(t, f, k, i, j),
         f[j] = "+", t[i] # "$", NEW e, Level(t, k, i, e)
  PROVE  Follows(t, f, IF CharAt(t, e) = "nul" THEN e ELSE e + 1,
                    IF CharAt(f, j + 1) = "nul" THEN j + 1 ELSE j + 2)
<1>1. /\ t \in Seq(Chars) /\ f \in Seq(Chars) /\ f \in Filters
      /\ Len(t) \in Nat \ {0} /\ Len(f) \in Nat \ {0}
      /\ \A n \in Nat \ {0} : CharAt(t, n) = (IF n <= Len(t) THEN t[n] ELSE "nul")
      /\ \A n \in Nat \ {0} : CharAt(f, n) = (IF n <= Len(f) THEN f[n] ELSE "nul")
      /\ \A n \in 1 .. Len(t) : t[n] # "nul"
      /\ \A n \in 1 .. Len(f) : f[n] # "nul"
  BY TextIs DEF Plain
<1>2. PICK g :
           /\ Level(f, k, j, g)
           /\ k \in Nat \ {0} /\ i \in 1 .. Len(t) /\ j \in 1 .. Len(f) /\ g \in j .. Len(f) + 1
           /\ k = 1 => i = 1
  BY MetIs
<1>3. e \in i .. Len(t) + 1
  BY DEF Level
<1>4. g = j + 1 /\ Levels(f)[k] = Plus
  BY <1>1, <1>2, LevelKinds
<1>5. Plus # Hash
  BY DEF Plus, Hash
<1>6. Agreed(t, f, k + 1)
  BY <1>2, <1>4, <1>5, AgreedOn DEF Met
<1>7. /\ e # Len(t) + 1 /\ g # Len(f) + 1 => Met(t, f, k + 1, e + 1, g + 1)
      /\ e = Len(t) + 1 /\ g = Len(f) + 1 => Matches(t, f)
      /\ e = Len(t) + 1 /\ g # Len(f) + 1 =>
              /\ g + 1 <= Len(f) /\ f[g] = "/"
              /\ Matches(t, f) <=> f[g + 1] = "#"
              /\ f[g + 1] = "#" => Len(f) = g + 1
      /\ e # Len(t) + 1 /\ g = Len(f) + 1 => ~Matches(t, f)
  BY <1>2, <1>6, AfterLevel
<1>8. /\ CharAt(t, e) = "nul" <=> e = Len(t) + 1
      /\ CharAt(f, g) = "nul" <=> g = Len(f) + 1
      /\ j + 2 = g + 1
  BY <1>1, <1>2, <1>3, <1>4
<1>9. CASE e # Len(t) + 1 /\ g # Len(f) + 1
  BY <1>4, <1>7, <1>8, <1>9 DEF Follows
<1>10. CASE e = Len(t) + 1 /\ g = Len(f) + 1
  BY <1>4, <1>7, <1>8, <1>10 DEF Follows, Answer
<1>11. CASE e = Len(t) + 1 /\ g # Len(f) + 1
  <2>1. PICK r \in 1 .. Len(f) : r = g + 1
    BY <1>2, <1>4, <1>7, <1>11
  <2>2. CharAt(t, e) # CharAt(f, r)
    BY <1>1, <1>8, <1>11, <2>1
  <2>3. EndsWell(f, r) <=> f[r] = "#"
    <3>1. ASSUME Len(f) = r, f[r] = "+" PROVE FALSE
      <4>1. f[j + 1] = "/" /\ Len(f) = j + 2 /\ f[j + 2] = "+"
        BY <1>4, <1>7, <1>8, <1>11, <2>1, <3>1
      <4>2. IsSuffix(<<"+", "/", "+">>, f)
        BY <1>1, <1>2, <4>1, SuffixIs
      <4> QED BY <4>2, Zenon DEF Plain, Excepted
    <3>2. ASSUME Len(f) = r + 1, f[r] = "/", f[r + 1] = "#" PROVE FALSE
      <4>1. f[j + 1] = "/" /\ Len(f) = j + 3 /\ f[j + 2] = "/" /\ f[j + 3] = "#"
        <5>1. r + 1 = j + 3
          BY <1>2, <1>4, <2>1
        <5> QED BY <1>4, <1>7, <1>8, <1>11, <2>1, <3>2, <5>1
      <4>2. IsSuffix(<<"+", "/", "/", "#">>, f)
        BY <1>1, <1>2, <4>1, SuffixIs
      <4> QED BY <4>2, Zenon DEF Plain, Excepted
    <3>3. f[r] = "#" => Len(f) = r
      BY <1>7, <1>11, <2>1
    <3> QED BY <1>1, <3>1, <3>2, <3>3, EndsWellIs
  <2>4. Answer(t, f, e, r) <=> Matches(t, f)
    BY <1>7, <1>8, <1>11, <2>1, <2>2, <2>3 DEF Answer
  <2> QED BY <1>4, <1>8, <1>11, <2>1, <2>4 DEF Follows
<1>12. CASE e # Len(t) + 1 /\ g = Len(f) + 1
  <2>1. Begins(t, k + 1, e + 1)
    BY <1>1, <1>12, LevelIs
  <2>2. e + 1 <= Len(t)
    BY <2>1, PlainIs
  <2>3. CharAt(t, e + 1) # "nul" /\ CharAt(f, g) = "nul"
    BY <1>1, <1>2, <1>3, <1>8, <1>12, <2>2
  <2>4. ~Answer(t, f, e + 1, g)
    BY <2>3 DEF Answer
  <2> QED BY <1>4, <1>7, <1>8, <1>12, <2>3, <2>4 DEF Follows
<1> QED BY <1>9, <1>10, <1>11, <1>12

\* MultiLevel is right to accept.
LEMMA MultiLevelGoes ==
  ASSUME NEW t, NEW f, Plain(t, f), NEW k, NEW i, NEW j, Met(t, f, k, i, j),
         f[j] = "#", t[i] # "$"
  PROVE  Matches(t, f)
<1>1. t \in Seq(Chars) /\ f \in Seq(Chars) /\ f \in Filters
  BY TextIs DEF Plain
<1>2. PICK g :
           /\ Level(f, k, j, g)
           /\ k \in 1 .. Len(Levels(t)) /\ k \in 1 .. Len(Levels(f))
           /\ j \in 1 .. Len(f) /\ (k = 1 => i = 1)
  BY MetIs
<1>3. Levels(f)[k] = Hash /\ Len(Levels(f)) = k
  BY <1>1, <1>2, LevelKinds
<1>4. Len(Levels(t)) >= k - 1 /\ (k = 1 => t[1] # "$")
  BY <1>1, <1>2, LevelsExist
<1> QED BY <1>1, <1>2, <1>3, <1>4, MatchesAll DEF Met

\* A wildcard stands against "$" in the first level only, where it matches nothing.
LEMMA HiddenGoes ==
  ASSUME NEW t, NEW f, Plain(t, f), NEW k, NEW i, NEW j, Met(t, f, k, i, j),
         f[j] \in {"+", "#"}, t[i] = "$"
  PROVE  ~Matches(t, f)
<1>1. t \in Seq(Chars) /\ f \in Seq(Chars) /\ f \in Filters
  BY TextIs DEF Plain
<1>2. PICK g :
           /\ Level(f, k, j, g)
           /\ k \in 1 .. Len(Levels(f)) /\ k \in Nat \ {0}
           /\ j \in 1 .. Len(f) /\ (k = 1 => i = 1) /\ (k > 1 => t[i] # "$")
  BY MetIs
<1>3. Levels(f)[k] \in {Plus, Hash}
  BY <1>1, <1>2, LevelKinds
<1>4. k = 1 /\ t[1] = "$"
  BY <1>2
<1> QED BY <1>1, <1>2, <1>3, <1>4, MatchesNot

\* Literal leaves the level, or stops at the end of one of the strings or at a difference.
LEMMA LiteralGoes ==
  ASSUME NEW t, NEW f, Plain(t, f), NEW k, NEW i, NEW j, Met(t, f, k, i, j),
         f[j] \notin {"/", "+", "#"}, NEW n \in Nat \ {0},
         \A c \in 0 .. n - 2 : CharAt(t, i + c) = CharAt(f, j + c) /\ CharAt(t, i + c) \notin {"/", "nul"},
         CharAt(t, i + (n - 1)) # "nul", CharAt(f, j + (n - 1)) # "nul"
  PROVE  /\ CharAt(t, i + (n - 1)) # CharAt(f, j + (n - 1)) => ~Matches(t, f)
         /\ /\ CharAt(t, i + (n - 1)) = CharAt(f, j + (n - 1))
            /\ \/ CharAt(t, i + (n - 1)) = "/"
               \/ CharAt(t, i + n) = "nul"
               \/ CharAt(f, j + n) = "nul"
            => Follows(t, f, i + n, j + n)
<1>1. /\ t \in Seq(Chars) /\ f \in Seq(Chars) /\ f \in Filters
      /\ Len(t) \in Nat \ {0} /\ Len(f) \in Nat \ {0}
      /\ \A x \in Nat \ {0} : CharAt(t, x) = (IF x <= Len(t) THEN t[x] ELSE "nul")
      /\ \A x \in Nat \ {0} : CharAt(f, x) = (IF x <= Len(f) THEN f[x] ELSE "nul")
      /\ \A x \in 1 .. Len(t) : t[x] # "nul"
      /\ \A x \in 1 .. Len(f) : f[x] # "nul"
  BY TextIs DEF Plain
<1>2. PICK e, g :
           /\ Level(t, k, i, e) /\ Level(f, k, j, g)
           /\ i \in 1 .. Len(t) /\ j \in 1 .. Len(f) /\ e \in i .. Len(t) + 1 /\ g \in j .. Len(f) + 1
  BY MetIs
<1>3. PICK m \in Nat : /\ m + 1 = n /\ i + (n - 1) = i + m /\ j + (n - 1) = j + m
                       /\ i + n = (i + m) + 1 /\ j + n = (j + m) + 1
                       /\ 0 .. n - 2 = 0 .. m - 1
  <2>1. /\ n - 1 \in Nat /\ (n - 1) + 1 = n /\ i + n = (i + (n - 1)) + 1
        /\ j + n = (j + (n - 1)) + 1 /\ n - 2 = (n - 1) - 1
    BY <1>2
  <2> QED BY <2>1
<1>4. i + m \in 1 .. Len(t) /\ j + m \in 1 .. Len(f)
  BY <1>1, <1>2, <1>3
<1>5. /\ \A c \in 0 .. m - 1 : t[i + c] = f[j + c] /\ t[i + c] # "/" /\ f[j + c] # "/"
      /\ CharAt(t, i + m) = t[i + m] /\ CharAt(f, j + m) = f[j + m]
      /\ \A c \in 0 .. m - 1 : i + c <= Len(t) /\ j + c <= Len(f)
  <2>1. \A c \in 0 .. m - 1 : i + c <= Len(t) /\ j + c <= Len(f) /\ i + c \in Nat \ {0} /\ j + c \in Nat \ {0}
    BY <1>1, <1>2, <1>4
  <2>2. \A c \in 0 .. m - 1 : CharAt(t, i + c) = t[i + c] /\ CharAt(f, j + c) = f[j + c]
    BY <1>1, <2>1
  <2>3. \A c \in 0 .. m - 1 : CharAt(t, i + c) = CharAt(f, j + c) /\ CharAt(t, i + c) \notin {"/", "nul"}
    BY <1>3
  <2>4. CharAt(t, i + m) = t[i + m] /\ CharAt(f, j + m) = f[j + m]
    BY <1>1, <1>4
  <2> QED BY <2>1, <2>2, <2>3, <2>4
<1>6. i + m <= e /\ j + m <= g
  BY <1>1, <1>2, <1>5, EndsAfter
<1>7. /\ Levels(f)[k] = Levels(t)[k] => Agreed(t, f, k + 1)
      /\ Levels(f)[k] # Levels(t)[k] => ~Matches(t, f)
  BY <1>2, PlainLevel
<1>8. (Levels(t)[k] = Levels(f)[k]) <=>
            (e - i = g - j /\ \A c \in 0 .. (e - i) - 1 : t[i + c] = f[j + c])
  <2>1. (Levels(t)[k] = Levels(f)[k]) <=> SameText(t, i, e, f, j, g)
    BY <1>1, <1>2, SameLevels
  <2> QED BY <2>1, Zenon DEF SameText
<1>9. /\ e <= Len(t) => t[e] = "/"
      /\ g <= Len(f) => f[g] = "/"
  <2>1. /\ e # Len(t) + 1 => t[e] = "/"
        /\ g # Len(f) + 1 => f[g] = "/"
    BY <1>1, <1>2, LevelIs
  <2> QED BY <1>1, <1>2, <2>1
<1>10. ASSUME t[i + m] # f[j + m] PROVE ~Matches(t, f)
  <2> SUFFICES ASSUME Levels(t)[k] = Levels(f)[k] PROVE FALSE
    BY <1>7
  <2>1. e - i = g - j /\ \A c \in 0 .. (e - i) - 1 : t[i + c] = f[j + c]
    BY <1>8
  <2>2. CASE e = i + m
    <3>1. g = j + m
      BY <1>2, <2>1, <2>2
    <3>2. t[e] = "/" /\ f[g] = "/"
      BY <1>4, <1>9, <2>2, <3>1
    <3> QED BY <1>10, <2>2, <3>1, <3>2
  <2>3. CASE e # i + m
    <3>1. m \in 0 .. (e - i) - 1
      BY <1>2, <1>6, <2>3
    <3> QED BY <1>10, <2>1, <3>1
  <2> QED BY <2>2, <2>3
<1>11. ASSUME t[i + m] = f[j + m],
              t[i + m] = "/" \/ CharAt(t, i + n) = "nul" \/ CharAt(f, j + n) = "nul"
       PROVE  Follows(t, f, i + n, j + n)
  <2>0. /\ e # Len(t) + 1 /\ g # Len(f) + 1 /\ Agreed(t, f, k + 1) => Met(t, f, k + 1, e + 1, g + 1)
        /\ e = Len(t) + 1 /\ g = Len(f) + 1 /\ Agreed(t, f, k + 1) => Matches(t, f)
        /\ e = Len(t) + 1 /\ g # Len(f) + 1 /\ Agreed(t, f, k + 1) =>
              /\ g + 1 <= Len(f) /\ f[g] = "/"
              /\ Matches(t, f) <=> f[g + 1] = "#"
              /\ f[g + 1] = "#" => Len(f) = g + 1
        /\ e # Len(t) + 1 /\ g = Len(f) + 1 /\ Agreed(t, f, k + 1) => ~Matches(t, f)
    BY <1>2, AfterLevel
  <2>1. CASE t[i + m] = "/"
    <3>1. i + m \in Cuts(t) /\ j + m \in Cuts(f)
      BY <1>1, <1>4, <1>11, <2>1, CutsAre
    <3>2. e <= i + m /\ g <= j + m
      BY <1>1, <1>2, <3>1, EndsAfter
    <3>3. e = i + m /\ g = j + m
      BY <1>2, <1>6, <3>2
    <3>4. Levels(t)[k] = Levels(f)[k]
      <4>1. e - i = m /\ g - j = m
        BY <1>2, <3>3
      <4> QED BY <1>5, <1>8, <4>1
    <3>5. Met(t, f, k + 1, e + 1, g + 1)
      BY <1>1, <1>4, <1>7, <2>0, <3>3, <3>4
    <3> QED BY <1>3, <3>3, <3>5 DEF Follows
  <2>2. ASSUME t[i + m] # "/" PROVE i + n <= e /\ j + n <= g /\ \A c \in 0 .. n - 1 : t[i + c] = f[j + c]
    <3>1. \A c \in 0 .. n - 1 : c = m \/ c \in 0 .. m - 1
      BY <1>3
    <3>2. \A c \in 0 .. n - 1 : t[i + c] = f[j + c] /\ t[i + c] # "/" /\ i + c <= Len(t) /\ j + c <= Len(f)
      BY <1>4, <1>5, <1>11, <2>2, <3>1
    <3>3. i + n <= e
      <4>1. \A c \in 0 .. n - 1 : i + c <= Len(t) /\ t[i + c] # "/"
        BY <3>2
      <4> QED BY <1>1, <1>2, <4>1, EndsAfter
    <3>4. j + n <= g
      <4>1. \A c \in 0 .. n - 1 : j + c <= Len(f) /\ f[j + c] # "/"
        BY <3>2
      <4> QED BY <1>1, <1>2, <4>1, EndsAfter
    <3> QED BY <3>2, <3>3, <3>4
  <2>3. ASSUME e = i + n, g = j + n, t[i + m] # "/" PROVE Levels(t)[k] = Levels(f)[k]
    <3>1. e - i = n /\ g - j = n
      BY <1>2, <2>3
    <3> QED BY <1>8, <2>2, <2>3, <3>1
  <2>4. i + n \in Nat \ {0} /\ j + n \in Nat \ {0} /\ i + n <= Len(t) + 1 /\ j + n <= Len(f) + 1
    BY <1>2, <1>3, <1>4
  <2>5. CASE t[i + m] # "/" /\ i + n = Len(t) + 1 /\ j + n = Len(f) + 1
    <3>1. e = i + n /\ g = j + n
      BY <1>1, <1>2, <2>2, <2>4, <2>5
    <3>2. Matches(t, f)
      BY <1>7, <2>0, <2>3, <2>5, <3>1
    <3>3. CharAt(t, i + n) = "nul" /\ CharAt(f, j + n) = "nul"
      BY <1>1, <2>4, <2>5
    <3> QED BY <3>2, <3>3 DEF Follows, Answer
  <2>6. CASE t[i + m] # "/" /\ i + n = Len(t) + 1 /\ j + n <= Len(f)
    <3>1. e = i + n /\ j + n \in 1 .. Len(f)
      BY <1>1, <1>2, <2>2, <2>4, <2>6
    <3>2. CharAt(t, i + n) = "nul" /\ CharAt(f, j + n) # "nul"
      BY <1>1, <2>4, <2>6, <3>1
    <3>3. CASE f[j + n] = "/"
      <4>1. j + n \in Cuts(f)
        BY <1>1, <3>1, <3>3, CutsAre
      <4>2. g <= j + n
        BY <1>1, <1>2, <4>1, EndsAfter
      <4>3. g = j + n
        BY <1>2, <2>2, <2>4, <2>6, <4>2
      <4>4. g + 1 <= Len(f) /\ (Matches(t, f) <=> f[g + 1] = "#") /\ (f[g + 1] = "#" => Len(f) = g + 1)
        BY <1>1, <1>7, <2>0, <2>3, <2>6, <3>1, <4>3
      <4>5. EndsWell(f, j + n) <=> f[g + 1] = "#"
        BY <1>1, <3>1, <3>3, <4>3, <4>4, EndsWellIs
      <4> QED BY <3>2, <4>4, <4>5 DEF Follows, Answer
    <3>4. CASE f[j + n] # "/"
      <4>1. g # j + n
        BY <1>9, <2>6, <3>4
      <4>2. ~Matches(t, f)
        <5>1. e - i # g - j
          BY <1>2, <2>4, <3>1, <4>1
        <5> QED BY <1>7, <1>8, <5>1
      <4>3. ~EndsWell(f, j + n)
        <5>1. CharAt(f, (j + n) - 1) = f[j + m] /\ f[j + m] \notin {"nul", "/"}
          <6>1. (j + n) - 1 = j + m
            BY <1>2, <1>3
          <6> QED BY <1>1, <1>4, <1>5, <1>11, <2>6, <6>1
        <5>2. f[j + n] \notin {"+", "#"}
          BY <1>1, <3>1, <5>1 DEF Filters, IsWrongTopic
        <5> QED BY <1>1, <3>1, <3>4, <5>2, EndsWellIs
      <4> QED BY <3>2, <4>2, <4>3 DEF Follows, Answer
    <3> QED BY <3>3, <3>4
  <2>7. CASE t[i + m] # "/" /\ i + n <= Len(t) /\ j + n = Len(f) + 1
    <3>1. g = j + n /\ i + n \in 1 .. Len(t)
      BY <1>1, <1>2, <2>2, <2>4, <2>7
    <3>2. CharAt(t, i + n) # "nul" /\ CharAt(f, j + n) = "nul"
      BY <1>1, <2>4, <2>7, <3>1
    <3>3. ~Matches(t, f)
      <4>1. CASE e = i + n
        <5>1. e # Len(t) + 1
          BY <1>1, <2>7, <4>1
        <5> QED BY <1>7, <2>0, <2>3, <2>7, <3>1, <4>1, <5>1
      <4>2. CASE e # i + n
        <5>1. e - i # g - j
          BY <1>2, <2>4, <3>1, <4>2
        <5> QED BY <1>7, <1>8, <5>1
      <4> QED BY <4>1, <4>2
    <3> QED BY <3>2, <3>3 DEF Follows, Answer
  <2>8. \/ t[i + m] = "/"
        \/ i + n = Len(t) + 1
        \/ j + n = Len(f) + 1
    <3>1. CharAt(t, i + n) = "nul" => ~(i + n <= Len(t))
      BY <1>1, <2>4
    <3>2. CharAt(f, j + n) = "nul" => ~(j + n <= Len(f))
      BY <1>1, <2>4
    <3> QED BY <1>1, <1>11, <2>4, <3>1, <3>2
  <2> QED BY <1>1, <2>1, <2>4, <2>5, <2>6, <2>7, <2>8
<1> QED BY <1>3, <1>5, <1>10, <1>11

\* Until it returns the walk is at the start of a level, the levels before having matched, or
\* one of the strings has ended and the answer that AtEnd is about to give is the rule's.
FiltersInv ==
  /\ TopicTypeOK
  /\ match = "start" => iterator = 1 /\ iterator2 = 1
  /\ match = "walking" /\ ~Excepted(topic_name, topic_filter) =>
       Follows(topic_name, topic_filter, iterator, iterator2)
  /\ FiltersAgree

\* While both strings have characters left, the walk is at the start of a level.
LEMMA GoesInBoth ==
  ASSUME NEW t, NEW f, NEW i, NEW j, Follows(t, f, i, j), CharAt(t, i) # "nul", CharAt(f, j) # "nul"
  PROVE  \E k : Met(t, f, k, i, j)
BY DEF Follows

\* ... and when one has none it is not.
LEMMA GoesAtEnd ==
  ASSUME NEW t, NEW f, Plain(t, f), NEW i, NEW j, Follows(t, f, i, j),
         CharAt(t, i) = "nul" \/ CharAt(f, j) = "nul"
  PROVE  Answer(t, f, i, j) <=> Matches(t, f)
<1>1. ASSUME NEW k, Met(t, f, k, i, j) PROVE FALSE
  <2>1. i \in 1 .. Len(t) /\ j \in 1 .. Len(f)
    BY <1>1, MetIs
  <2>2. t[i] # "nul" /\ f[j] # "nul"
    BY <2>1, TextIs DEF Plain
  <2> QED BY <2>1, <2>2 DEF CharAt
<1> QED BY <1>1 DEF Follows

\* What is returned before the walk begins.
LEMMA ShortcutAgrees ==
  ASSUME NEW t, NEW f, Plain(t, f), (f = <<"#">> /\ t[1] # "$") \/ t = f
  PROVE  Matches(t, f)
<1>1. t \in Seq(Chars) /\ f \in Seq(Chars) /\ f \in Filters
  BY TextIs DEF Plain
<1>2. Met(t, f, 1, 1, 1)
  BY <1>1, BeginsFirst DEF Met, Agreed
<1>3. CASE f = <<"#">> /\ t[1] # "$"
  <2>1. f[1] = "#"
    BY <1>3
  <2> QED BY <1>2, <1>3, <2>1, MultiLevelGoes
<1>4. CASE t = f
  <2>1. Len(Levels(t)) \in Nat \ {0} /\ \A k \in 1 .. Len(Levels(t)) : \E i, e : Level(t, k, i, e)
    BY <1>1, LevelsExist
  <2>2. ASSUME NEW k \in 1 .. Len(Levels(t)) PROVE Levels(t)[k] \notin {Plus, Hash}
    <3>1. PICK i, e : Level(t, k, i, e)
      BY <2>1
    <3>2. i \in 1 .. Len(t)
      <4>1. i \in 1 .. Len(t) + 1 /\ Begins(t, k, i)
        BY <3>1 DEF Level, Begins
      <4>2. i <= Len(t)
        BY <4>1, PlainIs
      <4> QED BY <1>1, <4>1, <4>2, CutsAre
    <3>3. t[i] \notin {"+", "#"}
      BY <3>2, TopicAssumption DEF Plain, Topics
    <3> QED BY <1>1, <3>1, <3>2, <3>3, LevelKinds
  <2>3. Agreed(t, f, Len(Levels(t)) + 1)
    BY <1>4, <2>1, <2>2 DEF Agreed
  <2> QED BY <1>1, <1>4, <2>1, <2>3, MatchesAll
<1> QED BY <1>3, <1>4

LEMMA FiltersInitially ==
  ASSUME TopicInit PROVE FiltersInv
BY TopicTypesInitially DEF TopicInit, FiltersInv, FiltersAgree

LEMMA FiltersStep ==
  ASSUME FiltersInv, [TopicNext]_topicVars PROVE FiltersInv'
<1>0. TopicTypeOK /\ TopicTypeOK'
  BY TopicTypesStep DEF FiltersInv
<1>1. PICK t, f : topic_name = t /\ topic_filter = f
  OBVIOUS
<1>2. PICK i, j : iterator = i /\ iterator2 = j
  OBVIOUS
<1>3. topic_name' = t /\ topic_filter' = f
  BY <1>1 DEF TopicNext, topicVars, Shortcut, Separator, SingleLevel, MultiLevel, Literal, AtEnd,
              Walk, Return
<1>4. /\ t \in Topics /\ f \in Filters /\ match \in {"start", "walking", "yes", "no"}
      /\ i \in 1 .. Len(t) + 1 /\ j \in 1 .. Len(f) + 1
  BY <1>0, <1>1, <1>2 DEF TopicTypeOK
<1>5. match = "walking" /\ Plain(t, f) => Follows(t, f, i, j)
  BY <1>1, <1>2 DEF FiltersInv, Plain
<1>6. ASSUME NEW b \in BOOLEAN, Return(b), Plain(t, f) => (b <=> Matches(t, f))
      PROVE  FiltersInv'
  <2>1. match' = (IF b THEN "yes" ELSE "no")
    BY <1>6 DEF Return
  <2>2. FiltersAgree'
    BY <1>3, <1>4, <1>6, <2>1 DEF FiltersAgree, Plain
  <2> QED BY <1>0, <2>1, <2>2 DEF FiltersInv
<1>7. ASSUME NEW a, NEW c, match' = "walking", iterator' = a, iterator2' = c,
             Plain(t, f) => Follows(t, f, a, c)
      PROVE  FiltersInv'
  <2>1. FiltersAgree'
    BY <1>7 DEF FiltersAgree
  <2>2. ~Excepted(topic_name, topic_filter)' => Follows(topic_name, topic_filter, iterator, iterator2)'
    BY <1>3, <1>4, <1>7 DEF Plain
  <2> QED BY <1>0, <1>7, <2>1, <2>2 DEF FiltersInv
<1>8. CASE UNCHANGED topicVars
  BY <1>8 DEF topicVars, FiltersInv, FiltersAgree, TopicTypeOK
<1>9. CASE Shortcut
  <2>1. CASE (f = <<"#">> /\ t[1] # "$") \/ t = f
    <3>1. Return(TRUE)
      BY <1>1, <1>9, <2>1 DEF Shortcut
    <3> QED BY <1>6, <2>1, <3>1, ShortcutAgrees
  <2>2. CASE ~((f = <<"#">> /\ t[1] # "$") \/ t = f)
    <3>1. match' = "walking" /\ iterator' = 1 /\ iterator2' = 1
      BY <1>1, <1>9, <2>2 DEF Shortcut, FiltersInv
    <3>2. Follows(t, f, 1, 1)
      <4>1. t \in Seq(Chars) /\ f \in Seq(Chars)
        BY <1>4, TextIs
      <4>2. Met(t, f, 1, 1, 1)
        BY <4>1, BeginsFirst DEF Met, Agreed
      <4> QED BY <4>2 DEF Follows
    <3> QED BY <1>7, <3>1, <3>2
  <2> QED BY <2>1, <2>2
<1>10. ASSUME InBoth
       PROVE  /\ match = "walking" /\ CharAt(t, i) = t[i] /\ CharAt(f, j) = f[j]
              /\ TopicChar = t[i] /\ FilterChar = f[j]
              /\ Plain(t, f) => \E k : Met(t, f, k, i, j)
  <2>1. match = "walking" /\ CharAt(t, i) # "nul" /\ CharAt(f, j) # "nul"
        /\ TopicChar = CharAt(t, i) /\ FilterChar = CharAt(f, j)
    BY <1>1, <1>2, <1>10 DEF InBoth, TopicChar, FilterChar
  <2>2. CharAt(t, i) = t[i] /\ CharAt(f, j) = f[j]
    BY <2>1 DEF CharAt
  <2> QED BY <1>5, <2>1, <2>2, GoesInBoth
<1>11. CASE Separator
  <2>1. InBoth /\ f[j] = "/"
    BY <1>10, <1>11 DEF Separator
  <2>2. CASE t[i] = "/"
    <3>1. match' = "walking" /\ iterator' = i + 1 /\ iterator2' = j + 1
      BY <1>2, <1>10, <1>11, <2>1, <2>2 DEF Separator, Walk
    <3>2. Plain(t, f) => Follows(t, f, i + 1, j + 1)
      BY <1>10, <2>1, <2>2, SeparatorGoes DEF Follows
    <3> QED BY <1>7, <3>1, <3>2
  <2>3. CASE t[i] # "/"
    <3>1. Return(FALSE)
      BY <1>10, <1>11, <2>1, <2>3 DEF Separator
    <3>2. Plain(t, f) => ~Matches(t, f)
      BY <1>10, <2>1, <2>3, SeparatorGoes
    <3> QED BY <1>6, <3>1, <3>2
  <2> QED BY <2>2, <2>3
<1>12. CASE SingleLevel
  <2>1. InBoth /\ f[j] = "+" /\ t[i] # "$"
    BY <1>10, <1>12 DEF SingleLevel
  <2>2. PICK e : e = LevelEnd
    OBVIOUS
  <2> DEFINE a == IF CharAt(t, e) = "nul" THEN e ELSE e + 1
             c == IF CharAt(f, j + 1) = "nul" THEN j + 1 ELSE j + 2
  <2>3. match' = "walking" /\ iterator' = a /\ iterator2' = c
    BY <1>1, <1>2, <1>10, <1>12, <2>1, <2>2 DEF SingleLevel, Walk
  <2>4. ASSUME Plain(t, f) PROVE Follows(t, f, a, c)
    <3>1. PICK k : Met(t, f, k, i, j)
      BY <1>10, <2>1, <2>4
    <3>2. t \in Seq(Chars) /\ Len(t) \in Nat \ {0} /\ \A n \in 1 .. Len(t) : t[n] # "nul"
      BY <1>4, TextIs
    <3>3. /\ e \in i .. Len(t) + 1 /\ CharAt(t, e) \in {"/", "nul"}
          /\ \A n \in i .. e - 1 : CharAt(t, n) \notin {"/", "nul"}
      BY <1>0, <1>1, <1>2, <2>2, LevelEndIs
    <3>4. e \in Cuts(t)
      <4>1. CASE e = Len(t) + 1
        BY <3>2, <4>1, CutsAre
      <4>2. CASE e # Len(t) + 1
        <5>1. e \in 1 .. Len(t) /\ t[e] = "/"
          BY <1>4, <3>2, <3>3, <4>2 DEF CharAt
        <5> QED BY <3>2, <5>1, CutsAre
      <4> QED BY <4>1, <4>2
    <3>5. ASSUME NEW n \in i .. e - 1 PROVE n \notin Cuts(t)
      <4>1. n \in 1 .. Len(t) /\ t[n] # "/"
        BY <1>4, <3>2, <3>3 DEF CharAt
      <4> QED BY <3>2, <4>1, CutsAre
    <3>6. Level(t, k, i, e)
      BY <3>1, <3>3, <3>4, <3>5 DEF Level, Met
    <3> QED BY <2>1, <2>4, <3>1, <3>6, SingleLevelGoes
  <2> HIDE DEF a, c
  <2> QED BY <1>7, <2>3, <2>4
<1>13. CASE MultiLevel
  <2>1. InBoth /\ f[j] = "#" /\ t[i] # "$" /\ Return(TRUE)
    BY <1>10, <1>13 DEF MultiLevel
  <2>2. Plain(t, f) => Matches(t, f)
    BY <1>10, <2>1, MultiLevelGoes
  <2> QED BY <1>6, <2>1, <2>2
<1>14. CASE Literal
  <2>1. InBoth /\ f[j] # "/" /\ (f[j] \in {"+", "#"} => t[i] = "$")
    BY <1>10, <1>14 DEF Literal
  <2>2. PICK n \in Nat \ {0} :
            /\ Alike(n)
            /\ \/ Differ(n) /\ Return(FALSE)
               \/ ~Differ(n) /\ EndsAt(n) /\ Walk(iterator + n, iterator2 + n)
    BY <1>0, <1>14, LiteralIs
  <2>3. /\ \A c \in 0 .. n - 2 : CharAt(t, i + c) = CharAt(f, j + c) /\ CharAt(t, i + c) \notin {"/", "nul"}
        /\ CharAt(t, i + (n - 1)) # "nul" /\ CharAt(f, j + (n - 1)) # "nul"
    BY <1>1, <1>2, <2>2 DEF Alike
  <2>4. /\ Differ(n) <=> CharAt(t, i + (n - 1)) # CharAt(f, j + (n - 1))
        /\ EndsAt(n) <=> \/ CharAt(t, i + (n - 1)) = "/"
                         \/ CharAt(t, i + n) = "nul"
                         \/ CharAt(f, j + n) = "nul"
    BY <1>1, <1>2 DEF Differ, EndsAt
  <2>5. CASE f[j] \in {"+", "#"}
    <3>1. Differ(n)
      <4>1. n = 1
        <5>1. ASSUME n # 1 PROVE FALSE
          <6>1. 0 \in 0 .. n - 2 /\ i + 0 = i /\ j + 0 = j
            BY <1>4, <5>1
          <6>2. CharAt(t, i) = CharAt(f, j)
            BY <2>3, <6>1
          <6> QED BY <1>10, <2>1, <2>5, <6>2
        <5> QED BY <5>1
      <4>2. i + (n - 1) = i /\ j + (n - 1) = j
        BY <1>4, <4>1
      <4> QED BY <1>10, <2>1, <2>4, <2>5, <4>2
    <3>2. Plain(t, f) => ~Matches(t, f)
      BY <1>10, <2>1, <2>5, HiddenGoes
    <3> QED BY <1>6, <2>2, <3>1, <3>2
  <2>6. CASE f[j] \notin {"+", "#"}
    <3>1. ASSUME Plain(t, f)
          PROVE  /\ Differ(n) => ~Matches(t, f)
                 /\ ~Differ(n) /\ EndsAt(n) => Follows(t, f, i + n, j + n)
      <4>1. PICK k : Met(t, f, k, i, j)
        BY <1>10, <2>1, <3>1
      <4> QED BY <2>1, <2>3, <2>4, <2>6, <3>1, <4>1, LiteralGoes
    <3>2. CASE Differ(n) /\ Return(FALSE)
      BY <1>6, <3>1, <3>2
    <3>3. CASE ~Differ(n) /\ EndsAt(n) /\ Walk(iterator + n, iterator2 + n)
      <4>1. match' = "walking" /\ iterator' = i + n /\ iterator2' = j + n
        BY <1>2, <1>10, <2>1, <3>3 DEF Walk
      <4> QED BY <1>7, <3>1, <3>3, <4>1
    <3> QED BY <2>2, <3>2, <3>3
  <2> QED BY <2>5, <2>6
<1>15. CASE AtEnd
  <2>1. /\ match = "walking" /\ (CharAt(t, i) = "nul" \/ CharAt(f, j) = "nul")
        /\ Return(Answer(t, f, i, j))
    BY <1>1, <1>2, <1>15, Zenon DEF AtEnd, TopicChar, FilterChar, FilterRest, Answer, EndsWell
  <2>2. Plain(t, f) => (Answer(t, f, i, j) <=> Matches(t, f))
    BY <1>5, <2>1, GoesAtEnd
  <2>3. Answer(t, f, i, j) \in BOOLEAN
    BY DEF Answer, EndsWell
  <2> QED BY <1>6, <2>1, <2>2, <2>3
<1> QED BY <1>8, <1>9, <1>11, <1>12, <1>13, <1>14, <1>15 DEF TopicNext

\* For every topic and every filter that is accepted, however long, but for those of Excepted,
\* which the code treats otherwise: what the walk returns is what the rule by levels says.
THEOREM FiltersAgreeCorrect == TopicSpec => []FiltersAgree
<1>1. FiltersInv => FiltersAgree
  BY DEF FiltersInv
<1> QED BY <1>1, FiltersInitially, FiltersStep, PTL DEF TopicSpec

-----------------------------------------------------------------------------
(* Connections, for any close handlers, reconnect events and bounds: every reference
   of a connection has a holder and every holder a reference, so the connection is
   freed once and after its last use. *)

USE ConnectionAssumption

HandlerThreads == {h \in Handlers : handler[h] = "thread"}

\* Those who hold a reference, counted.
Holders == One(closing # "done") + listed + Cardinality(breaking) + unwatching
           + Cardinality(UnderWay) + Cardinality(HandlerThreads)
           + One(closing \in {"sent", "last"})

\* A thread breaks the connection once at a time, and myqtt_conn_close once.
BreaksOnce ==
  /\ \A who \in Openers \union {"reader", "close"} :
       ~(<<who, "handlers">> \in breaking /\ <<who, "socket">> \in breaking)
  /\ Inside("close") => closing = "last"
\* The user closes what the first opening has returned.
ClosedLater ==
  /\ opening["new"] # "told" => ~has_conn
  /\ ~has_conn => closing = "no"
  /\ close_called = (closing # "no")
ConnectionInv ==
  /\ ConnectionTypeOK /\ IsFiniteSet(breaking) /\ IsFiniteSet(UnderWay)
  /\ BreaksOnce /\ ClosedLater /\ RefsAreHeld

LEMMA ThreadsFinite == IsFiniteSet(HandlerThreads)
<1>1. HandlerThreads \subseteq Handlers /\ IsFiniteSet(Handlers)
  BY DEF HandlerThreads, ConnectionAssumption
<1> QED BY <1>1, FS_Subset

\* The numbers that are counted, and that a holder makes them positive.
LEMMA Counts ==
  ASSUME ConnectionInv
  PROVE  /\ Cardinality(breaking) \in Nat /\ Cardinality(UnderWay) \in Nat
         /\ Cardinality(HandlerThreads) \in Nat /\ listed \in Nat /\ unwatching \in Nat
         /\ ref_count = Holders /\ ref_count \in Nat /\ freed = (ref_count = 0)
         /\ breaking # {} => ref_count >= 1
         /\ UnderWay # {} => ref_count >= 1
         /\ HandlerThreads # {} => ref_count >= 1
         /\ listed > 0 => ref_count >= 1
         /\ closing # "done" => ref_count >= 1
<1>1. /\ Cardinality(breaking) \in Nat /\ Cardinality(UnderWay) \in Nat
      /\ Cardinality(HandlerThreads) \in Nat
  BY ThreadsFinite, FS_CardinalityType DEF ConnectionInv
<1>2. /\ breaking # {} => Cardinality(breaking) # 0
      /\ UnderWay # {} => Cardinality(UnderWay) # 0
      /\ HandlerThreads # {} => Cardinality(HandlerThreads) # 0
  BY ThreadsFinite, FS_EmptySet DEF ConnectionInv
<1>3. /\ ref_count = Holders /\ freed = (ref_count = 0) /\ listed \in Nat /\ unwatching \in Nat
  BY DEF ConnectionInv, RefsAreHeld, Holders, HandlerThreads, ConnectionTypeOK
<1>4. /\ ref_count \in Nat
      /\ Cardinality(breaking) # 0 => ref_count >= 1
      /\ Cardinality(UnderWay) # 0 => ref_count >= 1
      /\ Cardinality(HandlerThreads) # 0 => ref_count >= 1
      /\ listed > 0 => ref_count >= 1
      /\ closing # "done" => ref_count >= 1
  BY <1>1, <1>3 DEF Holders, One
<1> QED BY <1>1, <1>2, <1>3, <1>4

\* A step that changes references and holders alike keeps them equal.
LEMMA Balance ==
  ASSUME ConnectionInv, ref_count' = Holders',
         \/ Unref(1) \/ Unref(2)
         \/ Quiet
         \/ freed' = freed /\ ref_count > 0 /\ ref_count' = ref_count + 1,
         ref_count' >= 0,
         Unref(1) \/ Unref(2) => ref_count > 0
  PROVE  RefsAreHeld'
<1>1. ref_count \in Nat /\ freed = (ref_count = 0)
  BY Counts
<1>2. freed' = (ref_count' = 0)
  <2>1. ref_count > 0 => freed = FALSE
    <3>1. ref_count > 0 => ~(ref_count = 0)
      BY <1>1
    <3> QED BY <1>1, <3>1, Zenon
  <2>2. CASE Unref(1) \/ Unref(2)
    <3>1. freed' = (FALSE \/ ref_count' = 0)
      BY <2>1, <2>2 DEF Unref
    <3> QED BY <3>1
  <2>3. CASE Quiet
    BY <1>1, <2>3 DEF Quiet
  <2>4. CASE freed' = freed /\ ref_count > 0 /\ ref_count' = ref_count + 1
    <3>1. ref_count' # 0
      BY <1>1, <2>4
    <3> QED BY <2>1, <2>4, <3>1
  <2> QED BY <2>2, <2>3, <2>4
<1> QED BY <1>2 DEF RefsAreHeld, Holders, HandlerThreads

LEMMA ConnectionInitially == ConnectionInit => ConnectionInv
<1> SUFFICES ASSUME ConnectionInit
             PROVE  ConnectionInv
  OBVIOUS
<1>1. /\ breaking = {} /\ UnderWay = {} /\ HandlerThreads = {}
  BY DEF ConnectionInit, UnderWay, HandlerThreads, Openers
<1>2. IsFiniteSet({}) /\ Cardinality({}) = 0
  BY FS_EmptySet
<1>3. ConnectionTypeOK
  <2>1. 0 \in 0 .. MaxBreaks
    BY DEF ConnectionAssumption
  <2>2. /\ {is_connected, close_called, freed, has_conn} \subseteq BOOLEAN
        /\ opening \in [Openers -> {"no", "connect", "greet", "accepted", "report", "told"}]
        /\ handler \in [Handlers -> {"no", "set", "thread", "called", "late", "removed"}]
    BY DEF ConnectionInit
  <2> QED BY <2>1, <2>2 DEF ConnectionInit, ConnectionTypeOK
<1>4. BreaksOnce /\ ClosedLater
  BY <1>1 DEF ConnectionInit, BreaksOnce, Inside, ClosedLater, Openers
<1>5. RefsAreHeld
  <2>1. ref_count = Holders
    BY <1>1, <1>2 DEF ConnectionInit, Holders, One
  <2>2. freed = (ref_count = 0)
    <3>1. freed = FALSE /\ ref_count = 1
      BY DEF ConnectionInit
    <3>2. ~(ref_count = 0)
      BY <3>1
    <3> QED BY <3>1, <3>2, Zenon
  <2> QED BY <2>1, <2>2 DEF RefsAreHeld, Holders, HandlerThreads
<1> QED BY <1>1, <1>2, <1>3, <1>4, <1>5 DEF ConnectionInv

\* The set of threads that call a handler after one is added, taken away or left alone.
LEMMA ThreadsChange ==
  ASSUME NEW h \in Handlers, NEW to \in {"set", "thread", "called", "late", "removed"},
         handler \in [Handlers -> {"no", "set", "thread", "called", "late", "removed"}],
         handler' = [handler EXCEPT ![h] = to]
  PROVE  /\ to = "thread" /\ handler[h] # "thread" =>
              Cardinality(HandlerThreads') = Cardinality(HandlerThreads) + 1
         /\ to # "thread" /\ handler[h] = "thread" =>
              Cardinality(HandlerThreads') = Cardinality(HandlerThreads) - 1
         /\ to # "thread" /\ handler[h] # "thread" => HandlerThreads' = HandlerThreads
<1>1. CASE to = "thread" /\ handler[h] # "thread"
  <2>1. HandlerThreads' = HandlerThreads \union {h} /\ h \notin HandlerThreads
    BY <1>1 DEF HandlerThreads
  <2> QED BY <1>1, <2>1, ThreadsFinite, FS_AddElement
<1>2. CASE to # "thread" /\ handler[h] = "thread"
  <2>1. HandlerThreads' = HandlerThreads \ {h} /\ h \in HandlerThreads
    BY <1>2 DEF HandlerThreads
  <2> QED BY <1>2, <2>1, ThreadsFinite, FS_RemoveElement
<1>3. CASE to # "thread" /\ handler[h] # "thread"
  BY <1>3 DEF HandlerThreads
<1> QED BY <1>1, <1>2, <1>3

\* The same for events, by the step an opener goes to.
LEMMA UnderWayChange ==
  ASSUME ConnectionInv, NEW k \in Openers,
         NEW to \in {"connect", "greet", "accepted", "report", "told"}, OpenAt(k, to)
  PROVE  /\ opening' \in [Openers -> {"no", "connect", "greet", "accepted", "report", "told"}]
         /\ opening'[k] = to /\ \A o \in Openers \ {k} : opening'[o] = opening[o]
         /\ IsFiniteSet(UnderWay')
         /\ k = "new" => UnderWay' = UnderWay
         /\ opening[k] \notin {"no", "told"} /\ to # "told" => UnderWay' = UnderWay
         /\ k # "new" /\ opening[k] = "no" /\ to # "told" =>
              Cardinality(UnderWay') = Cardinality(UnderWay) + 1
         /\ k # "new" /\ opening[k] \notin {"no", "told"} /\ to = "told" =>
              Cardinality(UnderWay') = Cardinality(UnderWay) - 1
<1>1. /\ opening \in [Openers -> {"no", "connect", "greet", "accepted", "report", "told"}]
      /\ opening' = [opening EXCEPT ![k] = to] /\ IsFiniteSet(UnderWay)
  BY DEF ConnectionInv, ConnectionTypeOK, OpenAt
<1>2. /\ opening' \in [Openers -> {"no", "connect", "greet", "accepted", "report", "told"}]
      /\ opening'[k] = to /\ \A o \in Openers \ {k} : opening'[o] = opening[o]
  BY <1>1
<1>3. UnderWay' = IF k = "new" \/ (to = "told" /\ opening[k] \in {"no", "told"}) THEN UnderWay
                  ELSE IF to = "told" THEN UnderWay \ {k} ELSE UnderWay \union {k}
  <2>1. k = "new" => k \notin ReconnectEvents
    BY DEF ConnectionAssumption
  <2>2. k # "new" => k \in ReconnectEvents
    BY DEF Openers
  <2>3. ReconnectEvents \subseteq Openers
    BY DEF Openers
  <2>4. UnderWay' = {e \in ReconnectEvents : opening'[e] \notin {"no", "told"}}
    BY DEF UnderWay
  <2> QED BY <1>2, <2>1, <2>2, <2>3, <2>4 DEF UnderWay
<1>4. IsFiniteSet(UnderWay')
  BY <1>1, <1>3, FS_AddElement, FS_RemoveElement
<1>5. k # "new" => (k \in UnderWay <=> opening[k] \notin {"no", "told"})
  BY DEF UnderWay, Openers
<1>6. /\ k \notin UnderWay => Cardinality(UnderWay \union {k}) = Cardinality(UnderWay) + 1
      /\ k \in UnderWay => /\ Cardinality(UnderWay \ {k}) = Cardinality(UnderWay) - 1
                           /\ UnderWay \union {k} = UnderWay
  BY <1>1, FS_AddElement, FS_RemoveElement
<1> QED BY <1>2, <1>3, <1>4, <1>5, <1>6

(* ------------------------------- the steps ------------------------------- *)
\* What an opener does to itself, without a reference being taken or given back.
LEMMA OpeningKeeps ==
  ASSUME ConnectionInv, NEW k \in Openers,
         Connect(k) \/ NotAccepted(k) \/ AcceptedEnds(k) \/ (k = "new" /\ NewReports)
  PROVE  ConnectionInv'
<1>1. /\ UNCHANGED <<close_called, ref_count, freed, listed, unwatching, breaking, closing, handler,
                     breaks>>
      /\ opening[k] \notin {"no", "told"}
  BY DEF Connect, NotAccepted, AcceptedEnds, NewReports, Quiet
<1>2. PICK to \in {"greet", "report", "told"} :
        OpenAt(k, to) /\ (to = "told" => k = "new" /\ has_conn') /\ (to # "told" => UNCHANGED has_conn)
  BY DEF Connect, NotAccepted, AcceptedEnds, NewReports
<1>3. /\ opening' \in [Openers -> {"no", "connect", "greet", "accepted", "report", "told"}]
      /\ opening'[k] = to /\ (\A o \in Openers \ {k} : opening'[o] = opening[o])
      /\ UnderWay' = UnderWay
  BY <1>1, <1>2, UnderWayChange
<1>4. ConnectionTypeOK'
  <2>1. {is_connected', has_conn'} \subseteq BOOLEAN
    BY DEF Connect, NotAccepted, AcceptedEnds, NewReports, ConnectionInv, ConnectionTypeOK
  <2>2. session' \in {"none", "open"}
    BY DEF Connect, NotAccepted, AcceptedEnds, NewReports, ConnectionInv, ConnectionTypeOK
  <2>3. last_err' \in {"unknown", "unable", "refused", "code", "timeout", "accepted"}
    BY DEF Connect, NotAccepted, AcceptedEnds, NewReports, ConnectionInv, ConnectionTypeOK
  <2>4. opts' \in {"none", "plain", "reconnect", "reuse", "freed"}
    BY DEF Connect, NotAccepted, AcceptedEnds, NewReports, ConnectionInv, ConnectionTypeOK
  <2> QED BY <1>1, <1>3, <2>1, <2>2, <2>3, <2>4 DEF ConnectionInv, ConnectionTypeOK
<1>5. BreaksOnce'
  BY <1>1 DEF ConnectionInv, BreaksOnce, Inside
<1>6. ClosedLater'
  BY <1>1, <1>2, <1>3 DEF ConnectionInv, ClosedLater, Openers
<1>7. RefsAreHeld'
  BY <1>1, <1>3 DEF ConnectionInv, RefsAreHeld
<1> QED BY <1>1, <1>3, <1>4, <1>5, <1>6, <1>7 DEF ConnectionInv

\* The server accepts: the reader gets the connection and a reference.
LEMMA AcceptedKeeps ==
  ASSUME ConnectionInv, NEW k \in Openers, Accepted(k)
  PROVE  ConnectionInv'
<1>1. /\ UNCHANGED <<is_connected, session, last_err, opts, close_called, freed, unwatching,
                     breaking, closing, handler, has_conn, breaks>>
      /\ opening[k] = "greet" /\ OpenAt(k, "accepted")
      /\ listed' = listed + 1 /\ ref_count' = ref_count + 1
  BY DEF Accepted, openVars
<1>2. /\ opening' \in [Openers -> {"no", "connect", "greet", "accepted", "report", "told"}]
      /\ opening'[k] = "accepted" /\ (\A o \in Openers \ {k} : opening'[o] = opening[o])
      /\ UnderWay' = UnderWay
  BY <1>1, UnderWayChange
<1>3. ConnectionTypeOK'
  BY <1>1, <1>2 DEF ConnectionInv, ConnectionTypeOK
<1>4. BreaksOnce' /\ ClosedLater'
  BY <1>1, <1>2 DEF ConnectionInv, BreaksOnce, Inside, ClosedLater, Openers
<1>5. ref_count > 0
  <2>1. CASE k = "new"
    BY <1>1, <2>1, Counts DEF ConnectionInv, ClosedLater
  <2>2. CASE k # "new"
    <3>1. k \in UnderWay
      BY <1>1, <2>2 DEF UnderWay, Openers
    <3> QED BY <3>1, Counts
  <2> QED BY <2>1, <2>2
<1>6. ref_count' = Holders'
  <2>1. HandlerThreads' = HandlerThreads
    BY <1>1 DEF HandlerThreads
  <2> QED BY <1>1, <1>2, <2>1, Counts DEF Holders, One
<1>7. RefsAreHeld'
  BY <1>1, <1>5, <1>6, Counts, Balance
<1> QED BY <1>1, <1>2, <1>3, <1>4, <1>7 DEF ConnectionInv

\* Marking the connection as broken: the thread that does takes a reference.
LEMMA MarkKeeps ==
  ASSUME ConnectionInv, NEW who \in Openers \union {"reader", "close"}, Mark(who), ~Inside(who),
         who = "close" => closing' = "last", closing' = "last" => closing \in {"sent", "last"},
         closing' # "last" => closing' = closing, closing = "last" => closing' = "last",
         breaks' \in 0 .. MaxBreaks, ref_count > 0,
         UNCHANGED <<close_called, listed, opening, unwatching, handler, has_conn>>
  PROVE  ConnectionInv'
<1> DEFINE b == <<who, "handlers">>
<1>1. b \notin breaking /\ <<who, "socket">> \notin breaking
  BY DEF Inside
<1>2. UnderWay' = UnderWay /\ HandlerThreads' = HandlerThreads
  BY DEF UnderWay, HandlerThreads
<1>3. closing' \in {"no", "wait", "sent", "last", "done"}
  BY DEF ConnectionInv, ConnectionTypeOK
<1>4. ClosedLater'
  BY DEF ConnectionInv, ClosedLater
<1>5. /\ One(closing' # "done") = One(closing # "done")
      /\ One(closing' \in {"sent", "last"}) = One(closing \in {"sent", "last"})
  BY DEF One
<1>6. CASE is_connected
  <2>1. /\ is_connected' = FALSE /\ ref_count' = ref_count + 1 /\ breaking' = breaking \union {b}
        /\ UNCHANGED <<session, last_err, opts, freed>>
    BY <1>6 DEF Mark
  <2>2. IsFiniteSet(breaking') /\ Cardinality(breaking') = Cardinality(breaking) + 1
    BY <1>1, <2>1, FS_AddElement DEF ConnectionInv
  <2>3. ConnectionTypeOK'
    <3>1. {is_connected', close_called', freed', has_conn'} \subseteq BOOLEAN
      BY <2>1 DEF ConnectionInv, ConnectionTypeOK
    <3>2. ref_count' \in Int /\ b \in (Openers \union {"reader", "close"}) \X {"handlers", "socket"}
      BY <2>1, Counts
    <3> QED BY <1>3, <2>1, <3>1, <3>2 DEF ConnectionInv, ConnectionTypeOK
  <2>4. BreaksOnce'
    BY <1>1, <2>1 DEF ConnectionInv, BreaksOnce, Inside, Openers
  <2>5. ref_count' = Holders'
    BY <1>2, <1>5, <2>1, <2>2, Counts DEF Holders, One
  <2>6. RefsAreHeld'
    BY <2>1, <2>5, Counts, Balance
  <2> QED BY <1>2, <1>4, <2>2, <2>3, <2>4, <2>6 DEF ConnectionInv
<1>7. CASE ~is_connected
  <2>1. UNCHANGED <<is_connected, session, last_err, opts, ref_count, freed, breaking>>
    BY <1>7 DEF Mark, openVars
  <2>2. ConnectionTypeOK'
    <3>1. {is_connected', close_called', freed', has_conn'} \subseteq BOOLEAN
      BY <2>1 DEF ConnectionInv, ConnectionTypeOK
    <3> QED BY <1>3, <2>1, <3>1 DEF ConnectionInv, ConnectionTypeOK
  <2>3. BreaksOnce'
    BY <2>1 DEF ConnectionInv, BreaksOnce, Inside
  <2>4. ref_count' = Holders'
    BY <1>2, <1>5, <2>1, Counts DEF Holders
  <2>5. RefsAreHeld'
    BY <2>1, <2>4, Counts DEF RefsAreHeld, Holders, HandlerThreads
  <2> QED BY <1>2, <1>4, <2>1, <2>2, <2>3, <2>5 DEF ConnectionInv
<1> QED BY <1>6, <1>7

LEMMA GreetingBreaksKeeps ==
  ASSUME ConnectionInv, NEW k \in Openers, GreetingBreaks(k)
  PROVE  ConnectionInv'
<1>1. /\ Mark(k) /\ ~Inside(k) /\ opening[k] = "greet" /\ breaks' \in 0 .. MaxBreaks
      /\ UNCHANGED <<close_called, listed, opening, unwatching, closing, handler, has_conn>>
  BY DEF GreetingBreaks, ConnectionInv, ConnectionTypeOK, ConnectionAssumption
<1>2. ref_count > 0
  <2>1. CASE k = "new"
    BY <1>1, <2>1, Counts DEF ConnectionInv, ClosedLater
  <2>2. CASE k # "new"
    <3>1. k \in UnderWay
      BY <1>1, <2>2 DEF UnderWay, Openers
    <3> QED BY <3>1, Counts
  <2> QED BY <2>1, <2>2
<1>3. k # "close"
  BY DEF Openers, ConnectionAssumption
<1> QED BY <1>1, <1>2, <1>3, MarkKeeps

LEMMA ReadFailsKeeps ==
  ASSUME ConnectionInv, ReadFails
  PROVE  ConnectionInv'
<1>1. /\ Mark("reader") /\ ~Inside("reader") /\ listed > 0 /\ breaks' \in 0 .. MaxBreaks
      /\ UNCHANGED <<close_called, listed, opening, unwatching, closing, handler, has_conn>>
  BY DEF ReadFails, ConnectionInv, ConnectionTypeOK, ConnectionAssumption
<1> QED BY <1>1, Counts, MarkKeeps

LEMMA CloseShutsKeeps ==
  ASSUME ConnectionInv, CloseShuts
  PROVE  ConnectionInv'
<1>1. /\ Mark("close") /\ closing = "sent" /\ closing' = "last"
      /\ UNCHANGED <<close_called, listed, opening, unwatching, handler, has_conn, breaks>>
  BY DEF CloseShuts
<1>2. ~Inside("close") /\ breaks \in 0 .. MaxBreaks
  BY <1>1 DEF ConnectionInv, BreaksOnce, ConnectionTypeOK
<1> QED BY <1>1, <1>2, Counts, MarkKeeps

\* __myqtt_conn_invoke_on_close: a handler gets a thread, or there is none left.
LEMMA InvokeKeeps ==
  ASSUME ConnectionInv, NEW who \in Openers \union {"reader", "close"}, InvokeOnClose(who)
  PROVE  ConnectionInv'
<1> DEFINE at == <<who, "handlers">>
           next == <<who, "socket">>
<1>1. /\ at \in breaking /\ next \notin breaking
      /\ UNCHANGED <<is_connected, session, last_err, opts, close_called, freed, listed, opening,
                     unwatching, closing, has_conn, breaks>>
  BY DEF InvokeOnClose, openVars, ConnectionInv, BreaksOnce
<1>2. UnderWay' = UnderWay /\ ClosedLater'
  BY <1>1 DEF UnderWay, ConnectionInv, ClosedLater
<1>3. /\ breaking' = breaking => BreaksOnce'
      /\ breaking' = (breaking \ {at}) \union {next} => BreaksOnce'
  BY <1>1 DEF ConnectionInv, BreaksOnce, Inside
<1>4. CASE /\ UNCHANGED <<handler, ref_count>>
           /\ breaking' = (breaking \ {at}) \union {next}
  <2>1. /\ IsFiniteSet(breaking \ {at})
        /\ Cardinality(breaking \ {at}) = Cardinality(breaking) - 1
    BY <1>1, FS_RemoveElement DEF ConnectionInv
  <2>2. /\ IsFiniteSet(breaking') /\ Cardinality(breaking') = Cardinality(breaking)
    <3>1. next \notin breaking \ {at}
      BY <1>1
    <3>2. Cardinality(breaking) \in Nat
      BY Counts
    <3>3. /\ IsFiniteSet((breaking \ {at}) \union {next})
          /\ Cardinality((breaking \ {at}) \union {next}) = Cardinality(breaking \ {at}) + 1
      BY <2>1, <3>1, FS_AddElement
    <3> QED BY <1>4, <2>1, <3>2, <3>3
  <2>3. ConnectionTypeOK'
    <3>1. {is_connected', close_called', freed', has_conn'} \subseteq BOOLEAN
      BY <1>1 DEF ConnectionInv, ConnectionTypeOK
    <3>2. next \in (Openers \union {"reader", "close"}) \X {"handlers", "socket"}
      OBVIOUS
    <3> QED BY <1>1, <1>4, <3>1, <3>2 DEF ConnectionInv, ConnectionTypeOK
  <2>4. RefsAreHeld'
    BY <1>1, <1>2, <1>4, <2>2 DEF ConnectionInv, RefsAreHeld
  <2> QED BY <1>2, <1>3, <1>4, <2>2, <2>3, <2>4 DEF ConnectionInv
<1>5. ASSUME NEW h \in Handlers, handler[h] \in {"set", "late"},
             handler' = [handler EXCEPT ![h] = "thread"], ref_count' = ref_count + 1,
             UNCHANGED breaking
      PROVE  ConnectionInv'
  <2>1. Cardinality(HandlerThreads') = Cardinality(HandlerThreads) + 1
    BY <1>5, ThreadsChange DEF ConnectionInv, ConnectionTypeOK
  <2>2. ConnectionTypeOK'
    <3>1. {is_connected', close_called', freed', has_conn'} \subseteq BOOLEAN
      BY <1>1 DEF ConnectionInv, ConnectionTypeOK
    <3> QED BY <1>1, <1>5, <3>1 DEF ConnectionInv, ConnectionTypeOK
  <2>3. ref_count' = Holders'
    BY <1>1, <1>2, <1>5, <2>1, Counts DEF Holders, One
  <2>4. RefsAreHeld'
    BY <1>1, <1>5, <2>3, Counts, Balance
  <2> QED BY <1>2, <1>3, <1>5, <2>2, <2>4 DEF ConnectionInv
<1> QED BY <1>4, <1>5 DEF InvokeOnClose

\* The socket is closed; the reference goes, or is left to the reconnect event.
LEMMA BrokenKeeps ==
  ASSUME ConnectionInv, NEW who \in Openers \union {"reader", "close"}, Broken(who)
  PROVE  ConnectionInv'
<1> DEFINE at == <<who, "socket">>
<1>1. /\ at \in breaking /\ breaking' = breaking \ {at} /\ session' = "none"
      /\ UNCHANGED <<is_connected, last_err, opts, close_called, listed, opening, closing, handler,
                     has_conn, breaks>>
      /\ (unwatching' = unwatching + 1 /\ Quiet) \/ (Unref(1) /\ UNCHANGED unwatching)
  BY DEF Broken
<1>2. /\ UnderWay' = UnderWay /\ HandlerThreads' = HandlerThreads
      /\ IsFiniteSet(breaking') /\ Cardinality(breaking') = Cardinality(breaking) - 1
  BY <1>1, FS_RemoveElement DEF UnderWay, HandlerThreads, ConnectionInv
<1>3. BreaksOnce' /\ ClosedLater'
  BY <1>1 DEF ConnectionInv, BreaksOnce, Inside, ClosedLater
<1>4. ref_count' = Holders' /\ ref_count > 0 /\ ref_count' >= 0
  BY <1>1, <1>2, Counts DEF Holders, One, Unref, Quiet
<1>5. RefsAreHeld'
  BY <1>1, <1>4, Counts, Balance
<1>6. ConnectionTypeOK'
  <2>1. {is_connected', close_called', freed', has_conn'} \subseteq BOOLEAN
    BY <1>1 DEF ConnectionInv, ConnectionTypeOK, Unref, Quiet
  <2>2. ref_count' \in Int /\ unwatching' \in Nat
    BY <1>1, Counts DEF Unref, Quiet
  <2> QED BY <1>1, <2>1, <2>2 DEF ConnectionInv, ConnectionTypeOK
<1> QED BY <1>2, <1>3, <1>5, <1>6 DEF ConnectionInv

\* Close handlers are set, removed and called.
LEMMA HandlersKeep ==
  ASSUME ConnectionInv, NEW h \in Handlers, HandlerRuns(h) \/ SetOnClose(h) \/ RemoveOnClose(h)
  PROVE  ConnectionInv'
<1>1. UNCHANGED <<is_connected, session, last_err, opts, close_called, listed, opening, unwatching,
                  breaking, closing, has_conn, breaks>>
  BY DEF HandlerRuns, SetOnClose, RemoveOnClose, openVars
<1>2. UnderWay' = UnderWay /\ BreaksOnce' /\ ClosedLater'
  BY <1>1 DEF UnderWay, ConnectionInv, BreaksOnce, Inside, ClosedLater
<1>3. PICK to \in {"set", "called", "late", "removed"} :
        /\ handler' = [handler EXCEPT ![h] = to]
        /\ \/ handler[h] = "thread" /\ Unref(1)
           \/ handler[h] # "thread" /\ Quiet
  BY DEF HandlerRuns, SetOnClose, RemoveOnClose
<1>4. /\ handler[h] = "thread" => Cardinality(HandlerThreads') = Cardinality(HandlerThreads) - 1
      /\ handler[h] # "thread" => HandlerThreads' = HandlerThreads
  BY <1>3, ThreadsChange DEF ConnectionInv, ConnectionTypeOK
<1>5. handler[h] = "thread" => ref_count > 0
  <2>1. handler[h] = "thread" => HandlerThreads # {}
    BY DEF HandlerThreads
  <2> QED BY <2>1, Counts
<1>6. ref_count' = Holders' /\ ref_count' >= 0
  BY <1>1, <1>2, <1>3, <1>4, <1>5, Counts DEF Holders, One, Unref, Quiet
<1>7. RefsAreHeld'
  BY <1>3, <1>5, <1>6, Counts, Balance DEF Unref, Quiet
<1>8. ConnectionTypeOK'
  <2>1. {is_connected', close_called', freed', has_conn'} \subseteq BOOLEAN
    BY <1>1, <1>3 DEF ConnectionInv, ConnectionTypeOK, Unref, Quiet
  <2>2. ref_count' \in Int
    BY <1>3, Counts DEF Unref, Quiet
  <2> QED BY <1>1, <1>3, <2>1, <2>2 DEF ConnectionInv, ConnectionTypeOK
<1> QED BY <1>1, <1>2, <1>7, <1>8 DEF ConnectionInv

\* A reconnect event that ends, or tries again: its reference becomes the reader's.
LEMMA EventKeeps ==
  ASSUME ConnectionInv, NEW e \in ReconnectEvents, EventReports(e)
  PROVE  ConnectionInv'
<1>1. /\ UNCHANGED <<is_connected, session, last_err, opts, close_called, ref_count, freed,
                     unwatching, breaking, closing, handler, has_conn, breaks>>
      /\ e \in Openers /\ e # "new" /\ opening[e] = "report"
      /\ \/ OpenAt(e, "told") /\ listed' = listed + 1
         \/ OpenAt(e, "connect") /\ listed' = listed
  BY DEF EventReports, openVars, Quiet, Openers, ConnectionAssumption
<1>2. /\ opening' \in [Openers -> {"no", "connect", "greet", "accepted", "report", "told"}]
      /\ (\A o \in Openers \ {e} : opening'[o] = opening[o]) /\ IsFiniteSet(UnderWay')
      /\ OpenAt(e, "told") => Cardinality(UnderWay') = Cardinality(UnderWay) - 1
      /\ OpenAt(e, "connect") => UnderWay' = UnderWay
  BY <1>1, UnderWayChange
<1>3. HandlerThreads' = HandlerThreads
  BY <1>1 DEF HandlerThreads
<1>4. ref_count' = Holders' /\ freed' = (ref_count' = 0)
  BY <1>1, <1>2, <1>3, Counts DEF Holders, One
<1>5. BreaksOnce' /\ ClosedLater'
  BY <1>1, <1>2 DEF ConnectionInv, BreaksOnce, Inside, ClosedLater, Openers
<1>6. ConnectionTypeOK'
  <2>1. {is_connected', close_called', freed', has_conn'} \subseteq BOOLEAN
    BY <1>1 DEF ConnectionInv, ConnectionTypeOK
  <2> QED BY <1>1, <1>2, <2>1 DEF ConnectionInv, ConnectionTypeOK
<1>7. RefsAreHeld'
  BY <1>4 DEF RefsAreHeld, Holders, HandlerThreads
<1> QED BY <1>1, <1>2, <1>5, <1>6, <1>7 DEF ConnectionInv

\* The unwatch task makes the event, to which the reference of the break goes.
LEMMA UnwatchKeeps ==
  ASSUME ConnectionInv, UnwatchAnswered
  PROVE  ConnectionInv'
<1>1. PICK e \in ReconnectEvents : opening[e] = "no" /\ OpenAt(e, "connect")
  BY DEF UnwatchAnswered
<1>2. /\ UNCHANGED <<is_connected, session, last_err, opts, close_called, breaking, closing,
                     handler, has_conn, breaks>>
      /\ unwatching > 0 /\ unwatching' = unwatching - 1
      /\ \/ listed > 0 /\ listed' = listed - 1 /\ Unref(1)
         \/ UNCHANGED listed /\ Quiet
  BY DEF UnwatchAnswered, openVars
<1>3. e \in Openers /\ e # "new"
  BY DEF Openers, ConnectionAssumption
<1>4. /\ opening' \in [Openers -> {"no", "connect", "greet", "accepted", "report", "told"}]
      /\ (\A o \in Openers \ {e} : opening'[o] = opening[o]) /\ IsFiniteSet(UnderWay')
      /\ Cardinality(UnderWay') = Cardinality(UnderWay) + 1
  BY <1>1, <1>3, UnderWayChange
<1>5. HandlerThreads' = HandlerThreads
  BY <1>2 DEF HandlerThreads
<1>6. ref_count' = Holders' /\ ref_count' >= 0 /\ ref_count > 0
  BY <1>2, <1>4, <1>5, Counts DEF Holders, One, Unref, Quiet
<1>7. RefsAreHeld'
  BY <1>2, <1>6, Counts, Balance
<1>8. BreaksOnce' /\ ClosedLater'
  BY <1>2, <1>3, <1>4 DEF ConnectionInv, BreaksOnce, Inside, ClosedLater, Openers
<1>9. ConnectionTypeOK'
  <2>1. {is_connected', close_called', freed', has_conn'} \subseteq BOOLEAN
    BY <1>2 DEF ConnectionInv, ConnectionTypeOK, Unref, Quiet
  <2>2. ref_count' \in Int /\ unwatching' \in Nat /\ listed' \in Nat
    BY <1>2, Counts DEF Unref, Quiet
  <2> QED BY <1>2, <1>4, <2>1, <2>2 DEF ConnectionInv, ConnectionTypeOK
<1> QED BY <1>2, <1>4, <1>7, <1>8, <1>9 DEF ConnectionInv

\* The reader drops what is not well.
LEMMA DropKeeps ==
  ASSUME ConnectionInv, ReaderDrops
  PROVE  ConnectionInv'
<1>1. /\ UNCHANGED <<is_connected, session, last_err, opts, close_called, opening, unwatching,
                     breaking, closing, handler, has_conn, breaks>>
      /\ listed > 0 /\ listed' = listed - 1 /\ Unref(1)
  BY DEF ReaderDrops, openVars
<1>2. UnderWay' = UnderWay /\ HandlerThreads' = HandlerThreads /\ BreaksOnce' /\ ClosedLater'
  BY <1>1 DEF UnderWay, HandlerThreads, ConnectionInv, BreaksOnce, Inside, ClosedLater
<1>3. ref_count' = Holders' /\ ref_count > 0 /\ ref_count' >= 0
  BY <1>1, <1>2, Counts DEF Holders, One, Unref
<1>4. RefsAreHeld'
  BY <1>1, <1>3, Counts, Balance
<1>5. ConnectionTypeOK'
  <2>1. {is_connected', close_called', freed', has_conn'} \subseteq BOOLEAN
    BY <1>1 DEF ConnectionInv, ConnectionTypeOK, Unref
  <2>2. ref_count' \in Int /\ listed' \in Nat
    BY <1>1, Counts DEF Unref
  <2> QED BY <1>1, <2>1, <2>2 DEF ConnectionInv, ConnectionTypeOK
<1> QED BY <1>1, <1>2, <1>4, <1>5 DEF ConnectionInv

\* myqtt_conn_close: a reference for DISCONNECT, and in the end that of the user too.
LEMMA CloseKeeps ==
  ASSUME ConnectionInv, Close \/ CloseSends \/ CloseSkips \/ CloseEnds
  PROVE  ConnectionInv'
<1>1. UNCHANGED <<is_connected, session, last_err, listed, opening, unwatching, breaking, handler,
                  has_conn, breaks>>
  BY DEF Close, CloseSends, CloseSkips, CloseEnds, openVars
<1>2. UnderWay' = UnderWay /\ HandlerThreads' = HandlerThreads
  BY <1>1 DEF UnderWay, HandlerThreads
<1>3. /\ closing # "done" /\ closing' \in {"wait", "sent", "done"}
      /\ close_called' \in BOOLEAN /\ opts' \in {"none", "plain", "reconnect", "reuse", "freed"}
      /\ closing = "last" => ~Inside("close")
      /\ ClosedLater'
  BY <1>1 DEF Close, CloseSends, CloseSkips, CloseEnds, openVars, ConnectionInv, ClosedLater,
              ConnectionTypeOK
<1>4. BreaksOnce'
  BY <1>1, <1>3 DEF ConnectionInv, BreaksOnce, Inside
<1>5. \/ closing = "no" /\ closing' = "wait" /\ Quiet
      \/ closing = "wait" /\ closing' = "sent" /\ ref_count' = ref_count + 1 /\ UNCHANGED freed
      \/ closing = "wait" /\ closing' = "done" /\ Unref(1)
      \/ closing = "last" /\ closing' = "done" /\ Unref(2)
  BY DEF Close, CloseSends, CloseSkips, CloseEnds, ConnectionInv, ClosedLater
<1>6. ref_count' = Holders' /\ ref_count > 0 /\ ref_count' >= 0
  BY <1>1, <1>2, <1>3, <1>5, Counts DEF Holders, One, Unref, Quiet
<1>7. RefsAreHeld'
  BY <1>5, <1>6, Counts, Balance
<1>8. ConnectionTypeOK'
  <2>1. {is_connected', close_called', freed', has_conn'} \subseteq BOOLEAN
    BY <1>1, <1>3, <1>5 DEF ConnectionInv, ConnectionTypeOK, Unref, Quiet
  <2>2. ref_count' \in Int
    BY <1>5, Counts DEF Unref, Quiet
  <2> QED BY <1>1, <1>3, <2>1, <2>2 DEF ConnectionInv, ConnectionTypeOK
<1> QED BY <1>1, <1>2, <1>3, <1>4, <1>7, <1>8 DEF ConnectionInv

LEMMA ConnectionStep == ConnectionInv /\ [ConnectionNext]_connectionVars => ConnectionInv'
<1> SUFFICES ASSUME ConnectionInv, [ConnectionNext]_connectionVars
             PROVE  ConnectionInv'
  OBVIOUS
<1>1. ASSUME NEW who \in Openers \union {"reader", "close"}, InvokeOnClose(who) \/ Broken(who)
      PROVE  ConnectionInv'
  BY <1>1, InvokeKeeps, BrokenKeeps
<1>2. ASSUME NEW h \in Handlers, HandlerRuns(h) \/ SetOnClose(h) \/ RemoveOnClose(h)
      PROVE  ConnectionInv'
  BY <1>2, HandlersKeep
<1>3. ASSUME NEW k \in Openers, Connect(k) \/ NotAccepted(k) \/ AcceptedEnds(k)
      PROVE  ConnectionInv'
  BY <1>3, OpeningKeeps
<1>4. ASSUME NEW k \in Openers, Accepted(k) \/ GreetingBreaks(k) \/ EventReports(k)
      PROVE  ConnectionInv'
  BY <1>4, AcceptedKeeps, GreetingBreaksKeeps, EventKeeps DEF EventReports
<1>5. CASE NewReports
  BY <1>5, OpeningKeeps DEF Openers
<1>6. CASE UnwatchAnswered \/ ReadFails \/ ReaderDrops
  BY <1>6, UnwatchKeeps, ReadFailsKeeps, DropKeeps
<1>7. CASE Close \/ CloseSends \/ CloseSkips \/ CloseShuts \/ CloseEnds
  BY <1>7, CloseKeeps, CloseShutsKeeps
<1>8. CASE UNCHANGED connectionVars
  <2>1. UnderWay' = UnderWay
    BY <1>8 DEF connectionVars, UnderWay
  <2> QED BY <1>8, <2>1 DEF connectionVars, openVars, ConnectionInv, ConnectionTypeOK, BreaksOnce,
                            Inside, ClosedLater, RefsAreHeld
<1> QED BY <1>1, <1>2, <1>3, <1>4, <1>5, <1>6, <1>7, <1>8 DEF ConnectionNext

\* Every variable keeps its type, for any handlers and events.
THEOREM ConnectionTypeCorrect == ConnectionSpec => []ConnectionTypeOK
<1>1. ConnectionInv => ConnectionTypeOK
  BY DEF ConnectionInv
<1> QED BY <1>1, ConnectionInitially, ConnectionStep, PTL DEF ConnectionSpec

\* However opening, breaking, reconnecting, closing and the handlers interleave, every
\* reference has a holder and every holder a reference.
THEOREM RefsAreHeldCorrect == ConnectionSpec => []RefsAreHeld
<1>1. ConnectionInv => RefsAreHeld
  BY DEF ConnectionInv
<1> QED BY <1>1, ConnectionInitially, ConnectionStep, PTL DEF ConnectionSpec

\* Handlers belong to connections the user has been given, which its own opening has let
\* go; one that is set while nobody breaks the connection is set on one that is well.
HandlersInv ==
  /\ ~has_conn => \A h \in Handlers : handler[h] = "no"
  /\ opening["new"] \in {"connect", "greet", "accepted", "report"} => ~has_conn
  /\ \A h \in Handlers : handler[h] = "set" /\ ~is_connected =>
       (\E who \in Openers \union {"reader", "close"} : <<who, "handlers">> \in breaking)
       \/ UnderWay # {}

\* Whatever is under way stays so, the connection breaks with somebody inside, or it is well.
LEMMA HandlersStay ==
  ASSUME HandlersInv, UNCHANGED <<has_conn, handler>>,
         opening'["new"] \in {"connect", "greet", "accepted", "report"}
           => opening["new"] \in {"connect", "greet", "accepted", "report"},
         \/ is_connected'
         \/ /\ UNCHANGED is_connected
            /\ UnderWay # {} => UnderWay' # {}
            /\ \A who \in Openers \union {"reader", "close"} :
                  <<who, "handlers">> \in breaking => <<who, "handlers">> \in breaking'
         \/ UnderWay' # {}
         \/ ~has_conn
         \/ \E who \in Openers \union {"reader", "close"} : <<who, "handlers">> \in breaking'
  PROVE  HandlersInv'
BY DEF HandlersInv

\* Whoever marks the connection is inside until the handlers have their threads.
LEMMA MarkTells ==
  ASSUME NEW who \in Openers \union {"reader", "close"}, Mark(who)
  PROVE  \/ <<who, "handlers">> \in breaking'
         \/ UNCHANGED <<is_connected, breaking>>
BY DEF Mark, openVars

LEMMA HandlersStep ==
  ASSUME ConnectionTypeOK, HandlersInv, ConnectionNext
  PROVE  HandlersInv'
<1>1. ASSUME NEW who \in Openers \union {"reader", "close"}, InvokeOnClose(who)
      PROVE  HandlersInv'
  <2>1. UNCHANGED <<is_connected, has_conn, opening>> /\ UnderWay' = UnderWay
    BY <1>1 DEF InvokeOnClose, openVars, UnderWay
  <2>2. CASE \A h \in Handlers : handler[h] \notin {"set", "late"}
    <3>1. handler' = handler
      BY <1>1, <2>2 DEF InvokeOnClose
    <3> QED BY <2>1, <2>2, <3>1 DEF HandlersInv
  <2>3. CASE \E h \in Handlers : handler[h] \in {"set", "late"}
    <3>1. PICK h \in Handlers : /\ handler[h] \in {"set", "late"} /\ UNCHANGED breaking
                                /\ handler' = [handler EXCEPT ![h] = "thread"]
      BY <1>1, <2>3 DEF InvokeOnClose
    <3> QED BY <2>1, <3>1 DEF HandlersInv, ConnectionTypeOK
  <2> QED BY <2>2, <2>3
<1>2. ASSUME NEW who \in Openers \union {"reader", "close"}, Broken(who)
      PROVE  HandlersInv'
  <2>1. /\ UNCHANGED <<is_connected, has_conn, opening, handler>> /\ UnderWay' = UnderWay
        /\ breaking' = breaking \ {<<who, "socket">>}
    BY <1>2 DEF Broken, UnderWay
  <2>2. \A w : <<w, "handlers">> # <<who, "socket">>
    OBVIOUS
  <2> QED BY <2>1, <2>2, HandlersStay
<1>3. ASSUME NEW h \in Handlers, HandlerRuns(h) \/ SetOnClose(h) \/ RemoveOnClose(h)
      PROVE  HandlersInv'
  <2>1. UNCHANGED <<is_connected, has_conn, opening, breaking>> /\ UnderWay' = UnderWay
    BY <1>3 DEF HandlerRuns, SetOnClose, RemoveOnClose, openVars, UnderWay
  <2>2. \/ has_conn /\ handler' = [handler EXCEPT ![h] = "removed"]
        \/ has_conn /\ handler' = [handler EXCEPT ![h] = IF is_connected THEN "set" ELSE "late"]
        \/ handler[h] = "thread" /\ handler' = [handler EXCEPT ![h] = "called"]
    BY <1>3 DEF HandlerRuns, SetOnClose, RemoveOnClose
  <2> QED BY <2>1, <2>2 DEF HandlersInv, ConnectionTypeOK
<1>4. ASSUME NEW k \in Openers, Connect(k) \/ NotAccepted(k) \/ AcceptedEnds(k) \/ Accepted(k)
      PROVE  HandlersInv'
  <2>1. /\ UNCHANGED <<has_conn, handler, breaking>>
        /\ opening[k] \in {"connect", "greet", "accepted"}
        /\ \E to \in {"greet", "accepted", "report"} : opening' = [opening EXCEPT ![k] = to]
    BY <1>4 DEF Connect, NotAccepted, AcceptedEnds, Accepted, OpenAt
  <2>2. CASE k = "new"
    BY <2>1, <2>2, HandlersStay DEF HandlersInv, ConnectionTypeOK
  <2>3. CASE k # "new"
    <3>1. k \in UnderWay'
      BY <2>1, <2>3 DEF UnderWay, Openers, ConnectionTypeOK
    <3> QED BY <2>1, <2>3, <3>1, HandlersStay DEF ConnectionTypeOK
  <2> QED BY <2>2, <2>3
<1>5. ASSUME NEW k \in Openers, GreetingBreaks(k)
      PROVE  HandlersInv'
  <2>1. UNCHANGED <<has_conn, handler, opening>> /\ UnderWay' = UnderWay /\ Mark(k)
    BY <1>5 DEF GreetingBreaks, UnderWay
  <2> QED BY <2>1, MarkTells, HandlersStay
<1>6. ASSUME NEW e \in Openers, EventReports(e)
      PROVE  HandlersInv'
  <2>1. UNCHANGED <<has_conn, handler, is_connected, breaking>> /\ e \in ReconnectEvents
    BY <1>6 DEF EventReports, openVars
  <2>2. CASE IsOk
    <3>1. opening' = [opening EXCEPT ![e] = "told"] /\ is_connected'
      BY <1>6, <2>1, <2>2 DEF EventReports, OpenAt, IsOk
    <3>2. e # "new"
      BY <2>1 DEF ConnectionAssumption
    <3>3. opening'["new"] = opening["new"]
      BY <3>1, <3>2 DEF ConnectionTypeOK, Openers
    <3> QED BY <2>1, <3>1, <3>3, HandlersStay
  <2>3. CASE ~IsOk
    <3>1. opening' = [opening EXCEPT ![e] = "connect"]
      BY <1>6, <2>3 DEF EventReports, OpenAt
    <3>2. e \in UnderWay' /\ e # "new"
      BY <2>1, <3>1 DEF UnderWay, ConnectionTypeOK, ConnectionAssumption
    <3> QED BY <2>1, <3>1, <3>2, HandlersStay DEF ConnectionTypeOK
  <2> QED BY <2>2, <2>3
<1>7. CASE NewReports
  <2>1. /\ UNCHANGED <<handler, is_connected, breaking>> /\ ~has_conn
        /\ opening' = [opening EXCEPT !["new"] = "told"]
    BY <1>7 DEF NewReports, OpenAt, HandlersInv
  <2>2. \A h \in Handlers : handler[h] = "no"
    BY <2>1 DEF HandlersInv
  <2>3. opening'["new"] = "told"
    BY <2>1 DEF ConnectionTypeOK, Openers
  <2> QED BY <2>1, <2>2, <2>3 DEF HandlersInv
<1>8. CASE UnwatchAnswered
  <2>1. PICK e \in ReconnectEvents : opening' = [opening EXCEPT ![e] = "connect"]
    BY <1>8 DEF UnwatchAnswered, OpenAt
  <2>2. e \in UnderWay' /\ e # "new" /\ UNCHANGED <<has_conn, handler>>
    BY <1>8, <2>1 DEF UnwatchAnswered, UnderWay, ConnectionTypeOK, ConnectionAssumption, Openers
  <2> QED BY <2>1, <2>2, HandlersStay DEF ConnectionTypeOK
<1>9. CASE ReadFails \/ CloseShuts
  <2>1. /\ UNCHANGED <<has_conn, handler, opening>> /\ UnderWay' = UnderWay
        /\ Mark("reader") \/ Mark("close")
    BY <1>9 DEF ReadFails, CloseShuts, UnderWay
  <2> QED BY <2>1, MarkTells, HandlersStay
<1>10. CASE ReaderDrops \/ Close \/ CloseSends \/ CloseSkips \/ CloseEnds
  <2>1. /\ UNCHANGED <<has_conn, handler, opening, is_connected, breaking>> /\ UnderWay' = UnderWay
    BY <1>10 DEF ReaderDrops, Close, CloseSends, CloseSkips, CloseEnds, UnderWay, openVars
  <2> QED BY <2>1, HandlersStay
<1> QED BY <1>1, <1>2, <1>3, <1>4, <1>5, <1>6, <1>7, <1>8, <1>9, <1>10 DEF ConnectionNext

\* A handler set on a connection that is well is told when it breaks, for any handlers,
\* reconnects and breaks.
THEOREM HandlersAreCalledCorrect == ConnectionSpec => []HandlersAreCalled
<1>1. ConnectionInit => HandlersInv
  BY DEF ConnectionInit, HandlersInv
<1>2. ConnectionTypeOK /\ HandlersInv /\ [ConnectionNext]_connectionVars => HandlersInv'
  <2>1. HandlersInv /\ UNCHANGED connectionVars => HandlersInv'
    BY DEF connectionVars, openVars, HandlersInv, UnderWay
  <2> QED BY <2>1, HandlersStep
<1>3. HandlersInv => HandlersAreCalled
  BY DEF HandlersInv, HandlersAreCalled
<1> QED BY <1>1, <1>2, <1>3, ConnectionTypeCorrect, PTL DEF ConnectionSpec

HIDE ConnectionAssumption

-----------------------------------------------------------------------------
(* Listeners, for any connections, shutdowns and unlocks: the listener is referenced
   by its reader, its connections and its shutdowns, and freed with the last of them. *)

USE ListenerAssumption

Ending == {s \in Stoppers : stopper[s] \in {"waits", "last"}}

\* What the reader's queue holds is there once, and is waiting to be read.
QueueSound ==
  /\ \A i \in 1 .. Len(to_read) :
       /\ to_read[i] \in Arrivals => accepted[to_read[i]] = "queued"
       /\ to_read[i] \in Stoppers => stopper[to_read[i]] = "waits"
  /\ \A i, j \in 1 .. Len(to_read) : to_read[i] = to_read[j] => i = j
AcceptingIsMet == accepting # NoAccept => accepted[accepting] = "filter"

\* The types of the two halves.
AcceptTyped ==
  /\ listener_ok \in BOOLEAN /\ in_srv_list \in BOOLEAN /\ listener_hurt \in BOOLEAN
  /\ listener_refs \in Nat /\ accepting \in Arrivals \cup {NoAccept}
  /\ accepted \in [Arrivals -> {"no", "filter", "queued", "listed", "loose", "freed"}]
  /\ accepted_ok \in [Arrivals -> BOOLEAN] /\ held_by_others \subseteq Arrivals
  /\ to_read \in Seq(Arrivals \cup Stoppers)
  /\ stopper \in [Stoppers -> {"no", "called", "waits", "last", "done"}]
  /\ also_created \in [Stoppers -> BOOLEAN] /\ before \in [Stoppers -> SUBSET Arrivals]
WaitTyped ==
  /\ skip_listener_wait \in BOOLEAN /\ missed \in BOOLEAN /\ wait_hurt \in BOOLEAN
  /\ wait_lock \in {"null", "queue"}
  /\ wait_queue \in [items : Nat, waiters : 0 .. 1, freed : BOOLEAN]
  /\ waiter \in {"no", "test", "create", "read", "pop", "blocked", "returned"}
  /\ unlocker \in [Unlockers -> {"no", "null", "queue", "push", "drop", "told", "done"}]
AcceptInv == AcceptTyped /\ ListenerIsAlive /\ QueueSound /\ AcceptingIsMet
ListenerInv == AcceptInv /\ WaitTyped

LEMMA SetsFinite == IsFiniteSet(Masters) /\ IsFiniteSet(Ending)
<1>1. Masters \subseteq Arrivals /\ Ending \subseteq Stoppers
  BY DEF Masters, Ending
<1> QED BY <1>1, FS_Subset DEF ListenerAssumption

\* The numbers that are counted, and that a holder makes them positive.
LEMMA AcceptCounts ==
  ASSUME AcceptInv
  PROVE  /\ Cardinality(Masters) \in Nat /\ Cardinality(Ending) \in Nat
         /\ listener_refs = (IF in_srv_list THEN 1 ELSE 0) + Cardinality(Masters) + Cardinality(Ending)
         /\ Masters # {} \/ Ending # {} \/ in_srv_list => listener_refs >= 1
<1>1. Cardinality(Masters) \in Nat /\ Cardinality(Ending) \in Nat
  BY SetsFinite, FS_CardinalityType
<1>2. /\ Masters # {} => Cardinality(Masters) # 0
      /\ Ending # {} => Cardinality(Ending) # 0
  BY SetsFinite, FS_EmptySet
<1>3. listener_refs = (IF in_srv_list THEN 1 ELSE 0) + Cardinality(Masters) + Cardinality(Ending)
  BY DEF AcceptInv, ListenerIsAlive, Ending
<1> QED BY <1>1, <1>2, <1>3

\* The connections that hold the listener, after one of them has moved on.
LEMMA MastersChange ==
  ASSUME AcceptTyped, NEW c \in Arrivals,
         NEW to \in {"filter", "queued", "listed", "loose", "freed"},
         accepted' = [accepted EXCEPT ![c] = to]
  PROVE  /\ accepted[c] = "no" /\ to # "freed" =>
              Cardinality(Masters') = Cardinality(Masters) + 1
         /\ accepted[c] \notin {"no", "freed"} /\ to = "freed" =>
              Cardinality(Masters') = Cardinality(Masters) - 1
         /\ accepted[c] \notin {"no", "freed"} /\ to # "freed" => Masters' = Masters
<1>1. CASE accepted[c] = "no" /\ to # "freed"
  <2>1. Masters' = Masters \union {c} /\ c \notin Masters
    BY <1>1 DEF Masters, AcceptTyped
  <2> QED BY <1>1, <2>1, SetsFinite, FS_AddElement
<1>2. CASE accepted[c] \notin {"no", "freed"} /\ to = "freed"
  <2>1. Masters' = Masters \ {c} /\ c \in Masters
    BY <1>2 DEF Masters, AcceptTyped
  <2> QED BY <1>2, <2>1, SetsFinite, FS_RemoveElement
<1>3. CASE accepted[c] \notin {"no", "freed"} /\ to # "freed"
  BY <1>3 DEF Masters, AcceptTyped
<1> QED BY <1>1, <1>2, <1>3

\* The shutdowns that hold the listener, after one of them has moved on.
LEMMA EndingChange ==
  ASSUME AcceptTyped, NEW s \in Stoppers, NEW to \in {"called", "waits", "last", "done"},
         stopper' = [stopper EXCEPT ![s] = to]
  PROVE  /\ s \notin Ending /\ to \in {"waits", "last"} =>
              Cardinality(Ending') = Cardinality(Ending) + 1
         /\ s \in Ending /\ to = "done" => Cardinality(Ending') = Cardinality(Ending) - 1
         /\ s \in Ending /\ to \in {"waits", "last"} => Ending' = Ending
         /\ s \notin Ending /\ to \in {"called", "done"} => Ending' = Ending
<1>1. CASE s \notin Ending /\ to \in {"waits", "last"}
  <2>1. Ending' = Ending \union {s}
    BY <1>1 DEF Ending, AcceptTyped
  <2> QED BY <1>1, <2>1, SetsFinite, FS_AddElement
<1>2. CASE s \in Ending /\ to = "done"
  <2>1. Ending' = Ending \ {s}
    BY <1>2 DEF Ending, AcceptTyped
  <2> QED BY <1>2, <2>1, SetsFinite, FS_RemoveElement
<1>3. CASE s \in Ending /\ to \in {"waits", "last"}
  BY <1>3 DEF Ending, AcceptTyped
<1>4. CASE s \notin Ending /\ to \in {"called", "done"}
  BY <1>4 DEF Ending, AcceptTyped
<1> QED BY <1>1, <1>2, <1>3, <1>4

LEMMA ListenerInitially == ListenerInit => ListenerInv
<1> SUFFICES ASSUME ListenerInit
             PROVE  ListenerInv
  OBVIOUS
<1>1. QueueSound /\ AcceptingIsMet
  BY DEF ListenerInit, QueueSound, AcceptingIsMet
<1>3. AcceptTyped
  <2>1. /\ listener_refs \in Nat /\ accepting \in Arrivals \cup {NoAccept}
        /\ held_by_others \subseteq Arrivals /\ to_read \in Seq(Arrivals \cup Stoppers)
    BY DEF ListenerInit
  <2>4. {listener_ok, in_srv_list, listener_hurt} \subseteq BOOLEAN
    BY DEF ListenerInit
  <2>2. /\ accepted \in [Arrivals -> {"no", "filter", "queued", "listed", "loose", "freed"}]
        /\ accepted_ok \in [Arrivals -> BOOLEAN]
    BY DEF ListenerInit
  <2>3. /\ stopper \in [Stoppers -> {"no", "called", "waits", "last", "done"}]
        /\ also_created \in [Stoppers -> BOOLEAN] /\ before \in [Stoppers -> SUBSET Arrivals]
    BY DEF ListenerInit
  <2> QED BY <2>1, <2>2, <2>3, <2>4 DEF AcceptTyped
<1>4. WaitTyped
  <2>1. /\ {skip_listener_wait, missed, wait_hurt} \subseteq BOOLEAN
        /\ wait_lock \in {"null", "queue"} /\ wait_queue = NoQueue
        /\ waiter \in {"no", "test", "create", "read", "pop", "blocked", "returned"}
        /\ unlocker \in [Unlockers -> {"no", "null", "queue", "push", "drop", "told", "done"}]
    BY DEF ListenerInit
  <2>2. NoQueue \in [items : Nat, waiters : 0 .. 1, freed : BOOLEAN]
    BY DEF NoQueue
  <2> QED BY <2>1, <2>2 DEF WaitTyped
<1>2. ListenerIsAlive
  <2>1. Masters = {} /\ Ending = {}
    BY DEF ListenerInit, Masters, Ending
  <2>2. Cardinality({}) = 0
    BY FS_EmptySet
  <2>3. listener_refs = 1 /\ in_srv_list
    BY DEF ListenerInit
  <2>4. listener_refs = (IF in_srv_list THEN 1 ELSE 0) + Cardinality(Masters) + Cardinality(Ending)
    BY <2>1, <2>2, <2>3
  <2> QED BY <2>4 DEF ListenerIsAlive, Ending
<1> QED BY <1>1, <1>2, <1>3, <1>4 DEF ListenerInv, AcceptInv

(* --------------------------- the steps of accepting --------------------------- *)
LEMMA InitialAcceptKeeps ==
  ASSUME AcceptInv, NEW c \in Arrivals, InitialAccept(c)
  PROVE  AcceptInv'
<1>1. AcceptTyped'
  BY DEF InitialAccept, AcceptInv, AcceptTyped
<1>2. ListenerIsAlive'
  <2>1. Cardinality(Masters') = Cardinality(Masters) + 1 /\ Ending' = Ending
    BY MastersChange DEF InitialAccept, AcceptInv, Ending
  <2> QED BY <2>1, AcceptCounts DEF InitialAccept, ListenerIsAlive, Ending
<1>3. QueueSound'
  BY DEF InitialAccept, AcceptInv, AcceptTyped, QueueSound
<1>4. AcceptingIsMet'
  BY DEF InitialAccept, AcceptInv, AcceptTyped, AcceptingIsMet
<1> QED BY <1>1, <1>2, <1>3, <1>4 DEF AcceptInv

\* The last reference of a connection goes, and with it its reference of the listener.
LEMMA FreedKeepsAlive ==
  ASSUME AcceptInv, NEW c \in Masters, FreedAccepted(c), UNCHANGED <<in_srv_list, stopper>>
  PROVE  ListenerIsAlive' /\ listener_refs' \in Nat
<1>1. c \in Arrivals /\ accepted[c] \notin {"no", "freed"}
  BY DEF Masters
<1>2. Cardinality(Masters') = Cardinality(Masters) - 1 /\ Ending' = Ending
  BY <1>1, MastersChange DEF FreedAccepted, AcceptInv, Ending
<1>3. listener_refs' = (IF in_srv_list' THEN 1 ELSE 0) + Cardinality(Masters') + Cardinality(Ending')
  BY <1>2, AcceptCounts DEF FreedAccepted
<1>4. listener_refs' \in Nat
  BY AcceptCounts DEF FreedAccepted
<1> QED BY <1>3, <1>4 DEF ListenerIsAlive, Ending

LEMMA FilteredKeeps ==
  ASSUME AcceptInv, NEW c \in Arrivals, AcceptFiltered(c)
  PROVE  AcceptInv'
<1>1. accepted[c] = "filter" /\ c \in Masters
  BY DEF AcceptFiltered, AcceptInv, AcceptingIsMet, Masters
<1>2. ListenerIsAlive' /\ listener_refs' \in Nat
  BY <1>1, FreedKeepsAlive DEF AcceptFiltered
<1>3. AcceptTyped'
  BY <1>2 DEF AcceptFiltered, FreedAccepted, AcceptInv, AcceptTyped
<1>4. QueueSound'
  BY <1>1 DEF AcceptFiltered, FreedAccepted, AcceptInv, AcceptTyped, QueueSound
<1>5. AcceptingIsMet'
  BY DEF AcceptFiltered, AcceptingIsMet
<1> QED BY <1>2, <1>3, <1>4, <1>5 DEF AcceptInv

LEMMA RegisterKeeps ==
  ASSUME AcceptInv, NEW c \in Arrivals, CompleteRegister(c)
  PROVE  AcceptInv'
<1>1. accepted[c] = "filter" /\ accepting = c
  BY DEF CompleteRegister, AcceptInv, AcceptingIsMet
<1>2. AcceptTyped'
  BY DEF CompleteRegister, AcceptInv, AcceptTyped
<1>3. ListenerIsAlive'
  <2>1. Masters' = Masters /\ Ending' = Ending
    BY <1>1, MastersChange DEF CompleteRegister, AcceptInv, Ending
  <2> QED BY <2>1 DEF CompleteRegister, AcceptInv, ListenerIsAlive, Ending
<1>4. QueueSound'
  <2>1. \A i \in 1 .. Len(to_read) : to_read[i] # c
    BY <1>1 DEF AcceptInv, QueueSound
  <2> QED BY <1>1, <2>1 DEF CompleteRegister, AcceptInv, AcceptTyped, QueueSound
<1>5. AcceptingIsMet'
  BY DEF CompleteRegister, AcceptingIsMet
<1> QED BY <1>2, <1>3, <1>4, <1>5 DEF AcceptInv

\* The reader lets go of a connection that another still holds, or frees it.
LEMMA LetGoKeeps ==
  ASSUME AcceptInv, NEW c \in Masters, LetGoOf(c), UNCHANGED <<in_srv_list, stopper>>
  PROVE  /\ ListenerIsAlive' /\ listener_refs' \in Nat
         /\ \E to \in {"loose", "freed"} : accepted' = [accepted EXCEPT ![c] = to]
<1>1. c \in Arrivals /\ accepted[c] \notin {"no", "freed"}
  BY DEF Masters
<1>2. CASE c \in held_by_others
  <2>1. Masters' = Masters /\ Ending' = Ending
    BY <1>1, <1>2, MastersChange DEF LetGoOf, AcceptInv, Ending
  <2> QED BY <1>2, <2>1 DEF LetGoOf, AcceptInv, AcceptTyped, ListenerIsAlive, Ending
<1>3. CASE c \notin held_by_others
  BY <1>3, FreedKeepsAlive DEF LetGoOf, FreedAccepted
<1> QED BY <1>2, <1>3

\* Taking the first of the queue leaves a sound queue, without it.
LEMMA TailOfQueue ==
  ASSUME AcceptInv, to_read # <<>>, to_read' = Tail(to_read)
  PROVE  /\ Head(to_read) = to_read[1] /\ Len(to_read') = Len(to_read) - 1
         /\ 1 \in 1 .. Len(to_read)
         /\ \A i \in 1 .. Len(to_read') :
              /\ i + 1 \in 1 .. Len(to_read) /\ to_read'[i] = to_read[i + 1]
              /\ to_read'[i] # Head(to_read)
         /\ to_read' \in Seq(Arrivals \cup Stoppers)
<1>1. to_read \in Seq(Arrivals \cup Stoppers)
  BY DEF AcceptInv, AcceptTyped
<1>2. /\ Head(to_read) = to_read[1] /\ Len(to_read') = Len(to_read) - 1 /\ Len(to_read) \in Nat
      /\ 1 \in 1 .. Len(to_read) /\ to_read' \in Seq(Arrivals \cup Stoppers)
  BY <1>1
<1>3. \A i \in 1 .. Len(to_read') : i + 1 \in 1 .. Len(to_read) /\ to_read'[i] = to_read[i + 1]
  BY <1>1, <1>2
<1>4. \A i \in 1 .. Len(to_read') : to_read'[i] # Head(to_read)
  BY <1>2, <1>3 DEF AcceptInv, QueueSound
<1> QED BY <1>2, <1>3, <1>4

LEMMA ReadKeeps ==
  ASSUME AcceptInv, ReadRegistered
  PROVE  AcceptInv'
<1> DEFINE c == Head(to_read)
<1>1. /\ c \in Arrivals /\ to_read # <<>> /\ to_read' = Tail(to_read) /\ accepting = NoAccept
      /\ UNCHANGED <<listener_ok, in_srv_list, accepting, accepted_ok, held_by_others, stopper,
                     also_created, before, listener_hurt>>
  BY DEF ReadRegistered
<1>2. accepted[c] = "queued" /\ c \in Masters
  BY <1>1, TailOfQueue DEF AcceptInv, QueueSound, Masters
<1>3. /\ ListenerIsAlive' /\ listener_refs' \in Nat
      /\ \E to \in {"listed", "loose", "freed"} : accepted' = [accepted EXCEPT ![c] = to]
  <2>1. CASE accepted_ok[c]
    <3>1. accepted' = [accepted EXCEPT ![c] = "listed"] /\ UNCHANGED listener_refs
      BY <2>1 DEF ReadRegistered
    <3>2. Masters' = Masters /\ Ending' = Ending
      BY <1>1, <1>2, <3>1, MastersChange DEF AcceptInv, Ending
    <3> QED BY <1>1, <3>1, <3>2 DEF AcceptInv, AcceptTyped, ListenerIsAlive, Ending
  <2>2. CASE ~accepted_ok[c]
    <3>1. LetGoOf(c)
      BY <2>2 DEF ReadRegistered
    <3>2. UNCHANGED <<in_srv_list, stopper>>
      BY <1>1
    <3> QED BY <1>2, <3>1, <3>2, LetGoKeeps
  <2> QED BY <2>1, <2>2
<1>4. AcceptTyped'
  BY <1>1, <1>3, TailOfQueue DEF AcceptInv, AcceptTyped
<1>5. QueueSound'
  <2>1. \A i \in 1 .. Len(to_read') :
          to_read'[i] \in Arrivals => accepted'[to_read'[i]] = accepted[to_read'[i]]
    BY <1>1, <1>3, TailOfQueue DEF AcceptInv, AcceptTyped
  <2>2. \A i, j \in 1 .. Len(to_read') : to_read'[i] = to_read'[j] => i + 1 = j + 1
    BY <1>1, TailOfQueue DEF AcceptInv, QueueSound
  <2>3. \A i \in 1 .. Len(to_read') :
          /\ to_read'[i] \in Arrivals => accepted'[to_read'[i]] = "queued"
          /\ to_read'[i] \in Stoppers => stopper'[to_read'[i]] = "waits"
    BY <1>1, <2>1, TailOfQueue DEF AcceptInv, QueueSound
  <2>4. \A i, j \in 1 .. Len(to_read') : to_read'[i] = to_read'[j] => i = j
    BY <2>2
  <2> QED BY <2>3, <2>4 DEF QueueSound
<1>6. AcceptingIsMet'
  BY <1>1 DEF AcceptingIsMet
<1> QED BY <1>3, <1>4, <1>5, <1>6 DEF AcceptInv
LEMMA BreaksKeeps ==
  ASSUME AcceptInv, NEW c \in Arrivals, AcceptedBreaks(c)
  PROVE  AcceptInv'
BY DEF AcceptedBreaks, AcceptInv, AcceptTyped, ListenerIsAlive, Masters, Ending, QueueSound,
       AcceptingIsMet

\* The reader answers a shutdown, which goes from waiting to ending.
LEMMA ForeachKeeps ==
  ASSUME AcceptInv, ShutdownForeach
  PROVE  AcceptInv'
<1> DEFINE s == Head(to_read)
<1>1. /\ s \in Stoppers /\ to_read # <<>> /\ to_read' = Tail(to_read)
      /\ stopper' = [stopper EXCEPT ![s] = "last"]
      /\ accepted_ok' \in [Arrivals -> BOOLEAN]
      /\ UNCHANGED <<listener_ok, listener_refs, in_srv_list, accepting, accepted, held_by_others,
                     also_created, before, listener_hurt>>
  <2>1. accepted_ok' \in [Arrivals -> BOOLEAN]
    BY DEF ShutdownForeach, AcceptInv, AcceptTyped
  <2> QED BY <2>1 DEF ShutdownForeach
<1>2. stopper[s] = "waits"
  BY <1>1, TailOfQueue DEF AcceptInv, QueueSound
<1>3. AcceptTyped'
  BY <1>1, TailOfQueue DEF AcceptInv, AcceptTyped
<1>4. ListenerIsAlive'
  <2>1. Ending' = Ending
    BY <1>1, <1>2, EndingChange DEF AcceptInv, Ending
  <2>2. Masters' = Masters
    BY <1>1 DEF Masters
  <2> QED BY <1>1, <2>1, <2>2 DEF AcceptInv, ListenerIsAlive, Ending
<1>5. QueueSound'
  <2>1. \A i \in 1 .. Len(to_read') :
          to_read'[i] \in Stoppers => stopper'[to_read'[i]] = stopper[to_read'[i]]
    BY <1>1, TailOfQueue DEF AcceptInv, AcceptTyped
  <2>2. \A i \in 1 .. Len(to_read') :
          /\ to_read'[i] \in Arrivals => accepted'[to_read'[i]] = "queued"
          /\ to_read'[i] \in Stoppers => stopper'[to_read'[i]] = "waits"
    BY <1>1, <2>1, TailOfQueue DEF AcceptInv, QueueSound
  <2>3. \A i, j \in 1 .. Len(to_read') : to_read'[i] = to_read'[j] => i + 1 = j + 1
    BY <1>1, TailOfQueue DEF AcceptInv, QueueSound
  <2>4. \A i, j \in 1 .. Len(to_read') : to_read'[i] = to_read'[j] => i = j
    BY <2>3
  <2> QED BY <2>2, <2>4 DEF QueueSound
<1>6. AcceptingIsMet'
  BY <1>1 DEF AcceptInv, AcceptingIsMet
<1> QED BY <1>3, <1>4, <1>5, <1>6 DEF AcceptInv

\* The reader drops a connection, or a task its reference of one.
LEMMA AcceptDropKeeps ==
  ASSUME AcceptInv, NEW c \in Arrivals, DropAccepted(c) \/ OthersRelease(c)
  PROVE  AcceptInv'
<1>1. /\ held_by_others' \subseteq Arrivals
      /\ UNCHANGED <<listener_ok, in_srv_list, accepting, accepted_ok, to_read, stopper,
                     also_created, before, listener_hurt>>
  BY DEF DropAccepted, OthersRelease, AcceptInv, AcceptTyped
<1>2. CASE UNCHANGED <<accepted, listener_refs>>
  BY <1>1, <1>2 DEF AcceptInv, AcceptTyped, ListenerIsAlive, Masters, Ending, QueueSound,
                    AcceptingIsMet
<1>3. CASE /\ accepted[c] \in {"listed", "loose"} /\ ListenerIsAlive' /\ listener_refs' \in Nat
           /\ \E to \in {"loose", "freed"} : accepted' = [accepted EXCEPT ![c] = to]
  <2>1. AcceptTyped'
    BY <1>1, <1>3 DEF AcceptInv, AcceptTyped
  <2>2. QueueSound'
    BY <1>1, <1>3 DEF AcceptInv, AcceptTyped, QueueSound
  <2>3. AcceptingIsMet'
    BY <1>1, <1>3 DEF AcceptInv, AcceptTyped, AcceptingIsMet
  <2> QED BY <1>3, <2>1, <2>2, <2>3 DEF AcceptInv
<1>4. CASE DropAccepted(c)
  <2>1. accepted[c] = "listed" /\ c \in Masters /\ LetGoOf(c)
    BY <1>4 DEF DropAccepted, Masters
  <2> QED BY <1>1, <1>3, <2>1, LetGoKeeps
<1>5. CASE OthersRelease(c)
  <2>1. CASE accepted[c] = "loose"
    <3>1. c \in Masters /\ FreedAccepted(c)
      BY <1>5, <2>1 DEF OthersRelease, Masters
    <3>2. ListenerIsAlive' /\ listener_refs' \in Nat
      BY <1>1, <3>1, FreedKeepsAlive
    <3> QED BY <1>3, <2>1, <3>1, <3>2 DEF FreedAccepted
  <2>2. CASE accepted[c] # "loose"
    BY <1>2, <1>5, <2>2 DEF OthersRelease
  <2> QED BY <2>1, <2>2
<1> QED BY <1>4, <1>5

LEMMA DropListenerKeeps ==
  ASSUME AcceptInv, DropListener
  PROVE  AcceptInv'
<1>1. Masters' = Masters /\ Ending' = Ending
  BY DEF DropListener, Masters, Ending
<1>2. /\ listener_refs' = (IF in_srv_list' THEN 1 ELSE 0) + Cardinality(Masters') + Cardinality(Ending')
      /\ listener_refs' \in Nat
  BY <1>1, AcceptCounts DEF DropListener
<1>3. AcceptTyped'
  BY <1>2 DEF DropListener, AcceptInv, AcceptTyped
<1>4. QueueSound' /\ AcceptingIsMet'
  BY DEF DropListener, AcceptInv, QueueSound, AcceptingIsMet
<1> QED BY <1>2, <1>3, <1>4 DEF AcceptInv, ListenerIsAlive, Ending

(* --------------------------- the steps of a shutdown --------------------------- *)
LEMMA CalledKeeps ==
  ASSUME AcceptInv, NEW s \in Stoppers, ShutdownCalled(s)
  PROVE  AcceptInv'
<1>1. Masters' = Masters /\ Ending' = Ending
  BY EndingChange DEF ShutdownCalled, AcceptInv, Ending, Masters
<1>2. ListenerIsAlive'
  BY <1>1 DEF ShutdownCalled, AcceptInv, ListenerIsAlive, Ending
<1>3. AcceptTyped'
  BY DEF ShutdownCalled, AcceptInv, AcceptTyped
<1>4. QueueSound'
  BY DEF ShutdownCalled, AcceptInv, AcceptTyped, QueueSound
<1>5. AcceptingIsMet'
  BY DEF ShutdownCalled, AcceptInv, AcceptingIsMet
<1> QED BY <1>2, <1>3, <1>4, <1>5 DEF AcceptInv

LEMMA RefsKeeps ==
  ASSUME AcceptInv, NEW s \in Stoppers, ShutdownRefs(s)
  PROVE  AcceptInv'
<1>1. /\ stopper[s] = "called" /\ s \notin Ending
      /\ UNCHANGED <<listener_ok, in_srv_list, accepting, accepted, accepted_ok, held_by_others,
                     also_created, before>>
  BY DEF ShutdownRefs, Ending
<1>2. PICK to \in {"done", "waits", "last"} :
        /\ stopper' = [stopper EXCEPT ![s] = to]
        /\ to_read' = IF to = "waits" THEN Append(to_read, s) ELSE to_read
        /\ listener_refs' = IF to = "done" THEN listener_refs ELSE listener_refs + 1
        /\ listener_hurt' \in BOOLEAN
  BY DEF ShutdownRefs, AcceptInv, AcceptTyped
<1>3. ListenerIsAlive'
  <2>1. Masters' = Masters
    BY <1>1 DEF Masters
  <2>2. IF to = "done" THEN Ending' = Ending ELSE Cardinality(Ending') = Cardinality(Ending) + 1
    BY <1>1, <1>2, EndingChange DEF AcceptInv
  <2>3. listener_refs' = (IF in_srv_list' THEN 1 ELSE 0) + Cardinality(Masters') + Cardinality(Ending')
    BY <1>1, <1>2, <2>1, <2>2, AcceptCounts
  <2> QED BY <2>3 DEF ListenerIsAlive, Ending
<1>4. AcceptTyped'
  BY <1>1, <1>2 DEF AcceptInv, AcceptTyped
<1>5. QueueSound'
  <2>1. \A i \in 1 .. Len(to_read) : to_read[i] # s
    BY <1>1 DEF AcceptInv, QueueSound
  <2>2. CASE to = "waits"
    BY <1>1, <1>2, <2>1, <2>2 DEF AcceptInv, AcceptTyped, QueueSound
  <2>3. CASE to # "waits"
    BY <1>1, <1>2, <2>1, <2>3 DEF AcceptInv, AcceptTyped, QueueSound
  <2> QED BY <2>2, <2>3
<1>6. AcceptingIsMet'
  BY <1>1 DEF AcceptInv, AcceptingIsMet
<1> QED BY <1>3, <1>4, <1>5, <1>6 DEF AcceptInv

LEMMA EndsKeeps ==
  ASSUME AcceptInv, NEW s \in Stoppers, ShutdownEnds(s)
  PROVE  AcceptInv'
<1>1. stopper[s] = "last" /\ s \in Ending /\ stopper' = [stopper EXCEPT ![s] = "done"]
  BY DEF ShutdownEnds, Ending
<1>2. Masters' = Masters /\ Cardinality(Ending') = Cardinality(Ending) - 1
  BY <1>1, EndingChange DEF ShutdownEnds, AcceptInv, Masters
<1>3. /\ listener_refs' = (IF in_srv_list' THEN 1 ELSE 0) + Cardinality(Masters') + Cardinality(Ending')
      /\ listener_refs' \in Nat
  BY <1>1, <1>2, AcceptCounts DEF ShutdownEnds
<1>4. AcceptTyped'
  BY <1>1, <1>3 DEF ShutdownEnds, AcceptInv, AcceptTyped
<1>5. QueueSound'
  BY <1>1 DEF ShutdownEnds, AcceptInv, AcceptTyped, QueueSound
<1>6. AcceptingIsMet'
  BY DEF ShutdownEnds, AcceptInv, AcceptingIsMet
<1> QED BY <1>3, <1>4, <1>5, <1>6 DEF AcceptInv, ListenerIsAlive, Ending

(* ------------------------------ both halves ------------------------------ *)
LEMMA AcceptStep ==
  ASSUME ListenerInv, AcceptNext
  PROVE  ListenerInv'
<1>1. WaitTyped'
  <2>1. UNCHANGED waitVars
    BY DEF AcceptNext, InitialAccept, AcceptFiltered, CompleteRegister, AcceptedBreaks,
           DropAccepted, OthersRelease, ReadRegistered, ShutdownForeach, DropListener,
           ShutdownCalled, ShutdownRefs, ShutdownEnds
  <2> QED BY <2>1 DEF ListenerInv, WaitTyped, waitVars
<1>2. AcceptInv'
  <2>1. AcceptInv
    BY DEF ListenerInv
  <2>2. ASSUME NEW c \in Arrivals,
               InitialAccept(c) \/ AcceptFiltered(c) \/ CompleteRegister(c) \/ AcceptedBreaks(c)
        PROVE  AcceptInv'
    BY <2>1, <2>2, InitialAcceptKeeps, FilteredKeeps, RegisterKeeps, BreaksKeeps
  <2>3. ASSUME NEW c \in Arrivals, DropAccepted(c) \/ OthersRelease(c)
        PROVE  AcceptInv'
    BY <2>1, <2>3, AcceptDropKeeps
  <2>4. CASE ReadRegistered \/ ShutdownForeach \/ DropListener
    BY <2>1, <2>4, ReadKeeps, ForeachKeeps, DropListenerKeeps
  <2>5. ASSUME NEW s \in Stoppers, ShutdownCalled(s) \/ ShutdownRefs(s) \/ ShutdownEnds(s)
        PROVE  AcceptInv'
    BY <2>1, <2>5, CalledKeeps, RefsKeeps, EndsKeeps
  <2> QED BY <2>2, <2>3, <2>4, <2>5 DEF AcceptNext
<1> QED BY <1>1, <1>2 DEF ListenerInv

\* Steps of the wait leave the accepting half alone.
LEMMA AcceptStill ==
  ASSUME AcceptInv, UNCHANGED acceptVars
  PROVE  AcceptInv'
<1>1. Masters' = Masters /\ Ending' = Ending
  BY DEF acceptVars, Masters, Ending
<1> QED BY <1>1 DEF acceptVars, AcceptInv, AcceptTyped, ListenerIsAlive, Ending, QueueSound,
                    AcceptingIsMet

LEMMA WaitStep ==
  ASSUME ListenerInv, WaitNext
  PROVE  ListenerInv'
<1> USE DEF ListenerInv, WaitTyped
<1>1. CASE WaitBegins \/ WaitTests \/ WaitCreates \/ WaitReads
  <2>1. AcceptInv'
    BY <1>1, AcceptStill DEF WaitBegins, WaitTests, WaitCreates, WaitReads, WaitGoes
  <2>2. NoQueue \in [items : Nat, waiters : 0 .. 1, freed : BOOLEAN]
    BY DEF NoQueue
  <2>4. missed' \in BOOLEAN
    <3>1. \/ missed' = missed
          \/ missed' = (missed \/ (~skip_listener_wait /\ \E u \in Unlockers : unlocker[u] = "null"))
      BY <1>1 DEF WaitBegins, WaitTests, WaitCreates, WaitReads
    <3> QED BY <3>1
  <2>3. WaitTyped'
    BY <1>1, <2>2, <2>4 DEF WaitBegins, WaitTests, WaitCreates, WaitReads, WaitGoes
  <2> QED BY <2>1, <2>3
<1>2. CASE WaitPops \/ WaitPopsFreed \/ WaitReturns
  <2>1. AcceptInv'
    BY <1>2, AcceptStill DEF WaitPops, WaitPopsFreed, WaitReturns, WaitGoes
  <2>2. wait_queue' \in [items : Nat, waiters : 0 .. 1, freed : BOOLEAN]
    <3>1. CASE WaitPops
      BY <3>1 DEF WaitPops
    <3>2. CASE WaitPopsFreed
      BY <3>2 DEF WaitPopsFreed
    <3>3. CASE WaitReturns
      <4>1. wait_queue.items - 1 \in Nat
        BY <3>3 DEF WaitReturns
      <4> QED BY <3>3, <4>1 DEF WaitReturns
    <3> QED BY <1>2, <3>1, <3>2, <3>3
  <2>3. WaitTyped'
    BY <1>2, <2>2 DEF WaitPops, WaitPopsFreed, WaitReturns, WaitGoes
  <2> QED BY <2>1, <2>3
<1>3. ASSUME NEW u \in Unlockers, UnlockBegins(u) \/ UnlockSets(u) \/ UnlockLooks(u)
      PROVE  ListenerInv'
  <2>1. AcceptInv'
    BY <1>3, AcceptStill DEF UnlockBegins, UnlockSets, UnlockLooks, UnlockerGoes
  <2>2. missed' \in BOOLEAN
    <3>1. \/ missed' = missed
          \/ missed' = (missed \/ (wait_lock = "null" /\ waiter = "create"))
          \/ missed' = (missed \/ wait_queue.waiters = 0)
      BY <1>3 DEF UnlockBegins, UnlockSets, UnlockLooks
    <3> QED BY <3>1
  <2>3. WaitTyped'
    BY <1>3, <2>2 DEF UnlockBegins, UnlockSets, UnlockLooks, UnlockerGoes
  <2> QED BY <2>1, <2>3
<1>4. ASSUME NEW u \in Unlockers, UnlockPushes(u) \/ UnlockDrops(u) \/ UnlockEnds(u)
      PROVE  ListenerInv'
  <2>1. AcceptInv'
    BY <1>4, AcceptStill DEF UnlockPushes, UnlockDrops, UnlockEnds, UnlockerGoes
  <2>2. wait_hurt' \in BOOLEAN
    <3>1. wait_hurt' = wait_hurt \/ wait_hurt' = (wait_hurt \/ waiter = "blocked")
      BY <1>4 DEF UnlockPushes, UnlockDrops, UnlockEnds
    <3> QED BY <3>1
  <2>3. wait_queue' \in [items : Nat, waiters : 0 .. 1, freed : BOOLEAN]
    <3>1. \/ wait_queue' = wait_queue
          \/ wait_queue' = [wait_queue EXCEPT !.items = @ + 1]
          \/ wait_queue' = [wait_queue EXCEPT !.freed = TRUE]
      BY <1>4 DEF UnlockPushes, UnlockDrops, UnlockEnds
    <3>2. wait_queue.items + 1 \in Nat
      OBVIOUS
    <3> QED BY <3>1, <3>2
  <2>4. WaitTyped'
    BY <1>4, <2>2, <2>3 DEF UnlockPushes, UnlockDrops, UnlockEnds, UnlockerGoes
  <2> QED BY <2>1, <2>4
<1> QED BY <1>1, <1>2, <1>3, <1>4 DEF WaitNext

LEMMA ListenerStep == ListenerInv /\ [ListenerNext]_listenerVars => ListenerInv'
<1> SUFFICES ASSUME ListenerInv, [ListenerNext]_listenerVars
             PROVE  ListenerInv'
  OBVIOUS
<1>1. CASE UNCHANGED listenerVars
  <2>1. AcceptInv'
    BY <1>1, AcceptStill DEF ListenerInv, listenerVars
  <2>2. WaitTyped'
    BY <1>1 DEF ListenerInv, WaitTyped, listenerVars, waitVars
  <2> QED BY <2>1, <2>2 DEF ListenerInv
<1> QED BY <1>1, AcceptStep, WaitStep DEF ListenerNext

\* Every variable keeps its type, for any connections, shutdowns and unlocks.
THEOREM ListenerTypeCorrect == ListenerSpec => []ListenerTypeOK
<1>1. ListenerInv => ListenerTypeOK
  BY DEF ListenerInv, AcceptInv, AcceptTyped, WaitTyped, ListenerTypeOK
<1> QED BY <1>1, ListenerInitially, ListenerStep, PTL DEF ListenerSpec

\* However connections come, break and are shut down, the listener lives as long as one that
\* it accepted, as its entry in the reader or as a shutdown under way, and no longer.
THEOREM ListenerIsAliveCorrect == ListenerSpec => []ListenerIsAlive
<1>1. ListenerInv => ListenerIsAlive
  BY DEF ListenerInv, AcceptInv
<1> QED BY <1>1, ListenerInitially, ListenerStep, PTL DEF ListenerSpec

\* While none has missed the other: before the wait is about to make the queue there is none
\* and an unlock that is done has left its flag; once the wait has read that there is no flag
\* no unlock has begun, and none that has found the queue has looked at it; when the wait is
\* blocked whoever unlocks leaves an item before it goes.
WokenInv ==
  ~missed =>
    /\ ~wait_hurt
    /\ waiter \in {"no", "test", "create"} => wait_lock = "null"
    /\ waiter \in {"no", "test"} => \A u \in Unlockers :
         unlocker[u] \in {"no", "null", "done"} /\ (unlocker[u] = "done" => skip_listener_wait)
    /\ waiter = "create" => \A u \in Unlockers : unlocker[u] = "no"
    /\ waiter \in {"read", "pop"} =>
         /\ wait_lock = "queue" /\ wait_queue = NoQueue
         /\ \A u \in Unlockers : unlocker[u] \in {"no", "queue"}
    /\ waiter = "blocked" => ~wait_queue.freed /\ wait_queue.waiters = 1
    /\ waiter = "blocked" => \A u \in Unlockers :
         /\ unlocker[u] # "drop"
         /\ wait_lock = "null" \/ unlocker[u] \in {"null", "told", "done"} => wait_queue.items > 0

LEMMA WokenStep ==
  ASSUME WaitTyped, WokenInv, WaitNext
  PROVE  WokenInv'
<1> USE DEF WaitTyped, WokenInv, WaitGoes, UnlockerGoes, NoQueue
<1>1. CASE WaitBegins
  BY <1>1 DEF WaitBegins
<1>2. CASE WaitTests
  BY <1>2 DEF WaitTests
<1>3. CASE WaitCreates
  BY <1>3 DEF WaitCreates
<1>4. CASE WaitReads
  BY <1>4 DEF WaitReads
<1>5. CASE WaitPops
  BY <1>5 DEF WaitPops
<1>6. CASE WaitPopsFreed
  BY <1>6 DEF WaitPopsFreed
<1>7. CASE WaitReturns
  BY <1>7 DEF WaitReturns
<1>8. ASSUME NEW u \in Unlockers, UnlockBegins(u)
      PROVE  WokenInv'
  BY <1>8 DEF UnlockBegins
<1>9. ASSUME NEW u \in Unlockers, UnlockSets(u)
      PROVE  WokenInv'
  BY <1>9 DEF UnlockSets
<1>10. ASSUME NEW u \in Unlockers, UnlockLooks(u)
      PROVE  WokenInv'
  <2>1. CASE wait_queue.waiters = 0
    BY <1>10, <2>1 DEF UnlockLooks
  <2>2. CASE wait_queue.waiters > 0
    <3>1. unlocker' = [unlocker EXCEPT ![u] = "push"] /\ unlocker[u] = "queue"
      BY <1>10, <2>2 DEF UnlockLooks
    <3>2. UNCHANGED <<waiter, wait_lock, wait_queue, skip_listener_wait, wait_hurt>>
      BY <1>10 DEF UnlockLooks
    <3>3. missed' = missed
      BY <1>10, <2>2 DEF UnlockLooks
    <3>4. missed \/ waiter \notin {"no", "test", "create", "read", "pop"}
      BY <2>2, <3>1
    <3> QED BY <3>1, <3>2, <3>3, <3>4
  <2> QED BY <2>1, <2>2
<1>11. ASSUME NEW u \in Unlockers, UnlockPushes(u)
      PROVE  WokenInv'
  BY <1>11 DEF UnlockPushes
<1>12. ASSUME NEW u \in Unlockers, UnlockDrops(u)
      PROVE  WokenInv'
  BY <1>12 DEF UnlockDrops
<1>13. ASSUME NEW u \in Unlockers, UnlockEnds(u)
      PROVE  WokenInv'
  BY <1>13 DEF UnlockEnds
<1> QED BY <1>1, <1>2, <1>3, <1>4, <1>5, <1>6, <1>7, <1>8, <1>9, <1>10, <1>11, <1>12, <1>13 DEF WaitNext

\* For any number of unlocks the wait is woken by each that is done while it is blocked, or
\* does not block at all, and the queue between them is not used once freed, unless the two
\* missed one another in one of the three cases WaiterIsWoken names.
THEOREM WaiterIsWokenCorrect == ListenerSpec => []WaiterIsWoken
<1>1. ListenerInit => WokenInv
  BY DEF ListenerInit, WokenInv
<1>2. ListenerInv /\ WokenInv /\ [ListenerNext]_listenerVars => WokenInv'
  <2>1. WokenInv /\ UNCHANGED waitVars => WokenInv'
    BY DEF waitVars, WokenInv
  <2>2. AcceptNext => UNCHANGED waitVars
    BY DEF AcceptNext, InitialAccept, AcceptFiltered, CompleteRegister, AcceptedBreaks,
           DropAccepted, OthersRelease, ReadRegistered, ShutdownForeach, DropListener,
           ShutdownCalled, ShutdownRefs, ShutdownEnds
  <2>3. UNCHANGED listenerVars => UNCHANGED waitVars
    BY DEF listenerVars
  <2> QED BY <2>1, <2>2, <2>3, WokenStep DEF ListenerNext, ListenerInv
<1>3. WokenInv => WaiterIsWoken
  BY DEF WokenInv, WaiterIsWoken, WokenByUnlock
<1>4. ListenerSpec => []ListenerInv
  BY ListenerInitially, ListenerStep, PTL DEF ListenerSpec
<1> QED BY <1>1, <1>2, <1>3, <1>4, PTL DEF ListenerSpec

\* A connection that was registered when a shutdown was called and is still well is listed,
\* or waits in the queue of the reader before the visit of the shutdown.
Precedes(q, a, b) == \A i, j \in 1 .. Len(q) : q[i] = a /\ q[j] = b => i < j
ReachedInv ==
  /\ \A c \in Arrivals : accepted[c] \in {"no", "loose", "freed"} => ~accepted_ok[c]
  /\ \A c \in Arrivals : accepted[c] = "queued" => \E i \in 1 .. Len(to_read) : to_read[i] = c
  /\ \A s \in Stoppers : \A c \in before[s] : accepted[c] \notin {"no", "filter"}
  /\ \A s \in Stoppers : ~listener_hurt /\ also_created[s] => \A c \in before[s] :
        /\ stopper[s] = "waits" => Precedes(to_read, c, s)
        /\ stopper[s] \in {"last", "done"} => ~accepted_ok[c]

\* A step after which no connection is better off, and no shutdown waits or has ended that
\* did not before.
LEMMA ReachedStay ==
  ASSUME AcceptTyped, ReachedInv, UNCHANGED before, listener_hurt => listener_hurt',
         \A c \in Arrivals : accepted_ok'[c] => accepted_ok[c],
         \A c \in Arrivals : accepted'[c] \in {"no", "loose", "freed"} => ~accepted_ok'[c],
         \A c \in Arrivals : accepted'[c] = "queued" => \E i \in 1 .. Len(to_read') : to_read'[i] = c,
         \A c \in Arrivals : accepted'[c] \in {"no", "filter"} => accepted[c] \in {"no", "filter"},
         \A s \in Stoppers : also_created[s] \/ also_created'[s] =>
            /\ also_created'[s] = also_created[s]
            /\ stopper'[s] = "waits" => stopper[s] = "waits"
            /\ stopper'[s] \in {"last", "done"} => stopper[s] \in {"last", "done"},
         \A s \in Stoppers : \A c \in Arrivals :
            c \in before[s] /\ Precedes(to_read, c, s) => Precedes(to_read', c, s)
  PROVE  ReachedInv'
<1>1. \A s \in Stoppers : before'[s] = before[s] /\ before[s] \in SUBSET Arrivals
  BY DEF AcceptTyped
<1> QED BY <1>1 DEF ReachedInv

LEMMA ReachedStep ==
  ASSUME AcceptInv, ReachedInv, AcceptNext
  PROVE  ReachedInv'
<1> USE DEF AcceptTyped
<1>t. AcceptTyped /\ QueueSound
  BY DEF AcceptInv
<1>1. ASSUME NEW c \in Arrivals, InitialAccept(c) PROVE ReachedInv'
  <2>1. /\ UNCHANGED <<to_read, stopper, also_created, before, listener_hurt>> /\ accepted[c] = "no"
        /\ \A d \in Arrivals : d # c => accepted'[d] = accepted[d] /\ accepted_ok'[d] = accepted_ok[d]
        /\ accepted'[c] = "filter"
    BY <1>1, <1>t DEF InitialAccept
  <2>2. \A s \in Stoppers : c \notin before[s]
    BY <2>1 DEF ReachedInv
  <2>3. \A s \in Stoppers : before[s] \in SUBSET Arrivals
    BY <1>t
  <2> QED BY <2>1, <2>2, <2>3 DEF ReachedInv
<1>2. ASSUME NEW c \in Arrivals, AcceptFiltered(c) PROVE ReachedInv'
  <2>1. /\ UNCHANGED <<to_read, stopper, also_created, before, listener_hurt>>
        /\ \A d \in Arrivals : d # c => accepted'[d] = accepted[d] /\ accepted_ok'[d] = accepted_ok[d]
        /\ accepted'[c] = "freed" /\ ~accepted_ok'[c]
    BY <1>2, <1>t DEF AcceptFiltered, FreedAccepted
  <2> QED BY <1>t, <2>1, ReachedStay DEF ReachedInv
<1>3. ASSUME NEW c \in Arrivals, CompleteRegister(c) PROVE ReachedInv'
  <2>1. accepted[c] = "filter"
    BY <1>3 DEF CompleteRegister, AcceptInv, AcceptingIsMet
  <2>2. /\ UNCHANGED <<accepted_ok, stopper, also_created, before, listener_hurt>>
        /\ \A d \in Arrivals : d # c => accepted'[d] = accepted[d]
        /\ accepted'[c] = "queued" /\ to_read' = Append(to_read, c)
    BY <1>3, <1>t DEF CompleteRegister
  <2>3. /\ Len(to_read') = Len(to_read) + 1 /\ Len(to_read) \in Nat
        /\ \A i \in 1 .. Len(to_read) : to_read'[i] = to_read[i]
        /\ to_read'[Len(to_read) + 1] = c
    BY <1>t, <2>2
  <2>4. \A d \in Arrivals : accepted'[d] = "queued" => \E i \in 1 .. Len(to_read') : to_read'[i] = d
    BY <2>2, <2>3 DEF ReachedInv
  <2>5. \A s \in Stoppers : \A d \in Arrivals :
            d \in before[s] /\ Precedes(to_read, d, s) => Precedes(to_read', d, s)
    <3> SUFFICES ASSUME NEW s \in Stoppers, NEW d \in Arrivals, d \in before[s], Precedes(to_read, d, s),
                        NEW i \in 1 .. Len(to_read'), NEW j \in 1 .. Len(to_read'),
                        to_read'[i] = d, to_read'[j] = s
                 PROVE  i < j
      BY DEF Precedes
    <3>1. d # c /\ s # c
      BY <2>1 DEF ReachedInv, ListenerAssumption
    <3>2. i \in 1 .. Len(to_read) /\ j \in 1 .. Len(to_read)
      BY <2>3, <3>1
    <3> QED BY <2>3, <3>2 DEF Precedes
  <2>6. \A d \in Arrivals : accepted'[d] \in {"no", "loose", "freed"} => ~accepted_ok'[d]
    BY <2>2 DEF ReachedInv
  <2> QED BY <1>t, <2>1, <2>2, <2>4, <2>5, <2>6, ReachedStay
<1>4. ASSUME NEW c \in Arrivals, AcceptedBreaks(c) PROVE ReachedInv'
  BY <1>4, <1>t, ReachedStay DEF AcceptedBreaks, ReachedInv
<1>5. ASSUME NEW c \in Arrivals, DropAccepted(c) PROVE ReachedInv'
  <2>1. /\ UNCHANGED <<to_read, stopper, also_created, before, listener_hurt, accepted_ok>>
        /\ \A d \in Arrivals : d # c => accepted'[d] = accepted[d]
        /\ accepted'[c] \in {"loose", "freed"} /\ ~accepted_ok[c]
    BY <1>5, <1>t DEF DropAccepted, FreedAccepted, LetGoOf
  <2> QED BY <1>t, <2>1, ReachedStay DEF ReachedInv
<1>6. ASSUME NEW c \in Arrivals, OthersRelease(c) PROVE ReachedInv'
  <2>1. /\ UNCHANGED <<to_read, stopper, also_created, before, listener_hurt, accepted_ok>>
        /\ \A d \in Arrivals : d # c => accepted'[d] = accepted[d]
        /\ accepted'[c] = accepted[c] \/ (accepted[c] = "loose" /\ accepted'[c] = "freed")
    BY <1>6, <1>t DEF OthersRelease, FreedAccepted
  <2> QED BY <1>t, <2>1, ReachedStay DEF ReachedInv
<1>a. ASSUME to_read # <<>>, to_read' = Tail(to_read)
      PROVE  /\ \A s \in Stoppers : \A d \in Arrivals : Precedes(to_read, d, s) => Precedes(to_read', d, s)
             /\ \A d \in Arrivals : d # Head(to_read) /\ (\E i \in 1 .. Len(to_read) : to_read[i] = d)
                  => \E i \in 1 .. Len(to_read') : to_read'[i] = d
  <2>1. /\ Len(to_read') = Len(to_read) - 1 /\ Len(to_read) \in Nat \ {0} /\ Head(to_read) = to_read[1]
        /\ \A i \in 1 .. Len(to_read') : i + 1 \in 1 .. Len(to_read) /\ to_read'[i] = to_read[i + 1]
    BY <1>t, <1>a
  <2>2. ASSUME NEW s, NEW d, Precedes(to_read, d, s) PROVE Precedes(to_read', d, s)
    <3> SUFFICES ASSUME NEW i \in 1 .. Len(to_read'), NEW j \in 1 .. Len(to_read'),
                        to_read'[i] = d, to_read'[j] = s
                 PROVE  i < j
      BY DEF Precedes
    <3>1. i + 1 < j + 1
      BY <2>1, <2>2 DEF Precedes
    <3> QED BY <2>1, <3>1
  <2>3. ASSUME NEW i \in 1 .. Len(to_read), to_read[i] # Head(to_read)
        PROVE  i - 1 \in 1 .. Len(to_read') /\ to_read'[i - 1] = to_read[i]
    <3>1. i # 1 /\ i - 1 \in 1 .. Len(to_read') /\ (i - 1) + 1 = i
      BY <2>1, <2>3
    <3> QED BY <2>1, <3>1
  <2> QED BY <2>2, <2>3
<1>7. CASE ReadRegistered
  <2>1. PICK c : c = Head(to_read)
    OBVIOUS
  <2>2. /\ to_read # <<>> /\ to_read' = Tail(to_read) /\ c \in Arrivals
        /\ UNCHANGED <<stopper, also_created, before, listener_hurt, accepted_ok>>
        /\ \A d \in Arrivals : d # c => accepted'[d] = accepted[d]
        /\ accepted'[c] = "listed" \/ (accepted'[c] \in {"loose", "freed"} /\ ~accepted_ok[c])
    BY <1>7, <1>t, <2>1 DEF ReadRegistered, FreedAccepted, LetGoOf
  <2>3. \A d \in Arrivals : accepted'[d] = "queued" => \E i \in 1 .. Len(to_read') : to_read'[i] = d
    BY <1>a, <2>1, <2>2 DEF ReachedInv
  <2>4. \A d \in Arrivals : accepted'[d] \in {"no", "loose", "freed"} => ~accepted_ok'[d]
    BY <2>2 DEF ReachedInv
  <2> QED BY <1>a, <1>t, <2>2, <2>3, <2>4, ReachedStay
<1>8. CASE ShutdownForeach
  <2>1. PICK s : s = Head(to_read)
    OBVIOUS
  <2>2. /\ to_read # <<>> /\ to_read' = Tail(to_read) /\ s \in Stoppers
        /\ UNCHANGED <<accepted, also_created, before, listener_hurt>>
        /\ \A r \in Stoppers : r # s => stopper'[r] = stopper[r]
        /\ stopper'[s] = "last"
        /\ \A d \in Arrivals : accepted_ok'[d] = (accepted_ok[d] /\ accepted[d] # "listed")
    BY <1>8, <1>t, <2>1 DEF ShutdownForeach, Visited
  <2>3. s = to_read[1] /\ 1 \in 1 .. Len(to_read) /\ stopper[s] = "waits"
    BY <1>t, <2>1, <2>2 DEF QueueSound
  <2>4. ASSUME NEW d \in Arrivals, d \in before[s], ~listener_hurt, also_created[s] PROVE ~accepted_ok'[d]
    <3>1. Precedes(to_read, d, s)
      BY <2>2, <2>3, <2>4 DEF ReachedInv
    <3>2. accepted[d] # "queued"
      BY <2>2, <2>3, <3>1 DEF ReachedInv, Precedes
    <3>3. accepted[d] \notin {"no", "filter"}
      BY <2>2, <2>4 DEF ReachedInv
    <3> QED BY <1>t, <2>2, <3>2, <3>3 DEF ReachedInv
  <2>5. \A d \in Arrivals : d # s
    BY <2>2 DEF ListenerAssumption
  <2>6. \A r \in Stoppers : before[r] \in SUBSET Arrivals
    BY <1>t
  <2>7. /\ \A c \in Arrivals : accepted'[c] \in {"no", "loose", "freed"} => ~accepted_ok'[c]
        /\ \A c \in Arrivals : accepted'[c] = "queued" => \E i \in 1 .. Len(to_read') : to_read'[i] = c
        /\ \A r \in Stoppers : \A c \in before'[r] : accepted'[c] \notin {"no", "filter"}
    BY <1>a, <2>1, <2>2, <2>5 DEF ReachedInv
  <2>8. ASSUME NEW r \in Stoppers, ~listener_hurt, also_created[r], NEW c \in before[r]
        PROVE  /\ stopper'[r] = "waits" => Precedes(to_read', c, r)
               /\ stopper'[r] \in {"last", "done"} => ~accepted_ok'[c]
    <3>1. CASE r = s
      BY <2>2, <2>4, <2>6, <2>8, <3>1
    <3>2. CASE r # s
      BY <1>a, <2>2, <2>6, <2>8, <3>2 DEF ReachedInv
    <3> QED BY <3>1, <3>2
  <2> QED BY <2>2, <2>7, <2>8 DEF ReachedInv
<1>9. CASE DropListener
  BY <1>9, <1>t, ReachedStay DEF DropListener, ReachedInv
<1>10. ASSUME NEW s \in Stoppers, ShutdownCalled(s) PROVE ReachedInv'
  <2>1. /\ UNCHANGED <<accepted, accepted_ok, to_read, listener_hurt>>
        /\ \A r \in Stoppers : r # s => /\ stopper'[r] = stopper[r]
                                        /\ also_created'[r] = also_created[r] /\ before'[r] = before[r]
        /\ stopper'[s] = "called"
        /\ before'[s] = {c \in Arrivals : accepted[c] \in {"queued", "listed"}}
    BY <1>10, <1>t DEF ShutdownCalled
  <2> QED BY <2>1 DEF ReachedInv
<1>11. ASSUME NEW s \in Stoppers, ShutdownRefs(s) PROVE ReachedInv'
  <2>1. /\ UNCHANGED <<accepted, accepted_ok, also_created, before>> /\ stopper[s] = "called"
        /\ \A r \in Stoppers : r # s => stopper'[r] = stopper[r]
    BY <1>11, <1>t DEF ShutdownRefs
  <2>2. CASE listener_refs = 0
    BY <1>11, <2>1, <2>2 DEF ShutdownRefs, ReachedInv
  <2>3. CASE listener_refs # 0 /\ ~also_created[s]
    BY <1>11, <1>t, <2>1, <2>3 DEF ShutdownRefs, ReachedInv
  <2>4. CASE listener_refs # 0 /\ also_created[s]
    <3>1. to_read' = Append(to_read, s) /\ stopper'[s] = "waits" /\ UNCHANGED listener_hurt
      BY <1>11, <1>t, <2>4 DEF ShutdownRefs
    <3>2. /\ Len(to_read') = Len(to_read) + 1 /\ Len(to_read) \in Nat
          /\ \A i \in 1 .. Len(to_read) : to_read'[i] = to_read[i] /\ to_read[i] # s
          /\ to_read'[Len(to_read) + 1] = s
      BY <1>t, <2>1, <3>1 DEF QueueSound
    <3>3. ASSUME NEW d \in Arrivals PROVE Precedes(to_read', d, s)
      <4>1. d # s
        BY DEF ListenerAssumption
      <4> QED BY <3>2, <4>1 DEF Precedes
    <3>4. ASSUME NEW r \in Stoppers, r # s, NEW d \in Arrivals, Precedes(to_read, d, r)
          PROVE  Precedes(to_read', d, r)
      <4>1. d # s
        BY DEF ListenerAssumption
      <4> QED BY <3>2, <3>4, <4>1 DEF Precedes
    <3>5. \A d \in Arrivals : accepted[d] = "queued" => \E i \in 1 .. Len(to_read') : to_read'[i] = d
      BY <3>2 DEF ReachedInv
    <3>6. \A r \in Stoppers : before[r] \in SUBSET Arrivals
      BY <1>t
    <3> QED BY <2>1, <3>1, <3>3, <3>4, <3>5, <3>6 DEF ReachedInv
  <2> QED BY <2>2, <2>3, <2>4
<1>12. ASSUME NEW s \in Stoppers, ShutdownEnds(s) PROVE ReachedInv'
  BY <1>12, <1>t, ReachedStay DEF ShutdownEnds, ReachedInv
<1> QED BY <1>1, <1>2, <1>3, <1>4, <1>5, <1>6, <1>7, <1>8, <1>9, <1>10, <1>11, <1>12 DEF AcceptNext

\* For any number of connections and shutdowns: a shutdown with its connections leaves none
\* that was registered when it was called, where in the queue of the reader they were.
THEOREM ShutdownReachesAllCorrect == ListenerSpec => []ShutdownReachesAll
<1>1. ListenerInit => ReachedInv
  <2> SUFFICES ASSUME ListenerInit PROVE ReachedInv
    OBVIOUS
  <2>1. \A c \in Arrivals : accepted[c] = "no" /\ ~accepted_ok[c]
    BY DEF ListenerInit
  <2>2. \A s \in Stoppers : before[s] = {}
    BY DEF ListenerInit
  <2> QED BY <2>1, <2>2 DEF ReachedInv
<1>2. ListenerInv /\ ReachedInv /\ [ListenerNext]_listenerVars => ReachedInv'
  <2>1. ReachedInv /\ UNCHANGED acceptVars => ReachedInv'
    BY DEF acceptVars, ReachedInv
  <2>2. WaitNext => UNCHANGED acceptVars
    BY DEF WaitNext, WaitBegins, WaitTests, WaitCreates, WaitReads, WaitPops, WaitPopsFreed,
           WaitReturns, WaitGoes, UnlockBegins, UnlockSets, UnlockLooks,
           UnlockPushes, UnlockDrops, UnlockEnds, UnlockerGoes
  <2>3. UNCHANGED listenerVars => UNCHANGED acceptVars
    BY DEF listenerVars
  <2> QED BY <2>1, <2>2, <2>3, ReachedStep DEF ListenerNext, ListenerInv
<1>3. ReachedInv => ShutdownReachesAll
  BY DEF ReachedInv, ShutdownReachesAll
<1>4. ListenerSpec => []ListenerInv
  BY ListenerInitially, ListenerStep, PTL DEF ListenerSpec
<1> QED BY <1>1, <1>2, <1>3, <1>4, PTL DEF ListenerSpec

HIDE ListenerAssumption

-----------------------------------------------------------------------------
(* Domains, for any number of domains, users databases, clients and connections: a
   client is only handed to a domain that authenticated it (Domains), and the table of
   client identifiers of a domain never holds a connection that was freed under it
   (DomainHandover). *)

USE DomainAssumption, HandoverAssumption

(* -------------------------------- Domains -------------------------------- *)

\* What a CONNECT has found: a domain that was declared; while it is selected the one of the
\* name looked at; once it is authenticated, one that did so as it was found.
FoundSoFar(c) ==
  /\ chosen[c] # NoDomain => chosen[c] \in domains
  /\ find[c] \in {"no", "open", "refused"} => chosen[c] = NoDomain
  /\ find[c] = "no" => way[c] = "none"
  /\ find[c] \in Sources =>
       /\ chosen[c] # NoDomain => chosen[c] = Claims[c][find[c]]
       /\ way[c] # "none" => /\ chosen[c] # NoDomain
                             /\ way[c] = IF find[c] = "server" THEN "selected" ELSE "stripped"
  /\ find[c] = "any" => way[c] \in {"none", "search"} /\ (way[c] = "none") = (chosen[c] = NoDomain)
  /\ find[c] = "domain" =>
       /\ chosen[c] # NoDomain /\ <<users[chosen[c]], c, way[c]>> \in Accepts
       /\ way[c] = "stripped" => chosen[c] \in {Claims[c].id, Claims[c].user}
       /\ way[c] = "selected" => chosen[c] = Claims[c].server
DomainsInv == DomainsTypeOK /\ \A c \in Clients : FoundSoFar(c)

\* Users loaded are not loaded again.
UsersKept == \A d \in DomainNames : users'[d] = users[d] \/ users[d] = NoDatabase

\* What a client has found stays as it is while others move: no domain is taken away, and
\* none has its users loaded again.
LEMMA FoundStays ==
  ASSUME DomainsTypeOK, NEW c \in Clients, FoundSoFar(c), domains \subseteq domains', UsersKept,
         find'[c] = find[c], chosen'[c] = chosen[c], way'[c] = way[c]
  PROVE  FoundSoFar(c)'
<1>1. find[c] = "domain" => users'[chosen[c]] = users[chosen[c]]
  <2> SUFFICES ASSUME find[c] = "domain"
               PROVE  users'[chosen[c]] = users[chosen[c]]
    OBVIOUS
  <2>1. users[chosen[c]] \in Databases
    BY DEF FoundSoFar, DomainAssumption
  <2>2. chosen[c] \in DomainNames /\ users[chosen[c]] # NoDatabase
    BY <2>1 DEF DomainAssumption, DomainsTypeOK, FoundSoFar
  <2> QED BY <2>2 DEF UsersKept
<1> QED BY <1>1 DEF FoundSoFar

\* A step that moves c on, to domain d by way w.
LEMMA FindsTypes ==
  ASSUME DomainsTypeOK, NEW c \in Clients, NEW d \in DomainNames \union {NoDomain},
         NEW there \in {"id", "user", "server", "any", "refused", "domain", "open"},
         NEW w \in Ways \union {"none"}, Finds(c, there, d, w)
  PROVE  /\ find' \in [Clients -> {"no", "id", "user", "server", "any", "refused", "domain", "open"}]
         /\ chosen' \in [Clients -> DomainNames \union {NoDomain}]
         /\ way' \in [Clients -> Ways \union {"none"}]
         /\ find'[c] = there /\ chosen'[c] = d /\ way'[c] = w
         /\ \A b \in Clients \ {c} : find'[b] = find[b] /\ chosen'[b] = chosen[b] /\ way'[b] = way[b]
BY DEF DomainsTypeOK, Finds

\* So a step of c keeps the invariant when what c has found by it is as it should be.
LEMMA FindsKeeps ==
  ASSUME DomainsInv, NEW c \in Clients, NEW d \in DomainNames \union {NoDomain},
         NEW there \in {"id", "user", "server", "any", "refused", "domain", "open"},
         NEW w \in Ways \union {"none"}, Finds(c, there, d, w), UNCHANGED <<config, walking>>,
         tried' \in [Clients -> SUBSET DomainNames], UsersKept,
         users' \in [DomainNames -> Databases \union {NoDatabase}],
         (find'[c] = there /\ chosen'[c] = d /\ way'[c] = w) => FoundSoFar(c)'
  PROVE  DomainsInv'
<1>1. /\ find' \in [Clients -> {"no", "id", "user", "server", "any", "refused", "domain", "open"}]
      /\ chosen' \in [Clients -> DomainNames \union {NoDomain}]
      /\ way' \in [Clients -> Ways \union {"none"}]
      /\ find'[c] = there /\ chosen'[c] = d /\ way'[c] = w
      /\ \A b \in Clients \ {c} : find'[b] = find[b] /\ chosen'[b] = chosen[b] /\ way'[b] = way[b]
  BY FindsTypes DEF DomainsInv
<1>2. DomainsTypeOK'
  BY <1>1 DEF DomainsInv, DomainsTypeOK, config, loadVars
<1>3. ASSUME NEW b \in Clients, b # c
      PROVE  FoundSoFar(b)'
  <2>1. find'[b] = find[b] /\ chosen'[b] = chosen[b] /\ way'[b] = way[b] /\ FoundSoFar(b)
    BY <1>1, <1>3 DEF DomainsInv
  <2>2. domains \subseteq domains'
    BY DEF config
  <2> QED BY <2>1, <2>2, FoundStays DEF DomainsInv
<1> QED BY <1>1, <1>2, <1>3 DEF DomainsInv

LEMMA DomainsInitially == DomainsInit => DomainsInv
<1> SUFFICES ASSUME DomainsInit
             PROVE  DomainsInv
  OBVIOUS
<1>1. DomainsTypeOK
  BY DEF DomainsInit, DomainsTypeOK, DomainAssumption
<1>2. \A c \in Clients : find[c] = "no" /\ chosen[c] = NoDomain /\ way[c] = "none"
  BY DEF DomainsInit
<1> QED BY <1>1, <1>2 DEF DomainsInv, FoundSoFar, Sources

\* The domains of the document are read while others connect: none is taken away.
LEMMA ConfigSteps ==
  ASSUME DomainsInv,
         \/ LoadBegins \/ StartEnds \/ \E d \in DomainNames : DomainAdd(d)
         \/ AddFrees \/ AddSets \/ AddActivates
  PROVE  DomainsInv'
<1> USE DEF findVars
<1>1. DomainsTypeOK'
  <2> USE DEF DomainsInv, DomainsTypeOK
  <2>1. CASE LoadBegins
    BY <2>1 DEF LoadBegins, DomainAssumption
  <2>2. CASE StartEnds
    BY <2>2 DEF StartEnds
  <2>3. ASSUME NEW d \in DomainNames, DomainAdd(d)
        PROVE  DomainsTypeOK'
    BY <2>3 DEF DomainAdd
  <2>4. CASE AddFrees
    BY <2>4 DEF AddFrees
  <2>5. CASE AddSets
    BY <2>5 DEF AddSets
  <2>6. CASE AddActivates
    BY <2>6 DEF AddActivates
  <2> QED BY <2>1, <2>2, <2>3, <2>4, <2>5, <2>6
<1>2. domains \subseteq domains' /\ UNCHANGED <<users, find, chosen, way>>
  BY DEF LoadBegins, StartEnds, DomainAdd, AddFrees, AddSets, AddActivates
<1>3. ASSUME NEW c \in Clients
      PROVE  FoundSoFar(c)'
  <2>1. FoundSoFar(c) /\ DomainsTypeOK /\ UsersKept
    BY <1>2 DEF DomainsInv, UsersKept
  <2> QED BY <1>2, <2>1, FoundStays
<1> QED BY <1>1, <1>3 DEF DomainsInv

LEMMA ClientConnectsKeeps ==
  ASSUME DomainsInv, NEW c \in Clients, ClientConnects(c)
  PROVE  DomainsInv'
<1>1. DomainsTypeOK'
  BY DEF DomainsInv, DomainsTypeOK, ClientConnects, config, loadVars
<1>2. ASSUME NEW b \in Clients
      PROVE  FoundSoFar(b)'
  <2>1. FoundSoFar(b) /\ UNCHANGED <<domains, users, chosen, way>>
    BY DEF DomainsInv, ClientConnects, config
  <2>2. CASE b = c
    <3>1. find[c] = "no" /\ find'[c] \in {"id", "open"}
      BY DEF ClientConnects, DomainsInv, DomainsTypeOK
    <3>2. way[c] = "none"
      BY <3>1 DEF DomainsInv, FoundSoFar
    <3> QED BY <2>1, <2>2, <3>1, <3>2 DEF FoundSoFar, Sources
  <2>3. CASE b # c
    <3>1. find'[b] = find[b]
      BY <2>3 DEF ClientConnects, DomainsInv, DomainsTypeOK
    <3> QED BY <2>1, <3>1 DEF FoundSoFar
  <2> QED BY <2>2, <2>3
<1> QED BY <1>1, <1>2 DEF DomainsInv

\* The next place a client is searched for.
LEMMA NextSources ==
  ASSUME NEW c \in Clients
  PROVE  NextSource(c) \in {"user", "server", "any"}
<1>1. CASE find[c] = "id"
  BY <1>1 DEF NextSource
<1>2. CASE find[c] = "user"
  BY <1>2 DEF NextSource
<1>3. CASE find[c] # "id" /\ find[c] # "user"
  BY <1>3 DEF NextSource
<1> QED BY <1>1, <1>2, <1>3

LEMMA FindByNameKeeps ==
  ASSUME DomainsInv, NEW c \in Clients, FindByName(c) \/ FindIfActive(c)
  PROVE  DomainsInv'
<1>1. /\ UNCHANGED <<config, users, walking, tried>> /\ find[c] \in Sources
      /\ users' \in [DomainNames -> Databases \union {NoDatabase}] /\ UsersKept
      /\ tried' \in [Clients -> SUBSET DomainNames]
  BY DEF FindByName, FindIfActive, DomainsInv, DomainsTypeOK, UsersKept
<1>d. domains' = domains
  BY <1>1 DEF config
<1>k. /\ UNCHANGED <<config, walking>> /\ UsersKept
      /\ users' \in [DomainNames -> Databases \union {NoDatabase}]
      /\ tried' \in [Clients -> SUBSET DomainNames]
  BY <1>1
<1>2. CASE Finds(c, NextSource(c), NoDomain, "none")
  <2>1. PICK there \in {"id", "user", "server", "any", "refused", "domain", "open"},
             d \in DomainNames \union {NoDomain}, w \in Ways \union {"none"} :
             there = NextSource(c) /\ d = NoDomain /\ w = "none"
    BY NextSources
  <2>2. there \in {"user", "server", "any"}
    BY <2>1, NextSources
  <2>3. (find'[c] = there /\ chosen'[c] = d /\ way'[c] = w) => FoundSoFar(c)'
    BY <2>1, <2>2 DEF FoundSoFar, Sources
  <2>4. Finds(c, there, d, w)
    BY <1>2, <2>1
  <2> QED BY <1>k, <2>3, <2>4, FindsKeeps
<1>3. CASE NameFor(c) \in domains /\ Finds(c, find[c], NameFor(c), "none")
  <2>1. NameFor(c) \in DomainNames /\ NameFor(c) # NoDomain
    BY <1>3 DEF DomainsInv, DomainsTypeOK, DomainAssumption
  <2>2. PICK there \in {"id", "user", "server", "any", "refused", "domain", "open"},
             d \in DomainNames \union {NoDomain}, w \in Ways \union {"none"} :
             there = find[c] /\ d = NameFor(c) /\ w = "none"
    BY <1>1, <2>1 DEF Sources
  <2>3. (find'[c] = there /\ chosen'[c] = d /\ way'[c] = w) => FoundSoFar(c)'
    BY <1>1, <1>d, <1>3, <2>2 DEF FoundSoFar, Sources, NameFor
  <2>4. Finds(c, there, d, w)
    BY <1>3, <2>2
  <2> QED BY <1>k, <2>3, <2>4, FindsKeeps
<1>4. ASSUME NEW w \in {"selected", "stripped"}, chosen[c] # NoDomain,
             w = IF find[c] = "server" THEN "selected" ELSE "stripped",
             Finds(c, find[c], chosen[c], w)
      PROVE  DomainsInv'
  <2>1. chosen[c] \in DomainNames /\ FoundSoFar(c)
    BY <1>4 DEF DomainsInv, DomainsTypeOK
  <2>2. PICK there \in {"id", "user", "server", "any", "refused", "domain", "open"},
             d \in DomainNames \union {NoDomain} : there = find[c] /\ d = chosen[c]
    BY <1>1, <2>1 DEF Sources
  <2>3. (find'[c] = there /\ chosen'[c] = d /\ way'[c] = w) => FoundSoFar(c)'
    BY <1>1, <1>d, <1>4, <2>1, <2>2 DEF FoundSoFar, Sources
  <2>4. w \in Ways \union {"none"}
    BY DEF Ways
  <2>5. Finds(c, there, d, w)
    BY <1>4, <2>2
  <2> QED BY <1>k, <2>3, <2>4, <2>5, FindsKeeps
<1>5. CASE FindByName(c)
  BY <1>2, <1>3, <1>5 DEF FindByName
<1>6. CASE FindIfActive(c)
  <2>1. CASE is_active[chosen[c]]
    BY <1>4, <1>6, <2>1 DEF FindIfActive
  <2>2. CASE ~is_active[chosen[c]]
    BY <1>2, <1>6, <2>2 DEF FindIfActive
  <2> QED BY <2>1, <2>2
<1> QED BY <1>5, <1>6

\* Authentication: the users of the domain are those already loaded, or what is loaded now.
LEMMA DoAuthKeeps ==
  ASSUME DomainsInv, NEW c \in Clients, DoAuth(c)
  PROVE  DomainsInv'
<1>1. PICK loaded \in Loads(chosen[c]) :
        /\ users' = [users EXCEPT ![chosen[c]] = loaded]
        /\ IF Authenticates(loaded, c) THEN Finds(c, "domain", chosen[c], way[c])
           ELSE Finds(c, IF way[c] = "search" THEN "any" ELSE "refused", NoDomain, "none")
  BY DEF DoAuth
<1>2. /\ UNCHANGED <<config, walking, tried>> /\ way[c] # "none" /\ FoundSoFar(c)
      /\ find[c] \in {"id", "user", "server", "any"}
      /\ tried' \in [Clients -> SUBSET DomainNames] /\ domains' = domains
  BY DEF DoAuth, Sources, DomainsInv, DomainsTypeOK, config
<1>3. chosen[c] \in domains /\ chosen[c] \in DomainNames /\ chosen[c] # NoDomain
  BY <1>2 DEF FoundSoFar, Sources, DomainsInv, DomainsTypeOK
<1>4. way[c] \in Ways /\ users \in [DomainNames -> Databases \union {NoDatabase}]
      /\ users_db \in [DomainNames -> Databases \union {NoDatabase, Dangling}]
  BY <1>2 DEF DomainsInv, DomainsTypeOK
<1>5. loaded \in Databases \union {NoDatabase}
      /\ (loaded = users[chosen[c]] \/ users[chosen[c]] = NoDatabase)
  <2>1. CASE users[chosen[c]] # NoDatabase
    BY <1>3, <1>4, <2>1 DEF Loads
  <2>2. CASE users[chosen[c]] = NoDatabase
    <3>1. loaded \in {NoDatabase} \union CASE users_db[chosen[c]] = NoDatabase -> {}
                             [] users_db[chosen[c]] = Dangling -> Databases
                             [] OTHER -> {users_db[chosen[c]]}
      BY <2>2 DEF Loads
    <3>2. CASE users_db[chosen[c]] = NoDatabase
      BY <2>2, <3>1, <3>2, DomainAssumption DEF DomainAssumption
    <3>3. CASE users_db[chosen[c]] = Dangling
      BY <2>2, <3>1, <3>3, DomainAssumption DEF DomainAssumption
    <3>4. CASE users_db[chosen[c]] \notin {NoDatabase, Dangling}
      BY <1>3, <1>4, <2>2, <3>1, <3>4
    <3> QED BY <3>2, <3>3, <3>4
  <2> QED BY <2>1, <2>2
<1>6. users' \in [DomainNames -> Databases \union {NoDatabase}] /\ UsersKept
      /\ users'[chosen[c]] = loaded
  BY <1>1, <1>3, <1>4, <1>5 DEF UsersKept
<1>7. CASE Authenticates(loaded, c)
  <2>1. Finds(c, "domain", chosen[c], way[c])
    BY <1>1, <1>7
  <2>2. way[c] = "stripped" => chosen[c] \in {Claims[c].id, Claims[c].user}
    BY <1>2, <1>3 DEF FoundSoFar, Sources
  <2>3. way[c] = "selected" => chosen[c] = Claims[c].server
    BY <1>2, <1>3 DEF FoundSoFar, Sources
  <2>4. (find'[c] = "domain" /\ chosen'[c] = chosen[c] /\ way'[c] = way[c]) => FoundSoFar(c)'
    BY <1>2, <1>3, <1>6, <1>7, <2>2, <2>3 DEF FoundSoFar, Sources, Authenticates
  <2>5. /\ chosen[c] \in DomainNames \union {NoDomain} /\ way[c] \in Ways \union {"none"}
        /\ "domain" \in {"id", "user", "server", "any", "refused", "domain", "open"}
        /\ UNCHANGED <<config, walking>>
    BY <1>2, <1>3, <1>4
  <2> QED BY <1>2, <1>6, <2>1, <2>4, <2>5, FindsKeeps
<1>8. CASE ~Authenticates(loaded, c)
  <2>1. PICK there \in {"any", "refused"} : Finds(c, there, NoDomain, "none")
    BY <1>1, <1>8
  <2>2. (find'[c] = there /\ chosen'[c] = NoDomain /\ way'[c] = "none") => FoundSoFar(c)'
    BY DEF FoundSoFar, Sources
  <2>3. /\ there \in {"id", "user", "server", "any", "refused", "domain", "open"}
        /\ NoDomain \in DomainNames \union {NoDomain} /\ "none" \in Ways \union {"none"}
        /\ UNCHANGED <<config, walking>>
    BY <1>2
  <2> QED BY <1>2, <1>6, <2>1, <2>2, <2>3, FindsKeeps
<1> QED BY <1>7, <1>8

LEMMA WalkKeeps ==
  ASSUME DomainsInv, NEW c \in Clients,
         WalkBegins(c) \/ WalkEnds(c) \/ \E d \in DomainNames : WalkTries(c, d)
  PROVE  DomainsInv'
<1>1. CASE WalkBegins(c)
  BY <1>1 DEF WalkBegins, config, loadVars, DomainsInv, DomainsTypeOK, FoundSoFar
<1>2. CASE WalkEnds(c)
  <2>1. UNCHANGED <<config, users, chosen, way, tried>>
    BY <1>2 DEF WalkEnds
  <2>2. /\ walking' = {}
        /\ find[c] = "domain" \/ way[c] = "none"
        /\ find' = [find EXCEPT ![c] = IF find[c] = "any" THEN "refused" ELSE find[c]]
    BY <1>2 DEF WalkEnds
  <2>3. DomainsTypeOK'
    <3>1. /\ find' \in [Clients -> {"no", "id", "user", "server", "any", "refused", "domain", "open"}]
          /\ walking' \subseteq Clients
      <4>1. find \in [Clients -> {"no", "id", "user", "server", "any", "refused", "domain", "open"}]
        BY DEF DomainsInv, DomainsTypeOK
      <4>2. find[c] \in {"no", "id", "user", "server", "any", "refused", "domain", "open"}
        BY <4>1
      <4> QED BY <2>2, <4>1, <4>2
    <3> QED BY <2>1, <3>1 DEF DomainsInv, DomainsTypeOK, config, loadVars
  <2>4. ASSUME NEW b \in Clients
        PROVE  FoundSoFar(b)'
    <3>1. FoundSoFar(b) /\ UNCHANGED <<domains, users, chosen, way>>
      BY <2>1 DEF DomainsInv, config
    <3>2. find'[b] = find[b] \/ (find[b] = "any" /\ find'[b] = "refused" /\ way[b] = "none")
      BY <2>2 DEF DomainsInv, DomainsTypeOK
    <3> QED BY <3>1, <3>2 DEF FoundSoFar, Sources
  <2> QED BY <2>3, <2>4 DEF DomainsInv
<1>3. ASSUME NEW d \in DomainNames, WalkTries(c, d)
      PROVE  DomainsInv'
  <2>1. /\ d \in domains /\ UNCHANGED <<config, users, walking>> /\ find[c] = "any"
        /\ tried' \in [Clients -> SUBSET DomainNames]
        /\ users' \in [DomainNames -> Databases \union {NoDatabase}] /\ UsersKept
    BY <1>3 DEF WalkTries, DomainsInv, DomainsTypeOK, UsersKept
  <2>2. CASE is_active[d]
    <3>1. Finds(c, "any", d, "search") /\ "search" \in Ways /\ d # NoDomain /\ domains' = domains
      BY <1>3, <2>1, <2>2 DEF WalkTries, Ways, DomainAssumption, config
    <3>2. (find'[c] = "any" /\ chosen'[c] = d /\ way'[c] = "search") => FoundSoFar(c)'
      BY <2>1, <3>1 DEF FoundSoFar, Sources
    <3>3. /\ "any" \in {"id", "user", "server", "any", "refused", "domain", "open"}
          /\ d \in DomainNames \union {NoDomain} /\ "search" \in Ways \union {"none"}
          /\ UNCHANGED <<config, walking>>
      BY <2>1, <3>1
    <3> QED BY <2>1, <3>1, <3>2, <3>3, FindsKeeps
  <2>3. CASE ~is_active[d]
    BY <1>3, <2>1, <2>3 DEF WalkTries, config, loadVars, DomainsInv, DomainsTypeOK, FoundSoFar
  <2> QED BY <2>2, <2>3
<1> QED BY <1>1, <1>2, <1>3

LEMMA DomainsStep == DomainsInv /\ [DomainsNext]_domainsVars => DomainsInv'
<1> SUFFICES ASSUME DomainsInv, [DomainsNext]_domainsVars
             PROVE  DomainsInv'
  OBVIOUS
<1>1. CASE \/ LoadBegins \/ StartEnds \/ \E d \in DomainNames : DomainAdd(d)
           \/ AddFrees \/ AddSets \/ AddActivates
  BY <1>1, ConfigSteps
<1>2. ASSUME NEW c \in Clients, ClientConnects(c)
      PROVE  DomainsInv'
  BY <1>2, ClientConnectsKeeps
<1>3. ASSUME NEW c \in Clients, FindByName(c) \/ FindIfActive(c)
      PROVE  DomainsInv'
  BY <1>3, FindByNameKeeps
<1>4. ASSUME NEW c \in Clients, DoAuth(c)
      PROVE  DomainsInv'
  BY <1>4, DoAuthKeeps
<1>5. ASSUME NEW c \in Clients,
             WalkBegins(c) \/ WalkEnds(c) \/ \E d \in DomainNames : WalkTries(c, d)
      PROVE  DomainsInv'
  BY <1>5, WalkKeeps
<1>6. CASE UNCHANGED domainsVars
  BY <1>6 DEF domainsVars, config, loadVars, findVars, DomainsInv, DomainsTypeOK, FoundSoFar
<1> QED BY <1>1, <1>2, <1>3, <1>4, <1>5, <1>6 DEF DomainsNext

\* However the configuration, the loading of users, its failures and other clients interleave,
\* a client is handed to no domain but one that authenticated it, as it was found.
THEOREM HandedToItsOwnCorrect == DomainsSpec => []HandedToItsOwn
<1>1. DomainsInv => HandedToItsOwn
  BY DEF DomainsInv, FoundSoFar, HandedToItsOwn
<1> QED BY <1>1, DomainsInitially, DomainsStep, PTL DEF DomainsSpec

(* ---------------------------- DomainHandover ---------------------------- *)

\* Types, but for the bound of the references, which follows from their holders.
HandoverTypes ==
  /\ {drop_same, initialized} \subseteq BOOLEAN
  /\ main_ids \in [ClientIds -> Peers \union {NoPeer}]
  /\ client_ids \in [ClientIds -> Peers \union {NoPeer}]
  /\ step \in [Peers -> HandoverSteps] /\ looks \in [Peers -> 0 .. Retries]
  /\ original \in [Peers -> {"open", "broken", "moved"}] /\ watched \subseteq Peers
  /\ copy \in [Peers -> {"no", "open", "broken", "dead"}] /\ copy_refs \in [Peers -> Int]
  /\ copy_watched \in [Peers -> {"no", "watched", "cleaning"}]
  /\ on_close \in [Peers -> {"no", "set", "thread", "done"}]

OneIf(b) == IF b THEN 1 ELSE 0

\* The copy is made by TakeId; its references are the task's until it leaves (for ever if
\* it gives up), the reader's and the close handler's; the reader gets it from WatchCopy.
CopyMade(p) ==
  /\ step[p] \in {"read", "named", "init", "limit", "take"} => copy[p] = "no"
  /\ step[p] \in {"storage", "forget", "handler", "watch", "reply", "leave", "end"} =>
       copy[p] # "no"
CopyHeld(p) ==
  copy_refs[p] = OneIf(copy[p] # "no" /\ step[p] # "end") + OneIf(copy_watched[p] # "no")
                 + OneIf(on_close[p] = "thread")
CopyGiven(p) ==
  /\ step[p] \notin {"reply", "leave", "end"} => copy_watched[p] = "no"
  /\ step[p] \notin {"watch", "reply", "leave", "end"} => on_close[p] = "no"
  /\ copy[p] = "no" => copy_watched[p] = "no" /\ on_close[p] = "no"

\* A connection in the table of the domain is the copy of one with that identifier: watched
\* if it broke, watched or still with its task if it did not.
EntryIsHeld(i) ==
  LET p == client_ids[i]
  IN  p # NoPeer =>
        /\ ClientOf[p] = i /\ copy[p] # "no"
        /\ copy[p] = "broken" => copy_watched[p] = "watched"
        /\ copy[p] = "open" => \/ copy_watched[p] = "watched"
                               \/ step[p] \notin {"reply", "leave", "end"}

HandoverInv ==
  /\ HandoverTypes
  /\ \A p \in Peers : CopyMade(p) /\ CopyHeld(p) /\ CopyGiven(p)
  /\ \A i \in ClientIds : EntryIsHeld(i)

LEMMA HandoverInitially == HandoverInit => HandoverInv
<1> SUFFICES ASSUME HandoverInit
             PROVE  HandoverInv
  OBVIOUS
<1>1. HandoverTypes
  <2>1. Retries \in Nat /\ Retries \in 0 .. Retries
    BY DEF HandoverAssumption
  <2>2. {drop_same, initialized} \subseteq BOOLEAN
    BY DEF HandoverInit
  <2>3. looks \in [Peers -> 0 .. Retries]
    BY <2>1 DEF HandoverInit
  <2>4. main_ids \in [ClientIds -> Peers \union {NoPeer}]
        /\ client_ids \in [ClientIds -> Peers \union {NoPeer}]
    BY DEF HandoverInit
  <2> QED BY <2>2, <2>3, <2>4 DEF HandoverInit, HandoverTypes, HandoverSteps
<1>2. \A p \in Peers : CopyMade(p) /\ CopyHeld(p) /\ CopyGiven(p)
  BY DEF HandoverInit, CopyMade, CopyHeld, CopyGiven, OneIf
<1>3. \A i \in ClientIds : EntryIsHeld(i)
  BY DEF HandoverInit, EntryIsHeld
<1> QED BY <1>1, <1>2, <1>3 DEF HandoverInv

\* A step of one connection that leaves the table alone, or takes entries away.
LEMMA OnePeer ==
  ASSUME HandoverInv, NEW p \in Peers, HandoverTypes',
         CopyMade(p)', CopyHeld(p)', CopyGiven(p)',
         \A q \in Peers \ {p} : /\ step'[q] = step[q] /\ copy'[q] = copy[q]
                                /\ copy_refs'[q] = copy_refs[q]
                                /\ copy_watched'[q] = copy_watched[q]
                                /\ on_close'[q] = on_close[q],
         \A i \in ClientIds : client_ids'[i] \in {client_ids[i], NoPeer},
         \A i \in ClientIds : client_ids'[i] = p =>
           /\ copy'[p] # "no"
           /\ copy'[p] = "broken" => copy_watched'[p] = "watched"
           /\ copy'[p] = "open" => \/ copy_watched'[p] = "watched"
                                   \/ step'[p] \notin {"reply", "leave", "end"}
  PROVE  HandoverInv'
<1>1. \A q \in Peers : CopyMade(q)' /\ CopyHeld(q)' /\ CopyGiven(q)'
  <2>1. ASSUME NEW q \in Peers, q # p
        PROVE  CopyMade(q)' /\ CopyHeld(q)' /\ CopyGiven(q)'
    <3>1. CopyMade(q) /\ CopyHeld(q) /\ CopyGiven(q)
      BY DEF HandoverInv
    <3>2. /\ step'[q] = step[q] /\ copy'[q] = copy[q] /\ copy_refs'[q] = copy_refs[q]
          /\ copy_watched'[q] = copy_watched[q] /\ on_close'[q] = on_close[q]
      BY <2>1
    <3> QED BY <3>1, <3>2 DEF CopyMade, CopyHeld, CopyGiven
  <2> QED BY <2>1
<1>2. ASSUME NEW i \in ClientIds
      PROVE  EntryIsHeld(i)'
  <2>1. CASE client_ids'[i] = NoPeer
    BY <2>1 DEF EntryIsHeld
  <2>2. CASE client_ids'[i] # NoPeer
    <3>1. client_ids'[i] = client_ids[i] /\ client_ids[i] \in Peers
      BY <2>2 DEF HandoverInv, HandoverTypes
    <3>2. EntryIsHeld(i)
      BY DEF HandoverInv
    <3> QED BY <3>1, <3>2 DEF EntryIsHeld
  <2> QED BY <2>1, <2>2
<1> QED BY <1>1, <1>2 DEF HandoverInv

\* Steps of the CONNECT task before the copy is watched, and of the listener's context.
LEMMA MainSteps ==
  ASSUME HandoverInv, NEW p \in Peers,
         \/ CheckClientId(p) \/ NoDomainFound(p) \/ InitDomain(p) \/ CheckLimit(p)
         \/ LookAgain(p) \/ InitStorage(p) \/ ForgetOriginal(p) \/ SetHandler(p)
         \/ Refuse(p) \/ OriginalBreaks(p) \/ CleanOriginal(p)
  PROVE  HandoverInv'
<1> DEFINE tables == <<client_ids, copy, copy_refs, copy_watched>>
<1>1. UNCHANGED tables
  BY DEF CheckClientId, NoDomainFound, InitDomain, CheckLimit, LookAgain, InitStorage,
         ForgetOriginal, SetHandler, Refuse, OriginalBreaks, CleanOriginal, copySide, mainSide
<1>2. CopyMade(p) /\ CopyHeld(p) /\ CopyGiven(p) /\ HandoverTypes
  BY DEF HandoverInv
<1>3. HandoverTypes'
  <2> USE <1>1, <1>2 DEF HandoverTypes, HandoverSteps, copySide, mainSide, domain, Goes, Removed,
                         HandoverAssumption
  <2>1. CASE CheckClientId(p)
    BY <2>1 DEF CheckClientId
  <2>2. CASE NoDomainFound(p) \/ CheckLimit(p) \/ InitStorage(p)
    BY <2>2 DEF NoDomainFound, CheckLimit, InitStorage
  <2>3. CASE InitDomain(p)
    BY <2>3 DEF InitDomain
  <2>4. CASE LookAgain(p)
    BY <2>4 DEF LookAgain
  <2>5. CASE ForgetOriginal(p)
    BY <2>5 DEF ForgetOriginal
  <2>6. CASE SetHandler(p)
    BY <2>6 DEF SetHandler
  <2>7. CASE Refuse(p)
    BY <2>7 DEF Refuse
  <2>8. CASE OriginalBreaks(p) \/ CleanOriginal(p)
    BY <2>8 DEF OriginalBreaks, CleanOriginal
  <2> QED BY <2>1, <2>2, <2>3, <2>4, <2>5, <2>6, <2>7, <2>8
<1>4. \A q \in Peers \ {p} : step'[q] = step[q] /\ on_close'[q] = on_close[q]
  BY <1>2 DEF CheckClientId, NoDomainFound, InitDomain, CheckLimit, LookAgain, InitStorage,
         ForgetOriginal, SetHandler, Refuse, OriginalBreaks, CleanOriginal, copySide, mainSide,
         domain, Goes, HandoverTypes
<1>5. \/ step'[p] = step[p] /\ on_close'[p] = on_close[p]
      \/ step[p] = "read" /\ step'[p] \in {"refused", "init"} /\ on_close'[p] = on_close[p]
      \/ step[p] = "init" /\ step'[p] \in {"refused", "unavailable", "limit"} /\ on_close'[p] = on_close[p]
      \/ step[p] = "limit" /\ step'[p] \in {"refused", "take"} /\ on_close'[p] = on_close[p]
      \/ step[p] = "take" /\ step'[p] = "refused" /\ on_close'[p] = on_close[p]
      \/ step[p] = "storage" /\ step'[p] \in {"forget", "unavailable"} /\ on_close'[p] = on_close[p]
      \/ step[p] = "forget" /\ step'[p] = "handler" /\ on_close'[p] = on_close[p]
      \/ step[p] = "handler" /\ step'[p] = "watch" /\ on_close'[p] = "set"
      \/ step[p] \in {"refused", "unavailable"} /\ step'[p] = "gone" /\ on_close'[p] = on_close[p]
  BY <1>2 DEF CheckClientId, NoDomainFound, InitDomain, CheckLimit, LookAgain, InitStorage,
         ForgetOriginal, SetHandler, Refuse, OriginalBreaks, CleanOriginal, copySide, mainSide,
         domain, Goes, HandoverTypes
<1>6. CopyMade(p)' /\ CopyHeld(p)' /\ CopyGiven(p)'
  BY <1>1, <1>2, <1>5 DEF CopyMade, CopyHeld, CopyGiven, OneIf
<1>7. \A i \in ClientIds : client_ids[i] = p => EntryIsHeld(i)
  BY DEF HandoverInv
<1>8. \A i \in ClientIds : client_ids'[i] = p =>
        /\ copy'[p] # "no"
        /\ copy'[p] = "broken" => copy_watched'[p] = "watched"
        /\ copy'[p] = "open" => \/ copy_watched'[p] = "watched"
                                \/ step'[p] \notin {"reply", "leave", "end"}
  BY <1>1, <1>5, <1>7, HandoverAssumption DEF EntryIsHeld
<1> QED BY <1>1, <1>2, <1>3, <1>4, <1>6, <1>8, OnePeer DEF HandoverTypes

LEMMA WatchKeeps ==
  ASSUME HandoverInv, NEW p \in Peers, WatchCopy(p)
  PROVE  HandoverInv'
<1>1. CopyMade(p) /\ CopyHeld(p) /\ CopyGiven(p) /\ HandoverTypes
  BY DEF HandoverInv
<1>2. /\ step[p] = "watch" /\ step' = [step EXCEPT ![p] = "reply"]
      /\ UNCHANGED <<drop_same, initialized, client_ids, looks, main_ids, original, watched, copy,
                     on_close>>
  BY DEF WatchCopy, Goes, domain, mainSide
<1>3. HandoverTypes'
  BY <1>1, <1>2 DEF WatchCopy, HandoverTypes, HandoverSteps
<1>4. CopyMade(p)' /\ CopyHeld(p)' /\ CopyGiven(p)'
  BY <1>1, <1>2 DEF WatchCopy, CopyMade, CopyHeld, CopyGiven, OneIf, HandoverTypes
<1>5. \A q \in Peers \ {p} : /\ step'[q] = step[q] /\ copy_refs'[q] = copy_refs[q]
                             /\ copy_watched'[q] = copy_watched[q]
  BY <1>1, <1>2 DEF WatchCopy, HandoverTypes
<1>6. \A i \in ClientIds : client_ids[i] = p => EntryIsHeld(i)
  BY DEF HandoverInv
<1>7. \A i \in ClientIds : client_ids'[i] = p =>
        /\ copy'[p] # "no"
        /\ copy'[p] = "broken" => copy_watched'[p] = "watched"
        /\ copy'[p] = "open" => copy_watched'[p] = "watched"
  BY <1>1, <1>2, <1>6, HandoverAssumption DEF WatchCopy, EntryIsHeld, CopyGiven, HandoverTypes
<1> QED BY <1>1, <1>2, <1>3, <1>4, <1>5, <1>7, OnePeer DEF HandoverTypes

\* CONNACK, the end of the task, and what the reader of the domain does with the copy.
LEMMA ReplyKeeps ==
  ASSUME HandoverInv, NEW p \in Peers, Reply(p) \/ LeaveMain(p) \/ CopyBreaks(p)
  PROVE  HandoverInv'
<1>1. CopyMade(p) /\ CopyHeld(p) /\ CopyGiven(p) /\ HandoverTypes
  BY DEF HandoverInv
<1>2. UNCHANGED <<drop_same, initialized, client_ids, looks, main_ids, original, watched,
                  copy_watched>>
  BY DEF Reply, LeaveMain, CopyBreaks, domain, mainSide
<1>3. \/ step[p] = "reply" /\ step' = [step EXCEPT ![p] = "leave"]
         /\ (CopyShut(p) \/ UNCHANGED <<copy, on_close, copy_refs>>)
      \/ /\ step[p] = "leave" /\ step' = [step EXCEPT ![p] = "end"]
         /\ copy_refs' = [copy_refs EXCEPT ![p] = @ - 1] /\ UNCHANGED <<copy, on_close>>
      \/ copy_watched[p] = "watched" /\ copy[p] = "open" /\ CopyShut(p) /\ UNCHANGED step
  BY DEF Reply, LeaveMain, CopyBreaks, Goes
<1>4. HandoverTypes'
  BY <1>1, <1>2, <1>3 DEF CopyShut, HandoverTypes, HandoverSteps
<1>5. CopyMade(p)' /\ CopyHeld(p)' /\ CopyGiven(p)'
  BY <1>1, <1>2, <1>3 DEF CopyShut, CopyMade, CopyHeld, CopyGiven, OneIf, HandoverTypes
<1>6. \A q \in Peers \ {p} : /\ step'[q] = step[q] /\ copy_refs'[q] = copy_refs[q]
                             /\ copy'[q] = copy[q] /\ on_close'[q] = on_close[q]
  BY <1>1, <1>3 DEF CopyShut, HandoverTypes
<1>7. \A i \in ClientIds : client_ids[i] = p => EntryIsHeld(i)
  BY DEF HandoverInv
<1>8. \A i \in ClientIds : client_ids'[i] = p =>
        /\ copy'[p] # "no"
        /\ copy'[p] = "broken" => copy_watched'[p] = "watched"
        /\ copy'[p] = "open" => \/ copy_watched'[p] = "watched"
                                \/ step'[p] \notin {"reply", "leave", "end"}
  BY <1>1, <1>2, <1>3, <1>7, HandoverAssumption DEF CopyShut, EntryIsHeld, HandoverTypes
<1> QED BY <1>1, <1>2, <1>4, <1>5, <1>6, <1>8, OnePeer DEF HandoverTypes

\* The clean-up of the reader and the close handler, which take the entry away.
LEMMA CleanKeeps ==
  ASSUME HandoverInv, NEW p \in Peers, CleanCopy(p) \/ CleanEnds(p) \/ OnCloseRuns(p)
  PROVE  HandoverInv'
<1>1. CopyMade(p) /\ CopyHeld(p) /\ CopyGiven(p) /\ HandoverTypes
  BY DEF HandoverInv
<1>2. UNCHANGED <<drop_same, initialized, looks, main_ids, original, watched, step, copy>>
  BY DEF CleanCopy, CleanEnds, OnCloseRuns, domain, mainSide
<1>3. HandoverTypes'
  BY <1>1, <1>2 DEF CleanCopy, CleanEnds, OnCloseRuns, Removed, HandoverTypes, HandoverAssumption
<1>4. CopyMade(p)' /\ CopyHeld(p)' /\ CopyGiven(p)'
  BY <1>1, <1>2 DEF CleanCopy, CleanEnds, OnCloseRuns, CopyMade, CopyHeld, CopyGiven, OneIf,
                    HandoverTypes
<1>5. \A q \in Peers \ {p} : /\ copy_refs'[q] = copy_refs[q] /\ on_close'[q] = on_close[q]
                             /\ copy_watched'[q] = copy_watched[q]
  BY <1>1 DEF CleanCopy, CleanEnds, OnCloseRuns, HandoverTypes
<1>6. \A i \in ClientIds : /\ client_ids'[i] \in {client_ids[i], NoPeer}
                           /\ i = ClientOf[p] /\ ~CleanEnds(p) => client_ids'[i] = NoPeer
                           /\ CleanEnds(p) => client_ids'[i] = client_ids[i]
  BY <1>1, HandoverAssumption DEF CleanCopy, CleanEnds, OnCloseRuns, Removed, HandoverTypes
<1>7. \A i \in ClientIds : EntryIsHeld(i)
  BY DEF HandoverInv
<1>8. \A i \in ClientIds : client_ids'[i] = p =>
        /\ copy'[p] # "no"
        /\ copy'[p] = "broken" => copy_watched'[p] = "watched"
        /\ copy'[p] = "open" => \/ copy_watched'[p] = "watched"
                                \/ step'[p] \notin {"reply", "leave", "end"}
  <2> SUFFICES ASSUME NEW i \in ClientIds, client_ids'[i] = p
               PROVE  /\ copy'[p] # "no"
                      /\ copy'[p] = "broken" => copy_watched'[p] = "watched"
                      /\ copy'[p] = "open" => \/ copy_watched'[p] = "watched"
                                              \/ step'[p] \notin {"reply", "leave", "end"}
    OBVIOUS
  <2>1. p # NoPeer /\ client_ids[i] = p /\ EntryIsHeld(i)
    BY <1>6, <1>7, HandoverAssumption
  <2>2. ClientOf[p] = i
    BY <2>1 DEF EntryIsHeld
  <2>3. CleanEnds(p)
    BY <1>6, <2>1, <2>2
  <2> QED BY <1>1, <1>2, <2>1, <2>3 DEF CleanEnds, EntryIsHeld, CopyGiven, HandoverTypes
<1> QED BY <1>1, <1>2, <1>3, <1>4, <1>5, <1>6, <1>8, OnePeer DEF HandoverTypes

\* The new entry: the connection that had it is shut down, its close handler gets a thread
\* and a reference, and it is no longer in the table.
LEMMA TakeKeeps ==
  ASSUME HandoverInv, NEW p \in Peers, TakeId(p)
  PROVE  HandoverInv'
<1> DEFINE other == client_ids[ClientOf[p]]
           hit == other # NoPeer /\ copy[other] = "open"
           call == hit /\ on_close[other] = "set"
<1>0. \A q \in Peers : CopyMade(q) /\ CopyHeld(q) /\ CopyGiven(q)
  BY DEF HandoverInv
<1>1. HandoverTypes /\ ClientOf[p] \in ClientIds
  BY DEF HandoverInv, HandoverAssumption
<1>2. /\ step[p] = "take" /\ step' = [step EXCEPT ![p] = "storage"]
      /\ client_ids' = [client_ids EXCEPT ![ClientOf[p]] = p]
      /\ UNCHANGED <<drop_same, initialized, main_ids, looks, watched, copy_watched>>
      /\ original' = [original EXCEPT ![p] = "moved"]
  BY DEF TakeId, Goes, domain
<1>3. \E well \in {"open", "dead"} :
        /\ copy' = [q \in Peers |-> IF q = p THEN well
                                    ELSE IF hit /\ q = other THEN "broken" ELSE copy[q]]
        /\ copy_refs' = [q \in Peers |-> IF q = p THEN 1
                            ELSE copy_refs[q] + IF call /\ q = other THEN 1 ELSE 0]
        /\ on_close' = [q \in Peers |-> IF call /\ q = other THEN "thread" ELSE on_close[q]]
  BY DEF TakeId
<1>4. /\ copy[p] = "no" /\ copy_watched[p] = "no" /\ on_close[p] = "no"
      /\ other \in Peers => other # p
  <2>1. copy[p] = "no" /\ copy_watched[p] = "no" /\ on_close[p] = "no"
    BY <1>0, <1>2 DEF CopyMade, CopyGiven
  <2>2. EntryIsHeld(ClientOf[p])
    BY <1>1 DEF HandoverInv
  <2> QED BY <2>1, <2>2, HandoverAssumption DEF EntryIsHeld
<1>5. HandoverTypes'
  BY <1>1, <1>2, <1>3 DEF HandoverTypes, HandoverSteps
<1>6. ASSUME NEW q \in Peers
      PROVE  CopyMade(q)' /\ CopyHeld(q)' /\ CopyGiven(q)'
  <2>1. CopyMade(q) /\ CopyHeld(q) /\ CopyGiven(q)
    BY <1>0
  <2>2. /\ copy_watched'[q] = copy_watched[q]
        /\ q # p => step'[q] = step[q]
        /\ q = p => step'[q] = "storage"
    BY <1>1, <1>2 DEF HandoverTypes
  <2>3. CASE q = p
    <3>1. copy'[q] \in {"open", "dead"} /\ copy_refs'[q] = 1 /\ on_close'[q] = "no"
      BY <1>3, <1>4, <2>3
    <3> QED BY <1>4, <2>2, <2>3, <3>1 DEF CopyMade, CopyHeld, CopyGiven, OneIf
  <2>4. CASE q # p /\ ~(hit /\ q = other)
    <3>1. copy'[q] = copy[q] /\ on_close'[q] = on_close[q] /\ copy_refs'[q] = copy_refs[q]
      BY <1>1, <1>3, <2>4 DEF HandoverTypes
    <3> QED BY <2>1, <2>2, <2>4, <3>1 DEF CopyMade, CopyHeld, CopyGiven
  <2>5. CASE q # p /\ hit /\ q = other
    <3>1. copy'[q] = "broken" /\ copy[q] = "open"
      BY <1>3, <2>5
    <3>2. CASE on_close[q] = "set"
      <4>1. on_close'[q] = "thread" /\ copy_refs'[q] = copy_refs[q] + 1
        BY <1>3, <2>5, <3>2
      <4> QED BY <1>1, <2>1, <2>2, <2>5, <3>1, <3>2, <4>1 DEF CopyMade, CopyHeld, CopyGiven,
                                                            OneIf, HandoverTypes
    <3>3. CASE on_close[q] # "set"
      <4>1. on_close'[q] = on_close[q] /\ copy_refs'[q] = copy_refs[q]
        BY <1>1, <1>3, <2>5, <3>3 DEF HandoverTypes
      <4> QED BY <2>1, <2>2, <2>5, <3>1, <4>1 DEF CopyMade, CopyHeld, CopyGiven, OneIf
    <3> QED BY <3>2, <3>3
  <2> QED BY <2>3, <2>4, <2>5
<1>7. ASSUME NEW i \in ClientIds
      PROVE  EntryIsHeld(i)'
  <2>1. CASE i = ClientOf[p]
    <3>1. client_ids'[i] = p /\ copy'[p] \in {"open", "dead"} /\ step'[p] = "storage"
      BY <1>1, <1>2, <1>3, <2>1 DEF HandoverTypes
    <3> QED BY <2>1, <3>1 DEF EntryIsHeld
  <2>2. CASE i # ClientOf[p]
    <3> DEFINE q == client_ids[i]
    <3>1. client_ids'[i] = q /\ q \in Peers \union {NoPeer}
      BY <1>1, <1>2, <2>2 DEF HandoverTypes
    <3>2. EntryIsHeld(i) /\ EntryIsHeld(ClientOf[p])
      BY <1>1 DEF HandoverInv
    <3>3. CASE q # NoPeer
      <4>1. ClientOf[q] = i /\ q # p
        BY <2>2, <3>2, <3>3 DEF EntryIsHeld
      <4>2. other # NoPeer => ClientOf[other] = ClientOf[p]
        BY <3>2 DEF EntryIsHeld
      <4>3. q \in Peers /\ ~(hit /\ q = other)
        BY <2>2, <3>1, <3>3, <4>1, <4>2
      <4>4. copy'[q] = copy[q] /\ step'[q] = step[q] /\ copy_watched'[q] = copy_watched[q]
        BY <1>1, <1>2, <1>3, <4>1, <4>3 DEF HandoverTypes
      <4> QED BY <3>1, <3>2, <4>4 DEF EntryIsHeld
    <3>4. CASE q = NoPeer
      BY <3>1, <3>4 DEF EntryIsHeld
    <3> QED BY <3>3, <3>4
  <2> QED BY <2>1, <2>2
<1> QED BY <1>5, <1>6, <1>7 DEF HandoverInv

LEMMA HandoverStep == HandoverInv /\ [HandoverNext]_handoverVars => HandoverInv'
<1> SUFFICES ASSUME HandoverInv, [HandoverNext]_handoverVars
             PROVE  HandoverInv'
  OBVIOUS
<1>1. ASSUME NEW p \in Peers,
             \/ CheckClientId(p) \/ NoDomainFound(p) \/ InitDomain(p) \/ CheckLimit(p)
             \/ LookAgain(p) \/ InitStorage(p) \/ ForgetOriginal(p) \/ SetHandler(p)
             \/ Refuse(p) \/ OriginalBreaks(p) \/ CleanOriginal(p)
      PROVE  HandoverInv'
  BY <1>1, MainSteps
<1>2. ASSUME NEW p \in Peers, TakeId(p)
      PROVE  HandoverInv'
  BY <1>2, TakeKeeps
<1>3. ASSUME NEW p \in Peers, WatchCopy(p)
      PROVE  HandoverInv'
  BY <1>3, WatchKeeps
<1>4. ASSUME NEW p \in Peers, Reply(p) \/ LeaveMain(p) \/ CopyBreaks(p)
      PROVE  HandoverInv'
  BY <1>4, ReplyKeeps
<1>5. ASSUME NEW p \in Peers, CleanCopy(p) \/ CleanEnds(p) \/ OnCloseRuns(p)
      PROVE  HandoverInv'
  BY <1>5, CleanKeeps
<1>6. CASE UNCHANGED handoverVars
  BY <1>6 DEF handoverVars, domain, mainSide, copySide, HandoverInv, HandoverTypes, CopyMade,
              CopyHeld, CopyGiven, EntryIsHeld
<1> QED BY <1>1, <1>2, <1>3, <1>4, <1>5, <1>6 DEF HandoverNext

\* Every variable keeps its type; a copy has three references at most.
THEOREM HandoverTypeCorrect == HandoverSpec => []HandoverTypeOK
<1>1. ASSUME HandoverInv
      PROVE  HandoverTypeOK
  <2>1. HandoverTypes /\ \A p \in Peers : CopyHeld(p)
    BY <1>1 DEF HandoverInv
  <2>2. \A p \in Peers : copy_refs[p] \in 0 .. 3
    BY <2>1 DEF CopyHeld, OneIf
  <2>3. copy_refs \in [Peers -> 0 .. 3]
    BY <2>1, <2>2 DEF HandoverTypes
  <2> QED BY <2>1, <2>3 DEF HandoverTypes, HandoverTypeOK
<1> QED BY <1>1, HandoverInitially, HandoverStep, PTL DEF HandoverSpec

\* Whatever breaks and whoever cleans up, a connection in the table of the domain has not
\* been freed, but for one that was copied when it had broken already.
THEOREM EntryIsAliveCorrect == HandoverSpec => []EntryIsAlive
<1>1. ASSUME HandoverInv
      PROVE  EntryIsAlive
  <2> SUFFICES ASSUME NEW i \in ClientIds, client_ids[i] # NoPeer, Freed(client_ids[i])
               PROVE  copy[client_ids[i]] = "dead"
    BY DEF EntryIsAlive
  <2> DEFINE p == client_ids[i]
  <2>1. EntryIsHeld(i) /\ p \in Peers /\ CopyHeld(p) /\ HandoverTypes
    BY <1>1 DEF HandoverInv, HandoverTypes
  <2>2. copy[p] # "no" /\ copy_refs[p] = 0 /\ copy[p] \in {"no", "open", "broken", "dead"}
    BY <2>1 DEF Freed, HandoverTypes
  <2>3. step[p] = "end" /\ copy_watched[p] = "no"
    BY <2>1, <2>2 DEF CopyHeld, OneIf, HandoverTypes
  <2> QED BY <2>1, <2>2, <2>3 DEF EntryIsHeld
<1> QED BY <1>1, HandoverInitially, HandoverStep, PTL DEF HandoverSpec

HIDE DomainAssumption

-----------------------------------------------------------------------------
(* Retained messages (RetainedMessages): a call that nobody disturbs leaves the   *)
(* topic it was for with the message stored last and no other.                   *)

USE RetainedAssumption

\* What is retained for a topic, while no call touches it: the last message stored, if any,
\* or one that could not be written.
Held(topic) ==
  /\ \A m, n \in Kept(topic) : m = n
  /\ Kept(topic) \ cut \subseteq {expected[topic]}
  /\ ~consumed => Kept(topic) \ cut = {expected[topic]} \ {0}
Paired(m) == m \in cut \/ (name_file[m] \in {"no", "whole"} /\ msg_file[m] = name_file[m])

\* The messages a call has under its hands: the one it takes away, the one it writes.
Touched(t) ==
  {m \in Numbers : \/ task[t].at \in {"read", "unlink_msg"} /\ m \in task[t].entries
                   \/ task[t].at \in {"write", "create_msg", "write_msg"} /\ m = task[t].file}
Fresh(t) == task[t].op = "set" => name_file[task[t].file] = "no" /\ hash_dir = "made"

\* A call k that is past the list has a topic, and what it removes or writes is of that
\* topic, when topics tells what each message is for.
TakesItsOwn(k, topics) ==
  /\ k.at \notin {"idle", "list"} => k.topic \in RTopics
  /\ k.op = "set" => k.file \in Numbers /\ topics[k.file] = k.topic /\ k.topic \in RTopics
  /\ k.at \in {"test", "mkdir", "create", "write", "create_msg", "write_msg"} => k.op = "set"
  /\ k.at \in {"list", "read"} => k.op = "recover"
  /\ k.at \in {"unlink", "read", "unlink_msg"} =>
       \E m \in Numbers : k.entries = {m} /\ topics[m] = k.topic

\* A call that nobody disturbs, step by step.
AloneInv(t) ==
  /\ task[t].op \in {"set", "release"} => task[t].left = {}
  /\ \A topic \in RTopics : topic # task[t].topic => Held(topic)
  /\ \A m \in Numbers : m \notin Touched(t) => Paired(m)
  /\ task[t].at = "list" => task[t].topic = "none"
  /\ task[t].at \in {"test", "mkdir"} =>
       /\ hash_dir = "no" /\ name_file[task[t].file] = "no"
       /\ Held(task[t].topic)
  /\ task[t].at = "open" => Held(task[t].topic) /\ Fresh(t)
  /\ task[t].at = "scan" =>
       Held(task[t].topic) /\ Fresh(t) /\ Kept(task[t].topic) \subseteq task[t].entries
         /\ task[t].entries \subseteq Entries
  /\ task[t].at = "unlink" => Fresh(t) /\ Kept(task[t].topic) = task[t].entries
  /\ task[t].at \in {"read", "unlink_msg"} =>
       /\ Fresh(t) /\ Kept(task[t].topic) = {}
       /\ \A m \in task[t].entries :
            /\ name_file[m] = "no" /\ (m \in cut \/ msg_file[m] = "whole")
            /\ task[t].op = "set" => m # task[t].file
  /\ task[t].at \in {"unlink", "unlink_msg"} =>
       IF task[t].op = "recover" THEN task[t].at = "unlink" \/ consumed
       ELSE expected[task[t].topic] = 0
  /\ task[t].at = "create" => Fresh(t) /\ Kept(task[t].topic) = {}
  /\ task[t].at \in {"write", "create_msg", "write_msg"} =>
       hash_dir = "made" /\ Kept(task[t].topic) \subseteq {task[t].file}
  /\ task[t].at \in {"create", "write", "create_msg", "write_msg"} =>
       (consumed \/ expected[task[t].topic] = 0)
  /\ task[t].file \notin cut =>
       /\ task[t].at \in {"write", "create_msg", "write_msg"} => Kept(task[t].topic) = {task[t].file}
       /\ task[t].at = "write" => name_file[task[t].file] = "part" /\ msg_file[task[t].file] = "no"
       /\ task[t].at = "create_msg" => name_file[task[t].file] = "whole" /\ msg_file[task[t].file] = "no"
       /\ task[t].at = "write_msg" => name_file[task[t].file] = "whole" /\ msg_file[task[t].file] = "part"

Undisturbed ==
  /\ hash_dir = "no" => \A m \in Numbers : name_file[m] = "no"
  /\ \A t, u \in BusyTasks : t = u
  /\ \A t \in BusyTasks : AloneInv(t)
  /\ BusyTasks = {} => /\ \A topic \in RTopics : Held(topic)
                       /\ \A m \in Numbers : Paired(m)
OwnInv ==
  /\ RetainedTypeOK /\ RecoveredIsOwn
  /\ \A m \in Numbers : topic_of[m] = "none" => name_file[m] = "no" /\ msg_file[m] = "no" /\ m \notin cut
  /\ \A t \in RetainTasks : TakesItsOwn(task[t], topic_of)
RetainedInv ==
  /\ OwnInv
  /\ ~overlapped => Undisturbed

LEMMA NoTaskType == NoRetainTask \in TypeOfTask
BY DEF NoRetainTask, TypeOfTask

LEMMA RetainedInitially == RetainedInit => RetainedInv
<1> SUFFICES ASSUME RetainedInit PROVE RetainedInv
  OBVIOUS
<1> USE DEF RetainedInit
<1>1. RetainedTypeOK
  <2>0. MaxTaken \in Nat /\ MaxKills \in Nat
    OBVIOUS
  <2>1. took \in 0 .. MaxTaken /\ kills \in 0 .. MaxKills
    BY <2>0
  <2>2. task \in [RetainTasks -> TypeOfTask] /\ recovered \subseteq RTopics \X (Numbers \union {0})
    BY NoTaskType
  <2>3. {name_file, msg_file} \subseteq [Numbers -> {"no", "part", "whole"}]
    OBVIOUS
  <2>4. topic_of \in [Numbers -> RTopics \union {"none"}]
    OBVIOUS
  <2>5. expected \in [RTopics -> Numbers \union {0}]
    OBVIOUS
  <2>6. cut \subseteq Numbers
    OBVIOUS
  <2> QED BY <2>1, <2>2, <2>3, <2>4, <2>5, <2>6 DEF RetainedTypeOK
<1>2. RecoveredIsOwn /\ \A t \in RetainTasks : TakesItsOwn(task[t], topic_of)
  BY DEF RecoveredIsOwn, TakesItsOwn, NoRetainTask
<1>3. BusyTasks = {} /\ \A topic \in RTopics : Kept(topic) = {}
  BY DEF BusyTasks, NoRetainTask, Kept
<1>4. Undisturbed
  BY <1>3 DEF Undisturbed, Held, Paired
<1> QED BY <1>1, <1>2, <1>4 DEF RetainedInv, OwnInv

\* A step of the one call under way, and what has to be seen about it.
LEMMA OneCall ==
  ASSUME Undisturbed, NEW t \in RetainTasks, task[t].at # "idle",
         \A u \in RetainTasks : u # t => task'[u] = task[u],
         hash_dir' = "no" => \A m \in Numbers : name_file'[m] = "no",
         task'[t].at # "idle" => AloneInv(t)',
         task'[t].at = "idle" => /\ \A topic \in RTopics : Held(topic)'
                                 /\ \A m \in Numbers : Paired(m)'
  PROVE  Undisturbed'
<1>1. BusyTasks = {t}
  BY DEF Undisturbed, BusyTasks
<1>2. BusyTasks' = IF task'[t].at = "idle" THEN {} ELSE {t}
  BY <1>1 DEF BusyTasks
<1> QED BY <1>2 DEF Undisturbed

\* A call that begins alone finds everything as a call that ended left it.
LEMMA FirstCall ==
  ASSUME RetainedInv, NEW t \in RetainTasks, NEW r, Begin(t, r), ~overlapped', r.at # "idle"
  PROVE  /\ ~overlapped /\ Undisturbed /\ task[t].at = "idle" /\ BusyTasks = {} /\ task'[t] = r
         /\ BusyTasks' = {t}
         /\ \A topic \in RTopics : Held(topic)
         /\ \A m \in Numbers : Paired(m)
<1>1. ~overlapped /\ BusyTasks = {} /\ task[t].at = "idle" /\ task' = [task EXCEPT ![t] = r]
  BY DEF Begin
<1>2. task'[t] = r /\ \A u \in RetainTasks : u # t => task'[u] = task[u]
  BY <1>1 DEF RetainedInv, OwnInv, RetainedTypeOK
<1>3. BusyTasks' = {t}
  BY <1>1, <1>2 DEF BusyTasks
<1> QED BY <1>1, <1>2, <1>3 DEF RetainedInv, Undisturbed

\* What every step keeps of the types: one thread's call goes on.
LEMMA TaskTypes ==
  ASSUME RetainedTypeOK, NEW t \in RetainTasks,
         NEW r \in TypeOfTask, task' = [task EXCEPT ![t] = r]
  PROVE  task' \in [RetainTasks -> TypeOfTask] /\ task'[t] = r
         /\ \A u \in RetainTasks : u # t => task'[u] = task[u]
BY DEF RetainedTypeOK

LEMMA ProceedIs ==
  ASSUME RetainedTypeOK, NEW t \in RetainTasks, NEW at, Proceed(t, at),
         at \in {"idle", "list", "test", "mkdir", "open", "scan", "unlink", "read",
                 "unlink_msg", "create", "write", "create_msg", "write_msg", "stuck"}
  PROVE  /\ task' \in [RetainTasks -> TypeOfTask]
         /\ task'[t].op = task[t].op /\ task'[t].at = at /\ task'[t].topic = task[t].topic
         /\ task'[t].left = task[t].left /\ task'[t].entries = task[t].entries
         /\ task'[t].file = task[t].file
         /\ \A u \in RetainTasks : u # t => task'[u] = task[u]
<1> DEFINE r == [task[t] EXCEPT !.at = at]
<1>1. task[t] \in TypeOfTask
  BY DEF RetainedTypeOK
<1>2. r \in TypeOfTask
  BY <1>1 DEF TypeOfTask
<1>3. r.op = task[t].op /\ r.at = at /\ r.topic = task[t].topic
      /\ r.left = task[t].left /\ r.entries = task[t].entries /\ r.file = task[t].file
  BY <1>1 DEF TypeOfTask
<1>4. task' = [task EXCEPT ![t] = r]
  BY DEF Proceed
<1> HIDE DEF r
<1> QED BY <1>2, <1>3, <1>4, TaskTypes

\* The next topic of those listed, or the end.
LEMMA NextTopicIs ==
  ASSUME RetainedTypeOK, NEW t \in RetainTasks, NEW left \in SUBSET RTopics, NextTopic(t, left, task[t])
  PROVE  /\ task' \in [RetainTasks -> TypeOfTask]
         /\ \A u \in RetainTasks : u # t => task'[u] = task[u]
         /\ \/ task'[t] = NoRetainTask /\ left = {}
            \/ /\ task'[t].op = task[t].op /\ task'[t].at = "open" /\ task'[t].topic \in left
               /\ task'[t].left \subseteq left /\ task'[t].entries = {} /\ task'[t].file = 0
<1>1. task[t] \in TypeOfTask
  BY DEF RetainedTypeOK
<1>2. CASE left = {} /\ task' = [task EXCEPT ![t] = NoRetainTask]
  BY <1>2, NoTaskType, TaskTypes
<1>3. ASSUME NEW topic \in left,
             task' = [task EXCEPT ![t] = [task[t] EXCEPT !.at = "open", !.topic = topic,
                                                 !.left = left \ {topic}, !.file = 0,
                                                 !.entries = {}]]
      PROVE  /\ task' \in [RetainTasks -> TypeOfTask]
             /\ \A u \in RetainTasks : u # t => task'[u] = task[u]
             /\ task'[t].op = task[t].op /\ task'[t].at = "open" /\ task'[t].topic \in left
             /\ task'[t].left \subseteq left /\ task'[t].entries = {} /\ task'[t].file = 0
  <2> DEFINE r == [task[t] EXCEPT !.at = "open", !.topic = topic, !.left = left \ {topic},
                                  !.file = 0, !.entries = {}]
  <2>1. r \in TypeOfTask
    BY <1>1 DEF TypeOfTask
  <2>2. r.op = task[t].op /\ r.at = "open" /\ r.topic = topic /\ r.left = left \ {topic}
        /\ r.file = 0 /\ r.entries = {}
    BY <1>1 DEF TypeOfTask
  <2>3. task' = [task EXCEPT ![t] = r]
    BY <1>3
  <2> HIDE DEF r
  <2> QED BY <2>1, <2>2, <2>3, TaskTypes
<1> QED BY <1>2, <1>3 DEF NextTopic, EndCall

\* The call ends.
LEMMA EndCallIs ==
  ASSUME RetainedTypeOK, NEW t \in RetainTasks, EndCall(t)
  PROVE  /\ task' \in [RetainTasks -> TypeOfTask] /\ task'[t] = NoRetainTask
         /\ task'[t].at = "idle" /\ TakesItsOwn(task'[t], topic_of')
         /\ \A u \in RetainTasks : u # t => task'[u] = task[u]
<1>1. /\ task' \in [RetainTasks -> TypeOfTask] /\ task'[t] = NoRetainTask
      /\ \A u \in RetainTasks : u # t => task'[u] = task[u]
  BY NoTaskType, TaskTypes DEF EndCall
<1> QED BY <1>1 DEF TakesItsOwn, NoRetainTask

\* When nothing is found, the publisher goes on to write and the others to the next topic.
LEMMA NotFoundIs ==
  ASSUME RetainedTypeOK, NEW t \in RetainTasks, NotFound(t)
  PROVE  /\ task' \in [RetainTasks -> TypeOfTask]
         /\ \A u \in RetainTasks : u # t => task'[u] = task[u]
         /\ task[t].op = "set" =>
              /\ task'[t].op = "set" /\ task'[t].at = "create" /\ task'[t].topic = task[t].topic
              /\ task'[t].left = task[t].left /\ task'[t].file = task[t].file
              /\ task'[t].entries = task[t].entries
         /\ task[t].op # "set" =>
              \/ task'[t] = NoRetainTask /\ task[t].left = {}
              \/ /\ task'[t].op = task[t].op /\ task'[t].at = "open"
                 /\ task'[t].topic \in task[t].left /\ task'[t].left \subseteq task[t].left
                 /\ task'[t].entries = {} /\ task'[t].file = 0
<1>1. task[t].left \in SUBSET RTopics
  BY DEF RetainedTypeOK, TypeOfTask
<1>2. CASE task[t].op = "set"
  <2>1. Proceed(t, "create")
    BY <1>2 DEF NotFound
  <2>2. "create" \in {"idle", "list", "test", "mkdir", "open", "scan", "unlink", "read",
                      "unlink_msg", "create", "write", "create_msg", "write_msg", "stuck"}
    OBVIOUS
  <2> QED BY <1>2, <2>1, <2>2, ProceedIs
<1>3. CASE task[t].op # "set"
  BY <1>1, <1>3, NextTopicIs DEF NotFound
<1> QED BY <1>2, <1>3

\* The types, what subscribers have and what calls take away, for each step: what is taken
\* away is what the search found, and a message, once chosen, keeps its topic.
LEMMA OwnBegins ==
  ASSUME OwnInv, NEW t \in RetainTasks, NEW r \in TypeOfTask, r.at \in {"test", "open", "list"},
         Begin(t, r), UNCHANGED <<files, recovered, kills, cut, expected, consumed>>,
         r.topic \in RTopics \/ r.at = "list",
         r.op = "set" => r.file \in Numbers /\ topic_of'[r.file] = r.topic /\ r.topic \in RTopics,
         r.at = "test" => r.op = "set", r.at = "list" => r.op = "recover",
         took' \in 0 .. MaxTaken, topic_of' \in [Numbers -> RTopics \union {"none"}],
         \A m \in Numbers : topic_of[m] # "none" => topic_of'[m] = topic_of[m]
  PROVE  OwnInv'
<1>0. /\ RetainedTypeOK /\ RecoveredIsOwn
      /\ \A m \in Numbers : topic_of[m] = "none" => name_file[m] = "no" /\ msg_file[m] = "no" /\ m \notin cut
      /\ \A u \in RetainTasks : TakesItsOwn(task[u], topic_of)
  BY DEF OwnInv
<1>1. task' \in [RetainTasks -> TypeOfTask] /\ task'[t] = r
      /\ \A u \in RetainTasks : u # t => task'[u] = task[u]
  BY <1>0, TaskTypes DEF Begin
<1>2. RetainedTypeOK'
  BY <1>0, <1>1 DEF RetainedTypeOK, Begin, files
<1>3. RecoveredIsOwn'
  <2>1. \A x \in recovered : x[1] \in RTopics /\ x[2] \in Numbers \union {0}
    BY <1>0 DEF RetainedTypeOK
  <2>2. ASSUME NEW x \in recovered
        PROVE  IF x[2] = 0 THEN overlapped' \/ \E m \in cut : topic_of'[m] = x[1]
               ELSE topic_of'[x[2]] = x[1]
    <3>1. IF x[2] = 0 THEN overlapped \/ \E m \in cut : topic_of[m] = x[1]
          ELSE topic_of[x[2]] = x[1]
      BY <1>0 DEF RecoveredIsOwn
    <3>2. \A m \in cut : topic_of'[m] = topic_of[m]
      BY <1>0 DEF RetainedTypeOK
    <3> QED BY <2>1, <3>1, <3>2 DEF Begin
  <2> QED BY <2>2 DEF RecoveredIsOwn
<1>4. ASSUME NEW u \in RetainTasks PROVE TakesItsOwn(task'[u], topic_of')
  <2>1. CASE u = t
    BY <1>1, <2>1 DEF TakesItsOwn
  <2>2. CASE u # t
    <3>1. TakesItsOwn(task[u], topic_of) /\ task'[u] = task[u]
      BY <1>0, <1>1, <2>2
    <3> QED BY <3>1 DEF TakesItsOwn
  <2> QED BY <2>1, <2>2
<1>5. \A m \in Numbers :
        topic_of'[m] = "none" => name_file'[m] = "no" /\ msg_file'[m] = "no" /\ m \notin cut'
  BY <1>0 DEF files
<1> QED BY <1>2, <1>3, <1>4, <1>5 DEF OwnInv

\* A step that takes nothing new away and gives nobody a message; the calls of the others
\* go on, or end with the process.
LEMMA OwnStays ==
  ASSUME OwnInv, NEW t \in RetainTasks, task[t].at # "idle",
         task' \in [RetainTasks -> TypeOfTask],
         \A u \in RetainTasks : u # t => task'[u] \in {task[u], NoRetainTask},
         TakesItsOwn(task'[t], topic_of'),
         \A m \in Numbers : topic_of'[m] = "none" => name_file'[m] = "no" /\ msg_file'[m] = "no",
         UNCHANGED <<topic_of, recovered, took, kills>>,
         overlapped' \in BOOLEAN, overlapped => overlapped',
         hash_dir' \in {"no", "made"}, consumed' \in BOOLEAN,
         {name_file', msg_file'} \subseteq [Numbers -> {"no", "part", "whole"}],
         expected' \in [RTopics -> Numbers \union {0}],
         cut \subseteq cut', cut' \subseteq Numbers, \A m \in cut' : topic_of[m] # "none"
  PROVE  OwnInv'
<1>0. RetainedTypeOK /\ RecoveredIsOwn /\ \A u \in RetainTasks : TakesItsOwn(task[u], topic_of)
  BY DEF OwnInv
<1>1. RetainedTypeOK'
  BY <1>0 DEF RetainedTypeOK
<1>2. RecoveredIsOwn'
  BY <1>0 DEF RecoveredIsOwn
<1>3. ASSUME NEW u \in RetainTasks PROVE TakesItsOwn(task'[u], topic_of')
  BY <1>0 DEF TakesItsOwn, NoRetainTask
<1> QED BY <1>1, <1>2, <1>3 DEF OwnInv

\* Numbers and files stay what they are when one of them changes.
LEMMA FileTypes ==
  ASSUME RetainedTypeOK, NEW m \in Numbers, NEW v \in {"no", "part", "whole"}
  PROVE  /\ [name_file EXCEPT ![m] = v] \in [Numbers -> {"no", "part", "whole"}]
         /\ [msg_file EXCEPT ![m] = v] \in [Numbers -> {"no", "part", "whole"}]
         /\ name_file \in [Numbers -> {"no", "part", "whole"}]
         /\ msg_file \in [Numbers -> {"no", "part", "whole"}]
BY DEF RetainedTypeOK

\* A message that is being removed is the one there is.
LEMMA FoundIs ==
  ASSUME OwnInv, NEW t \in RetainTasks, task[t].at \in {"unlink", "read", "unlink_msg"}
  PROVE  /\ Found(t) \in Numbers /\ task[t].entries = {Found(t)} /\ topic_of[Found(t)] = task[t].topic
         /\ task[t].topic \in RTopics
<1>1. PICK m \in Numbers : task[t].entries = {m} /\ topic_of[m] = task[t].topic
  BY DEF OwnInv, TakesItsOwn
<1>2. Found(t) = m
  BY <1>1 DEF Found
<1> QED BY <1>1, <1>2 DEF OwnInv, TakesItsOwn

LEMMA OwnBegun ==
  ASSUME OwnInv, NEW t \in RetainTasks, SetRetained(t) \/ ReleaseRetained(t) \/ Subscribe(t)
  PROVE  OwnInv'
<1>0. MaxTaken \in Nat /\ took \in Nat /\ took <= MaxTaken
  BY DEF OwnInv, RetainedTypeOK
<1>1. CASE SetRetained(t)
  <2>1. PICK topic \in RTopics, m \in Numbers :
          /\ topic_of[m] = "none" /\ topic_of' = [topic_of EXCEPT ![m] = topic]
          /\ Begin(t, [NoRetainTask EXCEPT !.op = "set", !.topic = topic, !.file = m,
                                           !.at = IF hash_dir = "no" THEN "test" ELSE "open"])
          /\ UNCHANGED <<files, recovered, took, kills, cut, expected, consumed>>
    BY <1>1 DEF SetRetained
  <2> DEFINE r == [NoRetainTask EXCEPT !.op = "set", !.topic = topic, !.file = m,
                                       !.at = IF hash_dir = "no" THEN "test" ELSE "open"]
  <2>2. r \in TypeOfTask /\ r.at \in {"test", "open"} /\ r.topic \in RTopics
        /\ r.op = "set" /\ r.file = m /\ r.topic = topic
    BY DEF TypeOfTask, NoRetainTask
  <2>3. /\ topic_of' \in [Numbers -> RTopics \union {"none"}]
        /\ \A k \in Numbers : topic_of[k] # "none" => topic_of'[k] = topic_of[k]
        /\ topic_of'[m] = topic
    BY <2>1 DEF OwnInv, RetainedTypeOK
  <2> HIDE DEF r
  <2>4. took' \in 0 .. MaxTaken
    BY <1>0, <2>1
  <2>5. Begin(t, r)
    BY <2>1 DEF r
  <2> QED BY <2>1, <2>2, <2>3, <2>4, <2>5, OwnBegins
<1>2. ASSUME NEW r \in TypeOfTask, r.at \in {"open", "list"}, r.topic \in RTopics \/ r.at = "list",
             r.op # "set", r.at = "list" => r.op = "recover", Begin(t, r), took < MaxTaken, took' = took + 1,
             UNCHANGED <<files, topic_of, recovered, kills, cut, expected, consumed>>
      PROVE  OwnInv'
  <2>1. took' \in 0 .. MaxTaken
    BY <1>0, <1>2
  <2>2. topic_of' \in [Numbers -> RTopics \union {"none"}]
    BY <1>2 DEF OwnInv, RetainedTypeOK
  <2> QED BY <1>2, <2>1, <2>2, OwnBegins
<1>3. CASE ReleaseRetained(t)
  <2>1. PICK topic \in RTopics :
          Begin(t, [NoRetainTask EXCEPT !.op = "release", !.topic = topic, !.at = "open"])
    BY <1>3 DEF ReleaseRetained
  <2> DEFINE r == [NoRetainTask EXCEPT !.op = "release", !.topic = topic, !.at = "open"]
  <2>2. r \in TypeOfTask /\ r.at = "open" /\ r.topic \in RTopics /\ r.op # "set"
    BY DEF TypeOfTask, NoRetainTask
  <2>3. Begin(t, r)
    BY <2>1
  <2> HIDE DEF r
  <2> QED BY <1>2, <1>3, <2>2, <2>3 DEF ReleaseRetained
<1>4. CASE Subscribe(t)
  <2>1. PICK wild \in BOOLEAN, topic \in RTopics :
          Begin(t, [NoRetainTask EXCEPT !.op = "recover", !.at = IF wild THEN "list" ELSE "open",
                                        !.topic = IF wild THEN "none" ELSE topic])
    BY <1>4 DEF Subscribe
  <2> DEFINE r == [NoRetainTask EXCEPT !.op = "recover", !.at = IF wild THEN "list" ELSE "open",
                                       !.topic = IF wild THEN "none" ELSE topic]
  <2>2. r \in TypeOfTask /\ r.at \in {"open", "list"} /\ (r.topic \in RTopics \/ r.at = "list")
        /\ r.op = "recover"
    BY DEF TypeOfTask, NoRetainTask
  <2>3. Begin(t, r)
    BY <2>1
  <2> HIDE DEF r
  <2> QED BY <1>2, <1>4, <2>2, <2>3 DEF Subscribe
<1> QED BY <1>1, <1>3, <1>4

LEMMA OwnStep ==
  ASSUME OwnInv, NEW t \in RetainTasks, RetainedStep(t), ~ReadMessage(t)
  PROVE  OwnInv'
<1>0. /\ RetainedTypeOK /\ TakesItsOwn(task[t], topic_of)
      /\ \A m \in Numbers : topic_of[m] = "none" => name_file[m] = "no" /\ msg_file[m] = "no"
      /\ hash_dir \in {"no", "made"} /\ consumed \in BOOLEAN /\ overlapped \in BOOLEAN
      /\ cut \subseteq Numbers /\ \A m \in cut : topic_of[m] # "none"
      /\ {name_file, msg_file} \subseteq [Numbers -> {"no", "part", "whole"}]
      /\ expected \in [RTopics -> Numbers \union {0}]
      /\ task[t] \in TypeOfTask
  BY DEF OwnInv, RetainedTypeOK
<1>1. CASE TestDir(t)
  <2>1. task[t].at = "test" /\ \E at \in {"mkdir", "create"} : Proceed(t, at)
    BY <1>1 DEF TestDir
  <2>2. TakesItsOwn(task'[t], topic_of')
    BY <1>0, <1>1, <2>1, ProceedIs DEF TestDir, TakesItsOwn
  <2> QED BY <1>0, <1>1, <2>1, <2>2, ProceedIs, OwnStays DEF TestDir, files, retainHistory
<1>2. CASE MakeDir(t)
  <2>1. CASE Proceed(t, "create")
    <3>1. TakesItsOwn(task'[t], topic_of')
      BY <1>0, <1>2, <2>1, ProceedIs DEF MakeDir, TakesItsOwn
    <3> QED BY <1>0, <1>2, <2>1, <3>1, ProceedIs, OwnStays DEF MakeDir, retainHistory
  <2>2. CASE EndCall(t)
    BY <1>0, <1>2, <2>2, EndCallIs, OwnStays DEF MakeDir, retainHistory
  <2> QED BY <1>2, <2>1, <2>2 DEF MakeDir
<1>3. CASE ListTopics(t)
  <2> DEFINE left == {topic_of[m] : m \in {k \in Numbers : name_file[k] = "whole"}}
  <2>1. left \in SUBSET RTopics
    BY DEF OwnInv, RetainedTypeOK
  <2>2. NextTopic(t, left, task[t])
    BY <1>3 DEF ListTopics
  <2> HIDE DEF left
  <2>3. TakesItsOwn(task'[t], topic_of')
    BY <1>0, <1>3, <2>1, <2>2, NextTopicIs DEF ListTopics, TakesItsOwn, NoRetainTask
  <2> QED BY <1>0, <1>3, <2>1, <2>2, <2>3, NextTopicIs, OwnStays DEF ListTopics, files, retainHistory
<1>4. CASE OpenDir(t)
  <2>1. CASE NotFound(t)
    <3>1. TakesItsOwn(task'[t], topic_of')
      BY <1>0, <1>4, <2>1, NotFoundIs DEF OpenDir, TakesItsOwn, NoRetainTask, TypeOfTask, retainHistory
    <3> QED BY <1>0, <1>4, <2>1, <3>1, NotFoundIs, OwnStays DEF OpenDir, files, retainHistory
  <2>2. CASE task' = [task EXCEPT ![t].at = "scan", ![t].entries = Entries]
    <3> DEFINE r == [task[t] EXCEPT !.at = "scan", !.entries = Entries]
    <3>1. r \in TypeOfTask /\ r.at = "scan" /\ r.op = task[t].op /\ r.topic = task[t].topic
          /\ r.file = task[t].file
      BY <1>0 DEF TypeOfTask, Entries
    <3>2. task' = [task EXCEPT ![t] = r]
      BY <2>2
    <3> HIDE DEF r
    <3>3. TakesItsOwn(task'[t], topic_of')
      BY <1>0, <1>4, <3>1, <3>2, TaskTypes DEF OpenDir, TakesItsOwn
    <3> QED BY <1>0, <1>4, <3>1, <3>2, <3>3, TaskTypes, OwnStays DEF OpenDir, files, retainHistory
  <2> QED BY <1>4, <2>1, <2>2 DEF OpenDir
<1>5. CASE ScanEntry(t)
  <2>1. CASE NotFound(t) /\ UNCHANGED expected
    <3>1. TakesItsOwn(task'[t], topic_of')
      BY <1>0, <1>5, <2>1, NotFoundIs DEF ScanEntry, TakesItsOwn, NoRetainTask, TypeOfTask
    <3> QED BY <1>0, <1>5, <2>1, <3>1, NotFoundIs, OwnStays DEF ScanEntry, files
  <2>2. CASE Proceed(t, "stuck") /\ UNCHANGED expected
    <3>1. TakesItsOwn(task'[t], topic_of')
      BY <1>0, <1>5, <2>2, ProceedIs DEF ScanEntry, TakesItsOwn
    <3> QED BY <1>0, <1>5, <2>2, <3>1, ProceedIs, OwnStays DEF ScanEntry, files
  <2>3. ASSUME NEW m \in Numbers, task' = [task EXCEPT ![t].entries = @ \ {m}], UNCHANGED expected
        PROVE  OwnInv'
    <3> DEFINE r == [task[t] EXCEPT !.entries = @ \ {m}]
    <3>1. r \in TypeOfTask /\ r.at = task[t].at /\ r.op = task[t].op /\ r.topic = task[t].topic
          /\ r.file = task[t].file
      BY <1>0 DEF TypeOfTask
    <3>2. task' = [task EXCEPT ![t] = r]
      BY <2>3
    <3> HIDE DEF r
    <3>3. TakesItsOwn(task'[t], topic_of')
      BY <1>0, <1>5, <3>1, <3>2, TaskTypes DEF ScanEntry, TakesItsOwn
    <3>4. UNCHANGED <<files, topic_of, recovered, took, kills, overlapped, cut, expected>>
      BY <1>5, <2>3 DEF ScanEntry
    <3>5. \A u \in RetainTasks : u # t => task'[u] = task[u]
      BY <3>2, TaskTypes
    <3>6. task' \in [RetainTasks -> TypeOfTask]
      BY <1>0, <3>1, <3>2, TaskTypes
    <3>7. consumed' = consumed /\ task[t].at = "scan"
      BY <1>5 DEF ScanEntry
    <3> QED BY <1>0, <3>3, <3>4, <3>5, <3>6, <3>7, OwnStays DEF files, OwnInv, RetainedTypeOK
  <2>4. ASSUME NEW m \in Numbers, HasTopic(m, task[t].topic),
               task' = [task EXCEPT ![t].at = "unlink", ![t].entries = {m}],
               expected' = IF task[t].op = "recover" THEN expected
                           ELSE [expected EXCEPT ![task[t].topic] = 0]
        PROVE  OwnInv'
    <3> DEFINE r == [task[t] EXCEPT !.at = "unlink", !.entries = {m}]
    <3>1. r \in TypeOfTask /\ r.at = "unlink" /\ r.op = task[t].op /\ r.topic = task[t].topic
          /\ r.file = task[t].file /\ r.entries = {m}
      BY <1>0 DEF TypeOfTask
    <3>2. task' = [task EXCEPT ![t] = r]
      BY <2>4
    <3> HIDE DEF r
    <3>3. TakesItsOwn(task'[t], topic_of')
      <4>1. task'[t] = r /\ topic_of' = topic_of /\ topic_of[m] = r.topic /\ task[t].at = "scan"
        BY <1>0, <1>5, <2>4, <3>1, <3>2, TaskTypes DEF ScanEntry, HasTopic
      <4>2. \E k \in Numbers : r.entries = {k} /\ topic_of[k] = r.topic
        BY <3>1, <4>1
      <4> QED BY <1>0, <3>1, <4>1, <4>2 DEF TakesItsOwn
    <3>4. expected' \in [RTopics -> Numbers \union {0}]
      BY <1>0, <2>4
    <3> QED BY <1>0, <1>5, <3>1, <3>2, <3>3, <3>4, TaskTypes, OwnStays DEF ScanEntry, files
  <2>5. task[t].entries \in SUBSET Numbers
    BY <1>0 DEF TypeOfTask
  <2> QED BY <1>5, <2>1, <2>2, <2>3, <2>4, <2>5 DEF ScanEntry
<1>6. CASE UnlinkName(t)
  <2>1. task[t].at = "unlink" /\ \E at \in {"read", "unlink_msg"} :
           Proceed(t, at) /\ (at = "read" => task[t].op = "recover")
    BY <1>6 DEF UnlinkName
  <2>2. TakesItsOwn(task'[t], topic_of')
    BY <1>0, <1>6, <2>1, ProceedIs DEF UnlinkName, TakesItsOwn
  <2>3. Found(t) \in Numbers
    BY <2>1, FoundIs
  <2>4. name_file' \in [Numbers -> {"no", "part", "whole"}] /\ msg_file' = msg_file
    BY <1>0, <1>6, <2>3 DEF UnlinkName
  <2>5. \A m \in Numbers : topic_of'[m] = "none" => name_file'[m] = "no" /\ msg_file'[m] = "no"
    BY <1>0, <1>6, <2>3 DEF UnlinkName
  <2> QED BY <1>0, <1>6, <2>1, <2>2, <2>4, <2>5, ProceedIs, OwnStays DEF UnlinkName, retainHistory
<1>8. CASE UnlinkMessage(t)
  <2>1. task[t].at = "unlink_msg" /\ NotFound(t)
    BY <1>8 DEF UnlinkMessage
  <2>2. TakesItsOwn(task'[t], topic_of')
    BY <1>0, <1>8, <2>1, NotFoundIs DEF UnlinkMessage, TakesItsOwn, NoRetainTask, TypeOfTask
  <2>3. Found(t) \in Numbers
    BY <2>1, FoundIs
  <2>4. msg_file' \in [Numbers -> {"no", "part", "whole"}] /\ name_file' = name_file
    BY <1>0, <1>8, <2>3 DEF UnlinkMessage
  <2>5. \A m \in Numbers : topic_of'[m] = "none" => name_file'[m] = "no" /\ msg_file'[m] = "no"
    BY <1>0, <1>8, <2>3 DEF UnlinkMessage
  <2> QED BY <1>0, <1>8, <2>1, <2>2, <2>4, <2>5, NotFoundIs, OwnStays DEF UnlinkMessage, retainHistory
<1>9. ASSUME task[t].at \in {"create", "write", "create_msg", "write_msg"}
      PROVE  task[t].file \in Numbers /\ task[t].topic \in RTopics
             /\ topic_of[task[t].file] = task[t].topic /\ task[t].op = "set"
  BY <1>0, <1>9 DEF TakesItsOwn
<1>10. CASE CreateName(t)
  <2>1. /\ name_file' \in [Numbers -> {"no", "part", "whole"}]
        /\ \A m \in Numbers : topic_of'[m] = "none" => name_file'[m] = "no" /\ msg_file'[m] = "no"
    BY <1>0, <1>9, <1>10 DEF CreateName
  <2>2. CASE Proceed(t, "write")
    <3>1. TakesItsOwn(task'[t], topic_of')
      BY <1>0, <1>10, <2>2, ProceedIs DEF CreateName, TakesItsOwn
    <3> QED BY <1>0, <1>10, <2>1, <2>2, <3>1, ProceedIs, OwnStays DEF CreateName, retainHistory
  <2>3. CASE EndCall(t)
    BY <1>0, <1>10, <2>1, <2>3, EndCallIs, OwnStays DEF CreateName, retainHistory
  <2> QED BY <1>10, <2>2, <2>3 DEF CreateName
<1>11. CASE WriteName(t)
  <2>1. /\ name_file' \in [Numbers -> {"no", "part", "whole"}]
        /\ \A m \in Numbers : topic_of'[m] = "none" => name_file'[m] = "no" /\ msg_file'[m] = "no"
    BY <1>0, <1>9, <1>11 DEF WriteName
  <2>2. /\ cut \subseteq cut' /\ cut' \subseteq Numbers /\ \A m \in cut' : topic_of[m] # "none"
    BY <1>0, <1>9, <1>11 DEF WriteName
  <2>3. CASE Proceed(t, "create_msg")
    <3>1. TakesItsOwn(task'[t], topic_of')
      BY <1>0, <1>11, <2>3, ProceedIs DEF WriteName, TakesItsOwn
    <3> QED BY <1>0, <1>11, <2>1, <2>2, <2>3, <3>1, ProceedIs, OwnStays DEF WriteName
  <2>4. CASE EndCall(t)
    BY <1>0, <1>11, <2>1, <2>2, <2>4, EndCallIs, OwnStays DEF WriteName
  <2> QED BY <1>11, <2>3, <2>4 DEF WriteName
<1>12. ASSUME EndFreeingTwice(t), cut' = cut \union {task[t].file}, task[t].at \in {"create_msg", "write_msg"},
              UNCHANGED <<files, topic_of, recovered, took, kills, expected, consumed>>
       PROVE  OwnInv'
  <2>1. /\ cut \subseteq cut' /\ cut' \subseteq Numbers /\ \A m \in cut' : topic_of[m] # "none"
    BY <1>0, <1>9, <1>12
  <2>2. \A m \in Numbers : topic_of'[m] = "none" => name_file'[m] = "no" /\ msg_file'[m] = "no"
    BY <1>0, <1>12 DEF files
  <2>3. CASE EndCall(t) /\ UNCHANGED overlapped
    BY <1>0, <1>12, <2>1, <2>2, <2>3, EndCallIs, OwnStays DEF files
  <2>4. CASE task' = [u \in RetainTasks |-> NoRetainTask] /\ overlapped' = TRUE
    <3>1. /\ task' \in [RetainTasks -> TypeOfTask] /\ TakesItsOwn(task'[t], topic_of')
          /\ \A u \in RetainTasks : task'[u] = NoRetainTask
      BY <2>4, NoTaskType DEF TakesItsOwn, NoRetainTask
    <3> QED BY <1>0, <1>12, <2>1, <2>2, <2>4, <3>1, OwnStays DEF files
  <2> QED BY <1>12, <2>3, <2>4 DEF EndFreeingTwice
<1>13. CASE CreateMessage(t)
  <2>1. CASE EndFreeingTwice(t) /\ cut' = cut \union {task[t].file} /\ UNCHANGED msg_file
    BY <1>12, <1>13, <2>1 DEF CreateMessage, files
  <2>2. CASE /\ Proceed(t, "write_msg") /\ UNCHANGED <<cut, overlapped>>
             /\ msg_file' = [msg_file EXCEPT ![task[t].file] = "part"]
    <3>1. /\ msg_file' \in [Numbers -> {"no", "part", "whole"}]
          /\ \A m \in Numbers : topic_of'[m] = "none" => name_file'[m] = "no" /\ msg_file'[m] = "no"
      BY <1>0, <1>9, <1>13, <2>2 DEF CreateMessage
    <3>2. TakesItsOwn(task'[t], topic_of')
      BY <1>0, <1>13, <2>2, ProceedIs DEF CreateMessage, TakesItsOwn
    <3> QED BY <1>0, <1>13, <2>2, <3>1, <3>2, ProceedIs, OwnStays DEF CreateMessage
  <2> QED BY <1>13, <2>1, <2>2 DEF CreateMessage
<1>14. CASE WriteMessage(t)
  <2>1. CASE EndFreeingTwice(t) /\ cut' = cut \union {task[t].file} /\ UNCHANGED <<msg_file, expected>>
    BY <1>12, <1>14, <2>1 DEF WriteMessage, files
  <2>2. CASE /\ EndCall(t) /\ UNCHANGED <<cut, overlapped>>
             /\ msg_file' = [msg_file EXCEPT ![task[t].file] = IF @ = "part" THEN "whole" ELSE @]
             /\ expected' = [expected EXCEPT ![task[t].topic] =
                                IF task[t].file \in cut THEN @ ELSE task[t].file]
    <3>1. /\ msg_file' \in [Numbers -> {"no", "part", "whole"}]
          /\ \A m \in Numbers : topic_of'[m] = "none" => name_file'[m] = "no" /\ msg_file'[m] = "no"
      BY <1>0, <1>9, <1>14, <2>2 DEF WriteMessage
    <3>2. expected' \in [RTopics -> Numbers \union {0}]
      BY <1>0, <1>9, <1>14, <2>2 DEF WriteMessage
    <3> QED BY <1>0, <1>14, <2>2, <3>1, <3>2, EndCallIs, OwnStays DEF WriteMessage
  <2> QED BY <1>14, <2>1, <2>2 DEF WriteMessage
<1> QED BY <1>1, <1>2, <1>3, <1>4, <1>5, <1>6, <1>8, <1>10, <1>11, <1>13, <1>14 DEF RetainedStep

LEMMA OwnRead ==
  ASSUME RetainedInv, NEW t \in RetainTasks, ReadMessage(t)
  PROVE  OwnInv'
<1> DEFINE m == Found(t)
           topic == task[t].topic
<1>0. /\ RetainedTypeOK /\ RecoveredIsOwn /\ \A u \in RetainTasks : TakesItsOwn(task[u], topic_of)
      /\ \A k \in Numbers : topic_of[k] = "none" => name_file[k] = "no" /\ msg_file[k] = "no" /\ k \notin cut
      /\ OwnInv
  BY DEF RetainedInv, OwnInv
<1>1. m \in Numbers /\ task[t].entries = {m} /\ topic_of[m] = topic /\ topic \in RTopics
  BY <1>0, FoundIs DEF ReadMessage
<1>2. /\ task[t].at = "read" /\ Proceed(t, "unlink_msg") /\ consumed' = TRUE
      /\ recovered' \in {recovered \union {<<topic, m>>}, recovered \union {<<topic, 0>>}, recovered}
      /\ UNCHANGED <<files, topic_of, took, kills, cut, expected, overlapped>>
  <2>1. msg_file[m] \in {"no", "part", "whole"}
    BY <1>0, <1>1 DEF RetainedTypeOK
  <2> HIDE DEF m
  <2> QED BY <2>1 DEF ReadMessage, m
<1>3. recovered' = recovered \union {<<topic, 0>>} => overlapped \/ m \in cut \/ <<topic, 0>> \in recovered
  <2>1. SUFFICES ASSUME ~overlapped, m \notin cut PROVE recovered' \in {recovered \union {<<topic, m>>}, recovered}
    BY <1>2, <1>1 DEF Numbers
  <2>2. AloneInv(t)
    BY <1>2, <2>1 DEF RetainedInv, Undisturbed, BusyTasks
  <2>3. msg_file[m] = "whole"
    BY <1>2, <1>1, <2>1, <2>2 DEF AloneInv
  <2> QED BY <2>3 DEF ReadMessage
<1> HIDE DEF m, topic
<1>4. RetainedTypeOK'
  <2>1. recovered' \subseteq RTopics \X (Numbers \union {0})
    BY <1>0, <1>1, <1>2 DEF RetainedTypeOK
  <2> QED BY <1>0, <1>2, <2>1, ProceedIs DEF RetainedTypeOK, files
<1>5. RecoveredIsOwn'
  <2>1. ASSUME NEW x \in recovered'
        PROVE  IF x[2] = 0 THEN overlapped \/ \E k \in cut : topic_of[k] = x[1]
               ELSE topic_of[x[2]] = x[1]
    <3>1. CASE x \in recovered
      BY <1>0, <3>1 DEF RecoveredIsOwn
    <3>2. CASE x = <<topic, m>>
      BY <1>1, <3>2 DEF Numbers
    <3>3. CASE x = <<topic, 0>> /\ x \notin recovered
      BY <1>1, <1>2, <1>3, <3>3 DEF Numbers
    <3> QED BY <1>2, <2>1, <3>1, <3>2, <3>3
  <2> QED BY <1>2, <2>1 DEF RecoveredIsOwn
<1>6. ASSUME NEW u \in RetainTasks PROVE TakesItsOwn(task'[u], topic_of')
  BY <1>0, <1>2, ProceedIs DEF TakesItsOwn
<1> QED BY <1>0, <1>2, <1>4, <1>5, <1>6 DEF OwnInv, files

LEMMA KillKeeps ==
  ASSUME RetainedInv, Kill
  PROVE  RetainedInv'
<1>0. /\ RetainedTypeOK /\ RecoveredIsOwn /\ OwnInv
      /\ \A m \in Numbers : topic_of[m] = "none" => name_file[m] = "no" /\ msg_file[m] = "no" /\ m \notin cut
  BY DEF RetainedInv, OwnInv
<1>1. RetainedTypeOK'
  <2>1. kills' \in 0 .. MaxKills
    BY <1>0 DEF RetainedTypeOK, Kill
  <2>2. task' \in [RetainTasks -> TypeOfTask]
    BY NoTaskType DEF Kill
  <2> QED BY <1>0, <2>1, <2>2 DEF RetainedTypeOK, Kill, files
<1>2. RecoveredIsOwn'
  BY <1>0 DEF RecoveredIsOwn, Kill
<1>3. \A t \in RetainTasks : task'[t] = NoRetainTask
  BY DEF Kill
<1>4. OwnInv'
  BY <1>0, <1>1, <1>2, <1>3 DEF OwnInv, Kill, files, TakesItsOwn, NoRetainTask
<1>5. ASSUME ~overlapped' PROVE Undisturbed'
  <2>1. BusyTasks = {} /\ BusyTasks' = {} /\ ~overlapped /\ Undisturbed
    BY <1>3, <1>5 DEF BusyTasks, NoRetainTask, Kill, RetainedInv
  <2> QED BY <2>1 DEF Undisturbed, Kill, files, Held, Kept, Paired
<1> QED BY <1>4, <1>5 DEF RetainedInv

\* A call that begins alone.
LEMMA UndisturbedBegins ==
  ASSUME RetainedInv, NEW t \in RetainTasks,
         SetRetained(t) \/ ReleaseRetained(t) \/ Subscribe(t), ~overlapped'
  PROVE  Undisturbed'
<1>0. OwnInv /\ RetainedTypeOK
  BY DEF RetainedInv, OwnInv
<1>1. PICK r : /\ Begin(t, r) /\ r.at \in {"test", "open", "list"}
               /\ r.op \in {"release", "set"} => r.left = {}
               /\ r.at = "list" => r.topic = "none"
               /\ r.at = "test" => hash_dir = "no"
               /\ r.op = "set" => r.file \in Numbers /\ topic_of[r.file] = "none"
                                  /\ (r.at = "open" => hash_dir # "no")
               /\ r.at = "test" => r.op = "set"
  <2>1. CASE SetRetained(t)
    <3>1. PICK topic \in RTopics, m \in Numbers :
            /\ topic_of[m] = "none"
            /\ Begin(t, [NoRetainTask EXCEPT !.op = "set", !.topic = topic, !.file = m,
                                             !.at = IF hash_dir = "no" THEN "test" ELSE "open"])
      BY <2>1 DEF SetRetained
    <3> DEFINE r == [NoRetainTask EXCEPT !.op = "set", !.topic = topic, !.file = m,
                                         !.at = IF hash_dir = "no" THEN "test" ELSE "open"]
    <3>2. r.op = "set" /\ r.file = m /\ r.at = (IF hash_dir = "no" THEN "test" ELSE "open")
          /\ r.left = {}
      BY DEF NoRetainTask
    <3>3. Begin(t, r)
      BY <3>1
    <3> HIDE DEF r
    <3> QED BY <3>1, <3>2, <3>3
  <2>2. CASE ReleaseRetained(t)
    <3>1. PICK topic \in RTopics :
            Begin(t, [NoRetainTask EXCEPT !.op = "release", !.topic = topic, !.at = "open"])
      BY <2>2 DEF ReleaseRetained
    <3> DEFINE r == [NoRetainTask EXCEPT !.op = "release", !.topic = topic, !.at = "open"]
    <3>2. r.op = "release" /\ r.at = "open" /\ r.left = {}
      BY DEF NoRetainTask
    <3>3. Begin(t, r)
      BY <3>1
    <3> HIDE DEF r
    <3> QED BY <3>2, <3>3
  <2>3. CASE Subscribe(t)
    <3>1. PICK wild \in BOOLEAN, topic \in RTopics :
            Begin(t, [NoRetainTask EXCEPT !.op = "recover", !.at = IF wild THEN "list" ELSE "open",
                                          !.topic = IF wild THEN "none" ELSE topic])
      BY <2>3 DEF Subscribe
    <3> DEFINE r == [NoRetainTask EXCEPT !.op = "recover", !.at = IF wild THEN "list" ELSE "open",
                                         !.topic = IF wild THEN "none" ELSE topic]
    <3>2. r.op = "recover" /\ r.at = (IF wild THEN "list" ELSE "open")
          /\ r.topic = (IF wild THEN "none" ELSE topic)
      BY DEF NoRetainTask
    <3>3. Begin(t, r)
      BY <3>1
    <3> HIDE DEF r
    <3> QED BY <3>2, <3>3
  <2> QED BY <2>1, <2>2, <2>3
<1>2. /\ UNCHANGED <<files, cut, expected, consumed>>
      /\ \A m \in Numbers : topic_of[m] # "none" => topic_of'[m] = topic_of[m]
  BY <1>0 DEF SetRetained, ReleaseRetained, Subscribe, RetainedTypeOK
<1>3. /\ ~overlapped /\ Undisturbed /\ task'[t] = r /\ BusyTasks' = {t}
      /\ \A topic \in RTopics : Held(topic)
      /\ \A m \in Numbers : Paired(m)
  BY <1>1, FirstCall
<1>4. \A topic \in RTopics : Kept(topic)' = Kept(topic)
  BY <1>0, <1>2 DEF Kept, OwnInv, files
<1>5. (\A topic \in RTopics : Held(topic)') /\ \A m \in Numbers : Paired(m)'
  BY <1>2, <1>3, <1>4 DEF Held, Paired, files
<1>6. OwnInv'
  BY <1>0, OwnBegun
<1>7. TakesItsOwn(r, topic_of') /\ \A m \in Numbers : topic_of[m] = "none" => name_file[m] = "no"
  BY <1>0, <1>3, <1>6 DEF OwnInv
<1>8. /\ r.at \in {"test", "open"} => Held(r.topic)'
      /\ r.at = "open" => Fresh(t)'
      /\ Touched(t)' = {}
  <2>1. hash_dir \in {"no", "made"}
    BY <1>0 DEF RetainedTypeOK
  <2>2. r.at \in {"test", "open"} => Held(r.topic)'
    BY <1>5, <1>7 DEF TakesItsOwn
  <2>3. r.at = "open" => Fresh(t)'
    BY <1>1, <1>2, <1>3, <1>7, <2>1 DEF Fresh, files
  <2>4. Touched(t)' = {}
    BY <1>1, <1>3 DEF Touched
  <2> QED BY <2>2, <2>3, <2>4
<1>9. AloneInv(t)'
  BY <1>1, <1>2, <1>3, <1>5, <1>7, <1>8 DEF AloneInv, files, TakesItsOwn
<1> QED BY <1>2, <1>3, <1>9 DEF Undisturbed, files

\* What a call that runs alone knows, with what holds whoever runs.
LEMMA AloneKnows ==
  ASSUME RetainedInv, NEW t \in RetainTasks, RetainedStep(t), ~overlapped'
  PROVE  /\ ~overlapped /\ Undisturbed /\ AloneInv(t) /\ task[t].at # "idle"
         /\ RetainedTypeOK /\ TakesItsOwn(task[t], topic_of) /\ task[t] \in TypeOfTask
         /\ UNCHANGED topic_of
         /\ hash_dir = "no" => \A m \in Numbers : name_file[m] = "no"
         /\ \A m \in Numbers : topic_of[m] = "none" => name_file[m] = "no" /\ msg_file[m] = "no"
<1> USE DEF RetainedStep, TestDir, MakeDir, ListTopics, OpenDir, ScanEntry, UnlinkName,
            ReadMessage, UnlinkMessage, CreateName, WriteName, CreateMessage, WriteMessage
<1>1. ~overlapped /\ task[t].at # "idle" /\ UNCHANGED topic_of
  <2>1. CASE CreateMessage(t) \/ WriteMessage(t)
    BY <2>1 DEF EndFreeingTwice
  <2>2. CASE ~(CreateMessage(t) \/ WriteMessage(t))
    BY <2>2 DEF retainHistory
  <2> QED BY <2>1, <2>2
<1>2. Undisturbed /\ OwnInv
  BY <1>1 DEF RetainedInv
<1>3. AloneInv(t)
  BY <1>1, <1>2 DEF Undisturbed, BusyTasks
<1>4. RetainedTypeOK /\ TakesItsOwn(task[t], topic_of) /\ task[t] \in TypeOfTask
  BY <1>2 DEF OwnInv, RetainedTypeOK
<1>5. \A m \in Numbers : topic_of[m] = "none" => name_file[m] = "no" /\ msg_file[m] = "no"
  BY <1>2 DEF OwnInv
<1>6. hash_dir = "no" => \A m \in Numbers : name_file[m] = "no"
  BY <1>2 DEF Undisturbed
<1> QED BY <1>1, <1>2, <1>3, <1>4, <1>5, <1>6

\* While no file changes, nor what is expected, what is retained stays.
LEMMA HeldStay ==
  ASSUME UNCHANGED <<name_file, msg_file, topic_of, cut, expected>>, consumed => consumed', NEW topic
  PROVE  (Held(topic) => Held(topic)') /\ Kept(topic)' = Kept(topic)
BY DEF Held, Kept

\* A file that could not be made or written: what is kept for its topic is no message stored,
\* and the other topics are as before.
LEMMA CutHeld ==
  ASSUME NEW f \in Numbers, NEW topic \in RTopics, topic_of[f] = topic, Kept(topic)' \subseteq {f},
         consumed \/ expected[topic] = 0, cut' = cut \union {f},
         UNCHANGED <<topic_of, expected, consumed>>,
         \A x \in RTopics : x # topic => Held(x),
         \A m \in Numbers : m # f => /\ Paired(m)
                                     /\ name_file'[m] = name_file[m] /\ msg_file'[m] = msg_file[m]
  PROVE  /\ \A x \in RTopics : Held(x)'
         /\ \A x \in RTopics : x # topic => Kept(x)' = Kept(x)
         /\ \A m \in Numbers : Paired(m)'
<1>1. Held(topic)'
  BY DEF Held
<1>2. ASSUME NEW x \in RTopics, x # topic PROVE Held(x)' /\ Kept(x)' = Kept(x)
  <2>1. Kept(x)' = Kept(x) /\ f \notin Kept(x)
    BY <1>2 DEF Kept
  <2>2. Kept(x)' \ cut' = Kept(x) \ cut
    BY <2>1
  <2> QED BY <1>2, <2>1, <2>2 DEF Held
<1>3. \A m \in Numbers : Paired(m)'
  BY DEF Paired
<1> QED BY <1>1, <1>2, <1>3

\* The search comes to its end without what it was for.
LEMMA NotFoundUndisturbed ==
  ASSUME RetainedTypeOK, NEW t \in RetainTasks, NotFound(t), TakesItsOwn(task[t], topic_of),
         NEW topic, topic = task[t].topic,
         task[t].op \in {"set", "release"} => task[t].left = {},
         task[t].op = "set" => /\ name_file'[task[t].file] = "no" /\ hash_dir' = "made"
                               /\ Kept(topic)' = {}
                               /\ consumed' \/ expected'[topic] = 0,
         \A x \in RTopics : x # topic \/ task[t].op # "set" => Held(x)',
         \A m \in Numbers : Paired(m)'
  PROVE  /\ \A u \in RetainTasks : u # t => task'[u] = task[u]
         /\ task'[t].at # "idle" => AloneInv(t)'
         /\ task'[t].at = "idle" => \A x \in RTopics : Held(x)'
<1>1. CASE task[t].op = "set"
  <2>1. /\ task'[t].op = "set" /\ task'[t].at = "create" /\ task'[t].topic = task[t].topic
        /\ task'[t].left = task[t].left /\ task'[t].file = task[t].file
        /\ \A u \in RetainTasks : u # t => task'[u] = task[u]
    BY <1>1, NotFoundIs
  <2>2. AloneInv(t)'
    BY <1>1, <2>1 DEF AloneInv, Fresh
  <2> QED BY <2>1, <2>2
<1>2. CASE task[t].op # "set"
  <2>1. \A x \in RTopics : Held(x)'
    BY <1>2
  <2>2. /\ \A u \in RetainTasks : u # t => task'[u] = task[u]
        /\ \/ task'[t] = NoRetainTask
           \/ /\ task'[t].op = task[t].op /\ task'[t].at = "open" /\ task'[t].topic \in RTopics
              /\ task'[t].left \subseteq task[t].left /\ task'[t].file = 0
    BY <1>2, NotFoundIs DEF RetainedTypeOK, TypeOfTask
  <2>3. CASE task'[t] = NoRetainTask
    BY <2>1, <2>2, <2>3 DEF NoRetainTask
  <2>4. CASE task'[t] # NoRetainTask
    <3>1. AloneInv(t)'
      BY <1>2, <2>1, <2>2, <2>4 DEF AloneInv, Fresh
    <3> QED BY <2>2, <2>4, <3>1
  <2> QED BY <2>3, <2>4
<1> QED BY <1>1, <1>2

LEMMA UndisturbedStep ==
  ASSUME RetainedInv, NEW t \in RetainTasks, RetainedStep(t), ~overlapped'
  PROVE  Undisturbed'
<1>t. PICK topic : topic = task[t].topic
  OBVIOUS
<1>f. PICK f : f = task[t].file
  OBVIOUS
<1>0. /\ ~overlapped /\ Undisturbed /\ AloneInv(t) /\ task[t].at # "idle"
      /\ RetainedTypeOK /\ TakesItsOwn(task[t], topic_of) /\ task[t] \in TypeOfTask
      /\ UNCHANGED topic_of
      /\ hash_dir = "no" => \A m \in Numbers : name_file[m] = "no"
      /\ \A m \in Numbers : topic_of[m] = "none" => name_file[m] = "no" /\ msg_file[m] = "no"
  BY AloneKnows
<1>a. hash_dir \in {"no", "made"}
      /\ {name_file, msg_file} \subseteq [Numbers -> {"no", "part", "whole"}]
  BY <1>0, <1>t, <1>f DEF RetainedTypeOK
<1>1. CASE TestDir(t)
  <2>1. Proceed(t, "mkdir") /\ task[t].at = "test" /\ hash_dir = "no"
    BY <1>0, <1>t, <1>f, <1>1 DEF TestDir, AloneInv
  <2>2. UNCHANGED <<files, cut, expected, consumed>>
    BY <1>1 DEF TestDir, retainHistory
  <2>3. AloneInv(t)'
    BY <1>0, <1>t, <1>f, <2>1, <2>2, ProceedIs, HeldStay DEF AloneInv, Touched, Paired, files
  <2> QED BY <1>0, <1>t, <1>f, <2>1, <2>2, <2>3, OneCall, ProceedIs DEF files
<1>2. CASE MakeDir(t)
  <2>1. /\ task[t].at = "mkdir" /\ hash_dir = "no" /\ Held(topic)
        /\ UNCHANGED <<name_file, msg_file, cut, expected, consumed>>
    BY <1>0, <1>t, <1>f, <1>2 DEF MakeDir, AloneInv, retainHistory
  <2>2. topic \in RTopics /\ task[t].op = "set" /\ f \in Numbers
    BY <1>0, <1>t, <1>f, <2>1 DEF TakesItsOwn
  <2>3. /\ \A x \in RTopics : Kept(x) = {} /\ Kept(x)' = {} /\ Held(x)'
        /\ \A m \in Numbers : Paired(m)'
    <3>1. \A x \in RTopics : Kept(x) = {} /\ Kept(x)' = {}
      BY <1>0, <2>1 DEF Kept
    <3> QED BY <1>0, <1>t, <1>f, <2>1, <3>1, HeldStay DEF AloneInv, Touched, Paired
  <2>4. CASE hash_dir' = "made" /\ Proceed(t, "create")
    <3>1. consumed \/ expected[topic] = 0
      BY <2>1, <2>2, <2>3 DEF Held
    <3>2. AloneInv(t)'
      BY <1>0, <1>t, <1>f, <2>1, <2>2, <2>3, <2>4, <3>1, ProceedIs DEF AloneInv, Fresh
    <3> QED BY <1>0, <2>1, <2>4, <3>2, OneCall, ProceedIs
  <2>5. CASE UNCHANGED hash_dir /\ EndCall(t)
    BY <1>0, <2>1, <2>3, <2>5, OneCall, EndCallIs
  <2> QED BY <1>2, <2>4, <2>5 DEF MakeDir
<1>3. CASE ListTopics(t)
  <2> DEFINE left == {topic_of[m] : m \in {k \in Numbers : name_file[k] = "whole"}}
  <2>1. left \in SUBSET RTopics /\ task[t].at = "list" /\ task[t].op = "recover"
        /\ NextTopic(t, left, task[t])
    BY <1>0, <1>t, <1>f, <1>3 DEF RetainedTypeOK, ListTopics, TakesItsOwn
  <2> HIDE DEF left
  <2>2. UNCHANGED <<files, cut, expected, consumed>>
    BY <1>3 DEF ListTopics, retainHistory
  <2>3. /\ \A x \in RTopics : Held(x)'
        /\ \A m \in Numbers : Paired(m)'
    BY <1>0, <1>t, <1>f, <2>1, <2>2, HeldStay DEF AloneInv, Touched, Paired, files
  <2>4. task'[t].at # "idle" => AloneInv(t)'
    BY <1>0, <1>t, <1>f, <2>1, <2>3, NextTopicIs DEF AloneInv, Fresh, NoRetainTask
  <2>5. \A u \in RetainTasks : u # t => task'[u] = task[u]
    BY <1>0, <2>1, NextTopicIs
  <2>6. hash_dir' = "no" => \A m \in Numbers : name_file'[m] = "no"
    BY <1>0, <2>2 DEF files
  <2>7. task'[t].at = "idle" => /\ \A x \in RTopics : Held(x)'
                                /\ \A m \in Numbers : Paired(m)'
    BY <2>3
  <2> QED BY <1>0, <2>4, <2>5, <2>6, <2>7, OneCall
<1>4. CASE OpenDir(t)
  <2>1. task[t].at = "open" /\ UNCHANGED <<files, cut, expected, consumed>> /\ topic \in RTopics
    BY <1>0, <1>t, <1>f, <1>4 DEF OpenDir, retainHistory, TakesItsOwn
  <2>2. /\ \A x \in RTopics : Held(x)'
        /\ \A m \in Numbers : Paired(m)'
    BY <1>0, <1>t, <1>f, <2>1, HeldStay DEF AloneInv, Touched, Paired, files
  <2>3. CASE hash_dir = "no" /\ NotFound(t)
    <3>1. task[t].op # "set"
      BY <1>0, <1>t, <1>f, <2>1, <2>3 DEF AloneInv, Fresh
    <3>2. /\ \A u \in RetainTasks : u # t => task'[u] = task[u]
          /\ task'[t].at # "idle" => AloneInv(t)'
      BY <1>0, <1>t, <1>f, <2>2, <2>3, <3>1, NotFoundUndisturbed DEF AloneInv
    <3> QED BY <1>0, <1>t, <1>f, <2>1, <2>2, <3>2, OneCall DEF files
  <2>4. CASE hash_dir # "no" /\ task' = [task EXCEPT ![t].at = "scan", ![t].entries = Entries]
    <3> DEFINE r == [task[t] EXCEPT !.at = "scan", !.entries = Entries]
    <3>1. r \in TypeOfTask /\ r.at = "scan" /\ r.op = task[t].op /\ r.topic = topic
          /\ r.file = f /\ r.entries = Entries /\ r.left = task[t].left
      BY <1>0, <1>t, <1>f DEF TypeOfTask, Entries
    <3>2. task' = [task EXCEPT ![t] = r]
      BY <2>4
    <3> HIDE DEF r
    <3>3. task'[t] = r /\ \A u \in RetainTasks : u # t => task'[u] = task[u]
      BY <1>0, <1>t, <1>f, <3>1, <3>2, TaskTypes
    <3>4. Entries' = Entries /\ Kept(topic)' \subseteq Entries
      BY <1>0, <1>t, <1>f, <2>1 DEF Entries, Kept, files
    <3>5. Fresh(t)'
      BY <1>0, <1>t, <1>f, <2>1, <3>1, <3>3 DEF AloneInv, Fresh, files
    <3>6. AloneInv(t)'
      BY <1>0, <1>t, <1>f, <2>1, <2>2, <3>1, <3>3, <3>4, <3>5 DEF AloneInv
    <3> QED BY <1>0, <1>t, <1>f, <2>1, <3>1, <3>3, <3>6, OneCall DEF files
  <2> QED BY <1>4, <2>3, <2>4 DEF OpenDir
<1>5. CASE ScanEntry(t)
  <2>1. task[t].at = "scan" /\ UNCHANGED <<files, cut, consumed>> /\ topic \in RTopics
        /\ Held(topic) /\ Fresh(t) /\ Kept(topic) \subseteq task[t].entries
        /\ task[t].entries \subseteq Entries
    BY <1>0, <1>t, <1>f, <1>5 DEF ScanEntry, TakesItsOwn, AloneInv
  <2>2. /\ \A x \in RTopics : Held(x)
        /\ \A m \in Numbers : Paired(m) /\ Paired(m)'
    BY <1>0, <1>t, <1>f, <2>1 DEF AloneInv, Touched, Paired, files
  <2>3. CASE task[t].entries = {} /\ NotFound(t) /\ UNCHANGED expected
    <3>1. \A x \in RTopics : Held(x)' /\ Kept(x)' = Kept(x)
      BY <1>0, <1>t, <1>f, <2>1, <2>2, <2>3, HeldStay DEF files
    <3>2. Kept(topic)' = {}
      BY <2>1, <2>3, <3>1
    <3>3. task[t].op = "set" => /\ name_file'[f] = "no" /\ hash_dir' = "made"
                                /\ consumed' \/ expected'[topic] = 0
      BY <1>f, <2>1, <2>3, <3>1, <3>2 DEF Fresh, files, Held
    <3>4. /\ \A u \in RetainTasks : u # t => task'[u] = task[u]
          /\ task'[t].at # "idle" => AloneInv(t)'
      BY SMTT(30), <1>0, <1>t, <1>f, <2>2, <2>3, <3>1, <3>2, <3>3, NotFoundUndisturbed DEF AloneInv
    <3> QED BY <1>0, <1>t, <1>f, <2>1, <2>2, <3>1, <3>4, OneCall DEF files
  <2>4. ASSUME Proceed(t, "stuck"), UNCHANGED expected
        PROVE  Undisturbed'
    <3>1. /\ task'[t].op = task[t].op /\ task'[t].at = "stuck" /\ task'[t].topic = topic
          /\ task'[t].left = task[t].left
          /\ \A u \in RetainTasks : u # t => task'[u] = task[u]
      BY <1>0, <1>t, <2>4, ProceedIs
    <3>2. \A x \in RTopics : Held(x)'
      BY <1>0, <2>1, <2>2, <2>4, HeldStay DEF files
    <3>3. AloneInv(t)'
      BY <1>0, <2>1, <2>2, <3>1, <3>2 DEF AloneInv
    <3> QED BY <1>0, <2>1, <3>1, <3>3, OneCall DEF files
  <2>5. ASSUME NEW m \in task[t].entries, name_file[m] = "no" \/ ~HasTopic(m, topic),
               task' = [task EXCEPT ![t].entries = @ \ {m}], UNCHANGED expected
        PROVE  Undisturbed'
    <3> DEFINE r == [task[t] EXCEPT !.entries = @ \ {m}]
    <3>1. r \in TypeOfTask /\ r.at = "scan" /\ r.op = task[t].op /\ r.topic = topic
          /\ r.file = f /\ r.left = task[t].left /\ r.entries = task[t].entries \ {m}
      BY <1>0, <1>t, <1>f, <2>1 DEF TypeOfTask
    <3>2. task' = [task EXCEPT ![t] = r]
      BY <2>5
    <3> HIDE DEF r
    <3>3. task'[t] = r /\ \A u \in RetainTasks : u # t => task'[u] = task[u]
      BY <1>0, <1>t, <1>f, <3>1, <3>2, TaskTypes
    <3>4. \A x \in RTopics : Held(x)' /\ Kept(x)' = Kept(x)
      BY <1>0, <1>t, <1>f, <2>1, <2>2, <2>5, HeldStay DEF files
    <3>5. m \notin Kept(topic) /\ Entries' = Entries
      BY <1>0, <1>t, <1>f, <2>1, <2>5 DEF Kept, HasTopic, Entries, files
    <3>6. Fresh(t)'
      BY <1>f, <2>1, <3>1, <3>3 DEF Fresh, files
    <3>7. Held(topic)' /\ Kept(topic)' \subseteq r.entries /\ r.entries \subseteq Entries'
      BY <2>1, <3>1, <3>4, <3>5
    <3>8. AloneInv(t)'
      BY <1>0, <1>t, <1>f, <2>2, <3>1, <3>3, <3>4, <3>6, <3>7 DEF AloneInv
    <3> QED BY <1>0, <1>t, <1>f, <2>1, <3>1, <3>3, <3>8, OneCall DEF files
  <2>6. ASSUME NEW m \in task[t].entries, name_file[m] # "no", HasTopic(m, topic),
               task' = [task EXCEPT ![t].at = "unlink", ![t].entries = {m}],
               expected' = IF task[t].op = "recover" THEN expected
                           ELSE [expected EXCEPT ![topic] = 0]
        PROVE  Undisturbed'
    <3> DEFINE r == [task[t] EXCEPT !.at = "unlink", !.entries = {m}]
    <3>0. m \in Numbers
      BY <1>0, <1>t, <1>f DEF TypeOfTask
    <3>1. r \in TypeOfTask /\ r.at = "unlink" /\ r.op = task[t].op /\ r.topic = topic
          /\ r.file = f /\ r.left = task[t].left /\ r.entries = {m}
      BY <1>0, <1>t, <1>f, <2>1, <3>0 DEF TypeOfTask
    <3>2. task' = [task EXCEPT ![t] = r]
      BY <2>6
    <3> HIDE DEF r
    <3>3. task'[t] = r /\ \A u \in RetainTasks : u # t => task'[u] = task[u]
      BY <1>0, <1>t, <1>f, <3>1, <3>2, TaskTypes
    <3>4. m \in Kept(topic) /\ \A x \in RTopics : Kept(x)' = Kept(x)
      BY <1>0, <1>t, <1>f, <2>1, <2>6, <3>0 DEF Kept, HasTopic, files
    <3>5. Kept(topic) = {m}
      BY <2>1, <3>4 DEF Held
    <3>6. Fresh(t)'
      BY <1>f, <2>1, <3>1, <3>3 DEF Fresh, files
    <3>7. \A x \in RTopics : x # topic => Held(x)'
      BY <1>0, <1>t, <1>f, <2>1, <2>2, <2>6, <3>4 DEF Held, RetainedTypeOK
    <3>8. r.op # "recover" => expected'[topic] = 0
      BY <1>0, <1>t, <1>f, <2>1, <2>6, <3>1, <3>5 DEF RetainedTypeOK
    <3>9. AloneInv(t)'
      BY SMTT(30), <1>0, <1>t, <1>f, <2>1, <2>2, <3>1, <3>3, <3>4, <3>5, <3>6, <3>7, <3>8 DEF AloneInv
    <3> QED BY <1>0, <1>t, <1>f, <2>1, <3>1, <3>3, <3>9, OneCall DEF files
  <2>7. \/ task[t].entries = {} /\ NotFound(t) /\ UNCHANGED expected
        \/ \E m \in task[t].entries :
             \/ Proceed(t, "stuck") /\ UNCHANGED expected
             \/ /\ name_file[m] = "no" \/ ~HasTopic(m, topic)
                /\ task' = [task EXCEPT ![t].entries = @ \ {m}] /\ UNCHANGED expected
             \/ /\ name_file[m] # "no" /\ HasTopic(m, topic)
                /\ task' = [task EXCEPT ![t].at = "unlink", ![t].entries = {m}]
                /\ expected' = IF task[t].op = "recover" THEN expected
                               ELSE [expected EXCEPT ![topic] = 0]
    BY <1>5, <1>t, Zenon DEF ScanEntry
  <2> QED BY <2>3, <2>4, <2>5, <2>6, <2>7
<1>6. CASE UnlinkName(t)
  <2> DEFINE m == Found(t)
             at == IF task[t].op = "recover" THEN "read" ELSE "unlink_msg"
  <2>1. /\ task[t].at = "unlink" /\ Proceed(t, at)
        /\ name_file' = [name_file EXCEPT ![m] = "no"]
        /\ UNCHANGED <<hash_dir, msg_file, cut, expected, consumed>>
    BY <1>6 DEF UnlinkName, retainHistory
  <2>2. OwnInv
    BY DEF RetainedInv
  <2>3. m \in Numbers /\ task[t].entries = {m} /\ topic_of[m] = topic /\ topic \in RTopics
    BY <1>t, <2>1, <2>2, FoundIs
  <2>4. Kept(topic) = {m} /\ Fresh(t) /\ (task[t].op # "recover" => expected[topic] = 0)
    BY <1>0, <1>t, <1>f, <2>1, <2>3 DEF AloneInv
  <2>5. name_file[m] # "no" /\ (m \in cut \/ msg_file[m] = "whole")
    BY <1>0, <1>t, <1>f, <2>1, <2>3, <2>4 DEF AloneInv, Touched, Paired, Kept
  <2> HIDE DEF m, at
  <2>6. /\ name_file'[m] = "no" /\ \A k \in Numbers : k # m => name_file'[k] = name_file[k]
        /\ Kept(topic)' = {}
        /\ \A x \in RTopics : x # topic => Kept(x)' = Kept(x)
    BY <1>0, <1>t, <1>f, <1>a, <2>1, <2>3, <2>4 DEF Kept
  <2>7. \A x \in RTopics : x # topic => Held(x)'
    BY <1>0, <1>t, <1>f, <2>1, <2>6 DEF AloneInv, Held
  <2>8. /\ task'[t].op = task[t].op /\ task'[t].at = at /\ task'[t].topic = topic
        /\ task'[t].left = task[t].left /\ task'[t].entries = {m} /\ task'[t].file = f
        /\ \A u \in RetainTasks : u # t => task'[u] = task[u]
        /\ at \in {"read", "unlink_msg"} /\ (at = "unlink_msg" => task[t].op # "recover")
    BY <1>0, <1>t, <1>f, <2>1, <2>3, ProceedIs DEF at
  <2>9. task[t].op = "set" => m # f /\ f \in Numbers /\ name_file[f] = "no" /\ hash_dir = "made"
    BY <1>0, <1>t, <1>f, <2>4, <2>5 DEF Fresh, TakesItsOwn
  <2>10. AloneInv(t)'
    <3>1. \A k \in Numbers : k # m => Paired(k)'
      BY <1>0, <1>t, <1>f, <2>1, <2>6 DEF AloneInv, Touched, Paired
    <3>2. Touched(t)' = {m} /\ Fresh(t)'
      BY <2>1, <2>3, <2>6, <2>8, <2>9 DEF Touched, Fresh
    <3>3. (m \in cut' \/ msg_file'[m] = "whole") /\ name_file'[m] = "no" /\ (task[t].op # "recover" => expected'[topic] = 0)
      BY <2>1, <2>4, <2>5, <2>6
    <3> QED BY <1>0, <1>t, <1>f, <2>6, <2>7, <2>8, <2>9, <3>1, <3>2, <3>3 DEF AloneInv
  <2> QED BY <1>0, <1>t, <1>f, <2>1, <2>3, <2>6, <2>8, <2>10, OneCall
<1>7. CASE ReadMessage(t)
  <2>1. /\ task[t].at = "read" /\ Proceed(t, "unlink_msg") /\ consumed' = TRUE
        /\ UNCHANGED <<files, cut, expected>> /\ task[t].op = "recover" /\ topic \in RTopics
    BY <1>0, <1>t, <1>f, <1>7 DEF ReadMessage, TakesItsOwn
  <2>2. /\ \A x \in RTopics : Kept(x)' = Kept(x)
        /\ \A x \in RTopics : x # topic => Held(x)'
    BY <1>0, <1>t, <1>f, <2>1, HeldStay DEF AloneInv, files
  <2>3. AloneInv(t)'
    BY <1>0, <1>t, <1>f, <2>1, <2>2, ProceedIs DEF AloneInv, Touched, Paired, Fresh, files
  <2> QED BY <1>0, <1>t, <1>f, <2>1, <2>3, OneCall, ProceedIs DEF files
<1>8. CASE UnlinkMessage(t)
  <2> DEFINE m == Found(t)
  <2>1. /\ task[t].at = "unlink_msg" /\ NotFound(t)
        /\ msg_file' = [msg_file EXCEPT ![m] = "no"]
        /\ UNCHANGED <<hash_dir, name_file, cut, expected, consumed>>
    BY <1>8 DEF UnlinkMessage, retainHistory
  <2>2. OwnInv
    BY DEF RetainedInv
  <2>3. m \in Numbers /\ task[t].entries = {m} /\ topic_of[m] = topic /\ topic \in RTopics
    BY <1>t, <2>1, <2>2, FoundIs
  <2> HIDE DEF m
  <2>4. /\ Kept(topic) = {} /\ Fresh(t) /\ name_file[m] = "no"
        /\ IF task[t].op = "recover" THEN consumed ELSE expected[topic] = 0
    BY <1>0, <1>t, <1>f, <2>1, <2>3 DEF AloneInv
  <2>5. \A x \in RTopics : Kept(x)' = Kept(x)
    BY <1>0, <2>1 DEF Kept
  <2>6. \A x \in RTopics : Held(x)'
    BY <1>0, <1>t, <1>f, <2>1, <2>4, <2>5 DEF AloneInv, Held
  <2>7. \A k \in Numbers : Paired(k)'
    BY <1>0, <1>a, <2>1, <2>3, <2>4 DEF AloneInv, Touched, Paired
  <2>8. task[t].op = "set" => /\ name_file'[f] = "no" /\ hash_dir' = "made" /\ Kept(topic)' = {}
                              /\ expected'[topic] = 0
    BY <1>f, <2>1, <2>3, <2>4, <2>5 DEF Fresh
  <2>9. /\ \A u \in RetainTasks : u # t => task'[u] = task[u]
        /\ task'[t].at # "idle" => AloneInv(t)'
    BY <1>0, <1>t, <1>f, <2>1, <2>6, <2>7, <2>8, NotFoundUndisturbed DEF AloneInv
  <2> QED BY <1>0, <2>1, <2>6, <2>7, <2>9, OneCall
<1>9. ASSUME task[t].at \in {"create", "write", "create_msg", "write_msg"}
      PROVE  /\ f \in Numbers /\ topic \in RTopics /\ topic_of[f] = topic /\ task[t].op = "set"
             /\ hash_dir = "made"
             /\ \A x \in RTopics : x # topic => Held(x)
             /\ \A m \in Numbers : m # f => Paired(m)
             /\ Kept(topic) \subseteq {f}
             /\ consumed \/ expected[topic] = 0
  BY <1>0, <1>t, <1>f, <1>9 DEF TakesItsOwn, AloneInv, Touched, Fresh
<1>10. CASE CreateName(t)
  <2>1. task[t].at = "create" /\ UNCHANGED <<hash_dir, msg_file, cut, expected, consumed>>
    BY <1>10 DEF CreateName, retainHistory
  <2>2. CASE Proceed(t, "write") /\ name_file' = [name_file EXCEPT ![f] = "part"]
    <3>1. /\ name_file'[f] = "part" /\ \A m \in Numbers : m # f => name_file'[m] = name_file[m]
          /\ f \notin cut => msg_file[f] = "no"
      BY <1>0, <1>t, <1>f, <1>a, <1>9, <2>1, <2>2 DEF AloneInv, Touched, Paired, Fresh
    <3>2. /\ Kept(topic)' = {f}
          /\ \A x \in RTopics : x # topic => Kept(x)' = Kept(x)
      BY <1>0, <1>9, <2>1, <3>1 DEF Kept
    <3>3. /\ \A x \in RTopics : x # topic => Held(x)'
          /\ \A m \in Numbers : m # f => Paired(m)'
      BY <1>9, <2>1, <3>1, <3>2 DEF Held, Paired
    <3>4. AloneInv(t)'
      BY <1>0, <1>t, <1>f, <1>9, <2>1, <2>2, <3>1, <3>2, <3>3, ProceedIs DEF AloneInv, Touched
    <3> QED BY <1>0, <1>9, <2>1, <2>2, <3>4, OneCall, ProceedIs
  <2>3. CASE EndCall(t) /\ UNCHANGED name_file
    <3>1. /\ \A x \in RTopics : Kept(x)' = Kept(x)
          /\ Kept(topic) = {}
      BY <1>0, <1>t, <2>1, <2>3 DEF AloneInv, Kept
    <3>2. \A x \in RTopics : Held(x)'
      BY <1>9, <2>1, <3>1 DEF Held
    <3>3. \A m \in Numbers : Paired(m)'
      BY <1>0, <2>1, <2>3 DEF AloneInv, Touched, Paired
    <3> QED BY <1>0, <1>9, <2>1, <2>3, <3>2, <3>3, OneCall, EndCallIs
  <2> QED BY <1>f, <1>10, <2>2, <2>3 DEF CreateName
<1>11. CASE WriteName(t)
  <2>1. task[t].at = "write" /\ UNCHANGED <<hash_dir, msg_file, expected, consumed>>
    BY <1>11 DEF WriteName
  <2>2. CASE /\ Proceed(t, "create_msg") /\ UNCHANGED cut
             /\ name_file' = [name_file EXCEPT ![f] = IF @ = "part" THEN "whole" ELSE @]
    <3>1. /\ \A m \in Numbers : m # f => name_file'[m] = name_file[m]
          /\ f \notin cut => name_file'[f] = "whole" /\ msg_file'[f] = "no"
          /\ name_file'[f] # "no" => name_file[f] # "no"
          /\ name_file[f] # "no" => name_file'[f] # "no"
      BY <1>0, <1>t, <1>f, <1>a, <1>9, <2>1, <2>2 DEF AloneInv
    <3>2. \A x \in RTopics : Kept(x)' = Kept(x)
      BY <1>0, <1>9, <2>1, <3>1 DEF Kept
    <3>3. /\ \A x \in RTopics : x # topic => Held(x)'
          /\ \A m \in Numbers : m # f => Paired(m)'
      BY <1>9, <2>1, <2>2, <3>1, <3>2 DEF Held, Paired
    <3>4. f \notin cut => Kept(topic) = {f}
      BY <1>0, <1>t, <1>f, <2>1 DEF AloneInv
    <3>5. AloneInv(t)'
      BY <1>0, <1>t, <1>f, <1>9, <2>1, <2>2, <3>1, <3>2, <3>3, <3>4, ProceedIs DEF AloneInv, Touched
    <3> QED BY <1>0, <1>9, <2>1, <2>2, <3>5, OneCall, ProceedIs
  <2>3. ASSUME Proceed(t, "create_msg") \/ EndCall(t), cut' = cut \union {f}, UNCHANGED name_file
        PROVE  Undisturbed'
    <3>1. \A x \in RTopics : Kept(x)' = Kept(x)
      BY <1>0, <2>1, <2>3 DEF Kept
    <3>2. (\A x \in RTopics : Held(x)') /\ \A m \in Numbers : Paired(m)'
      BY <1>0, <1>9, <2>1, <2>3, <3>1, CutHeld
    <3>3. CASE Proceed(t, "create_msg")
      <4>1. AloneInv(t)'
        BY <1>0, <1>t, <1>f, <1>9, <2>1, <2>3, <3>1, <3>2, <3>3, ProceedIs DEF AloneInv
      <4> QED BY <1>0, <1>9, <2>1, <3>3, <4>1, OneCall, ProceedIs
    <3>4. CASE EndCall(t)
      BY <1>0, <1>9, <2>1, <3>2, <3>4, OneCall, EndCallIs
    <3> QED BY <2>3, <3>3, <3>4
  <2> QED BY <1>f, <1>11, <2>2, <2>3 DEF WriteName
<1>12. ASSUME EndFreeingTwice(t), cut' = cut \union {f}, task[t].at \in {"create_msg", "write_msg"},
              UNCHANGED <<files, topic_of, expected, consumed>>
       PROVE  Undisturbed'
  <2>1. EndCall(t) /\ UNCHANGED <<hash_dir, name_file, msg_file>>
    BY <1>12 DEF EndFreeingTwice, files
  <2>2. \A x \in RTopics : Kept(x)' = Kept(x)
    BY <1>0, <2>1 DEF Kept
  <2>3. (\A x \in RTopics : Held(x)') /\ \A m \in Numbers : Paired(m)'
    BY <1>0, <1>9, <1>12, <2>1, <2>2, CutHeld
  <2> QED BY <1>0, <1>9, <1>12, <2>1, <2>3, OneCall, EndCallIs
<1>13. CASE CreateMessage(t)
  <2>1. task[t].at = "create_msg" /\ UNCHANGED <<hash_dir, name_file, expected, consumed>>
    BY <1>13 DEF CreateMessage
  <2>2. CASE /\ Proceed(t, "write_msg") /\ UNCHANGED cut
             /\ msg_file' = [msg_file EXCEPT ![f] = "part"]
    <3>1. /\ msg_file'[f] = "part" /\ \A m \in Numbers : m # f => msg_file'[m] = msg_file[m]
          /\ f \notin cut => name_file[f] = "whole" /\ Kept(topic) = {f}
      BY <1>0, <1>t, <1>f, <1>a, <1>9, <2>1, <2>2 DEF AloneInv
    <3>2. \A x \in RTopics : Kept(x)' = Kept(x)
      BY <1>0, <2>1 DEF Kept
    <3>3. /\ \A x \in RTopics : x # topic => Held(x)'
          /\ \A m \in Numbers : m # f => Paired(m)'
      BY <1>9, <2>1, <2>2, <3>1, <3>2 DEF Held, Paired
    <3>4. AloneInv(t)'
      BY <1>0, <1>t, <1>f, <1>9, <2>1, <2>2, <3>1, <3>2, <3>3, ProceedIs DEF AloneInv, Touched
    <3> QED BY <1>0, <1>9, <2>1, <2>2, <3>4, OneCall, ProceedIs
  <2>3. CASE EndFreeingTwice(t) /\ cut' = cut \union {f} /\ UNCHANGED msg_file
    BY <1>0, <1>12, <2>1, <2>3 DEF files
  <2> QED BY <1>f, <1>13, <2>2, <2>3 DEF CreateMessage
<1>14. CASE WriteMessage(t)
  <2>1. task[t].at = "write_msg" /\ UNCHANGED <<hash_dir, name_file, consumed>>
    BY <1>14 DEF WriteMessage
  <2>2. CASE /\ EndCall(t) /\ UNCHANGED cut
             /\ msg_file' = [msg_file EXCEPT ![f] = IF @ = "part" THEN "whole" ELSE @]
             /\ expected' = [expected EXCEPT ![topic] = IF f \in cut THEN @ ELSE f]
    <3>1. /\ \A m \in Numbers : m # f => msg_file'[m] = msg_file[m]
          /\ f \notin cut => /\ msg_file'[f] = "whole" /\ name_file[f] = "whole"
                            /\ expected'[topic] = f /\ Kept(topic) = {f}
          /\ f \in cut => expected'[topic] = expected[topic]
          /\ \A x \in RTopics : x # topic => expected'[x] = expected[x]
      BY <1>0, <1>t, <1>f, <1>a, <1>9, <2>1, <2>2 DEF RetainedTypeOK, AloneInv
    <3>2. \A x \in RTopics : Kept(x)' = Kept(x)
      BY <1>0, <2>1 DEF Kept
    <3>3. f # 0
      BY <1>9, <2>1 DEF Numbers
    <3>4. /\ \A x \in RTopics : Held(x)'
          /\ \A m \in Numbers : Paired(m)'
      BY <1>9, <2>1, <2>2, <3>1, <3>2, <3>3 DEF Held, Paired
    <3> QED BY <1>0, <1>9, <2>1, <2>2, <3>4, OneCall, EndCallIs
  <2>3. CASE EndFreeingTwice(t) /\ cut' = cut \union {f} /\ UNCHANGED <<msg_file, expected>>
    BY <1>0, <1>12, <2>1, <2>3 DEF files
  <2> QED BY <1>f, <1>t, <1>14, <2>2, <2>3 DEF WriteMessage
<1> QED BY <1>1, <1>2, <1>3, <1>4, <1>5, <1>6, <1>7, <1>8, <1>10, <1>11, <1>13, <1>14 DEF RetainedStep

LEMMA RetainedKeeps == RetainedInv /\ [RetainedNext]_retainedVars => RetainedInv'
<1> SUFFICES ASSUME RetainedInv, [RetainedNext]_retainedVars PROVE RetainedInv'
  OBVIOUS
<1>0. OwnInv
  BY DEF RetainedInv
<1>1. CASE Kill
  BY <1>1, KillKeeps
<1>2. ASSUME NEW t \in RetainTasks, SetRetained(t) \/ ReleaseRetained(t) \/ Subscribe(t)
      PROVE  RetainedInv'
  BY <1>0, <1>2, OwnBegun, UndisturbedBegins DEF RetainedInv
<1>3. ASSUME NEW t \in RetainTasks, RetainedStep(t)
      PROVE  RetainedInv'
  <2>1. OwnInv'
    BY <1>0, <1>3, OwnStep, OwnRead
  <2> QED BY <1>3, <2>1, UndisturbedStep DEF RetainedInv
<1>4. CASE UNCHANGED retainedVars
  BY <1>4 DEF retainedVars, files, RetainedInv, OwnInv, RetainedTypeOK, RecoveredIsOwn, Undisturbed, BusyTasks,
              AloneInv, Held, Kept, Paired, Touched, Fresh, Entries
<1> QED BY <1>1, <1>2, <1>3, <1>4 DEF RetainedNext

\* Whatever the calls and however they overlap, a subscriber gets messages of its topic; and
\* when none overlap, what is retained for a topic is the last message stored for it, whole,
\* or one that could not be written.
THEOREM RetainedIsLastCorrect == RetainedSpec => []RetainedIsLast
<1>1. RetainedInv => RetainedIsLast
  <2> SUFFICES ASSUME RetainedInv PROVE RetainedIsLast
    OBVIOUS
  <2>1. RecoveredIsOwn /\ (~overlapped /\ BusyTasks = {} =>
          /\ \A topic \in RTopics : Held(topic)
          /\ \A m \in Numbers : Paired(m))
    BY DEF RetainedInv, OwnInv, Undisturbed
  <2> QED BY <2>1 DEF RetainedIsLast, Held, Paired
<1> QED BY <1>1, RetainedInitially, RetainedKeeps, PTL DEF RetainedSpec

HIDE RetainedAssumption

-----------------------------------------------------------------------------
(* The quota on stored messages (StorageQuota).  The sizes are added by a fold    *)
(* over a set, a recursive function on its subsets: that it is defined, and that  *)
(* the order does not matter, is shown by induction on their cardinality.         *)

USE QuotaAssumption

\* The sum of the sizes, as the fold computes it: whichever message it takes first.
OneOf(s) == CHOOSE x \in s : TRUE
Total(g, s) == IF s = {} THEN 0 ELSE SizeOf[OneOf(s)] + g[s \ {OneOf(s)}]
IsTotal(g, S) == g = [s \in SUBSET S |-> Total(g, s)]

LEMMA SizeOfAllIs ==
  ASSUME NEW S
  PROVE  SizeOfAll(S) = (CHOOSE g : IsTotal(g, S))[S]
BY DEF SizeOfAll, MapThenSumSet, MapThenFoldSet, OneOf, Total, IsTotal

\* A set of some messages, and without one of them.
LEMMA WithoutOne ==
  ASSUME NEW S \in SUBSET Messages, IsFiniteSet(S), NEW s \in SUBSET S
  PROVE  /\ IsFiniteSet(s) /\ Cardinality(s) \in 0 .. Cardinality(S)
         /\ \A x \in s : /\ x \in Messages /\ SizeOf[x] \in Nat /\ s \ {x} \in SUBSET S
                         /\ IsFiniteSet(s \ {x}) /\ Cardinality(s \ {x}) = Cardinality(s) - 1
         /\ s # {} => OneOf(s) \in s
         /\ s = {} <=> Cardinality(s) = 0
<1>1. IsFiniteSet(s) /\ Cardinality(s) <= Cardinality(S)
  BY FS_Subset
<1>2. Cardinality(s) \in Nat /\ Cardinality(S) \in Nat
  BY <1>1, FS_CardinalityType
<1>3. s = {} <=> Cardinality(s) = 0
  BY <1>1, FS_EmptySet
<1>4. ASSUME NEW x \in s
      PROVE  /\ x \in Messages /\ SizeOf[x] \in Nat /\ s \ {x} \in SUBSET S
             /\ IsFiniteSet(s \ {x}) /\ Cardinality(s \ {x}) = Cardinality(s) - 1
  BY <1>1, FS_RemoveElement
<1> QED BY <1>1, <1>2, <1>3, <1>4 DEF OneOf

\* The recursion does define a function.
LEMMA TotalExists ==
  ASSUME NEW S \in SUBSET Messages, IsFiniteSet(S)
  PROVE  \E g : IsTotal(g, S)
<1> DEFINE UpTo(g, n) == /\ g \in [SUBSET S -> Nat]
                         /\ \A s \in SUBSET S : Cardinality(s) <= n => g[s] = Total(g, s)
           L == Cardinality(S)
           G == {n \in 0 .. L : \E g : UpTo(g, n)}
<1>1. L \in Nat
  BY FS_CardinalityType
<1>2. 0 \in G
  <2> DEFINE g == [s \in SUBSET S |-> 0]
  <2>1. \A s \in SUBSET S : Cardinality(s) <= 0 => s = {}
    BY WithoutOne
  <2>2. UpTo(g, 0)
    BY <2>1 DEF Total
  <2> HIDE DEF UpTo, g
  <2>3. \E f : UpTo(f, 0)
    BY <2>2
  <2> QED BY <1>1, <2>3
<1>3. ASSUME NEW n \in 1 .. L, n - 1 \in G PROVE n \in G
  <2>1. PICK g : UpTo(g, n - 1)
    BY <1>3
  <2> DEFINE h == [s \in SUBSET S |-> IF Cardinality(s) <= n - 1 THEN g[s] ELSE Total(g, s)]
  <2>2. h \in [SUBSET S -> Nat]
    <3>1. ASSUME NEW s \in SUBSET S PROVE Total(g, s) \in Nat
      BY <2>1, WithoutOne DEF Total
    <3> QED BY <2>1, <3>1
  <2>3. ASSUME NEW s \in SUBSET S, Cardinality(s) <= n PROVE h[s] = Total(h, s)
    <3>1. h[s] = Total(g, s)
      BY <2>1
    <3>2. CASE s = {}
      BY <3>1, <3>2 DEF Total
    <3>3. CASE s # {}
      <4> DEFINE x == OneOf(s)
      <4>1. x \in s /\ s \ {x} \in SUBSET S /\ Cardinality(s \ {x}) = Cardinality(s) - 1
            /\ Cardinality(s) \in Nat
        BY <3>3, WithoutOne
      <4> HIDE DEF x
      <4>2. Cardinality(s \ {x}) <= n - 1
        BY <1>1, <2>3, <4>1
      <4>3. h[s \ {x}] = g[s \ {x}]
        BY <4>1, <4>2
      <4> HIDE DEF h
      <4> QED BY <3>1, <3>3, <4>3 DEF Total, x
    <3> QED BY <3>2, <3>3
  <2>4. UpTo(h, n)
    BY <2>2, <2>3
  <2> HIDE DEF UpTo, h
  <2>5. \E f : UpTo(f, n)
    BY <2>4
  <2> QED BY <1>1, <2>5
<1>4. L \in G
  <2> HIDE DEF G
  <2>1. 0 .. L \subseteq G
    BY <1>1, <1>2, <1>3, IntervalInduction
  <2> QED BY <1>1, <2>1
<1>5. PICK g : UpTo(g, L)
  BY <1>4
<1>6. \A s \in SUBSET S : g[s] = Total(g, s)
  BY <1>5, <1>1, WithoutOne
<1>7. IsTotal(g, S)
  BY <1>5, <1>6 DEF IsTotal
<1> QED BY <1>7

\* Whichever message is taken away first, the sum is that of the others and its size, and a
\* sum does not depend on the set it was made for.
LEMMA TotalAdds ==
  ASSUME NEW S \in SUBSET Messages, IsFiniteSet(S), NEW g, IsTotal(g, S)
  PROVE  \A T \in SUBSET S : g[T] \in Nat /\ \A m \in T : g[T] = g[T \ {m}] + SizeOf[m]
<1> DEFINE L == Cardinality(S)
           Adds(T) == g[T] \in Nat /\ \A m \in T : g[T] = g[T \ {m}] + SizeOf[m]
           G == {n \in 0 .. L : \A T \in SUBSET S : Cardinality(T) <= n => Adds(T)}
<1>0. \A T \in SUBSET S : g[T] = Total(g, T)
  BY DEF IsTotal
<1>1. L \in Nat
  BY FS_CardinalityType
<1>2. 0 \in G
  <2>1. ASSUME NEW T \in SUBSET S, Cardinality(T) <= 0 PROVE Adds(T)
    <3>1. T = {}
      BY <2>1, WithoutOne
    <3> QED BY <1>0, <3>1 DEF Total
  <2> QED BY <1>1, <2>1
<1>3. ASSUME NEW n \in 1 .. L, n - 1 \in G PROVE n \in G
  <2>0. \A T \in SUBSET S : Cardinality(T) <= n - 1 => Adds(T)
    BY <1>3
  <2>n. n \in Nat
    BY <1>1
  <2>1. ASSUME NEW T \in SUBSET S, Cardinality(T) <= n PROVE Adds(T)
    <3> HIDE DEF G, L
    <3>1. CASE T = {}
      <4>1. g[T] = 0
        BY <1>0, <3>1 DEF Total
      <4> QED BY <3>1, <4>1
    <3>2. CASE T # {}
      <4> DEFINE x == OneOf(T)
      <4>1. x \in T /\ SizeOf[x] \in Nat /\ T \ {x} \in SUBSET S
            /\ Cardinality(T \ {x}) = Cardinality(T) - 1 /\ Cardinality(T) \in Nat
        BY <3>2, WithoutOne
      <4>2. g[T] = SizeOf[x] + g[T \ {x}]
        BY <1>0, <3>2 DEF Total
      <4> HIDE DEF x
      <4>3. Adds(T \ {x})
        <5>1. Cardinality(T \ {x}) <= n - 1
          BY <2>n, <2>1, <4>1
        <5> HIDE DEF Adds
        <5> QED BY <2>0, <4>1, <5>1
      <4>4. ASSUME NEW m \in T PROVE g[T] = g[T \ {m}] + SizeOf[m]
        <5>1. CASE m = x
          BY <4>1, <4>2, <4>3, <5>1
        <5>2. CASE m # x
          <6>1. g[T \ {x}] = g[(T \ {x}) \ {m}] + SizeOf[m]
            BY <4>3, <5>2
          <6>2. /\ T \ {m} \in SUBSET S /\ SizeOf[m] \in Nat
                /\ Cardinality(T \ {m}) = Cardinality(T) - 1 /\ IsFiniteSet(T \ {m})
            BY WithoutOne
          <6>3. Adds(T \ {m})
            <7>1. Cardinality(T \ {m}) <= n - 1
              BY <2>n, <2>1, <4>1, <6>2
            <7> HIDE DEF Adds
            <7> QED BY <2>0, <6>2, <7>1
          <6>4. g[T \ {m}] = g[(T \ {m}) \ {x}] + SizeOf[x]
            BY <4>1, <5>2, <6>3
          <6>5. (T \ {m}) \ {x} = (T \ {x}) \ {m}
            OBVIOUS
          <6>6. (T \ {x}) \ {m} \in SUBSET S
            OBVIOUS
          <6>7. g[(T \ {x}) \ {m}] \in Nat
            <7>1. x \in T \ {m}
              BY <4>1, <5>2
            <7>2. Cardinality((T \ {m}) \ {x}) = Cardinality(T \ {m}) - 1
              BY ZenonT(30), <6>2, <7>1, FS_RemoveElement
            <7>3. Cardinality((T \ {m}) \ {x}) <= n - 1
              BY <2>n, <2>1, <4>1, <6>2, <7>2
            <7>4. Adds((T \ {m}) \ {x})
              <8> HIDE DEF Adds
              <8> QED BY <2>0, <6>5, <6>6, <7>3
            <7> QED BY <6>5, <7>4
          <6> DEFINE both == g[(T \ {x}) \ {m}]
          <6>8. g[T] = SizeOf[x] + (both + SizeOf[m]) /\ g[T \ {m}] = both + SizeOf[x]
            BY <4>2, <6>1, <6>4, <6>5
          <6> HIDE DEF both
          <6>9. both \in Nat
            BY <6>7 DEF both
          <6> QED BY <4>1, <6>2, <6>8, <6>9
        <5> QED BY <5>1, <5>2
      <4>5. g[T] \in Nat
        BY <4>1, <4>2, <4>3
      <4> QED BY <4>4, <4>5
    <3> QED BY <3>1, <3>2
  <2> QED BY <1>1, <2>1
<1>4. L \in G
  <2> HIDE DEF G
  <2>1. 0 .. L \subseteq G
    BY <1>1, <1>2, <1>3, IntervalInduction
  <2> QED BY <1>1, <2>1
<1>5. \A T \in SUBSET S : Cardinality(T) <= L
  BY <1>1, WithoutOne
<1>6. \A T \in SUBSET S : Adds(T)
  BY <1>4, <1>5
<1> QED BY <1>6

LEMMA TotalSame ==
  ASSUME NEW S \in SUBSET Messages, IsFiniteSet(S), NEW R \in SUBSET S,
         NEW g, IsTotal(g, S), NEW h, IsTotal(h, R)
  PROVE  g[R] = h[R]
<1> DEFINE L == Cardinality(R)
           G == {n \in 0 .. L : \A T \in SUBSET R : Cardinality(T) <= n => g[T] = h[T]}
<1>0. /\ \A T \in SUBSET R : g[T] = Total(g, T) /\ h[T] = Total(h, T)
      /\ IsFiniteSet(R) /\ R \in SUBSET Messages
  BY FS_Subset DEF IsTotal
<1>1. L \in Nat
  BY <1>0, FS_CardinalityType
<1>2. 0 \in G
  <2>1. ASSUME NEW T \in SUBSET R, Cardinality(T) <= 0 PROVE g[T] = h[T]
    <3>1. T = {}
      BY <1>0, <2>1, WithoutOne
    <3> QED BY <1>0, <3>1 DEF Total
  <2> QED BY <1>1, <2>1
<1>3. ASSUME NEW n \in 1 .. L, n - 1 \in G PROVE n \in G
  <2>0. (\A T \in SUBSET R : Cardinality(T) <= n - 1 => g[T] = h[T]) /\ n \in Nat
    BY <1>1, <1>3
  <2>1. ASSUME NEW T \in SUBSET R, Cardinality(T) <= n PROVE g[T] = h[T]
    <3> HIDE DEF G, L
    <3>1. CASE T = {}
      BY <1>0, <3>1 DEF Total
    <3>2. CASE T # {}
      <4> DEFINE x == OneOf(T)
      <4>1. T \ {x} \in SUBSET R /\ Cardinality(T \ {x}) = Cardinality(T) - 1 /\ Cardinality(T) \in Nat
        BY <1>0, <3>2, WithoutOne
      <4>2. g[T] = SizeOf[x] + g[T \ {x}] /\ h[T] = SizeOf[x] + h[T \ {x}]
        BY <1>0, <3>2 DEF Total
      <4> HIDE DEF x
      <4>3. Cardinality(T \ {x}) <= n - 1
        BY <2>0, <2>1, <4>1
      <4> QED BY <2>0, <4>1, <4>2, <4>3
    <3> QED BY <3>1, <3>2
  <2> QED BY <1>1, <2>1
<1>4. L \in G
  <2> HIDE DEF G
  <2>1. 0 .. L \subseteq G
    BY <1>1, <1>2, <1>3, IntervalInduction
  <2> QED BY <1>1, <2>1
<1> QED BY <1>1, <1>4

\* What the directory holds, with a message more and a message less.
LEMMA SizeOfAllAdds ==
  ASSUME NEW S \in SUBSET Messages, IsFiniteSet(S), NEW m \in S
  PROVE  /\ SizeOfAll(S) \in Nat /\ SizeOfAll(S \ {m}) \in Nat /\ SizeOf[m] \in Nat \ {0}
         /\ SizeOfAll(S) = SizeOfAll(S \ {m}) + SizeOf[m]
<1> DEFINE R == S \ {m}
<1>1. R \in SUBSET S /\ R \in SUBSET Messages /\ IsFiniteSet(R)
  BY FS_RemoveElement
<1> HIDE DEF R
<1>2. PICK g : IsTotal(g, S) /\ SizeOfAll(S) = g[S]
  BY TotalExists, SizeOfAllIs
<1>3. PICK h : IsTotal(h, R) /\ SizeOfAll(R) = h[R]
  BY <1>1, TotalExists, SizeOfAllIs
<1>4. g[R] = h[R]
  BY <1>1, <1>2, <1>3, TotalSame
<1>5. g[S] \in Nat /\ g[R] \in Nat /\ g[S] = g[S \ {m}] + SizeOf[m]
  BY <1>1, <1>2, TotalAdds
<1> QED BY <1>2, <1>3, <1>4, <1>5 DEF R

LEMMA SizeOfNone == SizeOfAll({}) = 0
<1>1. {} \in SUBSET Messages /\ IsFiniteSet({})
  BY FS_EmptySet
<1>2. PICK g : IsTotal(g, {}) /\ SizeOfAll({}) = g[{}]
  BY <1>1, TotalExists, SizeOfAllIs
<1>3. g[{}] = Total(g, {})
  BY <1>2 DEF IsTotal
<1> QED BY <1>2, <1>3 DEF Total

\* An operation that runs alone knows what the directory holds; once it has counted, the
\* counter is ahead of the directory by the message it is about to write or to remove.
QuotaInv ==
  /\ QuotaTypeOK
  /\ IsFiniteSet(file)
  /\ \A m \in Messages : storing[m] \in {"stored", "uncount", "unlink"} => m \in file
  /\ \A m \in Messages : storing[m] \in {"no", "count", "write"} => m \notin file
  /\ apart /\ ~rough =>
       /\ \A m, n \in Storing : m = n
       /\ SizeOfAll(file) <= Quota
       /\ Storing = {} => counted \in {0, SizeOfAll(file)}
       /\ \A m \in Messages :
            /\ storing[m] = "count" => seen[m] = SizeOfAll(file) /\ seen[m] + SizeOf[m] <= Quota
            /\ storing[m] = "write" =>
                 counted = SizeOfAll(file) + SizeOf[m] /\ counted <= Quota
            /\ storing[m] = "uncount" => seen[m] = SizeOfAll(file)
            /\ storing[m] = "unlink" => counted = SizeOfAll(file) - SizeOf[m]

LEMMA QuotaInitially == QuotaInit => QuotaInv
<1> SUFFICES ASSUME QuotaInit PROVE QuotaInv
  OBVIOUS
<1>1. Storing = {} /\ SizeOfAll(file) = 0 /\ IsFiniteSet(file)
  BY SizeOfNone, FS_EmptySet DEF QuotaInit, Storing
<1>2. QuotaTypeOK
  BY DEF QuotaInit, QuotaTypeOK, QuotaSteps
<1>3. Quota \in Nat /\ counted = 0 /\ \A m \in Messages : storing[m] = "no" /\ m \notin file
  BY DEF QuotaInit
<1> QED BY <1>1, <1>2, <1>3 DEF QuotaInv

\* One operation goes on; the others stay where they are.
LEMMA Becomes ==
  ASSUME QuotaTypeOK, NEW m \in Messages, NEW there \in QuotaSteps, Become(m, there)
  PROVE  /\ storing' \in [Messages -> QuotaSteps] /\ storing'[m] = there
         /\ \A n \in Messages : n # m => storing'[n] = storing[n]
         /\ Storing' = IF there \in {"count", "write", "uncount", "unlink"}
                       THEN (Storing \ {m}) \union {m} ELSE Storing \ {m}
<1>1. /\ storing' \in [Messages -> QuotaSteps] /\ storing'[m] = there
      /\ \A n \in Messages : n # m => storing'[n] = storing[n]
  BY DEF Become, QuotaTypeOK
<1> QED BY <1>1 DEF Storing

LEMMA KnownIs ==
  ASSUME QuotaInv
  PROVE  /\ SizeOfAll(file) \in Nat /\ Known \in Nat
         /\ apart /\ ~rough /\ Storing = {} => Known = SizeOfAll(file)
<1>1. SizeOfAll(file) \in Nat
  <2>1. CASE file = {}
    BY <2>1, SizeOfNone
  <2>2. ASSUME NEW m \in file PROVE SizeOfAll(file) \in Nat
    BY SizeOfAllAdds DEF QuotaInv, QuotaTypeOK
  <2> QED BY <2>1, <2>2
<1> QED BY <1>1 DEF Known, QuotaInv, QuotaTypeOK

LEMMA QuotaStep == QuotaInv /\ [QuotaNext]_quotaVars => QuotaInv'
<1> SUFFICES ASSUME QuotaInv, [QuotaNext]_quotaVars PROVE QuotaInv'
  OBVIOUS
<1>0. /\ QuotaTypeOK /\ IsFiniteSet(file) /\ Quota \in Nat
      /\ SizeOfAll(file) \in Nat /\ Known \in Nat
      /\ apart /\ ~rough /\ Storing = {} => Known = SizeOfAll(file)
      /\ counted \in Nat /\ file \subseteq Messages /\ seen \in [Messages -> Nat]
      /\ \A m \in Messages : SizeOf[m] \in Nat \ {0}
  BY KnownIs DEF QuotaInv, QuotaTypeOK
<1>1. ASSUME NEW m \in Messages, StoreReads(m) PROVE QuotaInv'
  <2>1. PICK there \in {"write", "denied", "count"} :
          /\ storing[m] = "no" /\ Become(m, there) /\ Alone(m) /\ UNCHANGED <<counted, file>>
          /\ seen' \in [Messages -> Nat] /\ \A n \in Messages : n # m => seen'[n] = seen[n]
          /\ there = "write" => rough'
          /\ there # "write" => rough' = rough /\ seen'[m] = Known
          /\ there = "count" => Known + SizeOf[m] <= Quota
          /\ rough' \in BOOLEAN /\ (rough => rough')
    <3>1. storing[m] = "no" /\ Alone(m) /\ UNCHANGED <<counted, file>> /\ rough \in BOOLEAN
      BY <1>0, <1>1 DEF StoreReads, QuotaTypeOK
    <3>2. CASE m \in Offline
      <4>1. Become(m, "write") /\ rough' = TRUE /\ UNCHANGED seen
        BY <1>1, <3>2 DEF StoreReads
      <4> QED BY <1>0, <3>1, <4>1
    <3>3. CASE m \notin Offline
      <4>1. /\ seen' = [seen EXCEPT ![m] = Known] /\ UNCHANGED rough
            /\ Become(m, IF Known + SizeOf[m] > Quota THEN "denied" ELSE "count")
        BY <1>1, <3>3 DEF StoreReads
      <4>2. /\ seen' \in [Messages -> Nat] /\ seen'[m] = Known
            /\ \A n \in Messages : n # m => seen'[n] = seen[n]
        BY <1>0, <4>1
      <4>3. CASE Known + SizeOf[m] > Quota
        BY <3>1, <4>1, <4>2, <4>3
      <4>4. CASE ~(Known + SizeOf[m] > Quota)
        <5>1. Known + SizeOf[m] <= Quota /\ Become(m, "count")
          BY <1>0, <4>1, <4>4
        <5> QED BY <3>1, <4>1, <4>2, <5>1
      <4> QED BY <4>3, <4>4
    <3> QED BY <3>2, <3>3
  <2>2. /\ storing' \in [Messages -> QuotaSteps] /\ storing'[m] = there
        /\ \A n \in Messages : n # m => storing'[n] = storing[n]
        /\ Storing' = IF there # "denied" THEN (Storing \ {m}) \union {m} ELSE Storing \ {m}
    BY <1>0, <2>1, Becomes DEF QuotaSteps
  <2>3. QuotaTypeOK'
    BY <1>0, <2>1, <2>2 DEF QuotaTypeOK, Alone
  <2>4. CASE apart' /\ ~rough'
    <3>1. Storing = {} /\ apart /\ ~rough /\ Known = SizeOfAll(file)
      BY <1>0, <2>1, <2>4 DEF Alone, Storing
    <3>2. Storing' = IF there = "count" THEN {m} ELSE {}
      BY <2>1, <2>2, <2>4, <3>1
    <3> QED BY <1>0, <2>1, <2>2, <2>3, <2>4, <3>1, <3>2 DEF QuotaInv, Storing
  <2>5. CASE ~(apart' /\ ~rough')
    BY <1>0, <2>1, <2>2, <2>3, <2>5 DEF QuotaInv
  <2> QED BY <2>4, <2>5
<1>2. ASSUME NEW m \in Messages, StoreCounts(m) PROVE QuotaInv'
  <2>1. /\ storing' \in [Messages -> QuotaSteps] /\ storing'[m] = "write"
        /\ \A n \in Messages : n # m => storing'[n] = storing[n]
        /\ Storing' = Storing /\ m \in Storing
        /\ storing[m] = "count" /\ counted' = seen[m] + SizeOf[m]
        /\ UNCHANGED <<file, seen, apart, rough>>
    BY <1>0, <1>2, Becomes DEF StoreCounts, QuotaSteps, Storing
  <2>2. QuotaTypeOK'
    BY <1>0, <2>1 DEF QuotaTypeOK
  <2>3. \A n \in Messages : n # m /\ apart /\ ~rough =>
           storing[n] \notin {"count", "write", "uncount", "unlink"}
    BY <2>1 DEF QuotaInv, Storing
  <2> QED BY <1>0, <2>1, <2>2, <2>3 DEF QuotaInv
<1>3. ASSUME NEW m \in Messages, StoreWrites(m) PROVE QuotaInv'
  <2>1. /\ storing[m] = "write" /\ m \in Storing /\ m \notin file
        /\ UNCHANGED <<counted, seen, apart>>
    BY <1>3 DEF StoreWrites, Storing, QuotaInv
  <2>2. CASE Become(m, "stored") /\ file' = file \union {m} /\ UNCHANGED rough
    <3>1. /\ storing' \in [Messages -> QuotaSteps] /\ storing'[m] = "stored"
          /\ \A n \in Messages : n # m => storing'[n] = storing[n]
          /\ Storing' = Storing \ {m}
      BY <1>0, <2>2, Becomes DEF QuotaSteps
    <3>2. /\ IsFiniteSet(file') /\ m \in file' /\ file' \ {m} = file /\ file' \in SUBSET Messages
      BY <1>0, <2>1, <2>2, FS_AddElement
    <3>3. SizeOfAll(file') \in Nat /\ SizeOfAll(file') = SizeOfAll(file) + SizeOf[m]
      BY <3>2, SizeOfAllAdds
    <3>4. QuotaTypeOK'
      BY <1>0, <2>1, <2>2, <3>1, <3>2 DEF QuotaTypeOK
    <3>5. apart /\ ~rough => Storing = {m} /\ counted = SizeOfAll(file') /\ counted <= Quota
      BY <1>0, <2>1, <3>3 DEF QuotaInv
    <3>6. \A n \in Messages : apart /\ ~rough =>
             storing'[n] \notin {"count", "write", "uncount", "unlink"}
      BY <3>1, <3>5 DEF Storing
    <3>7. \A n \in Messages : /\ storing'[n] \in {"stored", "uncount", "unlink"} => n \in file'
                              /\ storing'[n] \in {"no", "count", "write"} => n \notin file'
      BY <2>2, <3>1 DEF QuotaInv
    <3>8. SizeOfAll(file)' = SizeOfAll(file')
      OBVIOUS
    <3> QED BY <2>1, <2>2, <3>1, <3>2, <3>4, <3>5, <3>6, <3>7, <3>8 DEF QuotaInv
  <2>3. CASE Become(m, "failed") /\ rough' = TRUE /\ UNCHANGED file
    <3>1. /\ storing' \in [Messages -> QuotaSteps] /\ storing'[m] = "failed"
          /\ \A n \in Messages : n # m => storing'[n] = storing[n]
      BY <1>0, <2>3, Becomes DEF QuotaSteps
    <3>2. QuotaTypeOK'
      BY <1>0, <2>1, <2>3, <3>1 DEF QuotaTypeOK
    <3> QED BY <1>0, <2>1, <2>3, <3>1, <3>2 DEF QuotaInv
  <2> QED BY <1>3, <2>2, <2>3 DEF StoreWrites
<1>4. ASSUME NEW m \in Messages, ReleaseReads(m) PROVE QuotaInv'
  <2>1. /\ storing[m] = "stored" /\ Alone(m) /\ UNCHANGED <<counted, file, rough>>
        /\ seen' \in [Messages -> Nat] /\ seen'[m] = Known
        /\ \A n \in Messages : n # m => seen'[n] = seen[n]
        /\ storing' \in [Messages -> QuotaSteps] /\ storing'[m] = "uncount"
        /\ \A n \in Messages : n # m => storing'[n] = storing[n]
        /\ Storing' = (Storing \ {m}) \union {m}
    BY <1>0, <1>4, Becomes DEF ReleaseReads, QuotaSteps
  <2>2. QuotaTypeOK'
    BY <1>0, <2>1 DEF QuotaTypeOK, Alone
  <2>3. CASE apart' /\ ~rough'
    <3>1. Storing = {} /\ apart /\ ~rough /\ Known = SizeOfAll(file) /\ Storing' = {m}
      BY <1>0, <2>1, <2>3 DEF Alone, Storing
    <3> QED BY <1>0, <2>1, <2>2, <2>3, <3>1 DEF QuotaInv, Storing
  <2>4. CASE ~(apart' /\ ~rough')
    BY <1>0, <2>1, <2>2, <2>4 DEF QuotaInv
  <2> QED BY <2>3, <2>4
<1>5. ASSUME NEW m \in Messages, ReleaseCounts(m) PROVE QuotaInv'
  <2>1. /\ storing' \in [Messages -> QuotaSteps] /\ storing'[m] = "unlink"
        /\ \A n \in Messages : n # m => storing'[n] = storing[n]
        /\ Storing' = Storing /\ m \in Storing
        /\ storing[m] = "uncount" /\ counted' = Left(m)
        /\ UNCHANGED <<file, seen, apart, rough>>
    BY <1>0, <1>5, Becomes DEF ReleaseCounts, QuotaSteps, Storing
  <2>2. Left(m) \in Nat
    BY <1>0 DEF Left
  <2>3. QuotaTypeOK'
    BY <1>0, <2>1, <2>2 DEF QuotaTypeOK
  <2>4. \A n \in Messages : n # m /\ apart /\ ~rough =>
           storing[n] \notin {"count", "write", "uncount", "unlink"}
    BY <2>1 DEF QuotaInv, Storing
  <2>5. m \in file
    BY <2>1 DEF QuotaInv
  <2>6. SizeOfAll(file \ {m}) \in Nat /\ SizeOfAll(file) = SizeOfAll(file \ {m}) + SizeOf[m]
    BY <1>0, <2>5, SizeOfAllAdds
  <2>7. apart /\ ~rough => Left(m) = SizeOfAll(file) - SizeOf[m]
    <3>1. apart /\ ~rough => seen[m] = SizeOfAll(file)
      BY <2>1 DEF QuotaInv
    <3> QED BY <1>0, <2>6, <3>1 DEF Left
  <2> QED BY <1>0, <2>1, <2>3, <2>4, <2>7 DEF QuotaInv
<1>6. ASSUME NEW m \in Messages, ReleaseUnlinks(m) PROVE QuotaInv'
  <2>1. /\ storing' \in [Messages -> QuotaSteps] /\ storing'[m] = "released"
        /\ \A n \in Messages : n # m => storing'[n] = storing[n]
        /\ Storing' = Storing \ {m} /\ m \in Storing /\ m \in file
        /\ storing[m] = "unlink" /\ file' = file \ {m}
        /\ UNCHANGED <<counted, seen, apart, rough>>
    BY <1>0, <1>6, Becomes DEF ReleaseUnlinks, QuotaSteps, Storing, QuotaInv
  <2>2. IsFiniteSet(file') /\ file' \in SUBSET Messages
    BY <1>0, <2>1, FS_RemoveElement
  <2>3. SizeOfAll(file') \in Nat /\ SizeOfAll(file) = SizeOfAll(file') + SizeOf[m]
    BY <1>0, <2>1, SizeOfAllAdds
  <2>4. QuotaTypeOK'
    BY <1>0, <2>1, <2>2 DEF QuotaTypeOK
  <2>5. apart /\ ~rough => Storing = {m} /\ counted = SizeOfAll(file') /\ SizeOfAll(file') <= Quota
    <3>1. apart /\ ~rough =>
            Storing = {m} /\ SizeOfAll(file) <= Quota /\ counted = SizeOfAll(file) - SizeOf[m]
      BY <2>1 DEF QuotaInv
    <3>2. SizeOf[m] \in Nat
      BY <1>0
    <3> QED BY <1>0, <2>3, <3>1, <3>2
  <2>6. \A n \in Messages : apart /\ ~rough =>
           storing'[n] \notin {"count", "write", "uncount", "unlink"}
    BY <2>1, <2>5 DEF Storing
  <2>7. \A n \in Messages : /\ storing'[n] \in {"stored", "uncount", "unlink"} => n \in file'
                            /\ storing'[n] \in {"no", "count", "write"} => n \notin file'
    BY <2>1 DEF QuotaInv
  <2>8. SizeOfAll(file)' = SizeOfAll(file')
    OBVIOUS
  <2> QED BY <2>1, <2>2, <2>4, <2>5, <2>6, <2>7, <2>8 DEF QuotaInv
<1>7. CASE Restart
  <2>1. SizeOfAll(file)' = SizeOfAll(file)
    BY <1>7 DEF Restart
  <2> QED BY <1>0, <1>7, <2>1 DEF Restart, QuotaInv, QuotaTypeOK, Storing
<1>8. CASE UNCHANGED quotaVars
  <2>1. SizeOfAll(file)' = SizeOfAll(file)
    BY <1>8 DEF quotaVars
  <2> QED BY <1>8, <2>1 DEF quotaVars, QuotaInv, QuotaTypeOK, Storing
<1> QED BY <1>1, <1>2, <1>3, <1>4, <1>5, <1>6, <1>7, <1>8 DEF QuotaNext

\* Whatever the sizes, the quota and the operations: as long as they did not overlap, no write
\* failed and nothing was stored for an absent client, the counter is unknown or what the
\* directory holds.
THEOREM CounterFollowsDiskCorrect == QuotaSpec => []CounterFollowsDisk
<1>1. QuotaInv => CounterFollowsDisk
  BY DEF QuotaInv, CounterFollowsDisk
<1> QED BY <1>1, QuotaInitially, QuotaStep, PTL DEF QuotaSpec

HIDE QuotaAssumption

-----------------------------------------------------------------------------
(* The composition (MCBroker): each component behaves in it as it does by itself. *)

\* A step of the composition is a step of one component, and the others stay.
LEMMA PartsTakeSteps ==
  ASSUME [BrokerNext]_brokerVars
  PROVE  /\ [PacketNext]_packetVars /\ [TopicNext]_topicVars /\ [RetainedNext]_retainedVars
         /\ [ConnectionNext]_connectionVars /\ [DomainsNext]_domainsVars
         /\ [HandoverNext]_handoverVars /\ [QuotaNext]_quotaVars /\ [ListenerNext]_listenerVars
<1>1. CASE BrokerNext
  <2>1. [ListenerNext]_listenerVars
    <3>1. /\ part # "listener" => UNCHANGED acceptVars
          /\ part # "waiting" => UNCHANGED waitVars
      BY <1>1, Zenon DEF BrokerNext, Still
    <3>2. part = "listener" => AcceptNext
      BY <1>1, Zenon DEF BrokerNext
    <3>3. part = "waiting" => WaitNext
      BY <1>1, Zenon DEF BrokerNext
    <3> QED BY <3>1, <3>2, <3>3 DEF ListenerNext, listenerVars
  <2>2. [PacketNext]_packetVars /\ [TopicNext]_topicVars /\ [RetainedNext]_retainedVars
    BY <1>1, Zenon DEF BrokerNext, Still
  <2>3. [ConnectionNext]_connectionVars /\ [DomainsNext]_domainsVars
    BY <1>1, Zenon DEF BrokerNext, Still
  <2>4. [HandoverNext]_handoverVars /\ [QuotaNext]_quotaVars
    BY <1>1, Zenon DEF BrokerNext, Still
  <2> QED BY <2>1, <2>2, <2>3, <2>4, Zenon
<1>2. CASE UNCHANGED brokerVars
  BY <1>2, Zenon DEF brokerVars
<1> QED BY <1>1, <1>2

\* What TLC explores as one instance is, for each component, a behaviour of its own
\* specification: the runs of MCBroker say nothing that the components do not.
THEOREM BrokerImplementsParts ==
  BrokerSpec => /\ PacketSpec /\ TopicInit /\ [][TopicNext]_topicVars /\ RetainedSpec
                /\ ConnectionSpec /\ DomainsSpec /\ HandoverSpec /\ QuotaSpec /\ ListenerSpec
<1>1. BrokerInit => /\ PacketInit /\ TopicInit /\ RetainedInit /\ ConnectionInit /\ DomainsInit
                    /\ HandoverInit /\ QuotaInit /\ ListenerInit
  BY Zenon DEF BrokerInit
<1>2. [BrokerNext]_brokerVars =>
        /\ [PacketNext]_packetVars /\ [TopicNext]_topicVars /\ [RetainedNext]_retainedVars
        /\ [ConnectionNext]_connectionVars /\ [DomainsNext]_domainsVars
        /\ [HandoverNext]_handoverVars /\ [QuotaNext]_quotaVars /\ [ListenerNext]_listenerVars
  BY PartsTakeSteps
<1> QED BY <1>1, <1>2, PTL DEF BrokerSpec, PacketSpec, RetainedSpec, ConnectionSpec, DomainsSpec,
             HandoverSpec, QuotaSpec, ListenerSpec

\* The state of every component keeps its type, whichever of them a behaviour exercises.
THEOREM BrokerTypeCorrect == BrokerSpec => []BrokerTypeOK
<1>1. QuotaSpec => []QuotaTypeOK
  <2>1. QuotaInv => QuotaTypeOK
    BY DEF QuotaInv
  <2> QED BY <2>1, QuotaInitially, QuotaStep, PTL DEF QuotaSpec
<1>2. RetainedSpec => []RetainedTypeOK
  <2>1. RetainedInv => RetainedTypeOK
    BY DEF RetainedInv, OwnInv
  <2> QED BY <2>1, RetainedInitially, RetainedKeeps, PTL DEF RetainedSpec
<1>3. TopicInit /\ [][TopicNext]_topicVars => []TopicTypeOK
  BY TopicTypesInitially, TopicTypesStep, PTL
<1>4. DomainsSpec => []DomainsTypeOK
  <2>1. DomainsInv => DomainsTypeOK
    BY DEF DomainsInv
  <2> QED BY <2>1, DomainsInitially, DomainsStep, PTL DEF DomainsSpec
<1>5. (/\ PacketTypeOK /\ TopicTypeOK /\ RetainedTypeOK /\ ConnectionTypeOK
       /\ DomainsTypeOK /\ HandoverTypeOK /\ QuotaTypeOK /\ ListenerTypeOK) => BrokerTypeOK
  BY Zenon DEF BrokerTypeOK
<1> QED BY <1>1, <1>2, <1>3, <1>4, <1>5, BrokerImplementsParts, PacketTypeCorrect, ConnectionTypeCorrect,
           HandoverTypeCorrect, ListenerTypeCorrect, PTL

\* What the run of MCBroker checks of its small instances, each property with the exceptions
\* it names, holds in the composition whatever the packets, topics, filters, connections,
\* domains, stores and listeners.
THEOREM BrokerCorrect ==
  BrokerSpec => [](/\ PacketsReadWhole /\ FiltersAgree /\ RetainedIsLast
                   /\ RefsAreHeld /\ HandlersAreCalled
                   /\ HandedToItsOwn /\ EntryIsAlive /\ CounterFollowsDisk
                   /\ ListenerIsAlive /\ ShutdownReachesAll /\ WaiterIsWoken)
<1>1. TopicInit /\ [][TopicNext]_topicVars => []FiltersAgree
  <2>1. FiltersInv => FiltersAgree
    BY DEF FiltersInv
  <2> QED BY <2>1, FiltersInitially, FiltersStep, PTL
<1>2. BrokerSpec => [](FiltersAgree /\ PacketsReadWhole /\ RetainedIsLast)
  BY <1>1, BrokerImplementsParts, PacketsReadWholeCorrect, RetainedIsLastCorrect, PTL
<1>3. BrokerSpec => [](RefsAreHeld /\ HandlersAreCalled)
  BY BrokerImplementsParts, RefsAreHeldCorrect, HandlersAreCalledCorrect, PTL
<1>4. BrokerSpec => [](HandedToItsOwn /\ EntryIsAlive /\ CounterFollowsDisk)
  BY BrokerImplementsParts, HandedToItsOwnCorrect, EntryIsAliveCorrect, CounterFollowsDiskCorrect, PTL
<1>5. BrokerSpec => [](ListenerIsAlive /\ ShutdownReachesAll /\ WaiterIsWoken)
  BY BrokerImplementsParts, ListenerIsAliveCorrect, ShutdownReachesAllCorrect, WaiterIsWokenCorrect, PTL
<1> QED BY <1>2, <1>3, <1>4, <1>5, PTL

=============================================================================
