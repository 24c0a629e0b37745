------------------------------ MODULE ListLemmas ------------------------------
(***************************************************************************)
(* Induction over the natural numbers, and what the operators on sequences *)
(* that the models of the library's lists use return: an element appended, *)
(* inserted or removed, and what stays of the others.                      *)
(***************************************************************************)
EXTENDS Integers, Sequences, FiniteSets, SequencesExt, FiniteSetTheorems, SequenceTheorems, TLAPS

-----------------------------------------------------------------------------
(* Induction over the natural numbers, from the library's well-founded      *)
(* orderings.                                                               *)

\* A set of natural numbers that has an element has a least one.
LEMMA LeastElement ==
  ASSUME NEW T \in SUBSET Nat, T # {}
  PROVE  \E x \in T : \A y \in T : x <= y
<1> DEFINE Less == {p \in Nat \X Nat : p[1] < p[2]}
<1>1. IsWellFoundedOn(Less, Nat)
  BY NatLessThanWellFounded, Zenon DEF OpToRel
<1>2. \A x, y \in Nat : <<y, x>> \in Less <=> y < x
  OBVIOUS
<1> HIDE DEF Less
<1>3. PICK x \in T : \A y \in T : ~ (<<y, x>> \in Less)
  BY <1>1, WFMin
<1>4. ASSUME NEW y \in T PROVE x <= y
  <2>1. x \in Nat /\ y \in Nat
    OBVIOUS
  <2>2. ~ (y < x)
    BY <1>2, <1>3, <2>1
  <2>3. QED
    BY <2>1, <2>2
<1>5. QED
  BY <1>4

\* A set that holds 0 and, with a number up to n, the next one holds 0 .. n.
LEMMA IntervalInduction ==
  ASSUME NEW n \in Nat, NEW G,
         0 \in G, \A k \in 1 .. n : k - 1 \in G => k \in G
  PROVE  0 .. n \subseteq G
<1>1. SUFFICES ASSUME (0 .. n) \ G # {} PROVE FALSE
  OBVIOUS
<1>2. PICK x \in (0 .. n) \ G : \A y \in (0 .. n) \ G : x <= y
  <2>1. (0 .. n) \ G \in SUBSET Nat
    OBVIOUS
  <2>2. QED
    BY <1>1, <2>1, LeastElement
<1>3. x \in 1 .. n /\ x - 1 \in 0 .. n
  BY <1>2
<1>4. x - 1 \in G
  BY <1>2, <1>3
<1>5. QED
  BY <1>2, <1>3, <1>4

-----------------------------------------------------------------------------
(* Lists.                                                                   *)

Ascending(s) == \A i, j \in DOMAIN s : i < j => s[i] < s[j]

\* RemoveFirst takes one occurrence out of a list and keeps the order of the
\* others.
LEMMA RemoveFirstProperties ==
  ASSUME NEW S, NEW s \in Seq(S), NEW x
  PROVE  /\ RemoveFirst(s, x) \in Seq(S)
         /\ Len(RemoveFirst(s, x)) <= Len(s)
         /\ ToSet(RemoveFirst(s, x)) \subseteq ToSet(s)
         /\ ToSet(s) \ {x} \subseteq ToSet(RemoveFirst(s, x))
         /\ S \subseteq Nat /\ Ascending(s) =>
               /\ Ascending(RemoveFirst(s, x))
               /\ x \notin ToSet(RemoveFirst(s, x))
<1> DEFINE r == RemoveFirst(s, x)
<1>1. CASE \A i \in 1 .. Len(s) : s[i] # x
  <2>1. r = s
    BY <1>1 DEF RemoveFirst
  <2>2. x \notin ToSet(s)
    BY <1>1 DEF ToSet
  <2>3. QED
    BY <2>1, <2>2
<1>2. CASE \E i \in 1 .. Len(s) : s[i] = x
  <2> DEFINE I == {i \in 1 .. Len(s) : s[i] = x}
             k == CHOOSE i \in I : \A j \in I : i <= j
             s1 == SubSeq(s, 1, k - 1)
             s2 == SubSeq(s, k + 1, Len(s))
  <2>1. r = s1 \o s2
    BY <1>2 DEF RemoveFirst, RemoveAt, SelectInSeq, Min
  <2>2. k \in I
    <3>1. I \in SUBSET Nat /\ I # {}
      BY <1>2
    <3>2. \E i \in I : \A j \in I : i <= j
      BY <3>1, LeastElement
    <3>3. QED
      BY <3>2
  <2>3. k \in 1 .. Len(s) /\ s[k] = x
    BY <2>2
  <2> HIDE DEF k, I
  <2>4. /\ s1 \in Seq(S) /\ Len(s1) = k - 1
        /\ \A i \in 1 .. k - 1 : s1[i] = s[i]
    BY <2>3, SubSeqProperties
  <2>5. /\ s2 \in Seq(S) /\ Len(s2) = Len(s) - k
        /\ \A i \in 1 .. Len(s) - k : s2[i] = s[i + k]
    <3>1. \A i \in k + 1 .. Len(s) : s[i] \in S
      BY <2>3
    <3>2. /\ s2 \in Seq(S) /\ Len(s2) = Len(s) - k
          /\ \A i \in 1 .. Len(s) - (k + 1) + 1 : s2[i] = s[k + 1 + i - 1]
      BY <2>3, <3>1, SubSeqProperties
    <3>3. ASSUME NEW i \in 1 .. Len(s) - k PROVE s2[i] = s[i + k]
      <4>1. i \in 1 .. Len(s) - (k + 1) + 1 /\ k + 1 + i - 1 = i + k
        BY <2>3
      <4>2. QED
        BY <3>2, <4>1
    <3>4. QED
      BY <3>2, <3>3
  <2> HIDE DEF s1, s2
  <2>6. /\ r \in Seq(S)
        /\ Len(r) = Len(s) - 1
        /\ \A i \in 1 .. Len(s) - 1 : r[i] = IF i < k THEN s[i] ELSE s[i + 1]
    <3>1. /\ s1 \o s2 \in Seq(S)
          /\ Len(s1 \o s2) = Len(s) - 1
          /\ \A i \in 1 .. Len(s) - 1 :
                (s1 \o s2)[i] = IF i <= k - 1 THEN s1[i] ELSE s2[i - (k - 1)]
      <4>1. s1 \o s2 \in Seq(S) /\ Len(s1 \o s2) = Len(s1) + Len(s2)
        BY <2>4, <2>5, ConcatProperties
      <4>2. \A i \in 1 .. Len(s1) + Len(s2) :
               (s1 \o s2)[i] = IF i <= Len(s1) THEN s1[i] ELSE s2[i - Len(s1)]
        BY <2>4, <2>5, ConcatProperties
      <4>3. Len(s1) + Len(s2) = Len(s) - 1
        BY <2>3, <2>4, <2>5
      <4>4. QED
        BY <2>4, <4>1, <4>2, <4>3
    <3>2. ASSUME NEW i \in 1 .. Len(s) - 1
          PROVE  (s1 \o s2)[i] = IF i < k THEN s[i] ELSE s[i + 1]
      <4>1. CASE i < k
        BY <2>3, <2>4, <3>1, <4>1
      <4>2. CASE ~ (i < k)
        <5>1. i - (k - 1) \in 1 .. Len(s) - k /\ i - (k - 1) + k = i + 1
          BY <2>3, <4>2
        <5>2. s2[i - (k - 1)] = s[i + 1]
          BY <2>5, <5>1
        <5>3. (s1 \o s2)[i] = s2[i - (k - 1)]
          BY <2>3, <3>1, <4>2
        <5>4. QED
          BY <4>2, <5>2, <5>3
      <4>3. QED
        BY <4>1, <4>2
    <3>3. QED
      BY <2>1, <3>1, <3>2
  <2> HIDE DEF r
  <2>7. DOMAIN s = 1 .. Len(s) /\ DOMAIN r = 1 .. Len(s) - 1 /\ Len(s) \in Nat
    BY <2>6
  <2>8. ToSet(r) \subseteq ToSet(s)
    <3>1. ASSUME NEW i \in DOMAIN r PROVE \E j \in DOMAIN s : r[i] = s[j]
      <4>1. i \in DOMAIN s /\ i + 1 \in DOMAIN s /\ (r[i] = s[i] \/ r[i] = s[i + 1])
        BY <2>6, <2>7
      <4>2. QED
        BY <4>1
    <3>2. QED
      BY <3>1 DEF ToSet
  <2>9. ASSUME NEW i \in DOMAIN s, s[i] # x PROVE s[i] \in ToSet(r)
    <3>1. CASE i < k
      BY <2>3, <2>6, <2>7, <2>9, <3>1 DEF ToSet
    <3>2. CASE i > k
      <4>1. i - 1 \in DOMAIN r /\ r[i - 1] = s[i]
        BY <2>3, <2>6, <2>7, <3>2
      <4>2. QED
        BY <4>1 DEF ToSet
    <3>3. QED
      BY <2>3, <2>7, <2>9, <3>1, <3>2
  <2>10. ASSUME S \subseteq Nat, Ascending(s)
         PROVE  Ascending(r) /\ x \notin ToSet(r)
    <3>1. \A i \in DOMAIN s : s[i] \in Nat
      <4>1. \A i \in 1 .. Len(s) : s[i] \in S
        BY ElementOfSeq
      <4>2. QED
        BY <2>7, <2>10, <4>1
    <3> DEFINE old(i) == IF i < k THEN i ELSE i + 1
    <3>2. ASSUME NEW i \in DOMAIN r
          PROVE  old(i) \in DOMAIN s /\ old(i) # k /\ r[i] = s[old(i)]
      BY <2>3, <2>6, <2>7
    <3>3. ASSUME NEW i \in DOMAIN r, NEW j \in DOMAIN r, i < j
          PROVE  r[i] < r[j]
      <4>1. old(i) < old(j)
        BY <2>3, <2>7, <3>3
      <4>2. QED
        BY <2>10, <3>2, <4>1 DEF Ascending
    <3>4. ASSUME NEW i \in DOMAIN r PROVE r[i] # s[k]
      <4>1. old(i) < k \/ k < old(i)
        BY <2>3, <2>7
      <4>2. QED
        BY <2>3, <2>7, <2>10, <3>1, <3>2, <4>1 DEF Ascending
    <3>5. QED
      BY <2>3, <3>3, <3>4 DEF Ascending, ToSet
  <2>11. ToSet(s) \ {x} \subseteq ToSet(r)
    BY <2>9 DEF ToSet
  <2>12. QED
    BY <2>6, <2>7, <2>8, <2>10, <2>11 DEF r
<1>3. QED
  BY <1>1, <1>2

\* InsertAt makes room for a value.
LEMMA InsertAtProperties ==
  ASSUME NEW S, NEW s \in Seq(S), NEW k \in 1 .. Len(s), NEW x \in S
  PROVE  /\ InsertAt(s, k, x) \in Seq(S)
         /\ Len(InsertAt(s, k, x)) = Len(s) + 1
         /\ \A i \in 1 .. Len(s) + 1 :
               InsertAt(s, k, x)[i] = IF i < k THEN s[i]
                                      ELSE IF i = k THEN x ELSE s[i - 1]
         /\ ToSet(InsertAt(s, k, x)) = ToSet(s) \cup {x}
<1> DEFINE s1 == SubSeq(s, 1, k - 1)
           s2 == SubSeq(s, k, Len(s))
           s3 == s1 \o <<x>>
           r == InsertAt(s, k, x)
<1>1. r = s3 \o s2
  BY DEF InsertAt
<1>2. /\ s1 \in Seq(S) /\ Len(s1) = k - 1
      /\ \A i \in 1 .. k - 1 : s1[i] = s[i]
  <2>1. \A i \in 1 .. k - 1 : s[i] \in S
    OBVIOUS
  <2>2. QED
    BY <2>1, SubSeqProperties
<1>3. /\ s2 \in Seq(S) /\ Len(s2) = Len(s) - k + 1
      /\ \A i \in 1 .. Len(s) - k + 1 : s2[i] = s[k + i - 1]
  <2>1. \A i \in k .. Len(s) : s[i] \in S
    OBVIOUS
  <2>2. QED
    BY <2>1, SubSeqProperties
<1> HIDE DEF s1, s2
<1>4. /\ s3 \in Seq(S) /\ Len(s3) = k
      /\ \A i \in 1 .. k : s3[i] = IF i < k THEN s[i] ELSE x
  <2>1. /\ s3 \in Seq(S) /\ Len(s3) = k
        /\ \A i \in 1 .. k : s3[i] = IF i <= k - 1 THEN s1[i] ELSE <<x>>[i - (k - 1)]
    <3>1. <<x>> \in Seq(S) /\ Len(<<x>>) = 1 /\ k - 1 + 1 = k
      OBVIOUS
    <3>2. /\ s3 \in Seq(S) /\ Len(s3) = k - 1 + 1
          /\ \A i \in 1 .. k - 1 + 1 :
                s3[i] = IF i <= k - 1 THEN s1[i] ELSE <<x>>[i - (k - 1)]
      BY <1>2, <3>1, ConcatProperties
    <3>3. QED
      BY <3>1, <3>2
  <2>2. ASSUME NEW i \in 1 .. k PROVE s3[i] = IF i < k THEN s[i] ELSE x
    BY <1>2, <2>1
  <2>3. QED
    BY <2>1, <2>2
<1> HIDE DEF s3
<1>5. /\ r \in Seq(S) /\ Len(r) = Len(s) + 1
      /\ \A i \in 1 .. Len(s) + 1 : r[i] = IF i <= k THEN s3[i] ELSE s2[i - k]
  <2>1. /\ s3 \o s2 \in Seq(S)
        /\ Len(s3 \o s2) = k + (Len(s) - k + 1)
        /\ \A i \in 1 .. k + (Len(s) - k + 1) :
              (s3 \o s2)[i] = IF i <= k THEN s3[i] ELSE s2[i - k]
    <3> DEFINE n2 == Len(s) - k + 1
    <3>1. n2 \in Nat
      OBVIOUS
    <3> HIDE DEF n2
    <3>2. Len(s2) = n2
      BY <1>3 DEF n2
    <3>3. /\ s3 \o s2 \in Seq(S)
          /\ Len(s3 \o s2) = k + n2
          /\ \A i \in 1 .. k + n2 :
                (s3 \o s2)[i] = IF i <= k THEN s3[i] ELSE s2[i - k]
      <4>1. s3 \in Seq(S) /\ s2 \in Seq(S) /\ Len(s3) = k
        BY <1>3, <1>4
      <4>2. /\ s3 \o s2 \in Seq(S)
            /\ Len(s3 \o s2) = Len(s3) + Len(s2)
            /\ \A i \in 1 .. Len(s3) + Len(s2) :
                  (s3 \o s2)[i] = IF i <= Len(s3) THEN s3[i] ELSE s2[i - Len(s3)]
        BY <4>1, ConcatProperties, Zenon
      <4>3. QED
        BY <3>2, <4>1, <4>2, Zenon
    <3>4. QED
      BY <3>3 DEF n2
  <2>2. k + (Len(s) - k + 1) = Len(s) + 1
    OBVIOUS
  <2>3. QED
    BY <1>1, <2>1, <2>2
<1> HIDE DEF r
<1>6. ASSUME NEW i \in 1 .. Len(s) + 1
      PROVE  r[i] = IF i < k THEN s[i] ELSE IF i = k THEN x ELSE s[i - 1]
  <2>1. CASE i <= k
    BY <1>4, <1>5, <2>1
  <2>2. CASE i > k
    <3>1. i - k \in 1 .. Len(s) - k + 1 /\ k + (i - k) - 1 = i - 1 /\ i \notin 1 .. k
      BY <2>2
    <3>2. s2[i - k] = s[i - 1]
      BY <1>3, <3>1
    <3>3. QED
      BY <1>5, <2>2, <3>2
  <2>3. QED
    BY <2>1, <2>2
<1>7. DOMAIN r = 1 .. Len(s) + 1 /\ DOMAIN s = 1 .. Len(s) /\ Len(s) \in Nat
  BY <1>5
<1>8. ToSet(r) \subseteq ToSet(s) \cup {x}
  BY <1>6, <1>7 DEF ToSet
<1>9. x \in ToSet(r)
  <2>1. k \in DOMAIN r /\ r[k] = x
    BY <1>6, <1>7
  <2>2. QED
    BY <2>1 DEF ToSet
<1>10. ASSUME NEW i \in DOMAIN s PROVE s[i] \in ToSet(r)
  <2>1. CASE i < k
    <3>1. i \in DOMAIN r /\ r[i] = s[i]
      BY <1>6, <1>7, <2>1
    <3>2. QED
      BY <3>1 DEF ToSet
  <2>2. CASE i >= k
    <3>1. i + 1 \in DOMAIN r /\ r[i + 1] = s[i]
      <4>1. i + 1 \in 1 .. Len(s) + 1 /\ ~ (i + 1 < k) /\ i + 1 # k /\ i + 1 - 1 = i
        BY <1>7, <2>2
      <4>2. QED
        BY <1>6, <1>7, <4>1
    <3>2. QED
      BY <3>1 DEF ToSet
  <2>3. QED
    BY <1>7, <2>1, <2>2
<1>11. ToSet(s) \subseteq ToSet(r)
  BY <1>10 DEF ToSet
<1>12. QED
  BY <1>5, <1>6, <1>8, <1>9, <1>11 DEF r

LEMMA AppendSet ==
  ASSUME NEW S, NEW s \in Seq(S), NEW x \in S
  PROVE  ToSet(Append(s, x)) = ToSet(s) \cup {x}
<1>1. /\ DOMAIN Append(s, x) = 1 .. Len(s) + 1 /\ DOMAIN s = 1 .. Len(s)
      /\ Len(s) \in Nat
      /\ \A i \in 1 .. Len(s) : Append(s, x)[i] = s[i]
      /\ Append(s, x)[Len(s) + 1] = x
  BY AppendProperties
<1>2. ToSet(Append(s, x)) \subseteq ToSet(s) \cup {x}
  BY <1>1 DEF ToSet
<1>3. x \in ToSet(Append(s, x))
  <2>1. Len(s) + 1 \in DOMAIN Append(s, x)
    BY <1>1
  <2>2. QED
    BY <1>1, <2>1 DEF ToSet
<1>4. ToSet(s) \subseteq ToSet(Append(s, x))
  <2>1. \A i \in DOMAIN s : i \in DOMAIN Append(s, x)
    BY <1>1
  <2>2. QED
    BY <1>1, <2>1 DEF ToSet
<1>5. QED
  BY <1>2, <1>3, <1>4

\* What is left of a queue, and its first element.
LEMMA TailSet ==
  ASSUME NEW S, NEW s \in Seq(S), s # <<>>
  PROVE  /\ ToSet(Tail(s)) \subseteq ToSet(s) /\ Head(s) \in ToSet(s)
         /\ Head(s) \in S
<1>1. /\ DOMAIN s = 1 .. Len(s) /\ Len(s) \in Nat \ {0}
      /\ DOMAIN Tail(s) = 1 .. Len(s) - 1
      /\ \A i \in 1 .. Len(s) - 1 : Tail(s)[i] = s[i + 1]
      /\ Head(s) = s[1]
  OBVIOUS
<1>2. 1 \in DOMAIN s /\ \A i \in DOMAIN Tail(s) : i + 1 \in DOMAIN s
  BY <1>1
<1>3. QED
  BY <1>1, <1>2 DEF ToSet

\* RemoveAt takes one element away and moves the rest of the list up.
LEMMA RemoveAtIs ==
    ASSUME NEW S, NEW s \in Seq(S), NEW i \in 1 .. Len(s)
    PROVE  /\ RemoveAt(s, i) \in Seq(S)
           /\ Len(RemoveAt(s, i)) = Len(s) - 1
           /\ \A j \in 1 .. Len(s) - 1 :
                 RemoveAt(s, i)[j] = IF j < i THEN s[j] ELSE s[j + 1]
<1> DEFINE before == SubSeq(s, 1, i - 1)
           after  == SubSeq(s, i + 1, Len(s))
<1>1. before \in Seq(S) /\ Len(before) = i - 1 /\ \A j \in 1 .. i - 1 : before[j] = s[j]
  OBVIOUS
<1>2. /\ after \in Seq(S) /\ Len(after) = Len(s) - i
      /\ \A j \in 1 .. Len(s) - i : after[j] = s[i + j]
  OBVIOUS
<1> HIDE DEF before, after
<1>3. /\ before \o after \in Seq(S) /\ Len(before \o after) = Len(s) - 1
      /\ \A j \in 1 .. Len(s) - 1 :
            (before \o after)[j] = IF j < i THEN before[j] ELSE after[j - (i - 1)]
  <2>1. before \o after \in Seq(S) /\ Len(before \o after) = Len(before) + Len(after)
    BY <1>1, <1>2, ConcatProperties
  <2>2. \A j \in 1 .. Len(before) + Len(after) :
           (before \o after)[j] = IF j <= Len(before) THEN before[j] ELSE after[j - Len(before)]
    BY <1>1, <1>2, ConcatProperties
  <2>3. Len(before) + Len(after) = Len(s) - 1 /\ \A j \in 1 .. Len(s) - 1 : j <= i - 1 <=> j < i
    BY <1>1, <1>2
  <2> QED BY <1>1, <2>1, <2>2, <2>3
<1>4. ASSUME NEW j \in 1 .. Len(s) - 1
      PROVE  (before \o after)[j] = IF j < i THEN s[j] ELSE s[j + 1]
  <2>1. CASE j < i
    BY <1>1, <1>3, <2>1
  <2>2. CASE ~(j < i)
    <3>1. j - (i - 1) \in 1 .. Len(s) - i /\ i + (j - (i - 1)) = j + 1
      BY <2>2
    <3> QED BY <1>2, <1>3, <2>2, <3>1
  <2> QED BY <2>1, <2>2
<1>5. RemoveAt(s, i) = before \o after
  BY DEF RemoveAt, before, after
<1> QED BY <1>3, <1>4, <1>5

\* The first element aside, a queue keeps its elements.
LEMMA TailKeeps ==
    ASSUME NEW S, NEW s \in Seq(S), s # <<>>, NEW x \in ToSet(s), x # Head(s)
    PROVE  x \in ToSet(Tail(s))
<1>1. PICK i \in 1 .. Len(s) : s[i] = x
  BY DEF ToSet
<1>2. i # 1 /\ Len(s) \in Nat
  BY <1>1
<1>3. i - 1 \in 1 .. Len(s) - 1
  BY <1>2
<1>4. i - 1 \in DOMAIN Tail(s) /\ Tail(s)[i - 1] = s[i]
  BY <1>2, <1>3
<1> QED BY <1>1, <1>4 DEF ToSet

-----------------------------------------------------------------------------
(* Lists without repetitions.                                               *)

Distinct(s) == \A i, j \in DOMAIN s : s[i] = s[j] => i = j

\* Appending what is not in the list repeats nothing.
LEMMA AppendDistinct ==
    ASSUME NEW S, NEW s \in Seq(S), Distinct(s), NEW x \in S, x \notin ToSet(s)
    PROVE  Distinct(Append(s, x))
<1>1. /\ DOMAIN Append(s, x) = 1 .. Len(s) + 1 /\ DOMAIN s = 1 .. Len(s) /\ Len(s) \in Nat
      /\ \A i \in 1 .. Len(s) : Append(s, x)[i] = s[i] /\ s[i] # x
      /\ Append(s, x)[Len(s) + 1] = x
  BY AppendProperties DEF ToSet
<1>2. SUFFICES ASSUME NEW i \in 1 .. Len(s) + 1, NEW j \in 1 .. Len(s) + 1,
                      Append(s, x)[i] = Append(s, x)[j]
               PROVE  i = j
  BY <1>1 DEF Distinct
<1>3. CASE i \in 1 .. Len(s) /\ j \in 1 .. Len(s)
  BY <1>1, <1>2, <1>3 DEF Distinct
<1>4. CASE i = Len(s) + 1 \/ j = Len(s) + 1
  BY <1>1, <1>2, <1>4
<1> QED BY <1>1, <1>3, <1>4

\* RemoveFirst takes out the only occurrence.
LEMMA RemoveFirstDistinct ==
    ASSUME NEW S, NEW s \in Seq(S), Distinct(s), NEW x
    PROVE  /\ RemoveFirst(s, x) \in Seq(S)
           /\ Distinct(RemoveFirst(s, x))
           /\ ToSet(RemoveFirst(s, x)) = ToSet(s) \ {x}
<1>1. CASE \A i \in 1 .. Len(s) : s[i] # x
  <2>1. RemoveFirst(s, x) = s
    BY <1>1 DEF RemoveFirst
  <2> QED BY <1>1, <2>1 DEF ToSet
<1>2. CASE \E i \in 1 .. Len(s) : s[i] = x
  <2> DEFINE I == {i \in 1 .. Len(s) : s[i] = x}
             k == CHOOSE i \in I : \A j \in I : i <= j
             r == RemoveAt(s, k)
  <2>1. RemoveFirst(s, x) = r
    BY <1>2 DEF RemoveFirst, SelectInSeq, Min
  <2>2. k \in I
    <3>1. I \in SUBSET Nat /\ I # {}
      BY <1>2
    <3>2. \E i \in I : \A j \in I : i <= j
      BY <3>1, LeastElement
    <3> QED BY <3>2
  <2>3. k \in 1 .. Len(s) /\ s[k] = x
    BY <2>2
  <2> HIDE DEF k, I
  <2>4. /\ r \in Seq(S) /\ Len(r) = Len(s) - 1
        /\ \A j \in 1 .. Len(s) - 1 : r[j] = IF j < k THEN s[j] ELSE s[j + 1]
    BY <2>3, RemoveAtIs
  <2> HIDE DEF r
  <2> DEFINE old(i) == IF i < k THEN i ELSE i + 1
             new(i) == IF i < k THEN i ELSE i - 1
  <2>5. DOMAIN r = 1 .. Len(s) - 1 /\ DOMAIN s = 1 .. Len(s) /\ Len(s) \in Nat
    BY <2>4
  <2>6. \A i \in DOMAIN r : old(i) \in DOMAIN s /\ old(i) # k /\ r[i] = s[old(i)]
    BY <2>3, <2>4, <2>5
  <2>7. \A i \in DOMAIN s : i # k => new(i) \in DOMAIN r /\ r[new(i)] = s[i]
    <3> SUFFICES ASSUME NEW i \in DOMAIN s, i # k PROVE new(i) \in DOMAIN r /\ r[new(i)] = s[i]
      OBVIOUS
    <3>1. CASE i < k
      BY <2>3, <2>4, <2>5, <3>1
    <3>2. CASE k < i
      <4>1. i - 1 \in 1 .. Len(s) - 1 /\ ~(i - 1 < k) /\ (i - 1) + 1 = i
        BY <2>3, <2>5, <3>2
      <4> QED BY <2>3, <2>4, <2>5, <3>2, <4>1
    <3> QED BY <2>3, <2>5, <3>1, <3>2
  <2>8. Distinct(r)
    <3> SUFFICES ASSUME NEW i \in DOMAIN r, NEW j \in DOMAIN r, r[i] = r[j] PROVE i = j
      BY DEF Distinct
    <3>1. old(i) = old(j)
      BY <2>6 DEF Distinct
    <3> QED BY <2>3, <2>5, <3>1
  <2>9. ToSet(r) \subseteq ToSet(s) \ {x}
    <3> SUFFICES ASSUME NEW i \in DOMAIN r PROVE r[i] \in ToSet(s) /\ r[i] # x
      BY DEF ToSet
    <3>1. old(i) \in DOMAIN s /\ old(i) # k /\ r[i] = s[old(i)]
      BY <2>6
    <3> HIDE DEF old
    <3> QED BY <2>3, <2>5, <3>1 DEF Distinct, ToSet
  <2>10. ToSet(s) \ {x} \subseteq ToSet(r)
    <3> SUFFICES ASSUME NEW i \in DOMAIN s, s[i] # x PROVE s[i] \in ToSet(r)
      BY DEF ToSet
    <3>1. new(i) \in DOMAIN r /\ r[new(i)] = s[i]
      BY <2>3, <2>7
    <3> HIDE DEF new
    <3> QED BY <3>1 DEF ToSet
  <2> QED BY <2>1, <2>4, <2>8, <2>9, <2>10
<1> QED BY <1>1, <1>2
=============================================================================
