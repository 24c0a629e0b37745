-------------------------- MODULE PacketIdsProofs --------------------------
(***************************************************************************)
(* Packet identifiers: the scan of conn->sent_pkgids finds the smallest    *)
(* identifier that is not in the list (by induction over the list), and on *)
(* that rests the inductive invariant that gives each operation in flight  *)
(* an identifier, a queue and replies of its own.                          *)
(***************************************************************************)
EXTENDS PacketIds, ListLemmas, FiniteSetTheorems, TLAPS

USE PacketIdsAssumption

-----------------------------------------------------------------------------
(* The scan of the list.                                                    *)

ScanStart == [id |-> 1, at |-> 1, found |-> FALSE]

LEMMA IdsAreNatural == Ids \subseteq Nat /\ Cardinality(Ops) \in Nat /\ 1 .. MaxId \subseteq Ids
  BY FS_CardinalityType DEF Ids

\* The recursive definition of the scan does define a function.
IsScan(g, n) ==
    g = [k \in 0 .. n |-> IF k = 0 THEN ScanStart
                                   ELSE ScanValue(g[k - 1], sent_pkgids[k])]

LEMMA ScanEquation ==
  ASSUME sent_pkgids \in Seq(Ids)
  PROVE  IsScan(ScanAfter, Len(sent_pkgids))
<1> DEFINE L == Len(sent_pkgids)
           Step(g, k) == IF k = 0 THEN ScanStart
                                  ELSE ScanValue(g[k - 1], sent_pkgids[k])
           G == {n \in 0 .. L : \E g : IsScan(g, n)}
<1>1. L \in Nat
  OBVIOUS
<1>2. 0 \in G
  <2> DEFINE g == [k \in 0 .. 0 |-> ScanStart]
  <2>1. IsScan(g, 0)
    BY DEF IsScan
  <2>2. QED
    BY <1>1, <2>1
<1>3. ASSUME NEW n \in 1 .. L, n - 1 \in G PROVE n \in G
  <2>1. PICK g : IsScan(g, n - 1)
    BY <1>3
  <2> DEFINE h == [k \in 0 .. n |-> IF k = n THEN Step(g, n) ELSE g[k]]
  <2>2. ASSUME NEW k \in 0 .. n PROVE h[k] = Step(h, k)
    <3>1. CASE k = n
      <4>1. n - 1 \in 0 .. n /\ n - 1 # n /\ n # 0
        BY <1>1
      <4>2. h[n - 1] = g[n - 1]
        BY <4>1
      <4>3. QED
        BY <3>1, <4>1, <4>2
    <3>2. CASE k # n
      <4>1. k \in 0 .. n - 1 /\ (k # 0 => k - 1 \in 0 .. n /\ k - 1 # n)
        BY <1>1, <3>2
      <4>2. h[k] = g[k] /\ g[k] = Step(g, k)
        BY <2>1, <3>2, <4>1 DEF IsScan
      <4>3. k # 0 => h[k - 1] = g[k - 1]
        BY <4>1
      <4>4. QED
        BY <4>2, <4>3
    <3>3. QED
      BY <3>1, <3>2
  <2>3. IsScan(h, n)
    BY <2>2 DEF IsScan
  <2>4. QED
    BY <1>1, <2>3
<1>4. L \in G
  <2> HIDE DEF G
  <2>1. 0 .. L \subseteq G
    BY <1>1, <1>2, <1>3, IntervalInduction
  <2>2. QED
    BY <1>1, <2>1
<1>5. \E g : IsScan(g, L)
  BY <1>4
<1>6. ScanAfter = CHOOSE g : IsScan(g, L)
  BY DEF ScanAfter, ScanStart, IsScan
<1>7. QED
  BY <1>5, <1>6

\* It moves one value further at a time until it has found a candidate, and
\* never counts past the values it has seen.
ScanBounds(k) ==
    /\ ScanAfter[k] \in [id : 1 .. k + 1, at : 1 .. k + 1, found : BOOLEAN]
    /\ \/ ~ScanAfter[k].found /\ ScanAfter[k].at = k + 1
       \/ ScanAfter[k].found /\ ScanAfter[k].at <= k

LEMMA ScanIsBounded ==
  ASSUME sent_pkgids \in Seq(Ids)
  PROVE  \A k \in 0 .. Len(sent_pkgids) : ScanBounds(k)
<1> DEFINE L == Len(sent_pkgids)
           G == {k \in 0 .. L : ScanBounds(k)}
<1>1. L \in Nat /\ DOMAIN sent_pkgids = 1 .. L
  OBVIOUS
<1>2. 0 \in G
  <2>1. ScanAfter[0] = ScanStart
    BY <1>1, ScanEquation DEF IsScan
  <2>2. ScanBounds(0)
    <3>1. 1 \in 1 .. 0 + 1 /\ 1 = 0 + 1
      OBVIOUS
    <3>2. ScanStart \in [id : 1 .. 0 + 1, at : 1 .. 0 + 1, found : BOOLEAN]
      BY <3>1 DEF ScanStart
    <3>3. ~ScanStart.found /\ ScanStart.at = 0 + 1
      BY <3>1 DEF ScanStart
    <3>4. QED
      BY <2>1, <3>2, <3>3, Zenon DEF ScanBounds
  <2>3. QED
    BY <1>1, <2>2
<1>3. ASSUME NEW k \in 1 .. L, k - 1 \in G PROVE k \in G
  <2> DEFINE s == ScanAfter[k - 1]
             v == sent_pkgids[k]
  <2>1. ScanAfter[k] = ScanValue(s, v)
    BY <1>1, ScanEquation DEF IsScan
  <2>2. /\ s \in [id : 1 .. k, at : 1 .. k, found : BOOLEAN]
        /\ s.at = k \/ (s.found /\ s.at <= k - 1)
    <3>1. k - 1 + 1 = k
      OBVIOUS
    <3>2. QED
      BY <1>3, <3>1 DEF ScanBounds
  <2> HIDE DEF s, v
  <2>3. PICK id \in 1 .. k, at \in 1 .. k, found \in BOOLEAN :
            s = [id |-> id, at |-> at, found |-> found]
    BY <2>2
  <2>4. at = k \/ (found = TRUE /\ at <= k - 1)
    BY <2>2, <2>3
  <2> DEFINE t == ScanValue(s, v)
  <2>5. \/ t = [id |-> id, at |-> at, found |-> TRUE] /\ found = TRUE
        \/ t = [id |-> id, at |-> at + 1, found |-> FALSE] /\ found = FALSE
        \/ t = [id |-> id + 1, at |-> at + 1, found |-> FALSE] /\ found = FALSE
        \/ t = [id |-> id, at |-> at, found |-> TRUE] /\ found = FALSE
    <3>1. CASE found = TRUE
      BY <2>3, <3>1 DEF ScanValue
    <3>2. CASE found = FALSE
      BY <2>3, <3>2 DEF ScanValue
    <3>3. QED
      BY <3>1, <3>2
  <2> HIDE DEF t
  <2>6. /\ t \in [id : 1 .. k + 1, at : 1 .. k + 1, found : BOOLEAN]
        /\ (~t.found /\ t.at = k + 1) \/ (t.found /\ t.at <= k)
    <3>1. /\ id \in 1 .. k + 1 /\ id + 1 \in 1 .. k + 1
          /\ at \in 1 .. k + 1 /\ at + 1 \in 1 .. k + 1 /\ at <= k
      BY <1>1
    <3>2. CASE t = [id |-> id, at |-> at, found |-> TRUE]
      BY <3>1, <3>2
    <3>3. CASE t = [id |-> id, at |-> at + 1, found |-> FALSE] /\ found = FALSE
      <4>1. at + 1 = k + 1
        BY <2>4, <3>3
      <4>2. QED
        BY <3>1, <3>3, <4>1
    <3>4. CASE t = [id |-> id + 1, at |-> at + 1, found |-> FALSE] /\ found = FALSE
      <4>1. at + 1 = k + 1
        BY <2>4, <3>4
      <4>2. QED
        BY <3>1, <3>4, <4>1
    <3>5. QED
      BY <2>5, <3>2, <3>3, <3>4
  <2>7. ScanBounds(k)
    BY <2>1, <2>6 DEF ScanBounds, t
  <2>8. QED
    BY <2>7
<1>4. QED
  <2> HIDE DEF G
  <2>1. 0 .. L \subseteq G
    BY <1>1, <1>2, <1>3, IntervalInduction
  <2>2. QED
    BY <2>1 DEF G

\* The list begins with 1, 2 .. m, and the next value is not m + 1.
InitialRun(m) ==
    /\ m \in 0 .. Len(sent_pkgids)
    /\ \A k \in 1 .. m : sent_pkgids[k] = k
    /\ m < Len(sent_pkgids) => sent_pkgids[m + 1] # m + 1

LEMMA RunExists ==
  ASSUME sent_pkgids \in Seq(Ids)
  PROVE  \E m : InitialRun(m)
<1> DEFINE L == Len(sent_pkgids)
           T == {k \in 0 .. L : k = L \/ sent_pkgids[k + 1] # k + 1}
<1>1. T \in SUBSET Nat /\ L \in T
  OBVIOUS
<1>2. PICK m \in T : \A k \in T : m <= k
  BY <1>1, LeastElement
<1>3. ASSUME NEW k \in 1 .. m PROVE sent_pkgids[k] = k
  <2>1. k - 1 \in 0 .. L /\ k - 1 < m /\ k - 1 # L /\ k - 1 + 1 = k
    BY <1>1, <1>2
  <2>2. k - 1 \notin T
    BY <1>1, <1>2, <2>1
  <2>3. QED
    BY <2>1, <2>2
<1>4. QED
  BY <1>1, <1>2, <1>3 DEF InitialRun

\* The value after the run, and each that follows, is larger than m + 1.
LEMMA AfterRun ==
  ASSUME sent_pkgids \in Seq(Ids), Ascending(sent_pkgids),
         NEW m, InitialRun(m)
  PROVE  /\ m + 1 \notin ToSet(sent_pkgids)
         /\ \A k \in m + 1 .. Len(sent_pkgids) : m + 1 < sent_pkgids[k]
<1> DEFINE L == Len(sent_pkgids)
<1>1. L \in Nat /\ m \in 0 .. L /\ DOMAIN sent_pkgids = 1 .. L
  BY DEF InitialRun
<1>2. \A k \in 1 .. L : sent_pkgids[k] \in Nat \ {0}
  BY <1>1, IdsAreNatural DEF Ids
<1>3. ASSUME m < L PROVE m + 1 < sent_pkgids[m + 1]
  <2>1. m >= 1 => sent_pkgids[m] = m /\ sent_pkgids[m] < sent_pkgids[m + 1]
    BY <1>1, <1>3 DEF InitialRun, Ascending
  <2>2. sent_pkgids[m + 1] # m + 1
    BY <1>1, <1>3 DEF InitialRun
  <2>3. QED
    BY <1>1, <1>2, <1>3, <2>1, <2>2
<1>4. ASSUME NEW k \in m + 1 .. L PROVE m + 1 < sent_pkgids[k]
  <2>1. m < L /\ k \in 1 .. L /\ m + 1 \in 1 .. L /\ (k = m + 1 \/ m + 1 < k)
    BY <1>1
  <2>2. CASE k = m + 1
    BY <1>3, <2>1, <2>2
  <2>3. CASE m + 1 < k
    <3>1. sent_pkgids[m + 1] < sent_pkgids[k]
      BY <1>1, <2>1, <2>3 DEF Ascending
    <3>2. QED
      BY <1>1, <1>2, <1>3, <2>1, <3>1
  <2>4. QED
    BY <2>1, <2>2, <2>3
<1>5. ASSUME NEW k \in 1 .. L PROVE sent_pkgids[k] # m + 1
  <2>1. CASE k <= m
    BY <1>1, <2>1 DEF InitialRun
  <2>2. CASE k > m
    BY <1>1, <1>2, <1>4, <2>2
  <2>3. QED
    BY <1>1, <2>1, <2>2
<1>6. QED
  BY <1>1, <1>4, <1>5 DEF ToSet

\* While nothing is locked or awaited but what the list holds, the scan stops
\* after the initial run.
LEMMA ScanFindsTheRun ==
  ASSUME sent_pkgids \in Seq(Ids), Ascending(sent_pkgids),
         locked \subseteq ToSet(sent_pkgids),
         \A i \in Ids : Waited(i) => i \in ToSet(sent_pkgids),
         NEW m, InitialRun(m)
  PROVE  Scan = [id |-> m + 1, at |-> m + 1, found |-> m < Len(sent_pkgids)]
<1> DEFINE L == Len(sent_pkgids)
           On(k) == [id |-> k + 1, at |-> k + 1, found |-> FALSE]
           Stopped == [id |-> m + 1, at |-> m + 1, found |-> TRUE]
<1>1. L \in Nat /\ m \in 0 .. L /\ DOMAIN sent_pkgids = 1 .. L
  BY DEF InitialRun
<1>2. ScanAfter[0] = On(0)
  BY <1>1, ScanEquation DEF IsScan, ScanStart
<1>3. \A k \in 1 .. L : ScanAfter[k] = ScanValue(ScanAfter[k - 1], sent_pkgids[k])
  BY <1>1, ScanEquation DEF IsScan
<1>4. \A k \in 0 .. m : ScanAfter[k] = On(k)
  <2> DEFINE G == {k \in 0 .. m : ScanAfter[k] = On(k)}
  <2>1. 0 \in G
    BY <1>1, <1>2
  <2>2. ASSUME NEW k \in 1 .. m, k - 1 \in G PROVE k \in G
    <3>1. ScanAfter[k] = ScanValue(On(k - 1), k)
      BY <1>1, <1>3, <2>2 DEF InitialRun
    <3>2. On(k - 1) = [id |-> k, at |-> k, found |-> FALSE]
      <4>1. k - 1 + 1 = k
        BY <1>1
      <4>2. QED
        BY <4>1, Zenon
    <3>3. ScanValue([id |-> k, at |-> k, found |-> FALSE], k) = On(k)
      <4> DEFINE r == [id |-> k, at |-> k, found |-> FALSE]
      <4>1. ~ r.found /\ ~ (r.id > k) /\ r.id = k /\ r.at = k
        BY <1>1
      <4>2. Taken(r.id, k)
        BY <4>1 DEF Taken
      <4>3. ScanValue(r, k) = [r EXCEPT !.id = r.id + 1, !.at = r.at + 1]
        BY <4>1, <4>2 DEF ScanValue
      <4>4. QED
        BY <4>3
    <3>4. QED
      BY <3>1, <3>2, <3>3
  <2>3. QED
    <3> HIDE DEF G
    <3>1. 0 .. m \subseteq G
      BY <1>1, <2>1, <2>2, IntervalInduction
    <3>2. QED
      BY <3>1 DEF G
<1>5. CASE m = L
  <2>1. Scan = On(m) /\ (m < L) = FALSE
    <3>1. m \in 0 .. m /\ ~ (m < L)
      BY <1>1, <1>5
    <3>2. ScanAfter[m] = On(m)
      BY <1>4, <3>1
    <3>3. QED
      <4>1. Scan = On(m)
        BY <1>5, <3>2 DEF Scan
      <4>2. QED
        BY <3>1, <4>1
  <2>2. QED
    BY <2>1, Zenon
<1>6. CASE m < L
  <2>1. m + 1 \in Ids /\ m + 1 < sent_pkgids[m + 1]
    <3>1. m + 1 < sent_pkgids[m + 1]
      BY <1>1, <1>6, AfterRun
    <3>2. sent_pkgids[m + 1] \in Ids
      BY <1>1, <1>6
    <3>3. QED
      BY <1>1, <3>1, <3>2, IdsAreNatural DEF Ids
  <2>2. ~ Taken(m + 1, sent_pkgids[m + 1])
    BY <1>1, <1>6, <2>1, AfterRun DEF Taken
  <2>3. ScanAfter[m + 1] = Stopped
    <3>1. ScanAfter[m + 1] = ScanValue(On(m), sent_pkgids[m + 1])
      <4>1. m + 1 \in 1 .. L /\ m + 1 - 1 = m /\ m \in 0 .. m
        BY <1>1, <1>6
      <4>2. ScanAfter[m + 1] = ScanValue(ScanAfter[m + 1 - 1], sent_pkgids[m + 1])
        BY <1>3, <4>1
      <4>3. ScanAfter[m] = On(m)
        BY <1>4, <4>1
      <4>4. QED
        BY <4>1, <4>2, <4>3, Zenon
    <3>2. sent_pkgids[m + 1] \in Nat
      BY <1>1, <1>6, IdsAreNatural
    <3>3. ~ On(m).found /\ ~ (On(m).id > sent_pkgids[m + 1]) /\ On(m).id = m + 1
      BY <1>1, <2>1, <3>2
    <3>4. ScanValue(On(m), sent_pkgids[m + 1]) = [On(m) EXCEPT !.found = TRUE]
      BY <2>2, <3>3 DEF ScanValue
    <3>5. QED
      BY <3>1, <3>4
  <2>4. ASSUME NEW v PROVE ScanValue(Stopped, v) = Stopped
    BY DEF ScanValue
  <2> DEFINE G == {k \in 0 .. L : k >= m + 1 => ScanAfter[k] = Stopped}
  <2>5. 0 \in G
    BY <1>1
  <2>6. ASSUME NEW k \in 1 .. L, k - 1 \in G PROVE k \in G
    <3>1. CASE k - 1 >= m + 1
      <4>1. ScanAfter[k] = ScanValue(Stopped, sent_pkgids[k])
        BY <1>1, <1>3, <2>6, <3>1
      <4>2. ScanAfter[k] = Stopped
        BY <2>4, <4>1
      <4>3. QED
        BY <1>1, <4>2
    <3>2. CASE k = m + 1
      BY <2>3, <3>2
    <3>3. CASE k < m + 1
      BY <1>1, <3>3
    <3>4. QED
      BY <1>1, <3>1, <3>2, <3>3
  <2>7. L \in G
    <3> HIDE DEF G
    <3>1. 0 .. L \subseteq G
      BY <1>1, <2>5, <2>6, IntervalInduction
    <3>2. QED
      BY <1>1, <3>1
  <2>8. QED
    <3>1. Scan = Stopped /\ (m < L) = TRUE
      BY <1>1, <1>6, <2>7 DEF Scan
    <3>2. QED
      BY <3>1, Zenon
<1>7. QED
  BY <1>1, <1>5, <1>6

-----------------------------------------------------------------------------
(* The identifier an operation gets.                                        *)

LEMMA FirstUnlockedExists ==
  /\ FirstUnlocked \in 1 .. MaxId
  /\ locked = {} => FirstUnlocked = 1
<1> DEFINE T == {i \in 1 .. MaxId : i = MaxId \/ i \notin locked}
           First(i) == /\ i = MaxId \/ i \notin locked
                       /\ \A j \in 1 .. i - 1 : j \in locked
<1>1. T \in SUBSET Nat /\ MaxId \in T
  OBVIOUS
<1>2. PICK x \in T : \A y \in T : x <= y
  BY <1>1, LeastElement
<1>3. First(x)
  BY <1>1, <1>2
<1>4. FirstUnlocked = CHOOSE i \in 1 .. MaxId : First(i)
  BY DEF FirstUnlocked
<1>5. FirstUnlocked \in 1 .. MaxId /\ First(FirstUnlocked)
  BY <1>2, <1>3, <1>4
<1>6. QED
  BY <1>5

\* What a new identifier is, whatever the state of the tables.
LEMMA NextPkgIdType ==
  ASSUME sent_pkgids \in Seq(Ids), Len(sent_pkgids) < Cardinality(Ops)
  PROVE  /\ NextPkgId.id \in Ids
         /\ NextPkgId.list \in Seq(Ids)
         /\ Len(NextPkgId.list) = Len(sent_pkgids) + 1
         /\ NextPkgId.lock \subseteq Ids
<1> DEFINE L == Len(sent_pkgids)
<1>1. L \in Nat /\ Cardinality(Ops) \in Nat /\ MaxId \in Nat
  BY IdsAreNatural
<1>2. CASE sent_pkgids = <<>> /\ \A i \in Ids : ~Waited(i)
  <2>1. FirstUnlocked \in Ids
    BY FirstUnlockedExists, IdsAreNatural
  <2>2. NextPkgId = [id |-> FirstUnlocked, list |-> <<FirstUnlocked>>,
                     lock |-> {FirstUnlocked} \ {MaxId}]
    BY <1>2 DEF NextPkgId
  <2>3. QED
    BY <1>2, <2>1, <2>2
<1>3. CASE ~ (sent_pkgids = <<>> /\ \A i \in Ids : ~Waited(i))
  <2>1. /\ Scan.id \in 1 .. L + 1 /\ Scan.at \in 1 .. L + 1
        /\ Scan.found => Scan.at <= L
    BY <1>1, ScanIsBounded DEF ScanBounds, Scan
  <2>2. Scan.id \in Ids
    BY <1>1, <2>1 DEF Ids
  <2>3. CASE Scan.found
    <3>1. NextPkgId = [id |-> Scan.id, list |-> InsertAt(sent_pkgids, Scan.at, Scan.id),
                       lock |-> {Scan.id}]
      BY <1>3, <2>3 DEF NextPkgId
    <3>2. Scan.at \in 1 .. L
      BY <1>1, <2>1, <2>3
    <3>3. QED
      BY <2>2, <3>1, <3>2, InsertAtProperties
  <2>4. CASE ~ Scan.found
    <3>1. NextPkgId = [id |-> Scan.id, list |-> Append(sent_pkgids, Scan.id), lock |-> {}]
      BY <1>3, <2>4 DEF NextPkgId
    <3>2. QED
      BY <2>2, <3>1
  <2>5. QED
    BY <2>3, <2>4
<1>4. QED
  BY <1>2, <1>3

\* While nothing is locked or awaited but what the list holds, the identifier
\* is new to the list, and the list stays in order.
LEMMA NextPkgIdIsFree ==
  ASSUME sent_pkgids \in Seq(Ids), Len(sent_pkgids) < Cardinality(Ops),
         Ascending(sent_pkgids),
         locked \subseteq ToSet(sent_pkgids),
         \A i \in Ids : Waited(i) => i \in ToSet(sent_pkgids)
  PROVE  /\ NextPkgId.id \notin ToSet(sent_pkgids)
         /\ ToSet(NextPkgId.list) = ToSet(sent_pkgids) \cup {NextPkgId.id}
         /\ Ascending(NextPkgId.list)
         /\ NextPkgId.lock \subseteq {NextPkgId.id}
<1> DEFINE L == Len(sent_pkgids)
<1>1. CASE sent_pkgids = <<>> /\ \A i \in Ids : ~Waited(i)
  <2>1. ToSet(sent_pkgids) = {} /\ locked = {}
    BY <1>1 DEF ToSet
  <2>2. FirstUnlocked = 1
    BY <2>1, FirstUnlockedExists
  <2>3. NextPkgId = [id |-> 1, list |-> <<1>>, lock |-> {1} \ {MaxId}]
    BY <1>1, <2>2 DEF NextPkgId
  <2>4. DOMAIN <<1>> = {1} /\ <<1>>[1] = 1
    OBVIOUS
  <2>5. ToSet(<<1>>) = {1}
    BY <2>4 DEF ToSet
  <2>6. Ascending(<<1>>)
    BY <2>4 DEF Ascending
  <2>7. QED
    BY <2>1, <2>3, <2>5, <2>6
<1>2. CASE ~ (sent_pkgids = <<>> /\ \A i \in Ids : ~Waited(i))
  <2>1. PICK m : InitialRun(m)
    BY RunExists
  <2>2. L \in Nat /\ m \in 0 .. L /\ DOMAIN sent_pkgids = 1 .. L
    BY <2>1 DEF InitialRun
  <2>3. Scan = [id |-> m + 1, at |-> m + 1, found |-> m < L]
    BY <2>1, ScanFindsTheRun
  <2>4. /\ m + 1 \notin ToSet(sent_pkgids)
        /\ \A k \in m + 1 .. L : m + 1 < sent_pkgids[k]
    BY <2>1, AfterRun
  <2>5. \A k \in 1 .. m : sent_pkgids[k] = k
    BY <2>1 DEF InitialRun
  <2>6. m + 1 \in Ids
    BY <2>2, IdsAreNatural DEF Ids
  <2>7. CASE m < L
    <3> DEFINE r == InsertAt(sent_pkgids, m + 1, m + 1)
    <3>1. NextPkgId = [id |-> m + 1, list |-> r, lock |-> {m + 1}]
      BY <1>2, <2>3, <2>7 DEF NextPkgId
    <3>2. m + 1 \in 1 .. L
      BY <2>2, <2>7
    <3>3. /\ r \in Seq(Ids) /\ Len(r) = L + 1
          /\ ToSet(r) = ToSet(sent_pkgids) \cup {m + 1}
          /\ \A i \in 1 .. L + 1 : r[i] = IF i < m + 1 THEN sent_pkgids[i]
                                   ELSE IF i = m + 1 THEN m + 1 ELSE sent_pkgids[i - 1]
      <4>1. \A n \in 1 .. L : n \in Ids =>
               /\ InsertAt(sent_pkgids, n, n) \in Seq(Ids)
               /\ Len(InsertAt(sent_pkgids, n, n)) = L + 1
               /\ ToSet(InsertAt(sent_pkgids, n, n)) = ToSet(sent_pkgids) \cup {n}
               /\ \A i \in 1 .. L + 1 : InsertAt(sent_pkgids, n, n)[i] =
                     IF i < n THEN sent_pkgids[i]
                     ELSE IF i = n THEN n ELSE sent_pkgids[i - 1]
        BY InsertAtProperties, SMTT(30)
      <4>2. QED
        BY <2>6, <3>2, <4>1, Zenon
    <3> HIDE DEF r
    <3>4. ASSUME NEW i \in 1 .. L + 1, NEW j \in 1 .. L + 1, i < j
          PROVE  r[i] < r[j]
      <4>1. CASE i < m + 1 /\ j <= m + 1
        BY <2>2, <2>5, <3>3, <3>4, <4>1, SMTT(30)
      <4>2. CASE i < m + 1 /\ j > m + 1
        <5>1. r[i] = i /\ r[j] = sent_pkgids[j - 1] /\ j - 1 \in m + 1 .. L
          BY <2>2, <2>5, <3>3, <4>2
        <5>2. m + 1 < sent_pkgids[j - 1] /\ sent_pkgids[j - 1] \in Nat
          BY <2>2, <2>4, <5>1, IdsAreNatural
        <5>3. QED
          BY <2>2, <4>2, <5>1, <5>2
      <4>3. CASE i = m + 1
        <5>1. r[i] = m + 1 /\ r[j] = sent_pkgids[j - 1] /\ j - 1 \in m + 1 .. L
          BY <2>2, <3>3, <3>4, <4>3
        <5>2. QED
          BY <2>4, <5>1
      <4>4. CASE i > m + 1
        <5>1. /\ r[i] = sent_pkgids[i - 1] /\ r[j] = sent_pkgids[j - 1]
              /\ i - 1 \in 1 .. L /\ j - 1 \in 1 .. L /\ i - 1 < j - 1
          BY <2>2, <3>3, <3>4, <4>4
        <5>2. QED
          BY <2>2, <5>1 DEF Ascending
      <4>5. QED
        BY <2>2, <4>1, <4>2, <4>3, <4>4
    <3>5. Ascending(r)
      <4>1. DOMAIN r = 1 .. L + 1
        BY <3>3
      <4>2. QED
        BY <3>4, <4>1 DEF Ascending
    <3>6. QED
      BY <2>4, <3>1, <3>3, <3>5
  <2>8. CASE m = L
    <3> DEFINE r == Append(sent_pkgids, m + 1)
    <3>1. NextPkgId = [id |-> m + 1, list |-> r, lock |-> {}]
      <4>1. Scan.id = m + 1 /\ ~Scan.found
        <5>1. ~ (m < L)
          BY <2>2, <2>8
        <5>2. Scan.id = m + 1 /\ Scan.found = (m < L)
          BY <2>3, Zenon
        <5>3. QED
          BY <5>1, <5>2
      <4>2. QED
        BY <1>2, <4>1 DEF NextPkgId
    <3>2. ToSet(r) = ToSet(sent_pkgids) \cup {m + 1}
      BY <2>6, AppendSet
    <3>3. DOMAIN r = 1 .. L + 1 /\ \A i \in 1 .. L + 1 : r[i] = i
      BY <2>2, <2>5, <2>8, AppendProperties
    <3>4. Ascending(r)
      BY <3>3 DEF Ascending
    <3>5. QED
      BY <2>4, <3>1, <3>2, <3>4
  <2>9. QED
    BY <2>2, <2>7, <2>8
<1>3. QED
  BY <1>1, <1>2

-----------------------------------------------------------------------------
(* Types.  The list is not longer than the operations that began, so that   *)
(* an identifier is not larger than the operations: Ids is large enough.    *)

Begun == {o \in Ops : pc[o] # "idle"}

TypeInv ==
    /\ TypeOK
    /\ Len(sent_pkgids) <= Cardinality(Begun)
    /\ \A o \in Begun : pkg_id[o] # 0
    /\ \A o \in Ops : pc[o] = "waiting" => waits_on[o] # None

LEMMA InitTypeInv == Init => TypeInv
<1> SUFFICES ASSUME Init PROVE TypeInv
  OBVIOUS
<1>1. Begun = {} /\ Cardinality({}) = 0
  BY FS_EmptySet DEF Init, Begun
<1>2. <<>> \in Seq(Ids) /\ <<>> \in Seq(Request) /\ Len(<<>>) = 0
  OBVIOUS
<1>3. Leftover \subseteq Ids
  BY IdsAreNatural
<1>4. TypeOK
  BY <1>2, <1>3, IdsAreNatural DEF Init, TypeOK
<1>5. QED
  BY <1>1, <1>2, <1>4 DEF Init, TypeInv

\* An operation that has begun is counted once.
LEMMA BegunCounts ==
  /\ IsFiniteSet(Begun) /\ Cardinality(Begun) \in Nat
  /\ \A o \in Ops : pc[o] = "idle" =>
        /\ Cardinality(Begun \cup {o}) = Cardinality(Begun) + 1
        /\ Cardinality(Begun) < Cardinality(Ops)
<1>1. Begun \subseteq Ops
  BY DEF Begun
<1>2. IsFiniteSet(Begun) /\ Cardinality(Begun) \in Nat
  BY <1>1, FS_Subset, FS_CardinalityType
<1>3. ASSUME NEW o \in Ops, pc[o] = "idle"
      PROVE  /\ Cardinality(Begun \cup {o}) = Cardinality(Begun) + 1
             /\ Cardinality(Begun) < Cardinality(Ops)
  <2>1. o \notin Begun
    BY <1>3 DEF Begun
  <2>2. Cardinality(Begun \cup {o}) = Cardinality(Begun) + 1
    BY <1>2, <2>1, FS_AddElement
  <2>3. Cardinality(Begun \cup {o}) <= Cardinality(Ops)
    BY <1>1, FS_Subset
  <2>4. QED
    BY <1>2, <2>2, <2>3, IdsAreNatural
<1>4. QED
  BY <1>2, <1>3

\* An operation that goes on has already been counted.
LEMMA GoesOn ==
  ASSUME TypeInv, NEW o \in Ops, pc[o] # "idle",
         NEW s, s # "idle", pc' = [pc EXCEPT ![o] = s]
  PROVE  Begun' = Begun
  BY DEF TypeInv, TypeOK, Begun

LEMMA ReleaseType ==
  ASSUME TypeInv, NEW o \in Ops, Release(o) \/ UNCHANGED idVars
  PROVE  /\ sent_pkgids' \in Seq(Ids) /\ Len(sent_pkgids') <= Len(sent_pkgids)
         /\ locked' \subseteq Ids
         /\ UNCHANGED <<recovered, storage_ok>>
<1>1. CASE Release(o)
  BY <1>1, RemoveFirstProperties DEF Release, TypeInv, TypeOK
<1>2. CASE UNCHANGED idVars
  BY <1>2 DEF idVars, TypeInv, TypeOK
<1>3. QED
  BY <1>1, <1>2

LEMMA TypeStep == TypeInv /\ [Next]_vars => TypeInv'
<1> SUFFICES ASSUME TypeInv, [Next]_vars PROVE TypeInv'
  OBVIOUS
<1>0. /\ Len(sent_pkgids) \in Nat /\ Cardinality(Begun) \in Nat
      /\ Cardinality(Ops) \in Nat
      /\ Len(sent_pkgids) <= Cardinality(Begun)
  BY BegunCounts, IdsAreNatural DEF TypeInv, TypeOK
<1> USE DEF TypeInv, TypeOK
<1>1. ASSUME NEW o \in Ops, Allocate(o) PROVE TypeInv'
  <2>1. /\ pc[o] = "idle" /\ o \notin Begun
        /\ UNCHANGED <<recovered, storage_ok, is_ok, wait_replies, queue, waits_on,
                       accepted, resent, round, requests, replies>>
    BY <1>1 DEF Allocate, replyVars, netVars, Begun
  <2>0. /\ Cardinality(Begun \cup {o}) = Cardinality(Begun) + 1
        /\ Cardinality(Begun) < Cardinality(Ops)
    BY <2>1, BegunCounts
  <2>2. /\ pkg_id' = [pkg_id EXCEPT ![o] = pkg_id'[o]]
        /\ pkg_id'[o] \in Ids
        /\ sent_pkgids' \in Seq(Ids) /\ Len(sent_pkgids') <= Len(sent_pkgids) + 1
        /\ locked' \subseteq Ids
    <3>1. 1 \in Ids
      <4>1. 1 \in 1 .. MaxId
        OBVIOUS
      <4>2. QED
        BY <4>1, IdsAreNatural
    <3>2. Len(sent_pkgids) < Cardinality(Ops)
      BY <1>0, <2>0
    <3>3. CASE storage_ok
      BY <1>1, <3>2, <3>3, NextPkgIdType DEF Allocate
    <3>4. CASE ~storage_ok
      BY <1>1, <3>1, <3>4 DEF Allocate
    <3>5. QED
      BY <3>3, <3>4
  <2>3. \/ pc' = [pc EXCEPT ![o] = "built"]
        \/ pc' = [pc EXCEPT ![o] = "failed"]
    BY <1>1 DEF Allocate
  <2>4. Begun' = Begun \cup {o}
    BY <2>3 DEF Begun
  <2>5. Len(sent_pkgids') <= Cardinality(Begun')
    <3>1. Len(sent_pkgids') \in Nat
      BY <2>2
    <3>2. QED
      BY <1>0, <2>0, <2>2, <2>4, <3>1
  <2>6. \A p \in Begun' : pkg_id'[p] # 0
    <3>1. pkg_id'[o] # 0
      BY <2>2, IdsAreNatural DEF Ids
    <3>2. \A p \in Begun : p # o => pkg_id'[p] = pkg_id[p]
      BY <2>2 DEF Begun
    <3>3. QED
      BY <2>1, <2>4, <3>1, <3>2
  <2>7. QED
    BY <2>1, <2>2, <2>3, <2>5, <2>6, ZenonT(30)
<1>2. ASSUME NEW o \in Ops, AllocateFlush(o) PROVE TypeInv'
  <2>1. FlushId[o] \in Ids /\ FlushId[o] # 0
    BY <1>2, IdsAreNatural DEF AllocateFlush
  <2>2. /\ Begun' = Begun \cup {o} /\ pc[o] = "idle"
        /\ UNCHANGED sent_pkgids
    BY <1>2 DEF AllocateFlush, Begun, idVars
  <2>3. Len(sent_pkgids') <= Cardinality(Begun')
    <3>1. Cardinality(Begun \cup {o}) = Cardinality(Begun) + 1
      BY <2>2, BegunCounts
    <3>2. QED
      BY <1>0, <2>2, <3>1
  <2>4. QED
    BY <1>2, <2>1, <2>2, <2>3 DEF AllocateFlush, Begun, idVars, replyVars, netVars
<1>3. ASSUME NEW o \in Ops, StoreFails(o) PROVE TypeInv'
  <2>1. Begun' = Begun
    BY <1>3, GoesOn DEF StoreFails
  <2>2. Release(o)
    BY <1>3 DEF StoreFails
  <2>3. QED
    BY <1>3, <2>1, <2>2, ReleaseType, BegunCounts DEF StoreFails, replyVars, opVars, netVars
<1>4. ASSUME NEW o \in Ops, Prepare(o) PROVE TypeInv'
  <2>1. Begun' = Begun
    BY <1>4, GoesOn DEF Prepare
  <2>2. /\ wait_replies' \in [Ids -> Ops \cup {None}]
        /\ queue' \in [Ops -> Seq(Request)]
    <3>1. <<>> \in Seq(Request)
      OBVIOUS
    <3>2. QED
      BY <1>4, <3>1 DEF Prepare
  <2>3. QED
    BY <1>4, <2>1, <2>2 DEF Prepare, idVars, opVars, netVars
<1>5. ASSUME NEW o \in Ops, Send(o) PROVE TypeInv'
  <2>1. Begun' = Begun
    BY <1>5, GoesOn DEF Send
  <2>2. pkg_id[o] \in Ids
    BY <1>5 DEF Send, Begun
  <2>3. [op |-> o, id |-> pkg_id[o], round |-> round[o]] \in Request
    BY <2>2 DEF Request
  <2>4. QED
    BY <1>5, <2>1, <2>3 DEF Send, idVars, replyVars, opVars
<1>6. ASSUME NEW o \in Ops, SendFails(o) PROVE TypeInv'
  <2>1. Begun' = Begun
    BY <1>6, GoesOn DEF SendFails
  <2>2. Release(o) \/ UNCHANGED idVars
    BY <1>6 DEF SendFails, ReleaseOnFailure
  <2>3. QED
    BY <1>6, <2>1, <2>2, ReleaseType, BegunCounts DEF SendFails, replyVars, opVars, netVars
<1>7. ASSUME NEW o \in Ops, Wait(o) PROVE TypeInv'
  <2>1. Begun' = Begun
    BY <1>7, GoesOn DEF Wait
  <2>2. pkg_id[o] \in Ids
    BY <1>7 DEF Wait, Begun
  <2>3. wait_replies[pkg_id[o]] \in Ops
    BY <1>7, <2>2 DEF Wait, Waited
  <2>4. QED
    BY <1>7, <2>1, <2>3 DEF Wait, idVars, opVars, netVars
<1>8. ASSUME NEW o \in Ops, WaitFails(o) PROVE TypeInv'
  <2>1. Begun' = Begun
    BY <1>8, GoesOn DEF WaitFails
  <2>2. Release(o) \/ UNCHANGED idVars
    BY <1>8 DEF WaitFails, ReleaseOnFailure
  <2>3. QED
    BY <1>8, <2>1, <2>2, ReleaseType, BegunCounts DEF WaitFails, replyVars, opVars, netVars
<1>9. ASSUME NEW o \in Ops, TakeReply(o) PROVE TypeInv'
  <2> DEFINE q == queue[waits_on[o]]
             right == ReplyType(Head(q)) = ExpectedType(o)
  <2>1. waits_on[o] \in Ops /\ q \in Seq(Request) /\ q # <<>>
    BY <1>9 DEF TakeReply
  <2>2. Head(q) \in Request /\ Tail(q) \in Seq(Request)
    BY <2>1
  <2>3. Release(o) \/ UNCHANGED idVars
    BY <1>9 DEF TakeReply, ReleaseOnFailure
  <2>4. \/ pc' = [pc EXCEPT ![o] = "failed"] /\ round' = round
        \/ pc' = [pc EXCEPT ![o] = "built"] /\ round' = [round EXCEPT ![o] = 2]
        \/ pc' = [pc EXCEPT ![o] = "replied"] /\ round' = round
    BY <1>9 DEF TakeReply
  <2>5. Begun' = Begun
    BY <1>9, <2>4, GoesOn DEF TakeReply
  <2>6. /\ queue' \in [Ops -> Seq(Request)]
        /\ accepted' \subseteq Ops \X Request
        /\ wait_replies' \in [Ids -> Ops \cup {None}]
        /\ waits_on' = [waits_on EXCEPT ![o] = None]
        /\ UNCHANGED <<is_ok, pkg_id, resent, requests, replies>>
    <3>1. queue' = [queue EXCEPT ![waits_on[o]] = Tail(q)]
      BY <1>9 DEF TakeReply
    <3>2. accepted' = accepted \/ accepted' = accepted \cup {<<o, Head(q)>>}
      BY <1>9 DEF TakeReply
    <3>3. wait_replies' = [wait_replies EXCEPT ![pkg_id[o]] = None]
      BY <1>9 DEF TakeReply, EntryDeleted
    <3>4. queue' \in [Ops -> Seq(Request)]
      BY <2>1, <2>2, <3>1
    <3>5. accepted' \subseteq Ops \X Request
      BY <2>2, <3>2
    <3>6. wait_replies' \in [Ids -> Ops \cup {None}]
      BY <3>3
    <3>7. QED
      BY <1>9, <3>4, <3>5, <3>6 DEF TakeReply, opVars, netVars
  <2>7. /\ pc' \in [Ops -> {"idle", "built", "prepared", "sent", "waiting",
                            "replied", "done", "failed"}]
        /\ round' \in [Ops -> {1, 2}]
    <3>1. CASE pc' = [pc EXCEPT ![o] = "failed"] /\ round' = round
      BY <3>1
    <3>2. CASE pc' = [pc EXCEPT ![o] = "built"] /\ round' = [round EXCEPT ![o] = 2]
      BY <3>2
    <3>3. CASE pc' = [pc EXCEPT ![o] = "replied"] /\ round' = round
      BY <3>3
    <3>4. QED
      BY <2>4, <3>1, <3>2, <3>3
  <2>8. /\ sent_pkgids' \in Seq(Ids) /\ Len(sent_pkgids') <= Len(sent_pkgids)
        /\ locked' \subseteq Ids
        /\ UNCHANGED <<recovered, storage_ok>>
    BY <2>3, ReleaseType
  <2>9. Len(sent_pkgids') <= Cardinality(Begun')
    <3>1. Len(sent_pkgids') \in Nat
      BY <2>8
    <3>2. QED
      BY <1>0, <2>5, <2>8, <3>1
  <2>10. \A p \in Ops : pc'[p] = "waiting" => waits_on'[p] # None
    BY <2>4, <2>6
  <2>11. QED
    BY <2>5, <2>6, <2>7, <2>8, <2>9, <2>10
<1>10. ASSUME NEW o \in Ops, GiveUp(o) PROVE TypeInv'
  <2>1. Begun' = Begun
    BY <1>10, GoesOn DEF GiveUp
  <2>2. Release(o) \/ UNCHANGED idVars
    BY <1>10 DEF GiveUp, ReleaseOnFailure
  <2>3. QED
    <3>1. wait_replies' \in [Ids -> Ops \cup {None}]
      BY <1>10 DEF GiveUp, EntryDeleted
    <3>2. QED
      BY <1>10, <2>1, <2>2, <3>1, ReleaseType, BegunCounts DEF GiveUp, opVars, netVars
<1>11. ASSUME NEW o \in Ops, Complete(o) PROVE TypeInv'
  <2>1. Begun' = Begun
    BY <1>11, GoesOn DEF Complete
  <2>2. Release(o)
    BY <1>11 DEF Complete
  <2>3. QED
    BY <1>11, <2>1, <2>2, ReleaseType, BegunCounts DEF Complete, replyVars, opVars, netVars
<1>12. ASSUME NEW r \in requests, PeerAnswers(r) PROVE TypeInv'
  BY <1>12 DEF PeerAnswers, idVars, replyVars, opVars, Begun
<1>13. ASSUME NEW r \in replies, HandleReply(r) PROVE TypeInv'
  <2>1. r \in Request /\ r.id \in Ids
    BY DEF Request
  <2>2. queue' \in [Ops -> Seq(Request)]
    <3>1. CASE Waited(r.id)
      <4>1. wait_replies[r.id] \in Ops
        BY <2>1, <3>1 DEF Waited
      <4>2. Append(queue[wait_replies[r.id]], r) \in Seq(Request)
        BY <2>1, <4>1
      <4>3. QED
        BY <1>13, <3>1, <4>1, <4>2, ZenonT(30) DEF HandleReply
    <3>2. CASE ~Waited(r.id)
      BY <1>13, <3>2 DEF HandleReply
    <3>3. QED
      BY <3>1, <3>2
  <2>3. QED
    BY <1>13, <2>2 DEF HandleReply, idVars, opVars, Begun
<1>14. CASE ConnDown
  BY <1>14 DEF ConnDown, idVars, replyVars, opVars, Begun
<1>15. CASE UNCHANGED vars
  BY <1>15 DEF vars, Begun
<1>16. QED
  BY <1>1, <1>2, <1>3, <1>4, <1>5, <1>6, <1>7, <1>8, <1>9, <1>10, <1>11, <1>12,
     <1>13, <1>14, <1>15 DEF Next, Op

\* The model keeps its types; in particular no identifier is larger than the
\* number of operations or the largest one.
THEOREM PacketIdsTypeCorrect == Spec => []TypeOK
<1>1. TypeInv => TypeOK
  BY DEF TypeInv
<1>2. QED
  BY <1>1, InitTypeInv, TypeStep, PTL DEF Spec

-----------------------------------------------------------------------------
(* The inductive invariant.                                                 *)

Pub(o) == Kind[o] # "sub"

Listed == ToSet(sent_pkgids)

\* The operation has a queue installed, or is on its way to wait on it.
AwaitingSteps == {"prepared", "sent", "waiting"}
Awaiting(o)   == pc[o] \in AwaitingSteps

\* Where the identifiers are: the list is in order, and a lock belongs to an
\* identifier of the list, each of which belongs to an operation.
IdsInv ==
    /\ resent = {}
    /\ Ascending(sent_pkgids)
    /\ locked \subseteq Listed
    /\ \A i \in Listed : \E o \in Ops : /\ pkg_id[o] = i
                                        /\ InFlight(o) \/ pc[o] = "failed"
    /\ \A o \in Ops : InFlight(o) => pkg_id[o] \in Listed
    /\ \A o, p \in Ops : o # p /\ InFlight(o) /\ InFlight(p) => pkg_id[o] # pkg_id[p]

\* __myqtt_reader_remove_wait_reply left the queue it freed in the hash.
LeftBySend(o) == ~is_ok /\ pc[o] = "failed"

\* Which queue is installed for an identifier, and which one is waited on.
EntriesInv ==
    /\ \A i \in Ids : Waited(i) =>
          /\ pkg_id[wait_replies[i]] = i
          /\ Awaiting(wait_replies[i]) \/ LeftBySend(wait_replies[i])
    /\ \A o \in Ops : Awaiting(o) => wait_replies[pkg_id[o]] = o
    /\ \A o \in Ops : pc[o] = "waiting" => waits_on[o] = o

\* What a publish asked, and was answered, while it is on its way: nobody else
\* can take it, because its identifier is still in the list.
MessagesInv ==
    /\ \A r \in requests \cup replies : Pub(r.op) =>
          /\ pkg_id[r.op] = r.id
          /\ r.id \in Listed
          /\ pc[r.op] \in {"sent", "waiting", "failed"}
          /\ pc[r.op] # "failed" => r.round = round[r.op]
          /\ \A p \in Ops : p # r.op /\ InFlight(p) => pkg_id[p] # r.id

\* An answer is in one place at a time, and a queue holds only the answers to
\* the publish that installed it, after it has asked.
QueuesInv ==
    /\ \A q \in Ops : pc[q] = "idle" => queue[q] = <<>>
    /\ \A q \in Ops : pc[q] # "failed" => \A e \in ToSet(queue[q]) :
          Pub(e.op) => e.op = q /\ e.id = pkg_id[q] /\ pc[q] # "prepared"
    /\ \A r \in requests, s \in replies :
          Pub(r.op) /\ r.op = s.op => pc[r.op] = "failed"
    /\ \A r \in requests \cup replies : \A e \in ToSet(queue[r.op]) :
          Pub(r.op) /\ e.op = r.op => pc[r.op] = "failed"

\* What was accepted.
AcceptedInv ==
    \A a \in accepted :
        /\ pc[a[1]] # "idle"
        /\ Pub(a[1]) => a[2].op = a[1] /\ a[2].id = pkg_id[a[1]]

FreshInv == IdsInv /\ EntriesInv /\ MessagesInv /\ QueuesInv /\ AcceptedInv

\* Invariant of a session that began with the connection.
PacketIdsInv == TypeInv /\ (FreshSession => FreshInv)

LEMMA InitFresh == Init => (FreshSession => FreshInv)
<1> SUFFICES ASSUME Init, FreshSession PROVE FreshInv
  OBVIOUS
<1>1. /\ Listed = {} /\ Ascending(sent_pkgids) /\ locked = {}
  BY DEF Init, FreshSession, Listed, ToSet, Ascending
<1>2. IdsInv
  BY <1>1 DEF Init, IdsInv, InFlight
<1>3. EntriesInv
  BY DEF Init, EntriesInv, Awaiting, AwaitingSteps, Waited
<1>4. MessagesInv /\ QueuesInv /\ AcceptedInv
  BY DEF Init, MessagesInv, QueuesInv, AcceptedInv, ToSet
<1>5. QED
  BY <1>2, <1>3, <1>4 DEF FreshInv

-----------------------------------------------------------------------------
(* Steps of an operation that has its identifier.                           *)

\* Each such step moves the operation on; it keeps the identifier, or gives it
\* back and ends.
Flying == {"built", "prepared", "sent", "waiting", "replied"}

Moves(o) ==
    /\ InFlight(o)
    /\ UNCHANGED <<pkg_id, resent>>
    /\ \/ /\ Release(o)
          /\ \E s \in {"failed", "done"} : pc' = [pc EXCEPT ![o] = s]
       \/ /\ UNCHANGED idVars
          /\ \E s \in Flying \cup {"failed"} : pc' = [pc EXCEPT ![o] = s]

LEMMA OpMoves ==
  ASSUME NEW o \in Ops, Op(o) \/ StoreFails(o)
  PROVE  Moves(o)
<1>1. CASE StoreFails(o)
  BY <1>1 DEF StoreFails, Moves, InFlight, opVars
<1>2. CASE Prepare(o) \/ Send(o) \/ Wait(o) \/ Complete(o)
  BY <1>2 DEF Prepare, Send, Wait, Complete, Moves, InFlight, opVars, Flying
<1>3. CASE SendFails(o)
  BY <1>3 DEF SendFails, ReleaseOnFailure, Moves, InFlight, opVars, Flying
<1>4. CASE WaitFails(o)
  BY <1>4 DEF WaitFails, ReleaseOnFailure, Moves, InFlight, opVars, Flying
<1>5. CASE GiveUp(o)
  BY <1>5 DEF GiveUp, ReleaseOnFailure, Moves, InFlight, opVars, Flying
<1>6. CASE TakeReply(o)
  BY <1>6 DEF TakeReply, ReleaseOnFailure, Moves, InFlight, opVars, Flying
<1>7. QED
  BY <1>1, <1>2, <1>3, <1>4, <1>5, <1>6 DEF Op

\* The identifiers after such a step.
LEMMA MovesKeepIds ==
  ASSUME TypeInv, IdsInv, NEW o \in Ops, Moves(o)
  PROVE  /\ IdsInv'
         /\ \/ Listed' = Listed
            \/ Listed' = Listed \ {pkg_id[o]} /\ Release(o)
         /\ \A p \in Ops \ {o} : InFlight(p)' = InFlight(p) /\ pc'[p] = pc[p]
<1> USE DEF TypeInv, TypeOK
<1>1. /\ InFlight(o) /\ pkg_id' = pkg_id /\ resent' = resent
  BY DEF Moves
<1>2. \A p \in Ops \ {o} : InFlight(p)' = InFlight(p) /\ pc'[p] = pc[p]
  BY DEF Moves, InFlight
<1>3. CASE Release(o) /\ \E s \in {"failed", "done"} : pc' = [pc EXCEPT ![o] = s]
  <2>1. Listed' = Listed \ {pkg_id[o]} /\ Ascending(sent_pkgids')
    BY <1>3, RemoveFirstProperties, IdsAreNatural DEF Release, Listed, IdsInv
  <2>2. locked' = locked \ {pkg_id[o]}
    BY <1>3 DEF Release
  <2>3. ~ InFlight(o)'
    BY <1>3 DEF InFlight
  <2>4. \A p \in Ops : InFlight(p)' => p # o /\ InFlight(p)
    BY <1>2, <2>3
  <2>5. ASSUME NEW i \in Listed'
        PROVE  \E p \in Ops : pkg_id'[p] = i /\ (InFlight(p)' \/ pc'[p] = "failed")
    <3>1. PICK p \in Ops : pkg_id[p] = i /\ (InFlight(p) \/ pc[p] = "failed")
      BY <2>1 DEF IdsInv
    <3>2. p # o
      BY <2>1, <3>1
    <3>3. QED
      BY <1>1, <1>2, <3>1, <3>2
  <2>6. \A p \in Ops : InFlight(p)' => pkg_id'[p] \in Listed'
    BY <1>1, <2>1, <2>4 DEF IdsInv
  <2>7. \A p, q \in Ops : p # q /\ InFlight(p)' /\ InFlight(q)' => pkg_id'[p] # pkg_id'[q]
    BY <1>1, <2>4 DEF IdsInv
  <2>8. IdsInv'
    BY <1>1, <2>1, <2>2, <2>5, <2>6, <2>7 DEF IdsInv
  <2>9. QED
    BY <1>2, <1>3, <2>1, <2>8
<1>4. CASE /\ UNCHANGED idVars
           /\ \E s \in Flying \cup {"failed"} : pc' = [pc EXCEPT ![o] = s]
  <2>1. /\ sent_pkgids' = sent_pkgids /\ locked' = locked /\ Listed' = Listed
    BY <1>4 DEF idVars, Listed
  <2>2. InFlight(o)' \/ pc'[o] = "failed"
    BY <1>4 DEF InFlight, Flying
  <2>3. \A p \in Ops : InFlight(p)' => InFlight(p)
    BY <1>1, <1>2
  <2>4. \A p \in Ops : InFlight(p) \/ pc[p] = "failed" => InFlight(p)' \/ pc'[p] = "failed"
    BY <1>2, <2>2
  <2>5. IdsInv'
    BY <1>1, <2>1, <2>3, <2>4 DEF IdsInv
  <2>6. QED
    BY <1>2, <2>1, <2>5
<1>5. QED
  BY <1>3, <1>4 DEF Moves

\* The first allocation of an identifier.
LEMMA AllocateKeepsIds ==
  ASSUME TypeInv, FreshSession, FreshInv, NEW o \in Ops, Allocate(o)
  PROVE  /\ IdsInv'
         /\ is_ok /\ pc[o] = "idle"
         /\ pkg_id' = [pkg_id EXCEPT ![o] = pkg_id'[o]]
         /\ pkg_id'[o] \notin Listed
         /\ Listed \subseteq Listed'
         /\ \E s \in {"built", "failed"} : pc' = [pc EXCEPT ![o] = s]
<1> DEFINE i == NextPkgId.id
<1> USE DEF TypeInv, TypeOK
<1>1. pc[o] = "idle" /\ is_ok /\ storage_ok /\ o \notin Begun
  BY DEF Allocate, FreshSession, Begun
<1>2. Len(sent_pkgids) < Cardinality(Ops)
  <2>1. /\ Cardinality(Begun) < Cardinality(Ops) /\ Cardinality(Begun) \in Nat
        /\ Len(sent_pkgids) \in Nat /\ Cardinality(Ops) \in Nat
    <3>1. Cardinality(Begun) < Cardinality(Ops)
      BY <1>1, BegunCounts
    <3>2. Cardinality(Begun) \in Nat /\ Cardinality(Ops) \in Nat
      BY BegunCounts, IdsAreNatural
    <3>3. QED
      BY <3>1, <3>2
  <2>2. QED
    BY <2>1
<1>3. \A n \in Ids : Waited(n) => n \in Listed
  <2>1. ASSUME NEW n \in Ids, Waited(n) PROVE n \in Listed
    <3>1. wait_replies[n] \in Ops
      BY <2>1 DEF Waited
    <3>2. pkg_id[wait_replies[n]] = n /\ InFlight(wait_replies[n])
      BY <1>1, <2>1, <3>1 DEF FreshInv, EntriesInv, Awaiting, AwaitingSteps, InFlight,
                              LeftBySend
    <3>3. QED
      BY <3>1, <3>2 DEF FreshInv, IdsInv
  <2>2. QED
    BY <2>1
<1>4. /\ i \in Ids /\ i \notin Listed
      /\ ToSet(NextPkgId.list) = Listed \cup {i}
      /\ Ascending(NextPkgId.list)
      /\ NextPkgId.lock \subseteq {i}
  BY <1>2, <1>3, NextPkgIdType, NextPkgIdIsFree DEF FreshInv, IdsInv, Listed
<1>5. /\ pkg_id' = [pkg_id EXCEPT ![o] = i] /\ resent' = resent
      /\ \/ /\ sent_pkgids' = sent_pkgids /\ locked' = locked
            /\ pc' = [pc EXCEPT ![o] = "failed"]
         \/ /\ sent_pkgids' = NextPkgId.list /\ locked' = locked \cup NextPkgId.lock
            /\ \E s \in {"built", "failed"} : pc' = [pc EXCEPT ![o] = s]
  BY <1>1 DEF Allocate
<1> HIDE DEF i
<1>6. /\ \A p \in Ops \ {o} : InFlight(p)' = InFlight(p) /\ pc'[p] = pc[p] /\ pkg_id'[p] = pkg_id[p]
      /\ pkg_id'[o] = i
      /\ ~InFlight(o) /\ (InFlight(o)' \/ pc'[o] = "failed")
  BY <1>1, <1>5 DEF InFlight
<1>7. /\ Listed \subseteq Listed' /\ Listed' \subseteq Listed \cup {i}
      /\ Ascending(sent_pkgids') /\ locked' \subseteq Listed'
      /\ InFlight(o)' => i \in Listed'
  <2>1. CASE /\ sent_pkgids' = sent_pkgids /\ locked' = locked
             /\ pc' = [pc EXCEPT ![o] = "failed"]
    BY <2>1 DEF Listed, FreshInv, IdsInv, InFlight
  <2>2. CASE sent_pkgids' = NextPkgId.list /\ locked' = locked \cup NextPkgId.lock
    BY <1>4, <2>2 DEF Listed, FreshInv, IdsInv
  <2>3. QED
    BY <1>5, <2>1, <2>2
<1>8. ASSUME NEW n \in Listed'
      PROVE  \E p \in Ops : pkg_id'[p] = n /\ (InFlight(p)' \/ pc'[p] = "failed")
  <2>1. CASE n = i
    BY <1>6, <2>1
  <2>2. CASE n \in Listed
    <3>1. PICK p \in Ops : pkg_id[p] = n /\ (InFlight(p) \/ pc[p] = "failed")
      BY <2>2 DEF FreshInv, IdsInv
    <3>2. p # o
      BY <1>1, <3>1 DEF InFlight
    <3>3. QED
      BY <1>6, <3>1, <3>2
  <2>3. QED
    BY <1>7, <2>1, <2>2
<1>9. \A p \in Ops : InFlight(p)' => pkg_id'[p] \in Listed'
  BY <1>6, <1>7, ZenonT(30) DEF FreshInv, IdsInv
<1>10. \A p, q \in Ops : p # q /\ InFlight(p)' /\ InFlight(q)' => pkg_id'[p] # pkg_id'[q]
  <2>1. \A p \in Ops \ {o} : InFlight(p)' => pkg_id'[p] \in Listed
    BY <1>6 DEF FreshInv, IdsInv
  <2>2. \A p, q \in Ops \ {o} : p # q /\ InFlight(p)' /\ InFlight(q)' => pkg_id'[p] # pkg_id'[q]
    BY <1>6 DEF FreshInv, IdsInv
  <2>3. QED
    BY <1>4, <1>6, <2>1, <2>2
<1>11. IdsInv'
  BY <1>5, <1>7, <1>8, <1>9, <1>10 DEF FreshInv, IdsInv
<1>12. QED
  BY <1>1, <1>4, <1>5, <1>6, <1>7, <1>11

-----------------------------------------------------------------------------
(* Entries, messages and queues.                                            *)

\* What the steps of an operation in flight leave alone.
LEMMA OtherOps ==
  ASSUME TypeInv, NEW o \in Ops, Op(o) \/ StoreFails(o)
  PROVE  \A p \in Ops \ {o} : pc'[p] = pc[p] /\ pkg_id'[p] = pkg_id[p] /\ round'[p] = round[p]
<1>1. pkg_id' = pkg_id /\ \A p \in Ops \ {o} : pc'[p] = pc[p]
  BY OpMoves, SMTT(30) DEF Moves, TypeInv, TypeOK
<1>2. round' = round \/ round' = [round EXCEPT ![o] = 2]
  BY DEF Op, StoreFails, Prepare, Send, SendFails, Wait, WaitFails, TakeReply, GiveUp, Complete
<1>3. QED
  BY <1>1, <1>2 DEF TypeInv, TypeOK

\* An operation waits on the queue it installed.
LEMMA OwnQueue ==
  ASSUME TypeInv, FreshInv, NEW o \in Ops
  PROVE  /\ InFlight(o) => pkg_id[o] \in Ids
         /\ Awaiting(o) => wait_replies[pkg_id[o]] = o /\ Waited(pkg_id[o])
         /\ pc[o] = "waiting" => waits_on[o] = o
<1>1. InFlight(o) => pkg_id[o] \in Ids
  BY DEF TypeInv, TypeOK, Begun, InFlight
<1>2. QED
  BY <1>1 DEF FreshInv, EntriesInv, Waited

LEMMA EntriesStep ==
  ASSUME TypeInv, FreshSession, FreshInv, [Next]_vars, IdsInv'
  PROVE  EntriesInv'
<1> USE DEF TypeInv, TypeOK, FreshInv, EntriesInv
<1> USE DEF LeftBySend
<1> DEFINE Kept(p) == Awaiting(p) \/ LeftBySend(p)
           Own(i)  == pkg_id[wait_replies[i]] = i /\ Kept(wait_replies[i])
<1>0. \A p \in Ops : Awaiting(p) => InFlight(p)
  BY DEF Awaiting, AwaitingSteps, InFlight
<1>1. ASSUME NEW o \in Ops, Allocate(o) PROVE EntriesInv'
  <2>1. /\ pc[o] = "idle" /\ pkg_id' = [pkg_id EXCEPT ![o] = pkg_id'[o]]
        /\ \E s \in {"built", "failed"} : pc' = [pc EXCEPT ![o] = s]
    BY <1>1, AllocateKeepsIds
  <2>2. UNCHANGED <<is_ok, wait_replies, waits_on>>
    BY <1>1 DEF Allocate, replyVars
  <2>3. \A p \in Ops : Awaiting(p)' <=> Awaiting(p)
    BY <2>1 DEF Awaiting, AwaitingSteps
  <2>4. \A p \in Ops : Awaiting(p) => pkg_id'[p] = pkg_id[p]
    BY <2>1 DEF Awaiting, AwaitingSteps
  <2>5. ASSUME NEW i \in Ids, Waited(i) PROVE Own(i)'
    <3>1. is_ok /\ wait_replies[i] \in Ops
      BY <1>1, <2>5 DEF Allocate, Waited
    <3>2. pkg_id[wait_replies[i]] = i /\ Awaiting(wait_replies[i])
      BY <2>5, <3>1
    <3>3. QED
      BY <2>2, <2>3, <2>4, <3>1, <3>2
  <2>6. \A p \in Ops : pc'[p] = "waiting" => pc[p] = "waiting"
    BY <2>1
  <2>7. QED
    BY <2>2, <2>3, <2>4, <2>5, <2>6 DEF Waited, Awaiting
<1>2. ASSUME NEW o \in Ops, AllocateFlush(o) PROVE EntriesInv'
  BY <1>2 DEF AllocateFlush, FreshSession
<1>3. ASSUME NEW o \in Ops, Op(o) \/ StoreFails(o) PROVE EntriesInv'
  <2>1. /\ InFlight(o) /\ pkg_id' = pkg_id
        /\ \A p \in Ops \ {o} : pc'[p] = pc[p]
        /\ pkg_id[o] \in Ids
        /\ UNCHANGED is_ok
    <3>1. UNCHANGED is_ok
      BY <1>3 DEF Op, StoreFails, Prepare, Send, SendFails, Wait, WaitFails, TakeReply,
                  GiveUp, Complete
    <3>2. QED
      BY <1>3, <3>1, OpMoves, OtherOps, OwnQueue DEF Moves
  <2>2. \A p \in Ops \ {o} : /\ Awaiting(p)' <=> Awaiting(p)
                             /\ Awaiting(p) => pkg_id[p] # pkg_id[o]
    BY <1>0, <2>1 DEF Awaiting, AwaitingSteps, IdsInv
  <2>0. \A p \in Ops \ {o} : Kept(p) => Kept(p)'
    BY <2>1, <2>2
  <2>3. CASE Prepare(o)
    <3>1. /\ wait_replies' = [wait_replies EXCEPT ![pkg_id[o]] = o]
          /\ pc' = [pc EXCEPT ![o] = "prepared"] /\ waits_on' = waits_on
      BY <2>3 DEF Prepare
    <3>2. Awaiting(o)'
      BY <3>1 DEF Awaiting, AwaitingSteps
    <3>3. ASSUME NEW i \in Ids, Waited(i)' PROVE Own(i)'
      <4>1. CASE i = pkg_id[o]
        BY <2>1, <3>1, <3>2, <4>1
      <4>2. CASE i # pkg_id[o]
        <5>1. wait_replies'[i] = wait_replies[i] /\ Waited(i) /\ wait_replies[i] \in Ops
          BY <3>1, <3>3, <4>2 DEF Waited
        <5>2. Own(i) /\ wait_replies[i] # o
          BY <2>1, <3>3, <4>2, <5>1
        <5>3. QED
          BY <2>0, <2>1, <5>1, <5>2
      <4>3. QED
        BY <4>1, <4>2
    <3>4. \A p \in Ops : Awaiting(p)' => wait_replies'[pkg_id[p]] = p
      <4>1. wait_replies'[pkg_id[o]] = o
        BY <2>1, <3>1
      <4>2. ASSUME NEW p \in Ops \ {o}, Awaiting(p)' PROVE wait_replies'[pkg_id[p]] = p
        <5>1. Awaiting(p) /\ pkg_id[p] # pkg_id[o]
          BY <2>2, <4>2
        <5>2. wait_replies'[pkg_id[p]] = wait_replies[pkg_id[p]]
          BY <1>0, <3>1, <5>1, OwnQueue
        <5>3. QED
          BY <5>1, <5>2
      <4>3. QED
        BY <4>1, <4>2
    <3>5. \A p \in Ops : pc'[p] = "waiting" => waits_on'[p] = p
      BY <3>1
    <3>6. QED
      BY <2>1, <3>3, <3>4, <3>5 DEF Awaiting, Waited
  <2>4. CASE Send(o) \/ Wait(o)
    <3>1. /\ wait_replies' = wait_replies /\ Awaiting(o) /\ Awaiting(o)'
          /\ \A p \in Ops \ {o} : waits_on'[p] = waits_on[p]
          /\ pc'[o] = "waiting" => waits_on'[o] = wait_replies[pkg_id[o]]
      BY <2>4 DEF Send, Wait, Awaiting, AwaitingSteps, replyVars
    <3>2. \A p \in Ops : Awaiting(p)' <=> Awaiting(p)
      BY <2>2, <3>1
    <3>3. \A p \in Ops : pc'[p] = "waiting" => waits_on'[p] = p
      BY <2>1, <3>1
    <3>4. ASSUME NEW i \in Ids, Waited(i)' PROVE Own(i)'
      <4>1. Own(i) /\ wait_replies[i] \in Ops /\ wait_replies'[i] = wait_replies[i]
        BY <3>1, <3>4 DEF Waited
      <4>2. QED
        BY <2>0, <2>1, <3>1, <4>1
    <3>5. QED
      BY <2>1, <3>1, <3>2, <3>3, <3>4
  <2>5. CASE SendFails(o)
    <3>1. /\ ~is_ok /\ wait_replies' = wait_replies /\ waits_on' = waits_on
          /\ pc' = [pc EXCEPT ![o] = "failed"]
      BY <2>5 DEF SendFails, replyVars
    <3>2. \A p \in Ops : Awaiting(p)' => Awaiting(p)
      BY <3>1 DEF Awaiting, AwaitingSteps
    <3>3. ASSUME NEW i \in Ids, Waited(i)' PROVE Own(i)'
      <4>1. Own(i) /\ wait_replies[i] \in Ops /\ wait_replies'[i] = wait_replies[i]
        BY <3>1, <3>3 DEF Waited
      <4>2. LeftBySend(o)'
        BY <2>1, <3>1
      <4>3. QED
        BY <2>0, <2>1, <4>1, <4>2
    <3>4. QED
      BY <2>1, <3>1, <3>2, <3>3
  <2>6. CASE WaitFails(o)
    BY <2>6, OwnQueue DEF WaitFails, Awaiting, AwaitingSteps
  <2>7. CASE StoreFails(o) \/ Complete(o)
    <3>1. /\ wait_replies' = wait_replies /\ waits_on' = waits_on
          /\ ~Awaiting(o) /\ ~Awaiting(o)' /\ pc'[o] # "waiting"
      BY <2>7 DEF StoreFails, Complete, replyVars, Awaiting, AwaitingSteps
    <3>2. \A p \in Ops : Awaiting(p)' <=> Awaiting(p)
      BY <2>2, <3>1
    <3>3. ASSUME NEW i \in Ids, Waited(i)' PROVE Own(i)'
      <4>1. Own(i) /\ wait_replies[i] \in Ops /\ wait_replies'[i] = wait_replies[i]
        BY <3>1, <3>3 DEF Waited
      <4>2. wait_replies[i] # o
        BY <2>1, <3>1, <4>1 DEF InFlight
      <4>3. QED
        BY <2>0, <2>1, <4>1, <4>2
    <3>4. QED
      BY <2>1, <3>1, <3>2, <3>3
  <2>8. CASE TakeReply(o) \/ GiveUp(o)
    <3>1. /\ wait_replies' = [wait_replies EXCEPT ![pkg_id[o]] = None]
          /\ waits_on' = [waits_on EXCEPT ![o] = None]
          /\ ~Awaiting(o)' /\ pc'[o] # "waiting"
      BY <2>8 DEF TakeReply, GiveUp, EntryDeleted, Awaiting, AwaitingSteps
    <3>2. ASSUME NEW i \in Ids, Waited(i)' PROVE Own(i)'
      <4>1. i # pkg_id[o] /\ wait_replies'[i] = wait_replies[i] /\ Waited(i)
        BY <2>1, <3>1, <3>2 DEF Waited
      <4>2. wait_replies[i] \in Ops
        BY <4>1 DEF Waited
      <4>3. Own(i) /\ wait_replies[i] # o
        BY <2>1, <3>2, <4>1
      <4>4. QED
        BY <2>0, <2>1, <4>1, <4>2, <4>3
    <3>3. ASSUME NEW p \in Ops, Awaiting(p)' PROVE wait_replies'[pkg_id[p]] = p
      <4>1. p # o /\ Awaiting(p) /\ pkg_id[p] # pkg_id[o]
        BY <2>2, <3>1, <3>3
      <4>2. wait_replies'[pkg_id[p]] = wait_replies[pkg_id[p]]
        BY <1>0, <3>1, <4>1, OwnQueue
      <4>3. QED
        BY <4>1, <4>2
    <3>4. \A p \in Ops : pc'[p] = "waiting" => waits_on'[p] = p
      BY <2>1, <3>1
    <3>5. QED
      BY <2>1, <3>2, <3>3, <3>4 DEF Awaiting, Waited
  <2>9. QED
    BY <1>3, <2>3, <2>4, <2>5, <2>6, <2>7, <2>8 DEF Op
<1>4. ASSUME NEW r, PeerAnswers(r) \/ HandleReply(r) PROVE EntriesInv'
  <2>1. UNCHANGED <<is_ok, wait_replies, waits_on, pc, pkg_id>>
    BY <1>4 DEF PeerAnswers, HandleReply, replyVars, opVars
  <2>2. QED
    BY <2>1 DEF Awaiting, AwaitingSteps, Waited
<1>5. CASE ConnDown
  <2>1. is_ok /\ ~is_ok' /\ UNCHANGED <<wait_replies, waits_on, pc, pkg_id>>
    BY <1>5 DEF ConnDown, replyVars, opVars
  <2>2. QED
    BY <2>1 DEF Awaiting, AwaitingSteps, Waited
<1>6. CASE UNCHANGED vars
  BY <1>6 DEF vars, Awaiting, AwaitingSteps, Waited
<1>7. QED
  BY <1>1, <1>2, <1>3, <1>4, <1>5, <1>6 DEF Next

\* The answer a publish takes as right is its own.
LEMMA TakesOwn ==
  ASSUME TypeInv, FreshInv, NEW o \in Ops, TakeReply(o)
  PROVE  /\ waits_on[o] = o /\ queue[o] \in Seq(Request) /\ queue[o] # <<>>
         /\ Head(queue[o]) \in ToSet(queue[o])
         /\ ReplyType(Head(queue[o])) = ExpectedType(o) /\ Pub(o) =>
               Head(queue[o]).op = o /\ Head(queue[o]).id = pkg_id[o]
<1>1. waits_on[o] = o
  BY OwnQueue DEF TakeReply
<1>2. queue[o] \in Seq(Request) /\ queue[o] # <<>>
  BY <1>1 DEF TakeReply, TypeInv, TypeOK
<1>3. Head(queue[o]) \in ToSet(queue[o])
  BY <1>2, TailSet
<1>4. ASSUME ReplyType(Head(queue[o])) = ExpectedType(o), Pub(o)
      PROVE  Pub(Head(queue[o]).op)
  BY <1>4 DEF ReplyType, ExpectedType, Pub
<1>5. pc[o] = "waiting"
  BY DEF TakeReply
<1>6. QED
  BY <1>1, <1>2, <1>3, <1>4, <1>5 DEF FreshInv, QueuesInv

LEMMA MessagesStep ==
  ASSUME TypeInv, FreshSession, FreshInv, [Next]_vars, IdsInv'
  PROVE  MessagesInv'
<1> USE DEF TypeInv, TypeOK, FreshInv, MessagesInv
<1> DEFINE Sound(r) == /\ pkg_id[r.op] = r.id
                       /\ r.id \in Listed
                       /\ pc[r.op] \in {"sent", "waiting", "failed"}
                       /\ pc[r.op] # "failed" => r.round = round[r.op]
                       /\ \A p \in Ops : p # r.op /\ InFlight(p) => pkg_id[p] # r.id
<1>0. \A r \in requests \cup replies : r \in Request /\ r.op \in Ops /\ (Pub(r.op) => Sound(r))
  BY DEF Request
<1>1. ASSUME NEW o \in Ops, Allocate(o) PROVE MessagesInv'
  <2>1. /\ pc[o] = "idle" /\ pkg_id' = [pkg_id EXCEPT ![o] = pkg_id'[o]]
        /\ pkg_id'[o] \notin Listed /\ Listed \subseteq Listed'
        /\ \E s \in {"built", "failed"} : pc' = [pc EXCEPT ![o] = s]
    BY <1>1, AllocateKeepsIds
  <2>2. UNCHANGED <<is_ok, requests, replies, round>>
    BY <1>1 DEF Allocate, netVars
  <2>3. ASSUME NEW r \in requests \cup replies, Pub(r.op) PROVE Sound(r)'
    <3>1. Sound(r) /\ r.op # o /\ r.op \in Ops
      BY <1>0, <2>1, <2>3
    <3>2. pkg_id'[r.op] = pkg_id[r.op] /\ pc'[r.op] = pc[r.op]
      BY <2>1, <3>1
    <3>3. ASSUME NEW p \in Ops, p # r.op, InFlight(p)' PROVE pkg_id'[p] # r.id
      <4>1. CASE p = o
        BY <2>1, <3>1, <4>1
      <4>2. CASE p # o
        <5>1. InFlight(p) /\ pkg_id'[p] = pkg_id[p]
          BY <2>1, <3>3, <4>2 DEF InFlight
        <5>2. QED
          BY <3>1, <3>3, <5>1
      <4>3. QED
        BY <4>1, <4>2
    <3>4. QED
      BY <2>1, <2>2, <3>1, <3>2, <3>3
  <2>4. QED
    BY <2>2, <2>3
<1>2. ASSUME NEW o \in Ops, AllocateFlush(o) PROVE MessagesInv'
  BY <1>2 DEF AllocateFlush, FreshSession
<1>3. ASSUME NEW o \in Ops, Op(o) \/ StoreFails(o) PROVE MessagesInv'
  <2>1. /\ InFlight(o) /\ pkg_id' = pkg_id /\ UNCHANGED is_ok
        /\ \A p \in Ops \ {o} : pc'[p] = pc[p] /\ round'[p] = round[p]
        /\ \A p \in Ops : InFlight(p)' => InFlight(p)
        /\ \/ Listed' = Listed
           \/ Listed' = Listed \ {pkg_id[o]} /\ Release(o)
    <3>1. UNCHANGED is_ok
      BY <1>3 DEF Op, StoreFails, Prepare, Send, SendFails, Wait, WaitFails, TakeReply,
                  GiveUp, Complete
    <3>2. InFlight(o) /\ pkg_id' = pkg_id
      BY <1>3, OpMoves DEF Moves
    <3>3. \A p \in Ops \ {o} : pc'[p] = pc[p] /\ round'[p] = round[p] /\ InFlight(p)' = InFlight(p)
      BY <1>3, OtherOps, OpMoves, MovesKeepIds
    <3>4. QED
      BY <1>3, <3>1, <3>2, <3>3, OpMoves, MovesKeepIds
  <2>2. ASSUME NEW r \in requests \cup replies, Pub(r.op), r.op # o PROVE Sound(r)'
    <3>1. Sound(r) /\ r.op \in Ops /\ pkg_id[o] # r.id
      BY <1>0, <2>1, <2>2
    <3>2. r.id \in Listed'
      BY <2>1, <3>1
    <3>3. QED
      BY <2>1, <2>2, <3>1, <3>2
  <2>3. CASE Send(o)
    <3> DEFINE n == [op |-> o, id |-> pkg_id[o], round |-> round[o]]
    <3>1. /\ is_ok /\ requests' = requests \cup {n} /\ replies' = replies /\ round' = round
          /\ pc' = [pc EXCEPT ![o] = "sent"] /\ pc[o] = "prepared"
          /\ sent_pkgids' = sent_pkgids
      BY <2>3 DEF Send, idVars
    <3>2. \A r \in requests \cup replies : Pub(r.op) => r.op # o
      BY <1>0, <3>1
    <3>3. ASSUME NEW r, r.op = o, r.id = pkg_id[o], r.round = round[o] PROVE Sound(r)'
      <4>1. pkg_id[o] \in Listed' /\ pc'[o] = "sent"
        BY <2>1, <3>1 DEF IdsInv, Listed
      <4>2. \A p \in Ops : p # o /\ InFlight(p)' => pkg_id'[p] # pkg_id[o]
        BY <2>1 DEF IdsInv
      <4>3. QED
        BY <2>1, <3>1, <3>3, <4>1, <4>2
    <3>4. n.op = o /\ n.id = pkg_id[o] /\ n.round = round[o]
      OBVIOUS
    <3> HIDE DEF n
    <3>5. ASSUME NEW r \in requests' \cup replies', Pub(r.op) PROVE Sound(r)'
      BY <2>2, <3>1, <3>2, <3>3, <3>4, <3>5
    <3>6. QED
      BY <2>1, <3>1, <3>5
  <2>4. CASE UNCHANGED netVars
    <3>1. requests' = requests /\ replies' = replies
      BY <2>4 DEF netVars
    <3>2. ASSUME NEW r \in requests \cup replies, Pub(o), r.op = o PROVE Sound(r)'
      <4>1. Sound(r) /\ pc[o] \in {"sent", "waiting"}
        BY <1>0, <2>1, <3>2 DEF InFlight
      <4>2. /\ pc'[o] \in {"waiting", "failed"} /\ round' = round
            /\ UNCHANGED idVars
        <5>1. CASE Wait(o)
          BY <5>1 DEF Wait
        <5>2. CASE WaitFails(o)
          BY <3>2, <5>2 DEF WaitFails, ReleaseOnFailure, Pub
        <5>3. CASE GiveUp(o)
          BY <3>2, <5>3 DEF GiveUp, ReleaseOnFailure, Pub
        <5>4. CASE TakeReply(o)
          <6>1. ReplyType(Head(queue[o])) # ExpectedType(o)
            <7>1. SUFFICES ASSUME ReplyType(Head(queue[o])) = ExpectedType(o) PROVE FALSE
              OBVIOUS
            <7>2. PICK h \in ToSet(queue[o]) : h.op = o
              BY <3>2, <5>4, <7>1, TakesOwn
            <7>3. pc[r.op] = "failed"
              BY <3>2, <7>2, ZenonT(30) DEF QueuesInv
            <7>4. QED
              BY <3>2, <4>1, <7>3
          <6>2. QED
            BY <3>2, <5>4, <6>1, TakesOwn, ZenonT(30) DEF TakeReply, ReleaseOnFailure, Pub
        <5>5. CASE Prepare(o) \/ Send(o) \/ SendFails(o) \/ Complete(o) \/ StoreFails(o)
          BY <4>1, <5>5 DEF Prepare, Send, SendFails, Complete, StoreFails
        <5>6. QED
          BY <1>3, <5>1, <5>2, <5>3, <5>4, <5>5 DEF Op
      <4>3. Listed' = Listed
        BY <4>2 DEF idVars, Listed
      <4>4. QED
        BY <2>1, <3>2, <4>1, <4>2, <4>3
    <3>3. QED
      BY <2>1, <2>2, <3>1, <3>2
  <2>5. QED
    BY <1>3, <2>3, <2>4 DEF Op, StoreFails, Prepare, SendFails, Wait, WaitFails,
                           TakeReply, GiveUp, Complete
<1>4. ASSUME NEW r, r \in requests, PeerAnswers(r) PROVE MessagesInv'
  <2>1. /\ requests' \cup replies' = requests \cup replies
        /\ UNCHANGED <<pc, pkg_id, round, sent_pkgids>>
    BY <1>4 DEF PeerAnswers, idVars, opVars
  <2>2. QED
    BY <2>1 DEF InFlight, Listed
<1>5. ASSUME NEW r, r \in replies, HandleReply(r) PROVE MessagesInv'
  <2>1. /\ requests' \cup replies' \subseteq requests \cup replies
        /\ UNCHANGED <<pc, pkg_id, round, sent_pkgids>>
    BY <1>5 DEF HandleReply, idVars, opVars
  <2>2. QED
    BY <2>1 DEF InFlight, Listed
<1>6. CASE ConnDown
  <2>1. /\ requests' \cup replies' \subseteq requests \cup replies
        /\ UNCHANGED <<pc, pkg_id, round, sent_pkgids>>
    BY <1>6 DEF ConnDown, idVars, opVars
  <2>2. QED
    BY <2>1 DEF InFlight, Listed
<1>7. CASE UNCHANGED vars
  BY <1>7 DEF vars, InFlight, Listed
<1>8. QED
  BY <1>1, <1>2, <1>3, <1>4, <1>5, <1>6, <1>7 DEF Next

\* Two messages of a publish that goes on are the same message.
LEMMA OneMessage ==
  ASSUME TypeInv, MessagesInv, NEW r \in requests \cup replies, NEW s \in requests \cup replies,
         Pub(r.op), r.op = s.op, pc[r.op] # "failed"
  PROVE  r = s
<1>1. r \in Request /\ s \in Request
  BY DEF TypeInv, TypeOK
<1>2. r.id = s.id /\ r.round = s.round
  BY DEF MessagesInv
<1>3. QED
  BY <1>1, <1>2 DEF Request

\* Where a step of an operation leaves its queue.
LEMMA QueueOfStep ==
  ASSUME TypeInv, FreshInv, NEW o \in Ops, Op(o) \/ StoreFails(o)
  PROVE  /\ \A p \in Ops \ {o} : queue'[p] = queue[p]
         /\ ToSet(queue'[o]) \subseteq ToSet(queue[o])
         /\ pc'[o] # "idle"
         /\ pc'[o] = "prepared" => ToSet(queue'[o]) = {}
<1>1. CASE Prepare(o)
  <2>1. queue' = [queue EXCEPT ![o] = <<>>] /\ pc' = [pc EXCEPT ![o] = "prepared"]
    BY <1>1 DEF Prepare
  <2>2. ToSet(<<>>) = {}
    BY DEF ToSet
  <2>3. QED
    BY <2>1, <2>2 DEF TypeInv, TypeOK
<1>2. CASE TakeReply(o)
  <2>1. queue' = [queue EXCEPT ![o] = Tail(queue[o])]
    BY <1>2, TakesOwn DEF TakeReply, TypeInv, TypeOK
  <2>2. ToSet(Tail(queue[o])) \subseteq ToSet(queue[o])
    BY <1>2, TakesOwn, TailSet
  <2>3. pc'[o] \notin {"idle", "prepared"}
    BY <1>2 DEF TakeReply, TypeInv, TypeOK
  <2>4. QED
    BY <2>1, <2>2, <2>3 DEF TypeInv, TypeOK
<1>3. CASE Send(o) \/ SendFails(o) \/ Wait(o) \/ WaitFails(o) \/ GiveUp(o) \/ Complete(o)
             \/ StoreFails(o)
  <2>1. queue' = queue /\ pc'[o] \notin {"idle", "prepared"}
    BY <1>3 DEF Send, SendFails, Wait, WaitFails, GiveUp, Complete, StoreFails, replyVars,
                TypeInv, TypeOK
  <2>2. QED
    BY <2>1
<1>4. QED
  BY <1>1, <1>2, <1>3 DEF Op

LEMMA QueuesStep ==
  ASSUME TypeInv, FreshSession, FreshInv, [Next]_vars
  PROVE  QueuesInv'
<1> USE DEF TypeInv, TypeOK, FreshInv
<1>0. \A r \in requests \cup replies : r \in Request /\ r.op \in Ops /\ r.id \in Ids
  BY DEF Request
<1>1. ASSUME NEW o \in Ops, Allocate(o) PROVE QueuesInv'
  <2>1. /\ pc[o] = "idle" /\ pkg_id' = [pkg_id EXCEPT ![o] = pkg_id'[o]]
        /\ \E s \in {"built", "failed"} : pc' = [pc EXCEPT ![o] = s]
    BY <1>1, AllocateKeepsIds
  <2>2. UNCHANGED <<queue, requests, replies>>
    BY <1>1 DEF Allocate, netVars, replyVars
  <2>3. \A p \in Ops \ {o} : pc'[p] = pc[p] /\ pkg_id'[p] = pkg_id[p]
    BY <2>1
  <2>4. pc'[o] # "idle" /\ ToSet(queue[o]) = {}
    BY <2>1 DEF QueuesInv, ToSet
  <2>5. \A q \in Ops : pc[q] = "failed" => pc'[q] = "failed"
    BY <2>1
  <2>6. QED
    BY <1>0, <2>2, <2>3, <2>4, <2>5 DEF QueuesInv
<1>2. ASSUME NEW o \in Ops, AllocateFlush(o) PROVE QueuesInv'
  BY <1>2 DEF AllocateFlush, FreshSession
<1>3. ASSUME NEW o \in Ops, Op(o) \/ StoreFails(o) PROVE QueuesInv'
  <2>1. /\ InFlight(o) /\ pkg_id' = pkg_id
        /\ \A p \in Ops \ {o} : pc'[p] = pc[p]
    BY <1>3, OpMoves, OtherOps DEF Moves
  <2>2. /\ \A p \in Ops \ {o} : queue'[p] = queue[p]
        /\ \A q \in Ops : ToSet(queue'[q]) \subseteq ToSet(queue[q])
        /\ pc'[o] # "idle"
        /\ pc'[o] = "prepared" => ToSet(queue'[o]) = {}
    BY <1>3, QueueOfStep
  <2>3. \A q \in Ops : pc'[q] = "idle" => queue'[q] = <<>>
    BY <2>1, <2>2 DEF QueuesInv
  <2>4. \A q \in Ops : pc[q] = "failed" => q # o /\ pc'[q] = "failed"
    BY <2>1 DEF InFlight
  <2>5. ASSUME NEW q \in Ops, pc'[q] # "failed", NEW e \in ToSet(queue'[q]), Pub(e.op)
        PROVE  e.op = q /\ e.id = pkg_id'[q] /\ pc'[q] # "prepared"
    <3>1. e \in ToSet(queue[q]) /\ pc[q] # "failed"
      BY <2>2, <2>5, <2>4
    <3>2. QED
      BY <2>1, <2>2, <2>5, <3>1 DEF QueuesInv
  <2>6. CASE Send(o)
    <3> DEFINE n == [op |-> o, id |-> pkg_id[o], round |-> round[o]]
    <3>1. /\ requests' = requests \cup {n} /\ replies' = replies /\ pc[o] = "prepared"
          /\ n.op = o
      BY <2>6 DEF Send
    <3> HIDE DEF n
    <3>2. \A r \in requests \cup replies : Pub(r.op) => r.op # o
      BY <3>1 DEF MessagesInv
    <3>3. \A e \in ToSet(queue[o]) : ~ Pub(e.op)
      BY <3>1 DEF QueuesInv
    <3>4. \A r \in requests', s \in replies' : Pub(r.op) /\ r.op = s.op => pc'[r.op] = "failed"
      BY <1>0, <2>4, <3>1, <3>2 DEF QueuesInv
    <3>5. ASSUME NEW r \in requests' \cup replies', NEW e \in ToSet(queue'[r.op]),
                 Pub(r.op), e.op = r.op
          PROVE  pc'[r.op] = "failed"
      <4>1. r \in requests \cup replies
        BY <2>2, <3>1, <3>3, <3>5
      <4>2. QED
        BY <1>0, <2>2, <2>4, <3>5, <4>1 DEF QueuesInv
    <3>6. QED
      BY <2>3, <2>5, <3>4, <3>5 DEF QueuesInv
  <2>7. CASE UNCHANGED netVars
    <3>1. requests' = requests /\ replies' = replies
      BY <2>7 DEF netVars
    <3>2. \A r \in requests', s \in replies' : Pub(r.op) /\ r.op = s.op => pc'[r.op] = "failed"
      BY <1>0, <2>4, <3>1 DEF QueuesInv
    <3>3. ASSUME NEW r \in requests' \cup replies', NEW e \in ToSet(queue'[r.op]),
                 Pub(r.op), e.op = r.op
          PROVE  pc'[r.op] = "failed"
      BY <1>0, <2>2, <2>4, <3>1, <3>3 DEF QueuesInv
    <3>4. QED
      BY <2>3, <2>5, <3>2, <3>3 DEF QueuesInv
  <2>8. QED
    BY <1>3, <2>6, <2>7 DEF Op, StoreFails, Prepare, SendFails, Wait, WaitFails,
                           TakeReply, GiveUp, Complete
<1>4. ASSUME NEW r \in requests, PeerAnswers(r) PROVE QueuesInv'
  <2>1. /\ requests' = requests \ {r} /\ replies' = replies \cup {r}
        /\ requests' \cup replies' = requests \cup replies
        /\ UNCHANGED <<pc, pkg_id, queue>>
    BY <1>4 DEF PeerAnswers, opVars, replyVars
  <2>2. ASSUME NEW a \in requests', NEW s \in replies', Pub(a.op), a.op = s.op
        PROVE  pc[a.op] = "failed"
    <3>1. CASE s \in replies
      BY <2>1, <2>2, <3>1 DEF QueuesInv
    <3>2. CASE s = r
      BY <2>1, <2>2, <3>2, OneMessage
    <3>3. QED
      BY <2>1, <3>1, <3>2
  <2>3. QED
    BY <2>1, <2>2 DEF QueuesInv
<1>5. ASSUME NEW r \in replies, HandleReply(r) PROVE QueuesInv'
  <2>1. /\ requests' = requests /\ replies' = replies \ {r}
        /\ UNCHANGED <<pc, pkg_id>>
    BY <1>5 DEF HandleReply, opVars
  <2>2. CASE ~Waited(r.id)
    <3>1. queue' = queue
      BY <1>5, <2>2 DEF HandleReply
    <3>2. QED
      BY <2>1, <3>1 DEF QueuesInv
  <2>3. CASE Waited(r.id)
    <3> DEFINE q == wait_replies[r.id]
    <3>1. /\ q \in Ops /\ pkg_id[q] = r.id /\ pc[q] # "idle"
          /\ pc[q] # "failed" => InFlight(q)
      BY <1>0, <2>1, <2>3 DEF EntriesInv, LeftBySend, Waited, Awaiting, AwaitingSteps, InFlight
    <3>2. queue' = [queue EXCEPT ![q] = Append(queue[q], r)]
      BY <1>5, <2>3 DEF HandleReply
    <3> HIDE DEF q
    <3>3. ToSet(Append(queue[q], r)) = ToSet(queue[q]) \cup {r}
      BY <1>0, <3>1, AppendSet
    <3>4. /\ ToSet(queue'[q]) = ToSet(queue[q]) \cup {r}
          /\ \A p \in Ops \ {q} : queue'[p] = queue[p]
      BY <3>1, <3>2, <3>3
    <3>5. Pub(r.op) /\ pc[q] # "failed" => r.op = q /\ r.id = pkg_id[q] /\ pc[q] # "prepared"
      BY <1>0, <3>1 DEF MessagesInv
    <3>6. \A p \in Ops : pc'[p] = "idle" => queue'[p] = <<>>
      BY <2>1, <3>1, <3>4 DEF QueuesInv
    <3>7. \A p \in Ops : pc'[p] # "failed" => \A e \in ToSet(queue'[p]) :
            Pub(e.op) => e.op = p /\ e.id = pkg_id'[p] /\ pc'[p] # "prepared"
      BY <2>1, <3>1, <3>4, <3>5 DEF QueuesInv
    <3>8. ASSUME NEW a \in requests' \cup replies', NEW e \in ToSet(queue'[a.op]),
                 Pub(a.op), e.op = a.op
          PROVE  pc'[a.op] = "failed"
      <4>1. CASE e \in ToSet(queue[a.op])
        BY <2>1, <3>8, <4>1 DEF QueuesInv
      <4>2. CASE e = r /\ a.op = q /\ pc[q] # "failed"
        <5>1. a # r /\ r.op = a.op /\ a \in requests \cup replies
          <6>1. CASE a \in requests
            BY <2>1, <3>5, <3>8, <4>2, <6>1 DEF QueuesInv
          <6>2. CASE a \in replies'
            BY <2>1, <3>8, <4>2, <6>2
          <6>3. QED
            BY <2>1, <6>1, <6>2
        <5>2. QED
          BY <2>1, <3>8, <5>1, OneMessage
      <4>3. QED
        BY <1>0, <2>1, <3>4, <4>1, <4>2
    <3>9. QED
      BY <2>1, <3>6, <3>7, <3>8 DEF QueuesInv
  <2>4. QED
    BY <2>2, <2>3
<1>6. CASE ConnDown
  <2>1. requests' = {} /\ replies' \subseteq replies /\ UNCHANGED <<pc, pkg_id, queue>>
    BY <1>6 DEF ConnDown, opVars, replyVars
  <2>2. QED
    BY <2>1 DEF QueuesInv
<1>7. CASE UNCHANGED vars
  BY <1>7 DEF vars, QueuesInv
<1>8. QED
  BY <1>1, <1>2, <1>3, <1>4, <1>5, <1>6, <1>7 DEF Next

LEMMA AcceptedStep ==
  ASSUME TypeInv, FreshSession, FreshInv, [Next]_vars
  PROVE  AcceptedInv'
<1> USE DEF TypeInv, TypeOK, FreshInv
<1>0. \A a \in accepted : a[1] \in Ops
  OBVIOUS
<1>1. ASSUME NEW o \in Ops, Allocate(o) PROVE AcceptedInv'
  <2>1. /\ pc[o] = "idle" /\ pkg_id' = [pkg_id EXCEPT ![o] = pkg_id'[o]]
        /\ \E s \in {"built", "failed"} : pc' = [pc EXCEPT ![o] = s]
        /\ accepted' = accepted
    BY <1>1, AllocateKeepsIds DEF Allocate, replyVars
  <2>2. \A a \in accepted : a[1] # o
    BY <2>1 DEF AcceptedInv
  <2>3. QED
    BY <1>0, <2>1, <2>2 DEF AcceptedInv
<1>2. ASSUME NEW o \in Ops, AllocateFlush(o) PROVE AcceptedInv'
  BY <1>2 DEF AllocateFlush, FreshSession
<1>3. ASSUME NEW o \in Ops, Op(o) \/ StoreFails(o) PROVE AcceptedInv'
  <2>1. pkg_id' = pkg_id /\ \A p \in Ops : pc[p] # "idle" => pc'[p] # "idle"
    BY <1>3, OpMoves, OtherOps, QueueOfStep DEF Moves
  <2>2. pc'[o] # "idle"
    BY <1>3, QueueOfStep
  <2>3. CASE accepted' = accepted
    BY <1>0, <2>1, <2>3 DEF AcceptedInv
  <2>4. CASE TakeReply(o)
    <3> DEFINE h == Head(queue[o])
    <3>1. accepted' = accepted \/ (ReplyType(h) = ExpectedType(o)
                                     /\ accepted' = accepted \cup {<<o, h>>})
      BY <2>4, TakesOwn DEF TakeReply
    <3>2. ReplyType(h) = ExpectedType(o) => (Pub(o) => h.op = o /\ h.id = pkg_id[o])
      BY <2>4, TakesOwn
    <3> HIDE DEF h
    <3>3. QED
      BY <1>0, <2>1, <2>2, <2>3, <3>1, <3>2 DEF AcceptedInv
  <2>5. QED
    BY <1>3, <2>3, <2>4 DEF Op, StoreFails, Prepare, Send, SendFails, Wait, WaitFails,
                           GiveUp, Complete, replyVars
<1>4. ASSUME NEW r, PeerAnswers(r) \/ HandleReply(r) PROVE AcceptedInv'
  BY <1>4 DEF PeerAnswers, HandleReply, AcceptedInv, opVars, replyVars
<1>5. CASE ConnDown
  BY <1>5 DEF ConnDown, AcceptedInv, opVars, replyVars
<1>6. CASE UNCHANGED vars
  BY <1>6 DEF vars, AcceptedInv
<1>7. QED
  BY <1>1, <1>2, <1>3, <1>4, <1>5, <1>6 DEF Next

-----------------------------------------------------------------------------
(* The theorems.                                                            *)

LEMMA SessionStays ==
  ASSUME [Next]_vars
  PROVE  UNCHANGED <<recovered, storage_ok>>
<1>1. ASSUME NEW o \in Ops, Op(o) \/ StoreFails(o) PROVE UNCHANGED <<recovered, storage_ok>>
  BY <1>1, OpMoves DEF Moves, Release, idVars
<1>2. ASSUME NEW o \in Ops, Allocate(o) \/ AllocateFlush(o)
      PROVE  UNCHANGED <<recovered, storage_ok>>
  BY <1>2 DEF Allocate, AllocateFlush, idVars
<1>3. CASE (\E r : PeerAnswers(r) \/ HandleReply(r)) \/ ConnDown \/ UNCHANGED vars
  BY <1>3 DEF PeerAnswers, HandleReply, ConnDown, vars, idVars
<1>4. QED
  BY <1>1, <1>2, <1>3 DEF Next

LEMMA IdsStep ==
  ASSUME TypeInv, FreshSession, FreshInv, [Next]_vars
  PROVE  IdsInv'
<1>1. ASSUME NEW o \in Ops, Allocate(o) PROVE IdsInv'
  BY <1>1, AllocateKeepsIds
<1>2. ASSUME NEW o \in Ops, AllocateFlush(o) PROVE IdsInv'
  BY <1>2 DEF AllocateFlush, FreshSession
<1>3. ASSUME NEW o \in Ops, Op(o) \/ StoreFails(o) PROVE IdsInv'
  BY <1>3, OpMoves, MovesKeepIds DEF FreshInv
<1>4. CASE (\E r : PeerAnswers(r) \/ HandleReply(r)) \/ ConnDown \/ UNCHANGED vars
  <2>1. UNCHANGED <<resent, sent_pkgids, locked, pkg_id, pc>>
    BY <1>4 DEF PeerAnswers, HandleReply, ConnDown, vars, idVars, opVars
  <2>2. QED
    BY <2>1 DEF FreshInv, IdsInv, Listed, InFlight
<1>5. QED
  BY <1>1, <1>2, <1>3, <1>4 DEF Next

LEMMA PacketIdsInvariance == Spec => []PacketIdsInv
<1>1. Init => PacketIdsInv
  BY InitTypeInv, InitFresh DEF PacketIdsInv
<1>2. ASSUME PacketIdsInv, [Next]_vars PROVE PacketIdsInv'
  <2>1. TypeInv'
    BY <1>2, TypeStep DEF PacketIdsInv
  <2>2. ASSUME FreshSession' PROVE FreshInv'
    <3>1. FreshSession
      <4>1. UNCHANGED <<recovered, storage_ok>>
        BY <1>2, SessionStays
      <4>2. QED
        BY <2>2, <4>1 DEF FreshSession
    <3>2. TypeInv /\ FreshInv
      BY <1>2, <3>1 DEF PacketIdsInv
    <3>3. IdsInv'
      BY <1>2, <3>1, <3>2, IdsStep
    <3>4. EntriesInv' /\ MessagesInv'
      BY <1>2, <3>1, <3>2, <3>3, EntriesStep, MessagesStep
    <3>5. QueuesInv' /\ AcceptedInv'
      BY <1>2, <3>1, <3>2, QueuesStep, AcceptedStep
    <3>6. QED
      BY <3>3, <3>4, <3>5 DEF FreshInv
  <2>3. QED
    BY <2>1, <2>2 DEF PacketIdsInv
<1>3. QED
  BY <1>1, <1>2, PTL DEF Spec

\* Over a session that begins with the connection, and whose identifiers can be
\* stored, two operations in flight never use the same identifier, for any
\* number of threads that publish and subscribe, whatever fails
\* (__myqtt_conn_get_next_pkgid, _release_pkgid).
THEOREM IdentifiersAreDistinct == Spec => []DistinctInFlight
<1>1. PacketIdsInv => DistinctInFlight
  BY DEF PacketIdsInv, FreshInv, IdsInv, DistinctInFlight
<1>2. QED
  BY <1>1, PacketIdsInvariance, PTL

\* Over a session that begins with the connection, and whose identifiers can be
\* stored, conn->sent_pkgids holds each identifier in use, once, and nothing else
\* but those a failed publish keeps.
THEOREM NoIdentifierLeaks == Spec => []IdsAccounted
<1>1. ASSUME PacketIdsInv PROVE IdsAccounted
  <2>1. TypeInv /\ (FreshSession => IdsInv)
    BY <1>1 DEF PacketIdsInv, FreshInv
  <2>2. sent_pkgids \in Seq(Ids) /\ DOMAIN sent_pkgids = 1 .. Len(sent_pkgids)
    BY <2>1 DEF TypeInv, TypeOK
  <2>3. ASSUME FreshSession, NEW i \in DOMAIN sent_pkgids, NEW j \in DOMAIN sent_pkgids, i # j
        PROVE  sent_pkgids[i] # sent_pkgids[j]
    BY <2>1, <2>2, <2>3, IdsAreNatural DEF IdsInv, Ascending
  <2>4. QED
    BY <2>1, <2>3 DEF IdsAccounted, IdsInv, Listed
<1>2. QED
  BY <1>1, PacketIdsInvariance, PTL

\* Over such a session the answer a publish takes from its queue answers its own
\* request, however late the answers to other operations come. A subscription may
\* take that of an earlier one: it gives its identifier back when it times out.
THEOREM RepliesAreOwn == Spec => []ReplyIsOwn
<1>1. PacketIdsInv => ReplyIsOwn
  BY DEF PacketIdsInv, FreshInv, AcceptedInv, ReplyIsOwn, Pub
<1>2. QED
  BY <1>1, PacketIdsInvariance, PTL

\* Over such a session, and while the connection works, no entry of
\* conn->wait_replies is left behind by an operation that ended.
THEOREM EntriesAreLive == Spec => []WaitEntryIsLive
<1>1. ASSUME PacketIdsInv PROVE WaitEntryIsLive
  <2>1. ASSUME FreshSession, is_ok, NEW i \in Ids, Waited(i)
        PROVE  \E o \in Ops : pkg_id[o] = i /\ pc[o] \in {"prepared", "sent", "waiting"}
    <3>1. wait_replies[i] \in Ops
      BY <1>1, <2>1 DEF PacketIdsInv, TypeInv, TypeOK, Waited
    <3>2. QED
      BY <1>1, <2>1, <3>1 DEF PacketIdsInv, FreshInv, EntriesInv, Awaiting, AwaitingSteps,
                               LeftBySend
  <2>2. QED
    BY <2>1 DEF WaitEntryIsLive
<1>2. QED
  BY <1>1, PacketIdsInvariance, PTL
=============================================================================
