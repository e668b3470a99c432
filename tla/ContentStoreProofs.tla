-------------------------- MODULE ContentStoreProofs --------------------------
(***************************************************************************)
(* Proofs about the content store, for any set of packets, any freshness   *)
(* periods and any capacity.                                               *)
(***************************************************************************)
EXTENDS ContentStore, TLAPS, FiniteSetTheorems, SequenceTheorems

Distinct(q) == \A i, j \in 1 .. Len(q) : q[i] = q[j] => i = j

\* What RemoveFirst does to a queue without duplicates (detachQueue).
LEMMA RemoveFirstProps ==
  ASSUME NEW S, NEW q \in Seq(S), Distinct(q), NEW d
  PROVE  /\ RemoveFirst(q, d) \in Seq(S)
         /\ Distinct(RemoveFirst(q, d))
         /\ Range(RemoveFirst(q, d)) = Range(q) \ {d}
  <1> DEFINE r == RemoveFirst(q, d)
  <1>1. CASE ~ \E i \in 1 .. Len(q) : q[i] = d
    <2>1. r = q
      BY <1>1 DEF RemoveFirst
    <2>2. d \notin Range(q)
      BY <1>1 DEF Range
    <2> QED  BY <2>1, <2>2
  <1>2. CASE \E i \in 1 .. Len(q) : q[i] = d
    <2>1. PICK k \in 1 .. Len(q) : q[k] = d
      BY <1>2
    <2>2. {i \in 1 .. Len(q) : q[i] = d} = {k}
      BY <2>1 DEF Distinct
    <2>3. Min({k}) = k
      BY <2>1 DEF Min
    <2>4. SelectInSeq(q, LAMBDA v : v = d) = k
      BY ZenonT(60), <2>2, <2>3 DEF SelectInSeq
    <2>5. r = SubSeq(q, 1, k - 1) \o SubSeq(q, k + 1, Len(q))
      BY ZenonT(60), <1>2, <2>4 DEF RemoveFirst, RemoveAt
    <2>6. /\ r \in Seq(S)
          /\ Len(r) = Len(q) - 1
          /\ \A i \in 1 .. Len(r) : r[i] = IF i < k THEN q[i] ELSE q[i + 1]
      <3> DEFINE a == SubSeq(q, 1, k - 1)
                 b == SubSeq(q, k + 1, Len(q))
      <3>1. /\ a \in Seq(S) /\ Len(a) = k - 1
            /\ \A i \in 1 .. k - 1 : a[i] = q[i]
        BY <2>1
      <3>2. /\ b \in Seq(S) /\ Len(b) = Len(q) - k
            /\ \A i \in 1 .. Len(q) - k : b[i] = q[i + k]
        BY <2>1
      <3> HIDE DEF a, b
      <3>3. /\ a \o b \in Seq(S) /\ Len(a \o b) = Len(a) + Len(b)
            /\ \A i \in 1 .. Len(a) + Len(b) :
                 (a \o b)[i] = IF i <= Len(a) THEN a[i] ELSE b[i - Len(a)]
        BY <3>1, <3>2, ConcatProperties
      <3>4. r = a \o b
        BY <2>5 DEF a, b
      <3> HIDE DEF r
      <3>5. r \in Seq(S) /\ Len(r) = Len(q) - 1
        <4>1. Len(r) = (k - 1) + (Len(q) - k)
          BY <3>1, <3>2, <3>3, <3>4
        <4>2. Len(q) \in Nat /\ k \in Nat
          BY <2>1, LenProperties
        <4> QED  BY <4>1, <4>2, <3>3, <3>4
      <3>6. ASSUME NEW i \in 1 .. Len(r)
            PROVE  r[i] = IF i < k THEN q[i] ELSE q[i + 1]
        <4>1. r[i] = IF i <= Len(a) THEN a[i] ELSE b[i - Len(a)]
          BY <3>1, <3>2, <3>3, <3>4, <3>5
        <4>2. CASE i < k
          BY <4>1, <4>2, <3>1, <2>1
        <4>3. CASE ~(i < k)
          <5>1. i - Len(a) \in 1 .. Len(q) - k /\ (i - Len(a)) + k = i + 1
            BY <4>3, <3>1, <3>5, <2>1
          <5>2. r[i] = b[i - Len(a)]
            BY <4>1, <4>3, <3>1, <2>1
          <5> QED  BY ZenonT(60), <5>1, <5>2, <3>2, <4>3
        <4> QED  BY <4>2, <4>3
      <3> QED  BY <3>5, <3>6
    <2>7. Distinct(r)
      BY <2>6, <2>1 DEF Distinct
    <2>8. Range(r) = Range(q) \ {d}
      <3>1. ASSUME NEW x \in Range(r) PROVE x \in Range(q) \ {d}
        BY <2>1, <2>6 DEF Range, Distinct
      <3>2. ASSUME NEW x \in Range(q) \ {d} PROVE x \in Range(r)
        <4>1. PICK i \in 1 .. Len(q) : q[i] = x
          BY <3>2 DEF Range
        <4>2. CASE i < k
          BY <2>1, <2>6, <4>1, <4>2 DEF Range
        <4>3. CASE i > k
          <5>1. i - 1 \in 1 .. Len(r) /\ r[i - 1] = q[i]
            BY <2>1, <2>6, <4>1, <4>3
          <5> QED  BY <5>1, <4>1, <2>6 DEF Range
        <4>4. i # k
          BY <3>2, <4>1, <2>1
        <4> QED  BY <2>1, <4>1, <4>2, <4>3, <4>4
      <3> QED  BY <3>1, <3>2
    <2> QED  BY <2>6, <2>7, <2>8
  <1> QED  BY <1>1, <1>2

\* What Drop does to a queue (evictOne, repeated).
LEMMA DropProps ==
  ASSUME NEW S, NEW q \in Seq(S), Distinct(q), NEW n \in Int
  PROVE  /\ Drop(q, n) \in Seq(S)
         /\ Distinct(Drop(q, n))
         /\ Range(Drop(q, n)) \subseteq Range(q)
         /\ n <= 0 => Drop(q, n) = q
         /\ n >= Len(q) /\ n > 0 => Drop(q, n) = <<>>
         /\ n > 0 /\ n < Len(q) => Len(Drop(q, n)) = Len(q) - n
  <1>1. CASE n <= 0
    BY <1>1 DEF Drop
  <1>2. CASE n > 0 /\ n >= Len(q)
    BY <1>2 DEF Drop, Distinct, Range
  <1>3. CASE n > 0 /\ n < Len(q)
    <2>1. Drop(q, n) = SubSeq(q, n + 1, Len(q))
      BY <1>3 DEF Drop
    <2>2. /\ Drop(q, n) \in Seq(S)
          /\ Len(Drop(q, n)) = Len(q) - n
          /\ \A i \in 1 .. Len(q) - n : Drop(q, n)[i] = q[i + n]
      BY <1>3, <2>1
    <2>3. Distinct(Drop(q, n))
      BY <2>2, <1>3 DEF Distinct
    <2>4. Range(Drop(q, n)) \subseteq Range(q)
      <3>1. SUFFICES ASSUME NEW i \in 1 .. Len(q) - n
                     PROVE  Drop(q, n)[i] \in Range(q)
        BY <2>2 DEF Range
      <3>2. i + n \in DOMAIN q /\ Drop(q, n)[i] = q[i + n]
        BY <2>2, <1>3
      <3> QED  BY <3>2 DEF Range
    <2> QED  BY <1>3, <2>2, <2>3, <2>4
  <1> QED  BY <1>1, <1>2, <1>3

LEMMA DropSome ==
  ASSUME NEW q, NEW n \in Int, n > 0, ~(n >= Len(q))
  PROVE  Drop(q, n) = SubSeq(q, n + 1, Len(q))
  BY DEF Drop

\* Drop keeps a suffix.
LEMMA DropSuffix ==
  ASSUME NEW S, NEW q \in Seq(S), Distinct(q), NEW n \in Int,
         NEW i \in 1 .. Len(q), NEW j \in 1 .. Len(q), i < j, q[i] \in Range(Drop(q, n))
  PROVE  q[j] \in Range(Drop(q, n))
  <1>1. CASE n <= 0
    BY <1>1 DEF Drop, Range
  <1>2. CASE n > 0 /\ n >= Len(q)
    <2>1. Drop(q, n) = <<>>
      BY <1>2 DEF Drop
    <2> QED  BY <2>1 DEF Range
  <1>3. CASE n > 0 /\ n < Len(q)
    <2> DEFINE r == SubSeq(q, n + 1, Len(q))
    <2>1. Drop(q, n) = r
      BY <1>3, DropSome
    <2>2. DOMAIN r = 1 .. Len(q) - n /\ \A k \in 1 .. Len(q) - n : r[k] = q[k + n]
      BY <1>3
    <2> HIDE DEF r
    <2>3. PICK k \in 1 .. Len(q) - n : q[i] = r[k]
      BY <2>1, <2>2 DEF Range
    <2>4. q[i] = q[k + n] /\ k + n \in 1 .. Len(q)
      BY <1>3, <2>2, <2>3
    <2>5. i = k + n
      BY <2>4 DEF Distinct
    <2>6. j - n \in 1 .. Len(q) - n /\ (j - n) + n = j
      BY <1>3, <2>5
    <2>7. r[j - n] = q[j]
      BY <2>2, <2>6
    <2> QED  BY ZenonT(60), <2>1, <2>2, <2>6, <2>7 DEF Range
  <1> QED  BY <1>1, <1>2, <1>3

\* A queue without duplicates has as many packets as places.
LEMMA CountQueue ==
  ASSUME NEW S, NEW q \in Seq(S), Distinct(q)
  PROVE  IsFiniteSet(Range(q)) /\ Cardinality(Range(q)) = Len(q)
  <1>1. q \in [1 .. Len(q) -> Range(q)] /\ Len(q) \in Nat
    BY DEF Range
  <1>2. q \in Bijection(1 .. Len(q), Range(q))
    BY <1>1 DEF Distinct, Bijection, Injection, Surjection, IsInjective, Range
  <1>3. ExistsBijection(1 .. Len(q), Range(q))
    BY <1>2 DEF ExistsBijection
  <1>4. IsFiniteSet(Range(q))
    BY <1>1, <1>3, FS_NatBijection
  <1> QED  BY <1>1, <1>3, <1>4, FS_CountingElements

-----------------------------------------------------------------------------
\* The queues hold the packets of D, each once.
Exact(queues, D) ==
  /\ queues \in [QueueTypes -> Seq(Packets)]
  /\ \A t \in QueueTypes : Distinct(queues[t])
  /\ \A t, v \in QueueTypes : t # v => Range(queues[t]) \cap Range(queues[v]) = {}
  /\ D = Queued(queues)

Total(queues) ==
  Len(queues["UNSOLICITED"]) + Len(queues["STALE"]) + Len(queues["FIFO"]) + Len(queues["LRU"])

LEMMA QueuedMember ==
  ASSUME NEW queues, NEW x
  PROVE  x \in Queued(queues) <=> \E t \in QueueTypes : x \in Range(queues[t])
  BY DEF Queued

\* The size of the union of two disjoint finite sets.
LEMMA DisjointUnion ==
  ASSUME NEW S, NEW T, IsFiniteSet(S), IsFiniteSet(T), S \cap T = {}
  PROVE  /\ IsFiniteSet(S \cup T)
         /\ Cardinality(S \cup T) = Cardinality(S) + Cardinality(T)
  <1>1. Cardinality(S) \in Nat /\ Cardinality(T) \in Nat
    BY FS_CardinalityType
  <1>2. IsFiniteSet(S \cup T)
        /\ Cardinality(S \cup T) = Cardinality(S) + Cardinality(T) - Cardinality(S \cap T)
    BY FS_Union
  <1>3. Cardinality(S \cap T) = 0
    BY FS_EmptySet
  <1> QED  BY <1>1, <1>2, <1>3

\* detachQueue takes one packet out of its queue and leaves the others.
LEMMA DetachExact ==
  ASSUME NEW queues, NEW D, Exact(queues, D), NEW d
  PROVE  /\ Exact(Detach(queues, d), D \ {d})
         /\ \A t \in QueueTypes : Range(Detach(queues, d)[t]) = Range(queues[t]) \ {d}
  <1>1. ASSUME NEW t \in QueueTypes
        PROVE  /\ Detach(queues, d)[t] \in Seq(Packets)
               /\ Distinct(Detach(queues, d)[t])
               /\ Range(Detach(queues, d)[t]) = Range(queues[t]) \ {d}
    <2>1. queues[t] \in Seq(Packets) /\ Distinct(queues[t])
      BY DEF Exact
    <2>2. Detach(queues, d)[t] = RemoveFirst(queues[t], d)
      BY DEF Detach
    <2> QED  BY <2>1, <2>2, RemoveFirstProps
  <1>2. Detach(queues, d) \in [QueueTypes -> Seq(Packets)]
    BY <1>1 DEF Detach
  <1>3. Queued(Detach(queues, d)) = D \ {d}
    <2>1. D = Queued(queues)
      BY DEF Exact
    <2>2. ASSUME NEW x
          PROVE  x \in Queued(Detach(queues, d)) <=> x \in D \ {d}
      <3>1. x \in Queued(Detach(queues, d))
              <=> \E t \in QueueTypes : x \in Range(Detach(queues, d)[t])
        BY QueuedMember
      <3>2. x \in D <=> \E t \in QueueTypes : x \in Range(queues[t])
        BY <2>1, QueuedMember
      <3> QED  BY ZenonT(60), <1>1, <3>1, <3>2
    <2> QED  BY <2>2
  <1> QED  BY <1>1, <1>2, <1>3 DEF Exact

\* attachQueue changes one queue.
LEMMA AttachRange ==
  ASSUME NEW queues \in [QueueTypes -> Seq(Packets)], NEW d \in Packets, NEW t \in QueueTypes
  PROVE  /\ Range(Attach(queues, t, d)[t]) = Range(queues[t]) \cup {d}
         /\ \A v \in QueueTypes : v # t => Attach(queues, t, d)[v] = queues[v]
  <1> DEFINE q == queues[t]
             r == Append(q, d)
  <1>1. q \in Seq(Packets)
    OBVIOUS
  <1>2. /\ r \in Seq(Packets) /\ Len(r) = Len(q) + 1 /\ r[Len(q) + 1] = d
        /\ \A i \in 1 .. Len(q) : r[i] = q[i]
    BY <1>1, AppendProperties
  <1>3. /\ Attach(queues, t, d)[t] = r
        /\ \A v \in QueueTypes : v # t => Attach(queues, t, d)[v] = queues[v]
    BY DEF Attach
  <1> HIDE DEF r
  <1>4. DOMAIN r = 1 .. Len(q) + 1 /\ DOMAIN q = 1 .. Len(q) /\ Len(q) \in Nat
    BY <1>1, <1>2
  <1> HIDE DEF q
  <1>5. Range(r) = Range(q) \cup {d}
    <2>1. Range(r) = {r[i] : i \in 1 .. Len(q) + 1} /\ Range(q) = {q[i] : i \in 1 .. Len(q)}
      BY <1>4 DEF Range
    <2>2. 1 .. Len(q) + 1 = (1 .. Len(q)) \cup {Len(q) + 1}
      BY <1>4
    <2>3. ASSUME NEW x \in Range(r) PROVE x \in Range(q) \cup {d}
      <3>1. PICK i \in 1 .. Len(q) + 1 : x = r[i]
        BY <2>1
      <3>2. CASE i \in 1 .. Len(q)
        BY <2>1, <3>1, <3>2, <1>2
      <3>3. CASE i = Len(q) + 1
        BY <3>1, <3>3, <1>2
      <3> QED  BY <2>2, <3>2, <3>3
    <2>4. Range(q) \subseteq Range(r)
      BY <2>1, <2>2, <1>2
    <2>5. d \in Range(r)
      BY <2>1, <2>2, <1>2
    <2> QED  BY <2>3, <2>4, <2>5
  <1> QED  BY <1>3, <1>5 DEF q

LEMMA AttachPlaces ==
  ASSUME NEW queues \in [QueueTypes -> Seq(Packets)], NEW d \in Packets, NEW t \in QueueTypes
  PROVE  \A i \in DOMAIN queues[t] : /\ i \in DOMAIN Attach(queues, t, d)[t]
                                     /\ Attach(queues, t, d)[t][i] = queues[t][i]
  <1> DEFINE q == queues[t]
  <1>1. q \in Seq(Packets) /\ Attach(queues, t, d)[t] = Append(q, d)
    BY DEF Attach
  <1> HIDE DEF q
  <1>2. \A i \in DOMAIN q : i \in DOMAIN Append(q, d) /\ Append(q, d)[i] = q[i]
    BY <1>1, AppendProperties
  <1> QED  BY <1>1, <1>2 DEF q

\* attachQueue adds a packet that is in no queue.
LEMMA AttachExact ==
  ASSUME NEW queues, NEW D, Exact(queues, D), NEW d \in Packets, d \notin D,
         NEW t \in QueueTypes
  PROVE  Exact(Attach(queues, t, d), D \cup {d})
  <1> DEFINE q == queues[t]
             r == Append(q, d)
  <1>1. queues \in [QueueTypes -> Seq(Packets)] /\ q \in Seq(Packets) /\ Distinct(q)
    BY DEF Exact
  <1>2. /\ r \in Seq(Packets) /\ Len(r) = Len(q) + 1 /\ r[Len(q) + 1] = d
        /\ \A i \in 1 .. Len(q) : r[i] = q[i]
    BY <1>1, AppendProperties
  <1>3. /\ Attach(queues, t, d)[t] = r
        /\ \A v \in QueueTypes : v # t => Attach(queues, t, d)[v] = queues[v]
        /\ Attach(queues, t, d) \in [QueueTypes -> Seq(Packets)]
    BY <1>1, <1>2 DEF Attach
  <1>4. Range(q) \subseteq D
    BY DEF Exact, Queued
  <1>5. \A i \in 1 .. Len(q) : q[i] # d
    BY <1>1, <1>4 DEF Range
  <1> HIDE DEF r
  <1>6. Distinct(r)
    BY <1>1, <1>2, <1>5 DEF Distinct
  <1>7. Range(r) = Range(q) \cup {d}
    BY ZenonT(60), <1>1, <1>3, AttachRange
  <1>8. ASSUME NEW v \in QueueTypes
        PROVE  Range(Attach(queues, t, d)[v]) =
                 IF v = t THEN Range(queues[v]) \cup {d} ELSE Range(queues[v])
    BY <1>3, <1>7
  <1>9. Queued(Attach(queues, t, d)) = D \cup {d}
    <2>1. D = Queued(queues)
      BY DEF Exact
    <2>2. \A x : x \in Queued(Attach(queues, t, d)) <=> x \in D \cup {d}
      BY ZenonT(60), <1>8, <2>1, QueuedMember
    <2> QED  BY <2>2
  <1>10. ASSUME NEW v \in QueueTypes, NEW w \in QueueTypes, v # w
         PROVE  Range(Attach(queues, t, d)[v]) \cap Range(Attach(queues, t, d)[w]) = {}
    <2>1. d \notin Range(queues[v]) /\ d \notin Range(queues[w])
      BY DEF Exact, Queued
    <2>2. Range(queues[v]) \cap Range(queues[w]) = {}
      BY <1>10 DEF Exact
    <2> QED  BY ZenonT(60), <1>8, <1>10, <2>1, <2>2
  <1>11. \A v \in QueueTypes : Distinct(Attach(queues, t, d)[v])
    BY ZenonT(60), <1>3, <1>6 DEF Exact
  <1> QED  BY <1>3, <1>8, <1>9, <1>10, <1>11 DEF Exact

\* The store has as many packets as the queues have places.
LEMMA CountExact ==
  ASSUME NEW queues, NEW D, Exact(queues, D)
  PROVE  /\ IsFiniteSet(D) /\ Cardinality(D) = Total(queues)
         /\ \A t \in QueueTypes : Len(queues[t]) \in Nat
  <1> DEFINE R(t) == Range(queues[t])
  <1>1. ASSUME NEW t \in QueueTypes
        PROVE  IsFiniteSet(R(t)) /\ Cardinality(R(t)) = Len(queues[t]) /\ Len(queues[t]) \in Nat
    <2>1. queues[t] \in Seq(Packets) /\ Distinct(queues[t])
      BY DEF Exact
    <2> QED  BY <2>1, CountQueue
  <1>2. \A t, v \in QueueTypes : t # v => R(t) \cap R(v) = {}
    BY DEF Exact
  <1>3. D = ((R("UNSOLICITED") \cup R("STALE")) \cup R("FIFO")) \cup R("LRU")
    BY DEF Exact, Queued, QueueTypes
  <1>4. "UNSOLICITED" \in QueueTypes /\ "STALE" \in QueueTypes /\ "FIFO" \in QueueTypes
        /\ "LRU" \in QueueTypes
    BY DEF QueueTypes
  <1> HIDE DEF R
  <1> DEFINE A == R("UNSOLICITED") \cup R("STALE")
             B == A \cup R("FIFO")
  <1>5. /\ R("UNSOLICITED") \cap R("STALE") = {} /\ A \cap R("FIFO") = {}
        /\ B \cap R("LRU") = {}
    BY <1>2, <1>4
  <1>6. IsFiniteSet(A) /\ Cardinality(A) = Cardinality(R("UNSOLICITED")) + Cardinality(R("STALE"))
    BY ZenonT(60), <1>1, <1>4, <1>5, DisjointUnion
  <1> HIDE DEF A
  <1>7. IsFiniteSet(B) /\ Cardinality(B) = Cardinality(A) + Cardinality(R("FIFO"))
    BY ZenonT(60), <1>1, <1>4, <1>5, <1>6, DisjointUnion
  <1> HIDE DEF B
  <1>8. IsFiniteSet(B \cup R("LRU"))
        /\ Cardinality(B \cup R("LRU")) = Cardinality(B) + Cardinality(R("LRU"))
    BY <1>1, <1>4, <1>5, <1>7, DisjointUnion
  <1>9. D = B \cup R("LRU")
    BY <1>3 DEF A, B
  <1> QED  BY ZenonT(60), <1>1, <1>4, <1>6, <1>7, <1>8, <1>9 DEF Total

\* n rounds of evictOne keep the queues exact, take n packets, and take none
\* of a queue before the queues with priority are empty.
LEMMA EvictedExact ==
  ASSUME NEW queues, NEW D, Exact(queues, D), NEW n \in Int, n <= Total(queues)
  PROVE  LET left == Evicted(queues, n)
         IN /\ Exact(left, Queued(left))
            /\ \A t \in QueueTypes : Range(left[t]) \subseteq Range(queues[t])
            /\ \A t \in QueueTypes : \A i, j \in 1 .. Len(queues[t]) :
                 i < j /\ queues[t][i] \in Range(left[t]) => queues[t][j] \in Range(left[t])
            /\ n <= 0 => left = queues
            /\ n > 0 => Total(left) = Total(queues) - n
            /\ left["STALE"] # queues["STALE"] => left["UNSOLICITED"] = <<>>
            /\ left["FIFO"] # queues["FIFO"] =>
                 left["UNSOLICITED"] = <<>> /\ left["STALE"] = <<>>
  <1> DEFINE left == Evicted(queues, n)
             u == Len(queues["UNSOLICITED"])
             s == Len(queues["STALE"])
             f == Len(queues["FIFO"])
             l == Len(queues["LRU"])
  <1>1. u \in Nat /\ s \in Nat /\ f \in Nat /\ l \in Nat
    BY CountExact DEF QueueTypes
  <1>2. /\ left["UNSOLICITED"] = Drop(queues["UNSOLICITED"], n)
        /\ left["STALE"] = Drop(queues["STALE"], n - u)
        /\ left["FIFO"] = Drop(queues["FIFO"], n - u - s)
        /\ left["LRU"] = Drop(queues["LRU"], n - u - s - f)
    BY DEF Evicted
  <1>3. \A t \in QueueTypes : queues[t] \in Seq(Packets) /\ Distinct(queues[t])
    BY DEF Exact
  <1>6. DOMAIN left = QueueTypes /\ left = [t \in QueueTypes |-> left[t]]
    BY DEF Evicted, QueueTypes
  <1>7. DOMAIN queues = QueueTypes /\ queues = [t \in QueueTypes |-> queues[t]]
    BY DEF Exact
  <1>13. /\ u = Len(queues["UNSOLICITED"]) /\ s = Len(queues["STALE"])
         /\ f = Len(queues["FIFO"]) /\ l = Len(queues["LRU"])
    OBVIOUS
  <1>14. n - u \in Int /\ n - u - s \in Int /\ n - u - s - f \in Int
    BY <1>1
  <1>15. "UNSOLICITED" \in QueueTypes /\ "STALE" \in QueueTypes /\ "FIFO" \in QueueTypes
        /\ "LRU" \in QueueTypes
    BY DEF QueueTypes
  <1> HIDE DEF left, u, s, f, l
  <1>4. ASSUME NEW t \in QueueTypes
        PROVE  \E k \in Int : left[t] = Drop(queues[t], k)
    <2>1. CASE t = "UNSOLICITED"  BY <1>2, <2>1
    <2>2. CASE t = "STALE"  BY <1>2, <1>14, <2>2
    <2>3. CASE t = "FIFO"  BY <1>2, <1>14, <2>3
    <2>4. CASE t = "LRU"  BY <1>2, <1>14, <2>4
    <2> QED  BY <2>1, <2>2, <2>3, <2>4 DEF QueueTypes
  <1>5. ASSUME NEW t \in QueueTypes
        PROVE  /\ left[t] \in Seq(Packets) /\ Distinct(left[t])
               /\ Range(left[t]) \subseteq Range(queues[t])
    <2>1. PICK k \in Int : left[t] = Drop(queues[t], k)
      BY <1>4
    <2>2. queues[t] \in Seq(Packets) /\ Distinct(queues[t])
      BY <1>3
    <2> QED  BY <2>1, <2>2, DropProps
  <1>8. Exact(left, Queued(left))
    <2>1. left \in [QueueTypes -> Seq(Packets)]
      BY <1>5, <1>6
    <2>2. \A t, v \in QueueTypes : t # v => Range(left[t]) \cap Range(left[v]) = {}
      BY ZenonT(60), <1>5 DEF Exact
    <2> QED  BY <1>5, <2>1, <2>2 DEF Exact
  <1>9. ASSUME n <= 0 PROVE left = queues
    <2>1. left["UNSOLICITED"] = queues["UNSOLICITED"] /\ left["STALE"] = queues["STALE"]
          /\ left["FIFO"] = queues["FIFO"] /\ left["LRU"] = queues["LRU"]
      BY <1>1, <1>2, <1>9 DEF Drop
    <2>2. \A t \in QueueTypes : left[t] = queues[t]
      BY <2>1 DEF QueueTypes
    <2> QED  BY <2>2, <1>6, <1>7
  <1>10. /\ Len(left["UNSOLICITED"]) = IF n <= 0 THEN u ELSE IF n >= u THEN 0 ELSE u - n
         /\ Len(left["STALE"]) = IF n - u <= 0 THEN s ELSE IF n - u >= s THEN 0 ELSE s - (n - u)
         /\ Len(left["FIFO"]) = IF n - u - s <= 0 THEN f
                                ELSE IF n - u - s >= f THEN 0 ELSE f - (n - u - s)
         /\ Len(left["LRU"]) = IF n - u - s - f <= 0 THEN l
                               ELSE IF n - u - s - f >= l THEN 0 ELSE l - (n - u - s - f)
    <2>1. ASSUME NEW t \in QueueTypes, NEW k \in Int
          PROVE  Len(Drop(queues[t], k)) = IF k <= 0 THEN Len(queues[t])
                   ELSE IF k >= Len(queues[t]) THEN 0 ELSE Len(queues[t]) - k
      <3>1. queues[t] \in Seq(Packets) /\ Distinct(queues[t]) /\ Len(queues[t]) \in Nat
        BY <1>3
      <3>2. CASE k <= 0
        BY <3>1, <3>2, DropProps
      <3>3. CASE k > 0 /\ k >= Len(queues[t])
        BY <3>1, <3>3, DropProps
      <3>4. CASE k > 0 /\ k < Len(queues[t])
        BY ZenonT(60), <3>1, <3>4, DropProps
      <3> QED  BY <3>1, <3>2, <3>3, <3>4
    <2>2. Len(left["UNSOLICITED"]) = IF n <= 0 THEN u ELSE IF n >= u THEN 0 ELSE u - n
      BY <1>2, <1>13, <1>15, <2>1
    <2>3. Len(left["STALE"]) = IF n - u <= 0 THEN s ELSE IF n - u >= s THEN 0 ELSE s - (n - u)
      BY ZenonT(60), <1>2, <1>13, <1>14, <1>15, <2>1
    <2>4. Len(left["FIFO"]) = IF n - u - s <= 0 THEN f
                              ELSE IF n - u - s >= f THEN 0 ELSE f - (n - u - s)
      BY ZenonT(60), <1>2, <1>13, <1>14, <1>15, <2>1
    <2>5. Len(left["LRU"]) = IF n - u - s - f <= 0 THEN l
                             ELSE IF n - u - s - f >= l THEN 0 ELSE l - (n - u - s - f)
      BY ZenonT(60), <1>2, <1>13, <1>14, <1>15, <2>1
    <2> QED  BY <2>2, <2>3, <2>4, <2>5
  <1>11. ASSUME n > 0 PROVE Total(left) = Total(queues) - n
    <2>1. Total(queues) = u + s + f + l
      BY <1>13 DEF Total
    <2>2. n <= u + s + f + l
      BY <2>1
    <2>3. Total(left) = (u + s + f + l) - n
      BY <1>1, <1>10, <1>11, <2>2 DEF Total
    <2> QED  BY <2>1, <2>3
  <1>12. ASSUME left["FIFO"] # queues["FIFO"]
         PROVE  left["UNSOLICITED"] = <<>> /\ left["STALE"] = <<>>
    <2>1. n - u - s > 0
      BY <1>1, <1>2, <1>12 DEF Drop
    <2>2. n > 0 /\ n >= u /\ n - u > 0 /\ n - u >= s
      BY <1>1, <2>1
    <2> QED  BY <1>1, <1>2, <2>2 DEF Drop, u, s
  <1>16. ASSUME left["STALE"] # queues["STALE"]
         PROVE  left["UNSOLICITED"] = <<>>
    <2>1. n - u > 0
      BY <1>1, <1>2, <1>16 DEF Drop
    <2>2. n > 0 /\ n >= u
      BY <1>1, <2>1
    <2> QED  BY <1>1, <1>2, <2>2 DEF Drop, u
  <1>17. ASSUME NEW t \in QueueTypes, NEW i \in 1 .. Len(queues[t]), NEW j \in 1 .. Len(queues[t]),
                i < j, queues[t][i] \in Range(left[t])
         PROVE  queues[t][j] \in Range(left[t])
    <2>1. PICK k \in Int : left[t] = Drop(queues[t], k)
      BY <1>4
    <2>2. queues[t] \in Seq(Packets) /\ Distinct(queues[t])
      BY <1>3
    <2> QED  BY <1>17, <2>1, <2>2, DropSuffix
  <1> QED  BY <1>5, <1>8, <1>9, <1>11, <1>12, <1>16, <1>17 DEF left

-----------------------------------------------------------------------------
(* The inductive invariant *)

\* What an entry in queue t, and its timer, look like.
Place(t, entry, timer) ==
  /\ timer # Off => t = "FIFO" /\ timer = entry.staleIn
  /\ t = "FIFO" => /\ ~entry.unsolicited /\ ~isStale(entry)
                   /\ canStale(entry) => timer = entry.staleIn
  /\ t = "STALE" => ~entry.unsolicited /\ entry.staleIn \in {0, -1}
  /\ t = "UNSOLICITED" => entry.unsolicited

StoreInv(table, queues, timers) ==
  /\ DOMAIN table \subseteq Packets
  /\ table \in [DOMAIN table -> Entries]
  /\ timers \in [DOMAIN table -> Nat \cup {Off}]
  /\ Exact(queues, DOMAIN table)
  /\ \A d \in DOMAIN table, t \in QueueTypes :
       d \in Range(queues[t]) => Place(t, table[d], timers[d])

IInv ==
  /\ policy \in {"fifo", "lru"}
  /\ m_limit \in 1 .. MaxLimit
  /\ StoreInv(m_table, m_queues, moveStaleEvent)
  /\ WithinLimit
  /\ policy = "lru" => Range(m_queues["FIFO"]) = {}

\* attachQueue, with the choice of queue and timer it makes.
LEMMA PlaceFor ==
  ASSUME policy \in {"fifo", "lru"}, NEW entry \in Entries
  PROVE  /\ QueueFor(entry) \in QueueTypes
         /\ Place(QueueFor(entry), entry, TimerFor(entry))
         /\ TimerFor(entry) \in Nat \cup {Off}
         /\ policy = "lru" => QueueFor(entry) # "FIFO"
  <1>1. entry.unsolicited \in BOOLEAN /\ entry.staleIn \in Nat \cup {Never, -1}
    BY DEF Entries, Times
  <1>2. CASE policy = "lru"
    BY <1>1, <1>2 DEF QueueFor, TimerFor, Place, QueueTypes
  <1>3. CASE policy = "fifo" /\ entry.unsolicited
    BY <1>1, <1>3 DEF QueueFor, TimerFor, Place, QueueTypes
  <1>4. CASE policy = "fifo" /\ ~entry.unsolicited /\ isStale(entry)
    BY <1>1, <1>4 DEF QueueFor, TimerFor, Place, QueueTypes, isStale
  <1>5. CASE policy = "fifo" /\ ~entry.unsolicited /\ ~isStale(entry)
    BY <1>1, <1>5 DEF QueueFor, TimerFor, Place, QueueTypes, isStale, canStale
  <1> QED  BY <1>1, <1>2, <1>3, <1>4, <1>5

LEMMA AttachStore ==
  ASSUME NEW table, NEW queues, NEW timers, StoreInv(table, queues, timers),
         NEW d \in Packets, d \notin DOMAIN table,
         NEW entry \in Entries, NEW timer \in Nat \cup {Off},
         NEW t \in QueueTypes, Place(t, entry, timer)
  PROVE  StoreInv(With(table, d, entry), Attach(queues, t, d), With(timers, d, timer))
  <1> DEFINE table1 == With(table, d, entry)
             timers1 == With(timers, d, timer)
             queues1 == Attach(queues, t, d)
  <1>1. DOMAIN table1 = DOMAIN table \cup {d} /\ DOMAIN timers = DOMAIN table
    BY DEF With, StoreInv
  <1>2. DOMAIN table1 \subseteq Packets
    BY <1>1 DEF StoreInv
  <1>3. table1 \in [DOMAIN table1 -> Entries]
    BY <1>1 DEF StoreInv, With
  <1>4. timers1 \in [DOMAIN table1 -> Nat \cup {Off}]
    BY <1>1 DEF StoreInv, With
  <1>5. Exact(queues, DOMAIN table)
    BY DEF StoreInv
  <1>6. /\ Exact(queues1, DOMAIN table \cup {d})
        /\ Range(queues1[t]) = Range(queues[t]) \cup {d}
        /\ \A v \in QueueTypes : v # t => queues1[v] = queues[v]
    <2> DEFINE D == DOMAIN table
    <2>1. Exact(queues, D) /\ d \notin D
      BY <1>5
    <2> HIDE DEF D
    <2>2. Exact(Attach(queues, t, d), D \cup {d})
      BY <2>1, AttachExact
    <2>3. queues \in [QueueTypes -> Seq(Packets)]
      BY <2>1 DEF Exact
    <2>4. /\ Range(Attach(queues, t, d)[t]) = Range(queues[t]) \cup {d}
          /\ \A v \in QueueTypes : v # t => Attach(queues, t, d)[v] = queues[v]
      BY ZenonT(60), <2>3, AttachRange
    <2> QED  BY <2>2, <2>4 DEF D
  <1>7. ASSUME NEW x \in DOMAIN table1, NEW v \in QueueTypes, x \in Range(queues1[v])
        PROVE  Place(v, table1[x], timers1[x])
    <2>1. CASE x = d
      <3>1. d \notin Range(queues[v])
        BY <1>5, QueuedMember DEF Exact
      <3>2. v = t
        BY <1>6, <1>7, <2>1, <3>1
      <3>3. table1[x] = entry /\ timers1[x] = timer
        BY <2>1 DEF With
      <3> QED  BY <3>2, <3>3
    <2>2. CASE x # d
      <3>1. x \in DOMAIN table /\ x \in Range(queues[v])
        BY <1>1, <1>6, <1>7, <2>2
      <3>2. table1[x] = table[x] /\ timers1[x] = timers[x]
        BY <1>1, <2>2, <3>1 DEF With
      <3> QED  BY <3>1, <3>2 DEF StoreInv
    <2> QED  BY <2>1, <2>2
  <1> HIDE DEF table1, timers1, queues1
  <1>8. StoreInv(table1, queues1, timers1)
    BY <1>1, <1>2, <1>3, <1>4, <1>6, <1>7 DEF StoreInv
  <1> QED  BY <1>8 DEF table1, timers1, queues1

\* Detaching a packet and attaching it elsewhere: Refresh, moveToStaleQueue, find.
LEMMA MoveStore ==
  ASSUME NEW table, NEW queues, NEW timers, StoreInv(table, queues, timers),
         NEW d \in DOMAIN table,
         NEW entry \in Entries, NEW timer \in Nat \cup {Off},
         NEW t \in QueueTypes, Place(t, entry, timer)
  PROVE  /\ StoreInv([table EXCEPT ![d] = entry], Attach(Detach(queues, d), t, d),
                     [timers EXCEPT ![d] = timer])
         /\ t # "FIFO" => Range(Attach(Detach(queues, d), t, d)["FIFO"])
                            \subseteq Range(queues["FIFO"])
  <1> DEFINE D1 == DOMAIN table \ {d}
             table1 == [x \in D1 |-> table[x]]
             timers1 == [x \in D1 |-> timers[x]]
             queues1 == Detach(queues, d)
  <1>1. Exact(queues, DOMAIN table) /\ DOMAIN timers = DOMAIN table /\ d \in Packets
    BY DEF StoreInv
  <1>2. /\ Exact(queues1, D1)
        /\ \A v \in QueueTypes : Range(queues1[v]) = Range(queues[v]) \ {d}
    BY <1>1, DetachExact
  <1>3. StoreInv(table1, queues1, timers1)
    <2>1. table1 \in [D1 -> Entries] /\ timers1 \in [D1 -> Nat \cup {Off}]
          /\ D1 \subseteq Packets /\ DOMAIN table1 = D1
      BY DEF StoreInv
    <2>2. ASSUME NEW x \in D1, NEW v \in QueueTypes, x \in Range(queues1[v])
          PROVE  Place(v, table1[x], timers1[x])
      <3>1. x \in DOMAIN table /\ x \in Range(queues[v])
        BY <1>2, <2>2
      <3> QED  BY <3>1 DEF StoreInv
    <2> HIDE DEF table1, timers1, queues1
    <2> QED  BY <1>2, <2>1, <2>2 DEF StoreInv
  <1>4. DOMAIN table1 = D1 /\ DOMAIN timers1 = D1 /\ d \notin D1
    OBVIOUS
  <1>5. With(table1, d, entry) = [table EXCEPT ![d] = entry]
    BY ZenonT(60) DEF With, StoreInv
  <1>6. With(timers1, d, timer) = [timers EXCEPT ![d] = timer]
    BY ZenonT(60), <1>1 DEF With
  <1> HIDE DEF table1, timers1, queues1
  <1>7. StoreInv(With(table1, d, entry), Attach(queues1, t, d), With(timers1, d, timer))
    BY <1>1, <1>3, <1>4, AttachStore
  <1>8. ASSUME t # "FIFO"
        PROVE  Range(Attach(queues1, t, d)["FIFO"]) \subseteq Range(queues["FIFO"])
    BY <1>2, <1>8 DEF Attach, QueueTypes, Exact
  <1> QED  BY <1>5, <1>6, <1>7, <1>8 DEF queues1

\* What a step may evict, given the table and the queues it starts with.
TakenInOrder(table, queues) ==
  \A d \in DOMAIN table \ DOMAIN m_table' :
    /\ d \in Range(queues["STALE"]) => m_queues'["UNSOLICITED"] = <<>>
    /\ d \in Range(queues["FIFO"]) =>
         m_queues'["UNSOLICITED"] = <<>> /\ m_queues'["STALE"] = <<>>
    /\ \A t \in QueueTypes : \A i, j \in DOMAIN queues[t] :
         i < j /\ queues[t][j] = d => queues[t][i] \notin DOMAIN m_table'

LEMMA EvictStore ==
  ASSUME NEW table, NEW queues, NEW timers, StoreInv(table, queues, timers),
         NEW limit \in Nat, evictEntries(table, queues, timers, limit)
  PROVE  /\ StoreInv(m_table', m_queues', moveStaleEvent')
         /\ Cardinality(DOMAIN m_table') <= limit
         /\ Range(m_queues["FIFO"]') \subseteq Range(queues["FIFO"])
         /\ TakenInOrder(table, queues)
  <1> DEFINE D == DOMAIN table
             n == Cardinality(D) - limit
             left == Evicted(queues, n)
             kept == Queued(left)
  <1>1. Exact(queues, D) /\ DOMAIN timers = D
    BY DEF StoreInv
  <1>2. IsFiniteSet(D) /\ Cardinality(D) = Total(queues)
    BY <1>1, CountExact
  <1>3. Cardinality(D) \in Nat
    BY <1>2, FS_CardinalityType
  <1>4. n \in Int /\ n <= Total(queues)
    BY <1>2, <1>3
  <1>5. /\ m_queues' = left
        /\ m_table' = [d \in kept |-> table[d]]
        /\ moveStaleEvent' = [d \in kept |-> timers[d]]
    BY DEF evictEntries
  <1>6. n > 0 <=> Cardinality(D) > limit
    BY <1>3
  <1>7. Cardinality(D) - n = limit
    BY <1>3
  <1> HIDE DEF n, D
  <1>8. /\ Exact(left, kept)
        /\ \A t \in QueueTypes : Range(left[t]) \subseteq Range(queues[t])
        /\ \A t \in QueueTypes : \A i, j \in 1 .. Len(queues[t]) :
             i < j /\ queues[t][i] \in Range(left[t]) => queues[t][j] \in Range(left[t])
        /\ n <= 0 => left = queues
        /\ n > 0 => Total(left) = Total(queues) - n
        /\ left["STALE"] # queues["STALE"] => left["UNSOLICITED"] = <<>>
        /\ left["FIFO"] # queues["FIFO"] =>
             left["UNSOLICITED"] = <<>> /\ left["STALE"] = <<>>
    BY <1>1, <1>4, EvictedExact
  <1> HIDE DEF left
  <1>9. kept \subseteq D
    <2>1. ASSUME NEW x \in kept PROVE x \in D
      <3>1. \E t \in QueueTypes : x \in Range(left[t])
        BY QueuedMember
      <3>2. \E t \in QueueTypes : x \in Range(queues[t])
        BY <1>8, <3>1
      <3> QED  BY <3>2, <1>1, QueuedMember DEF Exact
    <2> QED  BY <2>1
  <1> HIDE DEF kept
  <1>10. DOMAIN m_table' = kept
    BY <1>5
  <1>11. StoreInv(m_table', m_queues', moveStaleEvent')
    <2>1. /\ kept \subseteq Packets
          /\ m_table' \in [kept -> Entries] /\ moveStaleEvent' \in [kept -> Nat \cup {Off}]
      BY <1>5, <1>9 DEF StoreInv, D
    <2>2. ASSUME NEW d \in kept, NEW t \in QueueTypes, d \in Range(left[t])
          PROVE  Place(t, m_table'[d], moveStaleEvent'[d])
      <3>1. d \in Range(queues[t])
        BY <1>8, <2>2
      <3>2. d \in D
        BY <1>9
      <3>3. Place(t, table[d], timers[d])
        BY <3>1, <3>2 DEF StoreInv, D
      <3> QED  BY <1>5, <3>3
    <2> QED  BY <1>5, <1>8, <1>10, <2>1, <2>2 DEF StoreInv
  <1>12. Cardinality(kept) <= limit
    <2>1. Cardinality(kept) = Total(left)
      BY <1>8, CountExact
    <2>2. CASE n > 0
      BY <1>2, <1>7, <1>8, <2>1, <2>2
    <2>3. CASE n <= 0
      BY <1>2, <1>3, <1>6, <1>4, <1>8, <2>1, <2>3
    <2> QED  BY <1>4, <2>2, <2>3
  <1>13. Range(left["FIFO"]) \subseteq Range(queues["FIFO"])
    BY <1>8 DEF QueueTypes
  <1>14. ASSUME NEW d \in D, d \notin kept, NEW t \in QueueTypes
         PROVE  d \notin Range(left[t])
    BY <1>14, QueuedMember DEF kept
  <1>15. ASSUME NEW d \in D, d \notin kept
         PROVE  /\ d \in Range(queues["STALE"]) => left["UNSOLICITED"] = <<>>
                /\ d \in Range(queues["FIFO"]) =>
                     left["UNSOLICITED"] = <<>> /\ left["STALE"] = <<>>
    <2>1. d \notin Range(left["STALE"]) /\ d \notin Range(left["FIFO"])
      BY <1>14, <1>15 DEF QueueTypes
    <2> QED  BY <1>8, <2>1
  <1>16. ASSUME NEW t \in QueueTypes, NEW i \in DOMAIN queues[t], NEW j \in DOMAIN queues[t],
                i < j, queues[t][j] \in D \ kept
         PROVE  queues[t][i] \notin kept
    <2>1. queues[t] \in Seq(Packets)
      BY <1>1 DEF Exact
    <2>2. i \in 1 .. Len(queues[t]) /\ j \in 1 .. Len(queues[t])
      BY <2>1
    <2>3. queues[t][j] \notin Range(left[t])
      BY <1>14, <1>16
    <2>4. queues[t][i] \notin Range(left[t])
      BY <1>8, <1>16, <2>2, <2>3
    <2>5. ASSUME NEW v \in QueueTypes, v # t PROVE queues[t][i] \notin Range(left[v])
      <3>1. queues[t][i] \in Range(queues[t])
        BY DEF Range
      <3>2. queues[t][i] \notin Range(queues[v])
        BY <1>1, <2>5, <3>1 DEF Exact
      <3> QED  BY <1>8, <3>2
    <2> QED  BY <2>4, <2>5, QueuedMember DEF kept
  <1>17. TakenInOrder(table, queues)
    BY <1>5, <1>10, <1>15, <1>16 DEF TakenInOrder, D
  <1> QED  BY <1>5, <1>10, <1>11, <1>12, <1>13, <1>17

-----------------------------------------------------------------------------
(* The steps *)

LEMMA InitInv == Init => IInv
  <1> SUFFICES ASSUME Init PROVE IInv
    OBVIOUS
  <1>1. DOMAIN m_table = {} /\ DOMAIN moveStaleEvent = {}
    BY DEF Init
  <1>2. \A t \in QueueTypes : m_queues[t] = <<>> /\ Range(m_queues[t]) = {}
    BY DEF Init, Range
  <1>3. Exact(m_queues, {})
    <2>1. Queued(m_queues) = {}
      BY <1>2, QueuedMember
    <2>2. m_queues \in [QueueTypes -> Seq(Packets)]
      BY DEF Init
    <2>3. \A t \in QueueTypes : Distinct(m_queues[t])
      BY <1>2 DEF Distinct
    <2> QED  BY <1>2, <2>1, <2>2, <2>3 DEF Exact
  <1>4. StoreInv(m_table, m_queues, moveStaleEvent)
    <2>1. m_table \in [{} -> Entries] /\ moveStaleEvent \in [{} -> Nat \cup {Off}]
      BY DEF Init
    <2> QED  BY <1>1, <1>3, <2>1 DEF StoreInv
  <1>5. WithinLimit
    BY <1>1, FS_EmptySet, LimitAssumption DEF WithinLimit, Init
  <1>6. Range(m_queues["FIFO"]) = {}
    BY <1>2 DEF QueueTypes
  <1> QED  BY <1>4, <1>5, <1>6 DEF IInv, Init

\* A packet that is refreshed or inserted is described by an entry.
LEMMA NewEntry ==
  ASSUME NEW d \in Packets, NEW b \in BOOLEAN
  PROVE  [unsolicited |-> b, staleIn |-> FreshnessPeriod[d]] \in Entries
  BY FreshnessAssumption DEF Entries

LEMMA InsertNewInv ==
  ASSUME IInv, NEW d \in Packets, NEW b \in BOOLEAN, InsertNew(d, b)
  PROVE  /\ IInv'
         /\ TakenInOrder(m_table, m_queues)
  <1> DEFINE entry == [unsolicited |-> b, staleIn |-> FreshnessPeriod[d]]
             table == With(m_table, d, entry)
             queues == Attach(m_queues, QueueFor(entry), d)
             timers == With(moveStaleEvent, d, TimerFor(entry))
  <1>1. entry \in Entries
    BY NewEntry
  <1>2. /\ d \notin DOMAIN m_table /\ evictEntries(table, queues, timers, m_limit)
        /\ policy' = policy /\ m_limit' = m_limit
    BY DEF InsertNew
  <1> HIDE DEF entry
  <1>3. /\ QueueFor(entry) \in QueueTypes /\ Place(QueueFor(entry), entry, TimerFor(entry))
        /\ TimerFor(entry) \in Nat \cup {Off}
        /\ policy = "lru" => QueueFor(entry) # "FIFO"
    BY <1>1, PlaceFor DEF IInv
  <1>4. StoreInv(m_table, m_queues, moveStaleEvent) /\ m_limit \in Nat
    BY LimitAssumption DEF IInv
  <1>5. StoreInv(table, queues, timers)
    BY ZenonT(60), <1>1, <1>2, <1>3, <1>4, AttachStore
  <1>6. m_queues \in [QueueTypes -> Seq(Packets)]
    BY <1>4 DEF StoreInv, Exact
  <1>7. /\ Range(queues[QueueFor(entry)]) = Range(m_queues[QueueFor(entry)]) \cup {d}
        /\ \A v \in QueueTypes : v # QueueFor(entry) => queues[v] = m_queues[v]
    BY ZenonT(60), <1>3, <1>6, AttachRange
  <1>14. \A i \in DOMAIN m_queues[QueueFor(entry)] :
           /\ i \in DOMAIN queues[QueueFor(entry)]
           /\ queues[QueueFor(entry)][i] = m_queues[QueueFor(entry)][i]
    BY <1>3, <1>6, AttachPlaces
  <1>8. /\ Range(m_queues["FIFO"]) \subseteq Range(queues["FIFO"])
        /\ Range(m_queues["STALE"]) \subseteq Range(queues["STALE"])
        /\ \A v \in QueueTypes : \A i \in DOMAIN m_queues[v] :
             i \in DOMAIN queues[v] /\ queues[v][i] = m_queues[v][i]
    BY <1>7, <1>14 DEF QueueTypes
  <1>9. policy = "lru" => Range(queues["FIFO"]) = {}
    BY <1>3, <1>7 DEF IInv, QueueTypes
  <1>10. DOMAIN m_table \subseteq DOMAIN table
    BY DEF With
  <1> HIDE DEF table, queues, timers
  <1>11. /\ StoreInv(m_table', m_queues', moveStaleEvent')
         /\ Cardinality(DOMAIN m_table') <= m_limit
         /\ Range(m_queues["FIFO"]') \subseteq Range(queues["FIFO"])
         /\ TakenInOrder(table, queues)
    BY <1>2, <1>4, <1>5, EvictStore
  <1>12. IInv'
    BY <1>2, <1>9, <1>11 DEF IInv, WithinLimit
  <1>13. TakenInOrder(m_table, m_queues)
    BY <1>8, <1>10, <1>11 DEF TakenInOrder
  <1> QED  BY <1>12, <1>13

LEMMA setLimitInv ==
  ASSUME IInv, NEW n \in 1 .. MaxLimit, setLimit(n)
  PROVE  /\ IInv'
         /\ TakenInOrder(m_table, m_queues)
  <1>1. /\ evictEntries(m_table, m_queues, moveStaleEvent, n)
        /\ policy' = policy /\ m_limit' = n /\ n \in Nat
    BY LimitAssumption DEF setLimit
  <1>2. StoreInv(m_table, m_queues, moveStaleEvent)
    BY DEF IInv
  <1>3. /\ StoreInv(m_table', m_queues', moveStaleEvent')
        /\ Cardinality(DOMAIN m_table') <= n
        /\ Range(m_queues["FIFO"]') \subseteq Range(m_queues["FIFO"])
        /\ TakenInOrder(m_table, m_queues)
    BY <1>1, <1>2, EvictStore
  <1>4. IInv'
    BY <1>1, <1>3 DEF IInv, WithinLimit
  <1> QED  BY <1>3, <1>4

\* The steps that move one stored packet: Refresh, moveToStaleQueue and find.
LEMMA MoveInv ==
  ASSUME IInv, NEW d \in DOMAIN m_table, NEW entry \in Entries,
         NEW timer \in Nat \cup {Off}, NEW t \in QueueTypes, Place(t, entry, timer),
         policy = "lru" => t # "FIFO",
         m_table' = [m_table EXCEPT ![d] = entry],
         m_queues' = Attach(Detach(m_queues, d), t, d),
         moveStaleEvent' = [moveStaleEvent EXCEPT ![d] = timer],
         policy' = policy, m_limit' = m_limit
  PROVE  IInv' /\ DOMAIN m_table' = DOMAIN m_table
  <1>1. StoreInv(m_table, m_queues, moveStaleEvent)
    BY DEF IInv
  <1>2. /\ StoreInv([m_table EXCEPT ![d] = entry], Attach(Detach(m_queues, d), t, d),
                    [moveStaleEvent EXCEPT ![d] = timer])
        /\ t # "FIFO" => Range(Attach(Detach(m_queues, d), t, d)["FIFO"])
                           \subseteq Range(m_queues["FIFO"])
    BY ZenonT(60), <1>1, MoveStore
  <1>3. StoreInv(m_table', m_queues', moveStaleEvent')
    BY <1>2
  <1>4. DOMAIN m_table' = DOMAIN m_table
    OBVIOUS
  <1>5. policy' = "lru" => Range(m_queues["FIFO"]') = {}
    BY <1>2 DEF IInv
  <1>6. WithinLimit'
    BY <1>4 DEF IInv, WithinLimit
  <1> QED  BY <1>3, <1>4, <1>5, <1>6 DEF IInv

LEMMA RefreshInv ==
  ASSUME IInv, NEW d \in Packets, NEW b \in BOOLEAN, Refresh(d, b)
  PROVE  IInv' /\ DOMAIN m_table' = DOMAIN m_table
  <1> DEFINE u == m_table[d].unsolicited /\ b
             entry == [unsolicited |-> u, staleIn |-> FreshnessPeriod[d]]
  <1>1. /\ d \in DOMAIN m_table
        /\ m_table' = [m_table EXCEPT ![d] = entry]
        /\ m_queues' = Attach(Detach(m_queues, d), QueueFor(entry), d)
        /\ moveStaleEvent' = [moveStaleEvent EXCEPT ![d] = TimerFor(entry)]
        /\ policy' = policy /\ m_limit' = m_limit
    BY DEF Refresh
  <1>2. u \in BOOLEAN
    OBVIOUS
  <1> HIDE DEF u
  <1>3. entry \in Entries
    BY <1>2, NewEntry
  <1> HIDE DEF entry
  <1>4. /\ QueueFor(entry) \in QueueTypes /\ Place(QueueFor(entry), entry, TimerFor(entry))
        /\ TimerFor(entry) \in Nat \cup {Off}
        /\ policy = "lru" => QueueFor(entry) # "FIFO"
    BY <1>3, PlaceFor DEF IInv
  <1> QED  BY ZenonT(60), <1>1, <1>3, <1>4, MoveInv

LEMMA moveToStaleQueueInv ==
  ASSUME IInv, NEW d \in DOMAIN m_table, moveToStaleQueue(d)
  PROVE  IInv' /\ DOMAIN m_table' = DOMAIN m_table
  <1> DEFINE entry == m_table[d]
  <1>1. /\ moveStaleEvent[d] = 0
        /\ m_queues' = Attach(Detach(m_queues, d), "STALE", d)
        /\ moveStaleEvent' = [moveStaleEvent EXCEPT ![d] = Off]
        /\ policy' = policy /\ m_limit' = m_limit /\ m_table' = m_table
    BY DEF moveToStaleQueue
  <1>2. StoreInv(m_table, m_queues, moveStaleEvent)
    BY DEF IInv
  <1>3. entry \in Entries /\ m_table' = [m_table EXCEPT ![d] = entry]
    BY <1>1, <1>2 DEF StoreInv
  <1>4. PICK t \in QueueTypes : d \in Range(m_queues[t])
    BY <1>2, QueuedMember DEF StoreInv, Exact
  <1>5. Place(t, entry, 0)
    BY <1>1, <1>2, <1>4 DEF StoreInv
  <1>6. Place("STALE", entry, Off)
    BY <1>5, SpecialAssumption DEF Place
  <1> HIDE DEF entry
  <1>7. "STALE" \in QueueTypes /\ Off \in Nat \cup {Off}
    BY DEF QueueTypes
  <1> QED  BY ZenonT(60), <1>1, <1>3, <1>6, <1>7, MoveInv

LEMMA findInv ==
  ASSUME IInv, NEW i \in Interests, find(i)
  PROVE  IInv' /\ DOMAIN m_table' = DOMAIN m_table
  <1> DEFINE d == Match(i)
             entry == m_table[d]
             timer == moveStaleEvent[d]
  <1>1. /\ policy = "lru" /\ d \in DOMAIN m_table
        /\ m_queues' = Attach(Detach(m_queues, d), "LRU", d)
        /\ policy' = policy /\ m_limit' = m_limit
        /\ m_table' = m_table /\ moveStaleEvent' = moveStaleEvent
    BY DEF find
  <1> HIDE DEF d
  <1>2. StoreInv(m_table, m_queues, moveStaleEvent)
    BY DEF IInv
  <1>3. /\ entry \in Entries /\ timer \in Nat \cup {Off}
        /\ m_table' = [m_table EXCEPT ![d] = entry]
        /\ moveStaleEvent' = [moveStaleEvent EXCEPT ![d] = timer]
    BY <1>1, <1>2 DEF StoreInv
  <1>4. PICK t \in QueueTypes : d \in Range(m_queues[t])
    BY <1>1, <1>2, QueuedMember DEF StoreInv, Exact
  <1>5. Place(t, entry, timer) /\ t # "FIFO"
    BY <1>1, <1>2, <1>4 DEF StoreInv, IInv
  <1> HIDE DEF entry, timer
  <1>6. Place("LRU", entry, timer)
    BY <1>5 DEF Place
  <1>7. "LRU" \in QueueTypes
    BY DEF QueueTypes
  <1> QED  BY ZenonT(60), <1>1, <1>3, <1>6, <1>7, MoveInv

LEMMA setPolicyInv ==
  ASSUME IInv, NEW p \in {"fifo", "lru"}, setPolicy(p)
  PROVE  IInv' /\ DOMAIN m_table' = DOMAIN m_table
  <1>1. /\ DOMAIN m_table = {} /\ policy' = p /\ m_limit' = m_limit /\ m_table' = m_table
        /\ m_queues' = m_queues /\ moveStaleEvent' = moveStaleEvent
    BY DEF setPolicy
  <1>2. StoreInv(m_table, m_queues, moveStaleEvent)
    BY DEF IInv
  <1>3. Range(m_queues["FIFO"]) = {}
    BY ZenonT(60), <1>1, <1>2, QueuedMember DEF StoreInv, Exact, QueueTypes
  <1> QED  BY <1>1, <1>2, <1>3 DEF IInv, WithinLimit

LEMMA TickInv ==
  ASSUME IInv, Tick
  PROVE  IInv' /\ DOMAIN m_table' = DOMAIN m_table
  <1>1. /\ policy' = policy /\ m_limit' = m_limit /\ m_queues' = m_queues
        /\ DOMAIN m_table' = DOMAIN m_table
    BY DEF Tick
  <1>2. StoreInv(m_table, m_queues, moveStaleEvent)
    BY DEF IInv
  <1>3. ASSUME NEW d \in DOMAIN m_table
        PROVE  /\ m_table'[d] \in Entries
               /\ moveStaleEvent'[d] \in Nat \cup {Off}
               /\ \A t \in QueueTypes : Place(t, m_table[d], moveStaleEvent[d])
                                         => Place(t, m_table'[d], moveStaleEvent'[d])
    <2> DEFINE entry == m_table[d]
               timer == moveStaleEvent[d]
    <2>1. /\ entry \in Entries /\ timer \in Nat \cup {Off}
          /\ entry.unsolicited \in BOOLEAN /\ entry.staleIn \in Nat \cup {Never, -1}
      BY <1>2 DEF StoreInv, Entries, Times
    <2>2. timer # 0
      BY DEF Tick
    <2>3. m_table'[d] = [entry EXCEPT !.staleIn = IF @ \in {Never, -1} THEN @ ELSE @ - 1]
      BY DEF Tick
    <2>4. moveStaleEvent'[d] = IF timer = Off THEN Off ELSE timer - 1
      BY DEF Tick
    <2> HIDE DEF entry, timer
    <2>5. moveStaleEvent'[d] \in Nat \cup {Off}
      BY <2>1, <2>2, <2>4
    <2>6. /\ m_table'[d].unsolicited = entry.unsolicited
          /\ m_table'[d].staleIn = IF entry.staleIn \in {Never, -1} THEN entry.staleIn
                                   ELSE entry.staleIn - 1
          /\ m_table'[d] \in Entries
      <3>1. entry = [unsolicited |-> entry.unsolicited, staleIn |-> entry.staleIn]
        BY <2>1 DEF Entries
      <3>2. (IF entry.staleIn \in {Never, -1} THEN entry.staleIn ELSE entry.staleIn - 1)
               \in Nat \cup {Never, -1}
        BY <2>1
      <3> QED  BY <2>1, <2>3, <3>1, <3>2 DEF Entries, Times
    <2>7. ASSUME NEW t \in QueueTypes, Place(t, entry, timer)
          PROVE  Place(t, m_table'[d], moveStaleEvent'[d])
      <3>1. CASE t = "FIFO"
        BY <2>1, <2>2, <2>4, <2>6, <2>7, <3>1, SpecialAssumption DEF Place, isStale, canStale
      <3>2. CASE t = "STALE"
        BY <2>1, <2>4, <2>6, <2>7, <3>2, SpecialAssumption DEF Place
      <3>3. CASE t \notin {"FIFO", "STALE"}
        BY <2>1, <2>4, <2>6, <2>7, <3>3 DEF Place
      <3> QED  BY <3>1, <3>2, <3>3
    <2> QED  BY <2>5, <2>6, <2>7 DEF entry, timer
  <1>4. StoreInv(m_table', m_queues', moveStaleEvent')
    <2>1. m_table' \in [DOMAIN m_table -> Entries]
          /\ moveStaleEvent' \in [DOMAIN m_table -> Nat \cup {Off}]
      BY <1>3 DEF Tick
    <2>2. \A d \in DOMAIN m_table, t \in QueueTypes :
            d \in Range(m_queues[t]) => Place(t, m_table'[d], moveStaleEvent'[d])
      BY <1>2, <1>3 DEF StoreInv
    <2> QED  BY <1>1, <1>2, <2>1, <2>2 DEF StoreInv
  <1> QED  BY <1>1, <1>4 DEF IInv, WithinLimit

LEMMA NextInv == IInv /\ [Next]_vars => IInv' /\ (TakenInOrder(m_table, m_queues) \/ UNCHANGED vars)
  <1> SUFFICES ASSUME IInv, [Next]_vars PROVE IInv' /\ (TakenInOrder(m_table, m_queues) \/ UNCHANGED vars)
    OBVIOUS
  <1>1. ASSUME DOMAIN m_table' = DOMAIN m_table PROVE TakenInOrder(m_table, m_queues)
    BY <1>1 DEF TakenInOrder
  <1>2. ASSUME NEW d \in Packets, NEW b \in BOOLEAN, InsertNew(d, b)
        PROVE  IInv' /\ TakenInOrder(m_table, m_queues)
    BY <1>2, InsertNewInv
  <1>3. ASSUME NEW d \in Packets, NEW b \in BOOLEAN, Refresh(d, b)
        PROVE  IInv' /\ TakenInOrder(m_table, m_queues)
    BY <1>1, <1>3, RefreshInv
  <1>4. ASSUME NEW d \in DOMAIN m_table, moveToStaleQueue(d)
        PROVE  IInv' /\ TakenInOrder(m_table, m_queues)
    BY <1>1, <1>4, moveToStaleQueueInv
  <1>5. ASSUME NEW n \in 1 .. MaxLimit, setLimit(n)
        PROVE  IInv' /\ TakenInOrder(m_table, m_queues)
    BY <1>5, setLimitInv
  <1>6. ASSUME NEW p \in {"fifo", "lru"}, setPolicy(p)
        PROVE  IInv' /\ TakenInOrder(m_table, m_queues)
    BY <1>1, <1>6, setPolicyInv
  <1>7. ASSUME NEW i \in Interests, find(i)
        PROVE  IInv' /\ TakenInOrder(m_table, m_queues)
    BY <1>1, <1>7, findInv
  <1>8. ASSUME Tick PROVE IInv' /\ TakenInOrder(m_table, m_queues)
    BY <1>1, <1>8, TickInv
  <1>9. CASE UNCHANGED vars
    BY <1>9 DEF vars, IInv, WithinLimit
  <1> QED  BY <1>2, <1>3, <1>4, <1>5, <1>6, <1>7, <1>8, <1>9 DEF Next

\* The invariant holds in every state the content store reaches.
THEOREM Invariance == Spec => []IInv
  <1>1. Init => IInv
    BY InitInv
  <1>2. IInv /\ [Next]_vars => IInv'
    BY NextInv
  <1> QED  BY <1>1, <1>2, PTL DEF Spec

\* The variables of Cs and of the policies keep their types.
THEOREM TypeCorrect == Spec => []TypeOK
  <1>1. ASSUME IInv PROVE TypeOK
    <2>1. ASSUME NEW t \in QueueTypes PROVE m_queues[t] \in Seq(DOMAIN m_table)
      <3>1. m_queues[t] \in Seq(Packets)
        BY <1>1 DEF IInv, StoreInv, Exact
      <3>2. \A i \in 1 .. Len(m_queues[t]) : m_queues[t][i] \in Range(m_queues[t])
        BY <3>1 DEF Range
      <3>3. Range(m_queues[t]) \subseteq DOMAIN m_table
        BY <1>1, QueuedMember DEF IInv, StoreInv, Exact
      <3>4. \A i \in 1 .. Len(m_queues[t]) : m_queues[t][i] \in DOMAIN m_table
        BY <3>2, <3>3
      <3> QED  BY <3>1, <3>4
    <2>2. m_queues \in [QueueTypes -> Seq(DOMAIN m_table)]
      BY <1>1, <2>1 DEF IInv, StoreInv, Exact
    <2> QED  BY <1>1, <2>2 DEF IInv, StoreInv, TypeOK
  <1> QED  BY <1>1, Invariance, PTL

\* The queues of the policy partition the stored packets, whatever the order
\* of insertions, refreshes, evictions and timers.
THEOREM QueuesExactHolds == Spec => []QueuesExact
  <1>1. ASSUME IInv PROVE QueuesExact
    <2>1. Exact(m_queues, DOMAIN m_table)
      BY <1>1 DEF IInv, StoreInv
    <2>2. ASSUME NEW t \in QueueTypes, NEW v \in QueueTypes,
                 NEW i \in DOMAIN m_queues[t], NEW j \in DOMAIN m_queues[v],
                 m_queues[t][i] = m_queues[v][j]
          PROVE  t = v /\ i = j
      <3>1. m_queues[t][i] \in Range(m_queues[t]) /\ m_queues[v][j] \in Range(m_queues[v])
        BY DEF Range
      <3>2. t = v
        BY <2>1, <2>2, <3>1 DEF Exact
      <3>3. m_queues[t] \in Seq(Packets) /\ Distinct(m_queues[t])
        BY <2>1 DEF Exact
      <3>4. i \in 1 .. Len(m_queues[t]) /\ j \in 1 .. Len(m_queues[t])
        BY <3>2, <3>3
      <3> QED  BY <2>2, <3>2, <3>3, <3>4 DEF Distinct
    <2> QED  BY <2>1, <2>2 DEF QueuesExact, Exact
  <1> QED  BY <1>1, Invariance, PTL

\* A packet's queue tells its state, and a moveStaleEvent timer runs exactly
\* for the packets of the FIFO queue that can become stale.
THEOREM TimersExactHolds == Spec => []TimersExact
  <1>1. ASSUME IInv PROVE TimersExact
    <2>1. StoreInv(m_table, m_queues, moveStaleEvent)
      BY <1>1 DEF IInv
    <2>2. ASSUME NEW d \in DOMAIN m_table, NEW t \in QueueTypes, d \in Range(m_queues[t])
          PROVE  Place(t, m_table[d], moveStaleEvent[d])
      BY <2>1, <2>2 DEF StoreInv
    <2>3. ASSUME NEW d \in DOMAIN m_table
          PROVE  \E t \in QueueTypes : d \in Range(m_queues[t])
      BY <2>1, QueuedMember DEF StoreInv, Exact
    <2> QED  BY <2>2, <2>3 DEF TimersExact, Place, QueueTypes
  <1> QED  BY <1>1, Invariance, PTL

\* The store never holds more packets than its limit.
THEOREM WithinLimitHolds == Spec => []WithinLimit
  <1>1. IInv => WithinLimit
    BY DEF IInv
  <1> QED  BY <1>1, Invariance, PTL

\* evictOne takes packets by the priorities of the queues and in the order of
\* each.
THEOREM EvictionOrderHolds == Spec => EvictionOrder
  <1> DEFINE Order == TakenInOrder(m_table, m_queues)
  <1>1. IInv /\ [Next]_vars => [Order]_vars
    BY NextInv
  <1>2. [Order]_vars =>
          [\A d \in DOMAIN m_table \ DOMAIN m_table' :
             /\ d \in Range(m_queues["STALE"]) => m_queues'["UNSOLICITED"] = <<>>
             /\ d \in Range(m_queues["FIFO"]) =>
                  m_queues'["UNSOLICITED"] = <<>> /\ m_queues'["STALE"] = <<>>
             /\ \A t \in QueueTypes : \A i, j \in DOMAIN m_queues[t] :
                  i < j /\ m_queues[t][j] = d => m_queues[t][i] \notin DOMAIN m_table']_vars
    BY DEF TakenInOrder
  <1> HIDE DEF Order
  <1> QED  BY <1>1, <1>2, Invariance, PTL DEF Spec, EvictionOrder
=============================================================================
