--------------------------- MODULE RoutingTable_proofs ---------------------------
(***************************************************************************)
(* Proofs about the RoutingTable.  The layout never changes, so that every *)
(* id has one home at most, and every bucket lists its nodes the latest    *)
(* first.                                                                  *)
(***************************************************************************)
EXTENDS Layout_proofs

-----------------------------------------------------------------------------
(* The lists of nodes.                                                     *)

\* A list of the bucket b: it is short, in range and the latest node comes first,
\* which was made top-th at most.
GoodList(nodes, b, top) ==
    /\ nodes \in Seq(Node)
    /\ Len(nodes) <= Capacity
    /\ \A k \in DOMAIN nodes : WithinRange(b, nodes[k].id) /\ nodes[k].ref <= top
    /\ \A k, l \in DOMAIN nodes : k < l => nodes[k].ref > nodes[l].ref

\* What Kept keeps of a list are the elements at the positions, in order.
LEMMA KeptList ==
    ASSUME NEW S, NEW m \in Seq(S), NEW K \in SUBSET DOMAIN m
    PROVE  /\ Kept(m, K) \in Seq(S)
           /\ Len(Kept(m, K)) = Cardinality(K)
           /\ Range(Kept(m, K)) = {m[i] : i \in K}
           /\ \E f \in [DOMAIN Kept(m, K) -> K] :
                 /\ \A k \in DOMAIN Kept(m, K) : Kept(m, K)[k] = m[f[k]]
                 /\ \A k, l \in DOMAIN Kept(m, K) : k < l => f[k] < f[l]
<1> DEFINE L == Listed(K, ByPosition(m))
           n == Cardinality(K)
           r == Kept(m, K)
<1>1. /\ n \in Nat /\ r \in Seq(S) /\ Len(r) = n
      /\ \A k \in 1 .. n : L[k] \in K /\ r[k] = m[L[k]]
      /\ \A k, l \in 1 .. n : k < l => L[k] < L[l]
      /\ \A i \in K : \E k \in 1 .. n : L[k] = i
  BY KeptProperties
<1> HIDE DEF L, n, r
<1>2. DOMAIN r = 1 .. n
  BY <1>1
<1>3. Range(r) = {m[i] : i \in K}
  BY <1>1, <1>2 DEF Range
<1> DEFINE f == [k \in 1 .. n |-> L[k]]
<1>4. f \in [DOMAIN r -> K]
  BY <1>1, <1>2
<1>5. \A k \in DOMAIN r : r[k] = m[f[k]]
  BY <1>1, <1>2
<1>6. \A k, l \in DOMAIN r : k < l => f[k] < f[l]
  BY <1>1, <1>2
<1> HIDE DEF f
<1> QED BY <1>1, <1>3, <1>4, <1>5, <1>6 DEF r, n

\* Bucket.remove keeps the order of the others and takes nothing else.
LEMMA RemovedFromGood ==
    ASSUME NEW nodes, NEW b, NEW top, GoodList(nodes, b, top), NEW S
    PROVE  /\ GoodList(RemovedFrom(nodes, S), b, top)
           /\ Range(RemovedFrom(nodes, S)) = {n \in Range(nodes) : \A m \in S : n.ref # m.ref}
<1> DEFINE K == {k \in DOMAIN nodes : \A n \in S : nodes[k].ref # n.ref}
           r == RemovedFrom(nodes, S)
<1>1. nodes \in Seq(Node) /\ K \in SUBSET DOMAIN nodes /\ DOMAIN nodes = 1 .. Len(nodes)
      /\ Len(nodes) \in Nat
  BY DEF GoodList
<1>2. r = Kept(nodes, K)
  BY DEF RemovedFrom
<1>3. {nodes[i] : i \in K} = {n \in Range(nodes) : \A m \in S : n.ref # m.ref}
  BY DEF Range
<1> HIDE DEF r, K
<1>4. /\ r \in Seq(Node) /\ Len(r) = Cardinality(K)
      /\ Range(r) = {nodes[i] : i \in K}
  BY <1>1, <1>2, KeptList
<1>5. PICK f \in [DOMAIN r -> K] :
         /\ \A k \in DOMAIN r : r[k] = nodes[f[k]]
         /\ \A k, l \in DOMAIN r : k < l => f[k] < f[l]
  BY <1>1, <1>2, KeptList
<1>6. Cardinality(K) <= Len(nodes)
  <2>1. IsFiniteSet(1 .. Len(nodes)) /\ Cardinality(1 .. Len(nodes)) = Len(nodes)
    BY <1>1, FS_Interval
  <2> QED BY <1>1, <2>1, FS_Subset
<1>7. \A k \in DOMAIN r : f[k] \in DOMAIN nodes
  BY <1>1
<1>8. Len(r) <= Capacity
  <2>1. Len(r) \in Nat /\ Len(nodes) <= Capacity
    BY <1>4 DEF GoodList
  <2> QED BY <1>1, <1>4, <1>6, <2>1, SizeAssumption
<1>9. GoodList(r, b, top)
  BY <1>4, <1>5, <1>7, <1>8 DEF GoodList
<1> QED BY <1>3, <1>4, <1>9 DEF r

\* What a good list says of its nodes, one by one.
LEMMA GoodListFacts ==
    ASSUME NEW nodes, NEW b, NEW top \in Nat, GoodList(nodes, b, top)
    PROVE  /\ nodes \in Seq(Node) /\ DOMAIN nodes = 1 .. Len(nodes) /\ Len(nodes) \in 0 .. Capacity
           /\ Capacity \in Nat \ {0}
           /\ \A k \in 1 .. Len(nodes) :
                 /\ nodes[k] \in Node /\ WithinRange(b, nodes[k].id)
                 /\ nodes[k].ref \in Nat \ {0} /\ nodes[k].ref <= top
           /\ \A k, l \in 1 .. Len(nodes) : k < l => nodes[k].ref > nodes[l].ref
<1>1. /\ nodes \in Seq(Node) /\ Len(nodes) <= Capacity
      /\ \A k \in DOMAIN nodes : WithinRange(b, nodes[k].id) /\ nodes[k].ref <= top
      /\ \A k, l \in DOMAIN nodes : k < l => nodes[k].ref > nodes[l].ref
  BY DEF GoodList
<1>2. Capacity \in Nat \ {0}
  BY SizeAssumption
<1>3. DOMAIN nodes = 1 .. Len(nodes) /\ Len(nodes) \in Nat
  BY <1>1, LenProperties
<1>4. \A k \in 1 .. Len(nodes) : nodes[k] \in Node
  BY <1>1, ElementOfSeq
<1>5. \A k \in 1 .. Len(nodes) : nodes[k].ref \in Nat \ {0}
  BY <1>4 DEF Node
<1> QED BY <1>1, <1>2, <1>3, <1>4, <1>5

\* Bucket.add of a node made later than those of the list: it comes first, the others
\* move on by one place, and only the last of a full list is gone.
LEMMA AddedToShape ==
    ASSUME NEW nodes, NEW b, NEW top \in Nat, GoodList(nodes, b, top),
           NEW node \in Node, node.ref > top
    PROVE  LET r == AddedTo(nodes, node)
           IN  /\ r \in Seq(Node)
               /\ Len(r) = IF Len(nodes) < Capacity THEN Len(nodes) + 1 ELSE Capacity
               /\ r[1] = node
               /\ \A k \in DOMAIN r : k > 1 => k - 1 \in DOMAIN nodes /\ r[k] = nodes[k - 1]
<1> DEFINE n == Len(nodes)
           r == AddedTo(nodes, node)
           s == IF n >= Capacity THEN RemovedFrom(nodes, {nodes[n]}) ELSE nodes
<1>1. /\ nodes \in Seq(Node) /\ DOMAIN nodes = 1 .. n /\ n \in Nat /\ n <= Capacity
      /\ Capacity \in Nat \ {0}
      /\ \A k \in 1 .. n : nodes[k] \in Node /\ nodes[k].ref \in Nat /\ nodes[k].ref <= top
      /\ node.ref \in Nat
  <2>1. /\ nodes \in Seq(Node) /\ DOMAIN nodes = 1 .. Len(nodes) /\ Len(nodes) \in 0 .. Capacity
        /\ Capacity \in Nat \ {0}
        /\ \A k \in 1 .. Len(nodes) :
              /\ nodes[k] \in Node /\ WithinRange(b, nodes[k].id)
              /\ nodes[k].ref \in Nat \ {0} /\ nodes[k].ref <= top
        /\ \A k, l \in 1 .. Len(nodes) : k < l => nodes[k].ref > nodes[l].ref
    BY GoodListFacts
  <2>2. node.ref \in Nat
    BY DEF Node
  <2> QED BY <2>1, <2>2
<1>2. r = <<node>> \o s
  BY <1>1 DEF AddedTo
<1>3. /\ s \in Seq(Node)
      /\ Len(s) = IF n < Capacity THEN n ELSE n - 1
      /\ \A k \in 1 .. Len(s) : k \in 1 .. n /\ s[k] = nodes[k]
  <2>1. CASE n < Capacity
    <3>1. s = nodes /\ Len(s) = n
      BY <1>1, <2>1
    <3> QED BY <1>1, <2>1, <3>1
  <2>2. CASE n >= Capacity
    <3> DEFINE K == {k \in DOMAIN nodes : \A m \in {nodes[n]} : nodes[k].ref # m.ref}
    <3>1. n \in DOMAIN nodes /\ n - 1 \in 0 .. n
      BY <1>1, <2>2
    <3>2. \A k \in 1 .. n - 1 : nodes[k].ref > nodes[n].ref
      BY <1>1, <3>1 DEF GoodList
    <3>3. K = 1 .. n - 1
      BY <1>1, <3>1, <3>2
    <3>4. s = Kept(nodes, K)
      BY <2>2 DEF RemovedFrom
    <3>5. s = Kept(nodes, 1 .. n - 1)
      BY <3>3, <3>4
    <3> HIDE DEF s, n, K
    <3>6. /\ s \in Seq(Node) /\ Len(s) = n - 1
          /\ \A k \in 1 .. n - 1 : s[k] = nodes[k]
      BY <1>1, <3>1, <3>5, KeptPrefix DEF n
    <3>7. n - 1 \in Nat /\ ~ (n < Capacity) /\ \A k \in 1 .. n - 1 : k \in 1 .. n
      BY <1>1, <2>2
    <3> QED BY <3>6, <3>7
  <2>3. n < Capacity \/ n >= Capacity
    BY <1>1
  <2> QED BY <2>1, <2>2, <2>3
<1> HIDE DEF s, r, n
<1>4. r \in Seq(Node) /\ Len(r) = Len(s) + 1 /\ DOMAIN r = 1 .. Len(s) + 1 /\ r[1] = node
      /\ \A k \in DOMAIN r : k > 1 => r[k] = s[k - 1]
  BY <1>2, <1>3
<1>5. Len(s) \in Nat
  BY <1>3
<1>6. Len(r) = IF n < Capacity THEN n + 1 ELSE Capacity
  BY <1>1, <1>3, <1>4
<1>7. \A k \in DOMAIN r : k > 1 => k - 1 \in DOMAIN nodes /\ r[k] = nodes[k - 1]
  <2> SUFFICES ASSUME NEW k \in DOMAIN r, k > 1
               PROVE  k - 1 \in DOMAIN nodes /\ r[k] = nodes[k - 1]
    OBVIOUS
  <2>1. k - 1 \in 1 .. Len(s)
    BY <1>4, <1>5
  <2> QED BY <1>1, <1>3, <1>4, <2>1
<1> QED BY <1>4, <1>6, <1>7 DEF r, n

\* The list stays good, and who is gone is older than all of a full list.
LEMMA AddedToGood ==
    ASSUME NEW nodes, NEW b, NEW top \in Nat, GoodList(nodes, b, top),
           NEW node \in Node, node.ref > top, WithinRange(b, node.id),
           NEW high \in Nat, node.ref <= high
    PROVE  LET r == AddedTo(nodes, node)
           IN  /\ GoodList(r, b, high)
               /\ node \in Range(r)
               /\ Range(r) \subseteq Range(nodes) \cup {node}
               /\ \A n \in Range(nodes) \ Range(r) :
                     Len(r) = Capacity /\ \A m \in Range(r) : m.ref > n.ref
<1> DEFINE n == Len(nodes)
           r == AddedTo(nodes, node)
<1>1. /\ nodes \in Seq(Node) /\ DOMAIN nodes = 1 .. n /\ n \in Nat /\ n <= Capacity
      /\ Capacity \in Nat \ {0}
      /\ \A k \in 1 .. n : /\ nodes[k] \in Node /\ nodes[k].ref \in Nat /\ nodes[k].ref <= top
                           /\ WithinRange(b, nodes[k].id)
      /\ \A k, l \in 1 .. n : k < l => nodes[k].ref > nodes[l].ref
      /\ node.ref \in Nat
  <2>1. /\ nodes \in Seq(Node) /\ DOMAIN nodes = 1 .. Len(nodes) /\ Len(nodes) \in 0 .. Capacity
        /\ Capacity \in Nat \ {0}
        /\ \A k \in 1 .. Len(nodes) :
              /\ nodes[k] \in Node /\ WithinRange(b, nodes[k].id)
              /\ nodes[k].ref \in Nat \ {0} /\ nodes[k].ref <= top
        /\ \A k, l \in 1 .. Len(nodes) : k < l => nodes[k].ref > nodes[l].ref
    BY GoodListFacts
  <2>2. node.ref \in Nat
    BY DEF Node
  <2> QED BY <2>1, <2>2
<1>2. /\ r \in Seq(Node)
      /\ Len(r) = IF n < Capacity THEN n + 1 ELSE Capacity
      /\ r[1] = node
      /\ \A k \in DOMAIN r : k > 1 => k - 1 \in DOMAIN nodes /\ r[k] = nodes[k - 1]
  BY AddedToShape
<1> HIDE DEF r
<1>3. /\ DOMAIN r = 1 .. Len(r) /\ Len(r) \in 1 .. Capacity /\ 1 \in DOMAIN r
      /\ Len(r) = n + 1 \/ (Len(r) = n /\ n = Capacity)
  <2>1. DOMAIN r = 1 .. Len(r) /\ Len(r) \in Nat
    BY <1>2, LenProperties
  <2> HIDE DEF n
  <2> QED BY <1>1, <1>2, <2>1
<1> HIDE DEF n
<1>4. \A k \in DOMAIN r : /\ WithinRange(b, r[k].id)
                          /\ r[k].ref \in Nat /\ r[k].ref <= high
                          /\ k > 1 => r[k].ref <= top
  <2> SUFFICES ASSUME NEW k \in DOMAIN r
               PROVE  /\ WithinRange(b, r[k].id)
                      /\ r[k].ref \in Nat /\ r[k].ref <= high
                      /\ k > 1 => r[k].ref <= top
    OBVIOUS
  <2>1. CASE k = 1
    BY <1>1, <1>2, <2>1
  <2>2. CASE k > 1
    <3>1. k - 1 \in 1 .. n /\ r[k] = nodes[k - 1]
      BY <1>1, <1>2, <2>2
    <3> QED BY <1>1, <3>1
  <2> QED BY <1>3, <2>1, <2>2
<1>5. \A k, l \in DOMAIN r : k < l => r[k].ref > r[l].ref
  <2> SUFFICES ASSUME NEW k \in DOMAIN r, NEW l \in DOMAIN r, k < l
               PROVE  r[k].ref > r[l].ref
    OBVIOUS
  <2>1. l > 1 /\ l - 1 \in 1 .. n /\ r[l] = nodes[l - 1]
    BY <1>1, <1>2, <1>3
  <2>2. CASE k = 1
    BY <1>1, <1>2, <2>1, <2>2
  <2>3. CASE k > 1
    <3>1. k - 1 \in 1 .. n /\ r[k] = nodes[k - 1] /\ k - 1 < l - 1
      BY <1>1, <1>2, <1>3, <2>3
    <3> QED BY <1>1, <2>1, <3>1
  <2> QED BY <1>3, <2>2, <2>3
<1>6. GoodList(r, b, high)
  BY <1>2, <1>3, <1>4, <1>5 DEF GoodList
<1>7. node \in Range(r)
  <2>1. 1 \in DOMAIN r
    BY <1>3
  <2>2. r[1] = node
    BY <1>2
  <2> QED BY <2>1, <2>2 DEF Range
<1>8. Range(r) \subseteq Range(nodes) \cup {node}
  <2> SUFFICES ASSUME NEW k \in DOMAIN r PROVE r[k] \in Range(nodes) \cup {node}
    BY DEF Range
  <2>1. CASE k = 1
    BY <1>2, <2>1
  <2>2. CASE k > 1
    BY <1>2, <2>2 DEF Range
  <2> QED BY <1>3, <2>1, <2>2
<1>9. ASSUME NEW i \in 1 .. n, nodes[i] \notin Range(r)
      PROVE  Len(r) = Capacity /\ \A k \in DOMAIN r : r[k].ref > nodes[i].ref
  <2>1. i + 1 \notin DOMAIN r
    <3> SUFFICES ASSUME i + 1 \in DOMAIN r PROVE FALSE
      OBVIOUS
    <3>1. r[i + 1] = nodes[i]
      BY <1>1, <1>2
    <3> QED BY <1>9, <3>1 DEF Range
  <2>2. i = n /\ Len(r) = n /\ n = Capacity
    <3>1. n \in Nat /\ i \in 1 .. n /\ i + 1 \notin 1 .. Len(r)
      BY <1>1, <1>3, <2>1
    <3>2. Len(r) = n + 1 \/ (Len(r) = n /\ n = Capacity)
      BY <1>3
    <3> QED BY <3>1, <3>2
  <2>3. ASSUME NEW k \in DOMAIN r PROVE r[k].ref > nodes[i].ref
    <3>1. CASE k = 1
      BY <1>1, <1>2, <3>1
    <3>2. CASE k > 1
      <4>1. k - 1 \in 1 .. n /\ r[k] = nodes[k - 1] /\ k - 1 < i
        BY <1>1, <1>2, <1>3, <2>2, <3>2
      <4> QED BY <1>1, <4>1
    <3> QED BY <1>3, <3>1, <3>2
  <2> QED BY <2>2, <2>3
<1>10. \A o \in Range(nodes) \ Range(r) :
          Len(r) = Capacity /\ \A m \in Range(r) : m.ref > o.ref
  BY <1>1, <1>9 DEF Range
<1> QED BY <1>6, <1>7, <1>8, <1>10 DEF r

-----------------------------------------------------------------------------
(* The inductive invariant.                                                *)

\* The buckets are those that generateBuckets made, whatever their lists.
LayoutStays ==
    /\ buckets \in [1 .. Bits -> Bucket]
    /\ \A i \in 1 .. Bits : /\ buckets[i].start = BucketAt(localId, Bits - i).start
                            /\ buckets[i].end = BucketAt(localId, Bits - i).end

RtInv ==
    /\ localId \in Ids
    /\ made \in 0 .. MaxMade
    /\ LayoutStays
    /\ \A i \in 1 .. Bits : GoodList(buckets[i].nodes, buckets[i], made)

\* The powers of two grow.
LEMMA Pow2Grows ==
    ASSUME NEW k \in 0 .. Bits, NEW l \in 0 .. Bits, k <= l
    PROVE  Pow2[k] <= Pow2[l]
<1> DEFINE N == {n \in Nat : k + n <= Bits => Pow2[k] <= Pow2[k + n]}
<1>1. 0 \in N
  BY Pow2Facts, BitsAssumption
<1>2. ASSUME NEW n \in Nat, n \in N PROVE n + 1 \in N
  <2> SUFFICES ASSUME k + (n + 1) <= Bits PROVE Pow2[k] <= Pow2[k + (n + 1)]
    OBVIOUS
  <2>1. /\ k + n \in 0 .. Bits /\ k + (n + 1) \in 1 .. Bits
        /\ (k + (n + 1)) - 1 = k + n
    BY BitsAssumption
  <2>2. Pow2[k] <= Pow2[k + n]
    BY <1>2, <2>1
  <2>3. Pow2[k] \in Nat /\ Pow2[k + n] \in Nat /\ Pow2[k + (n + 1)] = 2 * Pow2[k + n]
    BY <2>1, Pow2Facts
  <2> QED BY <2>2, <2>3
<1>3. l - k \in N
  <2> HIDE DEF N
  <2>1. Nat \subseteq N
    BY <1>1, <1>2, SetInduction
  <2> QED BY <2>1, BitsAssumption
<1>4. k + (l - k) = l /\ l <= Bits
  BY BitsAssumption
<1> QED BY <1>3, <1>4

\* The range of a bucket, by the distance from the local id.
LEMMA RangeByDistance ==
    ASSUME localId \in Ids, LayoutStays, NEW id \in Ids, NEW i \in 1 .. Bits
    PROVE  WithinRange(buckets[i], id)
              <=> /\ Pow2[Bits - i] <= Distance(id, localId)
                  /\ Distance(id, localId) < Pow2[Bits - i + 1]
<1>1. Bits - i \in 0 .. Bits - 1
  BY BitsAssumption
<1>2. WithinRange(buckets[i], id) <=> WithinRange(BucketAt(localId, Bits - i), id)
  BY DEF WithinRange, LayoutStays
<1>3. WithinRange(BucketAt(localId, Bits - i), id)
         <=> /\ Pow2[Bits - i] <= Distance(id, localId)
             /\ Distance(id, localId) < Pow2[Bits - i + 1]
  BY <1>1, BucketByDistance
<1> QED BY <1>2, <1>3

\* No id has two homes.
LEMMA OneHome ==
    ASSUME localId \in Ids, LayoutStays, NEW id \in Ids,
           NEW i \in 1 .. Bits, NEW j \in 1 .. Bits,
           WithinRange(buckets[i], id), WithinRange(buckets[j], id)
    PROVE  i = j
<1> DEFINE D == Distance(id, localId)
<1>1. /\ Pow2[Bits - i] <= D /\ D < Pow2[Bits - i + 1]
      /\ Pow2[Bits - j] <= D /\ D < Pow2[Bits - j + 1]
  BY RangeByDistance
<1>2. /\ D \in Nat
      /\ \A k \in 0 .. Bits : Pow2[k] \in Nat
  <2>1. 0 \in 0 .. Bits
    BY BitsAssumption
  <2>2. D \in Nat
    BY <2>1, DistanceByPrefix
  <2> QED BY <2>2, Pow2Facts
<1> HIDE DEF D
<1>3. \A k, l \in 1 .. Bits : k < l => Pow2[Bits - l + 1] <= Pow2[Bits - k]
  <2> SUFFICES ASSUME NEW k \in 1 .. Bits, NEW l \in 1 .. Bits, k < l
               PROVE  Pow2[Bits - l + 1] <= Pow2[Bits - k]
    OBVIOUS
  <2>1. Bits - l + 1 \in 0 .. Bits /\ Bits - k \in 0 .. Bits /\ Bits - l + 1 <= Bits - k
    BY BitsAssumption
  <2> QED BY <2>1, Pow2Grows
<1>4. /\ Pow2[Bits - i] \in Nat /\ Pow2[Bits - i + 1] \in Nat
      /\ Pow2[Bits - j] \in Nat /\ Pow2[Bits - j + 1] \in Nat
  <2>1. /\ Bits - i \in 0 .. Bits /\ Bits - i + 1 \in 0 .. Bits
        /\ Bits - j \in 0 .. Bits /\ Bits - j + 1 \in 0 .. Bits
    BY BitsAssumption
  <2> QED BY <1>2, <2>1
<1>5. ~ (i < j)
  BY <1>1, <1>2, <1>3, <1>4
<1>6. ~ (j < i)
  BY <1>1, <1>2, <1>3, <1>4
<1> QED BY <1>5, <1>6, BitsAssumption

\* add and remove stop at the one bucket that has the id in its range.
LEMMA HomeIsRange ==
    ASSUME localId \in Ids, LayoutStays, NEW id \in Ids, NEW i \in 1 .. Bits
    PROVE  IsHome(i, id) <=> WithinRange(buckets[i], id)
<1>1. DOMAIN buckets = 1 .. Bits
  BY DEF LayoutStays
<1>2. ASSUME NEW j \in 1 .. Bits, j < i, WithinRange(buckets[i], id), WithinRange(buckets[j], id)
      PROVE  FALSE
  <2>1. i = j
    BY <1>2, OneHome
  <2> QED BY <1>2, <2>1, BitsAssumption
<1> QED BY <1>1, <1>2 DEF IsHome

-----------------------------------------------------------------------------
(* What add leaves in a bucket.                                            *)

\* The lists of bucket i while the nodes are added to the table, one by one.
ListsOf(i, nodes, up) ==
    /\ up \in [0 .. Len(nodes) -> Seq(Node)]
    /\ up[0] = buckets[i].nodes
    /\ \A k \in 1 .. Len(nodes) :
          up[k] = IF IsHome(i, nodes[k].id) THEN AddedTo(up[k - 1], nodes[k]) ELSE up[k - 1]

\* Bucket.remove and Bucket.add keep lists of nodes lists of nodes.
LEMMA AddedToType ==
    ASSUME NEW nodes \in Seq(Node), NEW node \in Node
    PROVE  AddedTo(nodes, node) \in Seq(Node)
<1>1. \A S : RemovedFrom(nodes, S) \in Seq(Node)
  <2> SUFFICES ASSUME NEW S PROVE RemovedFrom(nodes, S) \in Seq(Node)
    OBVIOUS
  <2> DEFINE K == {k \in DOMAIN nodes : \A n \in S : nodes[k].ref # n.ref}
  <2>1. K \in SUBSET DOMAIN nodes
    OBVIOUS
  <2> HIDE DEF K
  <2>2. Kept(nodes, K) \in Seq(Node)
    BY <2>1, KeptList
  <2> QED BY <2>2 DEF RemovedFrom, K
<1> DEFINE s == IF Len(nodes) >= Capacity THEN RemovedFrom(nodes, {nodes[Len(nodes)]}) ELSE nodes
<1>2. s \in Seq(Node)
  BY <1>1
<1> HIDE DEF s
<1>3. <<node>> \o s \in Seq(Node)
  BY <1>2
<1> QED BY <1>3 DEF AddedTo, s

\* The recursive function of With has a solution for every bucket.
LEMMA WithLists ==
    ASSUME NEW i \in DOMAIN buckets, buckets[i].nodes \in Seq(Node), NEW nodes \in Seq(Node)
    PROVE  \E up : /\ ListsOf(i, nodes, up)
                   /\ With(nodes)[i] = [buckets[i] EXCEPT !.nodes = up[Len(nodes)]]
<1> DEFINE n == Len(nodes)
           base == buckets[i].nodes
           S == Seq(Node)
           next(k, l) == IF IsHome(i, nodes[k].id) THEN AddedTo(l, nodes[k]) ELSE l
           F == [k \in Nat |-> [l \in S |-> IF k \in 1 .. n THEN next(k, l) ELSE l]]
           Eq(f) == f = [k \in 0 .. n |->
                            IF k = 0 THEN base
                            ELSE IF IsHome(i, nodes[k].id) THEN AddedTo(f[k - 1], nodes[k])
                            ELSE f[k - 1]]
           up == CHOOSE f : Eq(f)
<1>1. With(nodes)[i] = [buckets[i] EXCEPT !.nodes = up[n]]
  BY Zenon DEF With
<1>2. n \in Nat /\ base \in S /\ \A k \in 1 .. n : nodes[k] \in Node
  BY ElementOfSeq, LenProperties
<1> HIDE DEF n
<1>3. \A k \in 1 .. n : \A l \in S : next(k, l) \in S
  BY <1>2, AddedToType
<1>4. IsStep(F, S)
  <2> HIDE DEF next, S
  <2> QED BY <1>3 DEF IsStep
<1>5. PICK g \in [0 .. n -> S] : Iterates(g, F, base, n)
  <2> HIDE DEF F, S, base
  <2> QED BY <1>2, <1>4, IteratesExist
<1>6. g[0] = base /\ \A k \in 1 .. n : g[k] = next(k, g[k - 1])
  <2> HIDE DEF next, S, base
  <2>1. g[0] = base
    BY <1>5 DEF Iterates
  <2>2. ASSUME NEW k \in 1 .. n PROVE g[k] = next(k, g[k - 1])
    <3>1. k - 1 \in 0 .. n /\ k \in Nat
      BY <1>2
    <3>2. g[k - 1] \in S
      BY <3>1
    <3> QED BY <1>5, <3>1, <3>2 DEF Iterates
  <2> QED BY <2>1, <2>2
<1> HIDE DEF S, F, base
<1>7. Eq(g)
  <2>1. ASSUME NEW k \in 0 .. n
        PROVE  g[k] = IF k = 0 THEN base
                      ELSE IF IsHome(i, nodes[k].id) THEN AddedTo(g[k - 1], nodes[k])
                      ELSE g[k - 1]
    <3>1. CASE k = 0
      BY <1>6, <3>1
    <3>2. CASE k # 0
      <4>1. k \in 1 .. n
        BY <1>2, <3>2
      <4> QED BY <1>6, <3>2, <4>1
    <3> QED BY <3>1, <3>2
  <2>2. g = [k \in 0 .. n |-> g[k]]
    OBVIOUS
  <2> QED BY <2>1, <2>2
<1>8. Eq(up)
  <2> HIDE DEF Eq
  <2> QED BY <1>7
<1> HIDE DEF up
<1> DEFINE r == [k \in 0 .. n |-> IF k = 0 THEN base
                                  ELSE IF IsHome(i, nodes[k].id) THEN AddedTo(up[k - 1], nodes[k])
                                  ELSE up[k - 1]]
<1>9. up = r
  BY <1>8
<1>10. r[0] = base /\ DOMAIN r = 0 .. n
  BY <1>2
<1>11. \A k \in 1 .. n : r[k] = next(k, up[k - 1])
  <2> SUFFICES ASSUME NEW k \in 1 .. n PROVE r[k] = next(k, up[k - 1])
    OBVIOUS
  <2>1. k \in 0 .. n /\ k # 0
    BY <1>2
  <2> QED BY <2>1
<1> HIDE DEF r, Eq
<1>12. up[0] = base /\ up = [k \in 0 .. n |-> up[k]] /\ \A k \in 1 .. n : up[k] = next(k, up[k - 1])
  <2>1. r = [k \in DOMAIN r |-> r[k]]
    BY DEF r
  <2> QED BY <1>9, <1>10, <1>11, <2>1
<1>13. \A k \in 0 .. n : up[k] \in S
  <2> HIDE DEF next
  <2> DEFINE N == {k \in Nat : k <= n => up[k] \in S}
  <2>1. 0 \in N
    BY <1>2, <1>12
  <2>2. ASSUME NEW k \in Nat, k \in N PROVE k + 1 \in N
    <3> SUFFICES ASSUME k + 1 <= n PROVE up[k + 1] \in S
      OBVIOUS
    <3>1. k + 1 \in 1 .. n /\ (k + 1) - 1 = k /\ k <= n
      BY <1>2
    <3>2. up[k] \in S
      BY <2>2, <3>1
    <3> QED BY <1>3, <1>12, <3>1, <3>2
  <2>3. Nat \subseteq N
    <3> HIDE DEF N
    <3> QED BY <2>1, <2>2, SetInduction
  <2> QED BY <1>2, <2>3
<1>14. up \in [0 .. n -> S]
  BY <1>12, <1>13
<1>15. ListsOf(i, nodes, up)
  BY <1>12, <1>14 DEF ListsOf, n, base, S
<1> QED BY <1>1, <1>15 DEF n

\* A good list is good for a later time.
LEMMA GoodListLater ==
    ASSUME NEW nodes, NEW b, NEW top \in Nat, GoodList(nodes, b, top),
           NEW high \in Nat, top <= high
    PROVE  GoodList(nodes, b, high)
<1>1. \A k \in 1 .. Len(nodes) : nodes[k].ref \in Nat /\ nodes[k].ref <= top
  BY GoodListFacts
<1>2. DOMAIN nodes = 1 .. Len(nodes)
  BY GoodListFacts
<1>3. \A k \in DOMAIN nodes : nodes[k].ref <= high
  BY <1>1, <1>2
<1> QED BY <1>3 DEF GoodList

\* The nodes in a good list.
LEMMA GoodListMembers ==
    ASSUME NEW nodes, NEW b, NEW top \in Nat, GoodList(nodes, b, top), NEW n \in Range(nodes)
    PROVE  n \in Node /\ WithinRange(b, n.id) /\ n.ref \in Nat \ {0} /\ n.ref <= top
           /\ n.id \in Ids
<1>1. PICK k \in 1 .. Len(nodes) : n = nodes[k]
  BY GoodListFacts DEF Range
<1>2. n \in Node /\ WithinRange(b, n.id) /\ n.ref \in Nat \ {0} /\ n.ref <= top
  BY <1>1, GoodListFacts
<1> QED BY <1>2 DEF Node

\* The list "new" has d nodes made after the top-th, and then the first ones of "old".
Pushed(old, new, d, top) ==
    /\ d \in 0 .. Len(new)
    /\ \A k \in 1 .. d : new[k].ref > top
    /\ \A k \in d + 1 .. Len(new) : k - d \in DOMAIN old /\ new[k] = old[k - d]

\* One more node pushes a good list on.
LEMMA PushedOnce ==
    ASSUME NEW old, NEW nodes, NEW d, NEW top \in Nat, Pushed(old, nodes, d, top),
           NEW b, NEW high \in Nat, GoodList(nodes, b, high),
           NEW node \in Node, node.ref > high, node.ref > top
    PROVE  \E e : Pushed(old, AddedTo(nodes, node), e, top)
<1> DEFINE r == AddedTo(nodes, node)
           n == Len(nodes)
           e == IF d + 1 <= Len(r) THEN d + 1 ELSE Len(r)
<1>1. /\ r \in Seq(Node)
      /\ Len(r) = IF n < Capacity THEN n + 1 ELSE Capacity
      /\ r[1] = node
      /\ \A k \in DOMAIN r : k > 1 => k - 1 \in DOMAIN nodes /\ r[k] = nodes[k - 1]
  BY AddedToShape
<1>2. DOMAIN nodes = 1 .. n /\ n \in 0 .. Capacity /\ Capacity \in Nat \ {0}
  BY GoodListFacts
<1>3. DOMAIN r = 1 .. Len(r) /\ Len(r) \in Nat
  BY <1>1, LenProperties
<1>4. /\ d \in 0 .. n
      /\ \A k \in 1 .. d : nodes[k].ref > top
      /\ \A k \in d + 1 .. n : k - d \in DOMAIN old /\ nodes[k] = old[k - d]
  BY DEF Pushed
<1> HIDE DEF r, n
<1>5. e \in 0 .. Len(r) /\ e <= d + 1 /\ (e < Len(r) => e = d + 1)
  BY <1>3, <1>4
<1> HIDE DEF e
<1>6. ASSUME NEW k \in 1 .. e PROVE r[k].ref > top
  <2>1. CASE k = 1
    BY <1>1, <2>1
  <2>2. CASE k > 1
    <3>1. k \in DOMAIN r /\ k - 1 \in 1 .. d
      BY <1>3, <1>4, <1>5, <2>2
    <3>2. r[k] = nodes[k - 1]
      BY <1>1, <2>2, <3>1
    <3> QED BY <1>4, <3>1, <3>2
  <2> QED BY <1>5, <2>1, <2>2
<1>7. ASSUME NEW k \in e + 1 .. Len(r) PROVE k - e \in DOMAIN old /\ r[k] = old[k - e]
  <2>1. e = d + 1 /\ k \in 1 .. Len(r) /\ k > 1 /\ k - 1 > d /\ (k - 1) - d = k - e
    BY <1>3, <1>4, <1>5
  <2>2. k - 1 \in 1 .. n /\ r[k] = nodes[k - 1]
    BY <1>1, <1>2, <1>3, <2>1
  <2>3. k - 1 \in d + 1 .. n
    BY <1>2, <1>4, <2>1, <2>2
  <2> QED BY <1>4, <2>1, <2>2, <2>3
<1> QED BY <1>5, <1>6, <1>7 DEF Pushed, r

\* After every one of the nodes, the list of bucket i is good, has beside its old
\* nodes only nodes made later, and has lost nodes only when it is full of later ones.
LEMMA ListsStayGood ==
    ASSUME RtInv, NEW i \in 1 .. Bits, NEW nodes \in Seq(Node),
           \A k \in 1 .. Len(nodes) : nodes[k].ref = made + k,
           NEW up, ListsOf(i, nodes, up), NEW m \in 0 .. Len(nodes)
    PROVE  /\ GoodList(up[m], buckets[i], made + m)
           /\ \A x \in Range(up[m]) : x \in Range(up[0]) \/ x.ref > made
           /\ \A o \in Range(up[0]) \ Range(up[m]) :
                 Len(up[m]) = Capacity /\ \A x \in Range(up[m]) : x.ref > o.ref
           /\ \E d : Pushed(up[0], up[m], d, made)
<1> DEFINE b == buckets[i]
           n == Len(nodes)
           P(k) == /\ GoodList(up[k], b, made + k)
                   /\ \A x \in Range(up[k]) : x \in Range(up[0]) \/ x.ref > made
                   /\ \A o \in Range(up[0]) \ Range(up[k]) :
                         Len(up[k]) = Capacity /\ \A x \in Range(up[k]) : x.ref > o.ref
                   /\ \E d : Pushed(up[0], up[k], d, made)
           N == {k \in Nat : k <= n => P(k)}
<1>1. /\ localId \in Ids /\ made \in Nat /\ LayoutStays
      /\ GoodList(b.nodes, b, made)
  BY SizeAssumption DEF RtInv
<1>2. up[0] = b.nodes /\ \A k \in 1 .. n :
         up[k] = IF IsHome(i, nodes[k].id) THEN AddedTo(up[k - 1], nodes[k]) ELSE up[k - 1]
  BY DEF ListsOf
<1>3. n \in Nat /\ \A k \in 1 .. n : nodes[k] \in Node
  BY ElementOfSeq, LenProperties
<1> HIDE DEF b, n
<1>4. GoodList(up[0], b, made)
  BY <1>1, <1>2
<1>5. 0 \in N
  <2>1. made + 0 = made
    BY <1>1
  <2>2. Pushed(up[0], up[0], 0, made)
    BY <1>1, <1>4, GoodListFacts DEF Pushed
  <2> QED BY <1>4, <2>1, <2>2
<1>6. ASSUME NEW k \in Nat, k \in N PROVE k + 1 \in N
  <2> SUFFICES ASSUME k + 1 <= n PROVE P(k + 1)
    OBVIOUS
  <2> DEFINE node == nodes[k + 1]
  <2>1. /\ k + 1 \in 1 .. n /\ (k + 1) - 1 = k /\ k <= n
        /\ made + k \in Nat /\ made + (k + 1) \in Nat /\ made + k <= made + (k + 1)
    BY <1>1, <1>3
  <2>2. P(k)
    BY <1>6, <2>1
  <2>3. node \in Node /\ node.ref = made + (k + 1) /\ node.id \in Ids
    BY <1>3, <2>1 DEF n, Node
  <2> HIDE DEF node
  <2>4. up[k + 1] = IF IsHome(i, node.id) THEN AddedTo(up[k], node) ELSE up[k]
    BY <1>2, <2>1 DEF node
  <2>5. CASE ~ IsHome(i, node.id)
    <3>1. up[k + 1] = up[k]
      BY <2>4, <2>5
    <3>2. GoodList(up[k + 1], b, made + (k + 1))
      BY <2>1, <2>2, <3>1, GoodListLater
    <3> QED BY <2>2, <3>1, <3>2
  <2>6. CASE IsHome(i, node.id)
    <3> DEFINE r == AddedTo(up[k], node)
    <3>1. WithinRange(b, node.id)
      BY <1>1, <2>3, <2>6, HomeIsRange DEF b
    <3>2. GoodList(up[k], b, made + k) /\ node.ref > made + k /\ node.ref <= made + (k + 1)
          /\ node.ref > made
      BY <1>1, <2>1, <2>2, <2>3
    <3>3. /\ GoodList(r, b, made + (k + 1))
          /\ Range(r) \subseteq Range(up[k]) \cup {node}
          /\ \A o \in Range(up[k]) \ Range(r) :
                Len(r) = Capacity /\ \A x \in Range(r) : x.ref > o.ref
      BY <2>1, <2>3, <3>1, <3>2, AddedToGood
    <3>4. Len(up[k]) = Capacity => Len(r) = Capacity
      <4>1. Len(r) = IF Len(up[k]) < Capacity THEN Len(up[k]) + 1 ELSE Capacity
        BY <2>1, <2>3, <3>2, AddedToShape
      <4> QED BY <4>1, SizeAssumption
    <3>5. up[k + 1] = r
      BY <2>4, <2>6
    <3> HIDE DEF r
    <3>6. \A x \in Range(r) : x \in Range(up[0]) \/ x.ref > made
      BY <2>2, <3>2, <3>3
    <3>7. ASSUME NEW o \in Range(up[0]), o \notin Range(r)
          PROVE  Len(r) = Capacity /\ \A x \in Range(r) : x.ref > o.ref
      <4>1. CASE o \in Range(up[k])
        BY <3>3, <3>7, <4>1
      <4>2. CASE o \notin Range(up[k])
        <5>1. Len(up[k]) = Capacity /\ \A x \in Range(up[k]) : x.ref > o.ref
          BY <2>2, <3>7, <4>2
        <5>2. o.ref \in Nat /\ o.ref <= made
          BY <1>1, <1>4, <3>7, GoodListMembers
        <5>3. node.ref > o.ref
          BY <1>1, <2>3, <2>1, <5>2
        <5> QED BY <3>3, <3>4, <5>1, <5>3
      <4> QED BY <4>1, <4>2
    <3>8. \E d : Pushed(up[0], r, d, made)
      <4>1. PICK d : Pushed(up[0], up[k], d, made)
        BY <2>2
      <4> QED BY <1>1, <2>1, <2>3, <3>2, <4>1, PushedOnce DEF r
    <3> QED BY <3>3, <3>5, <3>6, <3>7, <3>8
  <2> QED BY <2>5, <2>6
<1>7. Nat \subseteq N
  <2> HIDE DEF N
  <2> QED BY <1>5, <1>6, SetInduction
<1>8. P(m)
  BY <1>3, <1>7 DEF n
<1> QED BY <1>8 DEF b

-----------------------------------------------------------------------------
(* Steps of the table.                                                     *)

\* The lists of the buckets become others; the buckets keep their ranges.
NewLists(lists) ==
    buckets' = [i \in DOMAIN buckets |-> [buckets[i] EXCEPT !.nodes = lists[i]]]

\* A step that leaves every bucket a good list keeps the invariant.
LEMMA NewListsKeep ==
    ASSUME RtInv, NEW lists, NewLists(lists), localId' = localId,
           made' \in 0 .. MaxMade,
           \A i \in 1 .. Bits : GoodList(lists[i], buckets[i], made')
    PROVE  /\ RtInv'
           /\ \A i \in 1 .. Bits : buckets'[i].nodes = lists[i]
<1>1. /\ localId \in Ids /\ LayoutStays /\ DOMAIN buckets = 1 .. Bits
      /\ buckets \in [1 .. Bits -> Bucket]
  BY DEF RtInv, LayoutStays
<1>2. ASSUME NEW i \in 1 .. Bits
      PROVE  /\ buckets'[i] \in Bucket
             /\ buckets'[i].nodes = lists[i]
             /\ buckets'[i].start = buckets[i].start /\ buckets'[i].end = buckets[i].end
  <2>1. buckets'[i] = [buckets[i] EXCEPT !.nodes = lists[i]]
    BY <1>1, <1>2 DEF NewLists
  <2>2. buckets[i] \in Bucket
    BY <1>1
  <2>3. lists[i] \in Seq(Node)
    BY DEF GoodList
  <2> QED BY <2>1, <2>2, <2>3 DEF Bucket
<1>3. buckets' \in [1 .. Bits -> Bucket]
  <2>1. buckets' = [i \in 1 .. Bits |-> buckets'[i]]
    BY <1>1 DEF NewLists
  <2> QED BY <1>2, <2>1
<1>4. LayoutStays'
  BY <1>1, <1>2, <1>3 DEF LayoutStays
<1>5. ASSUME NEW i \in 1 .. Bits PROVE GoodList(buckets'[i].nodes, buckets'[i], made')
  <2>1. GoodList(lists[i], buckets[i], made')
    OBVIOUS
  <2> QED BY <1>2, <2>1 DEF GoodList, WithinRange
<1> QED BY <1>1, <1>2, <1>4, <1>5 DEF RtInv

\* The nodes that add makes of contacts.
LEMMA NodesOfType ==
    ASSUME made \in Nat, NEW n \in Nat, NEW contacts \in [1 .. n -> Contact]
    PROVE  /\ NodesOf(contacts) \in Seq(Node) /\ Len(NodesOf(contacts)) = n
           /\ \A k \in 1 .. n : NodesOf(contacts)[k].ref = made + k
<1> DEFINE s == NodesOf(contacts)
<1>1. s = [k \in 1 .. n |->
              [ref |-> made + k, id |-> contacts[k].id, addr |-> contacts[k].addr]]
  BY DEF NodesOf
<1>2. \A k \in 1 .. n : s[k] \in Node /\ s[k].ref = made + k
  <2> SUFFICES ASSUME NEW k \in 1 .. n PROVE s[k] \in Node /\ s[k].ref = made + k
    OBVIOUS
  <2>1. contacts[k] \in Contact
    OBVIOUS
  <2>2. s[k] = [ref |-> made + k, id |-> contacts[k].id, addr |-> contacts[k].addr]
    BY <1>1
  <2> HIDE DEF s
  <2> QED BY <2>1, <2>2 DEF Contact, Node
<1>3. s = [k \in 1 .. n |-> s[k]]
  BY <1>1
<1> HIDE DEF s
<1>4. s \in Seq(Node) /\ Len(s) = n
  BY <1>2, <1>3
<1> QED BY <1>2, <1>4 DEF s

\* add and addNodes: the lists stay good, what is new in them was made by the step,
\* and only a bucket that is full of later nodes has lost one.
LEMMA AddNodesStep ==
    ASSUME RtInv, NEW n \in Nat, NEW contacts \in [1 .. n -> Contact], AddNodes(contacts)
    PROVE  /\ RtInv'
           /\ \A i \in 1 .. Bits :
                 /\ \A x \in Range(buckets'[i].nodes) :
                       x \in Range(buckets[i].nodes) \/ x.ref > made
                 /\ \A o \in Range(buckets[i].nodes) \ Range(buckets'[i].nodes) :
                       /\ Len(buckets'[i].nodes) = Capacity
                       /\ \A x \in Range(buckets'[i].nodes) : x.ref > o.ref
                 /\ \E d : Pushed(buckets[i].nodes, buckets'[i].nodes, d, made)
<1> DEFINE nodes == NodesOf(contacts)
           up(i) == CHOOSE u : /\ ListsOf(i, nodes, u)
                               /\ With(nodes)[i] = [buckets[i] EXCEPT !.nodes = u[n]]
           lists == [i \in 1 .. Bits |-> up(i)[n]]
<1>1. /\ localId \in Ids /\ made \in Nat /\ LayoutStays /\ DOMAIN buckets = 1 .. Bits
      /\ \A i \in 1 .. Bits : GoodList(buckets[i].nodes, buckets[i], made)
  BY SizeAssumption DEF RtInv, LayoutStays
<1>2. Len(contacts) = n
  OBVIOUS
<1>3. /\ made' = made + n /\ made' \in 0 .. MaxMade /\ buckets' = With(nodes) /\ localId' = localId
  BY <1>1, <1>2, SizeAssumption DEF AddNodes
<1>4. nodes \in Seq(Node) /\ Len(nodes) = n /\ \A k \in 1 .. Len(nodes) : nodes[k].ref = made + k
  BY <1>1, NodesOfType
<1> HIDE DEF nodes
<1>5. ASSUME NEW i \in 1 .. Bits
      PROVE  ListsOf(i, nodes, up(i)) /\ With(nodes)[i] = [buckets[i] EXCEPT !.nodes = up(i)[n]]
  <2>1. buckets[i].nodes \in Seq(Node)
    BY <1>1 DEF GoodList
  <2>2. \E u : ListsOf(i, nodes, u) /\ With(nodes)[i] = [buckets[i] EXCEPT !.nodes = u[n]]
    <3>1. i \in DOMAIN buckets /\ nodes \in Seq(Node)
      BY <1>1, <1>4
    <3>2. \E u : /\ ListsOf(i, nodes, u)
                 /\ With(nodes)[i] = [buckets[i] EXCEPT !.nodes = u[Len(nodes)]]
      BY <2>1, <3>1, WithLists
    <3> QED BY <1>4, <3>2
  <2> QED BY <2>2
<1> HIDE DEF up
<1>6. ASSUME NEW i \in 1 .. Bits
      PROVE  /\ GoodList(lists[i], buckets[i], made')
             /\ \A x \in Range(lists[i]) : x \in Range(buckets[i].nodes) \/ x.ref > made
             /\ \A o \in Range(buckets[i].nodes) \ Range(lists[i]) :
                   Len(lists[i]) = Capacity /\ \A x \in Range(lists[i]) : x.ref > o.ref
             /\ \E d : Pushed(buckets[i].nodes, lists[i], d, made)
  <2>1. n \in 0 .. Len(nodes) /\ lists[i] = up(i)[n]
    BY <1>4
  <2>2. ListsOf(i, nodes, up(i)) /\ up(i)[0] = buckets[i].nodes
    BY <1>5 DEF ListsOf
  <2> QED BY <1>3, <1>4, <2>1, <2>2, ListsStayGood
<1>7. NewLists(lists)
  <2>1. DOMAIN With(nodes) = 1 .. Bits /\ With(nodes) = [i \in 1 .. Bits |-> With(nodes)[i]]
    BY <1>1 DEF With
  <2>2. \A i \in 1 .. Bits : With(nodes)[i] = [buckets[i] EXCEPT !.nodes = lists[i]]
    BY <1>5
  <2> HIDE DEF lists
  <2> QED BY <1>1, <1>3, <2>1, <2>2 DEF NewLists
<1> HIDE DEF lists
<1>8. RtInv' /\ \A i \in 1 .. Bits : buckets'[i].nodes = lists[i]
  BY <1>3, <1>6, <1>7, NewListsKeep
<1> QED BY <1>6, <1>8

\* remove: exactly the nodes of S leave, each from its home.
LEMMA WithoutStep ==
    ASSUME RtInv, NEW S, buckets' = Without(S), localId' = localId, made' = made
    PROVE  /\ RtInv'
           /\ \A i \in 1 .. Bits :
                 Range(buckets'[i].nodes) = {n \in Range(buckets[i].nodes) :
                                                \A m \in S : IsHome(i, m.id) => n.ref # m.ref}
           /\ \A i \in 1 .. Bits :
                 \E R : buckets'[i].nodes = RemovedFrom(buckets[i].nodes, R)
<1> DEFINE gone(i) == {n \in S : IsHome(i, n.id)}
           lists == [i \in 1 .. Bits |-> RemovedFrom(buckets[i].nodes, gone(i))]
<1>1. /\ made \in 0 .. MaxMade /\ made' \in 0 .. MaxMade /\ DOMAIN buckets = 1 .. Bits
      /\ \A i \in 1 .. Bits : GoodList(buckets[i].nodes, buckets[i], made)
  BY DEF RtInv, LayoutStays
<1>2. ASSUME NEW i \in 1 .. Bits
      PROVE  /\ GoodList(lists[i], buckets[i], made')
             /\ Range(lists[i]) = {n \in Range(buckets[i].nodes) : \A m \in gone(i) : n.ref # m.ref}
             /\ \E R : lists[i] = RemovedFrom(buckets[i].nodes, R)
  <2>1. lists[i] = RemovedFrom(buckets[i].nodes, gone(i))
    OBVIOUS
  <2>2. GoodList(buckets[i].nodes, buckets[i], made)
    BY <1>1
  <2> HIDE DEF lists, gone
  <2> QED BY <2>1, <2>2, RemovedFromGood
<1>3. NewLists(lists)
  BY <1>1 DEF NewLists, Without
<1> HIDE DEF lists
<1>4. RtInv' /\ \A i \in 1 .. Bits : buckets'[i].nodes = lists[i]
  BY <1>1, <1>2, <1>3, NewListsKeep
<1> QED BY <1>2, <1>4

\* updateNode: the node found moves to the address, and nothing else changes.
LEMMA UpdateNodeStep ==
    ASSUME RtInv, NEW id \in Ids, NEW addr \in Addrs, UpdateNode(id, addr)
    PROVE  /\ RtInv'
           /\ \A i \in 1 .. Bits :
                 Range(buckets'[i].nodes) = {IF n \in FindNode(id) THEN [n EXCEPT !.addr = addr]
                                             ELSE n : n \in Range(buckets[i].nodes)}
<1> DEFINE moved(n) == IF n \in FindNode(id) THEN [n EXCEPT !.addr = addr] ELSE n
           lists == [i \in 1 .. Bits |-> [k \in DOMAIN buckets[i].nodes |->
                                             moved(buckets[i].nodes[k])]]
<1>1. /\ made \in Nat /\ made \in 0 .. MaxMade /\ made' = made /\ made' \in 0 .. MaxMade
      /\ localId' = localId /\ DOMAIN buckets = 1 .. Bits
      /\ \A i \in 1 .. Bits : GoodList(buckets[i].nodes, buckets[i], made)
  BY SizeAssumption DEF RtInv, LayoutStays, UpdateNode
<1>2. NewLists(lists)
  BY <1>1 DEF NewLists, UpdateNode
<1>3. ASSUME NEW n \in Node
      PROVE  moved(n) \in Node /\ moved(n).ref = n.ref /\ moved(n).id = n.id
  BY DEF Node
<1> HIDE DEF moved
<1>4. ASSUME NEW i \in 1 .. Bits
      PROVE  /\ GoodList(lists[i], buckets[i], made')
             /\ Range(lists[i]) = {moved(n) : n \in Range(buckets[i].nodes)}
  <2> DEFINE s == buckets[i].nodes
             t == lists[i]
  <2>1. GoodList(s, buckets[i], made)
    BY <1>1
  <2>2. t = [k \in DOMAIN s |-> moved(s[k])]
    OBVIOUS
  <2> HIDE DEF s, t, lists
  <2>3. /\ s \in Seq(Node) /\ DOMAIN s = 1 .. Len(s) /\ Len(s) \in 0 .. Capacity
        /\ Capacity \in Nat \ {0}
        /\ \A k \in 1 .. Len(s) : /\ s[k] \in Node /\ WithinRange(buckets[i], s[k].id)
                                  /\ s[k].ref \in Nat \ {0} /\ s[k].ref <= made
        /\ \A k, l \in 1 .. Len(s) : k < l => s[k].ref > s[l].ref
    BY <1>1, <2>1, GoodListFacts
  <2>4. \A k \in 1 .. Len(s) : t[k] \in Node /\ t[k].ref = s[k].ref /\ t[k].id = s[k].id
    BY <1>3, <2>2, <2>3
  <2>5. DOMAIN t = 1 .. Len(s) /\ t \in Seq(Node) /\ Len(t) = Len(s)
    <3>1. t = [k \in 1 .. Len(s) |-> t[k]]
      BY <2>2, <2>3
    <3> QED BY <2>3, <2>4, <3>1
  <2>6. GoodList(t, buckets[i], made')
    BY <1>1, <2>3, <2>4, <2>5 DEF GoodList
  <2>7. Range(t) = {moved(n) : n \in Range(s)}
    BY <2>2 DEF Range
  <2> QED BY <2>6, <2>7 DEF s, t
<1> HIDE DEF lists
<1>5. RtInv' /\ \A i \in 1 .. Bits : buckets'[i].nodes = lists[i]
  BY <1>1, <1>2, <1>4, NewListsKeep
<1>6. ASSUME NEW i \in 1 .. Bits
      PROVE  Range(buckets'[i].nodes) = {moved(n) : n \in Range(buckets[i].nodes)}
  BY <1>4, <1>5
<1> QED BY <1>5, <1>6 DEF moved

\* The empty buckets of generateBuckets.
LEMMA RtInitInv == RtInit => RtInv
<1> SUFFICES ASSUME RtInit PROVE RtInv
  OBVIOUS
<1>1. localId \in Ids /\ made = 0 /\ buckets = BucketsFrom(localId, Bits)
  BY GenerateBucketsIs DEF RtInit
<1>2. ASSUME NEW i \in 1 .. Bits
      PROVE  /\ buckets[i] = BucketAt(localId, Bits - i)
             /\ buckets[i] \in Bucket /\ buckets[i].nodes = <<>>
  <2>1. Bits - i \in 0 .. Bits - 1
    BY BitsAssumption
  <2>2. buckets[i] = BucketAt(localId, Bits - i)
    BY <1>1 DEF BucketsFrom
  <2> QED BY <1>1, <2>1, <2>2, BucketAtType
<1>3. LayoutStays
  <2>1. buckets = [i \in 1 .. Bits |-> buckets[i]]
    BY <1>1 DEF BucketsFrom
  <2>2. buckets \in [1 .. Bits -> Bucket]
    BY <1>2, <2>1
  <2> QED BY <1>2, <2>2 DEF LayoutStays
<1>4. \A i \in 1 .. Bits : GoodList(buckets[i].nodes, buckets[i], made)
  <2>1. ASSUME NEW b, NEW top PROVE GoodList(<<>>, b, top)
    BY SizeAssumption DEF GoodList
  <2> QED BY <1>2, <2>1
<1> QED BY <1>1, <1>3, <1>4, SizeAssumption DEF RtInv

\* A find_node answer is one list of contacts.
LEMMA AppendedContacts ==
    ASSUME NEW n \in Nat, NEW contacts \in [1 .. n -> Contact], NEW sender \in Contact
    PROVE  Append(contacts, sender) \in [1 .. n + 1 -> Contact]
<1>1. contacts \in Seq(Contact) /\ Len(contacts) = n
  OBVIOUS
<1>2. Append(contacts, sender) \in Seq(Contact) /\ Len(Append(contacts, sender)) = n + 1
  BY <1>1
<1> DEFINE s == Append(contacts, sender)
<1> HIDE DEF s
<1>3. s \in [1 .. Len(s) -> Contact]
  BY <1>2, LenProperties DEF s
<1> QED BY <1>2, <1>3 DEF s

\* Every step keeps the invariant.
LEMMA RtNextInv == RtInv /\ [RtNext]_rtVars => RtInv'
<1> SUFFICES ASSUME RtInv, [RtNext]_rtVars PROVE RtInv'
  OBVIOUS
<1>1. ASSUME NEW id \in Ids, NEW addr \in Addrs, UpdateNode(id, addr) PROVE RtInv'
  BY <1>1, UpdateNodeStep
<1>2. ASSUME NEW sender \in Contact, NEW len \in 0 .. MaxFound,
             NEW contacts \in [1 .. len -> Contact], AddFound(contacts, sender)
      PROVE  RtInv'
  <2>1. len \in Nat /\ len + 1 \in Nat
    BY SizeAssumption
  <2>2. Append(contacts, sender) \in [1 .. len + 1 -> Contact]
    BY <2>1, AppendedContacts
  <2> QED BY <1>2, <2>1, <2>2, AddNodesStep DEF AddFound
<1>3. ASSUME NEW node \in AllNodes, Remove(node) PROVE RtInv'
  BY <1>3, WithoutStep DEF Remove
<1>4. ASSUME NEW id \in Ids, RemoveByNodeId(id) PROVE RtInv'
  BY <1>4, WithoutStep DEF RemoveByNodeId
<1>5. ASSUME NEW id \in Ids, RemoveClosestNode(id) PROVE RtInv'
  BY <1>5, WithoutStep DEF RemoveClosestNode
<1>6. ASSUME NEW addr \in Addrs, RemoveByIp(addr) PROVE RtInv'
  BY <1>6, WithoutStep DEF RemoveByIp
<1>7. CASE UNCHANGED rtVars
  BY <1>7 DEF rtVars, RtInv, LayoutStays
<1> QED BY <1>1, <1>2, <1>3, <1>4, <1>5, <1>6, <1>7 DEF RtNext

\* The invariant holds of every behaviour.
LEMMA RtInvariant == RtSpec => []RtInv
BY RtInitInv, RtNextInv, PTL DEF RtSpec

-----------------------------------------------------------------------------
(* The properties of the table.                                            *)

\* The invariant says more than the types.
LEMMA RtInvIsTyped == RtInv => RtTypeOK
<1> SUFFICES ASSUME RtInv PROVE RtTypeOK
  OBVIOUS
<1>1. /\ localId \in Ids /\ made \in 0 .. MaxMade /\ made \in Nat
      /\ buckets \in [1 .. Bits -> Bucket]
      /\ \A i \in 1 .. Bits : GoodList(buckets[i].nodes, buckets[i], made)
  BY SizeAssumption DEF RtInv, LayoutStays
<1>2. buckets \in Seq(Bucket) /\ DOMAIN buckets = 1 .. Bits
  BY <1>1, BitsAssumption
<1>3. ASSUME NEW i \in 1 .. Bits
      PROVE  /\ Len(buckets[i].nodes) <= Capacity
             /\ \A k \in DOMAIN buckets[i].nodes :
                   WithinRange(buckets[i], buckets[i].nodes[k].id)
  BY <1>1 DEF GoodList
<1> QED BY <1>1, <1>2, <1>3 DEF RtTypeOK

\* Whatever is added, removed and updated, every bucket is short and holds only ids
\* of its range (RoutingTable and Bucket).
THEOREM RtTypeCorrect == RtSpec => []RtTypeOK
BY RtInvIsTyped, RtInvariant, PTL

\* generateBuckets splits the ids by the xor metric, for every length of ids and every
\* local id, and nothing changes the ranges afterwards.
THEOREM BucketsAlwaysSplitIdSpace == RtSpec => []BucketsSplitIdSpace
<1>1. RtInv => BucketsSplitIdSpace
  <2> SUFFICES ASSUME RtInv, NEW id \in Ids
               PROVE  {i \in DOMAIN buckets : WithinRange(buckets[i], id)}
                         = {i \in 1 .. Bits : /\ Pow2[Bits - i] <= Distance(id, localId)
                                              /\ Distance(id, localId) < Pow2[Bits - i + 1]}
    BY DEF BucketsSplitIdSpace
  <2>1. localId \in Ids /\ LayoutStays /\ DOMAIN buckets = 1 .. Bits
    BY DEF RtInv, LayoutStays
  <2>2. \A i \in 1 .. Bits :
           WithinRange(buckets[i], id) <=> /\ Pow2[Bits - i] <= Distance(id, localId)
                                           /\ Distance(id, localId) < Pow2[Bits - i + 1]
    BY <2>1, RangeByDistance
  <2> QED BY <2>1, <2>2
<1> QED BY <1>1, RtInvariant, PTL

\* removeByIp finds every node of the address: each is in the home that remove looks for.
LEMMA RemoveByIpForgets ==
    ASSUME RtInv, NEW addr \in Addrs, RemoveByIp(addr)
    PROVE  \A n \in AllNodes' : n.addr # addr
<1> DEFINE S == {n \in AllNodes : n.addr = addr}
<1>1. /\ localId \in Ids /\ LayoutStays /\ DOMAIN buckets = 1 .. Bits /\ made \in Nat
      /\ \A i \in 1 .. Bits : GoodList(buckets[i].nodes, buckets[i], made)
  BY SizeAssumption DEF RtInv, LayoutStays
<1>2. /\ RtInv'
      /\ \A i \in 1 .. Bits :
            Range(buckets'[i].nodes) = {n \in Range(buckets[i].nodes) :
                                           \A m \in S : IsHome(i, m.id) => n.ref # m.ref}
  BY WithoutStep DEF RemoveByIp
<1>3. DOMAIN buckets' = 1 .. Bits
  BY <1>2 DEF RtInv, LayoutStays
<1>4. ASSUME NEW i \in 1 .. Bits, NEW n \in Range(buckets'[i].nodes) PROVE n.addr # addr
  <2>1. n \in Range(buckets[i].nodes) /\ \A m \in S : IsHome(i, m.id) => n.ref # m.ref
    BY <1>2, <1>4
  <2>2. n \in AllNodes
    BY <1>1, <2>1 DEF AllNodes
  <2>3. n.id \in Ids /\ WithinRange(buckets[i], n.id)
    BY <1>1, <2>1, GoodListMembers
  <2>4. IsHome(i, n.id)
    BY <1>1, <2>3, HomeIsRange
  <2> QED BY <2>1, <2>2, <2>4
<1> QED BY <1>3, <1>4 DEF AllNodes

\* removeByIp never leaves a node of that address in the table.
THEOREM AlwaysIpForgotten == RtSpec => IpForgotten
<1>1. RtInv /\ [RtNext]_rtVars =>
         [\A addr \in Addrs : RemoveByIp(addr) => \A n \in AllNodes' : n.addr # addr]_rtVars
  BY RemoveByIpForgets
<1> QED BY <1>1, RtInvariant, PTL DEF RtSpec, IpForgotten

-----------------------------------------------------------------------------
(* The refinement of KBuckets.                                             *)

\* The ids of the i-th bucket share the first i - 1 bits with the local id, and no more.
LEMMA SharedPrefix ==
    ASSUME localId \in Ids, LayoutStays, NEW id \in Ids, NEW i \in 1 .. Bits,
           WithinRange(buckets[i], id), NEW k \in 0 .. Bits
    PROVE  id \div Pow2[Bits - k] = localId \div Pow2[Bits - k] <=> k < i
<1> DEFINE D == Distance(id, localId)
<1>1. Pow2[Bits - i] <= D /\ D < Pow2[Bits - i + 1]
  BY RangeByDistance
<1>2. /\ Bits \in Nat
      /\ Bits - k \in 0 .. Bits /\ Bits - i \in 0 .. Bits /\ Bits - i + 1 \in 0 .. Bits
  BY BitsAssumption
<1>3. D \in Nat /\ (D < Pow2[Bits - k] <=> id \div Pow2[Bits - k] = localId \div Pow2[Bits - k])
  BY <1>2, DistanceByPrefix
<1>4. Pow2[Bits - k] \in Nat /\ Pow2[Bits - i] \in Nat /\ Pow2[Bits - i + 1] \in Nat
  BY <1>2, Pow2Facts
<1> HIDE DEF D
<1>5. CASE k < i
  <2>1. Bits - i + 1 <= Bits - k
    BY <1>2, <1>5
  <2>2. Pow2[Bits - i + 1] <= Pow2[Bits - k]
    BY <1>2, <2>1, Pow2Grows
  <2>3. D < Pow2[Bits - k]
    BY <1>1, <1>3, <1>4, <2>2
  <2> QED BY <1>3, <1>5, <2>3
<1>6. CASE ~ (k < i)
  <2>1. Bits - k <= Bits - i
    BY <1>2, <1>6
  <2>2. Pow2[Bits - k] <= Pow2[Bits - i]
    BY <1>2, <2>1, Pow2Grows
  <2>3. ~ (D < Pow2[Bits - k])
    BY <1>1, <1>3, <1>4, <2>2
  <2> QED BY <1>3, <1>6, <2>3
<1> QED BY <1>5, <1>6

\* The powers of two of KBuckets are those of the table.
LEMMA SamePowers == KB!Pow2 = Pow2 /\ KB!Ids = Ids
<1>1. KB!Pow2 = Pow2
  BY Zenon DEF KB!Pow2, Pow2
<1> QED BY <1>1 DEF KB!Ids, Ids

\* Two ids are of the same class exactly when they have the same bucket.
LEMMA SameClassSameBucket ==
    ASSUME localId \in Ids, LayoutStays, NEW a \in Ids, NEW b \in Ids,
           NEW i \in 1 .. Bits, NEW j \in 1 .. Bits,
           WithinRange(buckets[i], a), WithinRange(buckets[j], b)
    PROVE  KB!SameClass(a, b) <=> i = j
<1>1. \A k \in 0 .. Bits :
         /\ KB!Prefix(a, k) = KB!Prefix(localId, k) <=> k < i
         /\ KB!Prefix(b, k) = KB!Prefix(localId, k) <=> k < j
  <2> SUFFICES ASSUME NEW k \in 0 .. Bits
               PROVE  /\ KB!Prefix(a, k) = KB!Prefix(localId, k) <=> k < i
                      /\ KB!Prefix(b, k) = KB!Prefix(localId, k) <=> k < j
    OBVIOUS
  <2>1. /\ a \div Pow2[Bits - k] = localId \div Pow2[Bits - k] <=> k < i
        /\ b \div Pow2[Bits - k] = localId \div Pow2[Bits - k] <=> k < j
    BY SharedPrefix
  <2> QED BY <2>1, SamePowers DEF KB!Prefix
<1>2. i \in 0 .. Bits /\ j \in 0 .. Bits /\ Bits \in Nat
  BY BitsAssumption
<1>3. KB!SameClass(a, b) <=> \A k \in 0 .. Bits : k < i <=> k < j
  BY <1>1 DEF KB!SameClass
<1> QED BY <1>2, <1>3

\* The local id has no bucket.
LEMMA LocalHasNoBucket ==
    ASSUME localId \in Ids, LayoutStays, NEW id \in Ids, NEW i \in 1 .. Bits,
           WithinRange(buckets[i], id)
    PROVE  id # localId
<1>1. i \in 0 .. Bits /\ ~ (i < i)
  BY BitsAssumption
<1>2. id \div Pow2[Bits - i] = localId \div Pow2[Bits - i] <=> i < i
  BY <1>1, SharedPrefix
<1> QED BY <1>1, <1>2

\* The nodes of a good list: as many as its positions.
LEMMA RangeOfGood ==
    ASSUME NEW nodes, NEW b, NEW top \in Nat, GoodList(nodes, b, top)
    PROVE  IsFiniteSet(Range(nodes)) /\ Cardinality(Range(nodes)) = Len(nodes)
<1>1. /\ nodes \in Seq(Node) /\ DOMAIN nodes = 1 .. Len(nodes) /\ Len(nodes) \in Nat
      /\ \A k \in 1 .. Len(nodes) : nodes[k].ref \in Nat
      /\ \A k, l \in 1 .. Len(nodes) : k < l => nodes[k].ref > nodes[l].ref
  BY GoodListFacts
<1> DEFINE n == Len(nodes)
           f == [k \in 1 .. n |-> nodes[k]]
<1>2. f \in Bijection(1 .. n, Range(nodes))
  <2>1. f \in [1 .. n -> Range(nodes)]
    BY <1>1 DEF Range
  <2>2. \A y \in Range(nodes) : \E k \in 1 .. n : f[k] = y
    BY <1>1 DEF Range
  <2>3. \A k, l \in 1 .. n : f[k] = f[l] => k = l
    <3> SUFFICES ASSUME NEW k \in 1 .. n, NEW l \in 1 .. n, f[k] = f[l], k # l PROVE FALSE
      OBVIOUS
    <3>1. nodes[k].ref = nodes[l].ref /\ nodes[k].ref \in Nat
      BY <1>1
    <3>2. k < l \/ l < k
      BY <1>1
    <3> QED BY <1>1, <3>1, <3>2
  <2> HIDE DEF f
  <2> QED BY <2>1, <2>2, <2>3 DEF Bijection, Injection, Surjection, IsInjective
<1>3. n \in Nat
  BY <1>1
<1> HIDE DEF f, n
<1>5. IsFiniteSet(1 .. n) /\ Cardinality(1 .. n) = n
  BY <1>3, FS_Interval
<1>4. ExistsBijection(1 .. n, Range(nodes))
  BY <1>2 DEF ExistsBijection
<1> QED BY <1>4, <1>5, FS_Bijection DEF n

\* The table knows finitely many nodes (getAllNodes).
LEMMA AllNodesFinite == RtInv => IsFiniteSet(AllNodes)
<1> SUFFICES ASSUME RtInv PROVE IsFiniteSet(AllNodes)
  OBVIOUS
<1> DEFINE f == [i \in 1 .. Bits |-> Range(buckets[i].nodes)]
           T == {Range(buckets[i].nodes) : i \in 1 .. Bits}
<1>1. DOMAIN buckets = 1 .. Bits /\ \A i \in 1 .. Bits : IsFiniteSet(f[i])
  BY RangeOfGood, SizeAssumption DEF RtInv, LayoutStays
<1>2. f \in Surjection(1 .. Bits, T) /\ AllNodes = UNION T
  BY <1>1 DEF Surjection, AllNodes
<1>3. IsFiniteSet(1 .. Bits)
  BY BitsAssumption, FS_Interval
<1>4. IsFiniteSet(T)
  <2> HIDE DEF f, T
  <2> QED BY <1>2, <1>3, FS_Surjection
<1>5. \A S \in T : IsFiniteSet(S)
  BY <1>1
<1> HIDE DEF T
<1> QED BY <1>2, <1>4, <1>5, FS_UNION

\* What is in the table, bucket by bucket.
LEMMA AllNodesAre ==
    ASSUME RtInv, NEW n
    PROVE  n \in AllNodes <=> \E i \in 1 .. Bits : n \in Range(buckets[i].nodes)
BY DEF AllNodes, RtInv, LayoutStays

\* An id stays in the range of its bucket.
LEMMA RangesStay ==
    ASSUME RtInv, RtInv', localId' = localId, NEW i \in 1 .. Bits, NEW id
    PROVE  WithinRange(buckets'[i], id) <=> WithinRange(buckets[i], id)
BY DEF RtInv, LayoutStays, WithinRange

\* A step that learns nodes: who stays has less than Capacity newer nodes of its class
\* among the old and the new ones, and who leaves has more.
LEMMA LearntAreNewest ==
    ASSUME RtInv, RtInv', localId' = localId,
           \A i \in 1 .. Bits :
              \A o \in Range(buckets[i].nodes) \ Range(buckets'[i].nodes) :
                 /\ Len(buckets'[i].nodes) = Capacity
                 /\ \A x \in Range(buckets'[i].nodes) : x.ref > o.ref
    PROVE  AllNodes' = KB!Newest(AllNodes \cup (AllNodes' \ AllNodes))
<1> DEFINE U == AllNodes \cup (AllNodes' \ AllNodes)
           Old(i) == Range(buckets[i].nodes)
           New(i) == Range(buckets'[i].nodes)
           Newer(n) == {m \in U : KB!SameClass(m.id, n.id) /\ m.ref > n.ref}
<1>1. /\ localId \in Ids /\ LayoutStays /\ made \in Nat /\ made' \in Nat
      /\ \A i \in 1 .. Bits : /\ GoodList(buckets[i].nodes, buckets[i], made)
                              /\ GoodList(buckets'[i].nodes, buckets'[i], made')
  BY SizeAssumption DEF RtInv
<1>2. \A n : n \in AllNodes <=> \E i \in 1 .. Bits : n \in Old(i)
  BY AllNodesAre
<1>3. \A n : n \in AllNodes' <=> \E i \in 1 .. Bits : n \in New(i)
  BY DEF AllNodes, RtInv, LayoutStays
<1>4. ASSUME NEW i \in 1 .. Bits, NEW n \in Old(i) \cup New(i)
      PROVE  n.id \in Ids /\ n.ref \in Nat /\ WithinRange(buckets[i], n.id)
  <2>1. CASE n \in Old(i)
    BY <1>1, <2>1, GoodListMembers
  <2>2. CASE n \in New(i)
    <3>1. n.id \in Ids /\ n.ref \in Nat /\ WithinRange(buckets'[i], n.id)
      BY <1>1, <2>2, GoodListMembers
    <3> QED BY <3>1, RangesStay
  <2> QED BY <2>1, <2>2
<1>5. \A i \in 1 .. Bits : /\ IsFiniteSet(Old(i)) /\ IsFiniteSet(New(i))
                           /\ Cardinality(New(i)) = Len(buckets'[i].nodes)
  BY <1>1, RangeOfGood
<1>6. \A i \in 1 .. Bits : \A o \in Old(i) \ New(i) :
         Len(buckets'[i].nodes) = Capacity /\ \A x \in New(i) : x.ref > o.ref
  OBVIOUS
<1>7. \A i \in 1 .. Bits : Len(buckets'[i].nodes) \in Nat /\ Len(buckets'[i].nodes) <= Capacity
  BY <1>1, GoodListFacts
<1> HIDE DEF Old, New, U
<1>8. \A n : n \in U <=> \E i \in 1 .. Bits : n \in Old(i) \cup New(i)
  BY <1>2, <1>3 DEF U
<1>9. ASSUME NEW i \in 1 .. Bits, NEW n \in Old(i) \cup New(i)
      PROVE  Newer(n) = {m \in Old(i) \cup New(i) : m.ref > n.ref}
  <2>1. ASSUME NEW m \in U
        PROVE  KB!SameClass(m.id, n.id) <=> m \in Old(i) \cup New(i)
    <3>1. PICK j \in 1 .. Bits : m \in Old(j) \cup New(j)
      BY <1>8
    <3>2. KB!SameClass(m.id, n.id) <=> j = i
      BY <1>1, <1>4, <1>9, <3>1, SameClassSameBucket
    <3>3. m \in Old(i) \cup New(i) => j = i
      BY <1>1, <1>4, <3>1, OneHome
    <3> QED BY <3>1, <3>2, <3>3
  <2>2. Old(i) \cup New(i) \subseteq U
    BY <1>8
  <2> QED BY <2>1, <2>2
<1> HIDE DEF Newer
<1>10. ASSUME NEW i \in 1 .. Bits, NEW n \in New(i) PROVE Cardinality(Newer(n)) < Capacity
  <2>1. Newer(n) \subseteq New(i) \ {n}
    <3> SUFFICES ASSUME NEW m \in Old(i) \cup New(i), m.ref > n.ref PROVE m \in New(i) /\ m # n
      BY <1>9
    <3>1. m.ref \in Nat /\ n.ref \in Nat
      BY <1>4
    <3>2. m \notin Old(i) \ New(i)
      BY <1>6, <3>1
    <3> QED BY <3>1, <3>2
  <2>2. IsFiniteSet(New(i)) /\ Cardinality(New(i)) <= Capacity /\ Cardinality(New(i)) \in Nat
    BY <1>5, <1>7
  <2>3. IsFiniteSet(New(i) \ {n}) /\ Cardinality(New(i) \ {n}) = Cardinality(New(i)) - 1
    BY <2>2, FS_RemoveElement
  <2>4. Cardinality(Newer(n)) \in Nat /\ Cardinality(Newer(n)) <= Cardinality(New(i) \ {n})
    BY <2>1, <2>3, FS_Subset, FS_CardinalityType
  <2> QED BY <2>2, <2>3, <2>4, SizeAssumption
<1>11. ASSUME NEW i \in 1 .. Bits, NEW n \in Old(i) \ New(i)
       PROVE  ~ (Cardinality(Newer(n)) < Capacity)
  <2>1. New(i) \subseteq Newer(n)
    BY <1>6, <1>9
  <2>2. IsFiniteSet(Old(i) \cup New(i))
    BY <1>5, FS_Union
  <2>3. IsFiniteSet(Newer(n))
    BY <1>9, <2>2, FS_Subset
  <2>4. Cardinality(New(i)) <= Cardinality(Newer(n)) /\ Cardinality(Newer(n)) \in Nat
    BY <2>1, <2>3, FS_Subset, FS_CardinalityType
  <2> QED BY <1>5, <1>6, <2>4, SizeAssumption
<1>12. ASSUME NEW n \in U PROVE n \in AllNodes' <=> Cardinality(Newer(n)) < Capacity
  <2>1. PICK i \in 1 .. Bits : n \in Old(i) \cup New(i)
    BY <1>8
  <2>2. CASE n \in New(i)
    BY <1>3, <1>10, <2>2
  <2>3. CASE n \notin New(i)
    <3>1. ~ (Cardinality(Newer(n)) < Capacity)
      BY <1>11, <2>1, <2>3
    <3>2. n \notin AllNodes'
      <4> SUFFICES ASSUME n \in AllNodes' PROVE FALSE
        OBVIOUS
      <4>1. PICK j \in 1 .. Bits : n \in New(j)
        BY <1>3
      <4>2. j = i
        BY <1>1, <1>4, <2>1, <4>1, OneHome
      <4> QED BY <2>3, <4>1, <4>2
    <3> QED BY <3>1, <3>2
  <2> QED BY <2>2, <2>3
<1>13. \A n : KB!Cardinality(Newer(n)) = Cardinality(Newer(n))
  BY Zenon DEF Cardinality, KB!Cardinality
<1>14. KB!Newest(U) = {n \in U : KB!Cardinality(Newer(n)) < Capacity}
  BY DEF KB!Newest, Newer
<1>15. AllNodes' \subseteq U
  BY DEF U
<1>16. AllNodes' = KB!Newest(U)
  BY <1>12, <1>13, <1>14, <1>15
<1> QED BY <1>16 DEF U

\* add and addNodes learn the nodes that they leave in the table.
LEMMA AddNodesLearns ==
    ASSUME RtInv, NEW n \in Nat, NEW contacts \in [1 .. n -> Contact], AddNodes(contacts)
    PROVE  KB!Learn(AllNodes' \ AllNodes)
<1>1. /\ localId' = localId /\ localId \in Ids /\ LayoutStays /\ made \in Nat
      /\ \A i \in 1 .. Bits : GoodList(buckets[i].nodes, buckets[i], made)
  BY SizeAssumption DEF AddNodes, RtInv
<1>2. /\ RtInv'
      /\ \A i \in 1 .. Bits :
            /\ \A x \in Range(buckets'[i].nodes) : x \in Range(buckets[i].nodes) \/ x.ref > made
            /\ \A o \in Range(buckets[i].nodes) \ Range(buckets'[i].nodes) :
                  /\ Len(buckets'[i].nodes) = Capacity
                  /\ \A x \in Range(buckets'[i].nodes) : x.ref > o.ref
  BY AddNodesStep
<1>3. AllNodes' = KB!Newest(AllNodes \cup (AllNodes' \ AllNodes))
  BY <1>1, <1>2, LearntAreNewest
<1>4. ASSUME NEW x \in AllNodes' \ AllNodes
      PROVE  x.id # localId /\ \A m \in AllNodes : m.ref < x.ref
  <2>1. PICK i \in 1 .. Bits : x \in Range(buckets'[i].nodes)
    BY <1>2 DEF AllNodes, RtInv, LayoutStays
  <2>2. x \notin Range(buckets[i].nodes)
    BY <1>4, AllNodesAre
  <2>3. x.ref > made
    BY <1>2, <2>1, <2>2
  <2>4. x.id \in Ids /\ x.ref \in Nat /\ WithinRange(buckets'[i], x.id)
    <3>1. made' \in Nat /\ GoodList(buckets'[i].nodes, buckets'[i], made')
      BY <1>2, SizeAssumption DEF RtInv
    <3> QED BY <2>1, <3>1, GoodListMembers
  <2>5. x.id # localId
    <3>1. WithinRange(buckets[i], x.id)
      BY <1>1, <1>2, <2>4, RangesStay
    <3> QED BY <1>1, <2>4, <3>1, LocalHasNoBucket
  <2>6. ASSUME NEW m \in AllNodes PROVE m.ref < x.ref
    <3>1. PICK j \in 1 .. Bits : m \in Range(buckets[j].nodes)
      BY AllNodesAre
    <3>2. m.ref \in Nat /\ m.ref <= made
      BY <1>1, <3>1, GoodListMembers
    <3> QED BY <1>1, <2>3, <2>4, <3>2
  <2> QED BY <2>5, <2>6
<1> QED BY <1>3, <1>4 DEF KB!Learn

\* Taking nodes out of the table forgets them.
LEMMA WithoutForgets ==
    ASSUME RtInv, NEW S, buckets' = Without(S), localId' = localId, made' = made
    PROVE  KB!Forget
<1>1. /\ RtInv'
      /\ \A i \in 1 .. Bits :
            Range(buckets'[i].nodes) = {n \in Range(buckets[i].nodes) :
                                           \A m \in S : IsHome(i, m.id) => n.ref # m.ref}
  BY WithoutStep
<1>2. AllNodes' \subseteq AllNodes
  <2> SUFFICES ASSUME NEW n \in AllNodes' PROVE n \in AllNodes
    OBVIOUS
  <2>1. PICK i \in 1 .. Bits : n \in Range(buckets'[i].nodes)
    BY <1>1 DEF AllNodes, RtInv, LayoutStays
  <2> QED BY <1>1, <2>1, AllNodesAre
<1> QED BY <1>2 DEF KB!Forget

\* findNode finds one node at most, and it is in the table.
LEMMA FindsOne ==
    ASSUME RtInv, NEW id \in Ids, NEW m \in FindNode(id), NEW n \in FindNode(id)
    PROVE  m = n /\ m \in AllNodes
<1>1. /\ localId \in Ids /\ LayoutStays /\ made \in Nat /\ DOMAIN buckets = 1 .. Bits
      /\ \A i \in 1 .. Bits : GoodList(buckets[i].nodes, buckets[i], made)
  BY SizeAssumption DEF RtInv, LayoutStays
<1> DEFINE First(i, x, k) == /\ buckets[i].nodes[k] = x
                             /\ \A j \in 1 .. k - 1 : buckets[i].nodes[j].id # id
<1>2. ASSUME NEW x \in FindNode(id)
      PROVE  \E i \in 1 .. Bits : /\ x \in Range(buckets[i].nodes) /\ x.id = id
                                  /\ \E k \in DOMAIN buckets[i].nodes : First(i, x, k)
  BY <1>1 DEF FindNode
<1> HIDE DEF First
<1>3. PICK i \in 1 .. Bits : /\ m \in Range(buckets[i].nodes) /\ m.id = id
                             /\ \E k \in DOMAIN buckets[i].nodes : First(i, m, k)
  BY <1>2
<1>4. PICK h \in 1 .. Bits : /\ n \in Range(buckets[h].nodes) /\ n.id = id
                             /\ \E k \in DOMAIN buckets[h].nodes : First(h, n, k)
  BY <1>2
<1>5. WithinRange(buckets[i], id) /\ WithinRange(buckets[h], id)
  BY <1>1, <1>3, <1>4, GoodListMembers
<1>6. h = i
  BY <1>1, <1>5, OneHome
<1>7. PICK k \in DOMAIN buckets[i].nodes : First(i, m, k)
  BY <1>3
<1>8. PICK l \in DOMAIN buckets[i].nodes : First(i, n, l)
  BY <1>4, <1>6
<1>9. k = l
  <2>1. k \in Nat \ {0} /\ l \in Nat \ {0}
    BY <1>1, <1>7, <1>8, GoodListFacts
  <2>2. /\ buckets[i].nodes[k].id = id /\ buckets[i].nodes[l].id = id
        /\ \A j \in 1 .. k - 1 : buckets[i].nodes[j].id # id
        /\ \A j \in 1 .. l - 1 : buckets[i].nodes[j].id # id
    BY <1>3, <1>4, <1>7, <1>8 DEF First
  <2>3. ~ (k < l) /\ ~ (l < k)
    BY <2>1, <2>2
  <2> QED BY <2>1, <2>3
<1>10. m = n
  BY <1>7, <1>8, <1>9 DEF First
<1>11. m \in AllNodes
  BY <1>3, AllNodesAre
<1> QED BY <1>10, <1>11

\* updateNode moves a node that is known, or changes nothing.
LEMMA UpdateMoves ==
    ASSUME RtInv, NEW id \in Ids, NEW addr \in Addrs, UpdateNode(id, addr)
    PROVE  KB!Forget \/ \E n \in AllNodes : KB!Move(n, addr)
<1> DEFINE moved(n) == IF n \in FindNode(id) THEN [n EXCEPT !.addr = addr] ELSE n
<1>1. /\ RtInv'
      /\ \A i \in 1 .. Bits :
            Range(buckets'[i].nodes) = {moved(n) : n \in Range(buckets[i].nodes)}
  BY UpdateNodeStep
<1> HIDE DEF moved
<1>2. AllNodes' = {moved(n) : n \in AllNodes}
  <2>1. \A n : n \in AllNodes' <=> \E i \in 1 .. Bits : n \in Range(buckets'[i].nodes)
    BY <1>1 DEF AllNodes, RtInv, LayoutStays
  <2>2. \A n : n \in AllNodes <=> \E i \in 1 .. Bits : n \in Range(buckets[i].nodes)
    BY AllNodesAre
  <2> QED BY <1>1, <2>1, <2>2
<1>3. CASE FindNode(id) = {}
  <2>1. \A n : moved(n) = n
    BY <1>3 DEF moved
  <2>2. AllNodes' = AllNodes
    BY <1>2, <2>1
  <2> QED BY <2>2 DEF KB!Forget
<1>4. CASE FindNode(id) # {}
  <2>1. PICK m \in FindNode(id) : m \in AllNodes
    BY <1>4, FindsOne
  <2>2. \A n : n \in FindNode(id) <=> n = m
    BY <2>1, FindsOne
  <2>3. \A n : moved(n) = IF n = m THEN [m EXCEPT !.addr = addr] ELSE n
    BY <2>2 DEF moved
  <2>4. AllNodes' = (AllNodes \ {m}) \cup {[m EXCEPT !.addr = addr]}
    BY <1>2, <2>1, <2>3
  <2> QED BY <2>1, <2>4 DEF KB!Move
<1> QED BY <1>3, <1>4

\* Every step of the table is a step of KBuckets, or changes none of its nodes.
LEMMA RtStepsAreKB == RtInv /\ [RtNext]_rtVars => [KB!Next]_<<localId, AllNodes>>
<1> SUFFICES ASSUME RtInv, [RtNext]_rtVars PROVE [KB!Next]_<<localId, AllNodes>>
  OBVIOUS
<1>1. ASSUME NEW id \in Ids, NEW addr \in Addrs, UpdateNode(id, addr) PROVE KB!Next
  <2>1. localId' = localId
    BY <1>1 DEF UpdateNode
  <2> QED BY <1>1, <2>1, UpdateMoves DEF KB!Next
<1>2. ASSUME NEW sender \in Contact, NEW len \in 0 .. MaxFound,
             NEW contacts \in [1 .. len -> Contact], AddFound(contacts, sender)
      PROVE  KB!Next
  <2>1. len \in Nat /\ len + 1 \in Nat
    BY SizeAssumption
  <2>2. Append(contacts, sender) \in [1 .. len + 1 -> Contact]
    BY <2>1, AppendedContacts
  <2>3. KB!Learn(AllNodes' \ AllNodes)
    BY <1>2, <2>1, <2>2, AddNodesLearns DEF AddFound
  <2>4. localId' = localId
    BY <1>2 DEF AddFound, AddNodes
  <2> QED BY <2>3, <2>4 DEF KB!Next
<1>3. ASSUME NEW S, buckets' = Without(S), UNCHANGED <<localId, made>> PROVE KB!Next
  BY <1>3, WithoutForgets DEF KB!Next
<1>4. ASSUME NEW node \in AllNodes, Remove(node) PROVE KB!Next
  BY <1>3, <1>4 DEF Remove
<1>5. ASSUME NEW id \in Ids, RemoveByNodeId(id) PROVE KB!Next
  BY <1>3, <1>5 DEF RemoveByNodeId
<1>6. ASSUME NEW id \in Ids, RemoveClosestNode(id) PROVE KB!Next
  BY <1>3, <1>6 DEF RemoveClosestNode
<1>7. ASSUME NEW addr \in Addrs, RemoveByIp(addr) PROVE KB!Next
  BY <1>3, <1>7 DEF RemoveByIp
<1>8. CASE UNCHANGED rtVars
  BY <1>8 DEF rtVars, AllNodes
<1> QED BY <1>1, <1>2, <1>4, <1>5, <1>6, <1>7, <1>8 DEF RtNext

\* The routing table is what KBuckets says: of every distance the nodes learnt last,
\* up to the capacity of a bucket, whatever is added, removed and updated in between.
THEOREM KBucketsImplemented == RtSpec => ImplementsKBuckets
<1>1. RtInit => KB!Init
  <2> SUFFICES ASSUME RtInit PROVE KB!Init
    OBVIOUS
  <2>1. localId \in Ids /\ DOMAIN buckets = 1 .. Bits
        /\ \A i \in 1 .. Bits : buckets[i].nodes = <<>>
    <3>1. localId \in Ids /\ buckets = BucketsFrom(localId, Bits)
      BY GenerateBucketsIs DEF RtInit
    <3>2. ASSUME NEW i \in 1 .. Bits PROVE BucketAt(localId, Bits - i).nodes = <<>>
      BY DEF BucketAt, EmptyBucket
    <3> QED BY <3>1, <3>2 DEF BucketsFrom
  <2>2. AllNodes = {}
    BY <2>1 DEF AllNodes, Range
  <2> QED BY <2>1, <2>2, SamePowers DEF KB!Init
<1> QED BY <1>1, RtInvariant, RtStepsAreKB, PTL DEF RtSpec, ImplementsKBuckets, KB!Spec

=============================================================================
