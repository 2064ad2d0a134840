----------------------- MODULE TranscationManager_proofs -----------------------
(***************************************************************************)
(* Proofs about TranscationManager, for every pool, limit and lifetime.    *)
(* The first part is about moving entries from the Map to the pool, the    *)
(* second proves the invariants of the specification.                      *)
(***************************************************************************)
EXTENDS TranscationManager, Positions_proofs

-----------------------------------------------------------------------------
(* From the Map to the pool.                                               *)

TidsOf(m) == {m[i].tid : i \in DOMAIN m}

\* TypeOK, Partition and the order of expiry, of a pool and a Map that need not
\* be the ones of a state of the specification.
Sound(st) ==
    /\ st.pool \in Seq(Tids)
    /\ st.map \in Seq(Entry)
    /\ IsInjective(st.pool)
    /\ \A i, j \in DOMAIN st.map : st.map[i].tid = st.map[j].tid => i = j
    /\ Range(st.pool) \cap TidsOf(st.map) = {}
    /\ Range(st.pool) \cup TidsOf(st.map) = Tids
    /\ \A i, j \in DOMAIN st.map : i < j => st.map[i].expiredAt <= st.map[j].expiredAt

\* Both orders on the positions of a Map are strict and total.
LEMMA OrdersAreTotal ==
    ASSUME NEW m \in Seq(Entry), NEW K \in SUBSET DOMAIN m
    PROVE  /\ IsFiniteSet(K)
           /\ StrictTotalOn(ByPosition(m), K)
           /\ StrictTotalOn(ByExpiry(m), K)
<1>1. DOMAIN m = 1 .. Len(m) /\ Len(m) \in Nat
  BY LenProperties
<1>2. \A i \in DOMAIN m : m[i].expiredAt \in Nat
  <2>1. \A i \in 1 .. Len(m) : m[i] \in Entry
    BY ElementOfSeq
  <2> QED
    BY <1>1, <2>1 DEF Entry
<1>3. IsFiniteSet(K)
  <2>1. IsFiniteSet(1 .. Len(m))
    BY <1>1, FS_Interval
  <2> QED
    BY <1>1, <2>1, FS_Subset
<1>4. StrictTotalOn(ByPosition(m), K)
  BY <1>1 DEF StrictTotalOn, ByPosition
<1>5. StrictTotalOn(ByExpiry(m), K)
  <2> DEFINE Before(i, j) == \/ m[i].expiredAt < m[j].expiredAt
                             \/ m[i].expiredAt = m[j].expiredAt /\ i < j
  <2>1. \A i, j \in K : <<i, j>> \in ByExpiry(m) <=> Before(i, j)
    BY DEF ByExpiry
  <2>2. \A i \in K : i \in Nat /\ m[i].expiredAt \in Nat
    BY <1>1, <1>2
  <2>3. \A i \in K : ~ Before(i, i)
    BY <2>2
  <2>4. \A i, j \in K : i # j => Before(i, j) \/ Before(j, i)
    BY <2>2
  <2>5. \A i, j, k \in K : Before(i, j) /\ Before(j, k) => Before(i, k)
    BY <2>2
  <2> HIDE DEF Before
  <2> QED
    BY <2>1, <2>3, <2>4, <2>5 DEF StrictTotalOn
<1> QED
  BY <1>3, <1>4, <1>5

\* The tids that are put back: those of the positions in K, each once.
LEMMA TidsAtProperties ==
    ASSUME NEW m \in Seq(Entry), NEW K \in SUBSET DOMAIN m, NEW R, StrictTotalOn(R, K),
           \A i, j \in DOMAIN m : m[i].tid = m[j].tid => i = j
    PROVE  /\ TidsAt(m, K, R) \in Seq(Tids)
           /\ Len(TidsAt(m, K, R)) = Cardinality(K)
           /\ IsInjective(TidsAt(m, K, R))
           /\ Range(TidsAt(m, K, R)) = {m[i].tid : i \in K}
<1> DEFINE L == Listed(K, R)
           n == Cardinality(K)
           T == TidsAt(m, K, R)
<1>1. /\ n \in Nat
      /\ L \in [1 .. n -> K]
      /\ \A k, l \in 1 .. n : L[k] = L[l] => k = l
      /\ \A i \in K : \E k \in 1 .. n : L[k] = i
  BY OrdersAreTotal, ListedProperties
<1>2. T = [k \in 1 .. n |-> m[L[k]].tid]
  BY DEF TidsAt
<1> HIDE DEF L, n, T
<1>3. \A i \in DOMAIN m : m[i] \in Entry
  BY ElementOfSeq, LenProperties
<1>4. \A k \in 1 .. n : m[L[k]].tid \in Tids
  BY <1>1, <1>3 DEF Entry
<1>5. T \in Seq(Tids) /\ Len(T) = n
  BY <1>1, <1>2, <1>4
<1>6. IsInjective(T)
  BY <1>1, <1>2 DEF IsInjective
<1>7. Range(T) = {m[i].tid : i \in K}
  <2>1. Range(T) = {T[k] : k \in 1 .. n}
    BY <1>2 DEF Range
  <2>2. ASSUME NEW k \in 1 .. n
        PROVE  T[k] \in {m[i].tid : i \in K}
    BY <1>1, <1>2
  <2>3. ASSUME NEW i \in K
        PROVE  m[i].tid \in {T[k] : k \in 1 .. n}
    <3>1. PICK k \in 1 .. n : L[k] = i
      BY <1>1
    <3>2. T[k] = m[i].tid
      BY <3>1, <1>2
    <3> QED
      BY <3>2
  <2> QED
    BY <2>1, <2>2, <2>3
<1> QED
  BY <1>5, <1>6, <1>7 DEF T, n

\* putbackTid of any set of positions, in any order, keeps the pool and the Map a
\* partition of the tids and the Map in its order; it takes out just those entries.
LEMMA PutBackSound ==
    ASSUME NEW st, Sound(st), NEW K \in SUBSET DOMAIN st.map, NEW R, StrictTotalOn(R, K)
    PROVE  /\ Sound(PutBack(st, K, R))
           /\ Cardinality(K) \in Nat
           /\ Len(PutBack(st, K, R).map) = Len(st.map) - Cardinality(K)
           /\ Range(PutBack(st, K, R).map) \subseteq Range(st.map)
<1> DEFINE m == st.map
           C == (DOMAIN m) \ K
           L == Listed(C, ByPosition(m))
           keep == Kept(m, C)
           back == TidsAt(m, K, R)
           pool == st.pool \o back
<1>1. PutBack(st, K, R) = [pool |-> pool, map |-> keep]
  BY DEF PutBack
<1>2. m \in Seq(Entry) /\ st.pool \in Seq(Tids)
  BY DEF Sound
<1>3. /\ back \in Seq(Tids)
      /\ Len(back) = Cardinality(K)
      /\ IsInjective(back)
      /\ Range(back) = {m[i].tid : i \in K}
  BY <1>2, TidsAtProperties DEF Sound
<1>4. /\ Cardinality(C) \in Nat
      /\ keep \in Seq(Entry)
      /\ Len(keep) = Cardinality(C)
      /\ \A k \in 1 .. Cardinality(C) : L[k] \in C /\ keep[k] = m[L[k]]
      /\ \A k, l \in 1 .. Cardinality(C) : k < l => L[k] < L[l]
      /\ \A i \in C : \E k \in 1 .. Cardinality(C) : L[k] = i
  <2>1. m \in Seq(Entry) /\ C \in SUBSET DOMAIN m
    BY <1>2
  <2> HIDE DEF m, C
  <2> QED
    BY <2>1, KeptProperties
<1>5. Cardinality(K) \in Nat /\ Cardinality(C) = Len(m) - Cardinality(K)
  <2>1. DOMAIN m = 1 .. Len(m) /\ Len(m) \in Nat
    BY <1>2, LenProperties
  <2>2. IsFiniteSet(DOMAIN m) /\ Cardinality(DOMAIN m) = Len(m)
    BY <2>1, FS_Interval
  <2>3. (DOMAIN m) \cap K = K
    OBVIOUS
  <2>4. IsFiniteSet(K)
    BY <2>2, FS_Subset
  <2> HIDE DEF m
  <2>5. Cardinality(C) = Cardinality(DOMAIN m) - Cardinality((DOMAIN m) \cap K)
    BY <2>2, FS_Difference
  <2> QED
    BY <2>2, <2>3, <2>4, <2>5, FS_CardinalityType
<1>6. DOMAIN keep = 1 .. Cardinality(C)
  BY <1>4, LenProperties
<1>7. Range(keep) \subseteq Range(m)
  <2>1. C \subseteq DOMAIN m
    OBVIOUS
  <2> HIDE DEF m, C, L, keep
  <2>2. \A k \in DOMAIN keep : \E i \in DOMAIN m : keep[k] = m[i]
    BY <2>1, <1>4, <1>6
  <2> QED
    BY <2>2 DEF Range
<1>8. TidsOf(keep) = {m[i].tid : i \in C}
  <2> HIDE DEF keep, L, C
  <2>1. \A k \in DOMAIN keep : keep[k].tid \in {m[i].tid : i \in C}
    BY <1>4, <1>6
  <2>2. \A i \in C : \E k \in DOMAIN keep : keep[k].tid = m[i].tid
    BY <1>4, <1>6
  <2> QED
    BY <2>1, <2>2 DEF TidsOf
<1>9. IsInjective(pool)
  <2>1. /\ pool \in Seq(Tids)
        /\ Len(pool) = Len(st.pool) + Len(back)
        /\ \A i \in 1 .. Len(st.pool) + Len(back) :
              pool[i] = IF i <= Len(st.pool) THEN st.pool[i] ELSE back[i - Len(st.pool)]
    BY <1>2, <1>3, ConcatProperties
  <2>2. Range(st.pool) \cap Range(back) = {}
    BY <1>3 DEF Sound, TidsOf
  <2>3. IsInjective(st.pool) /\ IsInjective(back)
    BY <1>3 DEF Sound
  <2>4. /\ DOMAIN pool = 1 .. Len(st.pool) + Len(back)
        /\ DOMAIN st.pool = 1 .. Len(st.pool)
        /\ DOMAIN back = 1 .. Len(back)
        /\ Len(st.pool) \in Nat /\ Len(back) \in Nat
    BY <2>1, <1>2, <1>3, LenProperties
  <2> DEFINE u == st.pool
             w == back
             p == pool
             x == Len(u)
             y == Len(w)
  <2>5. /\ x \in Nat /\ y \in Nat
        /\ DOMAIN p = 1 .. x + y /\ DOMAIN u = 1 .. x /\ DOMAIN w = 1 .. y
        /\ \A i \in 1 .. x + y : p[i] = IF i <= x THEN u[i] ELSE w[i - x]
    BY <2>1, <2>4
  <2>6. /\ \A a, b \in DOMAIN u : u[a] = u[b] => a = b
        /\ \A a, b \in DOMAIN w : w[a] = w[b] => a = b
        /\ \A a \in DOMAIN u, b \in DOMAIN w : u[a] # w[b]
    BY <2>2, <2>3 DEF IsInjective, Range
  <2> HIDE DEF u, w, p, x, y
  <2>7. ASSUME NEW a \in DOMAIN p, NEW b \in DOMAIN p, p[a] = p[b], a < b
        PROVE  FALSE
    <3>1. CASE b <= x
      BY <3>1, <2>5, <2>6, <2>7
    <3>2. CASE a > x
      <4>1. a - x \in DOMAIN w /\ b - x \in DOMAIN w
        BY <3>2, <2>5, <2>7
      <4>2. w[a - x] = w[b - x]
        BY <3>2, <2>5, <2>7
      <4>3. a - x = b - x
        BY <4>1, <4>2, <2>6
      <4> QED
        BY <4>3, <2>5, <2>7
    <3>3. CASE a <= x /\ b > x
      <4>1. a \in DOMAIN u /\ b - x \in DOMAIN w
        BY <3>3, <2>5, <2>7
      <4>2. u[a] = w[b - x]
        BY <3>3, <2>5, <2>7
      <4> QED
        BY <4>1, <4>2, <2>6
    <3> QED
      BY <3>1, <3>2, <3>3, <2>5, <2>7
  <2>8. \A a, b \in DOMAIN p : p[a] = p[b] => a = b
    <3>1. \A a \in DOMAIN p : a \in Int
      BY <2>5
    <3> QED
      BY <3>1, <2>7
  <2> QED
    BY <2>8 DEF IsInjective, p
<1>10. Range(pool) = Range(st.pool) \cup {m[i].tid : i \in K}
  BY <1>2, <1>3, RangeConcatenation
<1>11. /\ \A i \in DOMAIN keep : L[i] \in DOMAIN m /\ keep[i] = m[L[i]]
       /\ \A i, j \in DOMAIN keep : i < j => L[i] < L[j]
       /\ \A i \in DOMAIN keep : i \in Int /\ L[i] \in Int
  <2>1. C \subseteq DOMAIN m /\ DOMAIN m = 1 .. Len(m)
    BY <1>2, LenProperties
  <2> HIDE DEF m, C, L, keep
  <2> QED
    BY <2>1, <1>4, <1>6
<1>12. /\ \A i, j \in DOMAIN keep : keep[i].tid = keep[j].tid => i = j
       /\ \A i, j \in DOMAIN keep : i < j => keep[i].expiredAt <= keep[j].expiredAt
  <2>1. /\ \A i, j \in DOMAIN m : m[i].tid = m[j].tid => i = j
        /\ \A i, j \in DOMAIN m : i < j => m[i].expiredAt <= m[j].expiredAt
    BY DEF Sound
  <2> HIDE DEF m, L, keep
  <2>2. ASSUME NEW i \in DOMAIN keep, NEW j \in DOMAIN keep, keep[i].tid = keep[j].tid
        PROVE  i = j
    <3>1. L[i] = L[j]
      BY <2>1, <2>2, <1>11
    <3> QED
      BY <3>1, <1>11
  <2>3. ASSUME NEW i \in DOMAIN keep, NEW j \in DOMAIN keep, i < j
        PROVE  keep[i].expiredAt <= keep[j].expiredAt
    BY <2>1, <2>3, <1>11
  <2> QED
    BY <2>2, <2>3
<1>13. Range(pool) \cap TidsOf(keep) = {} /\ Range(pool) \cup TidsOf(keep) = Tids
  <2>1. TidsOf(m) = {m[i].tid : i \in K} \cup {m[i].tid : i \in C}
    BY DEF TidsOf
  <2>2. {m[i].tid : i \in K} \cap {m[i].tid : i \in C} = {}
    BY DEF Sound
  <2>3. Range(st.pool) \cap TidsOf(m) = {} /\ Range(st.pool) \cup TidsOf(m) = Tids
    BY DEF Sound
  <2> HIDE DEF C, m, keep, pool
  <2> QED
    BY <2>1, <2>2, <2>3, <1>8, <1>10
<1>14. pool \in Seq(Tids)
  BY <1>2, <1>3, ConcatProperties
<1> HIDE DEF pool, keep, C, m
<1>15. Sound([pool |-> pool, map |-> keep])
  BY <1>4, <1>9, <1>12, <1>13, <1>14 DEF Sound
<1> QED
  BY <1>1, <1>4, <1>5, <1>7, <1>15 DEF m

\* In a Map in the order of expiry, the expired entries are a prefix ...
LEMMA ExpiredIsPrefix ==
    ASSUME NEW st, Sound(st), now \in Nat
    PROVE  \E d \in 0 .. Len(st.map) :
              {i \in DOMAIN st.map : IsExpired(st.map[i])} = 1 .. d
<1> DEFINE n == Len(st.map)
           P == {i \in DOMAIN st.map : IsExpired(st.map[i])}
<1>1. n \in Nat /\ DOMAIN st.map = 1 .. n
  BY LenProperties DEF Sound
<1>2. \A i \in 1 .. n : st.map[i].expiredAt \in Nat
  <2>1. \A i \in 1 .. n : st.map[i] \in Entry
    BY ElementOfSeq DEF Sound
  <2> QED
    BY <2>1 DEF Entry
<1>3. \A i, j \in 1 .. n : i < j => st.map[i].expiredAt <= st.map[j].expiredAt
  BY <1>1 DEF Sound
<1>4. ASSUME NEW i \in P, NEW j \in 1 .. n, j < i
      PROVE  j \in P
  BY <1>1, <1>2, <1>3, <1>4 DEF IsExpired
<1>5. P \in SUBSET (1 .. n)
  BY <1>1
<1> HIDE DEF n, P
<1>6. Cardinality(P) \in 0 .. n /\ P = 1 .. Cardinality(P)
  BY <1>1, <1>4, <1>5, DownwardClosed
<1> QED
  BY <1>6 DEF n, P

\* ... and the earlier half is its first half, rounded up.
LEMMA EarlierHalfIsPrefix ==
    ASSUME NEW st, Sound(st)
    PROVE  EarlierHalf(st.map) = 1 .. (Len(st.map) + 1) \div 2
<1> DEFINE m == st.map
           n == Len(m)
           Before(i) == {j \in DOMAIN m : <<j, i>> \in ByExpiry(m)}
<1>1. n \in Nat /\ DOMAIN m = 1 .. n
  BY LenProperties DEF Sound
<1>2. \A i \in 1 .. n : m[i].expiredAt \in Nat
  <2>1. \A i \in 1 .. n : m[i] \in Entry
    BY ElementOfSeq DEF Sound
  <2> QED
    BY <2>1 DEF Entry
<1>3. \A i, j \in 1 .. n : i < j => m[i].expiredAt <= m[j].expiredAt
  BY <1>1 DEF Sound
<1>4. EarlierHalf(m) = {i \in 1 .. n : 2 * Cardinality(Before(i)) < n}
  BY <1>1 DEF EarlierHalf
<1> HIDE DEF m, n
<1>5. ASSUME NEW i \in 1 .. n
      PROVE  Cardinality(Before(i)) = i - 1
  <2>1. \A j \in 1 .. n : <<j, i>> \in ByExpiry(m) <=> j < i
    BY <1>1, <1>2, <1>3 DEF ByExpiry
  <2>2. Before(i) = 1 .. i - 1
    BY <2>1, <1>1
  <2>3. 1 \in Int /\ i - 1 \in Int /\ (1 > i - 1 => i - 1 = 0) /\ (i - 1) - 1 + 1 = i - 1
    BY <1>1
  <2> QED
    BY <2>2, <2>3, FS_Interval
<1>6. EarlierHalf(m) = {i \in 1 .. n : 2 * (i - 1) < n}
  BY <1>4, <1>5
<1>7. \A i \in 1 .. n : 2 * (i - 1) < n <=> i <= (n + 1) \div 2
  BY <1>1
<1>8. (n + 1) \div 2 \in Nat /\ (n + 1) \div 2 <= n
  BY <1>1
<1>9. {i \in 1 .. n : 2 * (i - 1) < n} = 1 .. (n + 1) \div 2
  BY <1>1, <1>7, <1>8
<1> QED
  BY <1>6, <1>9 DEF m, n

\* What the two tests of borrowTid do: the Map loses a prefix, either of expired
\* entries or, when all #ID_COUNT_MAX are live, the first half; room is left.
LEMMA MakeRoomProperties ==
    ASSUME NEW st, Sound(st), Len(st.map) <= IdCountMax, now \in Nat
    PROVE  /\ Sound(MakeRoom(st))
           /\ \E d \in 0 .. Len(st.map) :
                 /\ MakeRoom(st).map = SubSeq(st.map, d + 1, Len(st.map))
                 /\ Len(st.map) - d < IdCountMax
                 /\ \/ \A i \in 1 .. d : IsExpired(st.map[i])
                    \/ /\ \A i \in DOMAIN st.map : ~ IsExpired(st.map[i])
                       /\ Len(st.map) = IdCountMax
                       /\ d = (IdCountMax + 1) \div 2
<1> DEFINE m == st.map
           n == Len(m)
           cleared == IF 2 * n > IdCountMax THEN ClearExpiredTid(st) ELSE st
<1>1. /\ n \in Nat /\ DOMAIN m = 1 .. n /\ m \in Seq(Entry)
      /\ IdCountMax \in Nat /\ IdCountMax >= 1 /\ n <= IdCountMax
  BY LenProperties, LimitAssumption, PoolAssumption DEF Sound
<1>2. MakeRoom(st) = IF Len(cleared.map) >= IdCountMax THEN ForcePutback(cleared) ELSE cleared
  BY DEF MakeRoom
<1>3. ASSUME NEW s, Sound(s), NEW d \in 0 .. Len(s.map), NEW R, StrictTotalOn(R, 1 .. d)
      PROVE  /\ Sound(PutBack(s, 1 .. d, R))
             /\ PutBack(s, 1 .. d, R).map = SubSeq(s.map, d + 1, Len(s.map))
             /\ Len(PutBack(s, 1 .. d, R).map) = Len(s.map) - d
  <2>1. s.map \in Seq(Entry) /\ DOMAIN s.map = 1 .. Len(s.map) /\ Len(s.map) \in Nat
    BY <1>3, LenProperties DEF Sound
  <2>2. 1 .. d \in SUBSET DOMAIN s.map
    BY <2>1
  <2>3. Cardinality(1 .. d) = d
    BY <2>1, FS_Interval
  <2>4. /\ Sound(PutBack(s, 1 .. d, R))
        /\ Len(PutBack(s, 1 .. d, R).map) = Len(s.map) - d
    BY <1>3, <2>2, <2>3, PutBackSound
  <2>5. PutBack(s, 1 .. d, R).map = SubSeq(s.map, d + 1, Len(s.map))
    BY <2>1, KeptSuffix DEF PutBack
  <2> QED
    BY <2>4, <2>5
<1>4. CASE 2 * n > IdCountMax
  <2>1. PICK e \in 0 .. n : {i \in DOMAIN m : IsExpired(m[i])} = 1 .. e
    BY ExpiredIsPrefix
  <2>2. /\ Sound(cleared)
        /\ cleared.map = SubSeq(m, e + 1, n)
        /\ Len(cleared.map) = n - e
    <3>1. cleared = PutBack(st, 1 .. e, ByPosition(m))
      BY <1>4, <2>1 DEF ClearExpiredTid
    <3>2. StrictTotalOn(ByPosition(m), 1 .. e)
      BY <1>1, OrdersAreTotal
    <3> QED
      BY <3>1, <3>2, <1>3
  <2>3. \A i \in 1 .. e : IsExpired(m[i])
    BY <2>1
  <2>4. CASE n - e < IdCountMax
    <3>1. MakeRoom(st) = cleared
      BY <1>1, <1>2, <2>2, <2>4
    <3> QED
      BY <3>1, <2>2, <2>3, <2>4
  <2>5. CASE ~ (n - e < IdCountMax)
    <3> DEFINE d == (n + 1) \div 2
    <3>1. e = 0 /\ n = IdCountMax
      BY <1>1, <2>5
    <3>2. cleared.map = m
      <4>1. cleared.map = SubSeq(m, 1, n)
        <5>1. e + 1 = 1
          BY <3>1
        <5> HIDE DEF cleared
        <5> QED
          BY <5>1, <2>2
      <4>2. SubSeq(m, 1, n) = m
        BY <1>1, SubSeqFull
      <4> HIDE DEF cleared
      <4> QED
        BY <4>1, <4>2
    <3>3. d \in 0 .. n /\ n - d < IdCountMax
      BY <1>1, <3>1
    <3>4. MakeRoom(st) = PutBack(cleared, 1 .. d, ByExpiry(m))
      <4>1. MakeRoom(st) = ForcePutback(cleared)
        BY <1>1, <1>2, <2>2, <3>1
      <4>2. EarlierHalf(cleared.map) = 1 .. d
        BY <2>2, <3>2, EarlierHalfIsPrefix
      <4> QED
        BY <4>1, <4>2, <3>2 DEF ForcePutback
    <3>5. StrictTotalOn(ByExpiry(m), 1 .. d)
      <4> HIDE DEF d, n
      <4>1. 1 .. d \in SUBSET DOMAIN m
        BY <1>1, <3>3
      <4> QED
        BY <4>1, <1>1, OrdersAreTotal
    <3>6. Sound(MakeRoom(st)) /\ MakeRoom(st).map = SubSeq(m, d + 1, n)
      <4> HIDE DEF cleared, d
      <4>1. Sound(cleared) /\ d \in 0 .. Len(cleared.map)
        BY <2>2, <3>2, <3>3
      <4> QED
        BY <4>1, <1>3, <3>2, <3>4, <3>5
    <3>7. \A i \in DOMAIN m : ~ IsExpired(m[i])
      BY <2>1, <3>1
    <3> QED
      BY <3>1, <3>3, <3>6, <3>7
  <2> QED
    BY <2>4, <2>5
<1>5. CASE ~ (2 * n > IdCountMax)
  <2>1. n < IdCountMax /\ cleared = st
    BY <1>1, <1>5
  <2>2. MakeRoom(st) = st
    BY <1>1, <1>2, <2>1
  <2>3. m = SubSeq(m, 0 + 1, n)
    BY <1>1, SubSeqFull
  <2>4. 0 \in 0 .. n /\ n - 0 < IdCountMax /\ \A i \in 1 .. 0 : IsExpired(m[i])
    BY <1>1, <2>1
  <2> QED
    BY <2>2, <2>3, <2>4
<1> QED
  BY <1>4, <1>5

\* A pool that has lent less than the limit is not empty.
LEMMA PoolNotEmpty ==
    ASSUME NEW st, Sound(st), Len(st.map) < IdCountMax
    PROVE  st.pool # <<>>
<1> DEFINE m == st.map
           n == Len(m)
           N == Len(ShuffledPool)
<1>1. /\ n \in Nat /\ DOMAIN m = 1 .. n
      /\ N \in Nat /\ DOMAIN ShuffledPool = 1 .. N /\ ShuffledPool \in Seq(Tids)
  BY LenProperties, PoolAssumption DEF Sound
<1>2. Cardinality(Tids) = N
  <2>1. ShuffledPool \in [1 .. N -> Tids]
    BY <1>1, LenProperties
  <2>2. ShuffledPool \in Bijection(1 .. N, Tids)
    BY <1>1, <2>1, PoolAssumption
       DEF Bijection, Injection, Surjection, Tids, Range
  <2> QED
    BY <1>1, <2>2, FS_CountingElements DEF ExistsBijection
<1>3. SUFFICES ASSUME st.pool = <<>>
               PROVE  FALSE
  OBVIOUS
<1>4. TidsOf(m) = Tids
  <2>1. Range(st.pool) = {}
    BY <1>3 DEF Range
  <2> QED
    BY <2>1 DEF Sound
<1>5. Cardinality(Tids) = n
  <2> DEFINE f == [i \in 1 .. n |-> m[i].tid]
  <2>1. f \in Bijection(1 .. n, Tids)
    BY <1>1, <1>4 DEF Bijection, Injection, Surjection, IsInjective, TidsOf, Sound
  <2> HIDE DEF f
  <2> QED
    BY <1>1, <2>1, FS_CountingElements DEF ExistsBijection
<1> QED
  BY <1>1, <1>2, <1>5, LimitAssumption

\* Lending: there is room, so there is a tid to lend, and the new entry is the last
\* to expire.
LEMMA LendSound ==
    ASSUME NEW st, Sound(st), Len(st.map) <= IdCountMax, now \in Nat, NEW data \in Data,
           \A i \in DOMAIN st.map : st.map[i].expiredAt <= now + ExpiredTime
    PROVE  LET lent == Lend(st, data)
           IN  /\ Sound(lent)
               /\ lent.tid \in Tids
               /\ Len(lent.map) <= IdCountMax
               /\ \A i \in DOMAIN lent.map : lent.map[i].expiredAt <= now + ExpiredTime
<1> DEFINE room == MakeRoom(st)
           p == room.pool
           m == room.map
           t == Head(p)
           x == [tid |-> t, expiredAt |-> now + ExpiredTime, data |-> data]
           lent == Lend(st, data)
<1>1. Sound(room)
  BY MakeRoomProperties
<1>2. PICK d \in 0 .. Len(st.map) :
         m = SubSeq(st.map, d + 1, Len(st.map)) /\ Len(st.map) - d < IdCountMax
  BY MakeRoomProperties
<1>3. lent = [tid  |-> IF p = <<>> THEN NoTid ELSE t,
              pool |-> IF p = <<>> THEN <<>> ELSE Tail(p),
              map  |-> Append(m, [tid |-> IF p = <<>> THEN NoTid ELSE t,
                                  expiredAt |-> now + ExpiredTime, data |-> data])]
  BY DEF Lend, FirstOf
<1> HIDE DEF room, lent
<1>4. /\ p \in Seq(Tids) /\ m \in Seq(Entry) /\ IsInjective(p)
      /\ \A i, j \in DOMAIN m : m[i].tid = m[j].tid => i = j
      /\ Range(p) \cap TidsOf(m) = {} /\ Range(p) \cup TidsOf(m) = Tids
      /\ \A i, j \in DOMAIN m : i < j => m[i].expiredAt <= m[j].expiredAt
  BY <1>1 DEF Sound
<1>5. /\ Len(m) \in Nat /\ Len(m) < IdCountMax
      /\ \A i \in 1 .. Len(m) : m[i].expiredAt <= now + ExpiredTime
  <2> DEFINE n == Len(st.map)
  <2>1. /\ n \in Nat /\ d \in 0 .. n /\ n - d < IdCountMax
        /\ st.map \in Seq(Entry) /\ DOMAIN st.map = 1 .. n
    BY <1>2, LenProperties DEF Sound
  <2>2. \A i \in d + 1 .. n : st.map[i] \in Entry
    BY <2>1, ElementOfSeq
  <2>3. d + 1 \in Int /\ n \in Int
    BY <2>1
  <2>4. /\ Len(m) = IF d + 1 <= n THEN n - (d + 1) + 1 ELSE 0
        /\ \A i \in 1 .. n - (d + 1) + 1 : m[i] = st.map[(d + 1) + i - 1]
    BY <1>2, <2>2, <2>3, SubSeqProperties
  <2> HIDE DEF m, n
  <2>5. Len(m) = n - d
    BY <2>1, <2>4
  <2>6. ASSUME NEW i \in 1 .. Len(m)
        PROVE  m[i].expiredAt <= now + ExpiredTime
    <3>1. m[i] = st.map[d + i] /\ d + i \in 1 .. n
      BY <2>1, <2>4, <2>5
    <3> QED
      BY <3>1, <2>1
  <2> QED
    BY <2>1, <2>5, <2>6
<1>6. p # <<>>
  BY <1>1, <1>5, PoolNotEmpty
<1>7. lent = [tid |-> t, pool |-> Tail(p), map |-> Append(m, x)]
  BY <1>3, <1>6
<1>8. /\ t \in Tids /\ Tail(p) \in Seq(Tids) /\ Len(p) \in Nat \ {0}
      /\ Len(Tail(p)) = Len(p) - 1 /\ t = p[1]
      /\ \A i \in 1 .. Len(p) - 1 : Tail(p)[i] = p[i + 1]
      /\ DOMAIN Tail(p) = 1 .. Len(p) - 1 /\ DOMAIN p = 1 .. Len(p)
  BY <1>4, <1>6, HeadTailProperties, LenProperties, EmptySeq
<1>9. x \in Entry
  BY <1>8, TimeAssumption DEF Entry
<1> HIDE DEF t, x, p, m
<1>10. /\ Append(m, x) \in Seq(Entry) /\ Len(Append(m, x)) = Len(m) + 1
       /\ \A i \in 1 .. Len(m) : Append(m, x)[i] = m[i]
       /\ Append(m, x)[Len(m) + 1] = x
       /\ DOMAIN m = 1 .. Len(m) /\ DOMAIN Append(m, x) = 1 .. Len(m) + 1
  BY <1>4, <1>9, AppendProperties, LenProperties
<1>11. IsInjective(Tail(p)) /\ t \notin Range(Tail(p)) /\ Range(p) = {t} \cup Range(Tail(p))
  <2>1. \A i, j \in 1 .. Len(p) : p[i] = p[j] => i = j
    BY <1>4, <1>8 DEF IsInjective
  <2>2. IsInjective(Tail(p))
    BY <1>8, <2>1 DEF IsInjective
  <2>3. t \notin Range(Tail(p))
    BY <1>8, <2>1 DEF Range
  <2>4. \A i \in 1 .. Len(p) : p[i] = t \/ (i - 1 \in 1 .. Len(p) - 1 /\ p[i] = Tail(p)[i - 1])
    BY <1>8
  <2>5. Range(p) \subseteq {t} \cup Range(Tail(p))
    <3>1. \A i \in 1 .. Len(p) - 1 : Tail(p)[i] \in Range(Tail(p))
      BY <1>8 DEF Range
    <3>2. \A i \in 1 .. Len(p) : p[i] \in {t} \cup Range(Tail(p))
      BY <2>4, <3>1
    <3> QED
      BY <1>8, <3>2 DEF Range
  <2>6. {t} \cup Range(Tail(p)) \subseteq Range(p)
    BY <1>8 DEF Range
  <2> QED
    BY <2>2, <2>3, <2>5, <2>6
<1>12. TidsOf(Append(m, x)) = TidsOf(m) \cup {t}
  <2>1. x.tid = t
    BY DEF x
  <2>2. \A i \in 1 .. Len(m) + 1 : i \in 1 .. Len(m) \/ i = Len(m) + 1
    BY <1>5
  <2>3. 1 .. Len(m) \subseteq 1 .. Len(m) + 1 /\ Len(m) + 1 \in 1 .. Len(m) + 1
    BY <1>5
  <2>4. TidsOf(Append(m, x)) \subseteq TidsOf(m) \cup {t}
    BY <1>10, <2>1, <2>2 DEF TidsOf
  <2>5. TidsOf(m) \cup {t} \subseteq TidsOf(Append(m, x))
    BY <1>10, <2>1, <2>3 DEF TidsOf
  <2> QED
    BY <2>4, <2>5
<1>13. t \notin TidsOf(m)
  BY <1>4, <1>11
<1>14. \A i, j \in 1 .. Len(m) + 1 : Append(m, x)[i].tid = Append(m, x)[j].tid => i = j
  <2>1. \A i \in 1 .. Len(m) : Append(m, x)[i].tid \in TidsOf(m)
    BY <1>10 DEF TidsOf
  <2>2. x.tid = t
    BY DEF x
  <2>3. \A i \in 1 .. Len(m) + 1 : i \in 1 .. Len(m) \/ i = Len(m) + 1
    BY <1>5
  <2> QED
    BY <2>1, <2>2, <2>3, <1>4, <1>10, <1>13
<1>15. /\ \A i, j \in 1 .. Len(m) + 1 :
             i < j => Append(m, x)[i].expiredAt <= Append(m, x)[j].expiredAt
       /\ \A i \in 1 .. Len(m) + 1 : Append(m, x)[i].expiredAt <= now + ExpiredTime
  <2>1. x.expiredAt = now + ExpiredTime /\ now + ExpiredTime \in Nat
    BY TimeAssumption DEF x
  <2>2. \A i \in 1 .. Len(m) + 1 : i \in 1 .. Len(m) \/ i = Len(m) + 1
    BY <1>5
  <2>3. ASSUME NEW i \in 1 .. Len(m) + 1
        PROVE  Append(m, x)[i].expiredAt <= now + ExpiredTime
    <3>1. CASE i \in 1 .. Len(m)
      BY <3>1, <1>5, <1>10
    <3>2. CASE i = Len(m) + 1
      BY <3>2, <2>1, <1>10
    <3> QED
      BY <3>1, <3>2, <2>2
  <2>4. ASSUME NEW i \in 1 .. Len(m) + 1, NEW j \in 1 .. Len(m) + 1, i < j
        PROVE  Append(m, x)[i].expiredAt <= Append(m, x)[j].expiredAt
    <3>1. i \in 1 .. Len(m)
      BY <2>4, <1>5
    <3>2. CASE j \in 1 .. Len(m)
      <4>1. m[i].expiredAt <= m[j].expiredAt
        BY <2>4, <3>1, <3>2, <1>4, <1>10
      <4> QED
        BY <3>1, <3>2, <4>1, <1>10
    <3>3. CASE j = Len(m) + 1
      BY <3>3, <2>1, <2>3, <1>10
    <3> QED
      BY <3>2, <3>3, <2>2
  <2> QED
    BY <2>3, <2>4
<1>16. Len(Append(m, x)) <= IdCountMax
  BY <1>5, <1>10, LimitAssumption, PoolAssumption
<1>17. Tail(p) \in Seq(Tids) /\ Range(Tail(p)) \cap TidsOf(Append(m, x)) = {}
       /\ Range(Tail(p)) \cup TidsOf(Append(m, x)) = Tids
  BY <1>4, <1>8, <1>11, <1>12
<1>18. Sound(lent)
  BY <1>7, <1>10, <1>11, <1>14, <1>15, <1>17 DEF Sound
<1>19. lent.tid \in Tids /\ Len(lent.map) <= IdCountMax
  BY <1>7, <1>8, <1>16
<1>20. \A i \in DOMAIN lent.map : lent.map[i].expiredAt <= now + ExpiredTime
  BY <1>7, <1>10, <1>15
<1> QED
  BY <1>18, <1>19, <1>20 DEF lent

-----------------------------------------------------------------------------
(* The specification.                                                      *)

\* The inductive invariant: besides the partition, the bound on what is lent and
\* the order of expiry, on which the test for room and the forced return rest.
IInv == TypeOK /\ Partition /\ OutstandingBounded /\ ExpiryInOrder

\* A state of the invariant is sound in the sense of the lemmas, and conversely.
LEMMA SoundCurrent ==
    IInv <=> /\ Sound(Current)
             /\ Len(transcations) <= IdCountMax
             /\ \A i \in DOMAIN transcations :
                   transcations[i].expiredAt <= now + ExpiredTime
             /\ now \in Nat
BY DEF IInv, TypeOK, Partition, OutstandingBounded, ExpiryInOrder, Sound, Current,
       Borrowed, TidsOf

LEMMA CreateSound ==
    ASSUME IInv, Creates
    PROVE  IInv'
<1>1. /\ Sound(Current) /\ Len(Current.map) <= IdCountMax /\ now \in Nat
      /\ \A i \in DOMAIN Current.map : Current.map[i].expiredAt <= now + ExpiredTime
  BY SoundCurrent DEF Current
<1>2. PICK data \in Data :
         /\ tidPool' = Lend(Current, data).pool
         /\ transcations' = Lend(Current, data).map
         /\ now' = now
  BY DEF Creates, Create
<1> DEFINE lent == Lend(Current, data)
<1>3. /\ Sound(lent) /\ Len(lent.map) <= IdCountMax
      /\ \A i \in DOMAIN lent.map : lent.map[i].expiredAt <= now + ExpiredTime
  BY <1>1, LendSound
<1> HIDE DEF lent
<1> QED
  BY <1>1, <1>2, <1>3
     DEF Sound, lent, IInv, TypeOK, Partition, OutstandingBounded, ExpiryInOrder, Borrowed, TidsOf

\* A finish gives one entry back.
LEMMA ReturnedSound ==
    ASSUME NEW st, Sound(st), NEW tid \in Tids
    PROVE  /\ Sound(Returned(st, tid))
           /\ Len(Returned(st, tid).map) <= Len(st.map)
           /\ Range(Returned(st, tid).map) \subseteq Range(st.map)
<1> DEFINE K == {i \in DOMAIN st.map : st.map[i].tid = tid}
<1>1. st.map \in Seq(Entry) /\ K \in SUBSET DOMAIN st.map
  BY DEF Sound
<1>2. Returned(st, tid) = PutBack(st, K, ByPosition(st.map))
  BY DEF Returned
<1> HIDE DEF K
<1>3. StrictTotalOn(ByPosition(st.map), K)
  BY <1>1, OrdersAreTotal
<1>4. /\ Sound(Returned(st, tid))
      /\ Cardinality(K) \in Nat
      /\ Len(Returned(st, tid).map) = Len(st.map) - Cardinality(K)
      /\ Range(Returned(st, tid).map) \subseteq Range(st.map)
  BY <1>1, <1>2, <1>3, PutBackSound
<1>5. Len(st.map) \in Nat
  BY <1>1, LenProperties
<1> QED
  BY <1>4, <1>5

LEMMA FinishSound ==
    ASSUME IInv, NEW tid \in Tids, Finish(tid)
    PROVE  IInv'
<1> DEFINE done == Returned(Current, tid)
<1>1. /\ Sound(Current) /\ Len(Current.map) <= IdCountMax /\ now \in Nat
      /\ \A i \in DOMAIN Current.map : Current.map[i].expiredAt <= now + ExpiredTime
  BY SoundCurrent DEF Current
<1>2. tidPool' = done.pool /\ transcations' = done.map /\ now' = now
  BY DEF Finish
<1>3. /\ Sound(done) /\ Len(done.map) <= Len(Current.map)
      /\ Range(done.map) \subseteq Range(Current.map)
  BY <1>1, ReturnedSound
<1> HIDE DEF done
<1>4. Len(done.map) <= IdCountMax
  <2>1. Len(Current.map) \in Nat /\ Len(done.map) \in Nat /\ IdCountMax \in Nat
    BY <1>1, <1>3, LenProperties, LimitAssumption, PoolAssumption DEF Sound
  <2> QED
    BY <1>1, <1>3, <2>1
<1>5. \A i \in DOMAIN done.map : done.map[i].expiredAt <= now + ExpiredTime
  BY <1>1, <1>3 DEF Range
<1> QED
  BY <1>1, <1>2, <1>3, <1>4, <1>5
     DEF Sound, IInv, TypeOK, Partition, OutstandingBounded, ExpiryInOrder, Borrowed, TidsOf

\* The clock's ticks only make entries older.
LEMMA TickSound ==
    ASSUME IInv, Tick
    PROVE  IInv'
<1>1. /\ tidPool' = tidPool /\ transcations' = transcations
      /\ now' = now + 1 /\ now \in Nat
  BY DEF Tick, IInv, TypeOK
<1>2. \A i \in DOMAIN transcations :
         transcations[i].expiredAt \in Nat /\ transcations[i].expiredAt <= now + ExpiredTime
  <2>1. \A i \in DOMAIN transcations : transcations[i] \in Entry
    BY ElementOfSeq, LenProperties DEF IInv, TypeOK
  <2> QED
    BY <2>1 DEF IInv, ExpiryInOrder, Entry
<1>3. \A i \in DOMAIN transcations : transcations[i].expiredAt <= (now + 1) + ExpiredTime
  BY <1>1, <1>2, TimeAssumption
<1> QED
  BY <1>1, <1>3
     DEF IInv, TypeOK, Partition, OutstandingBounded, ExpiryInOrder, Borrowed

\* Initially every tid is in the pool.
LEMMA InitSound == Init => IInv
<1> SUFFICES ASSUME Init PROVE IInv
  OBVIOUS
<1>1. tidPool = ShuffledPool /\ transcations = <<>> /\ now = 0
  BY DEF Init
<1>2. Borrowed = {}
  BY <1>1 DEF Borrowed
<1>3. IdCountMax \in Nat
  BY LimitAssumption, PoolAssumption, LenProperties
<1> QED
  BY <1>1, <1>2, <1>3, PoolAssumption
     DEF IInv, TypeOK, Partition, OutstandingBounded, ExpiryInOrder, Tids

LEMMA Inductive == IInv /\ [Next]_tmVars => IInv'
<1> SUFFICES ASSUME IInv, [Next]_tmVars PROVE IInv'
  OBVIOUS
<1>1. CASE Creates
  BY <1>1, CreateSound
<1>2. CASE \E tid \in Tids : Finish(tid)
  BY <1>2, FinishSound
<1>3. CASE Tick
  BY <1>3, TickSound
<1>4. CASE UNCHANGED tmVars
  BY <1>4 DEF tmVars, IInv, TypeOK, Partition, OutstandingBounded, ExpiryInOrder, Borrowed
<1> QED
  BY <1>1, <1>2, <1>3, <1>4 DEF Next

\* The strengthened invariant holds in every reachable state.
THEOREM Invariance == Spec => []IInv
  BY InitSound, Inductive, PTL DEF Spec

\* Every tid lent is one of the pool's, whatever the pool, limit and lifetime:
\* create never returns the undefined of an empty pool.
THEOREM TypeCorrect == Spec => []TypeOK
<1>1. IInv => TypeOK
  BY DEF IInv
<1> QED
  BY <1>1, Invariance, PTL

\* No tid is ever lost or lent twice.
THEOREM PartitionHolds == Spec => []Partition
<1>1. IInv => Partition
  BY DEF IInv
<1> QED
  BY <1>1, Invariance, PTL

\* The number of outstanding transcations never exceeds #ID_COUNT_MAX.
THEOREM OutstandingIsBounded == Spec => []OutstandingBounded
<1>1. IInv => OutstandingBounded
  BY DEF IInv
<1> QED
  BY <1>1, Invariance, PTL

\* The Map's order of insertion is its order of expiry.
THEOREM ExpiryStaysInOrder == Spec => []ExpiryInOrder
<1>1. IInv => ExpiryInOrder
  BY DEF IInv
<1> QED
  BY <1>1, Invariance, PTL

\* A step of create takes away a prefix of the Map: expired entries only or, when
\* the limit of live ones is reached, the earlier half.
THEOREM CreateKeepsLatestHolds == Spec => CreateKeepsLatest
<1> DEFINE KeepsLatest ==
        \E d \in 0 .. Len(transcations) :
            /\ SubSeq(transcations', 1, Len(transcations') - 1)
                   = SubSeq(transcations, d + 1, Len(transcations))
            /\ \/ \A i \in 1 .. d : IsExpired(transcations[i])
               \/ /\ \A i \in DOMAIN transcations : ~ IsExpired(transcations[i])
                  /\ Len(transcations) = IdCountMax
                  /\ d = (IdCountMax + 1) \div 2
<1>1. ASSUME IInv, Creates
      PROVE  KeepsLatest
  <2> DEFINE m == MakeRoom(Current).map
  <2>1. Sound(Current) /\ Len(transcations) <= IdCountMax /\ now \in Nat
        /\ Current.map = transcations
    BY <1>1, SoundCurrent DEF Current
  <2>2. PICK d \in 0 .. Len(transcations) :
           /\ m = SubSeq(transcations, d + 1, Len(transcations))
           /\ \/ \A i \in 1 .. d : IsExpired(transcations[i])
              \/ /\ \A i \in DOMAIN transcations : ~ IsExpired(transcations[i])
                 /\ Len(transcations) = IdCountMax
                 /\ d = (IdCountMax + 1) \div 2
    BY <2>1, MakeRoomProperties
  <2>3. \E x : transcations' = Append(m, x)
    BY <1>1 DEF Creates, Create, Lend, FirstOf
  <2>4. m \in Seq(Entry) /\ transcations' \in Seq(Entry)
    <3>1. IInv'
      BY <1>1, CreateSound
    <3> QED
      BY <3>1, <2>1, MakeRoomProperties DEF IInv, TypeOK, Sound
  <2> HIDE DEF m
  <2>5. /\ Len(transcations') = Len(m) + 1
        /\ Len(m) \in Nat
        /\ \A i \in 1 .. Len(m) : transcations'[i] = m[i]
    BY <2>3, <2>4
  <2>6. SubSeq(transcations', 1, Len(transcations') - 1) = m
    <3> DEFINE q == transcations'
               s == SubSeq(q, 1, Len(m))
    <3> HIDE DEF q
    <3>1. /\ q \in Seq(Entry) /\ Len(q) = Len(m) + 1 /\ Len(m) \in Nat
          /\ \A i \in 1 .. Len(m) : q[i] = m[i]
      BY <2>4, <2>5 DEF q
    <3>2. \A i \in 1 .. Len(m) : q[i] \in Entry
      BY <3>1, ElementOfSeq
    <3>3. /\ s \in Seq(Entry)
          /\ Len(s) = IF 1 <= Len(m) THEN Len(m) - 1 + 1 ELSE 0
          /\ \A i \in 1 .. Len(m) - 1 + 1 : s[i] = q[1 + i - 1]
      BY <3>1, <3>2, SubSeqProperties
    <3> HIDE DEF s
    <3>4. Len(s) = Len(m) /\ \A i \in 1 .. Len(s) : s[i] = m[i]
      <4>1. Len(s) = Len(m)
        BY <3>1, <3>3
      <4>2. ASSUME NEW i \in 1 .. Len(m)
            PROVE  s[i] = m[i]
        <5>1. s[i] = q[1 + i - 1] /\ 1 + i - 1 = i
          BY <3>1, <3>3
        <5> QED
          BY <5>1, <3>1
      <4> QED
        BY <4>1, <4>2
    <3>5. s = m
      BY <2>4, <3>3, <3>4, SeqEqual
    <3>6. Len(q) - 1 = Len(m)
      BY <3>1
    <3> QED
      BY <3>5, <3>6 DEF s, q
  <2> QED
    BY <2>2, <2>6
<1>2. IInv /\ [Next]_tmVars => [Creates => KeepsLatest]_tmVars
  BY <1>1
<1> QED
  BY <1>2, Invariance, PTL DEF Spec, CreateKeepsLatest

=============================================================================
