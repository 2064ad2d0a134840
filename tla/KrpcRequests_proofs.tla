--------------------------- MODULE KrpcRequests_proofs ---------------------------
(***************************************************************************)
(* Proofs about KrpcRequests, for every pool, limit, lifetime and number   *)
(* of queries.  A step of a handler is made of parts: tids put back, a tid *)
(* lent to one more query, an answer entered.  The lemmas show that every  *)
(* part takes a manager and a log of queries that fit together to ones     *)
(* that do, so that the handlers, in whatever order they put the parts     *)
(* together, do so too.                                                    *)
(***************************************************************************)
EXTENDS KrpcRequests, TranscationManager_proofs

-----------------------------------------------------------------------------
(* A manager and a log of queries that fit together.                       *)

\* Query n is the last one of the log with its tid.
Latest(log, n) == \A m \in DOMAIN log : log[m].tid = log[n].tid => m <= n

\* Query n is the one that the entry e of the Map was made for.
MadeFor(log, e, n) == n \in DOMAIN log /\ log[n].tid = e.tid /\ Latest(log, n)

\* The entries of the Map m stand for open queries, in their order.
EntriesOpen(m, log) ==
    /\ \A i \in DOMAIN m : \E n \in DOMAIN log :
          MadeFor(log, m[i], n) /\ log[n].data = m[i].data /\ log[n].answers = <<>>
    /\ \A i, j \in DOMAIN m : \A k, n \in DOMAIN log :
          i < j /\ MadeFor(log, m[i], k) /\ MadeFor(log, m[j], n) => k < n

\* What a query was answered by is an answer to it or to an earlier query that had
\* the tid, and there is at most one.
AnswersFit(log) ==
    \A n \in DOMAIN log :
        /\ Len(log[n].answers) <= 1
        /\ \A k \in DOMAIN log[n].answers :
              LET m == log[n].answers[k]
              IN  m \in DOMAIN log /\ m <= n /\ log[m].tid = log[n].tid

\* The tids that are in the pool when #ID_COUNT_MAX are out.
Resting == Len(ShuffledPool) - IdCountMax

\* Between two queries with the same tid lie as many as always rest in the pool.
TidsRest(log) ==
    \A m, n \in DOMAIN log : m < n /\ log[m].tid = log[n].tid => n - m > Resting

\* A tid in the pool rests until that many queries were sent since its last one:
\* those that have been, and those that the tids before it are for.
Rested(pool, log) ==
    \A i \in DOMAIN pool : \A m \in DOMAIN log :
        log[m].tid = pool[i] => (Len(log) - m) + (i - 1) >= Resting

SoundNow(st) ==
    /\ Sound(st)
    /\ Len(st.map) <= IdCountMax
    /\ now \in Nat
    /\ \A i \in DOMAIN st.map : st.map[i].expiredAt <= now + ExpiredTime

Fits(st, log) ==
    /\ SoundNow(st)
    /\ log \in Seq(Request)
    /\ AnswersFit(log)
    /\ TidsRest(log)
    /\ EntriesOpen(st.map, log)
    /\ Rested(st.pool, log)

-----------------------------------------------------------------------------
(* Tids put back.                                                          *)

\* Every tid is in the pool or in the Map, so their lengths make up the number of tids.
LEMMA PoolSize ==
    ASSUME NEW st, Sound(st)
    PROVE  /\ Len(st.pool) \in Nat /\ Len(st.map) \in Nat /\ Len(ShuffledPool) \in Nat
           /\ Len(st.pool) + Len(st.map) = Len(ShuffledPool)
           /\ IsFiniteSet(TidsOf(st.map)) /\ Cardinality(TidsOf(st.map)) = Len(st.map)
<1> DEFINE p == st.pool
           m == st.map
           P == Range(p)
           M == TidsOf(m)
<1>1. /\ p \in Seq(Tids) /\ m \in Seq(Entry) /\ ShuffledPool \in Seq(Tids)
      /\ IsInjective(p) /\ IsInjective(ShuffledPool)
      /\ \A i, j \in DOMAIN m : m[i].tid = m[j].tid => i = j
      /\ P \cap M = {} /\ P \cup M = Tids
  BY PoolAssumption DEF Sound
<1>2. /\ Len(p) \in Nat /\ DOMAIN p = 1 .. Len(p)
      /\ Len(m) \in Nat /\ DOMAIN m = 1 .. Len(m)
      /\ Len(ShuffledPool) \in Nat /\ DOMAIN ShuffledPool = 1 .. Len(ShuffledPool)
  BY <1>1, LenProperties
<1>3. ASSUME NEW n \in Nat, NEW S, NEW f \in Bijection(1 .. n, S)
      PROVE  IsFiniteSet(S) /\ Cardinality(S) = n
  <2>1. ExistsBijection(1 .. n, S)
    BY <1>3 DEF ExistsBijection
  <2>2. IsFiniteSet(S)
    BY <2>1, FS_NatBijection
  <2> QED BY <2>1, <2>2, FS_CountingElements
<1>4. IsFiniteSet(P) /\ Cardinality(P) = Len(p)
  <2>1. p \in [1 .. Len(p) -> P]
    <3>1. p \in [1 .. Len(p) -> Tids]
      BY <1>1, LenProperties
    <3>2. \A i \in 1 .. Len(p) : p[i] \in P
      BY <1>2 DEF Range
    <3> QED BY <3>1, <3>2
  <2>2. \A x \in P : \E i \in 1 .. Len(p) : p[i] = x
    BY <1>2 DEF Range
  <2>3. \A i, j \in 1 .. Len(p) : p[i] = p[j] => i = j
    BY <1>1, <1>2 DEF IsInjective
  <2> HIDE DEF p, P
  <2>4. p \in Bijection(1 .. Len(p), P)
    BY <2>1, <2>2, <2>3 DEF Bijection, Injection, Surjection, IsInjective
  <2> QED BY <1>2, <1>3, <2>4
<1>5. IsFiniteSet(M) /\ Cardinality(M) = Len(m)
  <2> DEFINE f == [i \in 1 .. Len(m) |-> m[i].tid]
  <2>1. f \in Bijection(1 .. Len(m), M)
    BY <1>1, <1>2 DEF Bijection, Injection, Surjection, IsInjective, TidsOf
  <2> HIDE DEF f
  <2> QED BY <1>2, <1>3, <2>1
<1>6. Cardinality(Tids) = Len(ShuffledPool)
  <2>1. ShuffledPool \in Bijection(1 .. Len(ShuffledPool), Tids)
    BY <1>1, <1>2 DEF Bijection, Injection, Surjection, IsInjective, Range, Tids
  <2> QED BY <1>2, <1>3, <2>1
<1> HIDE DEF P, M
<1>7. Cardinality(P \cup M) = Cardinality(P) + Cardinality(M)
  <2>1. Cardinality(P \cup M) = Cardinality(P) + Cardinality(M) - Cardinality(P \cap M)
    BY <1>4, <1>5, FS_Union
  <2>2. Cardinality(P \cap M) = 0
    BY <1>1, FS_EmptySet
  <2> QED BY <1>2, <1>4, <1>5, <2>1, <2>2
<1> QED BY <1>1, <1>2, <1>4, <1>5, <1>6, <1>7 DEF M

\* The sequence "new" is what is left of "old" at the positions C.
LeftAt(new, old, C) ==
    \E f \in [DOMAIN new -> C] :
        /\ \A i \in DOMAIN new : new[i] = old[f[i]]
        /\ \A i, j \in DOMAIN new : i < j => f[i] < f[j]
        /\ \A k \in C : \E i \in DOMAIN new : f[i] = k

\* The sequence "new" is "old" with others after it.
Prolongs(new, old) ==
    Len(new) >= Len(old) /\ \A i \in 1 .. Len(old) : new[i] = old[i]

\* putbackTid leaves the others in the Map, in their order, and the pool with the
\* tids that are put back at its end.
LEMMA PutBackShape ==
    ASSUME NEW st, Sound(st), NEW K \in SUBSET DOMAIN st.map, NEW R, StrictTotalOn(R, K)
    PROVE  /\ LeftAt(PutBack(st, K, R).map, st.map, (DOMAIN st.map) \ K)
           /\ Prolongs(PutBack(st, K, R).pool, st.pool)
<1> DEFINE m == st.map
           C == (DOMAIN m) \ K
           L == Listed(C, ByPosition(m))
           n == Cardinality(C)
           back == TidsAt(m, K, R)
<1>1. PutBack(st, K, R).map = Kept(m, C) /\ PutBack(st, K, R).pool = st.pool \o back
  BY DEF PutBack
<1>2. m \in Seq(Entry) /\ st.pool \in Seq(Tids) /\ back \in Seq(Tids)
  BY TidsAtProperties DEF Sound
<1>3. /\ n \in Nat
      /\ Kept(m, C) \in Seq(Entry) /\ Len(Kept(m, C)) = n
      /\ \A k \in 1 .. n : L[k] \in C /\ Kept(m, C)[k] = m[L[k]]
      /\ \A k, l \in 1 .. n : k < l => L[k] < L[l]
      /\ \A i \in C : \E k \in 1 .. n : L[k] = i
  <2>1. C \in SUBSET DOMAIN m
    OBVIOUS
  <2> HIDE DEF m, C
  <2> QED BY <1>2, <2>1, KeptProperties
<1>4. DOMAIN Kept(m, C) = 1 .. n
  BY <1>3, LenProperties
<1>5. Len(st.pool \o back) >= Len(st.pool)
      /\ \A i \in 1 .. Len(st.pool) : (st.pool \o back)[i] = st.pool[i]
  <2> DEFINE p == st.pool
  <2>1. p \in Seq(Tids) /\ back \in Seq(Tids)
    BY <1>2
  <2> HIDE DEF p, back
  <2>2. Len(p) \in Nat /\ Len(back) \in Nat
    BY <2>1, LenProperties
  <2>3. /\ Len(p \o back) = Len(p) + Len(back)
        /\ \A i \in 1 .. Len(p) + Len(back) :
              (p \o back)[i] = IF i <= Len(p) THEN p[i] ELSE back[i - Len(p)]
    BY <2>1, ConcatProperties
  <2>4. \A i \in 1 .. Len(p) : i \in 1 .. Len(p) + Len(back) /\ i <= Len(p)
    BY <2>2
  <2>5. Len(p \o back) >= Len(p) /\ \A i \in 1 .. Len(p) : (p \o back)[i] = p[i]
    BY <2>2, <2>3, <2>4
  <2> QED BY <2>5 DEF p
<1> DEFINE f == [k \in 1 .. n |-> L[k]]
<1> HIDE DEF m, C, L, n, back
<1>6. /\ f \in [1 .. n -> C]
      /\ \A i \in 1 .. n : Kept(m, C)[i] = m[f[i]]
      /\ \A i, j \in 1 .. n : i < j => f[i] < f[j]
      /\ \A k \in C : \E i \in 1 .. n : f[i] = k
  BY <1>3
<1> HIDE DEF f
<1>7. LeftAt(Kept(m, C), m, C)
  <2> DEFINE new == Kept(m, C)
  <2>1. /\ f \in [DOMAIN new -> C]
        /\ \A i \in DOMAIN new : new[i] = m[f[i]]
        /\ \A i, j \in DOMAIN new : i < j => f[i] < f[j]
        /\ \A k \in C : \E i \in DOMAIN new : f[i] = k
    BY <1>4, <1>6
  <2> HIDE DEF new
  <2>2. LeftAt(new, m, C)
    BY <2>1 DEF LeftAt
  <2> QED BY <2>2 DEF new
<1> QED BY <1>1, <1>5, <1>7 DEF m, C, Prolongs

\* Tids put back fit as before: the entries left are in their order, and a tid that
\* joins the pool has at least as many before it as must rest.
LEMMA PutBackFits ==
    ASSUME NEW st, NEW log, Fits(st, log),
           NEW K \in SUBSET DOMAIN st.map, NEW R, StrictTotalOn(R, K)
    PROVE  Fits(PutBack(st, K, R), log)
<1> DEFINE done == PutBack(st, K, R)
<1>1. Sound(st) /\ st.map \in Seq(Entry) /\ st.pool \in Seq(Tids) /\ log \in Seq(Request)
  BY DEF Fits, SoundNow, Sound
<1>2. /\ Sound(done) /\ Cardinality(K) \in Nat
      /\ Len(done.map) = Len(st.map) - Cardinality(K)
      /\ Range(done.map) \subseteq Range(st.map)
  BY <1>1, PutBackSound
<1>3. LeftAt(done.map, st.map, (DOMAIN st.map) \ K) /\ Prolongs(done.pool, st.pool)
  BY <1>1, PutBackShape
<1>4. PICK f \in [DOMAIN done.map -> (DOMAIN st.map) \ K] :
         /\ \A i \in DOMAIN done.map : done.map[i] = st.map[f[i]]
         /\ \A i, j \in DOMAIN done.map : i < j => f[i] < f[j]
  BY <1>3 DEF LeftAt
<1>5. /\ Len(st.pool) \in Nat /\ Len(st.map) \in Nat /\ Len(ShuffledPool) \in Nat
      /\ Len(st.pool) + Len(st.map) = Len(ShuffledPool)
  BY <1>1, PoolSize
<1> HIDE DEF done
<1>6. SoundNow(done)
  <2>1. Len(done.map) <= IdCountMax
    BY <1>2, <1>5, LimitAssumption DEF Fits, SoundNow
  <2>2. ASSUME NEW i \in DOMAIN done.map
        PROVE  done.map[i].expiredAt <= now + ExpiredTime
    BY <1>4 DEF Fits, SoundNow
  <2> QED BY <1>2, <2>1, <2>2 DEF Fits, SoundNow
<1>7. EntriesOpen(done.map, log)
  <2>1. EntriesOpen(st.map, log)
    BY DEF Fits
  <2>2. ASSUME NEW i \in DOMAIN done.map
        PROVE  \E n \in DOMAIN log : /\ MadeFor(log, done.map[i], n)
                                     /\ log[n].data = done.map[i].data /\ log[n].answers = <<>>
    BY <1>4, <2>1 DEF EntriesOpen
  <2>3. ASSUME NEW i \in DOMAIN done.map, NEW j \in DOMAIN done.map,
               NEW k \in DOMAIN log, NEW n \in DOMAIN log,
               i < j, MadeFor(log, done.map[i], k), MadeFor(log, done.map[j], n)
        PROVE  k < n
    BY <1>4, <2>1, <2>3 DEF EntriesOpen
  <2> QED BY <2>2, <2>3 DEF EntriesOpen
<1>8. Rested(done.pool, log)
  <2> SUFFICES ASSUME NEW i \in DOMAIN done.pool, NEW m \in DOMAIN log,
                      log[m].tid = done.pool[i]
               PROVE  (Len(log) - m) + (i - 1) >= Resting
    BY DEF Rested
  <2>1. DOMAIN st.pool = 1 .. Len(st.pool) /\ DOMAIN done.pool = 1 .. Len(done.pool)
        /\ DOMAIN log = 1 .. Len(log) /\ Len(log) \in Nat /\ Len(done.pool) \in Nat
    BY <1>1, <1>2, LenProperties DEF Sound
  <2>2. CASE i \in 1 .. Len(st.pool)
    BY <1>3, <2>1, <2>2 DEF Fits, Rested, Prolongs
  <2>3. CASE i \notin 1 .. Len(st.pool)
    <3>1. i - 1 >= Len(st.pool) /\ Len(log) - m >= 0 /\ i \in Nat /\ m \in Nat
      BY <1>5, <2>1, <2>3
    <3>2. Len(st.map) <= IdCountMax /\ IdCountMax \in Nat
      BY LimitAssumption, <1>5 DEF Fits, SoundNow
    <3> DEFINE x == Len(st.pool)
               y == Len(st.map)
               z == Len(ShuffledPool)
               l == Len(log)
    <3>3. /\ x \in Nat /\ y \in Nat /\ z \in Nat /\ l \in Nat /\ IdCountMax \in Nat
          /\ x + y = z /\ y <= IdCountMax
          /\ i \in Nat /\ m \in Nat /\ i - 1 >= x /\ l - m >= 0
      BY <1>5, <2>1, <3>1, <3>2
    <3> HIDE DEF x, y, z, l
    <3>4. (l - m) + (i - 1) >= z - IdCountMax
      BY <3>3
    <3> QED BY <3>4 DEF Resting, z, l
  <2> QED BY <2>2, <2>3
<1> QED BY <1>6, <1>7, <1>8 DEF Fits, done

-----------------------------------------------------------------------------
(* A tid lent.                                                             *)

\* borrowTid puts nothing back but by putbackTid.
LEMMA MakeRoomFits ==
    ASSUME NEW st, NEW log, Fits(st, log)
    PROVE  Fits(MakeRoom(st), log)
<1> DEFINE cleared == IF 2 * Len(st.map) > IdCountMax THEN ClearExpiredTid(st) ELSE st
<1>1. Fits(cleared, log)
  <2> DEFINE K == {i \in DOMAIN st.map : IsExpired(st.map[i])}
  <2>1. K \in SUBSET DOMAIN st.map /\ st.map \in Seq(Entry)
    BY DEF Fits, SoundNow, Sound
  <2>2. ClearExpiredTid(st) = PutBack(st, K, ByPosition(st.map))
    BY DEF ClearExpiredTid
  <2> HIDE DEF K
  <2>3. StrictTotalOn(ByPosition(st.map), K)
    BY <2>1, OrdersAreTotal
  <2> QED BY <2>1, <2>2, <2>3, PutBackFits
<1> HIDE DEF cleared
<1>2. Fits(ForcePutback(cleared), log)
  <2>1. EarlierHalf(cleared.map) \in SUBSET DOMAIN cleared.map /\ cleared.map \in Seq(Entry)
    BY <1>1 DEF Fits, SoundNow, Sound, EarlierHalf
  <2>2. StrictTotalOn(ByExpiry(cleared.map), EarlierHalf(cleared.map))
    BY <2>1, OrdersAreTotal
  <2> QED BY <1>1, <2>1, <2>2, PutBackFits DEF ForcePutback
<1>3. MakeRoom(st) = IF Len(cleared.map) >= IdCountMax THEN ForcePutback(cleared) ELSE cleared
  BY DEF MakeRoom, cleared
<1> QED BY <1>1, <1>2, <1>3

\* What is lent is the first tid of the pool that borrowTid made room in.
LEMMA LendShape ==
    ASSUME NEW st, SoundNow(st), NEW data \in Data
    PROVE  LET room == MakeRoom(st)
               lent == Lend(st, data)
           IN  /\ Sound(room) /\ Len(room.map) < IdCountMax
               /\ room.pool \in Seq(Tids) /\ room.pool # <<>>
               /\ lent.tid = Head(room.pool) /\ lent.pool = Tail(room.pool)
               /\ \E e \in Entry : /\ e.tid = lent.tid /\ e.data = data
                                   /\ lent.map = Append(room.map, e)
               /\ lent.tid \in Tids /\ lent.tid \notin TidsOf(room.map)
<1> DEFINE room == MakeRoom(st)
           p == room.pool
           e == [tid |-> Head(p), expiredAt |-> now + ExpiredTime, data |-> data]
<1>1. Sound(st) /\ Len(st.map) <= IdCountMax /\ now \in Nat
  BY DEF SoundNow
<1>2. Sound(room) /\ p \in Seq(Tids) /\ room.map \in Seq(Entry)
  BY <1>1, MakeRoomProperties DEF Sound
<1>3. PICK d \in 0 .. Len(st.map) :
         room.map = SubSeq(st.map, d + 1, Len(st.map)) /\ Len(st.map) - d < IdCountMax
  BY <1>1, MakeRoomProperties
<1> HIDE DEF room, p
<1>4. Len(room.map) < IdCountMax
  <2> DEFINE m == st.map
             n == Len(m)
  <2>1. m \in Seq(Entry) /\ n \in Nat /\ DOMAIN m = 1 .. n
    BY <1>1, LenProperties DEF Sound
  <2>2. \A i \in d + 1 .. n : m[i] \in Entry
    BY <2>1, ElementOfSeq
  <2>3. d \in 0 .. n /\ d + 1 \in Int /\ n \in Int /\ n - d < IdCountMax
        /\ room.map = SubSeq(m, d + 1, n)
    BY <1>3, <2>1
  <2> HIDE DEF m, n
  <2>4. Len(room.map) = IF d + 1 <= n THEN n - (d + 1) + 1 ELSE 0
    BY <2>2, <2>3, SubSeqProperties
  <2> QED BY <2>1, <2>3, <2>4
<1>5. p # <<>>
  BY <1>2, <1>4, PoolNotEmpty DEF p
<1>6. Head(p) \in Tids /\ Head(p) \in Range(p)
  <2>1. Head(p) \in Tids /\ Len(p) \in Nat \ {0} /\ Head(p) = p[1] /\ DOMAIN p = 1 .. Len(p)
    BY <1>2, <1>5, HeadTailProperties, LenProperties, EmptySeq
  <2> QED BY <2>1 DEF Range
<1>7. Head(p) \notin TidsOf(room.map)
  BY <1>2, <1>6 DEF Sound, p
<1>8. Lend(st, data) = [tid |-> Head(p), pool |-> Tail(p), map |-> Append(room.map, e)]
  BY <1>5 DEF Lend, FirstOf, room, p
<1>9. e \in Entry /\ e.tid = Head(p) /\ e.data = data
  BY <1>1, <1>6, TimeAssumption DEF Entry
<1> HIDE DEF e
<1>10. /\ Lend(st, data).tid = Head(p) /\ Lend(st, data).pool = Tail(p)
       /\ Lend(st, data).map = Append(room.map, e)
  BY <1>8
<1> QED BY <1>2, <1>4, <1>5, <1>6, <1>7, <1>9, <1>10 DEF room, p

\* A query more in the log.
LEMMA LoggedShape ==
    ASSUME NEW log \in Seq(Request), NEW tid \in Tids, NEW data \in Data
    PROVE  LET new == Logged(log, tid, data) IN
           /\ new \in Seq(Request)
           /\ Len(log) \in Nat /\ Len(new) = Len(log) + 1
           /\ DOMAIN log = 1 .. Len(log) /\ DOMAIN new = 1 .. Len(log) + 1
           /\ \A n \in 1 .. Len(log) : new[n] = log[n]
           /\ new[Len(log) + 1] = [tid |-> tid, data |-> data, answers |-> <<>>, left |-> 0]
<1> DEFINE q == [tid |-> tid, data |-> data, answers |-> <<>>, left |-> 0]
<1>1. q \in Request
  BY LookupsAssumption DEF Request
<1>2. Logged(log, tid, data) = Append(log, q)
  BY DEF Logged
<1> HIDE DEF q
<1>3. /\ Append(log, q) \in Seq(Request) /\ Len(log) \in Nat
      /\ Len(Append(log, q)) = Len(log) + 1
      /\ \A n \in 1 .. Len(log) : Append(log, q)[n] = log[n]
      /\ Append(log, q)[Len(log) + 1] = q
  BY <1>1, AppendProperties, LenProperties
<1>4. DOMAIN log = 1 .. Len(log) /\ DOMAIN Append(log, q) = 1 .. Len(log) + 1
  BY <1>3, LenProperties
<1> QED BY <1>2, <1>3, <1>4 DEF q

\* A query more with a tid that no entry has leaves the entries with theirs.
LEMMA LoggedLatest ==
    ASSUME NEW log \in Seq(Request), NEW tid \in Tids, NEW data \in Data
    PROVE  LET new == Logged(log, tid, data) IN
           /\ Latest(new, Len(log) + 1)
           /\ \A n \in DOMAIN log : Latest(new, n) <=> Latest(log, n) /\ log[n].tid # tid
<1> DEFINE new == Logged(log, tid, data)
           N == Len(log) + 1
<1>1. /\ N - 1 \in Nat /\ DOMAIN log = 1 .. N - 1 /\ DOMAIN new = 1 .. N
      /\ \A n \in 1 .. N - 1 : new[n] = log[n]
      /\ new[N].tid = tid /\ N \in Nat
  <2> HIDE DEF new
  <2>1. /\ Len(log) \in Nat
        /\ DOMAIN log = 1 .. Len(log) /\ DOMAIN new = 1 .. Len(log) + 1
        /\ \A n \in 1 .. Len(log) : new[n] = log[n]
        /\ new[Len(log) + 1] = [tid |-> tid, data |-> data, answers |-> <<>>, left |-> 0]
    BY LoggedShape DEF new
  <2>2. N - 1 = Len(log) /\ N \in Nat /\ new[N].tid = tid
    BY <2>1
  <2> QED BY <2>1, <2>2
<1> HIDE DEF new, N
<1>2. Latest(new, N)
  BY <1>1 DEF Latest
<1>3. ASSUME NEW n \in DOMAIN log
      PROVE  Latest(new, n) <=> Latest(log, n) /\ log[n].tid # tid
  <2>1. n \in 1 .. N - 1 /\ new[n] = log[n] /\ n < N
    BY <1>1
  <2>2. \A m \in 1 .. N : m = N \/ m \in 1 .. N - 1
    BY <1>1
  <2>3. ASSUME Latest(new, n) PROVE Latest(log, n) /\ log[n].tid # tid
    <3>1. \A m \in 1 .. N : new[m].tid = new[n].tid => m <= n
      BY <1>1, <2>3 DEF Latest
    <3>2. new[N].tid # new[n].tid
      BY <1>1, <2>1, <3>1
    <3>3. \A m \in 1 .. N - 1 : m \in 1 .. N
      BY <1>1
    <3> QED BY <1>1, <2>1, <3>1, <3>2, <3>3 DEF Latest
  <2>4. ASSUME Latest(log, n), log[n].tid # tid PROVE Latest(new, n)
    BY <1>1, <2>1, <2>2, <2>4 DEF Latest
  <2> QED BY <2>3, <2>4
<1> QED BY <1>2, <1>3 DEF new, N

\* A query more fits: its tid has rested, and every tid behind it in the pool is one
\* place nearer to its turn, with one query more since its last one.
LEMMA LendFits ==
    ASSUME NEW st, NEW log, Fits(st, log), NEW data \in Data
    PROVE  LET lent == Lend(st, data) IN
           lent.tid \in Tids /\ Fits(lent, Logged(log, lent.tid, data))
<1> DEFINE room == MakeRoom(st)
           lent == Lend(st, data)
           p == room.pool
           t == lent.tid
           new == Logged(log, t, data)
           l == Len(log)
<1>1. Fits(room, log) /\ SoundNow(st) /\ log \in Seq(Request)
  BY MakeRoomFits DEF Fits
<1> HIDE DEF room
<1>2. /\ Sound(room) /\ p \in Seq(Tids) /\ p # <<>>
      /\ t = Head(p) /\ lent.pool = Tail(p)
      /\ t \in Tids /\ t \notin TidsOf(room.map)
  BY <1>1, LendShape DEF room
<1>3. PICK e \in Entry : e.tid = t /\ e.data = data /\ lent.map = Append(room.map, e)
  BY <1>1, LendShape DEF room
<1>4. SoundNow(lent)
  BY <1>1, LendSound DEF SoundNow
<1> HIDE DEF lent, t
<1>5. /\ new \in Seq(Request) /\ l \in Nat /\ Len(new) = l + 1
      /\ DOMAIN log = 1 .. l /\ DOMAIN new = 1 .. l + 1
      /\ \A n \in 1 .. l : new[n] = log[n]
      /\ new[l + 1] = [tid |-> t, data |-> data, answers |-> <<>>, left |-> 0]
  BY <1>1, <1>2, LoggedShape
<1>6. /\ Latest(new, l + 1)
      /\ \A n \in DOMAIN log : Latest(new, n) <=> Latest(log, n) /\ log[n].tid # t
  BY <1>1, <1>2, LoggedLatest
<1>7. /\ Len(p) \in Nat \ {0} /\ DOMAIN p = 1 .. Len(p) /\ t = p[1]
      /\ DOMAIN Tail(p) = 1 .. Len(p) - 1
      /\ \A i \in 1 .. Len(p) - 1 : Tail(p)[i] = p[i + 1]
  BY <1>2, HeadTailProperties, LenProperties, EmptySeq
<1>8. /\ room.map \in Seq(Entry) /\ Len(room.map) \in Nat
      /\ DOMAIN room.map = 1 .. Len(room.map)
      /\ DOMAIN lent.map = 1 .. Len(room.map) + 1
      /\ \A i \in 1 .. Len(room.map) : lent.map[i] = room.map[i]
      /\ lent.map[Len(room.map) + 1] = e
  BY <1>2, <1>3, AppendProperties, LenProperties DEF Sound
<1> HIDE DEF new, p, l
<1>9. \A n \in 1 .. l + 1 : n \in 1 .. l \/ n = l + 1
  BY <1>5
<1>10. AnswersFit(new)
  <2> SUFFICES ASSUME NEW n \in DOMAIN new
               PROVE  /\ Len(new[n].answers) <= 1
                      /\ \A k \in DOMAIN new[n].answers :
                            LET m == new[n].answers[k]
                            IN  m \in DOMAIN new /\ m <= n /\ new[m].tid = new[n].tid
    BY DEF AnswersFit
  <2>1. CASE n \in 1 .. l
    <3>1. new[n] = log[n] /\ n \in DOMAIN log
      BY <1>5, <2>1
    <3>2. /\ Len(log[n].answers) <= 1
          /\ \A k \in DOMAIN log[n].answers :
                LET m == log[n].answers[k]
                IN  m \in DOMAIN log /\ m <= n /\ log[m].tid = log[n].tid
      BY <3>1 DEF Fits, AnswersFit
    <3>3. \A m \in DOMAIN log : m \in DOMAIN new /\ new[m] = log[m]
      BY <1>5
    <3> QED BY <3>1, <3>2, <3>3
  <2>2. CASE n = l + 1
    <3>1. new[n].answers = <<>>
      BY <1>5, <2>2
    <3> QED BY <3>1
  <2> QED BY <1>5, <1>9, <2>1, <2>2
<1>11. TidsRest(new)
  <2> SUFFICES ASSUME NEW m \in 1 .. l + 1, NEW n \in 1 .. l + 1, m < n, new[m].tid = new[n].tid
               PROVE  n - m > Resting
    BY <1>5 DEF TidsRest
  <2>1. m \in 1 .. l /\ new[m] = log[m]
    BY <1>5
  <2>2. CASE n \in 1 .. l
    BY <1>5, <2>1, <2>2 DEF Fits, TidsRest
  <2>3. CASE n = l + 1
    <3>1. log[m].tid = p[1] /\ 1 \in DOMAIN p
      BY <1>5, <1>7, <2>1, <2>3
    <3>2. (l - m) + (1 - 1) >= Resting
      BY <1>1, <1>5, <2>1, <3>1 DEF Fits, Rested, l, p
    <3>3. Resting \in Int
      BY PoolAssumption, LimitAssumption, LenProperties DEF Resting
    <3> QED BY <1>5, <2>1, <2>3, <3>2, <3>3
  <2> QED BY <1>9, <2>2, <2>3
<1>12. EntriesOpen(lent.map, new)
  <2>1. EntriesOpen(room.map, log)
    BY <1>1 DEF Fits
  <2>2. ASSUME NEW i \in 1 .. Len(room.map), NEW n \in 1 .. l + 1
        PROVE  MadeFor(new, lent.map[i], n) <=> n \in DOMAIN log /\ MadeFor(log, room.map[i], n)
    <3>1. room.map[i].tid # t
      BY <1>2, <1>8 DEF TidsOf
    <3>2. n = l + 1 => new[n].tid = t
      BY <1>5
    <3>3. n \in 1 .. l => new[n] = log[n] /\ n \in DOMAIN log
      BY <1>5
    <3> QED BY <1>5, <1>6, <1>8, <1>9, <3>1, <3>2, <3>3 DEF MadeFor
  <2>3. ASSUME NEW n \in 1 .. l + 1
        PROVE  MadeFor(new, e, n) <=> n = l + 1
    <3>1. n \in 1 .. l => ~ (Latest(new, n) /\ new[n].tid = t)
      BY <1>5, <1>6
    <3>2. n = l + 1 => new[n].tid = t /\ n \in DOMAIN new
      BY <1>5
    <3> QED BY <1>3, <1>6, <1>9, <3>1, <3>2 DEF MadeFor
  <2>4. ASSUME NEW i \in DOMAIN lent.map
        PROVE  \E n \in DOMAIN new : /\ MadeFor(new, lent.map[i], n)
                                     /\ new[n].data = lent.map[i].data /\ new[n].answers = <<>>
    <3>1. CASE i \in 1 .. Len(room.map)
      <4>1. PICK n \in DOMAIN log : /\ MadeFor(log, room.map[i], n)
                                    /\ log[n].data = room.map[i].data /\ log[n].answers = <<>>
        BY <1>8, <2>1, <3>1 DEF EntriesOpen
      <4>2. n \in DOMAIN new /\ new[n] = log[n] /\ n \in 1 .. l + 1
        BY <1>5
      <4> QED BY <1>8, <2>2, <3>1, <4>1, <4>2
    <3>2. CASE i = Len(room.map) + 1
      <4>1. /\ l + 1 \in DOMAIN new /\ l + 1 \in 1 .. l + 1
            /\ new[l + 1].data = data /\ new[l + 1].answers = <<>>
        BY <1>5
      <4>2. MadeFor(new, lent.map[i], l + 1)
        BY <1>8, <2>3, <3>2, <4>1
      <4> QED BY <1>3, <1>8, <3>2, <4>1, <4>2
    <3> QED BY <1>8, <3>1, <3>2
  <2>5. ASSUME NEW i \in DOMAIN lent.map, NEW j \in DOMAIN lent.map,
               NEW k \in DOMAIN new, NEW n \in DOMAIN new,
               i < j, MadeFor(new, lent.map[i], k), MadeFor(new, lent.map[j], n)
        PROVE  k < n
    <3>1. i \in 1 .. Len(room.map) /\ k \in 1 .. l + 1 /\ n \in 1 .. l + 1
      BY <1>5, <1>8, <2>5
    <3>2. k \in DOMAIN log /\ MadeFor(log, room.map[i], k)
      BY <2>2, <2>5, <3>1
    <3>3. CASE j \in 1 .. Len(room.map)
      <4>1. n \in DOMAIN log /\ MadeFor(log, room.map[j], n)
        BY <2>2, <2>5, <3>1, <3>3
      <4> QED BY <1>8, <2>1, <2>5, <3>1, <3>2, <3>3, <4>1 DEF EntriesOpen
    <3>4. CASE j = Len(room.map) + 1
      <4>1. n = l + 1
        BY <1>8, <2>3, <2>5, <3>1, <3>4
      <4> QED BY <1>5, <3>2, <4>1
    <3> QED BY <1>8, <3>3, <3>4
  <2> QED BY <2>4, <2>5 DEF EntriesOpen
<1>13. Rested(lent.pool, new)
  <2> SUFFICES ASSUME NEW i \in 1 .. Len(p) - 1, NEW m \in 1 .. l + 1,
                      new[m].tid = Tail(p)[i]
               PROVE  (Len(new) - m) + (i - 1) >= Resting
    BY <1>2, <1>5, <1>7 DEF Rested
  <2>1. i + 1 \in DOMAIN p /\ Tail(p)[i] = p[i + 1]
    BY <1>7
  <2>2. m # l + 1
    <3>1. \A a, b \in DOMAIN p : p[a] = p[b] => a = b
      BY <1>2 DEF Sound, IsInjective, p
    <3>2. p[1] # p[i + 1]
      BY <1>7, <2>1, <3>1
    <3> QED BY <1>5, <1>7, <2>1, <3>2
  <2>3. m \in 1 .. l /\ log[m].tid = p[i + 1] /\ m \in DOMAIN log
    BY <1>5, <1>9, <2>1, <2>2
  <2>4. (l - m) + ((i + 1) - 1) >= Resting
    BY <1>1, <2>1, <2>3 DEF Fits, Rested, l, p
  <2>5. (l - m) + ((i + 1) - 1) = (Len(new) - m) + (i - 1)
    BY <1>5, <1>7, <2>3
  <2> QED BY <2>4, <2>5
<1> QED BY <1>2, <1>4, <1>5, <1>10, <1>11, <1>12, <1>13 DEF Fits, new, t, lent

-----------------------------------------------------------------------------
(* An answer entered.                                                      *)

\* The logs differ in nothing but the answers and what handlers have left to do.
SameQueries(log, new) ==
    /\ log \in Seq(Request) /\ new \in Seq(Request) /\ DOMAIN new = DOMAIN log
    /\ \A n \in DOMAIN log : new[n].tid = log[n].tid /\ new[n].data = log[n].data

\* Besides, query h alone got an answer, its first, to query n.
EntersAnswer(log, new, h, n) ==
    /\ SameQueries(log, new)
    /\ new[h].answers = <<n>>
    /\ \A k \in DOMAIN log : k # h => new[k].answers = log[k].answers

\* What fits a log fits any other log of the same queries.
LEMMA SameQueriesFit ==
    ASSUME NEW log, NEW new, SameQueries(log, new)
    PROVE  /\ \A n \in DOMAIN log : Latest(new, n) <=> Latest(log, n)
           /\ \A e, n : MadeFor(new, e, n) <=> MadeFor(log, e, n)
           /\ TidsRest(log) => TidsRest(new)
           /\ \A pool : Rested(pool, log) => Rested(pool, new)
<1>1. /\ DOMAIN new = DOMAIN log
      /\ \A n \in DOMAIN log : new[n].tid = log[n].tid
  BY DEF SameQueries
<1>2. Len(new) = Len(log)
  <2>1. /\ DOMAIN log = 1 .. Len(log) /\ DOMAIN new = 1 .. Len(new)
        /\ Len(log) \in Nat /\ Len(new) \in Nat
    BY LenProperties DEF SameQueries
  <2> QED BY <1>1, <2>1
<1>3. \A n \in DOMAIN log : Latest(new, n) <=> Latest(log, n)
  BY <1>1 DEF Latest
<1> QED BY <1>1, <1>2, <1>3 DEF MadeFor, TidsRest, Rested

\* A query whose handler goes on.
LEMMA LeftFits ==
    ASSUME NEW st, NEW log, Fits(st, log), NEW new, SameQueries(log, new),
           \A k \in DOMAIN log : new[k].answers = log[k].answers
    PROVE  Fits(st, new)
<1>1. /\ \A e, n : MadeFor(new, e, n) <=> MadeFor(log, e, n)
      /\ TidsRest(new) /\ Rested(st.pool, new)
  BY SameQueriesFit DEF Fits
<1>2. /\ DOMAIN new = DOMAIN log /\ new \in Seq(Request)
      /\ \A n \in DOMAIN log : new[n].tid = log[n].tid /\ new[n].data = log[n].data
  BY DEF SameQueries
<1>3. AnswersFit(new)
  BY <1>2 DEF Fits, AnswersFit
<1>4. EntriesOpen(st.map, new)
  BY <1>1, <1>2 DEF Fits, EntriesOpen
<1> QED BY <1>1, <1>2, <1>3, <1>4 DEF Fits

\* An answer for the tid of an open query: the tid is put back, and the entries left
\* are those of other queries, which are open still.
LEMMA AnswerFits ==
    ASSUME NEW st, NEW log, Fits(st, log),
           NEW h \in DOMAIN log, Latest(log, h),
           NEW n \in DOMAIN log, n <= h, log[n].tid = log[h].tid,
           NEW new, EntersAnswer(log, new, h, n)
    PROVE  Fits(Returned(st, log[h].tid), new)
<1> DEFINE tid == log[h].tid
           K == {i \in DOMAIN st.map : st.map[i].tid = tid}
           done == Returned(st, tid)
<1>1. st.map \in Seq(Entry) /\ K \in SUBSET DOMAIN st.map /\ Sound(st)
  BY DEF Fits, SoundNow, Sound
<1>2. done = PutBack(st, K, ByPosition(st.map))
  BY DEF Returned
<1> HIDE DEF K
<1>3. StrictTotalOn(ByPosition(st.map), K)
  BY <1>1, OrdersAreTotal
<1>4. Fits(done, log) /\ LeftAt(done.map, st.map, (DOMAIN st.map) \ K)
  BY <1>1, <1>2, <1>3, PutBackFits, PutBackShape
<1>5. PICK f \in [DOMAIN done.map -> (DOMAIN st.map) \ K] :
         \A i \in DOMAIN done.map : done.map[i] = st.map[f[i]]
  BY <1>4 DEF LeftAt
<1>6. \A i \in DOMAIN done.map : done.map[i].tid # tid
  BY <1>5 DEF K
<1> HIDE DEF done
<1>7. /\ SameQueries(log, new) /\ new[h].answers = <<n>>
      /\ \A k \in DOMAIN log : k # h => new[k].answers = log[k].answers
      /\ DOMAIN new = DOMAIN log /\ new \in Seq(Request)
      /\ \A k \in DOMAIN log : new[k].tid = log[k].tid /\ new[k].data = log[k].data
  BY DEF EntersAnswer, SameQueries
<1>8. /\ \A e, k : MadeFor(new, e, k) <=> MadeFor(log, e, k)
      /\ TidsRest(new) /\ Rested(done.pool, new)
  BY <1>4, <1>7, SameQueriesFit DEF Fits
<1>9. AnswersFit(new)
  <2> SUFFICES ASSUME NEW q \in DOMAIN log
               PROVE  /\ Len(new[q].answers) <= 1
                      /\ \A k \in DOMAIN new[q].answers :
                            LET m == new[q].answers[k]
                            IN  m \in DOMAIN new /\ m <= q /\ new[m].tid = new[q].tid
    BY <1>7 DEF AnswersFit
  <2>1. CASE q = h
    <3>1. Len(<<n>>) = 1 /\ DOMAIN <<n>> = 1 .. 1 /\ <<n>>[1] = n
      OBVIOUS
    <3>2. n \in DOMAIN new /\ n <= q /\ new[n].tid = new[q].tid
      BY <1>7, <2>1
    <3>3. \A k \in DOMAIN new[q].answers : new[q].answers[k] = n
      <4>1. \A k \in 1 .. 1 : k = 1
        OBVIOUS
      <4> QED BY <1>7, <2>1, <3>1, <4>1
    <3>4. Len(new[q].answers) <= 1
      <4>1. new[q].answers = <<n>> /\ Len(<<n>>) <= 1
        BY <1>7, <2>1
      <4> HIDE DEF done
      <4> QED BY <4>1, Zenon
    <3> QED BY <3>2, <3>3, <3>4
  <2>2. CASE q # h
    <3>1. /\ Len(log[q].answers) <= 1
          /\ \A k \in DOMAIN log[q].answers :
                LET m == log[q].answers[k]
                IN  m \in DOMAIN log /\ m <= q /\ log[m].tid = log[q].tid
      BY DEF Fits, AnswersFit
    <3> QED BY <1>7, <2>2, <3>1
  <2> QED BY <2>1, <2>2
<1>10. EntriesOpen(done.map, new)
  <2>1. EntriesOpen(done.map, log)
    BY <1>4 DEF Fits
  <2>2. ASSUME NEW i \in DOMAIN done.map
        PROVE  \E k \in DOMAIN new : /\ MadeFor(new, done.map[i], k)
                                     /\ new[k].data = done.map[i].data /\ new[k].answers = <<>>
    <3>1. PICK k \in DOMAIN log : /\ MadeFor(log, done.map[i], k)
                                  /\ log[k].data = done.map[i].data /\ log[k].answers = <<>>
      BY <2>1 DEF EntriesOpen
    <3>2. k # h
      BY <1>6, <3>1 DEF MadeFor
    <3> QED BY <1>7, <1>8, <3>1, <3>2
  <2> QED BY <1>7, <1>8, <2>1, <2>2 DEF EntriesOpen
<1> QED BY <1>4, <1>7, <1>8, <1>9, <1>10 DEF Fits, done

\* The query that holds a tid is the last one with it.
LEMMA HolderIs ==
    ASSUME requests \in Seq(Request), NEW n \in DOMAIN requests, Latest(requests, n)
    PROVE  Holder(requests[n].tid) = n
<1>1. \A m \in DOMAIN requests : m \in Nat
  BY LenProperties
<1>2. \A k \in DOMAIN requests :
         (/\ requests[k].tid = requests[n].tid
          /\ \A m \in DOMAIN requests : requests[m].tid = requests[n].tid => m <= k) => k = n
  BY <1>1 DEF Latest
<1> QED BY <1>2 DEF Holder, Latest

\* A valid tid is held by an open query, whose request is the one in its entry.
LEMMA ValidIsOpen ==
    ASSUME Fits(Current, requests), NEW tid, IsValid(tid)
    PROVE  LET h == Holder(tid) IN
           /\ h \in DOMAIN requests /\ requests[h].tid = tid /\ Latest(requests, h)
           /\ requests[h].answers = <<>> /\ requests[h].data = Attached(tid)
<1>1. /\ requests \in Seq(Request) /\ EntriesOpen(transcations, requests)
      /\ \A i, j \in DOMAIN transcations : transcations[i].tid = transcations[j].tid => i = j
  BY DEF Fits, SoundNow, Sound, Current
<1>2. PICK i \in DOMAIN transcations : transcations[i].tid = tid
  BY DEF IsValid
<1>3. PICK n \in DOMAIN requests : /\ MadeFor(requests, transcations[i], n)
                                   /\ requests[n].data = transcations[i].data
                                   /\ requests[n].answers = <<>>
  BY <1>1 DEF EntriesOpen
<1>4. requests[n].tid = tid /\ Latest(requests, n)
  BY <1>2, <1>3 DEF MadeFor
<1>5. Holder(tid) = n
  BY <1>1, <1>4, HolderIs
<1>6. Attached(tid) = transcations[i].data
  <2>1. (CHOOSE j \in DOMAIN transcations : transcations[j].tid = tid) = i
    BY <1>1, <1>2
  <2> QED BY <2>1 DEF Attached
<1> QED BY <1>3, <1>4, <1>5, <1>6

-----------------------------------------------------------------------------
(* The specification.                                                      *)

\* The inductive invariant: the manager and the log of queries fit together.
KrInv == Fits(Current, requests)

\* At first nothing is lent, and no query was sent.
LEMMA KrInitFits == ASSUME KrInit PROVE KrInv
<1>1. IInv /\ tidPool = ShuffledPool /\ transcations = <<>> /\ requests = <<>>
  BY InitSound DEF KrInit, Init
<1>2. SoundNow(Current)
  BY <1>1, SoundCurrent DEF SoundNow, Current
<1>3. requests \in Seq(Request) /\ DOMAIN requests = {} /\ DOMAIN Current.map = {}
  BY <1>1 DEF Current
<1>4. AnswersFit(requests) /\ TidsRest(requests)
      /\ EntriesOpen(Current.map, requests) /\ Rested(Current.pool, requests)
  BY <1>3 DEF AnswersFit, TidsRest, EntriesOpen, Rested
<1> QED BY <1>2, <1>3, <1>4 DEF KrInv, Fits

\* A query sent from a manager and a log that fit.
LEMMA SendFromFits ==
    ASSUME NEW st, NEW log, Fits(st, log), NEW data \in Data, SendFrom(st, log, data),
           UNCHANGED now
    PROVE  KrInv'
<1> DEFINE lent == Lend(st, data)
           new == Logged(log, lent.tid, data)
<1>1. Fits(lent, new)
  BY LendFits
<1>2. tidPool' = lent.pool /\ transcations' = lent.map /\ requests' = new /\ now' = now
  BY DEF SendFrom
<1> HIDE DEF lent, new
<1>3. Fits(Current', requests')
  BY <1>1, <1>2
     DEF Fits, SoundNow, Sound, Current, EntriesOpen, AnswersFit, TidsRest, Rested, MadeFor, Latest
<1> QED BY <1>3 DEF KrInv, Fits, SoundNow

\* What the response handler makes of the log, of a manager that has the tid back.
LEMMA ResponseFits ==
    ASSUME KrInv, NEW n \in DOMAIN requests, IsValid(requests[n].tid)
    PROVE  LET tid == requests[n].tid
               h   == Holder(tid)
               log == [requests EXCEPT ![h].answers = Append(@, n)]
           IN  /\ tid \in Tids
               /\ h \in DOMAIN requests /\ requests[h].tid = tid /\ Latest(requests, h)
               /\ requests[h].answers = <<>> /\ requests[h].data = Attached(tid)
               /\ requests[h].data \in Data
               /\ EntersAnswer(requests, log, h, n)
               /\ Fits(Returned(Current, tid), log)
<1> DEFINE tid == requests[n].tid
           h   == Holder(tid)
           log == [requests EXCEPT ![h].answers = Append(@, n)]
<1>1. requests \in Seq(Request) /\ Fits(Current, requests)
  BY DEF KrInv, Fits
<1>2. \A k \in DOMAIN requests : requests[k] \in Request /\ k \in Nat
  BY <1>1, ElementOfSeq, LenProperties
<1>3. /\ h \in DOMAIN requests /\ requests[h].tid = tid /\ Latest(requests, h)
      /\ requests[h].answers = <<>> /\ requests[h].data = Attached(tid)
  BY <1>1, ValidIsOpen
<1>4. n <= h
  BY <1>3 DEF Latest
<1> HIDE DEF h
<1>5. EntersAnswer(requests, log, h, n)
  <2> DEFINE q == [requests[h] EXCEPT !.answers = <<n>>]
  <2>1. Append(<<>>, n) = <<n>> /\ n \in Nat
    BY <1>2
  <2>2. log = [requests EXCEPT ![h] = q]
    BY <1>3, <2>1
  <2>3. requests[h] \in [tid : Tids, data : Data, answers : Seq(Nat), left : 0 .. MaxNodes]
    BY <1>2, <1>3 DEF Request
  <2>4. <<n>> \in Seq(Nat)
    BY <2>1
  <2>5. q \in Request /\ q.tid = requests[h].tid /\ q.data = requests[h].data /\ q.answers = <<n>>
    <3> HIDE DEF tid
    <3> QED BY <2>3, <2>4 DEF Request
  <2> HIDE DEF q, log
  <2>6. log \in Seq(Request) /\ DOMAIN log = DOMAIN requests
        /\ log[h] = q /\ \A k \in DOMAIN requests : k # h => log[k] = requests[k]
    BY <1>1, <1>3, <2>2, <2>5, ExceptSeq
  <2>7. \A k \in DOMAIN requests : log[k].tid = requests[k].tid /\ log[k].data = requests[k].data
    BY <2>5, <2>6
  <2>8. SameQueries(requests, log)
    BY <1>1, <2>6, <2>7 DEF SameQueries
  <2> QED BY <2>5, <2>6, <2>8 DEF EntersAnswer
<1>6. Fits(Returned(Current, requests[h].tid), log)
  <2> HIDE DEF log
  <2> QED BY <1>1, <1>3, <1>4, <1>5, AnswerFits
<1>7. tid \in Tids /\ requests[h].data \in Data
  BY <1>2, <1>3 DEF Request
<1> HIDE DEF log
<1> QED BY <1>3, <1>5, <1>6, <1>7 DEF h, log

\* A handler that has fewer nodes left to query, or more.
LEMMA LeftSet ==
    ASSUME NEW log \in Seq(Request), NEW h \in DOMAIN log, NEW left \in 0 .. MaxNodes
    PROVE  LET new == [log EXCEPT ![h].left = left] IN
           /\ SameQueries(log, new)
           /\ \A k \in DOMAIN log : new[k].answers = log[k].answers
<1> DEFINE new == [log EXCEPT ![h].left = left]
           q == [log[h] EXCEPT !.left = left]
<1>1. log[h] \in Request
  BY ElementOfSeq, LenProperties
<1>2. /\ q \in Request /\ q.tid = log[h].tid /\ q.data = log[h].data
      /\ q.answers = log[h].answers
  BY <1>1 DEF Request
<1>3. new = [log EXCEPT ![h] = q]
  OBVIOUS
<1> HIDE DEF q, new
<1>4. new \in Seq(Request) /\ DOMAIN new = DOMAIN log
      /\ new[h] = q /\ \A k \in DOMAIN log : k # h => new[k] = log[k]
  BY <1>2, <1>3, ExceptSeq
<1>5. \A k \in DOMAIN log : /\ new[k].tid = log[k].tid /\ new[k].data = log[k].data
                            /\ new[k].answers = log[k].answers
  BY <1>2, <1>4
<1> QED BY <1>4, <1>5 DEF SameQueries, new

\* An answer, whatever it brings, in whatever order it comes.
LEMMA HandleResponseFits ==
    ASSUME KrInv, NEW n \in DOMAIN requests, NEW nodes \in 0 .. MaxNodes, HandleResponse(n, nodes)
    PROVE  KrInv'
<1> DEFINE tid  == requests[n].tid
           h    == Holder(tid)
           log  == [requests EXCEPT ![h].answers = Append(@, n)]
           done == Returned(Current, tid)
<1>1. IsValid(tid) /\ now' = now
  BY DEF HandleResponse
<1>2. /\ h \in DOMAIN requests /\ requests[h].data = Attached(tid) /\ requests[h].data \in Data
      /\ EntersAnswer(requests, log, h, n)
      /\ Fits(done, log)
  BY <1>1, ResponseFits
<1>3. CASE nodes = 0
  <2>1. tidPool' = done.pool /\ transcations' = done.map /\ requests' = log
    BY <1>3 DEF HandleResponse
  <2> HIDE DEF done, log
  <2>2. Fits(Current', requests')
    BY <1>1, <1>2, <2>1
       DEF Fits, SoundNow, Sound, Current, EntriesOpen, AnswersFit, TidsRest, Rested, MadeFor, Latest
  <2> QED BY <1>1, <2>2 DEF KrInv, Fits, SoundNow
<1>4. CASE nodes # 0
  <2>1. SendFrom(done, [log EXCEPT ![h].left = nodes - 1], Attached(tid))
    BY <1>4 DEF HandleResponse
  <2> HIDE DEF done, log, h
  <2>2. log \in Seq(Request) /\ h \in DOMAIN log
    BY <1>2 DEF EntersAnswer, SameQueries
  <2>3. nodes - 1 \in 0 .. MaxNodes
    BY <1>4, LookupsAssumption
  <2> DEFINE left == [log EXCEPT ![h].left = nodes - 1]
  <2>4. SameQueries(log, left) /\ \A k \in DOMAIN log : left[k].answers = log[k].answers
    BY <2>2, <2>3, LeftSet
  <2> HIDE DEF left
  <2>5. Fits(done, left)
    BY <1>2, <2>4, LeftFits
  <2>6. Attached(tid) \in Data
    BY <1>2
  <2> HIDE DEF tid
  <2> QED BY <1>1, <2>1, <2>5, <2>6, SendFromFits DEF left
<1> QED BY <1>3, <1>4

\* The loop of an answer to get_peers that brought nodes.
LEMMA ContinueLookupFits ==
    ASSUME KrInv, NEW n \in DOMAIN requests, ContinueLookup(n)
    PROVE  KrInv'
<1> DEFINE left == [requests EXCEPT ![n].left = requests[n].left - 1]
<1>1. requests \in Seq(Request) /\ Fits(Current, requests)
  BY DEF KrInv, Fits
<1>2. requests[n] \in Request
  BY <1>1, ElementOfSeq, LenProperties
<1>3. /\ requests[n].left > 0 /\ now' = now
      /\ SendFrom(Current, left, requests[n].data)
  BY DEF ContinueLookup
<1>4. requests[n].left - 1 \in 0 .. MaxNodes /\ requests[n].data \in Data
  BY <1>2, <1>3, LookupsAssumption DEF Request
<1>5. /\ SameQueries(requests, left)
      /\ \A k \in DOMAIN requests : left[k].answers = requests[k].answers
  BY <1>1, <1>4, LeftSet
<1> HIDE DEF left
<1>6. Fits(Current, left)
  BY <1>1, <1>5, LeftFits
<1> QED BY <1>3, <1>4, <1>6, SendFromFits

\* Every step keeps the inductive invariant.
LEMMA KrInvInductive == ASSUME KrInv, [KrNext]_krVars PROVE KrInv'
<1>1. ASSUME NEW data \in Data, SendQuery(data) PROVE KrInv'
  BY <1>1, SendFromFits DEF KrInv, SendQuery
<1>2. ASSUME NEW n \in DOMAIN requests, NEW nodes \in 0 .. MaxNodes, HandleResponse(n, nodes)
      PROVE  KrInv'
  BY <1>2, HandleResponseFits
<1>3. ASSUME NEW n \in DOMAIN requests, ContinueLookup(n) PROVE KrInv'
  BY <1>3, ContinueLookupFits
<1>4. CASE Elapse
  <2>1. IInv
    BY SoundCurrent DEF KrInv, Fits, SoundNow, Current
  <2>2. IInv'
    BY <1>4, <2>1, TickSound DEF Elapse
  <2>3. UNCHANGED <<tidPool, transcations, requests>>
    BY <1>4 DEF Elapse, Tick
  <2>4. SoundNow(Current)'
    BY <2>2 DEF IInv, TypeOK, Partition, OutstandingBounded, ExpiryInOrder, SoundNow, Sound,
                Current, Borrowed, TidsOf
  <2> QED BY <2>3, <2>4
          DEF KrInv, Fits, Current, EntriesOpen, AnswersFit, TidsRest, Rested, MadeFor, Latest
<1>5. CASE UNCHANGED krVars
  BY <1>5 DEF krVars, KrInv, Fits, SoundNow, Sound, Current, EntriesOpen, AnswersFit, TidsRest,
              Rested, MadeFor, Latest
<1> QED BY <1>1, <1>2, <1>3, <1>4, <1>5 DEF KrNext

\* The inductive invariant holds in every state.
LEMMA KrInvariant == KrSpec => []KrInv
BY KrInitFits, KrInvInductive, PTL DEF KrSpec

\* A query of the log, and the log's types.
LEMMA KrInvFacts ==
    ASSUME KrInv
    PROVE  /\ IInv /\ requests \in Seq(Request)
           /\ AnswersFit(requests) /\ TidsRest(requests)
           /\ EntriesOpen(transcations, requests)
           /\ \A n \in DOMAIN requests : n \in Nat /\ requests[n] \in Request
<1>1. IInv
  BY SoundCurrent DEF KrInv, Fits, SoundNow, Current
<1>2. \A n \in DOMAIN requests : n \in Nat /\ requests[n] \in Request
  BY ElementOfSeq, LenProperties DEF KrInv, Fits
<1> QED BY <1>1, <1>2 DEF KrInv, Fits, Current

\* The manager's invariants hold when handlers run on between its steps, and a
\* handler never has fewer than no nodes left to query.
THEOREM KrTypeCorrect == KrSpec => []KrTypeOK
<1>1. KrInv => KrTypeOK
  BY KrInvFacts DEF KrTypeOK, IInv
<1> QED BY <1>1, KrInvariant, PTL

\* No tid is lost or lent twice, and no more than #ID_COUNT_MAX are lent, whatever
\* answers come to queries of now or then, and whatever handlers they wake up.
THEOREM ManagerStaysSound == KrSpec => [](Partition /\ OutstandingBounded /\ ExpiryInOrder)
<1>1. KrInv => Partition /\ OutstandingBounded /\ ExpiryInOrder
  BY KrInvFacts DEF IInv
<1> QED BY <1>1, KrInvariant, PTL

\* No query is answered twice.
THEOREM AlwaysAtMostOneAnswer == KrSpec => []AtMostOneAnswer
<1>1. KrInv => AtMostOneAnswer
  BY KrInvFacts DEF AnswersFit, AtMostOneAnswer
<1> QED BY <1>1, KrInvariant, PTL

\* An entry of the Map stands for the last query with its tid, open and with the same
\* request, and the entries are in the order of their queries.
THEOREM EntriesAlwaysOpenQueries == KrSpec => []EntriesAreOpenQueries
<1>1. ASSUME KrInv PROVE EntriesAreOpenQueries
  <2>1. requests \in Seq(Request) /\ EntriesOpen(transcations, requests)
    BY <1>1, KrInvFacts
  <2>2. ASSUME NEW i \in DOMAIN transcations, NEW n, MadeFor(requests, transcations[i], n)
        PROVE  Holder(transcations[i].tid) = n
    BY <2>1, <2>2, HolderIs DEF MadeFor
  <2>3. ASSUME NEW i \in DOMAIN transcations
        PROVE  LET n == Holder(transcations[i].tid) IN
               /\ MadeFor(requests, transcations[i], n)
               /\ requests[n].data = transcations[i].data /\ requests[n].answers = <<>>
    BY <2>1, <2>2 DEF EntriesOpen
  <2>4. ASSUME NEW i \in DOMAIN transcations, NEW j \in DOMAIN transcations, i < j
        PROVE  Holder(transcations[i].tid) < Holder(transcations[j].tid)
    BY <2>1, <2>3, <2>4 DEF EntriesOpen, MadeFor
  <2> QED BY <2>3, <2>4 DEF EntriesAreOpenQueries
<1>2. KrInv => EntriesAreOpenQueries
  BY <1>1
<1> QED BY <1>2, KrInvariant, PTL

\* An answer is taken for a later query than its own only when more queries were sent
\* between the two than always rest in the pool.
THEOREM LateAnswerAlwaysQuarantined == KrSpec => []LateAnswerQuarantined
<1>1. ASSUME KrInv PROVE LateAnswerQuarantined
  <2> SUFFICES ASSUME NEW n \in DOMAIN requests, NEW k \in DOMAIN requests[n].answers
               PROVE  LET m == requests[n].answers[k]
                      IN  m = n \/ n - m > Len(ShuffledPool) - IdCountMax
    BY DEF LateAnswerQuarantined
  <2> DEFINE m == requests[n].answers[k]
  <2>1. m \in DOMAIN requests /\ m <= n /\ requests[m].tid = requests[n].tid
    BY <1>1, KrInvFacts DEF AnswersFit
  <2>2. m \in Nat /\ n \in Nat
    BY <1>1, <2>1, KrInvFacts
  <2> HIDE DEF m
  <2>3. m < n => n - m > Resting
    BY <1>1, <2>1, KrInvFacts DEF TidsRest
  <2> QED BY <2>1, <2>2, <2>3 DEF Resting, m
<1>2. KrInv => LateAnswerQuarantined
  BY <1>1
<1> QED BY <1>2, KrInvariant, PTL

-----------------------------------------------------------------------------
(* The refinement of RequestLedger.                                        *)

\* The fates of the queries in the log, with the Map m.
FateOf(m, log) ==
    [n \in DOMAIN log |->
        IF log[n].answers # <<>> THEN "answered"
        ELSE IF log[n].tid \in TidsOf(m) /\ Latest(log, n) THEN "waiting"
        ELSE "dropped"]

\* In a state that fits, Fate is FateOf: the one entry a query can wait on is its own.
LEMMA FateIsFateOf ==
    ASSUME KrInv
    PROVE  Fate = FateOf(transcations, requests)
<1>1. requests \in Seq(Request) /\ EntriesOpen(transcations, requests)
  BY KrInvFacts
<1>2. ASSUME NEW n \in DOMAIN requests, requests[n].tid \in Borrowed
      PROVE  Holder(requests[n].tid) = n <=> Latest(requests, n)
  <2>1. PICK i \in DOMAIN transcations : transcations[i].tid = requests[n].tid
    BY <1>2 DEF Borrowed
  <2>2. PICK k \in DOMAIN requests : MadeFor(requests, transcations[i], k)
    BY <1>1 DEF EntriesOpen
  <2>3. Holder(requests[n].tid) = k /\ Latest(requests, k)
    BY <1>1, <2>1, <2>2, HolderIs DEF MadeFor
  <2>4. Latest(requests, n) => Holder(requests[n].tid) = n
    BY <1>1, HolderIs
  <2> QED BY <2>3, <2>4
<1>3. Borrowed = TidsOf(transcations)
  BY DEF Borrowed, TidsOf
<1>4. ASSUME NEW n \in DOMAIN requests
      PROVE  (requests[n].tid \in Borrowed /\ Holder(requests[n].tid) = n)
                <=> (requests[n].tid \in TidsOf(transcations) /\ Latest(requests, n))
  BY <1>2, <1>3
<1> HIDE DEF Latest
<1> QED BY <1>4 DEF Fate, FateOf

\* The queries that wait are the last ones with the tids of the Map.
LEMMA WaitingAre ==
    ASSUME NEW st, NEW log, Fits(st, log), NEW n \in DOMAIN log
    PROVE  FateOf(st.map, log)[n] = "waiting" <=> log[n].tid \in TidsOf(st.map) /\ Latest(log, n)
<1>1. ASSUME log[n].tid \in TidsOf(st.map), Latest(log, n) PROVE log[n].answers = <<>>
  <2>1. PICK i \in DOMAIN st.map : st.map[i].tid = log[n].tid
    BY <1>1 DEF TidsOf
  <2>2. PICK k \in DOMAIN log : MadeFor(log, st.map[i], k) /\ log[k].answers = <<>>
    BY DEF Fits, EntriesOpen
  <2>3. k <= n /\ n <= k
    BY <1>1, <2>1, <2>2 DEF MadeFor, Latest
  <2>4. k \in Nat /\ n \in Nat
    BY LenProperties DEF Fits
  <2> QED BY <2>2, <2>3, <2>4
<1> QED BY <1>1 DEF FateOf

\* At most #ID_COUNT_MAX wait: every one that does has a tid of its own in the Map.
LEMMA WaitingBounded ==
    ASSUME NEW st, NEW log, Fits(st, log)
    PROVE  Cardinality(Ledger!Waiting(FateOf(st.map, log))) <= IdCountMax
<1> DEFINE W == Ledger!Waiting(FateOf(st.map, log))
           f == [n \in W |-> log[n].tid]
<1>1. \A n \in W : n \in DOMAIN log /\ log[n].tid \in TidsOf(st.map) /\ Latest(log, n)
  <2>1. \A n \in W : n \in DOMAIN log /\ FateOf(st.map, log)[n] = "waiting"
    BY DEF Ledger!Waiting, FateOf
  <2> HIDE DEF W
  <2> QED BY <2>1, WaitingAre
<1>2. \A n \in DOMAIN log : n \in Nat
  BY LenProperties DEF Fits
<1> HIDE DEF W
<1>3. f \in Injection(W, TidsOf(st.map))
  <2>1. \A k, n \in W : f[k] = f[n] => k <= n /\ n <= k
    BY <1>1 DEF Latest
  <2>2. \A k, n \in W : f[k] = f[n] => k = n
    BY <1>1, <1>2, <2>1
  <2>3. f \in [W -> TidsOf(st.map)]
    BY <1>1
  <2> QED BY <2>2, <2>3 DEF Injection, IsInjective
<1>4. /\ IsFiniteSet(TidsOf(st.map)) /\ Cardinality(TidsOf(st.map)) = Len(st.map)
      /\ Len(st.map) \in Nat /\ Len(st.map) <= IdCountMax
  BY PoolSize DEF Fits, SoundNow
<1> HIDE DEF f
<1>5. IsFiniteSet(W) /\ Cardinality(W) <= Cardinality(TidsOf(st.map))
  BY <1>3, <1>4, FS_Injection
<1>6. Cardinality(W) \in Nat /\ IdCountMax \in Nat
  BY <1>5, FS_CardinalityType, LimitAssumption, PoolAssumption, LenProperties
<1> QED BY <1>4, <1>5, <1>6 DEF W

\* A query sent is one more that waits, and some of those that have waited longest
\* are dropped.
LEMMA LendOpens ==
    ASSUME NEW st, NEW log, Fits(st, log), NEW data \in Data
    PROVE  LET lent == Lend(st, data) IN
           FateOf(lent.map, Logged(log, lent.tid, data)) \in Ledger!Openings(FateOf(st.map, log))
<1> DEFINE room == MakeRoom(st)
           lent == Lend(st, data)
           t == lent.tid
           new == Logged(log, t, data)
           l == Len(log)
           s == FateOf(st.map, log)
           u == FateOf(lent.map, new)
           D == {n \in Ledger!Waiting(s) : log[n].tid \notin TidsOf(room.map)}
           fates == {"answered", "waiting", "dropped"}
<1>1. SoundNow(st) /\ log \in Seq(Request) /\ EntriesOpen(st.map, log) /\ Sound(st)
  BY DEF Fits, SoundNow
<1>2. /\ Sound(room) /\ t \in Tids /\ t \notin TidsOf(room.map)
      /\ \E e \in Entry : e.tid = t /\ lent.map = Append(room.map, e)
  BY <1>1, LendShape
<1>3. PICK d \in 0 .. Len(st.map) : room.map = SubSeq(st.map, d + 1, Len(st.map))
  BY <1>1, MakeRoomProperties DEF SoundNow
<1>4. /\ new \in Seq(Request) /\ l \in Nat /\ Len(new) = l + 1
      /\ DOMAIN log = 1 .. l /\ DOMAIN new = 1 .. l + 1
      /\ \A n \in 1 .. l : new[n] = log[n]
      /\ new[l + 1] = [tid |-> t, data |-> data, answers |-> <<>>, left |-> 0]
  BY <1>1, <1>2, LoggedShape
<1>5. /\ Latest(new, l + 1)
      /\ \A n \in DOMAIN log : Latest(new, n) <=> Latest(log, n) /\ log[n].tid # t
  BY <1>1, <1>2, LoggedLatest
<1> HIDE DEF room, lent, t, new, l
<1>6. TidsOf(lent.map) = TidsOf(room.map) \cup {t}
  <2>1. PICK e \in Entry : e.tid = t /\ lent.map = Append(room.map, e)
    BY <1>2
  <2>2. /\ room.map \in Seq(Entry) /\ Len(room.map) \in Nat
        /\ DOMAIN room.map = 1 .. Len(room.map)
        /\ DOMAIN lent.map = 1 .. Len(room.map) + 1
        /\ \A i \in 1 .. Len(room.map) : lent.map[i] = room.map[i]
        /\ lent.map[Len(room.map) + 1] = e
    BY <1>2, <2>1, AppendProperties, LenProperties DEF Sound
  <2>3. \A i \in 1 .. Len(room.map) + 1 : i \in 1 .. Len(room.map) \/ i = Len(room.map) + 1
    BY <2>2
  <2>4. TidsOf(lent.map) \subseteq TidsOf(room.map) \cup {t}
    BY <2>1, <2>2, <2>3 DEF TidsOf
  <2>5. Len(room.map) + 1 \in DOMAIN lent.map
        /\ \A i \in DOMAIN room.map : i \in DOMAIN lent.map
    BY <2>2
  <2>6. TidsOf(room.map) \cup {t} \subseteq TidsOf(lent.map)
    BY <2>1, <2>2, <2>5 DEF TidsOf
  <2> QED BY <2>4, <2>6
<1>7. /\ \A i \in DOMAIN st.map : i \in Int
      /\ \A i \in DOMAIN st.map : st.map[i].tid \in TidsOf(room.map) <=> i > d
  <2> DEFINE m == st.map
             k == Len(m)
  <2>1. /\ m \in Seq(Entry) /\ k \in Nat /\ DOMAIN m = 1 .. k /\ d \in 0 .. k
        /\ \A i, j \in DOMAIN m : m[i].tid = m[j].tid => i = j
    BY <1>1, LenProperties DEF Sound
  <2>2. \A i \in d + 1 .. k : m[i] \in Entry
    BY <2>1, ElementOfSeq
  <2>3. d + 1 \in Int /\ k \in Int /\ room.map = SubSeq(m, d + 1, k)
    BY <1>3, <2>1
  <2> HIDE DEF m, k
  <2>4. /\ room.map \in Seq(Entry)
        /\ Len(room.map) = IF d + 1 <= k THEN k - (d + 1) + 1 ELSE 0
        /\ \A i \in 1 .. k - (d + 1) + 1 : room.map[i] = m[(d + 1) + i - 1]
    BY <2>2, <2>3, SubSeqProperties
  <2>5. Len(room.map) = k - d
    BY <2>1, <2>4
  <2>6. DOMAIN room.map = 1 .. k - d /\ \A i \in 1 .. k - d : room.map[i] = m[d + i]
    <3>1. DOMAIN room.map = 1 .. k - d
      BY <2>4, <2>5, LenProperties
    <3>2. ASSUME NEW i \in 1 .. k - d PROVE room.map[i] = m[d + i]
      <4>1. i \in 1 .. k - (d + 1) + 1 /\ (d + 1) + i - 1 = d + i
        BY <2>1
      <4> QED BY <2>4, <4>1
    <3> QED BY <3>1, <3>2
  <2>7. ASSUME NEW i \in 1 .. k, i > d PROVE m[i].tid \in TidsOf(room.map)
    <3>1. i - d \in 1 .. k - d /\ d + (i - d) = i
      BY <2>1, <2>7
    <3>2. room.map[i - d] = m[i]
      BY <2>6, <3>1
    <3> QED BY <2>6, <3>1, <3>2 DEF TidsOf
  <2>8. ASSUME NEW i \in 1 .. k, m[i].tid \in TidsOf(room.map) PROVE i > d
    <3>1. PICK j \in 1 .. k - d : room.map[j].tid = m[i].tid
      BY <2>6, <2>8 DEF TidsOf
    <3>2. d + j \in 1 .. k /\ m[d + j].tid = m[i].tid
      BY <2>1, <2>6, <3>1
    <3>3. d + j = i
      BY <2>1, <3>2
    <3> QED BY <2>1, <3>3
  <2>9. \A i \in 1 .. k : i \in Int
    OBVIOUS
  <2> QED BY <2>1, <2>7, <2>8, <2>9 DEF m
<1>8. TidsOf(room.map) \subseteq TidsOf(st.map)
  <2>1. \A i \in DOMAIN room.map : \E j \in DOMAIN st.map : room.map[i] = st.map[j]
    <3> DEFINE m == st.map
               k == Len(m)
    <3>1. m \in Seq(Entry) /\ k \in Nat /\ DOMAIN m = 1 .. k /\ d \in 0 .. k
      BY <1>1, LenProperties DEF Sound
    <3>2. \A i \in d + 1 .. k : m[i] \in Entry
      BY <3>1, ElementOfSeq
    <3>3. d + 1 \in Int /\ k \in Int /\ room.map = SubSeq(m, d + 1, k)
      BY <1>3, <3>1
    <3> HIDE DEF m, k
    <3>4. /\ room.map \in Seq(Entry)
          /\ Len(room.map) = IF d + 1 <= k THEN k - (d + 1) + 1 ELSE 0
          /\ \A i \in 1 .. k - (d + 1) + 1 : room.map[i] = m[(d + 1) + i - 1]
      BY <3>2, <3>3, SubSeqProperties
    <3>5. DOMAIN room.map = 1 .. Len(room.map)
      BY <3>4, LenProperties
    <3>6. ASSUME NEW i \in DOMAIN room.map
          PROVE  i \in 1 .. k - (d + 1) + 1 /\ (d + 1) + i - 1 \in DOMAIN m
      BY <3>1, <3>4, <3>5
    <3> QED BY <3>4, <3>6 DEF m
  <2> QED BY <2>1 DEF TidsOf
<1>9. \A n \in DOMAIN log : s[n] = "waiting" <=> log[n].tid \in TidsOf(st.map) /\ Latest(log, n)
  BY WaitingAre
<1>10. DOMAIN s = 1 .. l /\ DOMAIN u = 1 .. l + 1
       /\ \A n \in 1 .. l : s[n] \in fates
  BY <1>4 DEF FateOf
<1>11. Ledger!Waiting(s) = {n \in 1 .. l : s[n] = "waiting"}
  BY <1>10 DEF Ledger!Waiting
<1>12. u[l + 1] = "waiting"
  <2>1. l + 1 \in DOMAIN new /\ new[l + 1].answers = <<>> /\ new[l + 1].tid = t
    BY <1>4
  <2> QED BY <1>5, <1>6, <2>1 DEF FateOf
<1>13. ASSUME NEW n \in 1 .. l
       PROVE  u[n] = IF n \in D THEN "dropped" ELSE s[n]
  <2>1. n \in DOMAIN log /\ n \in DOMAIN new /\ new[n] = log[n]
    BY <1>4
  <2>2. Latest(new, n) <=> Latest(log, n) /\ log[n].tid # t
    BY <1>5, <2>1
  <2>3. s[n] = IF log[n].answers # <<>> THEN "answered"
               ELSE IF log[n].tid \in TidsOf(st.map) /\ Latest(log, n) THEN "waiting"
               ELSE "dropped"
    BY <2>1 DEF FateOf
  <2>4. u[n] = IF log[n].answers # <<>> THEN "answered"
               ELSE IF log[n].tid \in TidsOf(lent.map) /\ Latest(new, n) THEN "waiting"
               ELSE "dropped"
    BY <2>1 DEF FateOf
  <2>5. n \in D <=> s[n] = "waiting" /\ log[n].tid \notin TidsOf(room.map)
    BY <1>11
  <2>6. log[n].tid \in TidsOf(lent.map) /\ Latest(new, n)
           <=> log[n].tid \in TidsOf(room.map) /\ Latest(log, n)
    BY <1>2, <1>6, <2>2
  <2> HIDE DEF s, u, D
  <2> QED BY <1>8, <2>3, <2>4, <2>5, <2>6
<1>14. D \in SUBSET Ledger!Waiting(s) /\ \A x \in D, w \in Ledger!Waiting(s) \ D : x < w
  <2>1. ASSUME NEW x \in D, NEW w \in Ledger!Waiting(s) \ D PROVE x < w
    <3>1. /\ x \in DOMAIN log /\ log[x].tid \in TidsOf(st.map) /\ Latest(log, x)
          /\ log[x].tid \notin TidsOf(room.map)
      BY <1>4, <1>9, <1>11
    <3>2. /\ w \in DOMAIN log /\ log[w].tid \in TidsOf(st.map) /\ Latest(log, w)
          /\ log[w].tid \in TidsOf(room.map)
      BY <1>4, <1>9, <1>11
    <3>3. PICK i \in DOMAIN st.map : st.map[i].tid = log[x].tid
      BY <3>1 DEF TidsOf
    <3>4. PICK j \in DOMAIN st.map : st.map[j].tid = log[w].tid
      BY <3>2 DEF TidsOf
    <3>5. i < j
      <4>1. ~ (i > d) /\ j > d /\ i \in Int /\ j \in Int /\ d \in Int
        BY <1>7, <3>1, <3>2, <3>3, <3>4
      <4> QED BY <4>1
    <3>6. MadeFor(log, st.map[i], x) /\ MadeFor(log, st.map[j], w)
      BY <3>1, <3>2, <3>3, <3>4 DEF MadeFor
    <3> QED BY <1>1, <3>1, <3>2, <3>5, <3>6 DEF EntriesOpen
  <2>2. D \in SUBSET Ledger!Waiting(s)
    OBVIOUS
  <2> QED BY <2>1, <2>2
<1>15. u = Append(Ledger!Settled(s, D, "dropped"), "waiting")
  <2> DEFINE q == Ledger!Settled(s, D, "dropped")
  <2>1. q = [n \in 1 .. l |-> IF n \in D THEN "dropped" ELSE s[n]]
    BY <1>10 DEF Ledger!Settled
  <2> HIDE DEF D, s, u, q
  <2>2. q \in Seq(fates) /\ Len(q) = l
    BY <1>4, <1>10, <2>1
  <2>3. /\ Append(q, "waiting") \in Seq(fates) /\ Len(Append(q, "waiting")) = l + 1
        /\ \A n \in 1 .. l : Append(q, "waiting")[n] = q[n]
        /\ Append(q, "waiting")[l + 1] = "waiting"
    BY <2>2, AppendProperties
  <2>4. \A n \in 1 .. l : u[n] = q[n] /\ q[n] \in fates
    BY <1>10, <1>13, <2>1
  <2>5. \A n \in 1 .. l + 1 : n \in 1 .. l \/ n = l + 1
    BY <1>4
  <2>6. u \in [1 .. l + 1 -> fates]
    <3>1. u = [n \in 1 .. l + 1 |-> u[n]]
      BY <1>4 DEF u, FateOf
    <3>2. \A n \in 1 .. l + 1 : u[n] \in fates
      BY <1>12, <2>4, <2>5
    <3> QED BY <3>1, <3>2
  <2>7. u \in Seq(fates) /\ Len(u) = l + 1
    BY <1>4, <2>6
  <2>8. \A n \in 1 .. l + 1 : u[n] = Append(q, "waiting")[n]
    BY <1>12, <2>3, <2>4, <2>5
  <2>9. u = Append(q, "waiting")
    BY <2>3, <2>7, <2>8, SeqEqual
  <2> QED BY <2>9 DEF q
<1> HIDE DEF D, s, u
<1>16. u \in Ledger!Openings(s)
  BY <1>14, <1>15 DEF Ledger!Openings
<1> QED BY <1>16 DEF u, s, new, lent, t

\* What handlers have left to do is nothing to the ledger.
LEMMA LeftSettlesNothing ==
    ASSUME NEW m, NEW log, NEW new, SameQueries(log, new),
           \A k \in DOMAIN log : new[k].answers = log[k].answers
    PROVE  FateOf(m, new) = FateOf(m, log)
<1>1. /\ DOMAIN new = DOMAIN log
      /\ \A n \in DOMAIN log : new[n].tid = log[n].tid /\ (Latest(new, n) <=> Latest(log, n))
  BY SameQueriesFit DEF SameQueries
<1> QED BY <1>1 DEF FateOf

\* An answer for an open query's tid settles that query and no other.
LEMMA AnswerSettles ==
    ASSUME NEW st, NEW log, Fits(st, log),
           NEW h \in DOMAIN log, Latest(log, h), log[h].tid \in TidsOf(st.map), NEW n,
           NEW new, EntersAnswer(log, new, h, n)
    PROVE  /\ h \in Ledger!Waiting(FateOf(st.map, log))
           /\ FateOf(Returned(st, log[h].tid).map, new)
                 = Ledger!Settled(FateOf(st.map, log), {h}, "answered")
<1> DEFINE tid == log[h].tid
           K == {i \in DOMAIN st.map : st.map[i].tid = tid}
           done == Returned(st, tid)
           s == FateOf(st.map, log)
           u == FateOf(done.map, new)
<1>1. st.map \in Seq(Entry) /\ K \in SUBSET DOMAIN st.map /\ Sound(st)
      /\ \A i \in DOMAIN log : i \in Nat
  BY LenProperties DEF Fits, SoundNow, Sound
<1>2. done = PutBack(st, K, ByPosition(st.map))
  BY DEF Returned
<1> HIDE DEF K
<1>3. StrictTotalOn(ByPosition(st.map), K)
  BY <1>1, OrdersAreTotal
<1>4. LeftAt(done.map, st.map, (DOMAIN st.map) \ K)
  BY <1>1, <1>2, <1>3, PutBackShape
<1>5. PICK f \in [DOMAIN done.map -> (DOMAIN st.map) \ K] :
         /\ \A i \in DOMAIN done.map : done.map[i] = st.map[f[i]]
         /\ \A k \in (DOMAIN st.map) \ K : \E i \in DOMAIN done.map : f[i] = k
  BY <1>4 DEF LeftAt
<1> HIDE DEF done
<1>6. TidsOf(done.map) = TidsOf(st.map) \ {tid}
  <2>1. \A i \in DOMAIN st.map : i \notin K <=> st.map[i].tid # tid
    BY DEF K
  <2>2. ASSUME NEW x \in TidsOf(done.map) PROVE x \in TidsOf(st.map) /\ x # tid
    <3>1. PICK i \in DOMAIN done.map : done.map[i].tid = x
      BY DEF TidsOf
    <3>2. f[i] \in DOMAIN st.map /\ f[i] \notin K /\ st.map[f[i]].tid = x
      BY <1>5, <3>1
    <3> QED BY <2>1, <3>2 DEF TidsOf
  <2>3. ASSUME NEW x \in TidsOf(st.map), x # tid PROVE x \in TidsOf(done.map)
    <3>1. PICK k \in DOMAIN st.map : st.map[k].tid = x
      BY DEF TidsOf
    <3>2. PICK i \in DOMAIN done.map : f[i] = k
      BY <1>5, <2>1, <2>3, <3>1
    <3> QED BY <1>5, <3>1, <3>2 DEF TidsOf
  <2> QED BY <2>2, <2>3
<1>7. /\ SameQueries(log, new) /\ DOMAIN new = DOMAIN log /\ new[h].answers = <<n>>
      /\ \A k \in DOMAIN log : /\ new[k].tid = log[k].tid
                               /\ k # h => new[k].answers = log[k].answers
  BY DEF EntersAnswer, SameQueries
<1>8. \A k \in DOMAIN log : Latest(new, k) <=> Latest(log, k)
  BY <1>7, SameQueriesFit
<1>9. ASSUME NEW k \in DOMAIN log, k # h, log[k].tid = tid PROVE ~ Latest(log, k)
  BY <1>1, <1>9 DEF Latest
<1>10. h \in Ledger!Waiting(s)
  <2>1. h \in DOMAIN s /\ s[h] = "waiting"
    BY WaitingAre DEF FateOf
  <2> QED BY <2>1 DEF Ledger!Waiting
<1>11. <<n>> # <<>>
  OBVIOUS
<1>12. ASSUME NEW k \in DOMAIN log
       PROVE  u[k] = IF k \in {h} THEN "answered" ELSE s[k]
  <2>1. s[k] = IF log[k].answers # <<>> THEN "answered"
               ELSE IF log[k].tid \in TidsOf(st.map) /\ Latest(log, k) THEN "waiting"
               ELSE "dropped"
    BY DEF FateOf
  <2>2. u[k] = IF new[k].answers # <<>> THEN "answered"
               ELSE IF new[k].tid \in TidsOf(done.map) /\ Latest(new, k) THEN "waiting"
               ELSE "dropped"
    BY <1>7 DEF FateOf
  <2> HIDE DEF s, u, tid
  <2>3. CASE k = h
    BY <1>7, <1>11, <2>2, <2>3
  <2>4. CASE k # h
    <3>1. new[k].answers = log[k].answers
      BY <1>7, <2>4
    <3>2. new[k].tid \in TidsOf(done.map) /\ Latest(new, k)
             <=> log[k].tid \in TidsOf(st.map) /\ Latest(log, k)
      BY <1>6, <1>7, <1>8, <1>9, <2>4
    <3> QED BY <2>1, <2>2, <2>4, <3>1, <3>2
  <2> QED BY <2>3, <2>4
<1>13. u = Ledger!Settled(s, {h}, "answered")
  <2>1. u = [k \in DOMAIN log |-> u[k]]
    BY <1>7 DEF FateOf
  <2>2. DOMAIN s = DOMAIN log
    BY DEF FateOf
  <2> HIDE DEF s, u
  <2> QED BY <1>12, <2>1, <2>2 DEF Ledger!Settled
<1> QED BY <1>10, <1>13 DEF done

\* A query sent from a manager and a log that fit opens a ledger entry.
LEMMA SendFromOpens ==
    ASSUME NEW st, NEW log, Fits(st, log), NEW data \in Data, SendFrom(st, log, data)
    PROVE  FateOf(transcations', requests') \in Ledger!Openings(FateOf(st.map, log))
<1>1. /\ transcations' = Lend(st, data).map
      /\ requests' = Logged(log, Lend(st, data).tid, data)
  BY DEF SendFrom
<1> QED BY <1>1, LendOpens

\* The bound on the waiting queries, said of the ledger's variable.
LEMMA WaitingNow ==
    ASSUME KrInv
    PROVE  Cardinality(Ledger!Waiting(Fate)) <= IdCountMax
<1>1. Fits(Current, requests) /\ Current.map = transcations
  BY DEF KrInv, Current
<1>2. Fate = FateOf(transcations, requests)
  BY FateIsFateOf
<1> QED BY <1>1, <1>2, WaitingBounded

\* Every step of KrpcRequests is a step of RequestLedger, or leaves it unchanged.
LEMMA LedgerStep ==
    ASSUME KrInv, KrInv', [KrNext]_krVars
    PROVE  [Ledger!Next]_Fate
<1> DEFINE F == FateOf(transcations, requests)
<1>1. Fate = F /\ Fits(Current, requests) /\ Current.map = transcations
  BY FateIsFateOf DEF KrInv, Current
<1>2. Fate' = FateOf(transcations', requests')
  <2>1. (Fate = FateOf(transcations, requests))'
    BY FateIsFateOf, PTL
  <2> QED BY <2>1 DEF FateOf, Latest
<1>3. Ledger!Cardinality(Ledger!Waiting(Fate')) <= IdCountMax
  <2>1. (Cardinality(Ledger!Waiting(Fate)) <= IdCountMax)'
    BY WaitingNow, PTL
  <2>2. Cardinality(Ledger!Waiting(Fate')) <= IdCountMax
    BY <2>1
  <2> QED BY <2>2, Zenon DEF Cardinality, Ledger!Cardinality
<1> HIDE DEF F
<1>4. ASSUME NEW data \in Data, SendQuery(data) PROVE Ledger!Next
  <2>1. Fate' \in Ledger!Openings(Fate)
    BY <1>1, <1>2, <1>4, SendFromOpens DEF SendQuery, F
  <2> QED BY <1>3, <2>1 DEF Ledger!Next, Ledger!Open
<1>5. ASSUME NEW n \in DOMAIN requests, NEW nodes \in 0 .. MaxNodes, HandleResponse(n, nodes)
      PROVE  Ledger!Next
  <2> DEFINE tid  == requests[n].tid
             h    == Holder(tid)
             log  == [requests EXCEPT ![h].answers = Append(@, n)]
             done == Returned(Current, tid)
  <2>1. IsValid(tid)
    BY <1>5 DEF HandleResponse
  <2>2. /\ h \in DOMAIN requests /\ requests[h].tid = tid /\ Latest(requests, h)
        /\ requests[h].data = Attached(tid) /\ requests[h].data \in Data
        /\ EntersAnswer(requests, log, h, n)
        /\ Fits(done, log)
    BY <2>1, ResponseFits
  <2>3. tid \in TidsOf(Current.map)
    BY <1>1, <2>1 DEF IsValid, TidsOf
  <2> HIDE DEF log, h
  <2>4. /\ h \in Ledger!Waiting(Fate)
        /\ FateOf(Returned(Current, requests[h].tid).map, log)
              = Ledger!Settled(Fate, {h}, "answered")
    BY <1>1, <2>2, <2>3, AnswerSettles DEF F
  <2>5. FateOf(done.map, log) = Ledger!Settled(Fate, {h}, "answered")
    BY <2>2, <2>4
  <2>6. CASE nodes = 0
    <3>1. transcations' = done.map /\ requests' = log
      BY <1>5, <2>6 DEF HandleResponse, log, h
    <3> QED BY <1>2, <1>3, <2>4, <2>5, <3>1 DEF Ledger!Next, Ledger!Answer
  <2>7. CASE nodes # 0
    <3> DEFINE left == [log EXCEPT ![h].left = nodes - 1]
    <3>1. SendFrom(done, left, Attached(tid))
      BY <1>5, <2>7 DEF HandleResponse, log, h
    <3>2. log \in Seq(Request) /\ h \in DOMAIN log
      BY <2>2 DEF EntersAnswer, SameQueries
    <3>3. nodes - 1 \in 0 .. MaxNodes
      BY <2>7, LookupsAssumption
    <3>4. SameQueries(log, left) /\ \A k \in DOMAIN log : left[k].answers = log[k].answers
      BY <3>2, <3>3, LeftSet
    <3> HIDE DEF left, done, tid
    <3>5. Fits(done, left) /\ FateOf(done.map, left) = FateOf(done.map, log)
      BY <2>2, <3>4, LeftFits, LeftSettlesNothing
    <3>6. Fate' \in Ledger!Openings(FateOf(done.map, left))
      BY <1>2, <2>2, <3>1, <3>5, SendFromOpens
    <3> QED BY <1>3, <2>4, <2>5, <3>5, <3>6 DEF Ledger!Next, Ledger!AnswerAndOpen
  <2> QED BY <2>6, <2>7
<1>6. ASSUME NEW n \in DOMAIN requests, ContinueLookup(n) PROVE Ledger!Next
  <2> DEFINE left == [requests EXCEPT ![n].left = requests[n].left - 1]
  <2>1. requests \in Seq(Request) /\ requests[n] \in Request
    BY KrInvFacts
  <2>2. requests[n].left > 0 /\ SendFrom(Current, left, requests[n].data)
    BY <1>6 DEF ContinueLookup
  <2>3. requests[n].left - 1 \in 0 .. MaxNodes /\ requests[n].data \in Data
    BY <2>1, <2>2, LookupsAssumption DEF Request
  <2>4. /\ SameQueries(requests, left)
        /\ \A k \in DOMAIN requests : left[k].answers = requests[k].answers
    BY <2>1, <2>3, LeftSet
  <2> HIDE DEF left
  <2>5. Fits(Current, left) /\ FateOf(Current.map, left) = Fate
    BY <1>1, <2>4, LeftFits, LeftSettlesNothing DEF F
  <2>6. Fate' \in Ledger!Openings(Fate)
    BY <1>2, <2>2, <2>3, <2>5, SendFromOpens
  <2> QED BY <1>3, <2>6 DEF Ledger!Next, Ledger!Open
<1>7. CASE Elapse
  <2>1. transcations' = transcations /\ requests' = requests
    BY <1>7 DEF Elapse, Tick
  <2> QED BY <1>1, <1>2, <2>1 DEF F
<1>8. CASE UNCHANGED krVars
  BY <1>1, <1>2, <1>8 DEF krVars, F
<1> QED BY <1>4, <1>5, <1>6, <1>7, <1>8 DEF KrNext

\* The queries and answers of the transaction layer implement the ledger: each waits,
\* then is answered once or dropped for good; none but the oldest are dropped, only
\* for a new one, and at most #ID_COUNT_MAX wait.
THEOREM LedgerImplemented == KrSpec => ImplementsLedger
<1>1. KrInit => Ledger!Init
  <2> SUFFICES ASSUME KrInit PROVE Fate = <<>>
    BY DEF Ledger!Init
  <2>1. DOMAIN requests = {}
    BY DEF KrInit
  <2> QED BY <2>1 DEF Fate
<1>2. KrInv /\ KrInv' /\ [KrNext]_krVars => [Ledger!Next]_Fate
  BY LedgerStep
<1> QED BY <1>1, <1>2, KrInvariant, PTL DEF KrSpec, ImplementsLedger, Ledger!Spec

=============================================================================
