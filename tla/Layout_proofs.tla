------------------------------ MODULE Layout_proofs ------------------------------
(***************************************************************************)
(* How generateBuckets splits the ids: proofs about the layout of the      *)
(* RoutingTable, for every number of bits and every local id.  Everything  *)
(* goes through the prefixes of ids: x \div Pow2[m] is x without its last  *)
(* m bits.                                                                 *)
(***************************************************************************)
EXTENDS RoutingTable, Positions_proofs

-----------------------------------------------------------------------------
(* Powers of two and prefixes.                                             *)

\* The recursive definition of Pow2 has a solution, which Pow2 is.
LEMMA Pow2Facts ==
    /\ Pow2 \in [0 .. Bits -> Nat \ {0}]
    /\ Pow2[0] = 1
    /\ \A k \in 1 .. Bits : Pow2[k] = 2 * Pow2[k - 1]
<1> DEFINE S == Nat \ {0}
           F == [k \in Nat |-> [x \in S |-> 2 * x]]
           Eq(f) == f = [k \in 0 .. Bits |-> IF k = 0 THEN 1 ELSE 2 * f[k - 1]]
<1>1. Bits \in Nat /\ 1 \in S
  BY BitsAssumption
<1>2. IsStep(F, S)
  BY DEF IsStep
<1>3. PICK g \in [0 .. Bits -> S] : Iterates(g, F, 1, Bits)
  <2> HIDE DEF F, S
  <2> QED BY <1>1, <1>2, IteratesExist
<1>4. \A k \in 1 .. Bits : g[k] = 2 * g[k - 1]
  <2> SUFFICES ASSUME NEW k \in 1 .. Bits PROVE g[k] = 2 * g[k - 1]
    OBVIOUS
  <2>1. k - 1 \in 0 .. Bits /\ k \in Nat
    BY <1>1
  <2>2. g[k - 1] \in S
    BY <2>1
  <2> QED BY <1>3, <2>1, <2>2 DEF Iterates
<1>5. Eq(g)
  BY <1>3, <1>4 DEF Iterates
<1>6. Eq(Pow2)
  <2> DEFINE p == CHOOSE f : Eq(f)
  <2>1. Pow2 = p
    BY Zenon DEF Pow2
  <2> HIDE DEF p
  <2>2. Eq(p)
    <3> HIDE DEF Eq
    <3> QED BY <1>5 DEF p
  <2> QED BY <2>1, <2>2
<1>7. DOMAIN Pow2 = 0 .. Bits /\ Pow2[0] = 1 /\ \A k \in 1 .. Bits : Pow2[k] = 2 * Pow2[k - 1]
  <2> DEFINE p == [k \in 0 .. Bits |-> IF k = 0 THEN 1 ELSE 2 * Pow2[k - 1]]
  <2>1. Pow2 = p
    BY <1>6
  <2>2. DOMAIN p = 0 .. Bits /\ p[0] = 1
    BY <1>1
  <2>3. ASSUME NEW k \in 1 .. Bits PROVE p[k] = 2 * Pow2[k - 1]
    <3>1. k \in 0 .. Bits /\ k # 0
      BY <1>1
    <3> QED BY <3>1
  <2> HIDE DEF p
  <2> QED BY <2>1, <2>2, <2>3
<1>8. \A k \in 0 .. Bits : Pow2[k] \in S
  <2> DEFINE N == {k \in Nat : k <= Bits => Pow2[k] \in S}
  <2>1. 0 \in N
    BY <1>7
  <2>2. ASSUME NEW k \in Nat, k \in N PROVE k + 1 \in N
    <3> SUFFICES ASSUME k + 1 <= Bits PROVE Pow2[k + 1] \in S
      OBVIOUS
    <3>1. k + 1 \in 1 .. Bits /\ (k + 1) - 1 = k
      BY <1>1
    <3>2. Pow2[k] \in S
      BY <1>1, <2>2
    <3> QED BY <1>7, <3>1, <3>2
  <2>3. Nat \subseteq N
    <3> HIDE DEF N
    <3> QED BY <2>1, <2>2, SetInduction
  <2> QED BY <1>1, <2>3
<1>9. Pow2 \in [0 .. Bits -> S]
  <2>1. Pow2 = [k \in 0 .. Bits |-> Pow2[k]]
    BY <1>6
  <2> QED BY <1>8, <2>1
<1> QED BY <1>7, <1>9

\* What is left of a number without its last bits, by what it lies between.
LEMMA QuotientIs ==
    ASSUME NEW x \in Nat, NEW d \in Nat \ {0}, NEW q \in Nat
    PROVE  x \div d = q <=> d * q <= x /\ x <= d * q + d - 1
OBVIOUS

\* One bit after the other.
LEMMA QuotientHalved ==
    ASSUME NEW x \in Nat, NEW d \in Nat \ {0}
    PROVE  x \div d \in Nat /\ (x \div d) \div 2 = x \div (2 * d)
OBVIOUS

\* A prefix with one bit less is half of it.
LEMMA PrefixHalved ==
    ASSUME NEW x \in Nat, NEW m \in 0 .. Bits - 1
    PROVE  /\ x \div Pow2[m] \in Nat
           /\ (x \div Pow2[m]) \div 2 = x \div Pow2[m + 1]
<1>1. Pow2[m] \in Nat \ {0} /\ Pow2[m + 1] = 2 * Pow2[m]
  BY Pow2Facts, BitsAssumption
<1> HIDE DEF Pow2
<1> QED BY <1>1, QuotientHalved

\* Numbers agree when their halves and their last bits do.
LEMMA HalfAndBit ==
    ASSUME NEW x \in Nat, NEW y \in Nat
    PROVE  x = y <=> x \div 2 = y \div 2 /\ x % 2 = y % 2
OBVIOUS

\* No id has more than Bits bits.
LEMMA IdsHaveBits ==
    ASSUME NEW x \in Ids
    PROVE  x \in Nat /\ x \div Pow2[Bits] = 0
<1>1. Pow2[Bits] \in Nat \ {0} /\ x \in 0 .. Pow2[Bits] - 1
  BY Pow2Facts, BitsAssumption DEF Ids
<1> HIDE DEF Pow2
<1> QED BY <1>1, QuotientIs

-----------------------------------------------------------------------------
(* The xor metric.                                                         *)

Bit(x, k) == (x \div Pow2[k]) % 2

\* low[k] is xor of the last k bits of a and b.
XorOfLow(a, b, low) ==
    /\ low \in [0 .. Bits -> Nat]
    /\ low[0] = 0
    /\ \A k \in 1 .. Bits :
          low[k] = low[k - 1] + (IF Bit(a, k - 1) = Bit(b, k - 1) THEN 0 ELSE Pow2[k - 1])

\* The recursive definition of Distance has a solution.
LEMMA DistanceFacts ==
    ASSUME NEW a, NEW b
    PROVE  \E low : XorOfLow(a, b, low) /\ Distance(a, b) = low[Bits]
<1> DEFINE add(k) == IF Bit(a, k - 1) = Bit(b, k - 1) THEN 0 ELSE Pow2[k - 1]
           F == [k \in Nat |-> [x \in Nat |-> IF k \in 1 .. Bits THEN x + add(k) ELSE x]]
           Eq(f) == f = [k \in 0 .. Bits |-> IF k = 0 THEN 0 ELSE f[k - 1] + add(k)]
<1>1. Bits \in Nat /\ 0 \in Nat
  BY BitsAssumption
<1>2. \A k \in 1 .. Bits : add(k) \in Nat
  BY Pow2Facts, BitsAssumption
<1> HIDE DEF add
<1>3. IsStep(F, Nat)
  BY <1>2 DEF IsStep
<1>4. PICK g \in [0 .. Bits -> Nat] : Iterates(g, F, 0, Bits)
  <2> HIDE DEF F
  <2> QED BY <1>1, <1>3, IteratesExist
<1>5. \A k \in 1 .. Bits : g[k] = g[k - 1] + add(k)
  <2> SUFFICES ASSUME NEW k \in 1 .. Bits PROVE g[k] = g[k - 1] + add(k)
    OBVIOUS
  <2>1. k - 1 \in 0 .. Bits /\ k \in Nat
    BY <1>1
  <2>2. g[k - 1] \in Nat
    BY <2>1
  <2> QED BY <1>4, <2>1, <2>2 DEF Iterates
<1>6. Eq(g)
  <2>1. ASSUME NEW k \in 0 .. Bits
        PROVE  g[k] = IF k = 0 THEN 0 ELSE g[k - 1] + add(k)
    <3>1. CASE k = 0
      BY <1>4, <3>1 DEF Iterates
    <3>2. CASE k # 0
      <4>1. k \in 1 .. Bits
        BY <1>1, <3>2
      <4> QED BY <1>5, <3>2, <4>1
    <3> QED BY <3>1, <3>2
  <2>2. g = [k \in 0 .. Bits |-> g[k]]
    OBVIOUS
  <2> QED BY <2>1, <2>2
<1> DEFINE low == CHOOSE f : Eq(f)
<1>7. Distance(a, b) = low[Bits]
  BY Zenon DEF Distance, Bit, add
<1>8. Eq(low)
  <2> HIDE DEF Eq
  <2> QED BY <1>6
<1> HIDE DEF low
<1>9. low = [k \in 0 .. Bits |-> low[k]] /\ low[0] = 0
  BY <1>1, <1>8
<1>10. \A k \in 1 .. Bits : low[k] = low[k - 1] + add(k)
  <2> SUFFICES ASSUME NEW k \in 1 .. Bits PROVE low[k] = low[k - 1] + add(k)
    OBVIOUS
  <2>1. k \in 0 .. Bits /\ k # 0
    BY <1>1
  <2> DEFINE r == [i \in 0 .. Bits |-> IF i = 0 THEN 0 ELSE low[i - 1] + add(i)]
  <2>2. r[k] = low[k - 1] + add(k)
    BY <2>1
  <2>3. low = r
    BY <1>8
  <2> HIDE DEF r
  <2> QED BY <2>2, <2>3
<1> HIDE DEF Eq
<1>11. \A k \in 0 .. Bits : low[k] \in Nat
  <2> DEFINE N == {k \in Nat : k <= Bits => low[k] \in Nat}
  <2>1. 0 \in N
    BY <1>9
  <2>2. ASSUME NEW k \in Nat, k \in N PROVE k + 1 \in N
    <3> SUFFICES ASSUME k + 1 <= Bits PROVE low[k + 1] \in Nat
      OBVIOUS
    <3>1. k + 1 \in 1 .. Bits /\ (k + 1) - 1 = k
      BY <1>1
    <3>2. low[k] \in Nat
      BY <1>1, <2>2
    <3> QED BY <1>2, <1>10, <3>1, <3>2
  <2>3. Nat \subseteq N
    <3> HIDE DEF N
    <3> QED BY <2>1, <2>2, SetInduction
  <2> QED BY <1>1, <2>3
<1>12. XorOfLow(a, b, low)
  BY <1>9, <1>10, <1>11 DEF XorOfLow, add
<1> QED BY <1>7, <1>12

\* The xor of the last k bits has no more than k bits.
LEMMA LowIsShort ==
    ASSUME NEW a, NEW b, NEW low, XorOfLow(a, b, low), NEW m \in 0 .. Bits
    PROVE  low[m] < Pow2[m]
<1> DEFINE N == {k \in Nat : k <= Bits => low[k] < Pow2[k]}
<1>1. 0 \in N
  BY Pow2Facts, BitsAssumption DEF XorOfLow
<1>2. ASSUME NEW k \in Nat, k \in N PROVE k + 1 \in N
  <2> SUFFICES ASSUME k + 1 <= Bits PROVE low[k + 1] < Pow2[k + 1]
    OBVIOUS
  <2>1. k + 1 \in 1 .. Bits /\ (k + 1) - 1 = k /\ k \in 0 .. Bits
    BY BitsAssumption
  <2>2. low[k] < Pow2[k]
    BY <1>2, <2>1
  <2>3. low[k] \in Nat /\ Pow2[k] \in Nat /\ Pow2[k + 1] = 2 * Pow2[k]
    BY <2>1, Pow2Facts DEF XorOfLow
  <2>4. low[k + 1] = low[k] \/ low[k + 1] = low[k] + Pow2[k]
    BY <2>1, <2>3 DEF XorOfLow
  <2> QED BY <2>2, <2>3, <2>4
<1>3. Nat \subseteq N
  <2> HIDE DEF N
  <2> QED BY <1>1, <1>2, SetInduction
<1> QED BY <1>3, BitsAssumption

\* An id is nearer than the m-th power of two exactly when only its last m bits differ.
LEMMA DistanceByPrefix ==
    ASSUME NEW a \in Ids, NEW b \in Ids, NEW m \in 0 .. Bits
    PROVE  /\ Distance(a, b) \in Nat
           /\ Distance(a, b) < Pow2[m] <=> a \div Pow2[m] = b \div Pow2[m]
<1>1. PICK low : XorOfLow(a, b, low) /\ Distance(a, b) = low[Bits]
  BY DistanceFacts
<1>2. Bits \in Nat \ {0} /\ a \in Nat /\ b \in Nat
  BY BitsAssumption, IdsHaveBits
<1> DEFINE P(k) == /\ a \div Pow2[k] = b \div Pow2[k] => low[Bits] = low[k]
                   /\ a \div Pow2[k] # b \div Pow2[k] => low[Bits] >= Pow2[k]
           N == {n \in Nat : n <= Bits => P(Bits - n)}
<1>3. 0 \in N
  <2>1. a \div Pow2[Bits] = b \div Pow2[Bits] /\ Bits - 0 = Bits
    BY <1>2, IdsHaveBits
  <2> QED BY <2>1
<1>4. ASSUME NEW n \in Nat, n \in N PROVE n + 1 \in N
  <2> DEFINE k == Bits - (n + 1)
  <2> SUFFICES ASSUME n + 1 <= Bits PROVE P(k)
    OBVIOUS
  <2>1. k \in 0 .. Bits - 1 /\ k + 1 \in 1 .. Bits /\ (k + 1) - 1 = k /\ Bits - n = k + 1
    BY <1>2
  <2>2. P(k + 1)
    BY <1>2, <1>4, <2>1
  <2>3. /\ a \div Pow2[k] \in Nat /\ (a \div Pow2[k]) \div 2 = a \div Pow2[k + 1]
        /\ b \div Pow2[k] \in Nat /\ (b \div Pow2[k]) \div 2 = b \div Pow2[k + 1]
    BY <1>2, <2>1, PrefixHalved
  <2>4. /\ Pow2[k] \in Nat /\ Pow2[k + 1] = 2 * Pow2[k]
        /\ low[k] \in Nat /\ low[k + 1] \in Nat /\ low[Bits] \in Nat
    BY <1>1, <1>2, <2>1, Pow2Facts DEF XorOfLow
  <2>5. low[k + 1] = low[k] + (IF Bit(a, k) = Bit(b, k) THEN 0 ELSE Pow2[k])
    BY <1>1, <2>1 DEF XorOfLow
  <2>6. a \div Pow2[k] = b \div Pow2[k]
           <=> a \div Pow2[k + 1] = b \div Pow2[k + 1] /\ Bit(a, k) = Bit(b, k)
    BY <2>3, HalfAndBit DEF Bit
  <2> HIDE DEF k
  <2>7. CASE a \div Pow2[k + 1] # b \div Pow2[k + 1]
    BY <2>2, <2>4, <2>6, <2>7
  <2>8. CASE a \div Pow2[k + 1] = b \div Pow2[k + 1] /\ Bit(a, k) = Bit(b, k)
    BY <2>2, <2>4, <2>5, <2>6, <2>8
  <2>9. CASE a \div Pow2[k + 1] = b \div Pow2[k + 1] /\ Bit(a, k) # Bit(b, k)
    BY <2>2, <2>4, <2>5, <2>6, <2>9
  <2> QED BY <2>7, <2>8, <2>9
<1>5. Nat \subseteq N
  <2> HIDE DEF N
  <2> QED BY <1>3, <1>4, SetInduction
<1>6. P(m)
  <2>1. Bits - m \in Nat /\ Bits - m <= Bits /\ Bits - (Bits - m) = m
    BY <1>2
  <2> HIDE DEF P
  <2> QED BY <1>5, <2>1
<1>7. low[m] < Pow2[m]
  BY <1>1, LowIsShort
<1>8. low[m] \in Nat /\ low[Bits] \in Nat /\ Pow2[m] \in Nat
  BY <1>1, <1>2, Pow2Facts DEF XorOfLow
<1> QED BY <1>1, <1>6, <1>7, <1>8

-----------------------------------------------------------------------------
(* Halving an interval around the local id.                                *)

Around(local) == {p \in Ids \X Ids : p[1] <= local /\ local <= p[2]}

\* One step of generateBuckets, when f has the results for the halves.
SplitOf(local, f, p) ==
    LET leftEnd == (p[1] + p[2] - 1) \div 2
    IN  IF p[1] = p[2] THEN <<>>
        ELSE IF local <= leftEnd
        THEN <<EmptyBucket(leftEnd + 1, p[2])>> \o f[<<p[1], leftEnd>>]
        ELSE <<EmptyBucket(p[1], leftEnd)>> \o f[<<leftEnd + 1, p[2]>>]

IsSplit(local, f, A) == f = [p \in A |-> SplitOf(local, f, p)]

\* The half that holds the local id is shorter, and an interval of ids.
LEMMA HalfIsAround ==
    ASSUME NEW local \in Ids, NEW p \in Around(local), p[1] # p[2]
    PROVE  LET leftEnd == (p[1] + p[2] - 1) \div 2
           IN  /\ local <= leftEnd => /\ <<p[1], leftEnd>> \in Around(local)
                                      /\ leftEnd - p[1] < p[2] - p[1]
               /\ ~ (local <= leftEnd) => /\ <<leftEnd + 1, p[2]>> \in Around(local)
                                          /\ p[2] - (leftEnd + 1) < p[2] - p[1]
<1> DEFINE top == Pow2[Bits] - 1
           leftEnd == (p[1] + p[2] - 1) \div 2
<1>1. Ids = 0 .. top /\ top \in Nat
  BY Pow2Facts, BitsAssumption DEF Ids
<1>2. p \in Ids \X Ids /\ p[1] <= local /\ local <= p[2]
  BY DEF Around
<1> HIDE DEF top
<1>3. p[1] \in 0 .. top /\ p[2] \in 0 .. top /\ local \in 0 .. top
  BY <1>1, <1>2
<1>4. leftEnd \in 0 .. top /\ p[1] <= leftEnd /\ leftEnd < p[2] /\ leftEnd + 1 \in 0 .. top
  BY <1>1, <1>2, <1>3
<1> HIDE DEF leftEnd
<1>5. local <= leftEnd => <<p[1], leftEnd>> \in Around(local) /\ leftEnd - p[1] < p[2] - p[1]
  BY <1>1, <1>2, <1>3, <1>4 DEF Around
<1>6. ~ (local <= leftEnd) =>
         <<leftEnd + 1, p[2]>> \in Around(local) /\ p[2] - (leftEnd + 1) < p[2] - p[1]
  BY <1>1, <1>2, <1>3, <1>4 DEF Around
<1> QED BY <1>5, <1>6 DEF leftEnd

\* The recursion of generateBuckets ends: its recursive function has a solution.
LEMMA SplitExists ==
    ASSUME NEW local \in Ids
    PROVE  \E f : IsSplit(local, f, Around(local))
<1> DEFINE Upto(n) == {p \in Around(local) : p[2] - p[1] <= n}
           N == {n \in Nat : \E g : IsSplit(local, g, Upto(n))}
           top == Pow2[Bits] - 1
<1>1. Ids = 0 .. top /\ top \in Nat
  BY Pow2Facts, BitsAssumption DEF Ids
<1> HIDE DEF top
<1>2. \A p \in Around(local) : p[1] \in 0 .. top /\ p[2] \in 0 .. top /\ p[1] <= p[2]
  BY <1>1 DEF Around
<1>3. 0 \in N
  <2> DEFINE g == [p \in Upto(0) |-> <<>>]
  <2>1. \A p \in Upto(0) : p[1] = p[2]
    BY <1>2
  <2>2. \A p \in Upto(0) : SplitOf(local, g, p) = <<>>
    BY <2>1 DEF SplitOf
  <2> HIDE DEF Upto
  <2>3. IsSplit(local, g, Upto(0))
    BY <2>2 DEF IsSplit
  <2> QED BY <2>3
<1>4. ASSUME NEW n \in Nat, n \in N PROVE n + 1 \in N
  <2>1. PICK g : IsSplit(local, g, Upto(n))
    BY <1>4
  <2> DEFINE h == [p \in Upto(n + 1) |-> SplitOf(local, g, p)]
  <2>2. \A q \in Upto(n) : q \in Upto(n + 1) /\ h[q] = g[q]
    <3>1. \A q \in Upto(n) : q \in Upto(n + 1)
      BY <1>2
    <3> HIDE DEF Upto
    <3> QED BY <2>1, <3>1 DEF IsSplit
  <2>3. ASSUME NEW p \in Upto(n + 1) PROVE SplitOf(local, g, p) = SplitOf(local, h, p)
    <3> DEFINE leftEnd == (p[1] + p[2] - 1) \div 2
    <3>1. p \in Around(local) /\ p[2] - p[1] <= n + 1
      OBVIOUS
    <3>2. CASE p[1] = p[2]
      BY <3>2 DEF SplitOf
    <3>3. CASE p[1] # p[2] /\ local <= leftEnd
      <4>1. <<p[1], leftEnd>> \in Around(local) /\ leftEnd - p[1] < p[2] - p[1]
        BY <3>1, <3>3, HalfIsAround
      <4>2. <<p[1], leftEnd>>[1] \in Int /\ <<p[1], leftEnd>>[2] \in Int
            /\ p[1] \in Int /\ p[2] \in Int
        BY <1>2, <3>1, <4>1
      <4> HIDE DEF leftEnd
      <4>3. <<p[1], leftEnd>> \in Upto(n)
        BY <3>1, <4>1, <4>2
      <4>4. h[<<p[1], leftEnd>>] = g[<<p[1], leftEnd>>]
        BY <2>2, <4>3
      <4> HIDE DEF h
      <4> QED BY <3>3, <4>4 DEF SplitOf, leftEnd
    <3>4. CASE p[1] # p[2] /\ ~ (local <= leftEnd)
      <4>1. <<leftEnd + 1, p[2]>> \in Around(local) /\ p[2] - (leftEnd + 1) < p[2] - p[1]
        BY <3>1, <3>4, HalfIsAround
      <4>2. <<leftEnd + 1, p[2]>>[1] \in Int /\ <<leftEnd + 1, p[2]>>[2] \in Int
            /\ p[1] \in Int /\ p[2] \in Int
        BY <1>2, <3>1, <4>1
      <4> HIDE DEF leftEnd
      <4>3. <<leftEnd + 1, p[2]>> \in Upto(n)
        BY <3>1, <4>1, <4>2
      <4>4. h[<<leftEnd + 1, p[2]>>] = g[<<leftEnd + 1, p[2]>>]
        BY <2>2, <4>3
      <4> HIDE DEF h
      <4> QED BY <3>4, <4>4 DEF SplitOf, leftEnd
    <3> QED BY <3>2, <3>3, <3>4
  <2> HIDE DEF Upto
  <2>4. IsSplit(local, h, Upto(n + 1))
    BY <2>3 DEF IsSplit
  <2> QED BY <2>4
<1>5. top \in N
  <2> HIDE DEF N
  <2> QED BY <1>1, <1>3, <1>4, SetInduction
<1>6. Upto(top) = Around(local)
  BY <1>1, <1>2
<1> QED BY <1>5, <1>6

-----------------------------------------------------------------------------
(* The buckets, one by one.                                                *)

\* The other prefix of the same length that differs in the last bit.
Sibling(q) == IF q % 2 = 0 THEN q + 1 ELSE q - 1

\* The ids that have the prefix q, without m bits.
Interval(q, m) == <<q * Pow2[m], q * Pow2[m] + Pow2[m] - 1>>

\* The bucket for the ids that differ from the local one in the m-th bit, from 0,
\* and in none above.
BucketAt(local, m) ==
    LET p == Interval(Sibling(local \div Pow2[m]), m)
    IN  EmptyBucket(p[1], p[2])

BucketsFrom(local, k) == [j \in 1 .. k |-> BucketAt(local, k - j)]

\* One halving of the interval of ids that share a prefix with the local id.
LEMMA IntervalHalved ==
    ASSUME NEW local \in Ids, NEW m \in 0 .. Bits - 1
    PROVE  LET q    == local \div Pow2[m]
               p    == Interval(local \div Pow2[m + 1], m + 1)
               leftEnd == (p[1] + p[2] - 1) \div 2
           IN  /\ p[1] # p[2]
               /\ local <= leftEnd =>
                     /\ <<p[1], leftEnd>> = Interval(q, m)
                     /\ <<leftEnd + 1, p[2]>> = Interval(Sibling(q), m)
               /\ ~ (local <= leftEnd) =>
                     /\ <<leftEnd + 1, p[2]>> = Interval(q, m)
                     /\ <<p[1], leftEnd>> = Interval(Sibling(q), m)
<1> DEFINE q == local \div Pow2[m]
           r == local \div Pow2[m + 1]
           d == Pow2[m]
           p == Interval(r, m + 1)
           leftEnd == (p[1] + p[2] - 1) \div 2
<1>1. /\ local \in Nat /\ q \in Nat /\ r = q \div 2
      /\ d \in Nat \ {0} /\ Pow2[m + 1] = 2 * d /\ r \in Nat
  <2>1. local \in Nat
    BY IdsHaveBits
  <2>2. q \in Nat /\ r = q \div 2
    BY <2>1, PrefixHalved
  <2>3. m \in 0 .. Bits /\ m + 1 \in 1 .. Bits /\ (m + 1) - 1 = m
    BY BitsAssumption
  <2>4. d \in Nat \ {0} /\ Pow2[m + 1] = 2 * d
    BY <2>3, Pow2Facts
  <2> HIDE DEF q, r, d
  <2> QED BY <2>1, <2>2, <2>4
<1>2. d * q <= local /\ local <= d * q + d - 1
  <2> HIDE DEF d
  <2> QED BY <1>1, QuotientIs DEF d
<1>3. p[1] = r * (2 * d) /\ p[2] = r * (2 * d) + 2 * d - 1
  BY <1>1 DEF Interval
<1> HIDE DEF p, q, r, d
<1>4. r * d \in Nat /\ q * d \in Nat /\ r * (2 * d) = 2 * (r * d) /\ d * q = q * d
  BY <1>1
<1>5. leftEnd = 2 * (r * d) + d - 1
  BY <1>1, <1>3, <1>4
<1> HIDE DEF leftEnd
<1>6. CASE q = 2 * r
  <2>1. Sibling(q) = q + 1
    BY <1>1, <1>6 DEF Sibling
  <2>2. q * d = 2 * (r * d) /\ (q + 1) * d = q * d + d
    BY <1>1, <1>6
  <2>3. local <= leftEnd
    BY <1>1, <1>2, <1>4, <1>5, <2>2
  <2>4. /\ Interval(q, m) = <<q * d, q * d + d - 1>>
        /\ Interval(Sibling(q), m) = <<(q + 1) * d, (q + 1) * d + d - 1>>
    BY <2>1 DEF Interval, d
  <2>5. /\ p[1] = q * d /\ leftEnd = q * d + d - 1
        /\ leftEnd + 1 = (q + 1) * d /\ p[2] = (q + 1) * d + d - 1
    BY <1>1, <1>3, <1>4, <1>5, <2>2
  <2> QED BY <1>1, <2>3, <2>4, <2>5 DEF p, q, r, leftEnd
<1>7. CASE q = 2 * r + 1
  <2>1. Sibling(q) = q - 1
    BY <1>1, <1>7 DEF Sibling
  <2>2. q * d = 2 * (r * d) + d /\ (q - 1) * d = 2 * (r * d)
    BY <1>1, <1>7
  <2>3. ~ (local <= leftEnd)
    BY <1>1, <1>2, <1>4, <1>5, <2>2
  <2>4. /\ Interval(q, m) = <<q * d, q * d + d - 1>>
        /\ Interval(Sibling(q), m) = <<(q - 1) * d, (q - 1) * d + d - 1>>
    BY <2>1 DEF Interval, d
  <2>5. /\ p[1] = (q - 1) * d /\ leftEnd = (q - 1) * d + d - 1
        /\ leftEnd + 1 = q * d /\ p[2] = q * d + d - 1
    BY <1>1, <1>3, <1>4, <1>5, <2>2
  <2> QED BY <1>1, <1>4, <2>3, <2>4, <2>5, <1>5 DEF p, q, r, leftEnd
<1> QED BY <1>1, <1>6, <1>7

\* generateBuckets makes Bits buckets, the n-th of them for the ids that leave the
\* local one at the n-th bit.
LEMMA GenerateBucketsIs ==
    ASSUME NEW local \in Ids
    PROVE  GenerateBuckets(local) = BucketsFrom(local, Bits)
<1> DEFINE f == CHOOSE g : IsSplit(local, g, Around(local))
           top == Pow2[Bits] - 1
           At(m) == Interval(local \div Pow2[m], m)
           N == {m \in Nat : m <= Bits /\ At(m) \in Around(local)
                                => f[At(m)] = BucketsFrom(local, m)}
<1>1. GenerateBuckets(local) = f[<<0, top>>]
  BY Zenon DEF GenerateBuckets, IsSplit, SplitOf, Around
<1>2. IsSplit(local, f, Around(local))
  <2> QED BY SplitExists
<1> HIDE DEF f
<1>3. \A p \in Around(local) : f[p] = SplitOf(local, f, p)
  BY <1>2 DEF IsSplit
<1>4. 0 \in N
  <2> SUFFICES ASSUME At(0) \in Around(local) PROVE f[At(0)] = BucketsFrom(local, 0)
    OBVIOUS
  <2>1. local \in Nat /\ local \div Pow2[0] \in Nat /\ Pow2[0] = 1
    BY IdsHaveBits, Pow2Facts, BitsAssumption
  <2>2. At(0)[1] = At(0)[2]
    BY <2>1 DEF Interval
  <2>3. f[At(0)] = <<>>
    BY <1>3, <2>2 DEF SplitOf
  <2> QED BY <2>3 DEF BucketsFrom
<1>5. ASSUME NEW m \in Nat, m \in N PROVE m + 1 \in N
  <2> SUFFICES ASSUME m + 1 <= Bits, At(m + 1) \in Around(local)
               PROVE  f[At(m + 1)] = BucketsFrom(local, m + 1)
    OBVIOUS
  <2> DEFINE p == At(m + 1)
             q == local \div Pow2[m]
             leftEnd == (p[1] + p[2] - 1) \div 2
  <2>1. m \in 0 .. Bits - 1
    BY BitsAssumption
  <2>2. /\ p[1] # p[2]
        /\ local <= leftEnd =>
              <<p[1], leftEnd>> = At(m) /\ <<leftEnd + 1, p[2]>> = Interval(Sibling(q), m)
        /\ ~ (local <= leftEnd) =>
              <<leftEnd + 1, p[2]>> = At(m) /\ <<p[1], leftEnd>> = Interval(Sibling(q), m)
    BY <2>1, IntervalHalved
  <2>3. p \in Around(local)
    OBVIOUS
  <2> HIDE DEF p
  <2>4. At(m) \in Around(local)
    BY <2>2, <2>3, HalfIsAround
  <2>5. f[p] = <<BucketAt(local, m)>> \o f[At(m)]
    <3> DEFINE s == Interval(Sibling(q), m)
    <3>1. BucketAt(local, m) = EmptyBucket(s[1], s[2])
      BY DEF BucketAt
    <3>2. f[p] = SplitOf(local, f, p)
      BY <1>3, <2>3
    <3> HIDE DEF leftEnd, At, s, q
    <3>3. CASE local <= leftEnd
      <4>1. s = <<leftEnd + 1, p[2]>> /\ At(m) = <<p[1], leftEnd>>
        BY <2>2, <3>3 DEF s
      <4> QED BY <2>2, <3>1, <3>2, <3>3, <4>1 DEF SplitOf, leftEnd
    <3>4. CASE ~ (local <= leftEnd)
      <4>1. s = <<p[1], leftEnd>> /\ At(m) = <<leftEnd + 1, p[2]>>
        BY <2>2, <3>4 DEF s
      <4> QED BY <2>2, <3>1, <3>2, <3>4, <4>1 DEF SplitOf, leftEnd
    <3> QED BY <3>3, <3>4
  <2>6. f[At(m)] = BucketsFrom(local, m)
    BY <1>5, <2>1, <2>4, BitsAssumption
  <2> HIDE DEF At
  <2>7. <<BucketAt(local, m)>> \o BucketsFrom(local, m) = BucketsFrom(local, m + 1)
    <3> DEFINE B(k) == BucketAt(local, k)
               s == BucketsFrom(local, m)
               S == {B(k) : k \in Nat}
    <3>1. s = [j \in 1 .. m |-> B(m - j)] /\ BucketsFrom(local, m + 1) = [j \in 1 .. m + 1 |-> B(m + 1 - j)]
      BY DEF BucketsFrom
    <3> HIDE DEF B, s
    <3>2. s \in Seq(S) /\ Len(s) = m /\ <<B(m)>> \in Seq(S)
      <4>1. \A k \in Nat : B(k) \in S
        OBVIOUS
      <4>2. \A j \in 1 .. m : s[j] \in S
        <5> SUFFICES ASSUME NEW j \in 1 .. m PROVE s[j] \in S
          OBVIOUS
        <5>1. m - j \in Nat /\ s[j] = B(m - j)
          BY <3>1
        <5> QED BY <4>1, <5>1
      <4>3. B(m) \in S
        BY <4>1
      <4> HIDE DEF S
      <4>4. s = [j \in 1 .. m |-> s[j]]
        BY <3>1
      <4> QED BY <4>2, <4>3, <4>4
    <3> HIDE DEF S
    <3>3. <<B(m)>> \o s \in Seq(S) /\ Len(<<B(m)>> \o s) = m + 1
      BY <3>2
    <3>4. \A j \in 1 .. m + 1 : (<<B(m)>> \o s)[j] = B(m + 1 - j)
      <4> SUFFICES ASSUME NEW j \in 1 .. m + 1 PROVE (<<B(m)>> \o s)[j] = B(m + 1 - j)
        OBVIOUS
      <4>1. CASE j = 1
        <5>1. m + 1 - j = m
          BY <4>1
        <5> QED BY <3>2, <4>1, <5>1
      <4>2. CASE j # 1
        <5>1. j - 1 \in 1 .. m /\ m - (j - 1) = m + 1 - j
          BY <4>2
        <5>2. (<<B(m)>> \o s)[j] = s[j - 1]
          BY <3>2, <4>2
        <5> QED BY <3>1, <5>1, <5>2
      <4> QED BY <4>1, <4>2
    <3>5. <<B(m)>> \o s = [j \in 1 .. m + 1 |-> (<<B(m)>> \o s)[j]]
      BY <3>3
    <3> QED BY <3>1, <3>4, <3>5 DEF B, s
  <2> QED BY <2>5, <2>6, <2>7 DEF p
<1>6. Nat \subseteq N
  <2> HIDE DEF N
  <2> QED BY <1>4, <1>5, SetInduction
<1>7. At(Bits) = <<0, top>>
  <2>1. local \div Pow2[Bits] = 0 /\ Pow2[Bits] \in Nat
    BY IdsHaveBits, Pow2Facts, BitsAssumption
  <2> QED BY <2>1 DEF Interval
<1>8. <<0, top>> \in Around(local)
  BY Pow2Facts, BitsAssumption DEF Around, Ids
<1> QED BY <1>1, <1>6, <1>7, <1>8, BitsAssumption

\* The ids of a bucket are those that agree with the local id down to a bit, and
\* differ in it.
LEMMA BucketByPrefix ==
    ASSUME NEW local \in Ids, NEW id \in Ids, NEW m \in 0 .. Bits - 1
    PROVE  WithinRange(BucketAt(local, m), id)
              <=> /\ id \div Pow2[m] # local \div Pow2[m]
                  /\ id \div Pow2[m + 1] = local \div Pow2[m + 1]
<1> DEFINE d == Pow2[m]
           q == local \div d
           x == id \div d
<1>1. /\ local \in Nat /\ id \in Nat /\ q \in Nat /\ x \in Nat
      /\ q \div 2 = local \div Pow2[m + 1] /\ x \div 2 = id \div Pow2[m + 1]
  BY IdsHaveBits, PrefixHalved
<1>2. d \in Nat \ {0}
  BY Pow2Facts, BitsAssumption
<1>3. Sibling(q) \in Nat
  BY <1>1 DEF Sibling
<1>4. WithinRange(BucketAt(local, m), id)
         <=> Sibling(q) * d <= id /\ id <= Sibling(q) * d + d - 1
  BY DEF WithinRange, BucketAt, EmptyBucket, Interval
<1>5. WithinRange(BucketAt(local, m), id) <=> x = Sibling(q)
  <2>1. x = Sibling(q) <=> d * Sibling(q) <= id /\ id <= d * Sibling(q) + d - 1
    <3> HIDE DEF d, q
    <3> QED BY <1>1, <1>2, <1>3, QuotientIs
  <2>2. d * Sibling(q) = Sibling(q) * d
    <3> HIDE DEF d
    <3> QED BY <1>2, <1>3
  <2> QED BY <1>4, <2>1, <2>2
<1>6. x = Sibling(q) <=> x # q /\ x \div 2 = q \div 2
  <2> HIDE DEF x, q
  <2> QED BY <1>1 DEF Sibling
<1> QED BY <1>1, <1>5, <1>6

\* The same by the xor metric.
LEMMA BucketByDistance ==
    ASSUME NEW local \in Ids, NEW id \in Ids, NEW m \in 0 .. Bits - 1
    PROVE  WithinRange(BucketAt(local, m), id)
              <=> Pow2[m] <= Distance(id, local) /\ Distance(id, local) < Pow2[m + 1]
<1>1. m \in 0 .. Bits /\ m + 1 \in 0 .. Bits /\ Pow2[m] \in Nat
  BY Pow2Facts, BitsAssumption
<1>2. /\ Distance(id, local) \in Nat
      /\ Distance(id, local) < Pow2[m] <=> id \div Pow2[m] = local \div Pow2[m]
      /\ Distance(id, local) < Pow2[m + 1] <=> id \div Pow2[m + 1] = local \div Pow2[m + 1]
  BY <1>1, DistanceByPrefix
<1>3. WithinRange(BucketAt(local, m), id)
         <=> Distance(id, local) < Pow2[m + 1] /\ ~ (Distance(id, local) < Pow2[m])
  BY <1>2, BucketByPrefix
<1> HIDE DEF Distance, Pow2
<1> QED BY <1>1, <1>2, <1>3

\* Every interval around the local id that generateBuckets comes to is one of ids.
LEMMA IntervalsAround ==
    ASSUME NEW local \in Ids, NEW m \in 0 .. Bits
    PROVE  Interval(local \div Pow2[m], m) \in Around(local)
<1> DEFINE At(k) == Interval(local \div Pow2[k], k)
           N == {n \in Nat : n <= Bits => At(Bits - n) \in Around(local)}
<1>1. 0 \in N
  <2>1. local \div Pow2[Bits] = 0 /\ Pow2[Bits] \in Nat \ {0}
    BY IdsHaveBits, Pow2Facts, BitsAssumption
  <2>2. At(Bits) = <<0, Pow2[Bits] - 1>>
    BY <2>1 DEF Interval
  <2>3. At(Bits) \in Around(local)
    BY <2>1, <2>2 DEF Around, Ids
  <2> QED BY <2>3, BitsAssumption
<1>2. ASSUME NEW n \in Nat, n \in N PROVE n + 1 \in N
  <2> SUFFICES ASSUME n + 1 <= Bits PROVE At(Bits - (n + 1)) \in Around(local)
    OBVIOUS
  <2> DEFINE k == Bits - (n + 1)
             p == At(k + 1)
             leftEnd == (p[1] + p[2] - 1) \div 2
  <2>1. k \in 0 .. Bits - 1 /\ Bits - n = k + 1
    BY BitsAssumption
  <2>2. p \in Around(local)
    BY <1>2, <2>1, BitsAssumption
  <2> HIDE DEF k
  <2>3. /\ p[1] # p[2]
        /\ local <= leftEnd => <<p[1], leftEnd>> = At(k)
        /\ ~ (local <= leftEnd) => <<leftEnd + 1, p[2]>> = At(k)
    BY <2>1, IntervalHalved
  <2> HIDE DEF p
  <2>4. At(k) \in Around(local)
    BY <2>2, <2>3, HalfIsAround
  <2> QED BY <2>4 DEF k
<1>3. Bits - m \in N
  <2> HIDE DEF N
  <2>1. Nat \subseteq N
    BY <1>1, <1>2, SetInduction
  <2> QED BY <2>1, BitsAssumption
<1>4. Bits - m \in Nat /\ Bits - m <= Bits /\ Bits - (Bits - m) = m
  BY BitsAssumption
<1> QED BY <1>3, <1>4

\* Every bucket starts and ends with an id.
LEMMA BucketAtType ==
    ASSUME NEW local \in Ids, NEW m \in 0 .. Bits - 1
    PROVE  BucketAt(local, m) \in Bucket /\ BucketAt(local, m).nodes = <<>>
<1> DEFINE top == Pow2[Bits] - 1
           p == Interval(local \div Pow2[m + 1], m + 1)
           leftEnd == (p[1] + p[2] - 1) \div 2
           s == Interval(Sibling(local \div Pow2[m]), m)
<1>1. Ids = 0 .. top /\ top \in Nat
  BY Pow2Facts, BitsAssumption DEF Ids
<1>2. p \in Around(local)
  BY IntervalsAround, BitsAssumption
<1>3. p[1] # p[2] /\ (s = <<leftEnd + 1, p[2]>> \/ s = <<p[1], leftEnd>>)
  BY IntervalHalved
<1> HIDE DEF p, s, top
<1>4. p[1] \in 0 .. top /\ p[2] \in 0 .. top /\ p[1] <= local /\ local <= p[2]
      /\ local \in 0 .. top
  BY <1>1, <1>2 DEF Around
<1>5. leftEnd \in 0 .. top /\ leftEnd + 1 \in 0 .. top
  BY <1>1, <1>3, <1>4
<1> HIDE DEF leftEnd
<1>6. s[1] \in Ids /\ s[2] \in Ids
  BY <1>1, <1>3, <1>4, <1>5
<1>7. BucketAt(local, m) = EmptyBucket(s[1], s[2])
  BY DEF BucketAt, s
<1> QED BY <1>6, <1>7 DEF EmptyBucket, Bucket

=============================================================================
