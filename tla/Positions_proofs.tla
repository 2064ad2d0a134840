---------------------------- MODULE Positions_proofs ----------------------------
(***************************************************************************)
(* Lemmas about the operators of Positions: that Listed enumerates its     *)
(* set, what Kept leaves of a sequence, and when that is a suffix.  And    *)
(* two facts about recursion on numbers, for what the model computes step  *)
(* after step, as a loop of the code does (addList, the loops over the     *)
(* nodes of a bucket, the halving of generateBuckets).                     *)
(***************************************************************************)
EXTENDS Positions, FiniteSetTheorems, SequenceTheorems, WellFoundedInduction, TLAPS

StrictTotalOn(R, K) ==
    /\ \A i \in K : <<i, i>> \notin R
    /\ \A i, j \in K : i # j => <<i, j>> \in R \/ <<j, i>> \in R
    /\ \A i, j, k \in K : <<i, j>> \in R /\ <<j, k>> \in R => <<i, k>> \in R

\* The members of K before i in the order R.
Below(i, K, R) == {j \in K : <<j, i>> \in R}

-----------------------------------------------------------------------------
(* Listed.                                                                 *)

\* The ranks of the members of a finite set in a strict total order are the
\* numbers from 0 to its size less one, each taken once, in that order.
LEMMA Ranks ==
    ASSUME NEW K, IsFiniteSet(K), NEW R, StrictTotalOn(R, K)
    PROVE  /\ \A i \in K : Cardinality(Below(i, K, R)) \in 0 .. Cardinality(K) - 1
           /\ \A i, j \in K :
                 <<i, j>> \in R =>
                     Cardinality(Below(i, K, R)) < Cardinality(Below(j, K, R))
           /\ \A k \in 1 .. Cardinality(K) :
                 \E i \in K : Cardinality(Below(i, K, R)) = k - 1
<1> DEFINE n == Cardinality(K)
           rank == [i \in K |-> Cardinality(Below(i, K, R)) + 1]
<1>1. n \in Nat
  BY FS_CardinalityType
<1>2. ASSUME NEW i \in K
      PROVE  /\ IsFiniteSet(Below(i, K, R))
             /\ Cardinality(Below(i, K, R)) \in Nat
             /\ Cardinality(Below(i, K, R)) < n
  <2>1. Below(i, K, R) \in SUBSET K /\ i \notin Below(i, K, R)
    BY DEF Below, StrictTotalOn
  <2>2. /\ IsFiniteSet(Below(i, K, R))
        /\ Cardinality(Below(i, K, R)) <= n
        /\ n = Cardinality(Below(i, K, R)) => K = Below(i, K, R)
    BY <2>1, FS_Subset
  <2>3. Cardinality(Below(i, K, R)) \in Nat
    BY <2>2, FS_CardinalityType
  <2> QED
    BY <2>1, <2>2, <2>3, <1>1
<1>3. ASSUME NEW i \in K, NEW j \in K, <<i, j>> \in R
      PROVE  Cardinality(Below(i, K, R)) < Cardinality(Below(j, K, R))
  <2>1. Below(i, K, R) \in SUBSET Below(j, K, R)
    BY <1>3 DEF Below, StrictTotalOn
  <2>2. i \in Below(j, K, R) /\ i \notin Below(i, K, R)
    BY <1>3 DEF Below, StrictTotalOn
  <2>3. /\ Cardinality(Below(i, K, R)) <= Cardinality(Below(j, K, R))
        /\ Cardinality(Below(j, K, R)) = Cardinality(Below(i, K, R))
              => Below(j, K, R) = Below(i, K, R)
    BY <2>1, <1>2, FS_Subset
  <2> QED
    BY <2>2, <2>3, <1>2
<1>4. rank \in Injection(K, 1 .. n)
  <2>1. rank \in [K -> 1 .. n]
    BY <1>1, <1>2
  <2>2. ASSUME NEW i \in K, NEW j \in K, i # j
        PROVE  rank[i] # rank[j]
    <3>1. <<i, j>> \in R \/ <<j, i>> \in R
      BY <2>2 DEF StrictTotalOn
    <3> QED
      BY <3>1, <1>3, <1>2
  <2> QED
    BY <2>1, <2>2 DEF Injection, IsInjective
<1>5. rank \in Surjection(K, 1 .. n)
  <2>1. IsFiniteSet(1 .. n) /\ Cardinality(1 .. n) = n
    BY <1>1, FS_Interval
  <2> QED
    BY <2>1, <1>4, FS_Injection
<1>6. ASSUME NEW k \in 1 .. n
      PROVE  \E i \in K : Cardinality(Below(i, K, R)) = k - 1
  <2>1. PICK i \in K : rank[i] = k
    BY <1>5 DEF Surjection
  <2> QED
    BY <2>1, <1>2, <1>1
<1> QED
  BY <1>1, <1>2, <1>3, <1>6

\* Listed enumerates its set: every member once, in the order.
LEMMA ListedProperties ==
    ASSUME NEW K, IsFiniteSet(K), NEW R, StrictTotalOn(R, K)
    PROVE  /\ Cardinality(K) \in Nat
           /\ Listed(K, R) \in [1 .. Cardinality(K) -> K]
           /\ \A k, l \in 1 .. Cardinality(K) :
                 k < l => <<Listed(K, R)[k], Listed(K, R)[l]>> \in R
           /\ \A k, l \in 1 .. Cardinality(K) :
                 Listed(K, R)[k] = Listed(K, R)[l] => k = l
           /\ \A i \in K : \E k \in 1 .. Cardinality(K) : Listed(K, R)[k] = i
           /\ \A k \in 1 .. Cardinality(K) :
                 Cardinality(Below(Listed(K, R)[k], K, R)) = k - 1
<1> DEFINE n == Cardinality(K)
           L == Listed(K, R)
<1>1. n \in Nat
  BY FS_CardinalityType
<1>2. ASSUME NEW k \in 1 .. n
      PROVE  L[k] \in K /\ Cardinality(Below(L[k], K, R)) = k - 1
  <2>1. L[k] = CHOOSE i \in K : Cardinality(Below(i, K, R)) = k - 1
    BY DEF Listed, Below
  <2>2. \E i \in K : Cardinality(Below(i, K, R)) = k - 1
    BY Ranks
  <2> QED
    BY <2>1, <2>2
<1>3. L \in [1 .. n -> K]
  <2> DEFINE F(k) == CHOOSE i \in K : Cardinality({j \in K : <<j, i>> \in R}) = k - 1
  <2>1. L = [k \in 1 .. n |-> F(k)]
    BY DEF Listed
  <2> HIDE DEF F, L
  <2>2. \A k \in 1 .. n : F(k) \in K
    BY <2>1, <1>2
  <2> QED
    BY <2>1, <2>2
<1>4. ASSUME NEW k \in 1 .. n, NEW l \in 1 .. n, L[k] = L[l]
      PROVE  k = l
  BY <1>4, <1>2, <1>1
<1>5. ASSUME NEW k \in 1 .. n, NEW l \in 1 .. n, k < l
      PROVE  <<L[k], L[l]>> \in R
  <2>1. L[k] # L[l]
    BY <1>4, <1>5, <1>1
  <2>2. CASE <<L[l], L[k]>> \in R
    <3>1. Cardinality(Below(L[l], K, R)) < Cardinality(Below(L[k], K, R))
      BY <2>2, <1>2, Ranks
    <3> QED
      BY <3>1, <1>2, <1>5, <1>1
  <2> QED
    BY <2>1, <2>2, <1>2 DEF StrictTotalOn
<1>6. ASSUME NEW i \in K
      PROVE  \E k \in 1 .. n : L[k] = i
  <2> DEFINE k == Cardinality(Below(i, K, R)) + 1
  <2>1. k \in 1 .. n
    BY Ranks, <1>1
  <2>2. Cardinality(Below(L[k], K, R)) = Cardinality(Below(i, K, R))
    BY <2>1, <1>2, Ranks
  <2>3. L[k] = i
    <3>1. L[k] \in K
      BY <2>1, <1>2
    <3>2. /\ Cardinality(Below(L[k], K, R)) \in Int
          /\ <<L[k], i>> \in R => Cardinality(Below(L[k], K, R)) < Cardinality(Below(i, K, R))
          /\ <<i, L[k]>> \in R => Cardinality(Below(i, K, R)) < Cardinality(Below(L[k], K, R))
      BY <3>1, Ranks
    <3> QED
      BY <3>1, <3>2, <2>2 DEF StrictTotalOn
  <2> QED
    BY <2>1, <2>3
<1> QED
  BY <1>1, <1>2, <1>3, <1>4, <1>5, <1>6

-----------------------------------------------------------------------------
(* Kept.                                                                   *)

\* The order of positions is strict and total.
LEMMA PositionsAreTotal ==
    ASSUME NEW S, NEW m \in Seq(S), NEW K \in SUBSET DOMAIN m
    PROVE  IsFiniteSet(K) /\ StrictTotalOn(ByPosition(m), K)
<1>1. DOMAIN m = 1 .. Len(m) /\ Len(m) \in Nat
  BY LenProperties
<1>2. IsFiniteSet(1 .. Len(m))
  BY <1>1, FS_Interval
<1>3. IsFiniteSet(K)
  BY <1>1, <1>2, FS_Subset
<1>4. StrictTotalOn(ByPosition(m), K)
  BY <1>1 DEF StrictTotalOn, ByPosition
<1> QED
  BY <1>3, <1>4

\* What stays of a sequence stays in its order.
LEMMA KeptProperties ==
    ASSUME NEW S, NEW m \in Seq(S), NEW K \in SUBSET DOMAIN m
    PROVE  LET L == Listed(K, ByPosition(m))
           IN  /\ Cardinality(K) \in Nat
               /\ Kept(m, K) \in Seq(S)
               /\ Len(Kept(m, K)) = Cardinality(K)
               /\ \A k \in 1 .. Cardinality(K) : L[k] \in K /\ Kept(m, K)[k] = m[L[k]]
               /\ \A k, l \in 1 .. Cardinality(K) : k < l => L[k] < L[l]
               /\ \A i \in K : \E k \in 1 .. Cardinality(K) : L[k] = i
<1> DEFINE L == Listed(K, ByPosition(m))
           n == Cardinality(K)
<1>1. /\ n \in Nat
      /\ L \in [1 .. n -> K]
      /\ \A k, l \in 1 .. n : k < l => <<L[k], L[l]>> \in ByPosition(m)
      /\ \A i \in K : \E k \in 1 .. n : L[k] = i
  BY PositionsAreTotal, ListedProperties
<1>2. Kept(m, K) = [k \in 1 .. n |-> m[L[k]]]
  BY DEF Kept
<1> HIDE DEF L, n
<1>3. \A k \in 1 .. n : m[L[k]] \in S
  <2>1. \A i \in DOMAIN m : m[i] \in S
    BY ElementOfSeq, LenProperties
  <2> QED
    BY <1>1, <2>1
<1>4. Kept(m, K) \in Seq(S) /\ Len(Kept(m, K)) = n
  BY <1>1, <1>2, <1>3
<1>5. \A k, l \in 1 .. n : k < l => L[k] < L[l]
  BY <1>1 DEF ByPosition
<1> QED
  BY <1>1, <1>2, <1>4, <1>5 DEF L, n

\* Dropping the first d elements of a sequence leaves its suffix.
LEMMA KeptSuffix ==
    ASSUME NEW S, NEW m \in Seq(S), NEW d \in 0 .. Len(m)
    PROVE  Kept(m, (DOMAIN m) \ (1 .. d)) = SubSeq(m, d + 1, Len(m))
<1> DEFINE n == Len(m)
           C == (DOMAIN m) \ (1 .. d)
           L == Listed(C, ByPosition(m))
<1>1. DOMAIN m = 1 .. n /\ n \in Nat
  BY LenProperties
<1>2. C = d + 1 .. n
  BY <1>1
<1>3. Cardinality(C) = n - d
  <2>1. d + 1 \in Int /\ n \in Int /\ d <= n
    BY <1>1
  <2>2. Cardinality(d + 1 .. n) = IF d + 1 > n THEN 0 ELSE n - (d + 1) + 1
    BY <2>1, FS_Interval
  <2> HIDE DEF n, C
  <2> QED
    BY <2>1, <2>2, <1>2
<1>4. /\ L \in [1 .. n - d -> C]
      /\ \A k \in 1 .. n - d : Cardinality(Below(L[k], C, ByPosition(m))) = k - 1
  <2>1. IsFiniteSet(C) /\ StrictTotalOn(ByPosition(m), C)
    BY PositionsAreTotal
  <2> HIDE DEF C
  <2> QED
    BY <2>1, <1>3, ListedProperties
<1>5. ASSUME NEW i \in C
      PROVE  Cardinality(Below(i, C, ByPosition(m))) = i - 1 - d
  <2>1. Below(i, C, ByPosition(m)) = d + 1 .. i - 1
    BY <1>1, <1>2 DEF Below, ByPosition
  <2>2. d + 1 \in Int /\ i - 1 \in Int /\ i >= d + 1
    BY <1>1, <1>2
  <2>3. Cardinality(d + 1 .. i - 1) = IF d + 1 > i - 1 THEN 0 ELSE (i - 1) - (d + 1) + 1
    BY <2>2, FS_Interval
  <2> QED
    BY <2>1, <2>2, <2>3
<1> HIDE DEF L
<1>6. \A k \in 1 .. n - d : L[k] = d + k
  <2>1. ASSUME NEW k \in 1 .. n - d
        PROVE  L[k] = d + k
    <3>1. L[k] \in C
      BY <1>4
    <3>2. L[k] - 1 - d = k - 1
      BY <3>1, <1>4, <1>5
    <3>3. L[k] \in Int
      BY <3>1, <1>2
    <3> QED
      BY <3>2, <3>3, <1>1
  <2> QED
    BY <2>1
<1>7. /\ Kept(m, C) \in Seq(S)
      /\ Len(Kept(m, C)) = n - d
      /\ \A k \in 1 .. n - d : Kept(m, C)[k] = m[L[k]]
  <2>1. C \in SUBSET DOMAIN m
    OBVIOUS
  <2> HIDE DEF C
  <2> QED
    BY <2>1, <1>3, KeptProperties DEF L
<1>8. /\ SubSeq(m, d + 1, n) \in Seq(S)
      /\ Len(SubSeq(m, d + 1, n)) = n - d
      /\ \A k \in 1 .. n - d : SubSeq(m, d + 1, n)[k] = m[d + k]
  <2>1. \A i \in d + 1 .. n : m[i] \in S
    BY <1>1, ElementOfSeq
  <2>2. d + 1 \in Int /\ n \in Int /\ n - (d + 1) + 1 = n - d
    BY <1>1
  <2>3. /\ SubSeq(m, d + 1, n) \in Seq(S)
        /\ Len(SubSeq(m, d + 1, n)) = IF d + 1 <= n THEN n - (d + 1) + 1 ELSE 0
        /\ \A k \in 1 .. n - (d + 1) + 1 : SubSeq(m, d + 1, n)[k] = m[(d + 1) + k - 1]
    BY <2>1, <2>2, SubSeqProperties
  <2> DEFINE s == SubSeq(m, d + 1, n)
  <2> HIDE DEF s, n
  <2>4. Len(s) = n - d
    BY <2>2, <2>3, <1>1 DEF s
  <2>5. ASSUME NEW k \in 1 .. n - d
        PROVE  s[k] = m[d + k]
    <3>1. s[k] = m[(d + 1) + k - 1] /\ (d + 1) + k - 1 = d + k
      BY <2>2, <2>3, <1>1 DEF s
    <3> QED
      BY <3>1
  <2> QED
    BY <2>3, <2>4, <2>5 DEF s
<1> HIDE DEF C, n
<1>9. Kept(m, C) = SubSeq(m, d + 1, n)
  <2> DEFINE k1 == Kept(m, C)
             k2 == SubSeq(m, d + 1, n)
  <2>1. /\ k1 \in Seq(S) /\ k2 \in Seq(S)
        /\ Len(k1) = Len(k2)
        /\ \A i \in 1 .. Len(k1) : k1[i] = k2[i]
    BY <1>6, <1>7, <1>8
  <2> HIDE DEF k1, k2
  <2>2. k1 = k2
    BY <2>1, SeqEqual
  <2> QED
    BY <2>2 DEF k1, k2
<1> QED
  BY <1>9 DEF C, n

\* Dropping all but the first p elements of a sequence leaves these.
LEMMA KeptPrefix ==
    ASSUME NEW S, NEW m \in Seq(S), NEW p \in 0 .. Len(m)
    PROVE  /\ Kept(m, 1 .. p) \in Seq(S)
           /\ Len(Kept(m, 1 .. p)) = p
           /\ \A k \in 1 .. p : Kept(m, 1 .. p)[k] = m[k]
<1> DEFINE C == 1 .. p
           L == Listed(C, ByPosition(m))
<1>1. DOMAIN m = 1 .. Len(m) /\ Len(m) \in Nat /\ p \in Nat
  BY LenProperties
<1>2. C \in SUBSET DOMAIN m
  BY <1>1
<1>3. Cardinality(C) = p
  BY <1>1, FS_Interval
<1>4. /\ L \in [1 .. p -> C]
      /\ \A k \in 1 .. p : Cardinality(Below(L[k], C, ByPosition(m))) = k - 1
  <2>1. IsFiniteSet(C) /\ StrictTotalOn(ByPosition(m), C)
    BY <1>2, PositionsAreTotal
  <2> HIDE DEF C
  <2> QED
    BY <2>1, <1>3, ListedProperties
<1>5. ASSUME NEW i \in C
      PROVE  Cardinality(Below(i, C, ByPosition(m))) = i - 1
  <2>1. Below(i, C, ByPosition(m)) = 1 .. i - 1
    BY <1>1 DEF Below, ByPosition
  <2>2. Cardinality(1 .. i - 1) = i - 1
    BY <1>1, FS_Interval
  <2> QED
    BY <2>1, <2>2
<1>6. \A k \in 1 .. p : L[k] = k
  <2>1. ASSUME NEW k \in 1 .. p
        PROVE  L[k] = k
    <3>1. L[k] \in C
      BY <1>4
    <3>2. L[k] - 1 = k - 1 /\ L[k] \in Int
      BY <3>1, <1>4, <1>5
    <3> HIDE DEF L
    <3> QED
      BY <3>2
  <2> QED
    BY <2>1
<1> HIDE DEF L, C
<1>7. /\ Kept(m, C) \in Seq(S)
      /\ Len(Kept(m, C)) = p
      /\ \A k \in 1 .. p : Kept(m, C)[k] = m[L[k]]
  BY <1>2, <1>3, KeptProperties DEF L
<1> QED
  BY <1>6, <1>7 DEF C

\* A set of positions with every position before one of its members is a prefix.
LEMMA DownwardClosed ==
    ASSUME NEW n \in Nat, NEW P \in SUBSET (1 .. n),
           \A i \in P : \A j \in 1 .. n : j < i => j \in P
    PROVE  Cardinality(P) \in 0 .. n /\ P = 1 .. Cardinality(P)
<1>1. IsFiniteSet(1 .. n) /\ Cardinality(1 .. n) = n
  BY FS_Interval
<1>2. IsFiniteSet(P) /\ Cardinality(P) \in Nat /\ Cardinality(P) <= n
  BY <1>1, FS_Subset, FS_CardinalityType
<1>3. ASSUME NEW i \in P
      PROVE  i <= Cardinality(P)
  <2>1. 1 .. i \in SUBSET P
    OBVIOUS
  <2>2. Cardinality(1 .. i) = i
    BY FS_Interval
  <2> QED
    BY <2>1, <2>2, <1>2, FS_Subset
<1>4. ASSUME NEW i \in 1 .. Cardinality(P), i \notin P
      PROVE  FALSE
  <2>1. i \in 1 .. n
    BY <1>2
  <2>2. P \in SUBSET (1 .. i - 1)
    BY <1>4, <2>1
  <2>3. IsFiniteSet(1 .. i - 1) /\ Cardinality(1 .. i - 1) = i - 1
    <3>1. 1 \in Int /\ i - 1 \in Int /\ (1 > i - 1 => i - 1 = 0) /\ (i - 1) - 1 + 1 = i - 1
      BY <2>1
    <3> QED
      BY <3>1, FS_Interval
  <2>4. Cardinality(P) <= i - 1
    BY <2>2, <2>3, FS_Subset
  <2> QED
    BY <2>1, <2>4, <1>2
<1>5. \A i \in P : i \in 1 .. Cardinality(P)
  BY <1>2, <1>3
<1>6. P = 1 .. Cardinality(P)
  <2>1. \A i \in 1 .. Cardinality(P) : i \in P
    BY <1>4
  <2> QED
    BY <1>5, <2>1
<1>7. Cardinality(P) \in 0 .. n
  BY <1>2
<1> QED
  BY <1>6, <1>7

-----------------------------------------------------------------------------
(* Recursion on numbers.  Induction is stated for a set instead of a       *)
(* predicate, so that it can be cited with any set {n \in Nat : ...}.  It  *)
(* comes from the least element of a set of numbers, which the library     *)
(* proves for well-founded orders.                                         *)

\* A set that holds 0, and the successor of each of its numbers, holds every number.
LEMMA SetInduction ==
    ASSUME NEW S, 0 \in S, \A n \in Nat : n \in S => n + 1 \in S
    PROVE  Nat \subseteq S
<1> DEFINE R == OpToRel(<, Nat)
           T == Nat \ S
<1>1. IsWellFoundedOn(R, Nat)
  BY NatLessThanWellFounded
<1>2. SUFFICES ASSUME T # {} PROVE FALSE
  OBVIOUS
<1>3. PICK x \in T : \A y \in T : ~ (<<y, x>> \in R)
  <2> HIDE DEF R
  <2>1. T \subseteq Nat
    OBVIOUS
  <2> HIDE DEF T
  <2> QED BY <1>1, <1>2, <2>1, WFMin
<1>4. x \in Nat /\ x # 0 /\ x - 1 \in Nat /\ (x - 1) + 1 = x
  OBVIOUS
<1>5. x - 1 \in T
  BY <1>4
<1>6. <<x - 1, x>> \in R
  BY <1>4, SMT DEF OpToRel
<1> QED BY <1>3, <1>5, <1>6

\* F[k] is the k-th step of a loop that stays in S, and g what it has computed
\* after every one of its first n steps.
IsStep(F, S) == F \in [Nat -> [S -> S]]

Iterates(g, F, base, n) == g[0] = base /\ \A k \in 1 .. n : g[k] = F[k][g[k - 1]]

\* Every such loop has its results: a recursive function on 0 .. n.
LEMMA IteratesExist ==
    ASSUME NEW S, NEW base \in S, NEW n \in Nat, NEW F, IsStep(F, S)
    PROVE  \E g \in [0 .. n -> S] : Iterates(g, F, base, n)
<1> USE DEF IsStep, Iterates
<1> DEFINE N == {m \in Nat : \E g \in [0 .. m -> S] : Iterates(g, F, base, m)}
<1>1. 0 \in N
  <2> DEFINE g == [k \in 0 .. 0 |-> base]
  <2>1. g \in [0 .. 0 -> S] /\ Iterates(g, F, base, 0)
    OBVIOUS
  <2> QED BY <2>1
<1>2. ASSUME NEW m \in Nat, m \in N PROVE m + 1 \in N
  <2>1. PICK g \in [0 .. m -> S] : Iterates(g, F, base, m)
    BY <1>2
  <2> DEFINE h == [k \in 0 .. m + 1 |-> IF k = m + 1 THEN F[m + 1][g[m]] ELSE g[k]]
  <2>2. g[m] \in S /\ F[m + 1][g[m]] \in S
    OBVIOUS
  <2>3. h \in [0 .. m + 1 -> S]
    BY <2>2
  <2>4. h[0] = base
    BY <2>1
  <2>5. ASSUME NEW k \in 1 .. m + 1 PROVE h[k] = F[k][h[k - 1]]
    <3>1. CASE k = m + 1
      <4>1. k - 1 = m /\ m \in 0 .. m + 1 /\ m # m + 1
        BY <3>1
      <4>2. h[m] = g[m]
        BY <4>1
      <4> QED BY <3>1, <4>1, <4>2
    <3>2. CASE k # m + 1
      <4>1. k \in 1 .. m /\ k - 1 \in 0 .. m
        BY <3>2
      <4>2. h[k] = g[k] /\ h[k - 1] = g[k - 1]
        BY <4>1
      <4> QED BY <2>1, <4>1, <4>2
    <3> QED BY <3>1, <3>2
  <2> HIDE DEF h
  <2>6. \E f \in [0 .. m + 1 -> S] : Iterates(f, F, base, m + 1)
    BY <2>3, <2>4, <2>5
  <2> QED BY <2>6
<1>3. n \in N
  <2> HIDE DEF N
  <2> QED BY <1>1, <1>2, SetInduction
<1> QED BY <1>3

=============================================================================
