------------------------------ MODULE Rounds_proofs ------------------------------
(***************************************************************************)
(* Proofs about the Rounds: how far a round can lag behind the lists it    *)
(* goes over.  Nodes that come in push the others away from the front, so  *)
(* that some are met again; nodes that leave pull them towards it, so that *)
(* some are passed unseen.                                                 *)
(***************************************************************************)
EXTENDS Rounds, RoutingTable_proofs

-----------------------------------------------------------------------------
(* What happens to the positions of a list.                                *)

\* The positions behind the p-th that hold a member of S.
Behind(nodes, p, S) == {k \in DOMAIN nodes : k > p /\ nodes[k] \in S}

\* The nodes at the first p positions.
FirstNodes(nodes, p) == {nodes[k] : k \in {l \in DOMAIN nodes : l <= p}}

\* Positions are finitely many.
LEMMA PositionsFinite ==
    ASSUME NEW nodes, NEW b, NEW top \in Nat, GoodList(nodes, b, top)
    PROVE  \A K : K \subseteq DOMAIN nodes => IsFiniteSet(K) /\ Cardinality(K) \in Nat
<1>1. DOMAIN nodes = 1 .. Len(nodes) /\ Len(nodes) \in Nat
  BY GoodListFacts
<1>2. IsFiniteSet(DOMAIN nodes)
  BY <1>1, FS_Interval
<1> QED BY <1>2, FS_Subset, FS_CardinalityType

\* Two disjoint sets that cover a third.
LEMMA SizeOfUnion ==
    ASSUME NEW S, NEW T, IsFiniteSet(S), IsFiniteSet(T)
    PROVE  /\ IsFiniteSet(S \cup T)
           /\ Cardinality(S) \in Nat /\ Cardinality(T) \in Nat
           /\ Cardinality(S \cup T) \in Nat
           /\ Cardinality(S \cup T) <= Cardinality(S) + Cardinality(T)
           /\ S \cap T = {} => Cardinality(S \cup T) = Cardinality(S) + Cardinality(T)
<1>1. /\ IsFiniteSet(S \cup T)
      /\ Cardinality(S \cup T) = Cardinality(S) + Cardinality(T) - Cardinality(S \cap T)
  BY FS_Union
<1>2. IsFiniteSet(S \cap T)
  BY FS_Intersection
<1>3. /\ Cardinality(S) \in Nat /\ Cardinality(T) \in Nat
      /\ Cardinality(S \cup T) \in Nat /\ Cardinality(S \cap T) \in Nat
  BY <1>1, <1>2, FS_CardinalityType
<1>4. S \cap T = {} => Cardinality(S \cap T) = 0
  BY FS_EmptySet
<1> QED BY <1>1, <1>3, <1>4

\* The new nodes that push a list on are as many as the places they push it by.
LEMMA ArrivalsCounted ==
    ASSUME NEW old, NEW new, NEW b, NEW top \in Nat, NEW high \in Nat,
           GoodList(old, b, top), GoodList(new, b, high), NEW d, Pushed(old, new, d, top)
    PROVE  Cardinality({n \in Range(new) : n.ref > top}) = d
<1> DEFINE A == {n \in Range(new) : n.ref > top}
           f == [k \in 1 .. d |-> new[k]]
<1>1. /\ DOMAIN new = 1 .. Len(new) /\ Len(new) \in Nat
      /\ DOMAIN old = 1 .. Len(old)
      /\ \A k \in 1 .. Len(old) : old[k].ref \in Nat /\ old[k].ref <= top
  BY GoodListFacts
<1>2. /\ d \in 0 .. Len(new)
      /\ \A k \in 1 .. d : new[k].ref > top
      /\ \A k \in d + 1 .. Len(new) : k - d \in DOMAIN old /\ new[k] = old[k - d]
  BY DEF Pushed
<1>3. \A k, l \in 1 .. Len(new) : k < l => new[k].ref > new[l].ref
  BY GoodListFacts
<1>4. \A k \in 1 .. Len(new) : new[k].ref \in Nat
  BY GoodListFacts
<1>5. f \in Bijection(1 .. d, A)
  <2>1. f \in [1 .. d -> A]
    BY <1>1, <1>2 DEF Range
  <2>2. ASSUME NEW n \in A PROVE \E k \in 1 .. d : f[k] = n
    <3>1. PICK k \in 1 .. Len(new) : new[k] = n
      BY <1>1, <2>2 DEF Range
    <3>2. k <= d
      <4> SUFFICES ASSUME k > d PROVE FALSE
        BY <1>1, <1>2
      <4>1. k \in d + 1 .. Len(new)
        BY <1>1, <1>2
      <4>2. k - d \in 1 .. Len(old) /\ new[k] = old[k - d]
        BY <1>1, <1>2, <4>1
      <4>3. old[k - d].ref \in Nat /\ old[k - d].ref <= top
        BY <1>1, <4>2
      <4>4. old[k - d].ref > top
        BY <2>2, <3>1, <4>2
      <4> QED BY <4>3, <4>4
    <3> QED BY <1>1, <1>2, <3>1, <3>2
  <2>3. \A k, l \in 1 .. d : f[k] = f[l] => k = l
    <3> SUFFICES ASSUME NEW k \in 1 .. d, NEW l \in 1 .. d, f[k] = f[l], k # l PROVE FALSE
      OBVIOUS
    <3>1. k \in 1 .. Len(new) /\ l \in 1 .. Len(new)
      BY <1>1, <1>2
    <3>2. new[k].ref = new[l].ref /\ new[k].ref \in Nat
      BY <1>4, <3>1
    <3>3. k < l \/ l < k
      BY <3>1
    <3> QED BY <1>3, <3>1, <3>2, <3>3
  <2> HIDE DEF f, A
  <2> QED BY <2>1, <2>2, <2>3 DEF Bijection, Injection, Surjection, IsInjective
<1>6. IsFiniteSet(1 .. d) /\ Cardinality(1 .. d) = d
  BY <1>1, <1>2, FS_Interval
<1> HIDE DEF f, A
<1> QED BY <1>5, <1>6, FS_Bijection DEF ExistsBijection, A

\* Nodes that come in push at most as many of the members of S behind the p-th place
\* as they are, if they are none of S themselves.
LEMMA ArrivalsPush ==
    ASSUME NEW old, NEW new, NEW b, NEW top \in Nat, NEW high \in Nat,
           GoodList(old, b, top), GoodList(new, b, high), NEW d, Pushed(old, new, d, top),
           NEW p \in Nat, NEW S, \A n \in S : n.ref <= top
    PROVE  Cardinality(Behind(new, p, S))
              <= Cardinality(Behind(old, p, S)) + Cardinality({n \in Range(new) : n.ref > top})
<1> DEFINE W == Behind(old, p, S)
           V == Behind(new, p, S)
           U == {k + d : k \in W}
           T == p + 1 .. p + d
<1>1. /\ DOMAIN new = 1 .. Len(new) /\ Len(new) \in Nat
      /\ DOMAIN old = 1 .. Len(old) /\ Len(old) \in Nat
      /\ \A k \in 1 .. Len(new) : new[k].ref \in Nat
  BY GoodListFacts
<1>2. /\ d \in 0 .. Len(new)
      /\ \A k \in 1 .. d : new[k].ref > top
      /\ \A k \in d + 1 .. Len(new) : k - d \in DOMAIN old /\ new[k] = old[k - d]
  BY DEF Pushed
<1>3. IsFiniteSet(W) /\ Cardinality(W) \in Nat
  BY PositionsFinite DEF Behind
<1>4. IsFiniteSet(U) /\ Cardinality(U) <= Cardinality(W)
  <2> DEFINE g == [k \in W |-> k + d]
  <2> HIDE DEF W
  <2>1. g \in Surjection(W, U)
    BY DEF Surjection
  <2> HIDE DEF g, U
  <2> QED BY <1>3, <2>1, FS_Surjection
<1>5. IsFiniteSet(T) /\ Cardinality(T) = d
  <2>1. d \in Nat /\ p + 1 \in Int /\ p + d \in Int
        /\ (IF p + 1 > p + d THEN 0 ELSE (p + d) - (p + 1) + 1) = d
    BY <1>1, <1>2
  <2> QED BY <2>1, FS_Interval
<1>6. V \subseteq U \cup T
  <2> SUFFICES ASSUME NEW k \in V, k \notin T PROVE k \in U
    OBVIOUS
  <2>1. k \in 1 .. Len(new) /\ k > p /\ new[k] \in S
    BY <1>1 DEF Behind
  <2>2. new[k].ref <= top /\ new[k].ref \in Nat
    BY <1>1, <2>1
  <2>3. ~ (k <= d)
    BY <1>2, <2>1, <2>2
  <2>4. k \in d + 1 .. Len(new)
    BY <1>1, <1>2, <2>1, <2>3
  <2>5. k - d \in DOMAIN old /\ new[k] = old[k - d]
    BY <1>2, <2>4
  <2>6. k > p + d
    BY <1>1, <1>2, <2>1
  <2>7. k - d \in W /\ (k - d) + d = k
    BY <1>1, <1>2, <2>1, <2>5, <2>6 DEF Behind
  <2> HIDE DEF W, V, T
  <2> QED BY <2>7
<1> HIDE DEF W, U, T, V
<1>7. /\ IsFiniteSet(U \cup T) /\ Cardinality(U \cup T) \in Nat
      /\ Cardinality(U \cup T) <= Cardinality(U) + Cardinality(T)
      /\ Cardinality(U) \in Nat /\ Cardinality(T) \in Nat
  BY <1>4, <1>5, SizeOfUnion
<1>8. IsFiniteSet(V) /\ Cardinality(V) <= Cardinality(U \cup T)
  BY <1>6, <1>7, FS_Subset
<1>9. Cardinality(V) \in Nat
  BY <1>8, FS_CardinalityType
<1>10. Cardinality(V) <= Cardinality(W) + d
  BY <1>3, <1>4, <1>5, <1>7, <1>8, <1>9
<1>11. Cardinality({n \in Range(new) : n.ref > top}) = d
  BY ArrivalsCounted
<1> QED BY <1>10, <1>11 DEF V, W

\* Nodes that come in bring no older one to the first p places that was not there.
LEMMA ArrivalsPass ==
    ASSUME NEW old, NEW new, NEW b, NEW top \in Nat, NEW high \in Nat,
           GoodList(old, b, top), GoodList(new, b, high), NEW d, Pushed(old, new, d, top),
           NEW p \in Nat, NEW n \in FirstNodes(new, p), n.ref <= top
    PROVE  n \in FirstNodes(old, p)
<1>1. /\ DOMAIN new = 1 .. Len(new) /\ Len(new) \in Nat
      /\ DOMAIN old = 1 .. Len(old) /\ Len(old) \in Nat
      /\ \A k \in 1 .. Len(new) : new[k].ref \in Nat
  BY GoodListFacts
<1>2. /\ d \in 0 .. Len(new)
      /\ \A k \in 1 .. d : new[k].ref > top
      /\ \A k \in d + 1 .. Len(new) : k - d \in DOMAIN old /\ new[k] = old[k - d]
  BY DEF Pushed
<1>3. PICK k \in 1 .. Len(new) : k <= p /\ n = new[k]
  BY <1>1 DEF FirstNodes
<1>4. ~ (k <= d)
  <2>1. new[k].ref \in Nat /\ new[k].ref <= top
    BY <1>1, <1>3
  <2> QED BY <1>2, <1>3, <2>1
<1>5. k \in d + 1 .. Len(new)
  BY <1>1, <1>2, <1>3, <1>4
<1>6. k - d \in DOMAIN old /\ n = old[k - d] /\ k - d <= p
  BY <1>1, <1>2, <1>3, <1>5
<1> QED BY <1>6 DEF FirstNodes

\* A removal moves nodes towards the front and keeps their order.
LEMMA RemovalShifts ==
    ASSUME NEW old, NEW b, NEW top \in Nat, GoodList(old, b, top), NEW S,
           NEW new, new = RemovedFrom(old, S)
    PROVE  /\ GoodList(new, b, top)
           /\ Range(new) \subseteq Range(old)
           /\ \E f \in [DOMAIN new -> DOMAIN old] :
                 /\ \A k \in DOMAIN new : new[k] = old[f[k]] /\ k <= f[k]
                 /\ \A k, l \in DOMAIN new : f[k] = f[l] => k = l
                 /\ \A i \in DOMAIN old : old[i] \in Range(new) => \E k \in DOMAIN new : f[k] = i
<1> DEFINE K == {k \in DOMAIN old : \A n \in S : old[k].ref # n.ref}
<1>1. GoodList(new, b, top) /\ Range(new) \subseteq Range(old)
  BY RemovedFromGood
<1>2. /\ old \in Seq(Node) /\ DOMAIN old = 1 .. Len(old) /\ Len(old) \in Nat
      /\ \A k \in 1 .. Len(old) : old[k].ref \in Nat
      /\ \A k, l \in 1 .. Len(old) : k < l => old[k].ref > old[l].ref
  BY GoodListFacts
<1>3. DOMAIN new = 1 .. Len(new) /\ Len(new) \in Nat
  BY <1>1, GoodListFacts
<1>4. K \in SUBSET DOMAIN old /\ new = Kept(old, K)
  BY DEF RemovedFrom
<1> HIDE DEF K
<1>5. PICK f \in [DOMAIN new -> K] :
         /\ \A k \in DOMAIN new : new[k] = old[f[k]]
         /\ \A k, l \in DOMAIN new : k < l => f[k] < f[l]
  BY <1>2, <1>4, KeptList
<1>6. f \in [DOMAIN new -> DOMAIN old] /\ \A k \in DOMAIN new : f[k] \in 1 .. Len(old)
  BY <1>2, <1>4
<1>7. \A k \in DOMAIN new : k <= f[k]
  <2> DEFINE N == {k \in Nat : k \in 1 .. Len(new) => k <= f[k]}
  <2>1. 0 \in N
    OBVIOUS
  <2>2. ASSUME NEW k \in Nat, k \in N PROVE k + 1 \in N
    <3> SUFFICES ASSUME k + 1 \in 1 .. Len(new) PROVE k + 1 <= f[k + 1]
      OBVIOUS
    <3>1. CASE k = 0
      <4>1. f[k + 1] \in 1 .. Len(old)
        BY <1>3, <1>6
      <4> QED BY <3>1, <4>1
    <3>2. CASE k # 0
      <4>1. k \in 1 .. Len(new) /\ k < k + 1
        BY <1>3, <3>2
      <4>2. f[k] \in Nat /\ f[k + 1] \in Nat
        BY <1>2, <1>3, <1>6, <4>1
      <4>3. k <= f[k] /\ f[k] < f[k + 1]
        BY <1>3, <1>5, <2>2, <4>1
      <4> QED BY <4>2, <4>3
    <3> QED BY <3>1, <3>2
  <2> HIDE DEF N
  <2>3. Nat \subseteq N
    BY <2>1, <2>2, SetInduction
  <2> QED BY <1>3, <2>3 DEF N
<1>8. \A k, l \in DOMAIN new : f[k] = f[l] => k = l
  <2> SUFFICES ASSUME NEW k \in DOMAIN new, NEW l \in DOMAIN new, f[k] = f[l], k # l PROVE FALSE
    OBVIOUS
  <2>1. k < l \/ l < k
    BY <1>3
  <2>2. f[k] \in Nat
    BY <1>2, <1>6
  <2> QED BY <1>5, <2>1, <2>2
<1>9. ASSUME NEW i \in DOMAIN old, old[i] \in Range(new) PROVE \E k \in DOMAIN new : f[k] = i
  <2>1. PICK k \in DOMAIN new : new[k] = old[i]
    BY <1>9 DEF Range
  <2>2. old[f[k]] = old[i] /\ f[k] \in 1 .. Len(old) /\ i \in 1 .. Len(old)
    BY <1>2, <1>5, <1>6, <2>1
  <2>3. f[k] = i
    <3>1. f[k] < i \/ i < f[k] \/ f[k] = i
      BY <2>2
    <3>2. old[i].ref \in Nat /\ old[f[k]].ref = old[i].ref
      BY <1>2, <2>2
    <3> QED BY <1>2, <2>2, <3>1, <3>2
  <2> QED BY <2>3
<1> QED BY <1>1, <1>5, <1>6, <1>7, <1>8, <1>9

\* A removal brings no member of S behind the p-th place.
LEMMA RemovalRepeats ==
    ASSUME NEW old, NEW b, NEW top \in Nat, GoodList(old, b, top), NEW R,
           NEW new, new = RemovedFrom(old, R), NEW p \in Nat, NEW S
    PROVE  Cardinality(Behind(new, p, S)) <= Cardinality(Behind(old, p, S))
<1>1. PICK f \in [DOMAIN new -> DOMAIN old] :
         /\ \A k \in DOMAIN new : new[k] = old[f[k]] /\ k <= f[k]
         /\ \A k, l \in DOMAIN new : f[k] = f[l] => k = l
  BY RemovalShifts
<1>2. GoodList(new, b, top)
  BY RemovalShifts
<1>3. DOMAIN new = 1 .. Len(new) /\ DOMAIN old = 1 .. Len(old)
  BY <1>2, GoodListFacts
<1> DEFINE V == Behind(new, p, S)
           W == Behind(old, p, S)
           g == [k \in V |-> f[k]]
<1>4. IsFiniteSet(W)
  BY PositionsFinite DEF Behind
<1>5. \A k \in V : k \in DOMAIN new /\ f[k] \in W
  <2> SUFFICES ASSUME NEW k \in V PROVE k \in DOMAIN new /\ f[k] \in W
    OBVIOUS
  <2>1. k \in DOMAIN new /\ k > p /\ new[k] \in S
    BY DEF Behind
  <2>2. f[k] \in DOMAIN old /\ new[k] = old[f[k]] /\ k <= f[k]
    BY <1>1, <2>1
  <2>3. f[k] > p
    BY <1>3, <2>1, <2>2
  <2> QED BY <2>1, <2>2, <2>3 DEF Behind
<1> HIDE DEF V, W
<1>6. g \in Injection(V, W)
  BY <1>1, <1>5 DEF Injection, IsInjective
<1> QED BY <1>4, <1>6, FS_Injection DEF V, W

\* As many nodes as come to the first p places from behind them, at least, have left
\* these places.
LEMMA RemovalPasses ==
    ASSUME NEW old, NEW b, NEW top \in Nat, GoodList(old, b, top), NEW R,
           NEW new, new = RemovedFrom(old, R), NEW p \in Nat
    PROVE  /\ IsFiniteSet(FirstNodes(new, p) \ FirstNodes(old, p))
           /\ Cardinality(FirstNodes(new, p) \ FirstNodes(old, p))
                 <= Cardinality({k \in DOMAIN old : k <= p /\ old[k] \notin Range(new)})
<1>1. PICK f \in [DOMAIN new -> DOMAIN old] :
         /\ \A k \in DOMAIN new : new[k] = old[f[k]] /\ k <= f[k]
         /\ \A k, l \in DOMAIN new : f[k] = f[l] => k = l
         /\ \A i \in DOMAIN old : old[i] \in Range(new) => \E k \in DOMAIN new : f[k] = i
  BY RemovalShifts
<1>2. GoodList(new, b, top)
  BY RemovalShifts
<1>3. /\ DOMAIN new = 1 .. Len(new) /\ Len(new) \in Nat
      /\ DOMAIN old = 1 .. Len(old) /\ Len(old) \in Nat
  BY <1>2, GoodListFacts
<1> DEFINE C == FirstNodes(new, p) \ FirstNodes(old, p)
           B == {k \in DOMAIN new : k <= p /\ f[k] > p}
           D == {k \in DOMAIN new : k <= p /\ f[k] <= p}
           A == {i \in DOMAIN old : i <= p /\ old[i] \in Range(new)}
           G == {i \in DOMAIN old : i <= p /\ old[i] \notin Range(new)}
<1>4. /\ IsFiniteSet(B) /\ IsFiniteSet(D) /\ IsFiniteSet(A) /\ IsFiniteSet(G)
      /\ Cardinality(B) \in Nat /\ Cardinality(D) \in Nat
      /\ Cardinality(A) \in Nat /\ Cardinality(G) \in Nat
  <2>1. B \subseteq DOMAIN new /\ D \subseteq DOMAIN new
        /\ A \subseteq DOMAIN old /\ G \subseteq DOMAIN old
    OBVIOUS
  <2> HIDE DEF A, B, D, G
  <2> QED BY <1>2, <2>1, PositionsFinite
<1>5. IsFiniteSet(C) /\ Cardinality(C) <= Cardinality(B)
  <2> DEFINE E == {k \in B : new[k] \in C}
             g == [k \in E |-> new[k]]
  <2>1. C \subseteq {new[k] : k \in E}
    <3> SUFFICES ASSUME NEW n \in C PROVE \E k \in E : n = new[k]
      OBVIOUS
    <3>1. PICK k \in DOMAIN new : k <= p /\ n = new[k]
      BY DEF FirstNodes
    <3>2. f[k] \in DOMAIN old /\ n = old[f[k]]
      BY <1>1, <3>1
    <3>3. ~ (f[k] <= p)
      BY <3>2 DEF FirstNodes
    <3>4. f[k] > p
      BY <1>3, <3>2, <3>3
    <3>5. k \in E
      BY <3>1, <3>4
    <3> QED BY <3>1, <3>5
  <2>2. g \in Surjection(E, C)
    <3>1. g \in [E -> C]
      OBVIOUS
    <3>2. \A n \in C : \E k \in E : g[k] = n
      BY <2>1
    <3> HIDE DEF g, E, C
    <3> QED BY <3>1, <3>2 DEF Surjection
  <2>3. E \subseteq B
    OBVIOUS
  <2> HIDE DEF g, E, C, B
  <2>4. IsFiniteSet(E) /\ Cardinality(E) <= Cardinality(B)
    BY <1>4, <2>3, FS_Subset
  <2>5. IsFiniteSet(C) /\ Cardinality(C) <= Cardinality(E)
    BY <2>2, <2>4, FS_Surjection
  <2>6. Cardinality(C) \in Nat /\ Cardinality(E) \in Nat
    BY <2>4, <2>5, FS_CardinalityType
  <2> QED BY <1>4, <2>4, <2>5, <2>6
<1>6. Cardinality(B) <= Cardinality(G)
  <2>1. CASE B = {}
    <3>1. Cardinality(B) = 0
      <4> HIDE DEF B
      <4> QED BY <2>1, FS_EmptySet
    <3> HIDE DEF B, G
    <3> QED BY <1>4, <3>1
  <2>2. CASE B # {}
    <3>1. p < Len(old)
      <4>1. PICK k \in DOMAIN new : k <= p /\ f[k] > p
        BY <2>2
      <4>2. f[k] \in 1 .. Len(old)
        BY <1>3
      <4> QED BY <1>3, <4>1, <4>2
    <3>2. A \cup G = 1 .. p /\ A \cap G = {}
      BY <1>3, <3>1
    <3>3. B \cup D \subseteq 1 .. p /\ B \cap D = {}
      <4>1. \A k \in DOMAIN new : f[k] \in Nat
        BY <1>3
      <4> QED BY <1>3, <4>1
    <3>4. IsFiniteSet(1 .. p) /\ Cardinality(1 .. p) = p
      BY FS_Interval
    <3> DEFINE E == {k \in D : f[k] \in A}
               g == [k \in E |-> f[k]]
    <3>5. g \in Surjection(E, A)
      <4>1. g \in [E -> A]
        OBVIOUS
      <4>2. ASSUME NEW i \in A PROVE \E k \in E : g[k] = i
        <5>1. i \in DOMAIN old /\ i <= p /\ old[i] \in Range(new)
          BY <4>2
        <5>2. PICK k \in DOMAIN new : f[k] = i
          BY <1>1, <5>1
        <5>3. k <= p
          <6>1. k <= f[k]
            BY <1>1
          <6> QED BY <1>3, <5>1, <5>2, <6>1
        <5>4. k \in E
          BY <4>2, <5>1, <5>2, <5>3
        <5> QED BY <5>2, <5>4
      <4> HIDE DEF g, E, A
      <4> QED BY <4>1, <4>2 DEF Surjection
    <3>6. E \subseteq D
      OBVIOUS
    <3> HIDE DEF A, B, D, G, E, g
    <3>7. IsFiniteSet(E) /\ Cardinality(E) <= Cardinality(D)
      BY <1>4, <3>6, FS_Subset
    <3>8. Cardinality(A) <= Cardinality(E) /\ Cardinality(E) \in Nat
      BY <3>5, <3>7, FS_Surjection, FS_CardinalityType
    <3>9. Cardinality(B \cup D) = Cardinality(B) + Cardinality(D)
      BY <1>4, <3>3, SizeOfUnion
    <3>10. Cardinality(A \cup G) = Cardinality(A) + Cardinality(G)
      BY <1>4, <3>2, SizeOfUnion
    <3>11. Cardinality(B \cup D) <= p
      BY <3>3, <3>4, FS_Subset
    <3>12. Cardinality(A) + Cardinality(G) = p
      BY <3>2, <3>4, <3>10
    <3> QED BY <1>4, <3>7, <3>8, <3>9, <3>11, <3>12
  <2> QED BY <2>1, <2>2
<1> HIDE DEF A, B, C, D, G
<1>7. Cardinality(C) \in Nat
  BY <1>5, FS_CardinalityType
<1>8. Cardinality(C) <= Cardinality(G)
  BY <1>4, <1>5, <1>6, <1>7
<1> QED BY <1>5, <1>8 DEF C, G

-----------------------------------------------------------------------------
(* The inductive invariant.                                                *)

\* The nodes that the loop over the lists has passed without a query, of those that were
\* in the table all the time: in a list it has left, or at a place it has passed.
Missed ==
    {n \in staying \ asked :
        \/ \E j \in 1 .. place[1] - 1 : n \in Range(buckets[j].nodes)
        \/ n \in FirstNodes(buckets[place[1]].nodes, place[2])}

\* The second loop is at a place.  What it has asked lies in the lists up to this one, so
\* that only those further back in this one can be asked again.
AtPlace ==
    /\ place \in (1 .. Bits) \X (1 .. Capacity)
    /\ asked \subseteq Node
    /\ \A n \in asked : n.ref <= made /\ \E j \in 1 .. place[1] : WithinRange(buckets[j], n.id)
    /\ repeats + Cardinality(Behind(buckets[place[1]].nodes, place[2], asked)) <= ahead
    /\ IsFiniteSet(Missed) /\ Cardinality(Missed) <= behind

NothingYet == asked = {} /\ staying = {} /\ repeats = 0 /\ ahead = 0 /\ behind = 0

RdInv ==
    /\ RtInv
    /\ phase \in {"constructor", "idle", "bootstrap", "table"}
    /\ place \in Nat \X Nat
    /\ repeats \in Nat /\ ahead \in Nat /\ behind \in Nat
    /\ staying \subseteq AllNodes
    /\ IF phase = "table" THEN AtPlace ELSE NothingYet

-----------------------------------------------------------------------------
(* Where the loop goes on.                                                 *)

\* What the table's invariant says, unfolded.
LEMMA TableFacts ==
    ASSUME RtInv
    PROVE  /\ localId \in Ids /\ made \in Nat /\ LayoutStays /\ DOMAIN buckets = 1 .. Bits
           /\ \A i \in 1 .. Bits :
                 /\ GoodList(buckets[i].nodes, buckets[i], made)
                 /\ DOMAIN buckets[i].nodes = 1 .. Len(buckets[i].nodes)
                 /\ Len(buckets[i].nodes) \in 0 .. Capacity
<1>1. /\ localId \in Ids /\ made \in Nat /\ LayoutStays /\ DOMAIN buckets = 1 .. Bits
      /\ \A i \in 1 .. Bits : GoodList(buckets[i].nodes, buckets[i], made)
  BY SizeAssumption DEF RtInv, LayoutStays
<1> QED BY <1>1, GoodListFacts

\* The places of a table are those of its lists.
LEMMA PlacesAre ==
    ASSUME RtInv, NEW q
    PROVE  q \in Places <=> \E b \in 1 .. Bits : \E i \in 1 .. Len(buckets[b].nodes) : q = <<b, i>>
BY TableFacts DEF Places

\* A list that the loop leaves has no place behind the one it was at, and those it skips
\* are empty.
LEMMA ListsLeft ==
    ASSUME RtInv, NEW p \in Nat \X Nat, NEW c \in Nat,
           \A r \in NextPlaces(p) : r[1] >= c, c > p[1]
    PROVE  /\ p[1] \in 1 .. Bits => Len(buckets[p[1]].nodes) <= p[2]
           /\ \A j \in 1 .. Bits : p[1] < j /\ j < c => Len(buckets[j].nodes) = 0
<1>1. /\ p[1] \in Nat /\ p[2] \in Nat
      /\ \A i \in 1 .. Bits : Len(buckets[i].nodes) \in Nat
  BY TableFacts
<1>2. ASSUME p[1] \in 1 .. Bits, Len(buckets[p[1]].nodes) > p[2] PROVE FALSE
  <2> DEFINE q == <<p[1], p[2] + 1>>
  <2>1. p[2] + 1 \in 1 .. Len(buckets[p[1]].nodes)
    BY <1>1, <1>2
  <2>2. q \in Places
    BY <1>2, <2>1, PlacesAre
  <2>3. q \in NextPlaces(p)
    BY <2>2 DEF NextPlaces
  <2> QED BY <1>1, <2>3
<1>3. ASSUME NEW j \in 1 .. Bits, p[1] < j, j < c, Len(buckets[j].nodes) # 0 PROVE FALSE
  <2> DEFINE q == <<j, 1>>
  <2>1. 1 \in 1 .. Len(buckets[j].nodes)
    BY <1>1, <1>3
  <2>2. q \in Places
    BY <2>1, PlacesAre
  <2>3. q \in NextPlaces(p)
    BY <1>3, <2>2 DEF NextPlaces
  <2> QED BY <1>3, <2>3
<1> QED BY <1>1, <1>2, <1>3

\* The first of the next places is the next in the same list, or the front of another
\* list behind empty ones.
LEMMA FirstOfNext ==
    ASSUME RtInv, NEW p \in Nat \X Nat, NEW q \in NextPlaces(p),
           \A r \in NextPlaces(p) : q[1] < r[1] \/ q = r
    PROVE  /\ q = <<q[1], q[2]>> /\ q[1] \in 1 .. Bits
           /\ q[2] \in 1 .. Len(buckets[q[1]].nodes) /\ q[2] \in 1 .. Capacity
           /\ \/ q = <<p[1], p[2] + 1>>
              \/ /\ p[1] < q[1] /\ q[2] = 1
                 /\ p[1] \in 1 .. Bits => Len(buckets[p[1]].nodes) <= p[2]
                 /\ \A j \in 1 .. Bits : p[1] < j /\ j < q[1] => Len(buckets[j].nodes) = 0
<1>1. PICK b \in 1 .. Bits : \E i \in 1 .. Len(buckets[b].nodes) : q = <<b, i>>
  BY PlacesAre DEF NextPlaces
<1>2. PICK i \in 1 .. Len(buckets[b].nodes) : q = <<b, i>>
  BY <1>1
<1>3. q = <<q[1], q[2]>> /\ q[1] = b /\ q[2] = i /\ b \in Nat
  BY <1>2
<1>4. i \in 1 .. Capacity
  <2>1. Len(buckets[b].nodes) \in 0 .. Capacity /\ Capacity \in Nat
    BY TableFacts, SizeAssumption
  <2> QED BY <2>1
<1>5. q = <<p[1], p[2] + 1>> \/ (p[1] < q[1] /\ q[2] = 1)
  BY DEF NextPlaces
<1>6. ASSUME p[1] < q[1]
      PROVE  /\ p[1] \in 1 .. Bits => Len(buckets[p[1]].nodes) <= p[2]
             /\ \A j \in 1 .. Bits : p[1] < j /\ j < q[1] => Len(buckets[j].nodes) = 0
  <2>1. \A r \in NextPlaces(p) : r[1] >= b
    <3> SUFFICES ASSUME NEW r \in NextPlaces(p) PROVE r[1] >= b
      OBVIOUS
    <3>1. r[1] \in Nat
      BY PlacesAre DEF NextPlaces
    <3> QED BY <1>3, <3>1
  <2> QED BY <1>3, <1>6, <2>1, ListsLeft
<1> QED BY <1>2, <1>3, <1>4, <1>5, <1>6

\* A node is in one list, at one place.
LEMMA NodesApart ==
    ASSUME RtInv, NEW i \in 1 .. Bits, NEW k \in 1 .. Len(buckets[i].nodes)
    PROVE  /\ buckets[i].nodes[k] \in Node /\ buckets[i].nodes[k].ref <= made
           /\ WithinRange(buckets[i], buckets[i].nodes[k].id)
           /\ \A j \in 1 .. Bits : WithinRange(buckets[j], buckets[i].nodes[k].id) => i = j
           /\ \A l \in 1 .. Len(buckets[i].nodes) :
                 buckets[i].nodes[k] = buckets[i].nodes[l] => k = l
<1>1. /\ localId \in Ids /\ LayoutStays /\ made \in Nat
      /\ GoodList(buckets[i].nodes, buckets[i], made)
      /\ Len(buckets[i].nodes) \in Nat
  BY TableFacts
<1> DEFINE s == buckets[i].nodes
           b == buckets[i]
<1>2. /\ s[k] \in Node /\ s[k].ref <= made /\ WithinRange(b, s[k].id)
      /\ \A l \in 1 .. Len(s) : s[l].ref \in Nat
      /\ \A m, l \in 1 .. Len(s) : m < l => s[m].ref > s[l].ref
  BY <1>1, GoodListFacts
<1>3. s[k].id \in Ids
  BY <1>2 DEF Node
<1>4. \A j \in 1 .. Bits : WithinRange(buckets[j], s[k].id) => i = j
  BY <1>1, <1>2, <1>3, OneHome
<1>5. ASSUME NEW l \in 1 .. Len(s), s[k] = s[l], k # l PROVE FALSE
  <2>1. k < l \/ l < k
    BY <1>1, <1>5
  <2>2. s[k].ref = s[l].ref /\ s[k].ref \in Nat
    BY <1>2, <1>5
  <2>3. k \in 1 .. Len(s)
    OBVIOUS
  <2> HIDE DEF s
  <2> QED BY <1>2, <1>5, <2>1, <2>2, <2>3
<1> QED BY <1>2, <1>4, <1>5

\* The query at the next place: a node of this list is asked again only if it counted as
\* one that would be, and one of another list is asked for the first time.
LEMMA AskStep ==
    ASSUME RtInv, UNCHANGED rtVars, NEW p \in Nat \X Nat, NEW q \in NextPlaces(p),
           \A r \in NextPlaces(p) : q[1] < r[1] \/ q = r,
           Ask(q), ahead' = ahead, ahead \in Nat, repeats \in Nat, repeats <= ahead,
           asked \subseteq Node,
           \A n \in asked : n.ref <= made /\ \E j \in 1 .. p[1] : WithinRange(buckets[j], n.id),
           p[1] \in 1 .. Bits =>
              repeats + Cardinality(Behind(buckets[p[1]].nodes, p[2], asked)) <= ahead
    PROVE  /\ place' \in (1 .. Bits) \X (1 .. Capacity) /\ place' \in Nat \X Nat
           /\ asked' \subseteq Node
           /\ \A n \in asked' : /\ n.ref <= made'
                                /\ \E j \in 1 .. place'[1] : WithinRange(buckets'[j], n.id)
           /\ repeats' \in Nat
           /\ repeats' + Cardinality(Behind(buckets'[place'[1]].nodes, place'[2], asked'))
                 <= ahead'
<1> DEFINE b == q[1]
           i == q[2]
           s == buckets[b].nodes
           node == s[i]
           W == Behind(s, i, asked')
<1>1. /\ q = <<b, i>> /\ b \in 1 .. Bits /\ i \in 1 .. Len(s) /\ i \in 1 .. Capacity
      /\ \/ q = <<p[1], p[2] + 1>>
         \/ p[1] < b /\ i = 1
  BY FirstOfNext
<1>2. /\ place' = q /\ asked' = asked \cup {node}
      /\ repeats' = IF node \in asked THEN repeats + 1 ELSE repeats
      /\ buckets' = buckets /\ made' = made
  BY DEF Ask, rtVars
<1>3. /\ node \in Node /\ node.ref <= made /\ WithinRange(buckets[b], node.id)
      /\ \A j \in 1 .. Bits : WithinRange(buckets[j], node.id) => b = j
      /\ \A l \in 1 .. Len(s) : node = s[l] => i = l
  BY <1>1, NodesApart
<1>4. /\ DOMAIN s = 1 .. Len(s) /\ Len(s) \in Nat /\ GoodList(s, buckets[b], made) /\ made \in Nat
      /\ p[1] \in Nat /\ p[2] \in Nat
  BY <1>1, TableFacts
<1>5. place' \in (1 .. Bits) \X (1 .. Capacity) /\ place' \in Nat \X Nat
  BY <1>1, <1>2
<1>6. asked' \subseteq Node
  BY <1>2, <1>3
<1>7. p[1] <= b
  BY <1>1, <1>4
<1>8. ASSUME NEW n \in asked'
      PROVE  n.ref <= made' /\ \E j \in 1 .. b : WithinRange(buckets'[j], n.id)
  <2>1. CASE n \in asked
    <3>1. PICK j \in 1 .. p[1] : WithinRange(buckets[j], n.id)
      BY <2>1
    <3>2. j \in 1 .. b
      BY <1>1, <1>4, <1>7
    <3> QED BY <1>2, <2>1, <3>1, <3>2
  <2>2. CASE n = node
    <3>1. b \in 1 .. b
      BY <1>1
    <3> QED BY <1>2, <1>3, <2>2, <3>1
  <2> QED BY <1>2, <2>1, <2>2
<1>9. W \subseteq DOMAIN s /\ W = {k \in DOMAIN s : k > i /\ s[k] \in asked}
  <2>1. \A k \in DOMAIN s : k > i => s[k] # node
    BY <1>1, <1>3, <1>4
  <2> HIDE DEF s, node
  <2> QED BY <1>2, <2>1 DEF Behind
<1>10. IsFiniteSet(W) /\ Cardinality(W) \in Nat
  BY <1>4, <1>9, PositionsFinite
<1>11. repeats' \in Nat
  BY <1>2
<1>12. repeats' + Cardinality(W) <= ahead
  <2>1. CASE q = <<p[1], p[2] + 1>>
    <3> DEFINE V == Behind(s, p[2], asked)
    <3>1. b = p[1] /\ i = p[2] + 1
      BY <1>1, <2>1
    <3>2. repeats + Cardinality(V) <= ahead
      BY <1>1, <3>1
    <3>3. V \subseteq DOMAIN s
      BY DEF Behind
    <3>4. IsFiniteSet(V) /\ Cardinality(V) \in Nat
      BY <1>4, <3>3, PositionsFinite
    <3>5. W \subseteq V \ {i}
      <4>1. \A k \in DOMAIN s : k > i => k > p[2] /\ k # i
        BY <1>1, <1>4, <3>1
      <4> HIDE DEF W, s
      <4> QED BY <1>9, <4>1 DEF Behind
    <3>6. node \in asked => i \in V
      BY <1>1, <1>4, <3>1 DEF Behind
    <3> HIDE DEF V, W, node, s, i, b
    <3>7. /\ IsFiniteSet(V \ {i})
          /\ Cardinality(V \ {i}) = IF i \in V THEN Cardinality(V) - 1 ELSE Cardinality(V)
      BY <3>4, FS_RemoveElement
    <3>8. Cardinality(W) <= Cardinality(V \ {i})
      BY <3>5, <3>7, FS_Subset
    <3>9. CASE node \in asked
      <4>1. Cardinality(W) <= Cardinality(V) - 1 /\ repeats' = repeats + 1
        BY <1>2, <3>6, <3>7, <3>8, <3>9
      <4> QED BY <1>10, <3>2, <3>4, <4>1
    <3>10. CASE node \notin asked
      <4>1. Cardinality(W) <= Cardinality(V) /\ repeats' = repeats
        BY <1>2, <1>10, <3>4, <3>7, <3>8, <3>10
      <4> QED BY <1>10, <3>2, <3>4, <4>1
    <3> QED BY <3>9, <3>10
  <2>2. CASE p[1] < b
    <3>1. ASSUME NEW k \in 1 .. Len(s) PROVE s[k] \notin asked
      <4> SUFFICES ASSUME s[k] \in asked PROVE FALSE
        OBVIOUS
      <4>1. PICK j \in 1 .. p[1] : WithinRange(buckets[j], s[k].id)
        OBVIOUS
      <4>2. j \in 1 .. Bits /\ j < b
        BY <1>1, <1>4, <2>2, BitsAssumption
      <4>3. b = j
        BY <1>1, <4>1, <4>2, NodesApart
      <4> QED BY <1>1, <4>2, <4>3
    <3>2. W = {}
      BY <1>4, <1>9, <3>1
    <3>3. node \notin asked
      BY <1>1, <3>1
    <3> HIDE DEF W, node
    <3>4. Cardinality(W) = 0 /\ repeats' = repeats
      BY <1>2, <3>2, <3>3, FS_EmptySet
    <3> QED BY <3>4
  <2> QED BY <1>1, <2>1, <2>2
<1> QED BY <1>1, <1>2, <1>5, <1>6, <1>8, <1>11, <1>12

\* What the loop has missed when it comes to q was missed when it left p.
LEMMA MissedBefore ==
    ASSUME RtInv, UNCHANGED rtVars, NEW p \in Nat \X Nat, NEW q \in NextPlaces(p),
           \A r \in NextPlaces(p) : q[1] < r[1] \/ q = r,
           Ask(q), NEW n \in Missed'
    PROVE  /\ n \in staying' \ asked
           /\ \/ \E j \in 1 .. p[1] - 1 : j \in 1 .. Bits /\ n \in Range(buckets[j].nodes)
              \/ p[1] \in 1 .. Bits /\ n \in FirstNodes(buckets[p[1]].nodes, p[2])
<1> DEFINE b == q[1]
           i == q[2]
<1>1. /\ q = <<b, i>> /\ b \in 1 .. Bits /\ i \in 1 .. Len(buckets[b].nodes)
      /\ \/ q = <<p[1], p[2] + 1>>
         \/ /\ p[1] < b /\ i = 1
            /\ p[1] \in 1 .. Bits => Len(buckets[p[1]].nodes) <= p[2]
            /\ \A j \in 1 .. Bits : p[1] < j /\ j < b => Len(buckets[j].nodes) = 0
  BY FirstOfNext
<1>2. /\ place' = q /\ asked' = asked \cup {buckets[b].nodes[i]} /\ buckets' = buckets
      /\ place'[1] = b /\ place'[2] = i
  BY DEF Ask, rtVars
<1>3. /\ p[1] \in Nat /\ p[2] \in Nat
      /\ \A j \in 1 .. Bits : /\ DOMAIN buckets[j].nodes = 1 .. Len(buckets[j].nodes)
                              /\ Len(buckets[j].nodes) \in Nat
  BY TableFacts
<1>4. /\ n \in staying' \ asked' /\ n \in staying' \ asked
      /\ \/ \E j \in 1 .. b - 1 : n \in Range(buckets[j].nodes)
         \/ n \in FirstNodes(buckets[b].nodes, i)
  BY <1>2 DEF Missed
<1> HIDE DEF b, i
<1>5. CASE q = <<p[1], p[2] + 1>>
  <2>1. b = p[1] /\ i = p[2] + 1 /\ p[1] \in 1 .. Bits
    BY <1>1, <1>5
  <2>2. ASSUME NEW j \in 1 .. b - 1, n \in Range(buckets[j].nodes)
        PROVE  j \in 1 .. p[1] - 1 /\ j \in 1 .. Bits
    BY <1>1, <2>1, BitsAssumption
  <2>3. ASSUME n \in FirstNodes(buckets[b].nodes, i)
        PROVE  n \in FirstNodes(buckets[p[1]].nodes, p[2])
    <3>1. PICK k \in DOMAIN buckets[b].nodes : k <= i /\ n = buckets[b].nodes[k]
      BY <2>3 DEF FirstNodes
    <3>2. k # i
      BY <1>2, <1>4, <3>1
    <3>3. k <= p[2]
      BY <1>1, <1>3, <2>1, <3>1, <3>2
    <3> QED BY <2>1, <3>1, <3>3 DEF FirstNodes
  <2> QED BY <1>4, <2>1, <2>2, <2>3
<1>6. CASE /\ p[1] < b /\ i = 1
           /\ p[1] \in 1 .. Bits => Len(buckets[p[1]].nodes) <= p[2]
           /\ \A j \in 1 .. Bits : p[1] < j /\ j < b => Len(buckets[j].nodes) = 0
  <2>1. n \notin FirstNodes(buckets[b].nodes, i)
    <3> SUFFICES ASSUME n \in FirstNodes(buckets[b].nodes, i) PROVE FALSE
      OBVIOUS
    <3>1. PICK k \in DOMAIN buckets[b].nodes : k <= i /\ n = buckets[b].nodes[k]
      BY DEF FirstNodes
    <3>2. k = i
      BY <1>1, <1>3, <1>6, <3>1
    <3> QED BY <1>2, <1>4, <3>1, <3>2
  <2>2. PICK j \in 1 .. b - 1 : n \in Range(buckets[j].nodes)
    BY <1>4, <2>1
  <2>3. j \in 1 .. Bits /\ j < b
    BY <1>1, BitsAssumption
  <2>4. PICK k \in 1 .. Len(buckets[j].nodes) : n = buckets[j].nodes[k]
    BY <1>3, <2>2, <2>3 DEF Range
  <2>5. Len(buckets[j].nodes) # 0
    BY <1>3, <2>3, <2>4
  <2>6. j <= p[1]
    BY <1>3, <1>6, <2>3, <2>5
  <2>7. CASE j = p[1]
    <3>1. Len(buckets[j].nodes) <= p[2]
      BY <1>6, <2>3, <2>7
    <3>2. k <= p[2]
      BY <1>3, <2>3, <2>4, <3>1
    <3> QED BY <1>3, <1>4, <2>3, <2>4, <2>7, <3>2 DEF FirstNodes
  <2>8. CASE j # p[1]
    <3>1. j \in 1 .. p[1] - 1
      BY <1>3, <2>3, <2>6, <2>8
    <3> QED BY <1>4, <2>2, <2>3, <3>1
  <2> QED BY <2>7, <2>8
<1> QED BY <1>1, <1>5, <1>6

-----------------------------------------------------------------------------
(* Every step keeps the invariant.                                         *)

\* The lists after a step lie in the ranges of the lists before it.
LEMMA ListsAfter ==
    ASSUME RtInv, RtInv', localId' = localId, NEW i \in 1 .. Bits
    PROVE  /\ GoodList(buckets[i].nodes, buckets[i], made) /\ made \in Nat
           /\ GoodList(buckets'[i].nodes, buckets[i], made') /\ made' \in Nat
           /\ DOMAIN buckets = 1 .. Bits /\ DOMAIN buckets' = 1 .. Bits
<1>1. /\ GoodList(buckets[i].nodes, buckets[i], made) /\ made \in Nat
      /\ DOMAIN buckets = 1 .. Bits
  BY TableFacts
<1>2. /\ GoodList(buckets'[i].nodes, buckets'[i], made') /\ made' \in Nat
      /\ DOMAIN buckets' = 1 .. Bits
  BY SizeAssumption DEF RtInv, LayoutStays
<1>3. \A id : WithinRange(buckets'[i], id) <=> WithinRange(buckets[i], id)
  BY RangesStay
<1>4. GoodList(buckets'[i].nodes, buckets[i], made')
  BY <1>2, <1>3 DEF GoodList
<1> QED BY <1>1, <1>2, <1>4

\* While a packet is handled the loop stays where it is, and what it has asked stays in
\* the lists it has come to.
LEMMA PacketKeepsAsked ==
    ASSUME RdInv, phase = "table", RtInv', localId' = localId, made \in Nat, made' \in Nat,
           made <= made', UNCHANGED <<place, asked>>
    PROVE  /\ place' \in (1 .. Bits) \X (1 .. Capacity)
           /\ asked' \subseteq Node
           /\ \A n \in asked' : /\ n.ref <= made'
                                /\ \E j \in 1 .. place'[1] : WithinRange(buckets'[j], n.id)
<1>1. /\ RtInv /\ place \in (1 .. Bits) \X (1 .. Capacity) /\ asked \subseteq Node
      /\ \A n \in asked : n.ref <= made /\ \E j \in 1 .. place[1] : WithinRange(buckets[j], n.id)
  BY DEF RdInv, AtPlace
<1>2. ASSUME NEW n \in asked
      PROVE  n.ref <= made' /\ \E j \in 1 .. place[1] : WithinRange(buckets'[j], n.id)
  <2>1. n.ref \in Nat /\ n.ref <= made
    BY <1>1, <1>2 DEF Node
  <2>2. PICK j \in 1 .. place[1] : WithinRange(buckets[j], n.id)
    BY <1>1, <1>2
  <2>3. j \in 1 .. Bits
    BY <1>1, BitsAssumption
  <2>4. WithinRange(buckets'[j], n.id)
    BY <1>1, <2>2, <2>3, RangesStay
  <2> QED BY <2>1, <2>2, <2>4
<1> QED BY <1>1, <1>2

\* A packet that adds nodes: those it pushes behind the loop's place are no more than
\* those that came in, and it takes none past that place.
LEMMA FoundKeeps ==
    ASSUME RdInv, NEW sender \in Contact, NEW len \in 0 .. MaxFound,
           NEW contacts \in [1 .. len -> Contact], AddFound(contacts, sender),
           phase = "table", HandlePacket
    PROVE  RtInv' /\ AtPlace' /\ ahead' \in Nat /\ behind' \in Nat
<1> DEFINE b == place[1]
           p == place[2]
           old == buckets[b].nodes
           new == buckets'[b].nodes
           A == {n \in Range(new) : n.ref > made}
           G == {k \in DOMAIN old : k <= p /\ old[k] \notin Range(new) /\ made' = made}
<1>1. /\ RtInv /\ AtPlace /\ place \in (1 .. Bits) \X (1 .. Capacity)
      /\ repeats \in Nat /\ ahead \in Nat /\ behind \in Nat /\ staying \subseteq AllNodes
  BY DEF RdInv, AtPlace
<1>2. b \in 1 .. Bits /\ p \in Nat /\ b \in Nat
  BY <1>1, SizeAssumption
<1>3. /\ RtInv' /\ made' = made + (len + 1) /\ localId' = localId
      /\ \A i \in 1 .. Bits :
            /\ \A x \in Range(buckets'[i].nodes) : x \in Range(buckets[i].nodes) \/ x.ref > made
            /\ \E d : Pushed(buckets[i].nodes, buckets'[i].nodes, d, made)
  <2>1. len \in Nat /\ len + 1 \in Nat
    BY SizeAssumption
  <2>2. Append(contacts, sender) \in [1 .. len + 1 -> Contact]
    BY <2>1, AppendedContacts
  <2>3. Len(Append(contacts, sender)) = len + 1
    BY <2>1, <2>2
  <2>4. AddNodes(Append(contacts, sender))
    BY DEF AddFound
  <2>5. made' = made + (len + 1) /\ localId' = localId
    BY <2>3, <2>4 DEF AddNodes
  <2> QED BY <1>1, <2>1, <2>2, <2>4, <2>5, AddNodesStep
<1>4. \A i \in 1 .. Bits :
         /\ GoodList(buckets[i].nodes, buckets[i], made) /\ made \in Nat
         /\ GoodList(buckets'[i].nodes, buckets[i], made') /\ made' \in Nat
         /\ DOMAIN buckets = 1 .. Bits
  BY <1>1, <1>3, ListsAfter
<1>5. /\ UNCHANGED <<phase, place, asked, repeats>>
      /\ staying' = staying \cap AllNodes'
      /\ ahead' = ahead + Cardinality(A)
      /\ behind' = behind + Cardinality(G)
  BY DEF HandlePacket
<1>6. PICK d : Pushed(old, new, d, made)
  BY <1>2, <1>3
<1>7. GoodList(old, buckets[b], made) /\ GoodList(new, buckets[b], made')
      /\ made \in Nat /\ made' \in Nat /\ made <= made'
  <2>1. len \in Nat
    BY SizeAssumption
  <2> QED BY <1>2, <1>3, <1>4, <2>1
<1>8. Cardinality(A) \in Nat /\ Cardinality(G) \in Nat
  <2>1. IsFiniteSet(Range(new))
    BY <1>7, RangeOfGood
  <2>2. A \subseteq Range(new) /\ G \subseteq DOMAIN old
    OBVIOUS
  <2> HIDE DEF A, G, old, new
  <2>3. Cardinality(G) \in Nat
    BY <1>7, <2>2, PositionsFinite
  <2> QED BY <2>1, <2>2, <2>3, FS_Subset, FS_CardinalityType
<1>9. /\ place' \in (1 .. Bits) \X (1 .. Capacity)
      /\ asked' \subseteq Node
      /\ \A n \in asked' : /\ n.ref <= made'
                           /\ \E j \in 1 .. place'[1] : WithinRange(buckets'[j], n.id)
  BY <1>3, <1>5, <1>7, PacketKeepsAsked
<1>10. repeats' + Cardinality(Behind(new, p, asked')) <= ahead'
  <2>1. \A n \in asked : n.ref <= made
    BY <1>1 DEF AtPlace
  <2>2. repeats + Cardinality(Behind(old, p, asked)) <= ahead
    BY <1>1 DEF AtPlace
  <2> HIDE DEF old, new, p
  <2>3. Cardinality(Behind(new, p, asked)) <= Cardinality(Behind(old, p, asked)) + Cardinality(A)
    BY <1>2, <1>6, <1>7, <2>1, ArrivalsPush
  <2>4. /\ Behind(new, p, asked) \subseteq DOMAIN new
        /\ Behind(old, p, asked) \subseteq DOMAIN old
    BY DEF Behind
  <2>5. /\ Cardinality(Behind(new, p, asked)) \in Nat
        /\ Cardinality(Behind(old, p, asked)) \in Nat
    BY <1>7, <2>4, PositionsFinite
  <2> HIDE DEF A, G
  <2> QED BY <1>1, <1>5, <1>8, <2>2, <2>3, <2>5
<1>11. Missed' \subseteq Missed
  <2> SUFFICES ASSUME NEW n \in Missed' PROVE n \in Missed
    OBVIOUS
  <2>1. /\ n \in staying /\ n \in AllNodes /\ n \notin asked
        /\ \/ \E j \in 1 .. b - 1 : n \in Range(buckets'[j].nodes)
           \/ n \in FirstNodes(new, p)
    BY <1>1, <1>5 DEF Missed
  <2>2. n.ref \in Nat /\ n.ref <= made
    <3>1. PICK i \in 1 .. Bits : n \in Range(buckets[i].nodes)
      BY <1>4, <2>1, <1>2 DEF AllNodes
    <3> QED BY <1>4, <3>1, GoodListMembers
  <2>3. ASSUME NEW j \in 1 .. b - 1, n \in Range(buckets'[j].nodes)
        PROVE  n \in Range(buckets[j].nodes)
    <3>1. j \in 1 .. Bits
      BY <1>2, BitsAssumption
    <3>2. n \in Range(buckets[j].nodes) \/ n.ref > made
      BY <1>3, <2>3, <3>1
    <3> QED BY <1>7, <2>2, <3>2
  <2>4. n \in FirstNodes(new, p) => n \in FirstNodes(old, p)
    <3> HIDE DEF old, new, p
    <3> QED BY <1>2, <1>6, <1>7, <2>2, ArrivalsPass
  <2> QED BY <2>1, <2>3, <2>4 DEF Missed
<1>12. IsFiniteSet(Missed') /\ Cardinality(Missed') <= behind'
  <2>1. IsFiniteSet(Missed) /\ Cardinality(Missed) <= behind
    BY <1>1 DEF AtPlace
  <2>2. IsFiniteSet(Missed') /\ Cardinality(Missed') <= Cardinality(Missed)
    BY <1>11, <2>1, FS_Subset
  <2>3. Cardinality(Missed) \in Nat /\ Cardinality(Missed') \in Nat
    BY <2>1, <2>2, FS_CardinalityType
  <2> HIDE DEF G
  <2> QED BY <1>1, <1>5, <1>8, <2>1, <2>2, <2>3
<1>13. ahead' \in Nat /\ behind' \in Nat
  <2> HIDE DEF A, G
  <2> QED BY <1>1, <1>5, <1>8
<1> QED BY <1>3, <1>5, <1>9, <1>10, <1>12, <1>13 DEF AtPlace

\* A packet that removes nodes: it brings none behind the loop's place, and no more past
\* that place than leave from before it.
LEMMA RemovalKeeps ==
    ASSUME RdInv, NEW addr \in Addrs, RemoveByIp(addr), phase = "table", HandlePacket
    PROVE  RtInv' /\ AtPlace' /\ ahead' \in Nat /\ behind' \in Nat
<1> DEFINE b == place[1]
           p == place[2]
           old == buckets[b].nodes
           new == buckets'[b].nodes
           A == {n \in Range(new) : n.ref > made}
           G == {k \in DOMAIN old : k <= p /\ old[k] \notin Range(new)}
           C == FirstNodes(new, p) \ FirstNodes(old, p)
<1>1. /\ RtInv /\ AtPlace /\ place \in (1 .. Bits) \X (1 .. Capacity)
      /\ repeats \in Nat /\ ahead \in Nat /\ behind \in Nat
  BY DEF RdInv, AtPlace
<1>2. b \in 1 .. Bits /\ p \in Nat /\ b \in Nat
  BY <1>1, SizeAssumption
<1>3. /\ RtInv' /\ made' = made /\ localId' = localId
      /\ \A i \in 1 .. Bits : \E R : buckets'[i].nodes = RemovedFrom(buckets[i].nodes, R)
  BY <1>1, WithoutStep DEF RemoveByIp
<1>4. \A i \in 1 .. Bits :
         /\ GoodList(buckets[i].nodes, buckets[i], made) /\ made \in Nat
         /\ GoodList(buckets'[i].nodes, buckets[i], made') /\ made' \in Nat
  BY <1>1, <1>3, ListsAfter
<1>5. /\ UNCHANGED <<phase, place, asked, repeats>>
      /\ staying' = staying \cap AllNodes'
      /\ ahead' = ahead + Cardinality(A)
      /\ behind' = behind + Cardinality(G)
  <2>1. G = {k \in DOMAIN old : k <= p /\ old[k] \notin Range(new) /\ made' = made}
    BY <1>3
  <2> HIDE DEF G
  <2> QED BY <2>1 DEF HandlePacket
<1>6. PICK R : new = RemovedFrom(old, R)
  BY <1>2, <1>3
<1>7. /\ GoodList(old, buckets[b], made) /\ GoodList(new, buckets[b], made)
      /\ made \in Nat /\ made' \in Nat /\ made <= made'
  BY <1>2, <1>3, <1>4
<1>8. Cardinality(A) \in Nat /\ Cardinality(G) \in Nat
  <2>1. IsFiniteSet(Range(new))
    BY <1>7, RangeOfGood
  <2>2. A \subseteq Range(new) /\ G \subseteq DOMAIN old
    OBVIOUS
  <2> HIDE DEF A, G, old, new
  <2>3. Cardinality(G) \in Nat
    BY <1>7, <2>2, PositionsFinite
  <2> QED BY <2>1, <2>2, <2>3, FS_Subset, FS_CardinalityType
<1>9. /\ place' \in (1 .. Bits) \X (1 .. Capacity)
      /\ asked' \subseteq Node
      /\ \A n \in asked' : /\ n.ref <= made'
                           /\ \E j \in 1 .. place'[1] : WithinRange(buckets'[j], n.id)
  BY <1>3, <1>5, <1>7, PacketKeepsAsked
<1>10. repeats' + Cardinality(Behind(new, p, asked')) <= ahead'
  <2>1. repeats + Cardinality(Behind(old, p, asked)) <= ahead
    BY <1>1 DEF AtPlace
  <2> HIDE DEF old, new, p
  <2>2. Cardinality(Behind(new, p, asked)) <= Cardinality(Behind(old, p, asked))
    BY <1>2, <1>6, <1>7, RemovalRepeats
  <2>3. /\ Behind(new, p, asked) \subseteq DOMAIN new
        /\ Behind(old, p, asked) \subseteq DOMAIN old
    BY DEF Behind
  <2>4. /\ Cardinality(Behind(new, p, asked)) \in Nat
        /\ Cardinality(Behind(old, p, asked)) \in Nat
    BY <1>7, <2>3, PositionsFinite
  <2> HIDE DEF A, G
  <2> QED BY <1>1, <1>5, <1>8, <2>1, <2>2, <2>4
<1>11. Missed' \subseteq Missed \cup C
  <2> SUFFICES ASSUME NEW n \in Missed', n \notin C PROVE n \in Missed
    OBVIOUS
  <2>1. /\ n \in staying /\ n \notin asked
        /\ \/ \E j \in 1 .. b - 1 : n \in Range(buckets'[j].nodes)
           \/ n \in FirstNodes(new, p)
    BY <1>5 DEF Missed
  <2>2. ASSUME NEW j \in 1 .. b - 1, n \in Range(buckets'[j].nodes)
        PROVE  n \in Range(buckets[j].nodes)
    <3>1. j \in 1 .. Bits
      BY <1>2, BitsAssumption
    <3>2. PICK Q : buckets'[j].nodes = RemovedFrom(buckets[j].nodes, Q)
      BY <1>3, <3>1
    <3>3. GoodList(buckets[j].nodes, buckets[j], made) /\ made \in Nat
      BY <1>4, <3>1
    <3> QED BY <2>2, <3>2, <3>3, RemovedFromGood
  <2> QED BY <2>1, <2>2 DEF Missed
<1>12. IsFiniteSet(Missed') /\ Cardinality(Missed') <= behind'
  <2>1. IsFiniteSet(Missed) /\ Cardinality(Missed) <= behind
    BY <1>1 DEF AtPlace
  <2>2. IsFiniteSet(C) /\ Cardinality(C) <= Cardinality(G)
    <3> HIDE DEF old, new, p
    <3> QED BY <1>2, <1>6, <1>7, RemovalPasses
  <2> HIDE DEF C, G
  <2>3. /\ IsFiniteSet(Missed \cup C)
        /\ Cardinality(Missed) \in Nat /\ Cardinality(C) \in Nat
        /\ Cardinality(Missed \cup C) \in Nat
        /\ Cardinality(Missed \cup C) <= Cardinality(Missed) + Cardinality(C)
    BY <2>1, <2>2, SizeOfUnion
  <2>4. IsFiniteSet(Missed') /\ Cardinality(Missed') <= Cardinality(Missed \cup C)
    BY <1>11, <2>3, FS_Subset
  <2>5. Cardinality(Missed') \in Nat
    BY <2>4, FS_CardinalityType
  <2> QED BY <1>1, <1>5, <1>8, <2>1, <2>2, <2>3, <2>4, <2>5
<1>13. ahead' \in Nat /\ behind' \in Nat
  <2> HIDE DEF A, G
  <2> QED BY <1>1, <1>5, <1>8
<1> QED BY <1>3, <1>5, <1>9, <1>10, <1>12, <1>13 DEF AtPlace

\* A packet between two rounds, or between the pings, changes the table alone.
LEMMA PacketKeeps ==
    ASSUME RdInv, HandlePacket
    PROVE  RdInv'
<1>1. /\ RtInv /\ phase \in {"constructor", "idle", "bootstrap", "table"} /\ place \in Nat \X Nat
      /\ repeats \in Nat /\ ahead \in Nat /\ behind \in Nat
      /\ staying \subseteq AllNodes /\ made \in Nat
  BY TableFacts DEF RdInv
<1>2. UNCHANGED <<phase, place, asked, repeats>>
  BY DEF HandlePacket
<1>3. RtInv'
  <2>1. ASSUME NEW sender \in Contact, NEW len \in 0 .. MaxFound,
               NEW contacts \in [1 .. len -> Contact], AddFound(contacts, sender)
        PROVE  RtInv'
    <3>1. [RtNext]_rtVars
      BY <2>1 DEF RtNext
    <3> QED BY <1>1, <3>1, RtNextInv
  <2>2. ASSUME NEW addr \in Addrs, RemoveByIp(addr) PROVE RtInv'
    <3>1. [RtNext]_rtVars
      BY <2>2 DEF RtNext
    <3> QED BY <1>1, <3>1, RtNextInv
  <2> QED BY <2>1, <2>2 DEF HandlePacket
<1>4. CASE phase # "table"
  <2>1. UNCHANGED <<staying, ahead, behind>> /\ NothingYet
    BY <1>4 DEF HandlePacket, RdInv
  <2>2. NothingYet' /\ staying' \subseteq AllNodes'
    BY <1>2, <2>1 DEF NothingYet
  <2> QED BY <1>1, <1>2, <1>3, <1>4, <2>1, <2>2 DEF RdInv
<1>5. CASE phase = "table"
  <2>1. AtPlace' /\ ahead' \in Nat /\ behind' \in Nat
    <3>1. ASSUME NEW sender \in Contact, NEW len \in 0 .. MaxFound,
                 NEW contacts \in [1 .. len -> Contact], AddFound(contacts, sender)
          PROVE  AtPlace' /\ ahead' \in Nat /\ behind' \in Nat
      BY <1>5, <3>1, FoundKeeps
    <3>2. ASSUME NEW addr \in Addrs, RemoveByIp(addr)
          PROVE  AtPlace' /\ ahead' \in Nat /\ behind' \in Nat
      BY <1>5, <3>2, RemovalKeeps
    <3> QED BY <3>1, <3>2 DEF HandlePacket
  <2>2. staying' \subseteq AllNodes'
    BY <1>5 DEF HandlePacket
  <2> QED BY <1>1, <1>2, <1>3, <1>5, <2>1, <2>2 DEF RdInv
<1> QED BY <1>4, <1>5

\* The end of a round.
LEMMA EndKeeps ==
    ASSUME RtInv, UNCHANGED rtVars, phase' = "idle", place' = <<0, 0>>, Forgotten,
           staying' = {}
    PROVE  RdInv'
<1>1. RtInv'
  BY DEF rtVars, RtInv, LayoutStays
<1> QED BY <1>1 DEF RdInv, Forgotten, NothingYet

\* The first query of the second loop: the lists before it are empty.
LEMMA BeginKeeps ==
    ASSUME RdInv, BeginTable
    PROVE  RdInv'
<1> DEFINE p == <<0, 0>>
<1>1. /\ RtInv /\ NothingYet /\ UNCHANGED rtVars /\ p \in Nat \X Nat
      /\ GoOn(p) /\ staying' = IF phase' = "table" THEN AllNodes ELSE {}
  BY DEF RdInv, BeginTable
<1>2. RtInv' /\ AllNodes' = AllNodes
  BY <1>1 DEF rtVars, RtInv, LayoutStays, AllNodes
<1>3. ASSUME NEW q \in NextPlaces(p), \A r \in NextPlaces(p) : q[1] < r[1] \/ q = r,
             phase' = "table", Ask(q), UNCHANGED <<ahead, behind>>
      PROVE  RdInv'
  <2>1. /\ asked = {} /\ repeats = 0 /\ ahead = 0 /\ behind = 0
        /\ p[1] = 0 /\ p[1] \notin 1 .. Bits
    BY <1>1 DEF NothingYet
  <2>2. ahead' = ahead /\ behind' = behind
    BY <1>3
  <2> HIDE DEF p
  <2>3. /\ place' \in (1 .. Bits) \X (1 .. Capacity) /\ place' \in Nat \X Nat
        /\ asked' \subseteq Node
        /\ \A n \in asked' : /\ n.ref <= made'
                             /\ \E j \in 1 .. place'[1] : WithinRange(buckets'[j], n.id)
        /\ repeats' \in Nat
        /\ repeats' + Cardinality(Behind(buckets'[place'[1]].nodes, place'[2], asked')) <= ahead'
    BY <1>1, <1>3, <2>1, <2>2, AskStep
  <2>4. Missed' = {}
    <3> SUFFICES ASSUME NEW n \in Missed' PROVE FALSE
      OBVIOUS
    <3>1. \/ \E j \in 1 .. p[1] - 1 : j \in 1 .. Bits /\ n \in Range(buckets[j].nodes)
          \/ p[1] \in 1 .. Bits /\ n \in FirstNodes(buckets[p[1]].nodes, p[2])
      BY <1>1, <1>3, MissedBefore
    <3> QED BY <2>1, <3>1
  <2>5. IsFiniteSet(Missed') /\ Cardinality(Missed') <= behind'
    <3>1. IsFiniteSet(Missed') /\ Cardinality(Missed') = 0
      BY <2>4, FS_EmptySet
    <3> QED BY <2>1, <2>2, <3>1
  <2>6. AtPlace'
    BY <2>3, <2>5 DEF AtPlace
  <2> QED BY <1>1, <1>2, <1>3, <2>1, <2>2, <2>3, <2>6 DEF RdInv
<1>4. ASSUME NextPlaces(p) = {}, phase' = "idle", place' = <<0, 0>>, Forgotten PROVE RdInv'
  BY <1>1, <1>4, EndKeeps
<1> QED BY <1>1, <1>3, <1>4 DEF GoOn

\* A further turn of the second loop.
LEMMA ResumeKeeps ==
    ASSUME RdInv, ResumeTable
    PROVE  RdInv'
<1>1. /\ RtInv /\ AtPlace /\ UNCHANGED rtVars /\ place \in Nat \X Nat
      /\ repeats \in Nat /\ ahead \in Nat /\ behind \in Nat /\ staying \subseteq AllNodes
      /\ GoOn(place) /\ staying' = IF phase' = "table" THEN staying ELSE {}
  BY DEF RdInv, ResumeTable
<1>2. RtInv' /\ AllNodes' = AllNodes
  BY <1>1 DEF rtVars, RtInv, LayoutStays, AllNodes
<1>3. ASSUME NEW q \in NextPlaces(place), \A r \in NextPlaces(place) : q[1] < r[1] \/ q = r,
             phase' = "table", Ask(q), UNCHANGED <<ahead, behind>>
      PROVE  RdInv'
  <2>1. /\ place \in (1 .. Bits) \X (1 .. Capacity) /\ asked \subseteq Node
        /\ \A n \in asked : n.ref <= made
                            /\ \E j \in 1 .. place[1] : WithinRange(buckets[j], n.id)
        /\ repeats + Cardinality(Behind(buckets[place[1]].nodes, place[2], asked)) <= ahead
        /\ IsFiniteSet(Missed) /\ Cardinality(Missed) <= behind
    BY <1>1 DEF AtPlace
  <2>2. ahead' = ahead /\ behind' = behind
    BY <1>3
  <2>3. repeats <= ahead
    <3> DEFINE V == Behind(buckets[place[1]].nodes, place[2], asked)
    <3>1. place[1] \in 1 .. Bits /\ V \subseteq DOMAIN buckets[place[1]].nodes
      BY <2>1 DEF Behind
    <3>2. made \in Nat /\ GoodList(buckets[place[1]].nodes, buckets[place[1]], made)
      BY <1>1, <3>1, TableFacts
    <3> HIDE DEF V
    <3>3. Cardinality(V) \in Nat
      BY <3>1, <3>2, PositionsFinite
    <3>4. repeats + Cardinality(V) <= ahead
      BY <2>1 DEF V
    <3> QED BY <1>1, <3>3, <3>4
  <2>4. /\ place' \in (1 .. Bits) \X (1 .. Capacity) /\ place' \in Nat \X Nat
        /\ asked' \subseteq Node
        /\ \A n \in asked' : /\ n.ref <= made'
                             /\ \E j \in 1 .. place'[1] : WithinRange(buckets'[j], n.id)
        /\ repeats' \in Nat
        /\ repeats' + Cardinality(Behind(buckets'[place'[1]].nodes, place'[2], asked')) <= ahead'
    BY <1>1, <1>3, <2>1, <2>2, <2>3, AskStep
  <2>5. Missed' \subseteq Missed
    <3> SUFFICES ASSUME NEW n \in Missed' PROVE n \in Missed
      OBVIOUS
    <3>1. /\ n \in staying' \ asked
          /\ \/ \E j \in 1 .. place[1] - 1 : j \in 1 .. Bits /\ n \in Range(buckets[j].nodes)
             \/ place[1] \in 1 .. Bits /\ n \in FirstNodes(buckets[place[1]].nodes, place[2])
      BY <1>1, <1>3, MissedBefore
    <3>2. n \in staying \ asked
      BY <1>1, <1>3, <3>1
    <3> QED BY <3>1, <3>2 DEF Missed
  <2>6. IsFiniteSet(Missed') /\ Cardinality(Missed') <= behind'
    <3>1. IsFiniteSet(Missed') /\ Cardinality(Missed') <= Cardinality(Missed)
      BY <2>1, <2>5, FS_Subset
    <3>2. Cardinality(Missed) \in Nat /\ Cardinality(Missed') \in Nat
      BY <2>1, <3>1, FS_CardinalityType
    <3> QED BY <1>1, <2>1, <2>2, <3>1, <3>2
  <2>7. AtPlace'
    BY <2>4, <2>6 DEF AtPlace
  <2>8. staying' \subseteq AllNodes'
    BY <1>1, <1>2, <1>3
  <2> QED BY <1>1, <1>2, <1>3, <2>2, <2>4, <2>7, <2>8 DEF RdInv
<1>4. ASSUME NextPlaces(place) = {}, phase' = "idle", place' = <<0, 0>>, Forgotten PROVE RdInv'
  BY <1>1, <1>4, EndKeeps
<1> QED BY <1>1, <1>3, <1>4 DEF GoOn

\* The invariant is inductive.
LEMMA RdNextInv == RdInv /\ [RdNext]_rdVars => RdInv'
<1> SUFFICES ASSUME RdInv, [RdNext]_rdVars PROVE RdInv'
  OBVIOUS
<1>1. ASSUME UNCHANGED rtVars PROVE RtInv' /\ AllNodes' = AllNodes
  BY <1>1 DEF RdInv, rtVars, RtInv, LayoutStays, AllNodes
<1>2. CASE StartRound
  <2>1. /\ UNCHANGED <<rtVars, staying, asked, repeats, ahead, behind>>
        /\ phase = "idle" /\ phase' = "bootstrap" /\ place' = <<1, 1>>
    BY <1>2 DEF StartRound
  <2>2. NothingYet'
    BY <2>1 DEF NothingYet, RdInv
  <2> QED BY <1>1, <2>1, <2>2 DEF RdInv
<1>3. CASE ResumeBootstrap
  <2>1. /\ UNCHANGED <<rtVars, phase, staying, asked, repeats, ahead, behind>>
        /\ phase \in {"constructor", "bootstrap"}
        /\ place' = IF place[2] = 1 THEN <<place[1], 2>> ELSE <<place[1] + 1, 1>>
    BY <1>3 DEF ResumeBootstrap
  <2>2. NothingYet' /\ place' \in Nat \X Nat
    BY <2>1 DEF NothingYet, RdInv
  <2> QED BY <1>1, <2>1, <2>2 DEF RdInv
<1>4. CASE BeginTable
  BY <1>4, BeginKeeps
<1>5. CASE ResumeTable
  BY <1>5, ResumeKeeps
<1>6. CASE HandlePacket
  BY <1>6, PacketKeeps
<1>7. CASE UNCHANGED rdVars
  <2>1. UNCHANGED <<rtVars, phase, place, staying, asked, repeats, ahead, behind>>
    BY <1>7 DEF rdVars, roundVars
  <2>2. UNCHANGED <<localId, buckets, made>>
    BY <2>1 DEF rtVars
  <2>3. AtPlace' <=> AtPlace
    BY <2>1, <2>2 DEF AtPlace, Missed
  <2>4. NothingYet' <=> NothingYet
    BY <2>1 DEF NothingYet
  <2> QED BY <1>1, <2>1, <2>3, <2>4 DEF RdInv
<1>8. CASE EndConstructor
  <2>1. /\ UNCHANGED <<rtVars, staying, asked, repeats, ahead, behind>>
        /\ phase = "constructor" /\ phase' = "idle" /\ place' = <<0, 0>>
    BY <1>8 DEF EndConstructor
  <2>2. NothingYet'
    BY <2>1 DEF NothingYet, RdInv
  <2>3. place' \in Nat \X Nat
    BY <2>1
  <2> QED BY <1>1, <2>1, <2>2, <2>3 DEF RdInv
<1> QED BY <1>2, <1>3, <1>4, <1>5, <1>6, <1>7, <1>8 DEF RdNext, Resumes

\* The invariant holds of every behaviour.
LEMMA RdInvariant == RdSpec => []RdInv
<1>1. RdInit => RdInv
  <2> SUFFICES ASSUME RdInit PROVE RdInv
    OBVIOUS
  <2>1. RtInv
    BY RtInitInv DEF RdInit
  <2>2. phase = "constructor" /\ phase # "table" /\ place \in Nat \X Nat /\ NothingYet
    BY DEF RdInit, NothingYet
  <2> QED BY <2>1, <2>2 DEF RdInv, NothingYet
<1> QED BY <1>1, RdNextInv, PTL DEF RdSpec

-----------------------------------------------------------------------------
(* The properties of a round.                                              *)

\* While packets come between any two of its queries, a round keeps its types, and what
\* it has seen stay is in the table (Rounds).
THEOREM RdTypeCorrect == RdSpec => []RdTypeOK
<1>1. RdInv => RdTypeOK
  <2> SUFFICES ASSUME RdInv PROVE RdTypeOK
    OBVIOUS
  <2>1. asked \subseteq Node
    BY DEF RdInv, AtPlace, NothingYet
  <2>2. RtTypeOK
    BY RtInvIsTyped DEF RdInv
  <2> QED BY <2>1, <2>2 DEF RdInv, RdTypeOK
<1> QED BY <1>1, RdInvariant, PTL

\* The loop over a list that grows at its front leaves it after Capacity queries: the
\* loop of sendFindNodeRequest ends, whatever comes in.
THEOREM ListsAlwaysShort == RdSpec => []ListsAreShort
<1>1. RdInv => ListsAreShort
  <2> SUFFICES ASSUME RdInv, phase = "table" PROVE place[2] <= Capacity
    BY DEF ListsAreShort
  <2>1. place \in (1 .. Bits) \X (1 .. Capacity)
    BY DEF RdInv, AtPlace
  <2> QED BY <2>1, SizeAssumption
<1> QED BY <1>1, RdInvariant, PTL

\* A node is asked twice in a round only when others came in at the front of the list
\* that the loop was at, and no more often than others did.
THEOREM RepeatsAlwaysNeedArrivals == RdSpec => []RepeatsNeedArrivals
<1>1. RdInv => RepeatsNeedArrivals
  <2> SUFFICES ASSUME RdInv PROVE repeats <= ahead
    BY DEF RepeatsNeedArrivals
  <2>1. CASE phase # "table"
    BY <2>1 DEF RdInv, NothingYet
  <2>2. CASE phase = "table"
    <3> DEFINE V == Behind(buckets[place[1]].nodes, place[2], asked)
    <3>1. /\ RtInv /\ place[1] \in 1 .. Bits /\ repeats \in Nat /\ ahead \in Nat
          /\ repeats + Cardinality(V) <= ahead
      BY <2>2 DEF RdInv, AtPlace
    <3>2. V \subseteq DOMAIN buckets[place[1]].nodes
      BY DEF Behind
    <3>3. made \in Nat /\ GoodList(buckets[place[1]].nodes, buckets[place[1]], made)
      BY <3>1, TableFacts
    <3> HIDE DEF V
    <3>4. Cardinality(V) \in Nat
      BY <3>2, <3>3, PositionsFinite
    <3> QED BY <3>1, <3>4
  <2> QED BY <2>1, <2>2
<1> QED BY <1>1, RdInvariant, PTL

\* A round that ends has asked every node that was there all the time, but for as many
\* at most as were removed from places the loop had passed.
LEMMA EndMissesFew ==
    ASSUME RdInv, RdNext, phase = "table", phase' = "idle"
    PROVE  Cardinality(staying \ asked) <= behind
<1>1. NextPlaces(place) = {}
  <2>1. ResumeTable
    BY DEF RdNext, Resumes, StartRound, ResumeBootstrap, EndConstructor, BeginTable,
           HandlePacket
  <2> QED BY <2>1 DEF ResumeTable, GoOn
<1>2. /\ RtInv /\ place \in (1 .. Bits) \X (1 .. Capacity) /\ place \in Nat \X Nat
      /\ behind \in Nat /\ staying \subseteq AllNodes
      /\ IsFiniteSet(Missed) /\ Cardinality(Missed) <= behind
  BY DEF RdInv, AtPlace
<1>3. Bits + 1 \in Nat /\ Bits + 1 > place[1] /\ place[1] \in 1 .. Bits
  BY <1>2, BitsAssumption
<1>4. /\ Len(buckets[place[1]].nodes) <= place[2]
      /\ \A j \in 1 .. Bits : place[1] < j /\ j < Bits + 1 => Len(buckets[j].nodes) = 0
  <2>1. \A r \in NextPlaces(place) : r[1] >= Bits + 1
    BY <1>1
  <2> QED BY <1>2, <1>3, <2>1, ListsLeft
<1>5. staying \ asked \subseteq Missed
  <2> SUFFICES ASSUME NEW n \in staying \ asked PROVE n \in Missed
    OBVIOUS
  <2>1. PICK j \in 1 .. Bits : n \in Range(buckets[j].nodes)
    BY <1>2, AllNodesAre
  <2>2. /\ DOMAIN buckets[j].nodes = 1 .. Len(buckets[j].nodes)
        /\ Len(buckets[j].nodes) \in Nat
    BY <1>2, TableFacts
  <2>3. PICK k \in 1 .. Len(buckets[j].nodes) : n = buckets[j].nodes[k]
    BY <2>1, <2>2 DEF Range
  <2>4. j <= place[1]
    BY <1>3, <1>4, <2>2, <2>3, BitsAssumption
  <2>5. CASE j < place[1]
    <3>1. j \in 1 .. place[1] - 1
      BY <1>2, <2>5
    <3> QED BY <2>1, <3>1 DEF Missed
  <2>6. CASE j = place[1]
    <3>1. k <= place[2]
      BY <1>2, <1>4, <2>2, <2>6
    <3>2. n \in FirstNodes(buckets[place[1]].nodes, place[2])
      BY <2>2, <2>3, <2>6, <3>1 DEF FirstNodes
    <3> QED BY <3>2 DEF Missed
  <2> QED BY <1>3, <2>4, <2>5, <2>6, BitsAssumption
<1>6. IsFiniteSet(staying \ asked) /\ Cardinality(staying \ asked) <= Cardinality(Missed)
  BY <1>2, <1>5, FS_Subset
<1>7. Cardinality(Missed) \in Nat /\ Cardinality(staying \ asked) \in Nat
  BY <1>2, <1>6, FS_CardinalityType
<1> QED BY <1>2, <1>6, <1>7

\* Nodes that stay are skipped only for others that leave: a node that comes in never
\* makes the loop pass one by.
THEOREM SkipsAlwaysNeedRemovals == RdSpec => SkipsNeedRemovals
<1>1. RdInv /\ [RdNext]_rdVars =>
         [(phase = "table" /\ phase' = "idle") => Cardinality(staying \ asked) <= behind]_rdVars
  BY EndMissesFew
<1> QED BY <1>1, RdInvariant, PTL DEF RdSpec, SkipsNeedRemovals

=============================================================================
