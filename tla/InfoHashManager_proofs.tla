-------------------------- MODULE InfoHashManager_proofs --------------------------
(***************************************************************************)
(* What InfoHashManager keeps, for every number of info hashes, peers and  *)
(* tids.  A store is good when its two Maps agree and keep their limits;   *)
(* add takes good stores to good ones, so addList does, which is add for   *)
(* one peer after the other.                                               *)
(***************************************************************************)
EXTENDS InfoHashManager, Positions_proofs

\* The stores that the two Maps can be.
Stores ==
    [infoHashes : UNION {[D -> Seq(Peer)] : D \in SUBSET InfoHashes},
     tokenMap   : UNION {[D -> Tids] : D \in SUBSET InfoHashes}]

\* The Maps agree and keep their limits.
GoodStores ==
    {st \in Stores :
        /\ DOMAIN st.tokenMap = DOMAIN st.infoHashes
        /\ \A h \in DOMAIN st.infoHashes : Len(st.infoHashes[h]) \in 1 .. MaxPeer
        /\ IsFiniteSet(DOMAIN st.infoHashes)
        /\ Cardinality(DOMAIN st.infoHashes) <= MaxInfoHash}

\* The inductive invariant.
IhInv ==
    /\ Store \in GoodStores
    /\ reply \in Reply \cup {NoReply}
    /\ AcknowledgedUnlessFull

\* A sequence of peers begins with another.
Begins(r, s) == \E n \in 0 .. Len(s) : SubSeq(s, 1, n) = r

\* What the store a has, the store b has too, with the same token.
Extends(a, b) ==
    \A h \in DOMAIN a.infoHashes :
        /\ h \in DOMAIN b.infoHashes
        /\ b.tokenMap[h] = a.tokenMap[h]
        /\ Begins(a.infoHashes[h], b.infoHashes[h])

-----------------------------------------------------------------------------
\* What the tests at the head of add let through.
LEMMA AddedFields ==
    ASSUME NEW st \in Stores, NEW h \in InfoHashes, NEW peer \in Peer, NEW token \in Tids,
           Accepts(st, h, token)
    PROVE  LET b == Added(st, h, peer, token) IN
           /\ b \in Stores
           /\ DOMAIN b.infoHashes = DOMAIN st.infoHashes \cup {h}
           /\ DOMAIN b.tokenMap = DOMAIN st.tokenMap \cup {h}
           /\ \A x \in DOMAIN b.infoHashes : b.infoHashes[x] =
                 IF x = h THEN Append(PeersOf(st, h), peer) ELSE st.infoHashes[x]
           /\ \A x \in DOMAIN b.tokenMap : b.tokenMap[x] =
                 IF x = h THEN token ELSE st.tokenMap[x]
           /\ PeersOf(st, h) \in Seq(Peer)
<1> DEFINE b == Added(st, h, peer, token)
           P == Append(PeersOf(st, h), peer)
<1>1. PICK D \in SUBSET InfoHashes : st.infoHashes \in [D -> Seq(Peer)]
  BY DEF Stores
<1>2. PICK E \in SUBSET InfoHashes : st.tokenMap \in [E -> Tids]
  BY DEF Stores
<1>3. PeersOf(st, h) \in Seq(Peer)
  BY <1>1 DEF PeersOf
<1>4. P \in Seq(Peer)
  BY <1>3
<1>5. WithToken(st.tokenMap, h, token) = SetAt(st.tokenMap, h, token)
  <2>1. CASE h \in DOMAIN st.tokenMap
    <3>1. st.tokenMap[h] = token
      BY <2>1 DEF Accepts, HasOtherToken
    <3>2. SetAt(st.tokenMap, h, token) = [x \in E |-> st.tokenMap[x]]
      BY <1>2, <2>1, <3>1 DEF SetAt
    <3> QED BY <1>2, <2>1, <3>2 DEF WithToken
  <2> QED BY <2>1 DEF WithToken
<1>6. b = [infoHashes |-> SetAt(st.infoHashes, h, P), tokenMap |-> SetAt(st.tokenMap, h, token)]
  BY <1>5 DEF Added
<1>7. b.infoHashes = SetAt(st.infoHashes, h, P) /\ b.tokenMap = SetAt(st.tokenMap, h, token)
  BY <1>6
<1> HIDE DEF b, P
<1>8. SetAt(st.infoHashes, h, P) \in [D \cup {h} -> Seq(Peer)]
  BY <1>1, <1>4 DEF SetAt
<1>9. SetAt(st.tokenMap, h, token) \in [E \cup {h} -> Tids]
  BY <1>2 DEF SetAt
<1>10. b \in Stores
  <2>1. D \cup {h} \in SUBSET InfoHashes /\ E \cup {h} \in SUBSET InfoHashes
    OBVIOUS
  <2>2. b.infoHashes \in UNION {[X -> Seq(Peer)] : X \in SUBSET InfoHashes}
    BY <1>7, <1>8, <2>1
  <2>3. b.tokenMap \in UNION {[X -> Tids] : X \in SUBSET InfoHashes}
    BY <1>7, <1>9, <2>1
  <2> QED BY <1>7, <1>6, <2>2, <2>3 DEF Stores
<1>11. DOMAIN b.infoHashes = DOMAIN st.infoHashes \cup {h}
       /\ DOMAIN b.tokenMap = DOMAIN st.tokenMap \cup {h}
  BY <1>7 DEF SetAt
<1>12. \A x \in DOMAIN b.infoHashes : b.infoHashes[x] = IF x = h THEN P ELSE st.infoHashes[x]
  BY <1>7 DEF SetAt
<1>13. \A x \in DOMAIN b.tokenMap : b.tokenMap[x] = IF x = h THEN token ELSE st.tokenMap[x]
  BY <1>7 DEF SetAt
<1> QED BY <1>3, <1>10, <1>11, <1>12, <1>13 DEF b, P

\* add takes a good store to a good one.
LEMMA AddedIsGood ==
    ASSUME NEW st \in GoodStores, NEW h \in InfoHashes, NEW peer \in Peer, NEW token \in Tids
    PROVE  Added(st, h, peer, token) \in GoodStores
<1>1. CASE ~ Accepts(st, h, token)
  BY <1>1 DEF Added
<1>2. CASE Accepts(st, h, token)
  <2> DEFINE b == Added(st, h, peer, token)
             D == DOMAIN st.infoHashes
  <2>1. st \in Stores /\ DOMAIN st.tokenMap = D /\ IsFiniteSet(D)
        /\ \A x \in D : Len(st.infoHashes[x]) \in 1 .. MaxPeer
    BY DEF GoodStores
  <2>2. b \in Stores /\ DOMAIN b.infoHashes = D \cup {h} /\ DOMAIN b.tokenMap = D \cup {h}
    BY <1>2, <2>1, AddedFields
  <2>3. /\ \A x \in D \cup {h} : b.infoHashes[x] =
              IF x = h THEN Append(PeersOf(st, h), peer) ELSE st.infoHashes[x]
        /\ PeersOf(st, h) \in Seq(Peer)
    BY <1>2, <2>1, <2>2, AddedFields
  <2>4. Len(PeersOf(st, h)) < MaxPeer /\ Cardinality(D) < MaxInfoHash
    BY <1>2 DEF Accepts
  <2>5. Cardinality(D) \in Nat /\ IsFiniteSet(D \cup {h})
        /\ Cardinality(D \cup {h}) = IF h \in D THEN Cardinality(D) ELSE Cardinality(D) + 1
    BY <2>1, FS_CardinalityType, FS_AddElement
  <2> HIDE DEF b
  <2>6. b.infoHashes[h] = Append(PeersOf(st, h), peer)
        /\ Len(b.infoHashes[h]) = Len(PeersOf(st, h)) + 1
    <3>1. h \in D \cup {h}
      OBVIOUS
    <3>2. b.infoHashes[h] = Append(PeersOf(st, h), peer)
      BY <2>3, <3>1
    <3> QED BY <2>3, <3>2
  <2>7. \A x \in D \cup {h} : Len(b.infoHashes[x]) \in 1 .. MaxPeer
    BY <2>1, <2>3, <2>4, <2>6, LimitAssumption
  <2>8. Cardinality(D \cup {h}) <= MaxInfoHash
    BY <2>4, <2>5, LimitAssumption
  <2> QED BY <2>2, <2>5, <2>7, <2>8 DEF GoodStores, b
<1> QED BY <1>1, <1>2

\* add takes nothing away: peers and tokens stay, another peer joins at the end.
LEMMA AddedExtends ==
    ASSUME NEW st \in GoodStores, NEW h \in InfoHashes, NEW peer \in Peer, NEW token \in Tids
    PROVE  Extends(st, Added(st, h, peer, token))
<1> DEFINE b == Added(st, h, peer, token)
<1>1. \A x \in DOMAIN st.infoHashes : st.infoHashes[x] \in Seq(Peer)
  BY DEF GoodStores, Stores
<1>2. \A r \in Seq(Peer) : Begins(r, r)
  BY DEF Begins
<1>3. \A r \in Seq(Peer) : Begins(r, Append(r, peer))
  <2> SUFFICES ASSUME NEW r \in Seq(Peer) PROVE Begins(r, Append(r, peer))
    OBVIOUS
  <2>1. Len(r) \in 0 .. Len(Append(r, peer)) /\ SubSeq(Append(r, peer), 1, Len(r)) = r
    OBVIOUS
  <2> QED BY <2>1 DEF Begins
<1>4. CASE ~ Accepts(st, h, token)
  BY <1>1, <1>2, <1>4 DEF Added, Extends
<1>5. CASE Accepts(st, h, token)
  <2>1. st \in Stores /\ DOMAIN st.tokenMap = DOMAIN st.infoHashes
    BY DEF GoodStores
  <2> SUFFICES ASSUME NEW x \in DOMAIN st.infoHashes
               PROVE  /\ x \in DOMAIN b.infoHashes
                      /\ b.tokenMap[x] = st.tokenMap[x]
                      /\ Begins(st.infoHashes[x], b.infoHashes[x])
    BY DEF Extends
  <2>2. /\ x \in DOMAIN b.infoHashes /\ x \in DOMAIN b.tokenMap
        /\ b.infoHashes[x] = IF x = h THEN Append(PeersOf(st, h), peer) ELSE st.infoHashes[x]
        /\ b.tokenMap[x] = IF x = h THEN token ELSE st.tokenMap[x]
    BY <1>5, <2>1, AddedFields
  <2>3. x = h => st.tokenMap[x] = token /\ PeersOf(st, h) = st.infoHashes[x]
    BY <1>5, <2>1 DEF Accepts, HasOtherToken, PeersOf
  <2> QED BY <1>1, <1>2, <1>3, <2>2, <2>3
<1> QED BY <1>4, <1>5

\* Having at least as much is transitive.
LEMMA ExtendsTransitive ==
    ASSUME NEW a \in GoodStores, NEW b \in GoodStores, NEW c \in GoodStores,
           Extends(a, b), Extends(b, c)
    PROVE  Extends(a, c)
<1> SUFFICES ASSUME NEW x \in DOMAIN a.infoHashes
             PROVE  /\ x \in DOMAIN c.infoHashes
                    /\ c.tokenMap[x] = a.tokenMap[x]
                    /\ Begins(a.infoHashes[x], c.infoHashes[x])
  BY DEF Extends
<1>1. x \in DOMAIN b.infoHashes /\ x \in DOMAIN c.infoHashes /\ c.tokenMap[x] = a.tokenMap[x]
      /\ Begins(a.infoHashes[x], b.infoHashes[x]) /\ Begins(b.infoHashes[x], c.infoHashes[x])
  BY DEF Extends
<1>2. c.infoHashes[x] \in Seq(Peer)
  BY <1>1 DEF GoodStores, Stores
<1> DEFINE s == c.infoHashes[x]
<1>3. PICK m \in 0 .. Len(s) : SubSeq(s, 1, m) = b.infoHashes[x]
  BY <1>1 DEF Begins
<1>4. PICK n \in 0 .. Len(b.infoHashes[x]) : SubSeq(b.infoHashes[x], 1, n) = a.infoHashes[x]
  BY <1>1 DEF Begins
<1> HIDE DEF s
<1>5. s \in Seq(Peer)
  BY <1>2 DEF s
<1>6. Len(SubSeq(s, 1, m)) = m
  BY <1>5
<1>7. n \in 0 .. m
  BY <1>3, <1>4, <1>6
<1>8. SubSeq(SubSeq(s, 1, m), 1, n) = SubSeq(s, 1, n)
  BY <1>5, <1>7
<1>9. n \in 0 .. Len(s) /\ SubSeq(s, 1, n) = a.infoHashes[x]
  BY <1>3, <1>4, <1>5, <1>7, <1>8
<1> QED BY <1>1, <1>9 DEF Begins, s

\* addList stays in a set of stores that add does not leave.
LEMMA AddedListStays ==
    ASSUME NEW S, NEW st \in S, NEW h, NEW token, NEW P,
           NEW n \in Nat, NEW peers \in [1 .. n -> P],
           \A s \in S, p \in P : Added(s, h, p, token) \in S
    PROVE  AddedList(st, h, peers, token) \in S
<1> DEFINE F == [k \in Nat |-> [s \in S |->
                    IF k \in 1 .. n THEN Added(s, h, peers[k], token) ELSE s]]
           Eq(f) == f = [k \in 0 .. n |->
                            IF k = 0 THEN st ELSE Added(f[k - 1], h, peers[k], token)]
<1>1. Len(peers) = n
  OBVIOUS
<1>2. IsStep(F, S)
  BY DEF IsStep
<1>3. PICK g \in [0 .. n -> S] : Iterates(g, F, st, n)
  <2> HIDE DEF F, Eq
  <2> QED BY <1>2, IteratesExist
<1>4. \A k \in 1 .. n : g[k] = Added(g[k - 1], h, peers[k], token)
  <2> SUFFICES ASSUME NEW k \in 1 .. n PROVE g[k] = Added(g[k - 1], h, peers[k], token)
    OBVIOUS
  <2>1. k - 1 \in 0 .. n /\ k \in Nat
    OBVIOUS
  <2>2. g[k - 1] \in S
    BY <2>1
  <2> QED BY <1>3, <2>1, <2>2 DEF Iterates
<1>5. Eq(g)
  BY <1>3, <1>4 DEF Iterates
<1> DEFINE upTo == CHOOSE f : Eq(f)
<1>6. Eq(upTo)
  <2> HIDE DEF Eq
  <2> QED BY <1>5
<1> HIDE DEF upTo
<1>7. upTo[n] \in S
  <2> DEFINE N == {k \in Nat : k <= n => upTo[k] \in S}
  <2>1. 0 \in N
    BY <1>6
  <2>2. ASSUME NEW k \in Nat, k \in N PROVE k + 1 \in N
    <3> SUFFICES ASSUME k + 1 <= n PROVE upTo[k + 1] \in S
      OBVIOUS
    <3>1. k + 1 \in 1 .. n /\ k \in 0 .. n /\ (k + 1) - 1 = k /\ k + 1 # 0
      OBVIOUS
    <3>2. upTo[k] \in S /\ peers[k + 1] \in P
      BY <2>2, <3>1
    <3>3. upTo[k + 1] = Added(upTo[k], h, peers[k + 1], token)
      BY <1>6, <3>1
    <3> QED BY <3>2, <3>3
  <2>3. Nat \subseteq N
    <3> HIDE DEF N
    <3> QED BY <2>1, <2>2, SetInduction
  <2> QED BY <2>3
<1> QED BY <1>1, <1>7 DEF AddedList, upTo

-----------------------------------------------------------------------------
\* The two Maps as a store: what a step makes of them.
LEMMA StoreBecomesStore ==
    ASSUME NEW st \in Stores, StoreBecomes(st)
    PROVE  Store' = st
<1>1. st = [infoHashes |-> st.infoHashes, tokenMap |-> st.tokenMap]
  BY DEF Stores
<1>2. Store' = [infoHashes |-> infoHashes', tokenMap |-> tokenMap']
  BY DEF Store
<1> QED BY <1>1, <1>2 DEF StoreBecomes

\* Nothing is stored at first.
LEMMA InitIsGood == ASSUME IhInit PROVE IhInv
<1> DEFINE none == [x \in {} |-> x]
<1>1. infoHashes = <<>> /\ tokenMap = <<>> /\ reply = NoReply
  BY DEF IhInit
<1>2. infoHashes \in [{} -> Seq(Peer)] /\ tokenMap \in [{} -> Tids]
  BY <1>1
<1>3. {} \in SUBSET InfoHashes
  OBVIOUS
<1>4. Store \in Stores
  <2>1. infoHashes \in UNION {[D -> Seq(Peer)] : D \in SUBSET InfoHashes}
    BY <1>2, <1>3
  <2>2. tokenMap \in UNION {[D -> Tids] : D \in SUBSET InfoHashes}
    BY <1>2, <1>3
  <2> QED BY <2>1, <2>2 DEF Stores, Store
<1>5. DOMAIN infoHashes = {} /\ DOMAIN tokenMap = {}
  BY <1>2
<1>6. IsFiniteSet({}) /\ Cardinality({}) = 0
  BY FS_EmptySet
<1>7. Store.infoHashes = infoHashes /\ Store.tokenMap = tokenMap
  BY DEF Store
<1>8. Store \in GoodStores
  BY <1>4, <1>5, <1>6, <1>7, LimitAssumption DEF GoodStores
<1> QED BY <1>1, <1>8 DEF IhInv, AcknowledgedUnlessFull

\* An answer with peers: the store is good after it, and has all that it had.
LEMMA StoreValuesStep ==
    ASSUME NEW h \in InfoHashes, NEW n \in Nat, NEW peers \in [1 .. n -> Peer], NEW tid \in Tids,
           Store \in GoodStores, StoreValues(h, peers, tid)
    PROVE  Store' \in GoodStores /\ Extends(Store, Store')
<1> DEFINE S == {b \in GoodStores : Extends(Store, b)}
<1>1. Store \in S
  <2>1. \A r \in Seq(Peer) : Begins(r, r)
    BY DEF Begins
  <2>2. \A x \in DOMAIN Store.infoHashes : Store.infoHashes[x] \in Seq(Peer)
    BY DEF GoodStores, Stores
  <2>3. Extends(Store, Store)
    BY <2>1, <2>2 DEF Extends
  <2> QED BY <2>3
<1>2. ASSUME NEW s \in S, NEW p \in Peer PROVE Added(s, h, p, tid) \in S
  <2> DEFINE b == Added(s, h, p, tid)
  <2>1. b \in GoodStores /\ Extends(s, b)
    BY AddedIsGood, AddedExtends
  <2> HIDE DEF b
  <2>2. Extends(Store, b)
    BY <2>1, ExtendsTransitive
  <2> QED BY <2>1, <2>2 DEF b
<1>3. AddedList(Store, h, peers, tid) \in S
  <2> HIDE DEF S
  <2> QED BY <1>1, <1>2, AddedListStays
<1>4. StoreBecomes(AddedList(Store, h, peers, tid))
  BY DEF StoreValues
<1>5. Store' = AddedList(Store, h, peers, tid)
  BY <1>3, <1>4, StoreBecomesStore DEF GoodStores
<1> QED BY <1>3, <1>5

\* A peer of x that the store has, or one of P for h.
From(h, P, x, p) ==
    \/ x \in DOMAIN infoHashes /\ \E j \in DOMAIN infoHashes[x] : p = infoHashes[x][j]
    \/ x = h /\ p \in P

\* The tokens of b are those of the store, or tid for h.
TokensFrom(b, h, tid) ==
    \A x \in DOMAIN b.tokenMap :
        \/ x \in DOMAIN tokenMap /\ b.tokenMap[x] = tokenMap[x]
        \/ x = h /\ b.tokenMap[x] = tid

\* What the store may become by adding peers of P to h under tid.
Enlarged(h, P, tid) ==
    {b \in GoodStores :
        /\ TokensFrom(b, h, tid)
        /\ \A x \in DOMAIN b.infoHashes :
              \A k \in DOMAIN b.infoHashes[x] : From(h, P, x, b.infoHashes[x][k])}

\* Nothing added is an enlargement.
LEMMA StoreIsEnlarged ==
    ASSUME Store \in GoodStores, NEW h, NEW P, NEW tid
    PROVE  Store \in Enlarged(h, P, tid)
BY DEF Store, Enlarged, TokensFrom, From

\* add of one of the peers goes on enlarging the store.
LEMMA AddedEnlarges ==
    ASSUME NEW h \in InfoHashes, NEW P \in SUBSET Peer, NEW tid \in Tids,
           NEW s \in Enlarged(h, P, tid), NEW p \in P
    PROVE  Added(s, h, p, tid) \in Enlarged(h, P, tid)
<1> DEFINE b == Added(s, h, p, tid)
<1>1. s \in Stores /\ s \in GoodStores /\ p \in Peer /\ b \in GoodStores
  BY AddedIsGood DEF GoodStores, Enlarged
<1>2. /\ TokensFrom(s, h, tid)
      /\ \A x \in DOMAIN s.infoHashes :
            \A k \in DOMAIN s.infoHashes[x] : From(h, P, x, s.infoHashes[x][k])
  BY DEF Enlarged
<1>3. CASE ~ Accepts(s, h, tid)
  BY <1>3 DEF Added
<1>4. CASE Accepts(s, h, tid)
  <2>1. /\ DOMAIN b.infoHashes = DOMAIN s.infoHashes \cup {h}
        /\ DOMAIN b.tokenMap = DOMAIN s.tokenMap \cup {h}
        /\ \A x \in DOMAIN b.infoHashes : b.infoHashes[x] =
              IF x = h THEN Append(PeersOf(s, h), p) ELSE s.infoHashes[x]
        /\ \A x \in DOMAIN b.tokenMap : b.tokenMap[x] =
              IF x = h THEN tid ELSE s.tokenMap[x]
        /\ PeersOf(s, h) \in Seq(Peer)
    BY <1>1, <1>4, AddedFields
  <2> HIDE DEF b
  <2>2. TokensFrom(b, h, tid)
    BY <1>2, <2>1 DEF TokensFrom
  <2>3. ASSUME NEW x \in DOMAIN b.infoHashes, NEW k \in DOMAIN b.infoHashes[x]
        PROVE  From(h, P, x, b.infoHashes[x][k])
    <3>1. CASE x # h
      BY <1>2, <2>1, <2>3, <3>1
    <3>2. CASE x = h
      <4> DEFINE q == PeersOf(s, h)
      <4>1. q \in Seq(Peer) /\ b.infoHashes[x] = Append(q, p)
        BY <2>1, <3>2
      <4> HIDE DEF q
      <4>2. k \in 1 .. Len(q) + 1 /\ DOMAIN q = 1 .. Len(q) /\ Len(q) \in Nat
        BY <2>3, <4>1
      <4>3. CASE k = Len(q) + 1
        <5>1. b.infoHashes[x][k] = p
          BY <4>1, <4>2, <4>3
        <5> QED BY <3>2, <5>1 DEF From
      <4>4. CASE k # Len(q) + 1
        <5>1. k \in DOMAIN q /\ b.infoHashes[x][k] = q[k]
          BY <4>1, <4>2, <4>4
        <5>2. x \in DOMAIN s.infoHashes /\ q = s.infoHashes[x]
          BY <3>2, <5>1 DEF q, PeersOf
        <5> QED BY <1>2, <5>1, <5>2
      <4> QED BY <4>3, <4>4
    <3> QED BY <3>1, <3>2
  <2> QED BY <1>1, <2>2, <2>3 DEF b, Enlarged
<1> QED BY <1>3, <1>4

\* What an answer with peers of P adds: none but its peers, to no other info hash than
\* h, and no other token than tid.
LEMMA StoreValuesAdds ==
    ASSUME NEW h \in InfoHashes, NEW P \in SUBSET Peer, NEW n \in Nat, NEW peers \in [1 .. n -> P],
           NEW tid \in Tids, Store \in GoodStores, StoreValues(h, peers, tid)
    PROVE  Store' \in Enlarged(h, P, tid)
<1> DEFINE b == AddedList(Store, h, peers, tid)
<1>1. b \in Enlarged(h, P, tid)
  BY StoreIsEnlarged, AddedEnlarges, AddedListStays
<1>2. b \in Stores
  BY <1>1 DEF Enlarged, GoodStores
<1>3. StoreBecomes(b)
  BY DEF StoreValues
<1> QED BY <1>1, <1>2, <1>3, StoreBecomesStore

\* What an announcement adds, if anything: the peer that it is acknowledged for, with
\* its tid as the token.
LEMMA AnnouncePeerAdds ==
    ASSUME NEW h \in InfoHashes, NEW port \in Ports \cup {NoPort}, NEW impliedPort \in BOOLEAN,
           NEW tid \in Tids, NEW from \in Peer, Store \in GoodStores,
           AnnouncePeer(h, port, impliedPort, tid, from)
    PROVE  \/ UNCHANGED <<infoHashes, tokenMap>>
           \/ LET peer == Announced(port, impliedPort, from) IN
              /\ port # NoPort /\ Store' \in Enlarged(h, {peer}, tid)
              /\ reply' = [kind |-> "acknowledged", infoHash |-> h, tid |-> tid, peer |-> peer]
<1> DEFINE peer == Announced(port, impliedPort, from)
           b == Added(Store, h, peer, tid)
<1>1. CASE \E kind \in {"invalid port", "token not match"} : Refuse(kind, h, tid)
  BY <1>1 DEF Refuse
<1>2. CASE port # NoPort /\ AddAndAcknowledge(h, peer, tid)
  <2>1. peer \in Peer
    BY <1>2 DEF Announced, Peer
  <2>2. {peer} \in SUBSET Peer /\ peer \in {peer}
    BY <2>1
  <2> HIDE DEF peer
  <2>3. b \in Enlarged(h, {peer}, tid)
    BY <2>2, StoreIsEnlarged, AddedEnlarges
  <2>4. b \in Stores
    BY <2>3 DEF Enlarged, GoodStores
  <2>5. /\ StoreBecomes(b)
        /\ reply' = [kind |-> "acknowledged", infoHash |-> h, tid |-> tid, peer |-> peer]
    BY <1>2 DEF AddAndAcknowledge
  <2> QED BY <1>2, <2>3, <2>4, <2>5, StoreBecomesStore DEF peer
<1> QED BY <1>1, <1>2 DEF AnnouncePeer

\* An announcement: besides, what is acknowledged is stored unless a limit forbids.
LEMMA AnnouncePeerStep ==
    ASSUME NEW h \in InfoHashes, NEW port \in Ports \cup {NoPort}, NEW impliedPort \in BOOLEAN,
           NEW tid \in Tids, NEW from \in Peer,
           IhInv, AnnouncePeer(h, port, impliedPort, tid, from)
    PROVE  IhInv' /\ Extends(Store, Store')
<1> DEFINE peer == Announced(port, impliedPort, from)
<1>1. Store \in GoodStores /\ Extends(Store, Store)
  <2>1. \A r \in Seq(Peer) : Begins(r, r)
    BY DEF Begins
  <2>2. \A x \in DOMAIN Store.infoHashes : Store.infoHashes[x] \in Seq(Peer)
    BY DEF IhInv, GoodStores, Stores
  <2> QED BY <2>1, <2>2 DEF IhInv, Extends
<1>2. CASE \E kind \in {"invalid port", "token not match"} : Refuse(kind, h, tid)
  <2>1. PICK kind \in {"invalid port", "token not match"} : Refuse(kind, h, tid)
    BY <1>2
  <2>2. Store' = Store /\ reply' = [kind |-> kind, infoHash |-> h, tid |-> tid]
    BY <2>1 DEF Refuse, Store
  <2>3. reply' \in Reply /\ reply'.kind # "acknowledged"
    BY <2>2 DEF Reply
  <2> QED BY <1>1, <2>2, <2>3 DEF IhInv, AcknowledgedUnlessFull
<1>3. CASE /\ port # NoPort /\ ~ HasOtherToken(tokenMap, h, tid)
           /\ AddAndAcknowledge(h, peer, tid)
  <2> DEFINE b == Added(Store, h, peer, tid)
             new == PeersOf(b, h)
  <2>1. peer \in Peer
    BY <1>3 DEF Announced, Peer
  <2>2. b \in GoodStores /\ Extends(Store, b)
    BY <1>1, <2>1, AddedIsGood, AddedExtends
  <2>3. Store' = b
    BY <1>3, <2>2, StoreBecomesStore DEF GoodStores, AddAndAcknowledge
  <2>4. /\ reply' = [kind |-> "acknowledged", infoHash |-> h, tid |-> tid, peer |-> peer]
        /\ reply' \in Reply
    BY <1>3, <2>1 DEF AddAndAcknowledge, Reply
  <2>5. /\ Store.infoHashes = infoHashes /\ Store.tokenMap = tokenMap
        /\ Store'.infoHashes = infoHashes' /\ Store'.tokenMap = tokenMap'
    BY DEF Store
  <2>6. /\ ~ HasOtherToken(b.tokenMap, h, tid)
        /\ \/ h \in DOMAIN b.tokenMap /\ Len(new) > 0 /\ new[Len(new)] = peer
           \/ Cardinality(DOMAIN b.infoHashes) = MaxInfoHash
           \/ Len(new) = MaxPeer
    <3>1. CASE Accepts(Store, h, tid)
      <4>1. Store \in Stores
        BY <1>1 DEF GoodStores
      <4>2. /\ DOMAIN b.infoHashes = DOMAIN Store.infoHashes \cup {h}
            /\ DOMAIN b.tokenMap = DOMAIN Store.tokenMap \cup {h}
            /\ \A x \in DOMAIN b.infoHashes : b.infoHashes[x] =
                  IF x = h THEN Append(PeersOf(Store, h), peer) ELSE Store.infoHashes[x]
            /\ \A x \in DOMAIN b.tokenMap : b.tokenMap[x] =
                  IF x = h THEN tid ELSE Store.tokenMap[x]
            /\ PeersOf(Store, h) \in Seq(Peer)
        BY <2>1, <3>1, <4>1, AddedFields
      <4> HIDE DEF b
      <4>3. /\ h \in DOMAIN b.infoHashes /\ h \in DOMAIN b.tokenMap
            /\ b.tokenMap[h] = tid
            /\ b.infoHashes[h] = Append(PeersOf(Store, h), peer)
            /\ PeersOf(Store, h) \in Seq(Peer)
        BY <4>2
      <4>4. new = Append(PeersOf(Store, h), peer)
        BY <4>3 DEF PeersOf, new
      <4> HIDE DEF new
      <4>5. Len(new) > 0 /\ new[Len(new)] = peer
        BY <2>1, <4>3, <4>4
      <4> QED BY <4>3, <4>5 DEF HasOtherToken
    <3>2. CASE ~ Accepts(Store, h, tid)
      <4>1. b = Store
        BY <3>2 DEF Added
      <4>2. ~ HasOtherToken(Store.tokenMap, h, tid)
        BY <1>3, <2>5
      <4>3. /\ Cardinality(DOMAIN Store.infoHashes) <= MaxInfoHash
            /\ Cardinality(DOMAIN Store.infoHashes) \in Nat
            /\ Len(PeersOf(Store, h)) \in 0 .. MaxPeer
        <5>1. Store \in GoodStores
          BY <1>1
        <5>2. IsFiniteSet(DOMAIN Store.infoHashes)
          BY <5>1 DEF GoodStores
        <5>3. Cardinality(DOMAIN Store.infoHashes) \in Nat
          BY <5>2, FS_CardinalityType
        <5>4. h \in DOMAIN Store.infoHashes => Len(Store.infoHashes[h]) \in 1 .. MaxPeer
          BY <5>1 DEF GoodStores
        <5>5. Len(PeersOf(Store, h)) \in 0 .. MaxPeer
          BY <5>4, LimitAssumption DEF PeersOf
        <5> QED BY <5>1, <5>3, <5>5 DEF GoodStores
      <4>4. \/ Cardinality(DOMAIN Store.infoHashes) = MaxInfoHash
            \/ Len(PeersOf(Store, h)) = MaxPeer
        BY <3>2, <4>2, <4>3, LimitAssumption DEF Accepts
      <4> QED BY <4>1, <4>2, <4>4
    <3> QED BY <3>1, <3>2
  <2>7. AcknowledgedUnlessFull'
    <3>1. PeersOf(b, h) = PeersOf(Store, h)'
      BY <2>3 DEF PeersOf
    <3> QED BY <2>3, <2>4, <2>5, <2>6, <3>1 DEF AcknowledgedUnlessFull
  <2> QED BY <2>2, <2>3, <2>4, <2>7 DEF IhInv
<1> QED BY <1>2, <1>3 DEF AnnouncePeer

\* remove: the info hash goes, and nothing else changes.
LEMMA RemoveStep ==
    ASSUME NEW h \in InfoHashes, IhInv, Remove(h)
    PROVE  /\ IhInv'
           /\ DOMAIN infoHashes' = DOMAIN infoHashes \ {h}
           /\ \A x \in DOMAIN infoHashes' :
                 infoHashes'[x] = infoHashes[x] /\ tokenMap'[x] = tokenMap[x]
<1> DEFINE D == DOMAIN infoHashes
<1>1. Store.infoHashes = infoHashes /\ Store.tokenMap = tokenMap
      /\ Store'.infoHashes = infoHashes' /\ Store'.tokenMap = tokenMap'
  BY DEF Store
<1>2. /\ h \in D
      /\ infoHashes' = [x \in D \ {h} |-> infoHashes[x]]
      /\ tokenMap' = [x \in DOMAIN tokenMap \ {h} |-> tokenMap[x]]
      /\ reply' = NoReply
  BY DEF Remove
<1>3. PICK A \in SUBSET InfoHashes : infoHashes \in [A -> Seq(Peer)]
  BY <1>1 DEF IhInv, GoodStores, Stores
<1>4. PICK B \in SUBSET InfoHashes : tokenMap \in [B -> Tids]
  BY <1>1 DEF IhInv, GoodStores, Stores
<1>5. /\ DOMAIN tokenMap = D
      /\ \A x \in D : Len(infoHashes[x]) \in 1 .. MaxPeer
      /\ IsFiniteSet(D) /\ Cardinality(D) <= MaxInfoHash
  BY <1>1 DEF IhInv, GoodStores
<1>6. Store' \in Stores
  <2>1. infoHashes' \in [A \ {h} -> Seq(Peer)] /\ tokenMap' \in [B \ {h} -> Tids]
    BY <1>2, <1>3, <1>4
  <2>2. A \ {h} \in SUBSET InfoHashes /\ B \ {h} \in SUBSET InfoHashes
    OBVIOUS
  <2>3. infoHashes' \in UNION {[X -> Seq(Peer)] : X \in SUBSET InfoHashes}
    BY <2>1, <2>2
  <2>4. tokenMap' \in UNION {[X -> Tids] : X \in SUBSET InfoHashes}
    BY <2>1, <2>2
  <2> QED BY <2>3, <2>4 DEF Stores, Store
<1>7. IsFiniteSet(D \ {h}) /\ Cardinality(D \ {h}) < MaxInfoHash
  <2>1. IsFiniteSet(D \ {h}) /\ Cardinality(D \ {h}) = Cardinality(D) - 1
        /\ Cardinality(D) \in Nat
    BY <1>2, <1>5, FS_RemoveElement, FS_CardinalityType
  <2> QED BY <1>5, <2>1, LimitAssumption
<1>8. DOMAIN infoHashes' = D \ {h} /\ DOMAIN tokenMap' = D \ {h}
      /\ \A x \in D \ {h} : infoHashes'[x] = infoHashes[x] /\ tokenMap'[x] = tokenMap[x]
  BY <1>2, <1>5
<1>9. Cardinality(D \ {h}) \in Nat
  BY <1>7, FS_CardinalityType
<1>10. Store' \in GoodStores
  BY <1>1, <1>5, <1>6, <1>7, <1>8, <1>9, LimitAssumption DEF GoodStores
<1> QED BY <1>2, <1>8, <1>10 DEF IhInv, AcknowledgedUnlessFull

\* Every step keeps the inductive invariant.
LEMMA IhInvInductive == ASSUME IhInv, [IhNext]_ihVars PROVE IhInv'
<1>1. ASSUME NEW h \in InfoHashes, NEW len \in 1 .. MaxValues, NEW tid \in Tids,
             NEW peers \in [1 .. len -> Peer], StoreValues(h, peers, tid)
      PROVE  IhInv'
  <2>1. Store' \in GoodStores
    BY <1>1, StoreValuesStep DEF IhInv
  <2>2. reply' = NoReply
    BY <1>1 DEF StoreValues
  <2> QED BY <2>1, <2>2 DEF IhInv, AcknowledgedUnlessFull
<1>2. CASE Announces
  BY <1>2, AnnouncePeerStep DEF Announces
<1>3. ASSUME NEW h \in InfoHashes, Remove(h) PROVE IhInv'
  BY <1>3, RemoveStep
<1>4. CASE UNCHANGED ihVars
  BY <1>4 DEF ihVars, IhInv, Store, AcknowledgedUnlessFull
<1> QED BY <1>1, <1>2, <1>3, <1>4 DEF IhNext

\* The inductive invariant holds in every state.
LEMMA IhInvariant == IhSpec => []IhInv
BY InitIsGood, IhInvInductive, PTL DEF IhSpec

-----------------------------------------------------------------------------
\* The types, and the limits that the code's constants set to the two Maps.
THEOREM IhTypeCorrect == IhSpec => []IhTypeOK
<1>1. ASSUME IhInv PROVE IhTypeOK
  <2>1. Store.infoHashes = infoHashes /\ Store.tokenMap = tokenMap
    BY DEF Store
  <2>2. PICK A \in SUBSET InfoHashes : infoHashes \in [A -> Seq(Peer)]
    BY <1>1, <2>1 DEF IhInv, GoodStores, Stores
  <2>3. PICK B \in SUBSET InfoHashes : tokenMap \in [B -> Tids]
    BY <1>1, <2>1 DEF IhInv, GoodStores, Stores
  <2>4. /\ \A x \in DOMAIN infoHashes : Len(infoHashes[x]) <= MaxPeer
        /\ Cardinality(DOMAIN infoHashes) <= MaxInfoHash
    BY <1>1, <2>1, LimitAssumption DEF IhInv, GoodStores
  <2> QED BY <1>1, <2>2, <2>3, <2>4 DEF IhInv, IhTypeOK
<1> QED BY <1>1, IhInvariant, PTL

\* The Map of peers and the Map of tokens, filled and emptied by separate calls,
\* always have the same info hashes, each with one peer at least.
THEOREM StoresAlwaysAgree == IhSpec => []StoresAgree
<1>1. ASSUME IhInv PROVE StoresAgree
  <2>1. Store.infoHashes = infoHashes /\ Store.tokenMap = tokenMap
    BY DEF Store
  <2>2. /\ DOMAIN tokenMap = DOMAIN infoHashes
        /\ \A x \in DOMAIN infoHashes : Len(infoHashes[x]) # 0
    BY <1>1, <2>1 DEF IhInv, GoodStores
  <2> QED BY <2>2 DEF StoresAgree
<1> QED BY <1>1, IhInvariant, PTL

\* A peer that was acknowledged was stored at the end of the info hash's peers, with its
\* token, unless the limit on info hashes or the one on peers kept it out
\* (handleAnnouncePeerQueryRequest, which answers whatever add did).
THEOREM AlwaysAcknowledgedUnlessFull == IhSpec => []AcknowledgedUnlessFull
<1>1. IhInv => AcknowledgedUnlessFull
  BY DEF IhInv
<1> QED BY <1>1, IhInvariant, PTL

\* The peers and the token of an info hash stay what they are until it is removed.
THEOREM TokenAlwaysStays == IhSpec => TokenStays
<1> DEFINE Stays ==
        \A h \in DOMAIN infoHashes \cap DOMAIN infoHashes' :
            tokenMap'[h] = tokenMap[h] /\ Begins(infoHashes[h], infoHashes'[h])
<1>1. ASSUME IhInv, [IhNext]_ihVars PROVE [Stays]_ihVars
  <2>1. Store.infoHashes = infoHashes /\ Store.tokenMap = tokenMap
        /\ Store'.infoHashes = infoHashes' /\ Store'.tokenMap = tokenMap'
    BY DEF Store
  <2>2. Extends(Store, Store') => Stays
    BY <2>1 DEF Extends
  <2>3. ASSUME NEW h \in InfoHashes, NEW len \in 1 .. MaxValues, NEW tid \in Tids,
               NEW peers \in [1 .. len -> Peer], StoreValues(h, peers, tid)
        PROVE  Stays
    BY <1>1, <2>2, <2>3, StoreValuesStep DEF IhInv
  <2>4. CASE Announces
    <3>1. Extends(Store, Store')
      BY <1>1, <2>4, AnnouncePeerStep DEF Announces
    <3> QED BY <2>2, <3>1
  <2>5. ASSUME NEW h \in InfoHashes, Remove(h) PROVE Stays
    <3>1. /\ DOMAIN infoHashes' = DOMAIN infoHashes \ {h}
          /\ \A x \in DOMAIN infoHashes' :
                infoHashes'[x] = infoHashes[x] /\ tokenMap'[x] = tokenMap[x]
      BY <1>1, <2>5, RemoveStep
    <3>2. \A x \in DOMAIN infoHashes : infoHashes[x] \in Seq(Peer)
      BY <1>1, <2>1 DEF IhInv, GoodStores, Stores
    <3>3. \A r \in Seq(Peer) : Begins(r, r)
      BY DEF Begins
    <3> QED BY <3>1, <3>2, <3>3
  <2> QED BY <1>1, <2>3, <2>4, <2>5 DEF IhNext
<1>2. IhInv /\ [IhNext]_ihVars => [Stays]_ihVars
  BY <1>1
<1>3. [Stays]_ihVars =>
        [\A h \in DOMAIN infoHashes \cap DOMAIN infoHashes' :
            /\ tokenMap'[h] = tokenMap[h]
            /\ \E n \in 0 .. Len(infoHashes'[h]) :
                  SubSeq(infoHashes'[h], 1, n) = infoHashes[h]]_ihVars
  BY DEF Begins
<1> QED BY <1>2, <1>3, IhInvariant, PTL DEF IhSpec, TokenStays

=============================================================================
