-------------------------- MODULE TranscationManager --------------------------
(***************************************************************************)
(* The class TranscationManager of src/krpc/transcation_manager.ts: a FIFO *)
(* pool of transaction ids (tids), the Map of borrowed tids, and the clock *)
(* its expiry test reads.  create() borrows a tid, finish() puts it back,  *)
(* and create() itself makes room: it clears expired tids when more than   *)
(* half of ID_COUNT_MAX are borrowed and forces the earlier half back when *)
(* ID_COUNT_MAX are.                                                       *)
(*                                                                         *)
(* A JavaScript Set and a JavaScript Map iterate in insertion order, so    *)
(* both are sequences here: the pool is a sequence of tids, the Map a      *)
(* sequence of entries, the latest set() last.                             *)
(***************************************************************************)
EXTENDS Positions, Functions

CONSTANTS
    ShuffledPool,  \* the tids in the order initIdPool's shuffle left them
    IdCountMax,    \* #ID_COUNT_MAX, the number borrowed at which tids are forced back
    ExpiredTime,   \* #EXPIRED_TIME, in ticks of the model's clock
    Data,          \* the requests a caller attaches to a transcation
    NoTid,         \* undefined: what next().value yields when the pool is empty
    MaxTime        \* bound on the clock, for model checking

Tids == Range(ShuffledPool)

ASSUME PoolAssumption ==
    /\ ShuffledPool \in Seq(Tids)
    /\ IsInjective(ShuffledPool)
    /\ NoTid \notin Tids

ASSUME LimitAssumption == IdCountMax \in 1 .. Len(ShuffledPool)

ASSUME TimeAssumption == ExpiredTime \in Nat /\ MaxTime \in Nat

VARIABLES
    tidPool,       \* #tidPool
    transcations,  \* #transcations
    now            \* Date.now()

tmVars == <<tidPool, transcations, now>>

Entry == [tid : Tids, expiredAt : Nat, data : Data]

-----------------------------------------------------------------------------
(* Lookups.                                                                *)

\* isExpiredTid, for an entry of the Map.
IsExpired(e) == e.expiredAt < now

\* isValid: borrowed and not expired.
IsValid(tid) ==
    \E i \in DOMAIN transcations :
        transcations[i].tid = tid /\ ~ IsExpired(transcations[i])

Borrowed == {transcations[i].tid : i \in DOMAIN transcations}

-----------------------------------------------------------------------------
(* Moving entries from the Map back to the pool.                           *)

\* Positions of the Map m as the stable sort by expiredAt arranges them.  The
\* iterator visits them by position.
ByExpiry(m) ==
    {p \in (DOMAIN m) \X (DOMAIN m) :
        \/ m[p[1]].expiredAt < m[p[2]].expiredAt
        \/ m[p[1]].expiredAt = m[p[2]].expiredAt /\ p[1] < p[2]}

\* The tids of the Map m at the positions in K, in the order R.
TidsAt(m, K, R) ==
    LET order == Listed(K, R)
    IN  [k \in 1 .. Cardinality(K) |-> m[order[k]].tid]

\* Mutant of PutBack: the tid leaves the Map and never returns to the pool.
PutBackLosesTid(st, K, R) ==
    [pool |-> st.pool, map |-> Kept(st.map, (DOMAIN st.map) \ K)]

\* Mutant of PutBack: what was borrowed last is lent first.
PutBackOnTop(st, K, R) ==
    [pool |-> TidsAt(st.map, K, R) \o st.pool,
     map  |-> Kept(st.map, (DOMAIN st.map) \ K)]

\* putbackTid for every position in K, in the order R.  Set.add appends: a tid
\* that is put back was borrowed, so it is not in the pool (Partition below).
PutBack(st, K, R) ==
    [pool |-> st.pool \o TidsAt(st.map, K, R),
     map  |-> Kept(st.map, (DOMAIN st.map) \ K)]

ClearExpiredTid(st) ==
    PutBack(st, {i \in DOMAIN st.map : IsExpired(st.map[i])}, ByPosition(st.map))

\* Mutant of EarlierHalf: b[1].expiredAt - a[1].expiredAt in the comparison.
LaterHalf(m) ==
    {i \in DOMAIN m :
        2 * Cardinality({j \in DOMAIN m : <<i, j>> \in ByExpiry(m)}) < Len(m)}

\* The positions i < size / 2 of the sorted entries: the earlier half, rounded up.
EarlierHalf(m) ==
    {i \in DOMAIN m :
        2 * Cardinality({j \in DOMAIN m : <<j, i>> \in ByExpiry(m)}) < Len(m)}

ForcePutback(st) == PutBack(st, EarlierHalf(st.map), ByExpiry(st.map))

\* Mutants of MakeRoom: no forced return, and one only above the limit.
MakeRoomUnforced(st) ==
    IF 2 * Len(st.map) > IdCountMax THEN ClearExpiredTid(st) ELSE st

MakeRoomAbove(st) ==
    LET cleared == MakeRoomUnforced(st)
    IN  IF Len(cleared.map) > IdCountMax THEN ForcePutback(cleared) ELSE cleared

\* The two tests at the head of borrowTid.
MakeRoom(st) ==
    LET cleared == IF 2 * Len(st.map) > IdCountMax THEN ClearExpiredTid(st) ELSE st
    IN  IF Len(cleared.map) >= IdCountMax THEN ForcePutback(cleared) ELSE cleared

\* putbackTid(tid).
Returned(st, tid) ==
    PutBack(st, {i \in DOMAIN st.map : st.map[i].tid = tid}, ByPosition(st.map))

\* Mutant of FirstOf: the tid is looked at and not taken out of the pool.
FirstOfKept(room, life, data) ==
    LET tid == IF room.pool = <<>> THEN NoTid ELSE Head(room.pool)
    IN  [tid  |-> tid,
         pool |-> room.pool,
         map  |-> Append(room.map, [tid |-> tid, expiredAt |-> now + life, data |-> data])]

\* The first tid of the pool goes, with its request, to the end of the Map.
FirstOf(room, life, data) ==
    LET tid == IF room.pool = <<>> THEN NoTid ELSE Head(room.pool)
    IN  [tid  |-> tid,
         pool |-> IF room.pool = <<>> THEN <<>> ELSE Tail(room.pool),
         map  |-> Append(room.map, [tid |-> tid, expiredAt |-> now + life, data |-> data])]

\* Mutants of Lend: a crowded manager gives its tids half the life, and a full
\* manager takes the latest tid back before it has looked for expired ones.
LendHurried(st, data) ==
    FirstOf(MakeRoom(st),
            IF 2 * Len(st.map) > IdCountMax THEN ExpiredTime \div 2 ELSE ExpiredTime,
            data)

LendReplacing(st, data) ==
    FirstOf(IF Len(st.map) >= IdCountMax
            THEN PutBack(st, {Len(st.map)}, ByPosition(st.map))
            ELSE MakeRoom(st),
            ExpiredTime, data)

\* What create(data) does: borrowTid makes room and takes a tid, create sets its entry.
Lend(st, data) == FirstOf(MakeRoom(st), ExpiredTime, data)

Current == [pool |-> tidPool, map |-> transcations]

-----------------------------------------------------------------------------
Init ==
    /\ tidPool = ShuffledPool
    /\ transcations = <<>>
    /\ now = 0

\* create(data) returns the tid of what is lent.
Create(data) ==
    \E lent \in {Lend(Current, data)} :
        /\ tidPool' = lent.pool
        /\ transcations' = lent.map
        /\ UNCHANGED now

\* finish(tid) of a valid tid; it leaves everything unchanged for any other.
Finish(tid) ==
    \E done \in {Returned(Current, tid)} :
        /\ IsValid(tid)
        /\ tidPool' = done.pool
        /\ transcations' = done.map
        /\ UNCHANGED now

\* The clock does not run backwards.
Tick ==
    /\ now < MaxTime
    /\ now' = now + 1
    /\ UNCHANGED <<tidPool, transcations>>

Creates == \E data \in Data : Create(data)

Next ==
    \/ Creates
    \/ \E tid \in Tids : Finish(tid)
    \/ Tick

Spec == Init /\ [][Next]_tmVars

\* The clock runs.  Nothing makes a remote node answer or the program query.
LiveSpec == Spec /\ WF_tmVars(Tick)

-----------------------------------------------------------------------------
(* Properties.                                                             *)

\* The pool and the Map hold tids of the pool's alphabet, never the undefined
\* that an empty pool would yield, and every entry carries its request.
TypeOK ==
    /\ tidPool \in Seq(Tids)
    /\ transcations \in Seq(Entry)
    /\ now \in Nat

\* No tid is lost and none is lent twice: every tid is either in the pool or in
\* the Map, in one place, whatever order of create, finish, expiry and forced
\* return brought it there (putbackTid, borrowTid).
Partition ==
    /\ IsInjective(tidPool)
    /\ \A i, j \in DOMAIN transcations :
           transcations[i].tid = transcations[j].tid => i = j
    /\ Range(tidPool) \cap Borrowed = {}
    /\ Range(tidPool) \cup Borrowed = Tids

\* At most #ID_COUNT_MAX transcations are outstanding, answered or not: what a
\* silent network can make the program hold.
OutstandingBounded == Len(transcations) <= IdCountMax

\* The Map's insertion order is the order of expiry, also after entries left it
\* out of order: the sort of forcePutback finds the earliest borrowed first.
ExpiryInOrder ==
    /\ \A i, j \in DOMAIN transcations :
           i < j => transcations[i].expiredAt <= transcations[j].expiredAt
    /\ \A i \in DOMAIN transcations : transcations[i].expiredAt <= now + ExpiredTime

\* What create takes away from others.  The entries it drops are the first of
\* the Map; either each of them had expired, or no entry at all had expired, all
\* #ID_COUNT_MAX were lent, and they are the earlier half, rounded up.
CreateKeepsLatest ==
    [][Creates =>
        \E d \in 0 .. Len(transcations) :
            /\ SubSeq(transcations', 1, Len(transcations') - 1)
                   = SubSeq(transcations, d + 1, Len(transcations))
            /\ \/ \A i \in 1 .. d : IsExpired(transcations[i])
               \/ /\ \A i \in DOMAIN transcations : ~ IsExpired(transcations[i])
                  /\ Len(transcations) = IdCountMax
                  /\ d = (IdCountMax + 1) \div 2]_tmVars

\* A tid is stale while it is borrowed and its time is over.
Stale(tid) == tid \in Borrowed /\ ~ IsValid(tid)

\* The program goes on querying, as the rounds of main.ts do while the table has
\* fewer than eight nodes or the info hash no peers.
Querying == []<><<Creates>>_tmVars

\* When the network falls silent, so that finish is called no more, every stale
\* tid comes back: the queries of the rounds suffice to reclaim them all.
SilenceReclaims ==
    (Querying /\ <>[][\A tid \in Tids : ~ Finish(tid)]_tmVars)
        => \A tid \in Tids : Stale(tid) ~> ~ Stale(tid)

\* transcation_manager.ts:17 says "the borrowed tid will be returned to pool after
\* 5 minutes".  While answers keep the number borrowed at half the limit or less,
\* a tid whose answer is lost is never returned, however long the queries go on.
ReturnedAfterExpiry ==
    Querying => \A tid \in Tids : Stale(tid) ~> ~ Stale(tid)

\* transcation_manager.ts:19 calls #ID_COUNT_MAX "max tid count", at which
\* borrowTid takes tids back by force: a live transcation would lose its tid
\* only when every tid is lent.  The exclusive or makes the limit smaller.
ForcedOnlyWhenExhausted ==
    [][\A i \in DOMAIN transcations :
          LET tid == transcations[i].tid
          IN  (Creates /\ IsValid(tid) /\ \A k \in DOMAIN transcations' :
                                              transcations'[k].tid # tid)
                 => Borrowed = Tids]_tmVars

=============================================================================
