# A TLA+ model of torrent-dht

torrent-dht is a DHT node for Deno: it keeps a Kademlia routing table, sends and answers KRPC
queries over UDP, and collects the peers of info hashes. This directory holds TLA+ modules for
its state and protocols, the TLC runs that check them, and TLAPS proofs. Names follow the
source, its spelling ("transcation") included. Paths below are relative to the repository.

## The system

Everything runs on one JavaScript thread. A handler runs to its first `await` before any other
packet, timer or handler does; what is concurrent is what happens between two awaits.

| component | state | operations | correct when |
|---|---|---|---|
| transcation manager (`src/krpc/transcation_manager.ts`) | pool of free tids, Map of borrowed tids with expiry and request | `create`, `finish`, lookups; inside `create`: clearing expired tids, forcing the earlier half back | no tid is lost or lent twice, the number lent is bounded and there is always one to lend, the earliest go first |
| KRPC (`src/krpc/krpc.ts`) | socket, handlers | send methods, the packet loop | a query's tid is lent before the message leaves; an undecodable packet removes its sender |
| response handler | none; one suspended loop per answered get_peers | `handle`, by the type of the request the tid was lent for | no query is answered twice; an answer is taken for the query that holds the tid |
| request handler | none | answers ping, find_node, get_peers, announce_peer | a token that was handed out is honoured |
| error handler | none | ends a transcation | an error ends the query it answers |
| routing table, buckets (`src/routing_table.ts`, `src/bucket.ts`) | buckets around the local id, nodes in each, latest first | `add`, `remove*`, `updateNode`, `findClosestNodes` | the buckets split the ids by distance, each keeps the latest nodes of its distance |
| info hash manager (`src/info_hash_manager.ts`) | peers and token of every info hash | `add`, `addList`, `remove`, `find`, `findToken` | the two Maps agree, limits hold, a token stays |
| DHT and timers (`src/dht.ts`, `main.ts`) | the bootstrap nodes | rounds of ping, find_node and get_peers | rounds reach the nodes of the table |
| message factory, ids, peers, encodings, hashing, logging, black list | none that changes | conversions | not modelled |

They interact by direct calls on four singletons. A timer starts a round, a round calls the send
methods, each of which calls `create` and sends. The packet loop gives every packet to the
handler of its type: the response handler looks the tid up, calls `finish`, then adds nodes to
the table, peers to the info hash manager, or sends further queries. The request handler reads
the table and the info hash manager and adds announced peers.

What is hard here: the network loses, repeats, delays and reorders, and an answer is recognised
by two characters that are lent again and again; nothing runs when a tid expires, so expiry
happens as a side effect of later queries; a lookup is suspended at every query it sends; the
buckets' arithmetic has to match the xor metric; the two limits of the info hash manager are
tested in the middle of lists; identity of objects stands for equality of ids. `PROJECT.json`
lists these hazards at their lines.

## The modules

| module | models | on top of |
|---|---|---|
| `IdSpace` | ids as numbers of `Bits` bits, and their xor | |
| `Positions` | taking elements out of a sequence (`splice`, `filter`, `Map.delete`), by counting instead of recursion | |
| `TranscationManager` | the class, with its clock | `Positions` |
| `RequestLedger` | abstract: what becomes of a request | |
| `KrpcRequests` | send methods, response handler, lossy network | `TranscationManager`; implements `RequestLedger` |
| `KrpcErrors` | the error handler | `KrpcRequests` |
| `KBuckets` | abstract: which nodes a Kademlia table knows | `IdSpace` |
| `RoutingTable` | table and buckets | `IdSpace`, `Positions`; implements `KBuckets` |
| `InfoHashManager` | the class and the two handlers that store peers | |
| `AnnounceTokens` | the way of a token from get_peers to announce_peer | `InfoHashManager` |
| `Rounds` | the constructor's pings, the rounds of ping and find_node and their timer | `RoutingTable` |
| `DhtNode` | the handlers of answers over all their state, the lookups and their timer, announcements in between | `KrpcRequests`, with instances of `RoutingTable` and `InfoHashManager` |
| `Positions_proofs` | lemmas on the operators of `Positions`, and on recursion over numbers | `Positions` |
| `TranscationManager_proofs`, `KrpcRequests_proofs`, `InfoHashManager_proofs`, `RoutingTable_proofs`, `Rounds_proofs`, `DhtNode_proofs` | theorems about these modules | the module and the lemmas |
| `Layout_proofs` | lemmas on the layout that `generateBuckets` makes, for `RoutingTable_proofs` | `RoutingTable` |
| `MCRounds` | rounds under packets without end, for TLC, with the liveness property | `Rounds` |
| other `MC*` | constants for TLC: pools of tids, and for `MCTranscationLimit` the limit computed from the alphabet | |

**TranscationManager.** A JavaScript Set and Map iterate in insertion order, so `tidPool` and
`transcations` are sequences. `Create` is the whole of `create`: `MakeRoom` is the head of
`borrowTid` (`ClearExpiredTid`, then `ForcePutback`), `FirstOf` takes the first tid and sets the
entry; an empty pool would yield `NoTid`, the code's `undefined`. `Finish` is enabled for a
valid tid only and changes nothing for others. The clock is the variable `now`. The stable sort
of `forcePutback` is the order `ByExpiry`, the loop `i < size / 2` the set `EarlierHalf`. The
shuffled pool is a constant, so results hold for every shuffle.

**KrpcRequests.** The history `requests` lists the queries ever sent, and an answer is the
number of the query it answers: it may come at any later time, any number of times, or never.
That is UDP with loss, duplication, delay and reordering. `HandleResponse` is the response
handler up to its first await: validity of the tid, the attached request, `finish`, and for a
get_peers answer with nodes the first further query. `ContinueLookup` is one more turn of that
loop, between any other steps. `answers` records the answers taken for a query, `left` the turns
its loop has to go.

**KrpcErrors.** An error for a valid tid is only logged, so the action changes nothing but the
history `errored`.

**RoutingTable.** `localId` is any id, a number. Its powers of two are the function `Pow2` of
`IdSpace`, since the provers have no exponents. `GenerateBuckets` is the recursion of
`generateBuckets`, as a recursive function on intervals. A node is a record with the serial
number of the object (`ref`), because `Bucket.add` and `Bucket.remove` compare objects. `remove`
finds the bucket by range (`Without`, `IsHome`). At equal distances `findClosestNodes` may
return either node. Ports are left out. `With` is `add` for a list, one node after the other,
and `AddFound` the order in which `handleFindNodeResponse` adds what it was told and then the
teller.

**InfoHashManager.** The Maps are functions on the info hashes they hold, a `Set<Peer>` of fresh
objects is a sequence. `StoreValues` is the answer to get_peers with its list (`AddedList`),
`AnnouncePeer` the announce_peer handler with the answer it gives and the peer this acknowledges
(`reply`), which is the same whether or not `add` took the peer. Both pass on a transcation id
as the token, as the code does. The three tests at the head of `add` are `Accepts`; as in the
code, the limit on info hashes is tested for known ones too. `AnnounceTokens` adds the token
that an announcement brings along and nothing reads.

**Rounds.** `phase` and `place` are where the callback of the first timer is suspended: at the
second find_node to a bootstrap node, say, or at the third position in the list of the fourth
bucket. It starts in the constructor's own pings, which nobody awaits and no table round
follows. JavaScript's `for ... of` reads the list anew at every turn, so `NextPlaces` is
computed from the `buckets` of that moment. `HandlePacket` is what a packet may do to the table
between two awaits: add what it names, or remove an address. The other variables remember what
the round did: `staying`, `asked`, `repeats`, and, for the list the loop is at, how many nodes
came in (`ahead`) and how many left from places passed already (`behind`). Overlapping rounds
only read the table, so one stands for each.

A round under packets that never end is no finite model as it stands, since every packet makes
nodes and `ref` counts them. `MCRounds` adds a step that numbers the nodes of the table anew
from 1, in their order (`Renumber`). Nothing but the comparison of refs depends on the numbers,
so `MaxMade` bounds the nodes known at once and not those of a behaviour. `watched` follows one
node through this, for `StayingNodesAsked`.

**DhtNode.** The actions `AnswerToOther`, `AnswerWithValues`, `AnswerWithNodes` and
`AnswerWithout` are the response handler for the four outcomes its branches have, each in one
step with `finish` and the change of table or store. A get_peers handler with nodes is a member
of `suspended` until its loop is over; only then is its sender added. `StartLookup` and
`ResumeLookup` are the second timer with `sendGetPeersRequest`: the nodes are picked once, so a
count (`asking`) is all that is left of them. `Announcement` is the announce_peer handler: it
may come between any two of the others, with any port or none, and with a transaction id that
one of ours may equal. Other nodes are honest: a peer in an answer bears the mark (as its port)
of the info hash the node was asked for, and a node announces what it has. Nodes named in an
answer may have the local id, which `add` refuses.

## The runs

| run | bounds | what it shows |
|---|---|---|
| `transcations` | 5 tids, limit 4, lifetime 2, clock to 4 | `TypeOK`, `Partition`, `OutstandingBounded`, `ExpiryInOrder`, `CreateKeepsLatest`, `SilenceReclaims` |
| `krpc_requests` | 3 tids, limit 2, two types of request, lists of up to 2 nodes, 5 queries, clock to 2 | `KrTypeOK`, `AtMostOneAnswer`, `EntriesAreOpenQueries`, `LateAnswerQuarantined`, `ImplementsLedger` |
| `routing_table` | ids of 3 bits, all 8 local ids, buckets of 2, 2 addresses, lists of up to 2 and their sender, 3 nodes made | `RtTypeOK`, `BucketsSplitIdSpace`, `IpForgotten`, `ImplementsKBuckets` |
| `info_hashes` | 3 info hashes of which 2 fit, 3 peers each, lists of up to 2, 2 tokens | `IhTypeOK`, `StoresAgree`, `AcknowledgedUnlessFull`, `TokenStays` |
| `rounds` | ids of 2 bits, buckets of 2, 2 addresses, lists of up to 1 and their sender, 4 nodes at once but any number in a behaviour, rounds below 3 nodes, 1 bootstrap node, 2 arrivals and 2 removals at the list of a round | `RdTypeOK`, `ListsAreShort`, `RepeatsNeedArrivals`, `SkipsNeedRemovals`, `StayingNodesAsked` |
| `dht_node` | 3 tids, limit 2, 2 info hashes, 5 queries, lists of up to 2 nodes, one bucket of 2, 2 nodes made, 1 peer per info hash, announcements with one of our tids, clock to 1 | `DnTypeOK`, `TokensHaveOrigin`, `PeersBelong` |

Why the bounds are enough. With a limit of four the thresholds (more than two, four) are
different numbers, there is a tid that is not lent at the limit, and a forced return takes two
of four. The clock passes the lifetime more than once. Three tids with a limit of two let a tid
be lent, taken back and lent again while answers to all its queries are under way, within five
queries. Three nodes fill a bucket of two and evict. In `info_hashes` both limits can be hit,
one of them in the middle of a list. In `rounds` nodes come in and leave before, at and behind
the loop in a full bucket and in one that is not, so that queries are repeated and nodes
skipped. In `dht_node` five queries are the fewest with which a late answer to one lookup can be
taken for another (a find_node for the first node, then a tid's way through the pool), so that
`PeersBelong` does not hold for want of late answers, and two nodes made are the first one and
the one that brings the peers. Its two info hashes are symmetric. The answer to the last
announcement is left out of the state that TLC tells apart (`VIEW`): no step reads it. In both
runs the local id is 0, because xor gives all ids the same distances from 0 as from any other
id. The proofs have no bounds, and no symmetry or view.

`MaxTime`, `MaxQueries`, `MaxNodes`, `MaxFound`, `MaxMade`, `MaxValues`, `MaxAhead` and
`MaxBehind` are bounds of the model; the others are parameters of the program. That a lookup of
an info hash does not start while another of it goes on is a bound too (`asking[h] = 0`).
`krpc_requests` and `error_ends` stop at `MaxQueries`, so they are run without the deadlock
check; in all other runs something can always happen.

Six runs end in a violation, and each is a disagreement between the code and what it says of
itself:

| run | the repository says | the code does |
|---|---|---|
| `expired_returned` | `transcation_manager.ts:17`: a borrowed tid is returned after 5 minutes | after 24 hours at the earliest, and never while at most half the limit is borrowed |
| `limit` | `:19`: the limit is the number of tids | `62 ^ 2` is 60: live transcations are forced out while 3784 tids are free |
| `error_ends` | `error_handler.ts:27`: finish transcation | the test before it is inverted, so an error ends nothing |
| `node_twice` | `bucket.ts:94`: a node in the bucket is only updated | ids are compared as objects: an answer that names its own sender adds this node twice |
| `announce_tokens` | `request_handler.ts:152`, `message_factory.ts:19`: the token of the info hash decides | the transcation id is compared, `a.token` is not read |
| `values_stored` | `response_handler.ts:187`: the peers of an answer are stored; `message_factory.ts:25`: an answer has a token | the token stored is the transcation id, another one for every node asked, so only the first answer of a lookup is stored |

**Fairness.** `LiveSpec` assumes that the clock runs, nothing else: a remote node need not
answer. `SilenceReclaims` and `ReturnedAfterExpiry` have as a premise that queries go on
(`Querying`), since `main.ts` stops its rounds once the table has eight nodes and the info hash
peers; after that nothing is lent, and expired tids stay where they are, refused by `isValid`
all the same.

`RdSpec` assumes that the interval goes on firing (`StartRound`) and that what a round awaits,
bencoding and a UDP send, is settled in time (`Resumes`; `sendMessage` catches the failure of a
send). It assumes nothing about packets. `MCRdSpec` assumes the same of its rounds; its packets
may go on for ever. The bound `MaxAhead` on arrivals during one round never stops a round, which
needs no packet to go on.

`StayingNodesAsked` has as a premise that, from some time on, no node leaves a place that the
round has passed (`behind = 0`). The premise is needed: without it TLC shows a node that stays
in a small table and is never asked. A node before it is removed while its query is awaited, the
node that stays slips into that place, the loop goes on behind it, and a new node takes the
front before the next round. `SkipsNeedRemovals` says that nothing else makes a round miss a
node; the liveness property adds that new nodes alone, and the old ones dropped for them, keep
no node out, though they never end.

## What is proved

Every invariant and every action property of the passing runs, and both refinements, are
theorems: for every value of the parameters that the `ASSUME`s of the modules allow. These ask
for a pool without repetitions, a limit from one to its size, capacities and limits above zero,
and ids of one bit or more. `PROJECT.json` lists the theorems with their properties.

**TranscationManager.** The four invariants hold together or not at all, so the inductive
invariant `IInv` is their conjunction. `TypeOK` needs that the pool has a tid when `FirstOf`
takes one (`PoolNotEmpty`): this follows from `Partition` and from the number lent being below
the limit after `MakeRoom`. That the number is below it needs `ForcePutback` to take at least
one entry, and that what is put back is put back once needs the Map to hold every tid once.
`ExpiryInOrder` makes the set of expired entries, and the earlier half by expiry, prefixes of
the Map (`ExpiredIsPrefix`, `EarlierHalfIsPrefix`), from which the action property follows. The
lemmas are about `PutBack` on any sound pair of pool and Map (`PutBackSound`,
`MakeRoomProperties`, `LendSound`, `ReturnedSound`), so that the invariance proof has one short
step per action.

**KrpcRequests.** The inductive invariant `KrInv` is `Fits` of the manager's state and the log
of queries. It adds three things to `IInv`. The entries of the Map were made for queries that
are the last with their tids, without answers, in the order of the log (`EntriesOpen`). A query
has at most one answer, which was sent for it or for an earlier query with the same tid
(`AnswersFit`). And any two queries with one tid are as far apart as the quarantine says
(`TidsRest`), so that the wrong answer comes from that far back, because a tid in the pool has
been passed by enough queries (`Rested`): when it is put back, at least `Resting` tids are in
the pool before it, the size of the pool less the limit, and every query takes one of those
first. `Rested` is what makes the rest inductive, and it needs the exact order in which
`PutBack` returns tids. For `LedgerImplemented` the state maps to `Fate`: a step that lends
drops the queries whose entries made room, which are those the ledger lets go.

**InfoHashManager.** `IhInv` is the types with both limits, the agreement of the Maps, and the
promise of the last reply. `Added` keeps the first two (`AddedIsGood`) and only ever adds at the
end (`AddedExtends`); what it accepts it stores last and under its token (`AddedFields`), and it
refuses, the token being right by the handler's own test, only at a limit: that is
`AcknowledgedUnlessFull` (`AnnouncePeerStep`). `addList` is a loop, so its facts are proved for
every turn (`AddedListStays`).

**RoutingTable.** `Layout_proofs` shows that the recursion of `generateBuckets` has a closed
form: bucket i is the interval of the ids that share the first i - 1 bits with the local id and
differ in the next (`GenerateBucketsIs`, by induction on the number of bits still to split).
`DistanceByPrefix` ties the bits to xor: two ids share their leading bits exactly when their
distance is below a power of two. The invariant `RtInv` says that the layout stays and that
every list is short, in its range, and strictly descending in `ref` (`GoodList`). So an id has
one home (`OneHome`), which is why `removeByIp` misses no node. The order by `ref` is what makes
`KBucketsImplemented` go through: the node that a full bucket drops is the one with `Capacity`
newer nodes of its class (`LearntAreNewest`).

**Rounds.** The properties are not inductive: `repeats <= ahead` says nothing of what the loop
will meet. `RdInv` counts that. Of the nodes already asked, `Behind` are those still to come in
the list the loop is at, and repeats so far plus those never exceed `ahead`; all nodes asked lie
in lists up to this one. `Missed` are the nodes that stayed and that the loop has passed without
asking, and they never exceed `behind`. The packets' effect on these counts are the four lemmas
on lists: `ArrivalsPush` and `ArrivalsPass` for nodes that come in, `RemovalRepeats` and
`RemovalPasses` for nodes that leave.

**DhtNode.** `PartsStep` is shown action by action: what a handler does to the transcations, the
table and the info hashes is a step that the part's own specification has, or leaves it alone.
That the loop of a handler may go on needs that its query exists, so `DnInv` is `KrInv` with
`HandlersFit`: a suspended handler is that of an answered query, no two are of the same one, and
nodes left to query have a handler. A second handler of one query would need a second answer to
it. `PartsRun` follows: a behaviour of the node is one of each part, so the theorems about the
parts hold in it (`PartsKeepTheirPromises`). These are cited from instances of
`RoutingTable_proofs` and `InfoHashManager_proofs`, whose definitions `SameTable` and
`SameStore` show to be those that `DhtNode` instantiates. `TokensHaveOrigin` and `PeersBelong`
relate two parts. Only two actions change the store (`StoreStep`). What it takes of an answer is
told by the query it was taken for, and by the query it answers (`StoredAnswer`), and `TidsRest`
says how far apart these are; what it takes of an announcement, by the announcement
(`StoredAnnouncement`). `PeersBelong` holds of what was stored earlier because queries and
answers stay in the log (`QueriesStay`).

**Recursion.** The loops of the code are recursive functions over numbers. `SetInduction` is
induction for a set of numbers, from the least element of a well-founded order, and
`IteratesExist` that a loop has a result at every turn. With these the proofs can say what
`AddedList`, `With` and `GenerateBuckets` compute.

**Only model-checked.** The liveness properties `SilenceReclaims` and `StayingNodesAsked`, since
the provers have neither fairness nor `ENABLED` beyond propositional temporal logic. The runs
that end in a violation are counterexamples and have nothing to prove.

## Not modelled

Encodings, ids and addresses as bytes, hashing, logging and the black list (stateless or
unused). `Bucket.cloestNodes`, which would reorder a bucket and has no caller. The times of
activity of a node, which nothing reads. Answers to ping, find_node and to get_peers without
peers, which change nothing. The process that ends on an unhandled rejection. A sender that
answers with the local id: `add` refuses it and logs so. An announcement without a valid info
hash or transcation id is refused as one without a port is. A clock that is set back: `Date.now`
is a wall clock, and `Tick` only goes forward, on which `ExpiryInOrder` and `CreateKeepsLatest`
rest. `rounds` leaves out the transcations of its queries: a round only waits for sends, never
for answers, and what queries do to the transcation manager is in `TranscationManager`.

## Plan

1. The refinement of `KBuckets` in the node, from `KBucketsImplemented` and `PartsRun`.
2. Properties for the hazards that have none yet, where the code promises something.
