------------------------------ MODULE RoutingTable ------------------------------
(***************************************************************************)
(* The classes RoutingTable and Bucket of src/routing_table.ts and         *)
(* src/bucket.ts.  The table splits the space of ids into buckets around   *)
(* the local id, each of them a list of nodes, the latest added first.     *)
(*                                                                         *)
(* The program tells nodes apart by identity (n.id === node.id compares    *)
(* Id objects, and every Node made from a message gets an Id of its own),  *)
(* so a node has a "ref", the number of nodes made before it plus one.     *)
(* Ports are left out: nothing here decides by a port.                     *)
(***************************************************************************)
EXTENDS IdSpace, Positions, Functions

CONSTANTS
    Capacity,  \* BUCKET_CAPACITY
    Closest,   \* the count of findClosestNodes
    Addrs,     \* the addresses of nodes
    MaxFound,  \* bound on the nodes in an answer to find_node
    MaxMade    \* bound on the nodes made, for model checking

ASSUME SizeAssumption ==
    /\ Capacity \in Nat \ {0} /\ Closest \in Nat
    /\ MaxFound \in Nat /\ MaxMade \in Nat

VARIABLES
    localId,   \* the id of #localNode
    buckets,   \* #buckets
    made       \* how many nodes were made

rtVars == <<localId, buckets, made>>

Contact == [id : Ids, addr : Addrs]

Node == [ref : Nat \ {0}, id : Ids, addr : Addrs]

Bucket == [start : Ids, end : Ids, nodes : Seq(Node)]

-----------------------------------------------------------------------------
(* The layout.                                                             *)

EmptyBucket(start, end) == [start |-> start, end |-> end, nodes |-> <<>>]

\* Mutant of GenerateBuckets: the left half is split again, whatever the local id.
GenerateBucketsOneSided(local) ==
    [i \in 1 .. Bits |-> EmptyBucket(Pow2[Bits - i], Pow2[Bits - i + 1] - 1)]

\* generateBuckets: of an interval around the local id, the half without it is a
\* bucket and the half with it is split again, down to the local id itself.
GenerateBuckets(local) ==
    LET Around == {p \in Ids \X Ids : p[1] <= local /\ local <= p[2]}
        split[p \in Around] ==
            LET leftEnd == (p[1] + p[2] - 1) \div 2
            IN  IF p[1] = p[2] THEN <<>>
                ELSE IF local <= leftEnd
                THEN <<EmptyBucket(leftEnd + 1, p[2])>> \o split[<<p[1], leftEnd>>]
                ELSE <<EmptyBucket(p[1], leftEnd)>> \o split[<<leftEnd + 1, p[2]>>]
    IN  split[<<0, Pow2[Bits] - 1>>]

WithinRange(b, id) == b.start <= id /\ id <= b.end

\* The bucket that the loops of add and remove stop at, if any.
IsHome(i, id) ==
    /\ WithinRange(buckets[i], id)
    /\ \A j \in DOMAIN buckets : j < i => ~ WithinRange(buckets[j], id)

-----------------------------------------------------------------------------
(* Lookups.                                                                *)

\* getAllNodes, as a set.
AllNodes == UNION {Range(buckets[i].nodes) : i \in DOMAIN buckets}

\* What findNode finds: the first node with the id, in the only bucket for it.
FindNode(id) ==
    UNION {{n \in Range(buckets[i].nodes) :
              /\ n.id = id
              /\ \E k \in DOMAIN buckets[i].nodes :
                    /\ buckets[i].nodes[k] = n
                    /\ \A j \in 1 .. k - 1 : buckets[i].nodes[j].id # id} :
           i \in DOMAIN buckets}

\* What findClosestNodes may return, as sets: its comparison does not order nodes
\* at the same distance.
FindClosestNodes(id) ==
    {S \in SUBSET AllNodes :
        /\ Cardinality(S) = IF Cardinality(AllNodes) < Closest THEN Cardinality(AllNodes)
                                                              ELSE Closest
        /\ \A n \in S, m \in AllNodes \ S : Distance(n.id, id) <= Distance(m.id, id)}

-----------------------------------------------------------------------------
(* Changes of a bucket's list.                                             *)

\* Bucket.remove of each of the nodes in S.
RemovedFrom(nodes, S) ==
    Kept(nodes, {k \in DOMAIN nodes : \A n \in S : nodes[k].ref # n.ref})

\* Mutants of AddedTo: a full bucket is cut only when it overflows, and the node
\* that makes room is the latest.
AddedToOverfull(nodes, node) ==
    <<node>> \o (IF Len(nodes) > Capacity
                 THEN RemovedFrom(nodes, {nodes[Len(nodes)]})
                 ELSE nodes)

AddedToLatest(nodes, node) ==
    <<node>> \o (IF Len(nodes) >= Capacity THEN RemovedFrom(nodes, {nodes[1]}) ELSE nodes)

\* Bucket.add of a node: one that is there already stays where it is; else the
\* oldest makes room in a full bucket, and the new node goes to the front.
AddedTo(nodes, node) ==
    IF \E k \in DOMAIN nodes : nodes[k].ref = node.ref THEN nodes
    ELSE <<node>> \o (IF Len(nodes) >= Capacity
                      THEN RemovedFrom(nodes, {nodes[Len(nodes)]})
                      ELSE nodes)

\* add for one node of a message after the other.  The local id has no bucket.
With(nodes) ==
    [i \in DOMAIN buckets |->
        LET upTo[k \in 0 .. Len(nodes)] ==
                IF k = 0 THEN buckets[i].nodes
                ELSE IF IsHome(i, nodes[k].id) THEN AddedTo(upTo[k - 1], nodes[k])
                ELSE upTo[k - 1]
        IN  [buckets[i] EXCEPT !.nodes = upTo[Len(nodes)]]]

\* remove for every node in S.
Without(S) ==
    [i \in DOMAIN buckets |->
        [buckets[i] EXCEPT !.nodes = RemovedFrom(@, {n \in S : IsHome(i, n.id)})]]

-----------------------------------------------------------------------------
\* The id of the local node is made from its mac address: it can be any.
RtInit ==
    /\ localId \in Ids
    /\ buckets = GenerateBuckets(localId)
    /\ made = 0

\* The nodes made for a list of contacts, an id and an address each.
NodesOf(contacts) ==
    [k \in DOMAIN contacts |->
        [ref |-> made + k, id |-> contacts[k].id, addr |-> contacts[k].addr]]

\* add or addNodes for a list of contacts, every one of which becomes a new node.
AddNodes(contacts) ==
    /\ made + Len(contacts) <= MaxMade
    /\ made' = made + Len(contacts)
    /\ buckets' = With(NodesOf(contacts))
    /\ UNCHANGED localId

Add(contact) == AddNodes(<<contact>>)

\* handleFindNodeResponse adds the nodes it was told of and then the one that
\* told it, so that this one is the last to make room for the others.
AddFound(contacts, sender) == AddNodes(Append(contacts, sender))

\* remove of a node of the table.
Remove(node) == buckets' = Without({node}) /\ UNCHANGED <<localId, made>>

\* removeByNodeId removes the first node with the id and no other.
RemoveByNodeId(id) == buckets' = Without(FindNode(id)) /\ UNCHANGED <<localId, made>>

\* Mutant of RemoveByIp: it stops at the first node, as removeByNodeId does.
RemoveByIpOnce(addr) ==
    \E n \in AllNodes :
        n.addr = addr /\ buckets' = Without({n}) /\ UNCHANGED <<localId, made>>

\* removeByIp, for a packet that cannot be decoded.
RemoveByIp(addr) ==
    /\ buckets' = Without({n \in AllNodes : n.addr = addr})
    /\ UNCHANGED <<localId, made>>

\* removeClosestNode removes them all, up to eight.
RemoveClosestNode(id) ==
    \E S \in FindClosestNodes(id) : buckets' = Without(S) /\ UNCHANGED <<localId, made>>

\* updateNode of the first node with the id; its place in the bucket stays.
UpdateNode(id, addr) ==
    /\ buckets' = [i \in DOMAIN buckets |->
          [buckets[i] EXCEPT !.nodes =
              [k \in DOMAIN @ |-> IF @[k] \in FindNode(id)
                                  THEN [@[k] EXCEPT !.addr = addr]
                                  ELSE @[k]]]]
    /\ UNCHANGED <<localId, made>>

RtNext ==
    \/ \E id \in Ids, addr \in Addrs : UpdateNode(id, addr)
    \/ \E sender \in Contact, len \in 0 .. MaxFound :
          \E contacts \in [1 .. len -> Contact] : AddFound(contacts, sender)
    \/ \E node \in AllNodes : Remove(node)
    \/ \E id \in Ids : RemoveByNodeId(id) \/ RemoveClosestNode(id)
    \/ \E addr \in Addrs : RemoveByIp(addr)

RtSpec == RtInit /\ [][RtNext]_rtVars

-----------------------------------------------------------------------------
(* Properties.                                                             *)

\* Besides the types: every bucket holds at most Capacity nodes, all in its range.
RtTypeOK ==
    /\ localId \in Ids
    /\ made \in 0 .. MaxMade
    /\ buckets \in Seq(Bucket)
    /\ \A i \in DOMAIN buckets :
          /\ Len(buckets[i].nodes) <= Capacity
          /\ \A k \in DOMAIN buckets[i].nodes :
                WithinRange(buckets[i], buckets[i].nodes[k].id)

\* Whatever the local id is, generateBuckets leaves no id out and gives none two
\* homes, the local id excepted, which has none; and the n-th bucket holds the ids
\* at a distance of Bits - n + 1 bits, so that splitting by number is splitting by
\* the xor metric.
BucketsSplitIdSpace ==
    \A id \in Ids :
        {i \in DOMAIN buckets : WithinRange(buckets[i], id)}
            = {i \in 1 .. Bits : Pow2[Bits - i] <= Distance(id, localId)
                                 /\ Distance(id, localId) < Pow2[Bits - i + 1]}

\* removeByIp leaves no node of that address anywhere: remove finds every node of
\* the table by the range of its bucket.
IpForgotten ==
    [][\A addr \in Addrs : RemoveByIp(addr) => \A n \in AllNodes' : n.addr # addr]_rtVars

\* The buckets keep the promises of KBuckets: however adds, removals and updates
\* follow each other, the table knows the latest nodes of every distance.
KB == INSTANCE KBuckets WITH known <- AllNodes

ImplementsKBuckets == KB!Spec

\* bucket.ts:94 says "if the node is already in the bucket, just update the last
\* active time": a node is in the table once.  bucket.ts:103 compares Id objects,
\* not ids, so every message of a node adds it again.
NoNodeTwice == \A m, n \in AllNodes : m.id = n.id => m = n

=============================================================================
