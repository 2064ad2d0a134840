--------------------------------- MODULE DhtNode ---------------------------------
(***************************************************************************)
(* The node: queries and their answers (KrpcRequests), with what the       *)
(* response handler puts into the RoutingTable and the InfoHashManager,    *)
(* the lookups that the second timer of src/main.ts starts by              *)
(* DHT.sendGetPeersRequest, and the announcements of other nodes.  The     *)
(* other queries that nodes send are answered and change nothing.          *)
(*                                                                         *)
(* A get_peers query is named by its info hash, and the other requests in  *)
(* Data stand for ping and find_node, whose answers differ only in what    *)
(* they may bring.  Other nodes answer what they were asked, and announce  *)
(* what they have: a peer in an answer or an announcement has, as a port,  *)
(* the info hash that it has, so that a peer filed under another info hash *)
(* is seen.  The answer to an announcement is in "reply" until the store   *)
(* is used again.                                                          *)
(***************************************************************************)
EXTENDS KrpcRequests

CONSTANTS
    Bits, Capacity, Closest, Addrs, MaxMade,    \* of RoutingTable
    MaxInfoHash, MaxPeer, MaxValues, NoReply,   \* of InfoHashManager
    NoPort,
    OtherTids    \* the tids of other nodes' announcements, ours or not

\* Limits that let one through at least.
ASSUME PartsAssumption ==
    /\ Bits \in Nat \ {0}
    /\ Capacity \in Nat \ {0} /\ Closest \in Nat \ {0} /\ MaxMade \in Nat
    /\ MaxInfoHash \in Nat \ {0} /\ MaxPeer \in Nat \ {0} /\ MaxValues \in Nat \ {0}
    /\ NoPort \notin Lookups

VARIABLES localId, buckets, made          \* of RoutingTable
VARIABLES infoHashes, tokenMap, reply     \* of InfoHashManager

VARIABLES
    asking,    \* the nodes that the lookup of an info hash has still to query
    suspended  \* the handlers of answers to get_peers that await a query of theirs

RT == INSTANCE RoutingTable WITH MaxFound <- MaxNodes

IH == INSTANCE InfoHashManager
         WITH InfoHashes <- Lookups, Ports <- Lookups, Tids <- Tids \cup OtherTids

rtVars == <<localId, buckets, made>>
ihVars == <<infoHashes, tokenMap, reply>>
dnVars == <<krVars, rtVars, ihVars, asking, suspended>>

Others == <<rtVars, ihVars, asking, suspended>>

-----------------------------------------------------------------------------
DnInit ==
    /\ KrInit /\ RT!RtInit /\ IH!IhInit
    /\ asking = [h \in Lookups |-> 0]
    /\ suspended = {}

\* A ping or a find_node of the rounds.
SendOther(data) == SendQuery(data) /\ UNCHANGED Others

\* The second timer for an info hash without peers: the closest nodes are picked
\* once, and the first is queried.
StartLookup(h) ==
    LET count == Cardinality(RT!AllNodes)
    IN  /\ h \notin DOMAIN infoHashes
        /\ count # 0
        /\ asking[h] = 0
        /\ asking' = [asking EXCEPT ![h] = (IF count < Closest THEN count ELSE Closest) - 1]
        /\ SendQuery(h)
        /\ UNCHANGED <<rtVars, ihVars, suspended>>

\* Its loop after an await, whatever the table and the info hash became.
ResumeLookup(h) ==
    /\ asking[h] > 0
    /\ asking' = [asking EXCEPT ![h] = @ - 1]
    /\ SendQuery(h)
    /\ UNCHANGED <<rtVars, ihVars, suspended>>

-----------------------------------------------------------------------------
(* An answer to query n is taken for the query that holds its tid now.     *)

\* Mutant of TakenFor: an answer is handled by what it answers.
TakenForAsked(n) == requests[n].data

TakenFor(n) == Attached(requests[n].tid)

\* The nodes that answer.  None of them has the local id, though they may name it.
Remote == {c \in RT!Contact : c.id # localId}

\* handleFindNodeResponse of an answer that brings nodes.  Without any, it is
\* handlePingResponse and handleAnnouncePeerResponse too, whatever the answer brings.
AnswerToOther(n, contacts, sender) ==
    /\ HandleResponse(n, 0)
    /\ TakenFor(n) \notin Lookups
    /\ RT!AddFound(contacts, sender)
    /\ UNCHANGED <<ihVars, asking, suspended>>

\* handleGetPeersResponse of an answer with peers.
AnswerWithValues(n, peers, sender) ==
    /\ HandleResponse(n, 0)
    /\ TakenFor(n) \in Lookups
    /\ requests[n].data \in Lookups
    /\ \A k \in DOMAIN peers : peers[k].port = requests[n].data
    /\ IH!StoreValues(TakenFor(n), peers, requests[n].tid)
    /\ RT!Add(sender)
    /\ UNCHANGED <<asking, suspended>>

\* Mutant of AnswerWithNodes: the sender is added before the loop, which nothing
\* resumes.
AnswerWithNodesOnce(n, count, sender) ==
    /\ TakenFor(n) \in Lookups
    /\ HandleResponse(n, count)
    /\ RT!Add(sender)
    /\ UNCHANGED <<ihVars, asking, suspended>>

\* handleGetPeersResponse of an answer with nodes: the first of them is queried and
\* the handler suspended; the sender is added at once only if there is none.
AnswerWithNodes(n, count, sender) ==
    /\ TakenFor(n) \in Lookups
    /\ HandleResponse(n, count)
    /\ \/ count = 0 /\ RT!Add(sender) /\ UNCHANGED suspended
       \/ /\ count > 0
          /\ suspended' =
                suspended \cup {[query |-> Holder(requests[n].tid), sender |-> sender]}
          /\ UNCHANGED rtVars
    /\ UNCHANGED <<ihVars, asking>>

\* An answer of find_node or get_peers that lacks what its handler looks for, or has
\* it malformed: the tid is finished, no more.
AnswerWithout(n) ==
    /\ HandleResponse(n, 0)
    /\ UNCHANGED Others

\* A suspended handler queries the next node, or adds its sender and ends.
ResumeHandler(s) ==
    \/ ContinueLookup(s.query) /\ UNCHANGED Others
    \/ /\ requests[s.query].left = 0
       /\ RT!Add(s.sender)
       /\ suspended' = suspended \ {s}
       /\ UNCHANGED <<krVars, ihVars, asking>>

Answer ==
    \E n \in DOMAIN requests :
        /\ IsValid(requests[n].tid)
        /\ \/ AnswerWithout(n)
           \/ \E sender \in Remote :
                 \/ \E count \in 0 .. MaxNodes :
                       \/ AnswerWithNodes(n, count, sender)
                       \/ \E contacts \in [1 .. count -> RT!Contact] :
                             AnswerToOther(n, contacts, sender)
                 \/ \E count \in 1 .. MaxValues :
                       \E peers \in [1 .. count -> IH!Peer] :
                          AnswerWithValues(n, peers, sender)

\* handleAnnouncePeerQueryRequest: another node announces that it has h.
Announcement(h, port, impliedPort, tid, from) ==
    /\ from.port = h
    /\ IH!AnnouncePeer(h, port, impliedPort, tid, from)
    /\ UNCHANGED <<krVars, rtVars, asking, suspended>>

\* A packet that cannot be decoded (handlePacket).
Undecodable(addr) ==
    RT!RemoveByIp(addr) /\ UNCHANGED <<krVars, ihVars, asking, suspended>>

DnNext ==
    \/ \E data \in Data \ Lookups : SendOther(data)
    \/ \E h \in Lookups : StartLookup(h) \/ ResumeLookup(h)
    \/ Answer
    \/ \E s \in suspended : ResumeHandler(s)
    \/ \E h \in Lookups, impliedPort \in BOOLEAN, tid \in OtherTids, from \in IH!Peer :
          \E port \in {h, NoPort} : Announcement(h, port, impliedPort, tid, from)
    \/ \E addr \in Addrs : Undecodable(addr)
    \/ Elapse /\ UNCHANGED Others

DnSpec == DnInit /\ [][DnNext]_dnVars

-----------------------------------------------------------------------------
(* Properties.                                                             *)

\* The types, and that the loops of get_peers answers that are not over are those
\* of the suspended handlers, one each.
DnTypeOK ==
    /\ asking \in [Lookups -> 0 .. Closest]
    /\ \A s \in suspended : s.query \in DOMAIN requests /\ s.sender \in RT!Contact
    /\ \A n \in DOMAIN requests : requests[n].left > 0 => \E s \in suspended : s.query = n
    /\ \A r, s \in suspended : r.query = s.query => r = s

\* The token of an info hash, which whoever announces it must bring, is fixed once: it
\* is the tid of a get_peers query for this info hash that the step answers, though the
\* answer may be a late one to another query, or it is what the announcement brought that
\* the step acknowledges, whatever queries for the info hash are open.
TokensHaveOrigin ==
    [][\A h \in DOMAIN tokenMap' :
          \/ h \in DOMAIN tokenMap /\ tokenMap'[h] = tokenMap[h]
          \/ \E n \in DOMAIN requests :
                /\ requests[n].data = h /\ requests[n].tid = tokenMap'[h]
                /\ requests[n].answers = <<>> /\ requests'[n].answers # <<>>
          \/ \E peer \in IH!Peer :
                reply' = [kind |-> "acknowledged", infoHash |-> h,
                          tid |-> tokenMap'[h], peer |-> peer]]_dnVars

\* A peer is stored for the info hash that the answering node was asked for, as long
\* as answers come before the tid has been through the pool: one that is stored for
\* another came that late, to a query sent more than the quarantine after its own.
PeersBelong ==
    \A h \in DOMAIN infoHashes : \A k \in DOMAIN infoHashes[h] :
        LET other == infoHashes[h][k].port
        IN  \/ other = h
            \/ \E m, n \in DOMAIN requests :
                  /\ requests[m].data = other
                  /\ requests[n].data = h
                  /\ m \in Range(requests[n].answers)
                  /\ n - m > Len(ShuffledPool) - IdCountMax

\* response_handler.ts:187 says "store the peers associated with the token and info
\* hash" of an answer with peers: while the limits allow it, the peers of an answer
\* that is in time are in the store then.  The token is the tid of the query, another
\* one for every node asked, so the store takes one answer of a lookup only.
ValuesStored ==
    [][\A n \in DOMAIN requests, sender \in Remote, p \in IH!Peer :
          LET h == requests[n].data
          IN  (/\ IsValid(requests[n].tid) /\ Holder(requests[n].tid) = n
               /\ AnswerWithValues(n, <<p>>, sender)
               /\ Cardinality(DOMAIN infoHashes) < MaxInfoHash
               /\ Len(IH!PeersOf(IH!Store, h)) < MaxPeer)
                  => p \in Range(infoHashes'[h])]_dnVars

=============================================================================
