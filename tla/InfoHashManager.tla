----------------------------- MODULE InfoHashManager -----------------------------
(***************************************************************************)
(* The class InfoHashManager of src/info_hash_manager.ts, with the two     *)
(* handlers that fill it: peers learnt from answers to get_peers (response *)
(* handler) and peers that announce themselves (request handler).  Every   *)
(* info hash has the token of the first peer stored for it, and takes no   *)
(* peer that comes with another one.                                       *)
(*                                                                         *)
(* A Set<Peer> compares objects, and every message makes its own, so the   *)
(* peers of an info hash are a sequence, in which a peer may come twice.   *)
(* The two Maps are functions on the info hashes they hold.                *)
(*                                                                         *)
(* An announcement is answered at once; "reply" is the answer that the     *)
(* last step sent, with the peer it acknowledges, and NoReply when the     *)
(* step sent none.  An announcement without a valid info hash, or without  *)
(* a transcation id, is refused like one without a port and left out.      *)
(***************************************************************************)
EXTENDS Naturals, Sequences, FiniteSets

CONSTANTS
    InfoHashes,   \* the valid info hashes
    Addrs,        \* the addresses of remote nodes
    Ports,        \* the ports a packet comes from or a peer announces
    Tids,         \* the transcation ids in messages, ours and others'
    MaxInfoHash,  \* #MAX_INFO_HASH_NUM
    MaxPeer,      \* #MAX_PEER_NUM_EACH_INFO_HASH
    MaxValues,    \* bound on the peers in one answer
    NoPort,       \* a port that is missing or zero
    NoReply       \* no announcement was answered

ASSUME LimitAssumption ==
    MaxInfoHash \in Nat \ {0} /\ MaxPeer \in Nat \ {0} /\ MaxValues \in Nat \ {0}

ASSUME NoPortAssumption == NoPort \notin Ports

VARIABLES
    infoHashes,  \* #infoHashes
    tokenMap,    \* #tokenMap
    reply        \* the answer to an announcement

ihVars == <<infoHashes, tokenMap, reply>>

Peer == [addr : Addrs, port : Ports]

Reply ==
    [kind : {"invalid port", "token not match"}, infoHash : InfoHashes, tid : Tids]
        \cup [kind : {"acknowledged"}, infoHash : InfoHashes, tid : Tids, peer : Peer]

\* The peers of an info hash in the store st, and the map m with v at k.
PeersOf(st, infoHash) ==
    IF infoHash \in DOMAIN st.infoHashes THEN st.infoHashes[infoHash] ELSE <<>>

SetAt(m, k, v) == [x \in DOMAIN m \cup {k} |-> IF x = k THEN v ELSE m[x]]

HasOtherToken(tokens, infoHash, token) ==
    infoHash \in DOMAIN tokens /\ tokens[infoHash] # token

-----------------------------------------------------------------------------
(* add and addList.                                                        *)

\* Mutant of Accepts: the limit on peers is off by one.
AcceptsOneMore(st, infoHash, token) ==
    /\ Cardinality(DOMAIN st.infoHashes) < MaxInfoHash
    /\ ~ HasOtherToken(st.tokenMap, infoHash, token)
    /\ Len(PeersOf(st, infoHash)) <= MaxPeer

\* The tests at the head of add.
Accepts(st, infoHash, token) ==
    /\ Cardinality(DOMAIN st.infoHashes) < MaxInfoHash
    /\ ~ HasOtherToken(st.tokenMap, infoHash, token)
    /\ Len(PeersOf(st, infoHash)) < MaxPeer

\* The token of an info hash is set once.
WithToken(tokens, infoHash, token) ==
    IF infoHash \in DOMAIN tokens THEN tokens ELSE SetAt(tokens, infoHash, token)

\* Mutants of Added: the token is set before the tests, and every peer gets a new set.
AddedTokenFirst(st, infoHash, peer, token) ==
    [infoHashes |-> IF ~ Accepts(st, infoHash, token) THEN st.infoHashes
                    ELSE SetAt(st.infoHashes, infoHash, Append(PeersOf(st, infoHash), peer)),
     tokenMap |-> WithToken(st.tokenMap, infoHash, token)]

AddedToNewSet(st, infoHash, peer, token) ==
    IF ~ Accepts(st, infoHash, token) THEN st
    ELSE [infoHashes |-> SetAt(st.infoHashes, infoHash, <<peer>>),
          tokenMap |-> WithToken(st.tokenMap, infoHash, token)]

\* add.
Added(st, infoHash, peer, token) ==
    IF ~ Accepts(st, infoHash, token) THEN st
    ELSE [infoHashes |->
              SetAt(st.infoHashes, infoHash, Append(PeersOf(st, infoHash), peer)),
          tokenMap |-> WithToken(st.tokenMap, infoHash, token)]

\* addList: add for one peer after the other.
AddedList(st, infoHash, peers, token) ==
    LET upTo[k \in 0 .. Len(peers)] ==
            IF k = 0 THEN st ELSE Added(upTo[k - 1], infoHash, peers[k], token)
    IN  upTo[Len(peers)]

\* The two Maps become those of st.
StoreBecomes(st) == infoHashes' = st.infoHashes /\ tokenMap' = st.tokenMap

Store == [infoHashes |-> infoHashes, tokenMap |-> tokenMap]

-----------------------------------------------------------------------------
IhInit == infoHashes = <<>> /\ tokenMap = <<>> /\ reply = NoReply

\* handleGetPeersResponse, for an answer with peers.  What it calls the token is
\* the transcation id of its own query (response.t).
StoreValues(infoHash, peers, tid) ==
    StoreBecomes(AddedList(Store, infoHash, peers, tid)) /\ reply' = NoReply

Refuse(kind, infoHash, tid) ==
    /\ reply' = [kind |-> kind, infoHash |-> infoHash, tid |-> tid]
    /\ UNCHANGED <<infoHashes, tokenMap>>

\* add and the answer, which does not depend on what add does.
AddAndAcknowledge(infoHash, peer, tid) ==
    /\ StoreBecomes(Added(Store, infoHash, peer, tid))
    /\ reply' = [kind |-> "acknowledged", infoHash |-> infoHash, tid |-> tid, peer |-> peer]

\* The peer announced: implied_port stands for the port that the query came from.
Announced(port, impliedPort, from) ==
    [addr |-> from.addr, port |-> IF impliedPort THEN from.port ELSE port]

\* Mutant of AnnouncePeer: the token is left to add to test.
AnnouncePeerUntested(infoHash, port, impliedPort, tid, from) ==
    \/ port = NoPort /\ Refuse("invalid port", infoHash, tid)
    \/ port # NoPort /\ AddAndAcknowledge(infoHash, Announced(port, impliedPort, from), tid)

\* handleAnnouncePeerQueryRequest.  What it calls the token is the transcation id
\* of the sender's query (reqMsg.t).
AnnouncePeer(infoHash, port, impliedPort, tid, from) ==
    \/ port = NoPort /\ Refuse("invalid port", infoHash, tid)
    \/ /\ port # NoPort
       /\ HasOtherToken(tokenMap, infoHash, tid)
       /\ Refuse("token not match", infoHash, tid)
    \/ /\ port # NoPort
       /\ ~ HasOtherToken(tokenMap, infoHash, tid)
       /\ AddAndAcknowledge(infoHash, Announced(port, impliedPort, from), tid)

\* remove of an info hash of the store; it does nothing for others.
Remove(infoHash) ==
    /\ infoHash \in DOMAIN infoHashes
    /\ infoHashes' = [x \in DOMAIN infoHashes \ {infoHash} |-> infoHashes[x]]
    /\ tokenMap' = [x \in DOMAIN tokenMap \ {infoHash} |-> tokenMap[x]]
    /\ reply' = NoReply

Announces ==
    \E infoHash \in InfoHashes, port \in Ports \cup {NoPort}, impliedPort \in BOOLEAN,
       tid \in Tids, from \in Peer :
        AnnouncePeer(infoHash, port, impliedPort, tid, from)

IhNext ==
    \/ \E infoHash \in InfoHashes, len \in 1 .. MaxValues, tid \in Tids :
          \E peers \in [1 .. len -> Peer] : StoreValues(infoHash, peers, tid)
    \/ Announces
    \/ \E infoHash \in InfoHashes : Remove(infoHash)

IhSpec == IhInit /\ [][IhNext]_ihVars

-----------------------------------------------------------------------------
(* Properties.                                                             *)

\* The types, and the limits that the sizes of the two Maps may not pass.
IhTypeOK ==
    /\ DOMAIN infoHashes \subseteq InfoHashes
    /\ Cardinality(DOMAIN infoHashes) <= MaxInfoHash
    /\ \A h \in DOMAIN infoHashes :
          infoHashes[h] \in Seq(Peer) /\ Len(infoHashes[h]) <= MaxPeer
    /\ \A h \in DOMAIN tokenMap : tokenMap[h] \in Tids
    /\ reply \in Reply \cup {NoReply}

\* Two Maps filled and emptied by separate calls agree: an info hash has a token
\* as long as it has peers, and it has one peer at least.  So main.ts, which stops
\* asking when find returns a list, does not stop for an empty one, and an info
\* hash removed and stored again starts with a token of its own.
StoresAgree ==
    /\ DOMAIN tokenMap = DOMAIN infoHashes
    /\ \A h \in DOMAIN infoHashes : infoHashes[h] # <<>>

\* However answers and announcements mix, the peers and the token of an info hash
\* stay what they are until it is removed: others only join at the end.
TokenStays ==
    [][\A h \in DOMAIN infoHashes \cap DOMAIN infoHashes' :
          /\ tokenMap'[h] = tokenMap[h]
          /\ \E n \in 0 .. Len(infoHashes'[h]) :
                SubSeq(infoHashes'[h], 1, n) = infoHashes[h]]_ihVars

\* Two tests of the token, the handler's and add's, come to the same: a peer that was
\* acknowledged has just been stored, under its token, unless one of the two limits kept
\* it out; and even then its token is that of the info hash, if this has one.
AcknowledgedUnlessFull ==
    (reply # NoReply /\ reply.kind = "acknowledged")
        => LET peers == PeersOf(Store, reply.infoHash)
           IN  /\ ~ HasOtherToken(tokenMap, reply.infoHash, reply.tid)
               /\ \/ /\ reply.infoHash \in DOMAIN tokenMap
                     /\ Len(peers) > 0 /\ peers[Len(peers)] = reply.peer
                  \/ Cardinality(DOMAIN infoHashes) = MaxInfoHash
                  \/ Len(peers) = MaxPeer

=============================================================================
