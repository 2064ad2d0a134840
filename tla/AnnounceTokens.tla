------------------------------ MODULE AnnounceTokens ------------------------------
(***************************************************************************)
(* InfoHashManager with the token's whole way: it is handed out in answers *)
(* to get_peers and comes back in announcements.  An announcement carries  *)
(* its own transcation id and the token it was given; the handler looks    *)
(* at the transcation id only.                                             *)
(***************************************************************************)
EXTENDS InfoHashManager

VARIABLES
    handedOut,  \* <<info hash, token>> of every answer to get_peers with peers
    brought     \* the token that the last announcement brought along, if any

atVars == <<ihVars, handedOut, brought>>

AtInit == IhInit /\ handedOut = {} /\ brought = NoReply

\* handleGetPeersQueryRequest for an info hash with peers: responseGetPeers sends
\* its token along.
GetPeers(infoHash) ==
    /\ infoHash \in DOMAIN infoHashes
    /\ handedOut' = handedOut \cup {<<infoHash, tokenMap[infoHash]>>}
    /\ brought' = NoReply
    /\ reply' = NoReply
    /\ UNCHANGED <<infoHashes, tokenMap>>

\* An announcement with the transcation id tid and the token.
AnnounceWith(infoHash, port, impliedPort, tid, from, token) ==
    /\ AnnouncePeer(infoHash, port, impliedPort, tid, from)
    /\ brought' = token
    /\ UNCHANGED handedOut

AtNext ==
    \/ IhNext /\ brought' = NoReply /\ UNCHANGED handedOut
    \/ \E infoHash \in InfoHashes : GetPeers(infoHash)
    \/ \E infoHash \in InfoHashes, port \in Ports \cup {NoPort}, impliedPort \in BOOLEAN,
          tid \in Tids, from \in Peer, token \in Tids :
          AnnounceWith(infoHash, port, impliedPort, tid, from, token)

AtSpec == AtInit /\ [][AtNext]_atVars

\* request_handler.ts:152 calls what it tests the "token of the info hash", and
\* message_factory.ts:19 has a field for the token: an announcement that brings back
\* the token handed out for the info hash, and still its token, matches.  The
\* handler tests the transcation id in its place.
EchoedTokenAccepted ==
    (reply # NoReply /\ reply.kind = "token not match")
        => \/ <<reply.infoHash, brought>> \notin handedOut
           \/ HasOtherToken(tokenMap, reply.infoHash, brought)

=============================================================================
