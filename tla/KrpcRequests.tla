------------------------------ MODULE KrpcRequests ------------------------------
(***************************************************************************)
(* Queries and their answers: the send methods of src/krpc/krpc.ts and the *)
(* response handler, on top of TranscationManager.  A query carries        *)
(* nothing but its tid to recognise the answer by, and travels by UDP: an  *)
(* answer to a query may come at any time after it, any number of times,   *)
(* in any order, or never.  So the network keeps every query ever sent,    *)
(* numbered by its place in "requests", and an answer is the number of     *)
(* the query it answers.                                                   *)
(*                                                                         *)
(* A packet is handled to its first await before anything else runs.  The  *)
(* handler of an answered get_peers then runs on, one query at a time,     *)
(* between other packets and timers.                                       *)
(***************************************************************************)
EXTENDS TranscationManager

CONSTANTS
    Lookups,     \* the requests in Data of type get_peers
    MaxNodes,    \* bound on the nodes in an answer to get_peers
    MaxQueries   \* bound on the queries sent, for model checking

ASSUME LookupsAssumption == Lookups \subseteq Data /\ MaxNodes \in Nat /\ MaxQueries \in Nat

VARIABLE requests  \* every query sent, with what became of it

krVars == <<tidPool, transcations, now, requests>>

Request == [tid     : Tids,
            data    : Data,
            answers : Seq(Nat),        \* the answers dispatched as answers to it
            left    : 0 .. MaxNodes]   \* nodes its handler has still to query

\* The query a borrowed tid was lent for: the last one with that tid.
Holder(tid) ==
    CHOOSE n \in DOMAIN requests :
        /\ requests[n].tid = tid
        /\ \A m \in DOMAIN requests : requests[m].tid = tid => m <= n

\* getData of a valid tid.
Attached(tid) ==
    transcations[CHOOSE i \in DOMAIN transcations : transcations[i].tid = tid].data

\* The log of queries after one more.
Logged(log, tid, data) ==
    Append(log, [tid |-> tid, data |-> data, answers |-> <<>>, left |-> 0])

\* create and the message that goes out with the new tid, starting from the
\* manager's state st and the log.
SendFrom(st, log, data) ==
    \E lent \in {Lend(st, data)} :
        /\ Len(log) < MaxQueries
        /\ tidPool' = lent.pool
        /\ transcations' = lent.map
        /\ requests' = Logged(log, lent.tid, data)

-----------------------------------------------------------------------------
KrInit == Init /\ requests = <<>>

\* sendPing, sendFindNode, sendGetPeers and sendAnnouncePeerRequest, from a timer.
SendQuery(data) == SendFrom(Current, requests, data) /\ UNCHANGED now

\* Mutant of HandleResponse: the transcation is not finished.
HandleResponseUnfinished(n, nodes) ==
    LET tid == requests[n].tid
        h   == Holder(tid)
        log == [requests EXCEPT ![h].answers = Append(@, n)]
    IN  /\ IsValid(tid)
        /\ nodes = 0
        /\ requests' = log
        /\ UNCHANGED <<tidPool, transcations, now>>

\* An answer to query n with a valid node id: it is dropped unless its tid is
\* valid, and else dispatched as the answer to the query that holds the tid now.
\* An answer to get_peers that brings nodes has the first one queried at once.
HandleResponse(n, nodes) ==
    LET tid  == requests[n].tid
        h    == Holder(tid)
        data == Attached(tid)
        log  == [requests EXCEPT ![h].answers = Append(@, n)]
    IN  /\ IsValid(tid)
        /\ nodes > 0 => data \in Lookups
        /\ \E done \in {Returned(Current, tid)} :
              IF nodes = 0
              THEN /\ tidPool' = done.pool
                   /\ transcations' = done.map
                   /\ requests' = log
              ELSE SendFrom(done, [log EXCEPT ![h].left = nodes - 1], data)
        /\ UNCHANGED now

\* Mutant of ContinueLookup: the loop runs once more than it has nodes.
ContinueLookupOnce(n) ==
    /\ Len(requests[n].answers) > 0
    /\ requests[n].data \in Lookups
    /\ SendFrom(Current, [requests EXCEPT ![n].left = @ - 1], requests[n].data)
    /\ UNCHANGED now

\* The loop of handleGetPeersResponse for query n, resumed after its last await.
ContinueLookup(n) ==
    /\ requests[n].left > 0
    /\ SendFrom(Current, [requests EXCEPT ![n].left = @ - 1], requests[n].data)
    /\ UNCHANGED now

Elapse == Tick /\ UNCHANGED requests

KrNext ==
    \/ \E data \in Data : SendQuery(data)
    \/ \E n \in DOMAIN requests, nodes \in 0 .. MaxNodes : HandleResponse(n, nodes)
    \/ \E n \in DOMAIN requests : ContinueLookup(n)
    \/ Elapse

KrSpec == KrInit /\ [][KrNext]_krVars

-----------------------------------------------------------------------------
(* Properties.                                                             *)

\* The types: above all, a handler never has fewer than no nodes left to query.
KrTypeOK ==
    /\ TypeOK
    /\ requests \in Seq(Request)

\* However often an answer is repeated, and however many queries had the tid, no
\* query is answered twice: finish comes before the dispatch (response handler).
AtMostOneAnswer == \A n \in DOMAIN requests : Len(requests[n].answers) <= 1

\* The Map and the queries agree: the entries are, in order, the queries sent
\* last with their tids, none of them answered, each with its own request.  So an
\* answer is always dispatched by the type of the query it is taken for.
EntriesAreOpenQueries ==
    /\ \A i \in DOMAIN transcations :
          LET n == Holder(transcations[i].tid)
          IN  requests[n].data = transcations[i].data /\ requests[n].answers = <<>>
    /\ \A i, j \in DOMAIN transcations :
          i < j => Holder(transcations[i].tid) < Holder(transcations[j].tid)

\* The pool is a queue, so a tid rests while at least as many others are lent as
\* the pool holds when #ID_COUNT_MAX are out.  A late answer, which nothing but
\* the tid tells from a good one, is taken for another query only after that.
LateAnswerQuarantined ==
    \A n \in DOMAIN requests : \A k \in DOMAIN requests[n].answers :
        LET m == requests[n].answers[k]
        IN  m = n \/ n - m > Len(ShuffledPool) - IdCountMax

\* What became of every query: it was answered, its tid is still lent for it, or
\* the manager has taken the tid away.
Fate ==
    [n \in DOMAIN requests |->
        IF requests[n].answers # <<>> THEN "answered"
        ELSE IF requests[n].tid \in Borrowed /\ Holder(requests[n].tid) = n THEN "waiting"
        ELSE "dropped"]

\* The transaction layer keeps the promises of RequestLedger.
Ledger == INSTANCE RequestLedger WITH Limit <- IdCountMax, status <- Fate

ImplementsLedger == Ledger!Spec

=============================================================================
