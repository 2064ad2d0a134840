----------------------------- MODULE DhtNode_proofs -----------------------------
(***************************************************************************)
(* Proofs about the node.  Its handlers use the parts in steps of theirs,  *)
(* so what is proved of a part alone holds in the node; what a part was    *)
(* proved to do is cited from the module of its proofs, under a name of    *)
(* this one.                                                               *)
(***************************************************************************)
EXTENDS DhtNode, KrpcRequests_proofs

RTP == INSTANCE RoutingTable_proofs WITH MaxFound <- MaxNodes

IHP == INSTANCE InfoHashManager_proofs
          WITH InfoHashes <- Lookups, Ports <- Lookups, Tids <- Tids \cup OtherTids

-----------------------------------------------------------------------------
(* What the parts assume of their parameters.                              *)

\* The assumption of IdSpace.
LEMMA BitsGiven == Bits \in Nat \ {0}
BY PartsAssumption

\* The assumption of RoutingTable.
LEMMA SizesGiven ==
    /\ Capacity \in Nat \ {0} /\ Closest \in Nat
    /\ MaxNodes \in Nat /\ MaxMade \in Nat
BY PartsAssumption, LookupsAssumption

\* The assumptions of InfoHashManager.
LEMMA LimitsGiven == MaxInfoHash \in Nat \ {0} /\ MaxPeer \in Nat \ {0} /\ MaxValues \in Nat \ {0}
BY PartsAssumption

\* The other assumption of InfoHashManager: the missing port is no port a lookup carries.
LEMMA PortGiven == NoPort \notin Lookups
BY PartsAssumption

-----------------------------------------------------------------------------
(* What a step does to the log of queries.                                 *)

\* Queries stay, and so does the answer of one that has it.
Keeps(log, new) ==
    \A n \in DOMAIN log :
        /\ n \in DOMAIN new
        /\ new[n].tid = log[n].tid /\ new[n].data = log[n].data
        /\ log[n].answers # <<>> => new[n].answers = log[n].answers

\* No handler has nodes left to query that had none, but those of the queries in S.
NoneLeftBut(S, log, new) ==
    \A n \in DOMAIN new : new[n].left > 0 => n \in S \/ (n \in DOMAIN log /\ log[n].left > 0)

\* A query more changes none of those before it, and has no handler.
LEMMA SendFromAppends ==
    ASSUME NEW st, NEW log, Fits(st, log), NEW data \in Data, SendFrom(st, log, data)
    PROVE  /\ \A n \in DOMAIN log : n \in DOMAIN requests' /\ requests'[n] = log[n]
           /\ \A n \in DOMAIN requests' : n \in DOMAIN log \/ requests'[n].left = 0
<1> DEFINE tid == Lend(st, data).tid
<1>1. requests' = Logged(log, tid, data)
  BY DEF SendFrom
<1>2. tid \in Tids /\ log \in Seq(Request)
  BY LendShape DEF Fits
<1> HIDE DEF tid
<1>3. /\ Len(log) \in Nat
      /\ DOMAIN log = 1 .. Len(log) /\ DOMAIN requests' = 1 .. Len(log) + 1
      /\ \A n \in 1 .. Len(log) : requests'[n] = log[n]
      /\ requests'[Len(log) + 1] = [tid |-> tid, data |-> data, answers |-> <<>>, left |-> 0]
  BY <1>1, <1>2, LoggedShape
<1> QED BY <1>3

\* A query from a timer.
LEMMA SendQueryKeeps ==
    ASSUME KrInv, NEW data \in Data, SendQuery(data)
    PROVE  Keeps(requests, requests') /\ NoneLeftBut({}, requests, requests')
<1>1. Fits(Current, requests) /\ SendFrom(Current, requests, data)
  BY DEF KrInv, SendQuery
<1>2. /\ \A n \in DOMAIN requests : n \in DOMAIN requests' /\ requests'[n] = requests[n]
      /\ \A n \in DOMAIN requests' : n \in DOMAIN requests \/ requests'[n].left = 0
  BY <1>1, SendFromAppends
<1> QED BY <1>2 DEF Keeps, NoneLeftBut

\* An answer gives the query that holds the tid its answer, and a handler if it
\* brought nodes.
LEMMA ResponseKeeps ==
    ASSUME KrInv, NEW n \in DOMAIN requests, NEW nodes \in 0 .. MaxNodes, HandleResponse(n, nodes)
    PROVE  LET h == Holder(requests[n].tid) IN
           /\ h \in DOMAIN requests /\ n <= h
           /\ requests[h].tid = requests[n].tid /\ requests[h].data = TakenFor(n)
           /\ requests[h].answers = <<>> /\ requests'[h].answers = <<n>>
           /\ Keeps(requests, requests')
           /\ NoneLeftBut(IF nodes = 0 THEN {} ELSE {h}, requests, requests')
<1> DEFINE tid  == requests[n].tid
           h    == Holder(tid)
           log  == [requests EXCEPT ![h].answers = Append(@, n)]
           done == Returned(Current, tid)
<1>1. IsValid(tid)
  BY DEF HandleResponse
<1>2. /\ h \in DOMAIN requests /\ requests[h].tid = tid /\ Latest(requests, h)
      /\ requests[h].answers = <<>> /\ requests[h].data = Attached(tid)
      /\ requests[h].data \in Data
      /\ EntersAnswer(requests, log, h, n) /\ Fits(done, log)
  BY <1>1, ResponseFits
<1>3. n <= h
  BY <1>2 DEF Latest
<1>4. \A k \in DOMAIN requests : log[k].left = requests[k].left
  BY <1>2, KrInvFacts DEF Request
<1> HIDE DEF log, h, done
<1>5. /\ log \in Seq(Request) /\ DOMAIN log = DOMAIN requests /\ log[h].answers = <<n>>
      /\ \A k \in DOMAIN log : /\ log[k].tid = requests[k].tid /\ log[k].data = requests[k].data
                               /\ k # h => log[k].answers = requests[k].answers
  BY <1>2 DEF EntersAnswer, SameQueries
<1>6. CASE nodes = 0
  <2>1. requests' = log
    BY <1>6 DEF HandleResponse, log, h
  <2> QED BY <1>2, <1>3, <1>4, <1>5, <1>6, <2>1 DEF Keeps, NoneLeftBut, TakenFor, h
<1>7. CASE nodes # 0
  <2> DEFINE left == [log EXCEPT ![h].left = nodes - 1]
  <2>1. SendFrom(done, left, Attached(tid))
    BY <1>7 DEF HandleResponse, log, h, done
  <2>2. nodes - 1 \in 0 .. MaxNodes /\ log \in Seq(Request) /\ h \in DOMAIN log
    BY <1>2, <1>5, <1>7, LookupsAssumption
  <2>3. SameQueries(log, left) /\ \A k \in DOMAIN log : left[k].answers = log[k].answers
    BY <2>2, LeftSet
  <2>4. \A k \in DOMAIN log : k # h => left[k].left = log[k].left
    OBVIOUS
  <2> HIDE DEF left
  <2>5. Fits(done, left) /\ Attached(tid) \in Data
    BY <1>2, <2>3, LeftFits
  <2> HIDE DEF tid
  <2>6. /\ \A k \in DOMAIN left : k \in DOMAIN requests' /\ requests'[k] = left[k]
        /\ \A k \in DOMAIN requests' : k \in DOMAIN left \/ requests'[k].left = 0
    BY <2>1, <2>5, SendFromAppends
  <2>7. /\ DOMAIN left = DOMAIN log
        /\ \A k \in DOMAIN log : left[k].tid = log[k].tid /\ left[k].data = log[k].data
    BY <2>3 DEF SameQueries
  <2>8. Keeps(requests, requests')
    BY <1>2, <1>5, <2>3, <2>6, <2>7 DEF Keeps
  <2>9. NoneLeftBut({h}, requests, requests')
    BY <1>4, <1>5, <2>4, <2>6, <2>7 DEF NoneLeftBut
  <2>10. requests'[h].answers = <<n>>
    BY <1>2, <1>5, <2>3, <2>6, <2>7
  <2> QED BY <1>2, <1>3, <1>7, <2>8, <2>9, <2>10 DEF TakenFor, tid, h
<1> QED BY <1>6, <1>7

\* A handler that goes on has one node less to query.
LEMMA ContinueKeeps ==
    ASSUME KrInv, NEW n \in DOMAIN requests, ContinueLookup(n)
    PROVE  Keeps(requests, requests') /\ NoneLeftBut({}, requests, requests')
<1> DEFINE left == [requests EXCEPT ![n].left = requests[n].left - 1]
<1>1. requests \in Seq(Request) /\ Fits(Current, requests) /\ requests[n] \in Request
  BY KrInvFacts DEF KrInv
<1>2. requests[n].left > 0 /\ SendFrom(Current, left, requests[n].data)
  BY DEF ContinueLookup
<1>3. requests[n].left - 1 \in 0 .. MaxNodes /\ requests[n].data \in Data
  BY <1>1, <1>2, LookupsAssumption DEF Request
<1>4. /\ SameQueries(requests, left)
      /\ \A k \in DOMAIN requests : left[k].answers = requests[k].answers
  BY <1>1, <1>3, LeftSet
<1>5. \A k \in DOMAIN requests : left[k].left > 0 => requests[k].left > 0
  BY <1>2
<1> HIDE DEF left
<1>6. Fits(Current, left)
  BY <1>1, <1>4, LeftFits
<1>7. /\ \A k \in DOMAIN left : k \in DOMAIN requests' /\ requests'[k] = left[k]
      /\ \A k \in DOMAIN requests' : k \in DOMAIN left \/ requests'[k].left = 0
  BY <1>2, <1>3, <1>6, SendFromAppends
<1>8. /\ DOMAIN left = DOMAIN requests
      /\ \A k \in DOMAIN requests : left[k].tid = requests[k].tid /\ left[k].data = requests[k].data
  BY <1>4 DEF SameQueries
<1> QED BY <1>4, <1>5, <1>7, <1>8 DEF Keeps, NoneLeftBut

-----------------------------------------------------------------------------
(* The handlers of get_peers answers.                                      *)

\* A suspended handler is that of an answered query, no two are of the same one, and
\* the nodes left to query are those of suspended handlers.
HandlersFit ==
    /\ \A s \in suspended :
          /\ s.query \in DOMAIN requests /\ requests[s.query].answers # <<>>
          /\ s.sender \in RT!Contact
    /\ \A n \in DOMAIN requests : requests[n].left > 0 => \E s \in suspended : s.query = n
    /\ \A r, s \in suspended : r.query = s.query => r = s

\* The inductive invariant of the node, besides those of its parts.
DnInv == KrInv /\ HandlersFit

\* A step leaves every part alone or is a step of it.
PartsStep ==
    /\ UNCHANGED krVars \/ KrNext
    /\ UNCHANGED rtVars \/ RT!RtNext
    /\ UNCHANGED ihVars \/ IH!IhNext

\* A step that suspends no handler and ends none.
LEMMA HandlersStay ==
    ASSUME HandlersFit, Keeps(requests, requests'), NoneLeftBut({}, requests, requests'),
           UNCHANGED suspended
    PROVE  HandlersFit'
BY DEF HandlersFit, Keeps, NoneLeftBut

\* A contact added alone is the sender of an answer that names none.
LEMMA AddIsRtStep ==
    ASSUME NEW sender \in RT!Contact, RT!Add(sender)
    PROVE  RT!RtNext
<1>1. Append(<<>>, sender) = <<sender>>
  OBVIOUS
<1>2. RT!AddFound(<<>>, sender)
  BY <1>1 DEF RT!Add, RT!AddFound
<1>3. 0 \in 0 .. MaxNodes /\ <<>> \in [1 .. 0 -> RT!Contact]
  BY LookupsAssumption
<1> QED BY <1>2, <1>3 DEF RT!RtNext

\* A query of a timer: a ping or find_node, or one of a lookup.
LEMMA QueryStep ==
    ASSUME DnInv, NEW data \in Data, SendQuery(data), UNCHANGED <<rtVars, ihVars, suspended>>
    PROVE  PartsStep /\ DnInv'
<1>1. KrNext
  BY DEF KrNext
<1>2. KrInv'
  BY <1>1, KrInvInductive DEF DnInv
<1>3. HandlersFit'
  BY SendQueryKeeps, HandlersStay DEF DnInv
<1> QED BY <1>1, <1>2, <1>3 DEF PartsStep, DnInv

\* An answer that suspends no handler.
LEMMA PlainAnswerStep ==
    ASSUME DnInv, NEW n \in DOMAIN requests, HandleResponse(n, 0), UNCHANGED suspended
    PROVE  KrNext /\ DnInv'
<1>1. 0 \in 0 .. MaxNodes
  BY LookupsAssumption
<1>2. KrNext
  BY <1>1 DEF KrNext
<1>3. KrInv'
  BY <1>2, KrInvInductive DEF DnInv
<1>4. Keeps(requests, requests') /\ NoneLeftBut({}, requests, requests')
  BY <1>1, ResponseKeeps DEF DnInv
<1>5. HandlersFit'
  BY <1>4, HandlersStay DEF DnInv
<1> QED BY <1>2, <1>3, <1>5 DEF DnInv

\* An answer with nodes, the first of which is queried at once.
LEMMA AnswerWithNodesStep ==
    ASSUME DnInv, NEW n \in DOMAIN requests, NEW count \in 0 .. MaxNodes, NEW sender \in Remote,
           AnswerWithNodes(n, count, sender)
    PROVE  PartsStep /\ DnInv'
<1>1. sender \in RT!Contact
  BY DEF Remote
<1>2. HandleResponse(n, count) /\ UNCHANGED ihVars
  BY DEF AnswerWithNodes
<1>3. CASE count = 0
  <2>1. RT!Add(sender) /\ UNCHANGED suspended
    BY <1>3 DEF AnswerWithNodes
  <2>2. RT!RtNext
    BY <1>1, <2>1, AddIsRtStep
  <2>3. KrNext /\ DnInv'
    BY <1>2, <1>3, <2>1, PlainAnswerStep
  <2> QED BY <1>2, <2>2, <2>3 DEF PartsStep
<1>4. CASE count # 0
  <2> DEFINE h == Holder(requests[n].tid)
             new == [query |-> h, sender |-> sender]
  <2>1. suspended' = suspended \cup {new} /\ UNCHANGED rtVars
    BY <1>4 DEF AnswerWithNodes
  <2>2. KrNext
    BY <1>2 DEF KrNext
  <2>3. KrInv'
    BY <2>2, KrInvInductive DEF DnInv
  <2>4. /\ h \in DOMAIN requests /\ requests[h].answers = <<>> /\ requests'[h].answers = <<n>>
        /\ Keeps(requests, requests') /\ NoneLeftBut({h}, requests, requests')
    BY <1>2, <1>4, ResponseKeeps DEF DnInv
  <2> HIDE DEF h
  <2>5. new.query = h /\ new.sender \in RT!Contact
    BY <1>1
  <2>6. \A s \in suspended : s.query # h
    BY <2>4 DEF DnInv, HandlersFit
  <2> HIDE DEF new
  <2>7. ASSUME NEW s \in suspended'
        PROVE  /\ s.query \in DOMAIN requests' /\ requests'[s.query].answers # <<>>
               /\ s.sender \in RT!Contact
    <3>1. CASE s = new
      <4>1. <<n>> # <<>>
        OBVIOUS
      <4> QED BY <2>4, <2>5, <3>1, <4>1 DEF Keeps
    <3>2. CASE s \in suspended
      BY <2>4, <3>2 DEF DnInv, HandlersFit, Keeps
    <3> QED BY <2>1, <3>1, <3>2
  <2>8. ASSUME NEW k \in DOMAIN requests', requests'[k].left > 0
        PROVE  \E s \in suspended' : s.query = k
    BY <2>1, <2>4, <2>5, <2>8 DEF DnInv, HandlersFit, NoneLeftBut
  <2>9. \A r, s \in suspended' : r.query = s.query => r = s
    BY <2>1, <2>5, <2>6 DEF DnInv, HandlersFit
  <2>10. HandlersFit'
    BY <2>7, <2>8, <2>9 DEF HandlersFit, RT!Contact, RT!Ids, RT!Pow2
  <2> QED BY <1>2, <2>1, <2>2, <2>3, <2>10 DEF PartsStep, DnInv
<1> QED BY <1>3, <1>4

\* A suspended handler resumed.
LEMMA ResumeHandlerStep ==
    ASSUME DnInv, NEW s \in suspended, ResumeHandler(s)
    PROVE  PartsStep /\ DnInv'
<1>1. s.query \in DOMAIN requests /\ s.sender \in RT!Contact
  BY DEF DnInv, HandlersFit
<1>2. CASE ContinueLookup(s.query) /\ UNCHANGED Others
  <2>1. KrNext
    BY <1>1, <1>2 DEF KrNext
  <2>2. KrInv'
    BY <2>1, KrInvInductive DEF DnInv
  <2>3. UNCHANGED <<rtVars, ihVars, suspended>>
    BY <1>2 DEF Others
  <2>4. HandlersFit'
    BY <1>1, <1>2, <2>3, ContinueKeeps, HandlersStay DEF DnInv
  <2> QED BY <2>1, <2>2, <2>3, <2>4 DEF PartsStep, DnInv
<1>3. CASE /\ requests[s.query].left = 0
           /\ RT!Add(s.sender)
           /\ suspended' = suspended \ {s}
           /\ UNCHANGED <<krVars, ihVars, asking>>
  <2>1. RT!RtNext
    BY <1>1, <1>3, AddIsRtStep
  <2>2. KrInv'
    BY <1>3, KrInvInductive DEF DnInv
  <2>3. HandlersFit'
    BY <1>3 DEF DnInv, HandlersFit, krVars, RT!Contact, RT!Ids, RT!Pow2
  <2> QED BY <1>3, <2>1, <2>2, <2>3 DEF PartsStep, DnInv
<1> QED BY <1>2, <1>3 DEF ResumeHandler

\* An answer with peers, of the P that the answering node can send.
LEMMA AnswerWithValuesStep ==
    ASSUME DnInv, NEW n \in DOMAIN requests, NEW count \in 1 .. MaxValues,
           NEW peers \in [1 .. count -> IH!Peer], NEW sender \in Remote,
           AnswerWithValues(n, peers, sender)
    PROVE  PartsStep /\ DnInv'
<1>1. /\ HandleResponse(n, 0) /\ TakenFor(n) \in Lookups
      /\ IH!StoreValues(TakenFor(n), peers, requests[n].tid)
      /\ RT!Add(sender) /\ UNCHANGED suspended
  BY DEF AnswerWithValues
<1>2. requests[n].tid \in Tids \cup OtherTids /\ sender \in RT!Contact
  BY KrInvFacts DEF DnInv, Request, Remote
<1>3. RT!RtNext
  BY <1>1, <1>2, AddIsRtStep
<1>4. IH!IhNext
  BY <1>1, <1>2 DEF IH!IhNext
<1>5. KrNext /\ DnInv'
  BY <1>1, PlainAnswerStep
<1> QED BY <1>3, <1>4, <1>5 DEF PartsStep

\* An answer to another request, with the nodes it brought.
LEMMA AnswerToOtherStep ==
    ASSUME DnInv, NEW n \in DOMAIN requests, NEW count \in 0 .. MaxNodes,
           NEW contacts \in [1 .. count -> RT!Contact], NEW sender \in Remote,
           AnswerToOther(n, contacts, sender)
    PROVE  PartsStep /\ DnInv'
<1>1. HandleResponse(n, 0) /\ RT!AddFound(contacts, sender) /\ UNCHANGED <<ihVars, suspended>>
  BY DEF AnswerToOther
<1>2. sender \in RT!Contact
  BY DEF Remote
<1>3. RT!RtNext
  BY <1>1, <1>2 DEF RT!RtNext
<1>4. KrNext /\ DnInv'
  BY <1>1, PlainAnswerStep
<1> QED BY <1>1, <1>3, <1>4 DEF PartsStep

\* The announcements that other nodes send.
Announcements ==
    \E h \in Lookups, impliedPort \in BOOLEAN, tid \in OtherTids, from \in IH!Peer :
        \E port \in {h, NoPort} : Announcement(h, port, impliedPort, tid, from)

\* An announcement uses nothing but the store.
LEMMA AnnouncementStep ==
    ASSUME DnInv, Announcements
    PROVE  PartsStep /\ DnInv'
<1>1. PICK h \in Lookups, impliedPort \in BOOLEAN, tid \in OtherTids, from \in IH!Peer :
         \E port \in {h, NoPort} : Announcement(h, port, impliedPort, tid, from)
  BY DEF Announcements
<1>2. PICK port \in {h, NoPort} : Announcement(h, port, impliedPort, tid, from)
  BY <1>1
<1>3. /\ IH!AnnouncePeer(h, port, impliedPort, tid, from)
      /\ UNCHANGED <<krVars, rtVars, asking, suspended>>
  BY <1>2 DEF Announcement
<1>4. port \in Lookups \cup {NoPort} /\ tid \in Tids \cup OtherTids
  BY <1>2
<1>5. IH!Announces
  BY <1>3, <1>4 DEF IH!Announces
<1>6. IH!IhNext
  BY <1>5 DEF IH!IhNext
<1>7. KrInv'
  BY <1>3, KrInvInductive DEF DnInv
<1>8. HandlersFit'
  BY <1>3 DEF DnInv, HandlersFit, krVars
<1> QED BY <1>3, <1>6, <1>7, <1>8 DEF PartsStep, DnInv

\* Every step of the node is a step of its parts and keeps the invariant.
LEMMA DnStep ==
    ASSUME DnInv, [DnNext]_dnVars
    PROVE  PartsStep /\ DnInv'
<1>1. ASSUME NEW data \in Data \ Lookups, SendOther(data) PROVE PartsStep /\ DnInv'
  BY <1>1, QueryStep DEF SendOther, Others
<1>2. ASSUME NEW h \in Lookups, StartLookup(h) \/ ResumeLookup(h) PROVE PartsStep /\ DnInv'
  <2>1. h \in Data /\ SendQuery(h) /\ UNCHANGED <<rtVars, ihVars, suspended>>
    BY <1>2, LookupsAssumption DEF StartLookup, ResumeLookup
  <2> QED BY <2>1, QueryStep
<1>3. CASE Answer
  <2>1. PICK n \in DOMAIN requests :
           \/ AnswerWithout(n)
           \/ \E sender \in Remote :
                 \/ \E count \in 0 .. MaxNodes :
                       \/ AnswerWithNodes(n, count, sender)
                       \/ \E contacts \in [1 .. count -> RT!Contact] :
                             AnswerToOther(n, contacts, sender)
                 \/ \E count \in 1 .. MaxValues :
                       \E peers \in [1 .. count -> IH!Peer] :
                          AnswerWithValues(n, peers, sender)
    BY <1>3 DEF Answer
  <2>2. CASE AnswerWithout(n)
    <3>1. HandleResponse(n, 0) /\ UNCHANGED <<rtVars, ihVars, suspended>>
      BY <2>2 DEF AnswerWithout, Others
    <3> QED BY <3>1, PlainAnswerStep DEF PartsStep
  <2>3. ASSUME NEW sender \in Remote, NEW count \in 0 .. MaxNodes,
               AnswerWithNodes(n, count, sender)
        PROVE  PartsStep /\ DnInv'
    BY <2>3, AnswerWithNodesStep
  <2>4. ASSUME NEW sender \in Remote, NEW count \in 0 .. MaxNodes,
               NEW contacts \in [1 .. count -> RT!Contact], AnswerToOther(n, contacts, sender)
        PROVE  PartsStep /\ DnInv'
    BY <2>4, AnswerToOtherStep
  <2>5. ASSUME NEW sender \in Remote, NEW count \in 1 .. MaxValues,
               NEW peers \in [1 .. count -> IH!Peer], AnswerWithValues(n, peers, sender)
        PROVE  PartsStep /\ DnInv'
    BY <2>5, AnswerWithValuesStep
  <2> QED BY <2>1, <2>2, <2>3, <2>4, <2>5
<1>4. ASSUME NEW s \in suspended, ResumeHandler(s) PROVE PartsStep /\ DnInv'
  BY <1>4, ResumeHandlerStep
<1>5. ASSUME NEW addr \in Addrs, Undecodable(addr) PROVE PartsStep /\ DnInv'
  <2>1. RT!RtNext /\ UNCHANGED <<krVars, ihVars, suspended>>
    BY <1>5 DEF Undecodable, RT!RtNext
  <2>2. KrInv'
    BY <2>1, KrInvInductive DEF DnInv
  <2>3. HandlersFit'
    BY <2>1 DEF DnInv, HandlersFit, krVars
  <2> QED BY <2>1, <2>2, <2>3 DEF PartsStep, DnInv
<1>6. CASE Elapse /\ UNCHANGED Others
  <2>1. KrNext /\ UNCHANGED <<requests, rtVars, ihVars, suspended>>
    BY <1>6 DEF KrNext, Others, Elapse
  <2>2. KrInv'
    BY <2>1, KrInvInductive DEF DnInv
  <2>3. HandlersFit'
    BY <2>1 DEF DnInv, HandlersFit
  <2> QED BY <2>1, <2>2, <2>3 DEF PartsStep, DnInv
<1>7. CASE UNCHANGED dnVars
  <2>1. UNCHANGED <<krVars, rtVars, ihVars, suspended>>
    BY <1>7 DEF dnVars
  <2>2. KrInv'
    BY <2>1, KrInvInductive DEF DnInv
  <2>3. HandlersFit'
    BY <2>1 DEF DnInv, HandlersFit, krVars
  <2> QED BY <2>1, <2>2, <2>3 DEF PartsStep, DnInv
<1>8. CASE Announcements
  BY <1>8, AnnouncementStep
<1> QED BY <1>1, <1>2, <1>3, <1>4, <1>5, <1>6, <1>7, <1>8 DEF DnNext, Announcements

\* The inductive invariant holds of every behaviour.
LEMMA DnInvariant == DnSpec => []DnInv
<1>1. DnInit => DnInv
  <2> SUFFICES ASSUME DnInit PROVE DnInv
    OBVIOUS
  <2>1. KrInv /\ DOMAIN requests = {} /\ suspended = {}
    BY KrInitFits DEF DnInit, KrInit
  <2> QED BY <2>1 DEF DnInv, HandlersFit
<1>2. DnInv /\ [DnNext]_dnVars => DnInv'
  BY DnStep
<1> QED BY <1>1, <1>2, PTL DEF DnSpec

-----------------------------------------------------------------------------
(* The node is made of its parts.                                          *)

\* To run in the node is to run alone.
LEMMA PartsRun == DnSpec => KrSpec /\ RT!RtSpec /\ IH!IhSpec
<1>1. DnInit => KrInit /\ RT!RtInit /\ IH!IhInit
  BY DEF DnInit
<1>2. DnInv /\ [DnNext]_dnVars => [KrNext]_krVars
  BY DnStep DEF PartsStep
<1>3. DnInv /\ [DnNext]_dnVars => [RT!RtNext]_(RT!rtVars)
  BY DnStep DEF PartsStep, rtVars, RT!rtVars
<1>4. DnInv /\ [DnNext]_dnVars => [IH!IhNext]_(IH!ihVars)
  BY DnStep DEF PartsStep, ihVars, IH!ihVars
<1> QED BY <1>1, <1>2, <1>3, <1>4, DnInvariant, PTL DEF DnSpec, KrSpec, RT!RtSpec, IH!IhSpec

\* RT and RTP are names of the same table.
LEMMA SameTable ==
    /\ (RT!RtInit <=> RTP!RtInit) /\ (RT!RtNext <=> RTP!RtNext)
    /\ RT!AllNodes = RTP!AllNodes
    /\ \A addr : RT!RemoveByIp(addr) <=> RTP!RemoveByIp(addr)
<1>1. RT!RtInit <=> RTP!RtInit
  BY Zenon DEF RT!RtInit, RTP!RtInit, RT!Ids, RTP!Ids, RT!Pow2, RTP!Pow2,
               RT!GenerateBuckets, RTP!GenerateBuckets, RT!EmptyBucket, RTP!EmptyBucket
<1>2. RT!Ids = RTP!Ids
  BY Zenon DEF RT!Ids, RTP!Ids, RT!Pow2, RTP!Pow2
<1>3. RT!Contact = RTP!Contact
  BY <1>2, Zenon DEF RT!Contact, RTP!Contact
<1>4. RT!AllNodes = RTP!AllNodes
  BY Zenon DEF RT!AllNodes, RTP!AllNodes, RT!Range, RTP!Range
<1>5. \A nodes, S : RT!RemovedFrom(nodes, S) = RTP!RemovedFrom(nodes, S)
  BY Zenon DEF RT!RemovedFrom, RTP!RemovedFrom, RT!Kept, RTP!Kept, RT!Listed, RTP!Listed,
               RT!ByPosition, RTP!ByPosition, RT!Cardinality, RTP!Cardinality
<1>6. \A i, id : RT!IsHome(i, id) <=> RTP!IsHome(i, id)
  BY Zenon DEF RT!IsHome, RTP!IsHome, RT!WithinRange, RTP!WithinRange
<1>7. \A nodes : RT!With(nodes) = RTP!With(nodes)
  BY Zenon DEF RT!With, RTP!With, RT!IsHome, RTP!IsHome, RT!WithinRange, RTP!WithinRange,
               RT!AddedTo, RTP!AddedTo, RT!RemovedFrom, RTP!RemovedFrom, RT!Kept, RTP!Kept,
               RT!Listed, RTP!Listed, RT!ByPosition, RTP!ByPosition,
               RT!Cardinality, RTP!Cardinality
<1>8. \A S : RT!Without(S) = RTP!Without(S)
  BY <1>5, <1>6, Zenon DEF RT!Without, RTP!Without
<1>9. \A id : RT!FindNode(id) = RTP!FindNode(id)
  BY Zenon DEF RT!FindNode, RTP!FindNode, RT!Range, RTP!Range
<1>10. \A id : RT!FindClosestNodes(id) = RTP!FindClosestNodes(id)
  BY Zenon DEF RT!FindClosestNodes, RTP!FindClosestNodes, RT!AllNodes, RTP!AllNodes,
               RT!Range, RTP!Range, RT!Distance, RTP!Distance, RT!Pow2, RTP!Pow2,
               RT!Cardinality, RTP!Cardinality
<1>11. \A id, addr : RT!UpdateNode(id, addr) <=> RTP!UpdateNode(id, addr)
  BY <1>9, Zenon DEF RT!UpdateNode, RTP!UpdateNode
<1>12. \A contacts, sender : RT!AddFound(contacts, sender) <=> RTP!AddFound(contacts, sender)
  BY <1>7, Zenon DEF RT!AddFound, RTP!AddFound, RT!AddNodes, RTP!AddNodes,
                     RT!NodesOf, RTP!NodesOf
<1>13. \A n : RT!Remove(n) <=> RTP!Remove(n)
  BY <1>8, Zenon DEF RT!Remove, RTP!Remove
<1>14. \A id : RT!RemoveByNodeId(id) <=> RTP!RemoveByNodeId(id)
  BY <1>8, <1>9, Zenon DEF RT!RemoveByNodeId, RTP!RemoveByNodeId
<1>15. \A id : RT!RemoveClosestNode(id) <=> RTP!RemoveClosestNode(id)
  BY <1>8, <1>10, Zenon DEF RT!RemoveClosestNode, RTP!RemoveClosestNode
<1>16. \A addr : RT!RemoveByIp(addr) <=> RTP!RemoveByIp(addr)
  BY <1>4, <1>8, Zenon DEF RT!RemoveByIp, RTP!RemoveByIp
<1>17. RT!RtNext <=> RTP!RtNext
  BY <1>2, <1>3, <1>4, <1>11, <1>12, <1>13, <1>14, <1>15, <1>16 DEF RT!RtNext, RTP!RtNext
<1> QED BY <1>1, <1>4, <1>16, <1>17

\* IH and IHP are names of the same store.
LEMMA SameStore ==
    /\ (IH!IhInit <=> IHP!IhInit) /\ (IH!IhNext <=> IHP!IhNext)
    /\ IH!Store = IHP!Store /\ IH!Peer = IHP!Peer
    /\ \A h, peers, tid : IH!StoreValues(h, peers, tid) <=> IHP!StoreValues(h, peers, tid)
    /\ \A h, port, implied, tid, from : IH!AnnouncePeer(h, port, implied, tid, from)
                                            <=> IHP!AnnouncePeer(h, port, implied, tid, from)
<1>1. IH!IhInit <=> IHP!IhInit
  BY Zenon DEF IH!IhInit, IHP!IhInit
<1>2. IH!Store = IHP!Store /\ IH!Peer = IHP!Peer
  BY Zenon DEF IH!Store, IHP!Store, IH!Peer, IHP!Peer
<1>3. \A st, h, p, token : IH!Added(st, h, p, token) = IHP!Added(st, h, p, token)
  BY Zenon DEF IH!Added, IHP!Added, IH!Accepts, IHP!Accepts, IH!PeersOf, IHP!PeersOf,
               IH!SetAt, IHP!SetAt, IH!HasOtherToken, IHP!HasOtherToken,
               IH!WithToken, IHP!WithToken, IH!Cardinality, IHP!Cardinality
<1>4. \A st, h, peers, tid : IH!AddedList(st, h, peers, tid) = IHP!AddedList(st, h, peers, tid)
  BY <1>3, Zenon DEF IH!AddedList, IHP!AddedList
<1>5. \A st : IH!StoreBecomes(st) <=> IHP!StoreBecomes(st)
  BY Zenon DEF IH!StoreBecomes, IHP!StoreBecomes
<1>6. \A h, peers, tid : IH!StoreValues(h, peers, tid) <=> IHP!StoreValues(h, peers, tid)
  BY <1>2, <1>4, <1>5, Zenon DEF IH!StoreValues, IHP!StoreValues
<1>7. ASSUME NEW h, NEW peer, NEW tid
      PROVE  IH!AddAndAcknowledge(h, peer, tid) <=> IHP!AddAndAcknowledge(h, peer, tid)
  <2>1. IH!Added(IH!Store, h, peer, tid) = IHP!Added(IHP!Store, h, peer, tid)
    BY <1>2, <1>3
  <2> QED BY <1>5, <2>1, Zenon DEF IH!AddAndAcknowledge, IHP!AddAndAcknowledge
<1>8. \A port, implied, from : IH!Announced(port, implied, from) = IHP!Announced(port, implied, from)
  BY Zenon DEF IH!Announced, IHP!Announced
<1>9. ASSUME NEW h, NEW port, NEW implied, NEW tid, NEW from
      PROVE  IH!AnnouncePeer(h, port, implied, tid, from)
                <=> IHP!AnnouncePeer(h, port, implied, tid, from)
  <2>1. IH!AddAndAcknowledge(h, IH!Announced(port, implied, from), tid)
           <=> IHP!AddAndAcknowledge(h, IHP!Announced(port, implied, from), tid)
    BY <1>7, <1>8
  <2>2. \A kind : IH!Refuse(kind, h, tid) <=> IHP!Refuse(kind, h, tid)
    BY Zenon DEF IH!Refuse, IHP!Refuse
  <2>3. IH!HasOtherToken(tokenMap, h, tid) <=> IHP!HasOtherToken(tokenMap, h, tid)
    BY Zenon DEF IH!HasOtherToken, IHP!HasOtherToken
  <2> QED BY <2>1, <2>2, <2>3, Zenon DEF IH!AnnouncePeer, IHP!AnnouncePeer
<1>10. \A h : IH!Remove(h) <=> IHP!Remove(h)
  BY Zenon DEF IH!Remove, IHP!Remove
<1>11. IH!Announces <=> IHP!Announces
  BY <1>2, <1>9, Zenon DEF IH!Announces, IHP!Announces
<1>12. IH!IhNext <=> IHP!IhNext
  BY <1>2, <1>6, <1>10, <1>11, Zenon DEF IH!IhNext, IHP!IhNext
<1> QED BY <1>1, <1>2, <1>6, <1>9, <1>12

\* So the invariants proved of the table and of the store hold in the node.
LEMMA TableStays == DnSpec => []RTP!RtInv
<1>1. RT!RtInit => RTP!RtInit
  BY SameTable
<1>2. [RT!RtNext]_(RT!rtVars) => [RTP!RtNext]_(RTP!rtVars)
  BY SameTable DEF RT!rtVars, RTP!rtVars
<1>3. RTP!RtInit => RTP!RtInv
  BY RTP!RtInitInv, BitsGiven, SizesGiven
<1>4. RTP!RtInv /\ [RTP!RtNext]_(RTP!rtVars) => RTP!RtInv'
  BY RTP!RtNextInv, BitsGiven, SizesGiven
<1> QED BY <1>1, <1>2, <1>3, <1>4, PartsRun, PTL DEF RT!RtSpec

\* For the store.
LEMMA StoreStays == DnSpec => []IHP!IhInv
<1>1. IH!IhInit => IHP!IhInit
  BY SameStore
<1>2. [IH!IhNext]_(IH!ihVars) => [IHP!IhNext]_(IHP!ihVars)
  BY SameStore DEF IH!ihVars, IHP!ihVars
<1>3. IHP!IhInit => IHP!IhInv
  BY IHP!InitIsGood, LimitsGiven, PortGiven
<1>4. IHP!IhInv /\ [IHP!IhNext]_(IHP!ihVars) => IHP!IhInv'
  BY IHP!IhInvInductive, LimitsGiven, PortGiven
<1> QED BY <1>1, <1>2, <1>3, <1>4, PartsRun, PTL DEF IH!IhSpec

-----------------------------------------------------------------------------
(* The properties of the node.                                             *)

\* The loop of a lookup never has fewer than no nodes left, or more than it picked.
AskingFits == asking \in [Lookups -> 0 .. Closest]

\* A lookup counts down from the number of nodes that the table had at its start.
LEMMA AskingStep ==
    ASSUME AskingFits, RTP!RtInv, [DnNext]_dnVars
    PROVE  AskingFits'
<1>1. Closest \in Nat \ {0}
  BY PartsAssumption
<1>2. ASSUME NEW h \in Lookups, StartLookup(h) PROVE AskingFits'
  <2> DEFINE count == Cardinality(RT!AllNodes)
             left == (IF count < Closest THEN count ELSE Closest) - 1
  <2>1. IsFiniteSet(RTP!AllNodes)
    <3>1. RTP!IsFiniteSet(RTP!AllNodes)
      BY RTP!AllNodesFinite, BitsGiven, SizesGiven
    <3> QED BY <3>1, Zenon DEF IsFiniteSet, RTP!IsFiniteSet
  <2>2. count \in Nat /\ count # 0
    BY <1>2, <2>1, SameTable, FS_CardinalityType DEF StartLookup
  <2>3. asking' = [asking EXCEPT ![h] = left]
    BY <1>2 DEF StartLookup
  <2> HIDE DEF count
  <2>4. left \in 0 .. Closest
    BY <1>1, <2>2
  <2> QED BY <2>3, <2>4 DEF AskingFits
<1>3. ASSUME NEW h \in Lookups, ResumeLookup(h) PROVE AskingFits'
  BY <1>1, <1>3 DEF ResumeLookup, AskingFits
<1>4. ASSUME UNCHANGED asking PROVE AskingFits'
  BY <1>4 DEF AskingFits
<1>5. Answer => UNCHANGED asking
  BY DEF Answer, AnswerWithout, AnswerWithNodes, AnswerToOther, AnswerWithValues, Others
<1>6. \A s \in suspended : ResumeHandler(s) => UNCHANGED asking
  BY DEF ResumeHandler, Others
<1>7. Announcements => UNCHANGED asking
  BY DEF Announcements, Announcement
<1> QED BY <1>2, <1>3, <1>4, <1>5, <1>6, <1>7 DEF DnNext, Announcements, dnVars, SendOther,
                                                  Undecodable, Others

\* The loops of lookups and of get_peers answers query as many nodes as they have, and
\* every one that is not over has one handler that will go on with it (sendGetPeersRequest,
\* handleGetPeersResponse).
THEOREM DnTypeCorrect == DnSpec => []DnTypeOK
<1>1. DnInit => AskingFits
  <2> SUFFICES ASSUME DnInit PROVE AskingFits
    OBVIOUS
  <2>1. 0 \in 0 .. Closest
    BY PartsAssumption
  <2> QED BY <2>1 DEF DnInit, AskingFits
<1>2. AskingFits /\ RTP!RtInv /\ [DnNext]_dnVars => AskingFits'
  BY AskingStep
<1>3. AskingFits /\ DnInv => DnTypeOK
  BY DEF AskingFits, DnInv, HandlersFit, DnTypeOK
<1> QED BY <1>1, <1>2, <1>3, TableStays, DnInvariant, PTL DEF DnSpec

\* Whatever the step, queries and answers stay.
LEMMA QueriesStay ==
    ASSUME DnInv, [DnNext]_dnVars
    PROVE  Keeps(requests, requests')
<1>1. KrInv /\ [KrNext]_krVars
  BY DnStep DEF DnInv, PartsStep
<1>2. ASSUME NEW data \in Data, SendQuery(data) PROVE Keeps(requests, requests')
  BY <1>1, <1>2, SendQueryKeeps
<1>3. ASSUME NEW n \in DOMAIN requests, NEW nodes \in 0 .. MaxNodes, HandleResponse(n, nodes)
      PROVE  Keeps(requests, requests')
  BY <1>1, <1>3, ResponseKeeps
<1>4. ASSUME NEW n \in DOMAIN requests, ContinueLookup(n) PROVE Keeps(requests, requests')
  BY <1>1, <1>4, ContinueKeeps
<1>5. ASSUME UNCHANGED requests PROVE Keeps(requests, requests')
  BY <1>5 DEF Keeps
<1>6. Elapse \/ UNCHANGED krVars => UNCHANGED requests
  BY DEF Elapse, krVars
<1> QED BY <1>1, <1>2, <1>3, <1>4, <1>5, <1>6 DEF KrNext

\* The store takes tid as the token of x, and peers with this port for x, no more.
Stores(x, tid, port) ==
    /\ \A y \in DOMAIN tokenMap' :
          \/ y \in DOMAIN tokenMap /\ tokenMap'[y] = tokenMap[y]
          \/ y = x /\ tokenMap'[y] = tid
    /\ \A y \in DOMAIN infoHashes' : \A k \in DOMAIN infoHashes'[y] :
          \/ /\ y \in DOMAIN infoHashes
             /\ \E j \in DOMAIN infoHashes[y] : infoHashes'[y][k] = infoHashes[y][j]
          \/ y = x /\ infoHashes'[y][k].port = port

\* The answer to query n, taken for query h: h's tid is the token of the info hash that h
\* asked for, and the peers are of the one that n asked for.
StoredAnswer(n, h) ==
    /\ n <= h /\ requests[h].tid = requests[n].tid
    /\ requests[h].answers = <<>> /\ requests'[h].answers = <<n>>
    /\ Stores(requests[h].data, requests[h].tid, requests[n].data)

\* An announcement of x, acknowledged.
StoredAnnouncement(x, tid) ==
    /\ Stores(x, tid, x)
    /\ \E peer \in IH!Peer :
          reply' = [kind |-> "acknowledged", infoHash |-> x, tid |-> tid, peer |-> peer]

\* What was proved of the store alone, in the words of the node.
LEMMA EnlargedStores ==
    ASSUME NEW x, NEW P, NEW tid, NEW port, \A p \in P : p.port = port,
           IHP!Store' \in IHP!Enlarged(x, P, tid)
    PROVE  Stores(x, tid, port)
<1>1. IHP!Store.infoHashes' = infoHashes' /\ IHP!Store.tokenMap' = tokenMap'
  BY DEF IHP!Store
<1>2. /\ \A y \in DOMAIN tokenMap' :
            \/ y \in DOMAIN tokenMap /\ tokenMap'[y] = tokenMap[y]
            \/ y = x /\ tokenMap'[y] = tid
      /\ \A y \in DOMAIN infoHashes' : \A k \in DOMAIN infoHashes'[y] :
            \/ /\ y \in DOMAIN infoHashes
               /\ \E j \in DOMAIN infoHashes[y] : infoHashes'[y][k] = infoHashes[y][j]
            \/ y = x /\ infoHashes'[y][k] \in P
  BY <1>1 DEF IHP!Enlarged, IHP!TokensFrom, IHP!From
<1> QED BY <1>2 DEF Stores

\* An answer with peers.
LEMMA ValuesStoredStep ==
    ASSUME DnInv, IHP!IhInv, NEW n \in DOMAIN requests, NEW count \in 1 .. MaxValues,
           NEW peers \in [1 .. count -> IH!Peer], NEW sender \in Remote,
           AnswerWithValues(n, peers, sender)
    PROVE  \E h \in DOMAIN requests : StoredAnswer(n, h)
<1> DEFINE h   == Holder(requests[n].tid)
           tid == requests[n].tid
           x   == TakenFor(n)
           P   == {p \in IH!Peer : p.port = requests[n].data}
<1>1. /\ HandleResponse(n, 0) /\ x \in Lookups /\ IH!StoreValues(x, peers, tid)
      /\ \A k \in DOMAIN peers : peers[k].port = requests[n].data
  BY DEF AnswerWithValues
<1>2. 0 \in 0 .. MaxNodes
  BY LookupsAssumption
<1>3. /\ h \in DOMAIN requests /\ n <= h /\ requests[h].tid = tid /\ requests[h].data = x
      /\ requests[h].answers = <<>> /\ requests'[h].answers = <<n>>
  BY <1>1, <1>2, ResponseKeeps DEF DnInv
<1>4. tid \in Tids \cup OtherTids
  BY KrInvFacts DEF DnInv, Request
<1>5. peers \in [1 .. count -> P] /\ count \in Nat
  BY <1>1
<1>6. P \in SUBSET IHP!Peer /\ IHP!StoreValues(x, peers, tid)
  BY <1>1, SameStore
<1>7. IHP!Store \in IHP!GoodStores
  BY DEF IHP!IhInv
<1>8. \A p \in P : p.port = requests[n].data
  OBVIOUS
<1> HIDE DEF h, tid, x, P
<1>9. IHP!Store' \in IHP!Enlarged(x, P, tid)
  BY <1>1, <1>4, <1>5, <1>6, <1>7, IHP!StoreValuesAdds, LimitsGiven, PortGiven
<1>10. Stores(x, tid, requests[n].data)
  BY <1>8, <1>9, EnlargedStores
<1> QED BY <1>3, <1>10 DEF StoredAnswer, tid

\* An announcement, which honest nodes make of what they have.
LEMMA AnnouncementStored ==
    ASSUME IHP!IhInv, Announcements
    PROVE  \/ UNCHANGED <<infoHashes, tokenMap>>
           \/ \E x \in Lookups, tid \in Tids \cup OtherTids : StoredAnnouncement(x, tid)
<1>1. PICK x \in Lookups, impliedPort \in BOOLEAN, tid \in OtherTids, from \in IH!Peer :
         \E port \in {x, NoPort} : Announcement(x, port, impliedPort, tid, from)
  BY DEF Announcements
<1>2. PICK port \in {x, NoPort} : Announcement(x, port, impliedPort, tid, from)
  BY <1>1
<1> DEFINE peer == IHP!Announced(port, impliedPort, from)
<1>3. from.port = x /\ IHP!AnnouncePeer(x, port, impliedPort, tid, from)
  BY <1>2, SameStore DEF Announcement
<1>4. /\ port \in Lookups \cup {NoPort} /\ tid \in Tids \cup OtherTids
      /\ from \in IHP!Peer /\ IHP!Store \in IHP!GoodStores
  BY <1>2, SameStore DEF IHP!IhInv
<1>5. \/ UNCHANGED <<infoHashes, tokenMap>>
      \/ /\ port # NoPort /\ IHP!Store' \in IHP!Enlarged(x, {peer}, tid)
         /\ reply' = [kind |-> "acknowledged", infoHash |-> x, tid |-> tid, peer |-> peer]
  <2> HIDE DEF peer
  <2> QED BY <1>3, <1>4, IHP!AnnouncePeerAdds, LimitsGiven, PortGiven DEF peer
<1>6. CASE /\ port # NoPort /\ IHP!Store' \in IHP!Enlarged(x, {peer}, tid)
           /\ reply' = [kind |-> "acknowledged", infoHash |-> x, tid |-> tid, peer |-> peer]
  <2>1. port = x
    BY <1>2, <1>6
  <2>2. peer.port = x /\ peer \in IH!Peer
    BY <1>3, <1>4, <2>1, SameStore DEF IHP!Announced, IHP!Peer
  <2> HIDE DEF peer
  <2>3. Stores(x, tid, x)
    <3>1. \A p \in {peer} : p.port = x
      BY <2>2
    <3> QED BY <1>6, <3>1, EnlargedStores
  <2> QED BY <1>4, <1>6, <2>2, <2>3 DEF StoredAnnouncement
<1> QED BY <1>5, <1>6

\* Nothing else of the node stores anything.
LEMMA StoreStep ==
    ASSUME DnInv, IHP!IhInv, [DnNext]_dnVars
    PROVE  \/ UNCHANGED <<infoHashes, tokenMap>>
           \/ \E n, h \in DOMAIN requests : StoredAnswer(n, h)
           \/ \E x \in Lookups, tid \in Tids \cup OtherTids : StoredAnnouncement(x, tid)
<1>1. ASSUME NEW n \in DOMAIN requests, NEW count \in 1 .. MaxValues,
             NEW peers \in [1 .. count -> IH!Peer], NEW sender \in Remote,
             AnswerWithValues(n, peers, sender)
      PROVE  \E h \in DOMAIN requests : StoredAnswer(n, h)
  BY <1>1, ValuesStoredStep
<1>2. ASSUME NEW n \in DOMAIN requests, AnswerWithout(n) PROVE UNCHANGED ihVars
  BY <1>2 DEF AnswerWithout, Others
<1>3. \A n, count, sender : AnswerWithNodes(n, count, sender) => UNCHANGED ihVars
  BY DEF AnswerWithNodes
<1>4. \A n, contacts, sender : AnswerToOther(n, contacts, sender) => UNCHANGED ihVars
  BY DEF AnswerToOther
<1>5. CASE Answer
  BY <1>1, <1>2, <1>3, <1>4, <1>5 DEF Answer, ihVars
<1>6. ASSUME NEW h \in Lookups, StartLookup(h) \/ ResumeLookup(h) PROVE UNCHANGED ihVars
  BY <1>6 DEF StartLookup, ResumeLookup
<1>7. ASSUME NEW s \in suspended, ResumeHandler(s) PROVE UNCHANGED ihVars
  BY <1>7 DEF ResumeHandler, Others
<1>8. CASE Announcements
  BY <1>8, AnnouncementStored
<1> QED BY <1>5, <1>6, <1>7, <1>8 DEF DnNext, Announcements, dnVars, ihVars, SendOther,
                                      Undecodable, Others

\* The token of an info hash, which whoever announces it must bring, is fixed once, by an
\* answer to a get_peers query of the node for this info hash or by an announcement of it,
\* whichever comes first (handleGetPeersResponse, handleAnnouncePeerQueryRequest).
THEOREM TokensAlwaysHaveOrigin == DnSpec => TokensHaveOrigin
<1>1. ASSUME DnInv, IHP!IhInv, [DnNext]_dnVars, NEW x \in DOMAIN tokenMap'
      PROVE  \/ x \in DOMAIN tokenMap /\ tokenMap'[x] = tokenMap[x]
             \/ \E n \in DOMAIN requests :
                   /\ requests[n].data = x /\ requests[n].tid = tokenMap'[x]
                   /\ requests[n].answers = <<>> /\ requests'[n].answers # <<>>
             \/ \E peer \in IH!Peer :
                   reply' = [kind |-> "acknowledged", infoHash |-> x,
                             tid |-> tokenMap'[x], peer |-> peer]
  <2>1. ASSUME NEW n \in DOMAIN requests, NEW h \in DOMAIN requests, StoredAnswer(n, h)
        PROVE  \/ x \in DOMAIN tokenMap /\ tokenMap'[x] = tokenMap[x]
               \/ /\ requests[h].data = x /\ requests[h].tid = tokenMap'[x]
                  /\ requests[h].answers = <<>> /\ requests'[h].answers # <<>>
    <3>1. <<n>> # <<>>
      OBVIOUS
    <3> QED BY <2>1, <3>1 DEF StoredAnswer, Stores
  <2>2. ASSUME NEW y \in Lookups, NEW tid \in Tids \cup OtherTids, StoredAnnouncement(y, tid)
        PROVE  \/ x \in DOMAIN tokenMap /\ tokenMap'[x] = tokenMap[x]
               \/ \E peer \in IH!Peer :
                     reply' = [kind |-> "acknowledged", infoHash |-> x,
                               tid |-> tokenMap'[x], peer |-> peer]
    BY <2>2 DEF StoredAnnouncement, Stores
  <2> QED BY <1>1, <2>1, <2>2, StoreStep
<1> DEFINE HaveOrigin ==
        \A h \in DOMAIN tokenMap' :
           \/ h \in DOMAIN tokenMap /\ tokenMap'[h] = tokenMap[h]
           \/ \E n \in DOMAIN requests :
                 /\ requests[n].data = h /\ requests[n].tid = tokenMap'[h]
                 /\ requests[n].answers = <<>> /\ requests'[n].answers # <<>>
           \/ \E peer \in IH!Peer :
                 reply' = [kind |-> "acknowledged", infoHash |-> h,
                           tid |-> tokenMap'[h], peer |-> peer]
<1>2. DnInv /\ IHP!IhInv /\ [DnNext]_dnVars => [HaveOrigin]_dnVars
  BY <1>1
<1>3. DnSpec => [][HaveOrigin]_dnVars
  BY <1>2, DnInvariant, StoreStays, PTL DEF DnSpec
<1> QED BY <1>3 DEF TokensHaveOrigin

\* A peer with the port of another info hash came in an answer to a query sent more than
\* the quarantine before the one it was taken for.
LateFor(log, x, other) ==
    \/ other = x
    \/ \E m, n \in DOMAIN log :
          /\ log[m].data = other /\ log[n].data = x
          /\ m \in Range(log[n].answers)
          /\ n - m > Len(ShuffledPool) - IdCountMax

\* What explains a peer goes on to explain it.
LEMMA LateStays ==
    ASSUME NEW log, NEW new, Keeps(log, new), NEW x, NEW other, LateFor(log, x, other)
    PROVE  LateFor(new, x, other)
<1>1. ASSUME NEW m \in DOMAIN log, NEW n \in DOMAIN log, m \in Range(log[n].answers)
      PROVE  new[n].answers = log[n].answers
  <2>1. DOMAIN log[n].answers # {}
    BY <1>1 DEF Range
  <2>2. log[n].answers # <<>>
    BY <2>1
  <2> QED BY <2>2 DEF Keeps
<1> QED BY <1>1 DEF LateFor, Keeps

\* Peers that are stored for an info hash are peers of it, but for answers that come after
\* their tid has been through the pool: nothing but the tid tells what a peer is of, and
\* the pool as a queue makes it rest.
THEOREM PeersAlwaysBelong == DnSpec => []PeersBelong
<1>1. DnInit => PeersBelong
  BY DEF DnInit, IH!IhInit, PeersBelong
<1>2. ASSUME DnInv, IHP!IhInv, PeersBelong, [DnNext]_dnVars
      PROVE  PeersBelong'
  <2> SUFFICES ASSUME NEW x \in DOMAIN infoHashes', NEW k \in DOMAIN infoHashes'[x]
               PROVE  LateFor(requests', x, infoHashes'[x][k].port)
    BY DEF PeersBelong, LateFor
  <2> DEFINE p == infoHashes'[x][k]
  <2>1. Keeps(requests, requests')
    BY <1>2, QueriesStay
  <2>2. ASSUME x \in DOMAIN infoHashes, NEW j \in DOMAIN infoHashes[x], p = infoHashes[x][j]
        PROVE  LateFor(requests', x, p.port)
    <3>1. LateFor(requests, x, p.port)
      BY <1>2, <2>2 DEF PeersBelong, LateFor
    <3> QED BY <2>1, <3>1, LateStays
  <2>3. ASSUME NEW n \in DOMAIN requests, NEW h \in DOMAIN requests,
               n <= h, requests[h].tid = requests[n].tid, requests'[h].answers = <<n>>,
               x = requests[h].data, p.port = requests[n].data
        PROVE  LateFor(requests', x, p.port)
    <3> HIDE DEF p
    <3>1. CASE n = h
      BY <2>3, <3>1 DEF LateFor
    <3>2. CASE n # h
      <4>1. n \in Nat /\ h \in Nat /\ TidsRest(requests)
        BY <1>2, KrInvFacts DEF DnInv
      <4>2. n < h
        BY <2>3, <3>2, <4>1
      <4>3. h - n > Len(ShuffledPool) - IdCountMax
        BY <2>3, <4>1, <4>2 DEF TidsRest, Resting
      <4>4. n \in Range(requests'[h].answers)
        <5>1. n \in Range(<<n>>)
          BY DEF Range
        <5> QED BY <2>3, <5>1
      <4>5. /\ n \in DOMAIN requests' /\ requests'[n].data = requests[n].data
            /\ h \in DOMAIN requests' /\ requests'[h].data = requests[h].data
        BY <2>1 DEF Keeps
      <4> QED BY <2>3, <4>3, <4>4, <4>5 DEF LateFor
    <3> QED BY <3>1, <3>2
  <2>4. CASE UNCHANGED <<infoHashes, tokenMap>>
    <3>1. x \in DOMAIN infoHashes /\ k \in DOMAIN infoHashes[x] /\ p = infoHashes[x][k]
      BY <2>4
    <3> QED BY <2>2, <3>1
  <2>5. ASSUME NEW n \in DOMAIN requests, NEW h \in DOMAIN requests, StoredAnswer(n, h)
        PROVE  LateFor(requests', x, p.port)
    <3>1. \/ x \in DOMAIN infoHashes /\ \E j \in DOMAIN infoHashes[x] : p = infoHashes[x][j]
          \/ x = requests[h].data /\ p.port = requests[n].data
      BY <2>5 DEF StoredAnswer, Stores
    <3>2. n <= h /\ requests[h].tid = requests[n].tid /\ requests'[h].answers = <<n>>
      BY <2>5 DEF StoredAnswer
    <3> HIDE DEF p
    <3> QED BY <2>2, <2>3, <3>1, <3>2
  <2>6. ASSUME NEW y \in Lookups, NEW tid \in Tids \cup OtherTids, StoredAnnouncement(y, tid)
        PROVE  LateFor(requests', x, p.port)
    <3>1. \/ x \in DOMAIN infoHashes /\ \E j \in DOMAIN infoHashes[x] : p = infoHashes[x][j]
          \/ p.port = x
      BY <2>6 DEF StoredAnnouncement, Stores
    <3> HIDE DEF p
    <3> QED BY <2>2, <3>1 DEF LateFor
  <2> QED BY <1>2, <2>4, <2>5, <2>6, StoreStep
<1> QED BY <1>1, <1>2, DnInvariant, StoreStays, PTL DEF DnSpec

\* What the parts promise alone they keep in the node: no tid is lost or lent twice and
\* no query answered twice or, before its tid has rested, by another's answer; the
\* buckets split the ids by distance, and an address that sent what cannot be decoded is
\* in none of them; the Maps of the store agree, its tokens stay, and a peer that was
\* acknowledged is in it unless a limit forbids.
THEOREM PartsKeepTheirPromises ==
    DnSpec => /\ ImplementsLedger
              /\ [](Partition /\ OutstandingBounded)
              /\ [](AtMostOneAnswer /\ EntriesAreOpenQueries /\ LateAnswerQuarantined)
              /\ [](RT!RtTypeOK /\ RT!BucketsSplitIdSpace)
              /\ RT!IpForgotten
              /\ [](IH!IhTypeOK /\ IH!StoresAgree /\ IH!AcknowledgedUnlessFull)
              /\ IH!TokenStays
<1>1. KrSpec => /\ ImplementsLedger
                /\ [](Partition /\ OutstandingBounded)
                /\ [](AtMostOneAnswer /\ EntriesAreOpenQueries /\ LateAnswerQuarantined)
  BY LedgerImplemented, ManagerStaysSound, AlwaysAtMostOneAnswer, EntriesAlwaysOpenQueries,
     LateAnswerAlwaysQuarantined, PTL
<1>2. RT!RtSpec => RTP!RtSpec
  <2>1. RT!RtInit => RTP!RtInit
    BY SameTable
  <2>2. [RT!RtNext]_(RT!rtVars) => [RTP!RtNext]_(RTP!rtVars)
    BY SameTable DEF RT!rtVars, RTP!rtVars
  <2> QED BY <2>1, <2>2, PTL DEF RT!RtSpec, RTP!RtSpec
<1>3. IH!IhSpec => IHP!IhSpec
  <2>1. IH!IhInit => IHP!IhInit
    BY SameStore
  <2>2. [IH!IhNext]_(IH!ihVars) => [IHP!IhNext]_(IHP!ihVars)
    BY SameStore DEF IH!ihVars, IHP!ihVars
  <2> QED BY <2>1, <2>2, PTL DEF IH!IhSpec, IHP!IhSpec
<1>4. RTP!RtSpec => [](RTP!RtTypeOK /\ RTP!BucketsSplitIdSpace)
  BY RTP!RtTypeCorrect, RTP!BucketsAlwaysSplitIdSpace, BitsGiven, SizesGiven, PTL
<1>5. RTP!RtSpec => RTP!IpForgotten
  BY RTP!AlwaysIpForgotten, BitsGiven, SizesGiven, PTL
<1>6. IHP!IhSpec => [](IHP!IhTypeOK /\ IHP!StoresAgree /\ IHP!AcknowledgedUnlessFull)
  BY IHP!IhTypeCorrect, IHP!StoresAlwaysAgree, IHP!AlwaysAcknowledgedUnlessFull,
     LimitsGiven, PortGiven, PTL
<1>7. RTP!RtTypeOK => RT!RtTypeOK
  BY Zenon DEF RT!RtTypeOK, RTP!RtTypeOK, RT!Bucket, RTP!Bucket, RT!Node, RTP!Node,
               RT!Ids, RTP!Ids, RT!Pow2, RTP!Pow2, RT!WithinRange, RTP!WithinRange
<1>8. RTP!BucketsSplitIdSpace => RT!BucketsSplitIdSpace
  BY Zenon DEF RT!BucketsSplitIdSpace, RTP!BucketsSplitIdSpace, RT!Ids, RTP!Ids,
               RT!Pow2, RTP!Pow2, RT!WithinRange, RTP!WithinRange, RT!Distance, RTP!Distance
<1>9. RTP!IpForgotten => RT!IpForgotten
  <2>1. [\A addr \in Addrs :
           RTP!RemoveByIp(addr) => \A n \in RTP!AllNodes' : n.addr # addr]_(RTP!rtVars)
        => [\A addr \in Addrs :
              RT!RemoveByIp(addr) => \A n \in RT!AllNodes' : n.addr # addr]_(RT!rtVars)
    <3>1. RT!AllNodes' = RTP!AllNodes'
      BY Zenon DEF RT!AllNodes, RTP!AllNodes, RT!Range, RTP!Range
    <3> QED BY <3>1, SameTable DEF RT!rtVars, RTP!rtVars
  <2> QED BY <2>1, PTL DEF RT!IpForgotten, RTP!IpForgotten
<1>10. IHP!IhTypeOK /\ IHP!StoresAgree /\ IHP!AcknowledgedUnlessFull
          => IH!IhTypeOK /\ IH!StoresAgree /\ IH!AcknowledgedUnlessFull
  <2>1. IHP!IhTypeOK /\ IHP!StoresAgree => IH!IhTypeOK /\ IH!StoresAgree
    BY Zenon DEF IH!IhTypeOK, IHP!IhTypeOK, IH!StoresAgree, IHP!StoresAgree, IH!Peer, IHP!Peer,
                 IH!Reply, IHP!Reply, IH!Cardinality, IHP!Cardinality
  <2>2. IHP!AcknowledgedUnlessFull => IH!AcknowledgedUnlessFull
    BY Zenon DEF IH!AcknowledgedUnlessFull, IHP!AcknowledgedUnlessFull, IH!PeersOf, IHP!PeersOf,
                 IH!HasOtherToken, IHP!HasOtherToken, IH!Store, IHP!Store,
                 IH!Cardinality, IHP!Cardinality
  <2> QED BY <2>1, <2>2
<1>11. IHP!IhSpec => IHP!TokenStays
  BY IHP!TokenAlwaysStays, LimitsGiven, PortGiven, PTL
<1>12. IHP!TokenStays => IH!TokenStays
  BY PTL DEF IH!TokenStays, IHP!TokenStays, IH!ihVars, IHP!ihVars
<1> QED BY <1>1, <1>2, <1>3, <1>4, <1>5, <1>6, <1>7, <1>8, <1>9, <1>10, <1>11, <1>12,
           PartsRun, PTL

=============================================================================
