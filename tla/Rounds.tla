--------------------------------- MODULE Rounds ---------------------------------
(***************************************************************************)
(* The round that the first timer of src/main.ts starts while the table    *)
(* has few nodes: DHT.pingBootstrapNodes and then DHT.sendFindNodeRequest  *)
(* of src/dht.ts.  Every query is awaited, and before the round goes on    *)
(* any packet may be handled.  The second loop goes over the lists that    *)
(* the buckets hold, by position, while packets change them.               *)
(*                                                                         *)
(* The interval does not wait for its callback, so rounds may overlap,     *)
(* with the constructor's own pings of the bootstrap nodes too.  They only *)
(* read the table, so that one of them stands for each.                    *)
(***************************************************************************)
EXTENDS RoutingTable

CONSTANTS
    MinNodes,   \* the number of nodes below which a round starts, 8 in the program
    Bootstraps  \* the number of bootstrap nodes

\* The constructor refuses a list without bootstrap nodes.
ASSUME RoundAssumption == MinNodes \in Nat /\ Bootstraps \in Nat \ {0}

VARIABLES
    phase,  \* where the round is
    place   \* what its last query went to: the bucket and the position in its list,
            \* or the bootstrap node and 1 for the ping, 2 for the find_node

\* What became of the round so far, for the properties.
VARIABLES
    staying,  \* the nodes in the table all the time since the second loop began
    asked,    \* the nodes it has queried
    repeats,  \* how many of its queries went to a node it had queried before
    ahead,    \* how many nodes joined the list it was at
    behind    \* how many nodes left that list from the places it had passed

roundVars == <<phase, place, staying, asked, repeats, ahead, behind>>
rdVars == <<rtVars, roundVars>>

NodeCount == Cardinality(AllNodes)

\* The places of the lists in the order of the loop.
Places == UNION {{<<b, i>> : i \in DOMAIN buckets[b].nodes} : b \in DOMAIN buckets}

-----------------------------------------------------------------------------
\* Mutants of NextPlaces: the loop steps over a place, it ends with the first list,
\* and it takes a list that shrank below its place from the front again.
NextPlacesSkipping(p) ==
    {q \in Places : q[1] > p[1] /\ q[2] = 1} \cup {q \in Places : q = <<p[1], p[2] + 2>>}

NextPlacesOneList(p) ==
    {q \in Places : p[1] = 0 /\ q[2] = 1} \cup {q \in Places : q = <<p[1], p[2] + 1>>}

NextPlacesAgain(p) ==
    {q \in Places : q[1] > p[1] /\ q[2] = 1}
        \cup {q \in Places : q = <<p[1], p[2] + 1>> \/ (p \notin Places /\ q = <<p[1], 1>>)}

\* Where the iterators can go on to from p: a list is left when it has no next
\* position by now, and the empty ones are passed over.
NextPlaces(p) ==
    {q \in Places : q[1] > p[1] /\ q[2] = 1} \cup {q \in Places : q = <<p[1], p[2] + 1>>}

\* The loop's next query, which goes to the node at q.
Ask(q) ==
    LET node == buckets[q[1]].nodes[q[2]]
    IN  /\ place' = q
        /\ asked' = asked \cup {node}
        /\ repeats' = IF node \in asked THEN repeats + 1 ELSE repeats

Forgotten == asked' = {} /\ repeats' = 0 /\ ahead' = 0 /\ behind' = 0

\* The second loop goes on from p: the first of the next places is queried, and
\* the round is over when there is none.
GoOn(p) ==
    \/ \E q \in NextPlaces(p) :
          /\ \A r \in NextPlaces(p) : q[1] < r[1] \/ q = r
          /\ phase' = "table"
          /\ Ask(q)
          /\ UNCHANGED <<ahead, behind>>
    \/ /\ NextPlaces(p) = {}
       /\ phase' = "idle"
       /\ place' = <<0, 0>>
       /\ Forgotten

-----------------------------------------------------------------------------
\* The constructor, up to its await of the first ping of pingBootstrapNodes.
RdInit ==
    /\ RtInit
    /\ phase = "constructor" /\ place = <<1, 1>>
    /\ staying = {} /\ asked = {} /\ repeats = 0 /\ ahead = 0 /\ behind = 0

\* The timer's callback, up to the await of the first ping.
StartRound ==
    /\ phase = "idle"
    /\ NodeCount < MinNodes
    /\ phase' = "bootstrap"
    /\ place' = <<1, 1>>
    /\ UNCHANGED <<rtVars, staying, asked, repeats, ahead, behind>>

\* pingBootstrapNodes after an await that is not its last.
ResumeBootstrap ==
    /\ phase \in {"constructor", "bootstrap"}
    /\ place # <<Bootstraps, 2>>
    /\ place' = IF place[2] = 1 THEN <<place[1], 2>> ELSE <<place[1] + 1, 1>>
    /\ UNCHANGED <<rtVars, phase, staying, asked, repeats, ahead, behind>>

\* The constructor's pingBootstrapNodes after its last await.
EndConstructor ==
    /\ phase = "constructor"
    /\ place = <<Bootstraps, 2>>
    /\ phase' = "idle" /\ place' = <<0, 0>>
    /\ UNCHANGED <<rtVars, staying, asked, repeats, ahead, behind>>

\* sendFindNodeRequest begins after the last await of pingBootstrapNodes.
BeginTable ==
    /\ phase = "bootstrap"
    /\ place = <<Bootstraps, 2>>
    /\ GoOn(<<0, 0>>)
    /\ staying' = IF phase' = "table" THEN AllNodes ELSE {}
    /\ UNCHANGED rtVars

\* sendFindNodeRequest after an await.
ResumeTable ==
    /\ phase = "table"
    /\ GoOn(place)
    /\ staying' = IF phase' = "table" THEN staying ELSE {}
    /\ UNCHANGED rtVars

\* A packet is handled: it adds nodes, or removes those of an address.
HandlePacket ==
    /\ \/ \E sender \in Contact, len \in 0 .. MaxFound :
             \E contacts \in [1 .. len -> Contact] : AddFound(contacts, sender)
       \/ \E addr \in Addrs : RemoveByIp(addr)
    /\ IF phase # "table" THEN UNCHANGED <<staying, ahead, behind>>
       ELSE LET old == buckets[place[1]].nodes
                new == buckets'[place[1]].nodes
            IN  /\ staying' = staying \cap AllNodes'
                /\ ahead' = ahead + Cardinality({n \in Range(new) : n.ref > made})
                /\ behind' = behind + Cardinality({k \in DOMAIN old :
                                 /\ k <= place[2]
                                 /\ old[k] \notin Range(new)
                                 /\ made' = made})
    /\ UNCHANGED <<phase, place, asked, repeats>>

Resumes == ResumeBootstrap \/ EndConstructor \/ BeginTable \/ ResumeTable

RdNext == StartRound \/ Resumes \/ HandlePacket

\* The timer fires, and what a round awaits, a message handed to the system, ends
\* with a success or an error.
RdSpec == RdInit /\ [][RdNext]_rdVars /\ WF_rdVars(StartRound) /\ WF_rdVars(Resumes)

-----------------------------------------------------------------------------
(* Properties.                                                             *)

RdTypeOK ==
    /\ RtTypeOK
    /\ phase \in {"constructor", "idle", "bootstrap", "table"}
    /\ place \in Nat \X Nat
    /\ asked \subseteq Node
    /\ staying \subseteq AllNodes
    /\ repeats \in Nat /\ ahead \in Nat /\ behind \in Nat

\* However many nodes come in at the front of the list it goes over, and push it on,
\* the loop of sendFindNodeRequest leaves a bucket after Capacity queries: a full
\* bucket drops a node for every one it takes.
ListsAreShort == phase = "table" => place[2] <= Capacity

\* A node is queried again in a round only when another has come in at the front of
\* the list that the loop was at, and once for each that has.
RepeatsNeedArrivals == repeats <= ahead

\* When a round ends, it has queried every node that was in the table all the time,
\* but for one at most for each node removed from a place the loop had passed.  The
\* oldest node of a full bucket may be dropped: that lets the loop skip none.
SkipsNeedRemovals ==
    [][(phase = "table" /\ phase' = "idle") => Cardinality(staying \ asked) <= behind]_rdVars

=============================================================================
