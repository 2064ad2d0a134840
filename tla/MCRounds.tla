-------------------------------- MODULE MCRounds --------------------------------
(***************************************************************************)
(* Rounds with packets that never end.  A ref only tells nodes apart, so   *)
(* the nodes of the table may be numbered anew once others have left it,   *)
(* and MaxMade bounds the nodes known at once and no longer those made in  *)
(* a behaviour.  What joins or leaves the list that a round is at has a    *)
(* bound for each round.                                                   *)
(***************************************************************************)
EXTENDS Rounds

CONSTANTS
    MaxAhead,  \* bound on "ahead", in a round
    MaxBehind  \* bound on "behind", in a round

VARIABLE watched  \* the ref of a node that is followed as long as it stays, 0 for none

mcVars == <<rdVars, watched>>

\* The distances between ids are the same whatever the local id.
MCRdInit == RdInit /\ localId = 0 /\ watched = 0

\* A node of the table is followed from now on.
Watch ==
    /\ watched = 0
    /\ watched' \in {n.ref : n \in AllNodes}
    /\ UNCHANGED rdVars

Step ==
    /\ RdNext
    /\ ahead' <= MaxAhead /\ behind' <= MaxBehind
    /\ watched' = IF \E n \in AllNodes' : n.ref = watched THEN watched ELSE 0

\* The nodes of the table are numbered from 1, in the order in which they were made.
Renumber ==
    LET Renamed(n) == [n EXCEPT !.ref = Cardinality({m \in AllNodes : m.ref <= n.ref})]
    IN  /\ made # NodeCount
        /\ made' = NodeCount
        /\ buckets' = [b \in DOMAIN buckets |->
              [buckets[b] EXCEPT !.nodes = [k \in DOMAIN @ |-> Renamed(@[k])]]]
        /\ asked' = {Renamed(n) : n \in asked \cap AllNodes}
        /\ staying' = {Renamed(n) : n \in staying}
        /\ watched' = Cardinality({n \in AllNodes : n.ref <= watched})
        /\ UNCHANGED <<localId, phase, place, repeats, ahead, behind>>

MCRdNext == Watch \/ Step \/ Renumber

MCRdSpec ==
    MCRdInit /\ [][MCRdNext]_mcVars /\ WF_rdVars(StartRound) /\ WF_rdVars(Resumes)

\* A node that stays in a table that is to grow is asked for others again and again,
\* whatever else comes and goes, once nothing leaves the places that a round has passed:
\* new nodes, at the front of the lists, and the old ones dropped for them keep the
\* rounds from nobody, though they never end.
StayingNodesAsked ==
    <>[](NodeCount < MinNodes /\ watched # 0 /\ behind = 0)
        => []<>(\E n \in asked : n.ref = watched)

=============================================================================
