------------------------------- MODULE MCDhtNode -------------------------------
(* DhtNode on a pool of three tids of which two may be lent.               *)
EXTENDS DhtNode, TLC

CONSTANTS t1, t2, t3

ThreePool == <<t1, t2, t3>>

\* The distances between ids are the same whatever the local id.
MCDnInit == DnInit /\ localId = 0

MCDnSpec == MCDnInit /\ [][DnNext]_dnVars

\* No step reads the last answer to an announcement.
ButReply == <<krVars, rtVars, infoHashes, tokenMap, asking, suspended>>

\* The info hashes are interchangeable.
LookupSymmetry == Permutations(Lookups)

=============================================================================
