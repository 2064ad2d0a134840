-------------------------------- MODULE KBuckets --------------------------------
(***************************************************************************)
(* What a Kademlia routing table promises, without its layout.  The nodes  *)
(* known fall into classes by the length of the prefix that their ids      *)
(* share with the local one.  Of each class the nodes learnt last are      *)
(* kept, up to a limit; the local node itself is never known.              *)
(***************************************************************************)
EXTENDS IdSpace, FiniteSets

CONSTANTS
    Capacity,  \* the number of nodes kept of a class
    Addrs      \* the addresses nodes have

VARIABLES
    localId,   \* the id of the local node
    known      \* the nodes known; the later one came to know it, the larger its ref

\* The first k bits of an id, as a number.
Prefix(id, k) == id \div Pow2[Bits - k]

\* Two ids are of the same class when they leave the local id at the same bit.
SameClass(a, b) ==
    \A k \in 0 .. Bits :
        Prefix(a, k) = Prefix(localId, k) <=> Prefix(b, k) = Prefix(localId, k)

\* The nodes of S that no Capacity others of their class are newer than.
Newest(S) ==
    {n \in S : Cardinality({m \in S : SameClass(m.id, n.id) /\ m.ref > n.ref}) < Capacity}

Init == localId \in Ids /\ known = {}

\* The nodes in "new" are learnt.
Learn(new) ==
    /\ \A n \in new : n.id # localId /\ \A m \in known : m.ref < n.ref
    /\ known' = Newest(known \cup new)

\* Some nodes are forgotten.
Forget == known' \in SUBSET known

\* A node moves to another address.
Move(n, addr) == known' = (known \ {n}) \cup {[n EXCEPT !.addr = addr]}

\* What is learnt and kept is what is known anew.
Next ==
    /\ \/ Learn(known' \ known)
       \/ Forget
       \/ \E n \in known, addr \in Addrs : Move(n, addr)
    /\ UNCHANGED localId

Spec == Init /\ [][Next]_<<localId, known>>

=============================================================================
