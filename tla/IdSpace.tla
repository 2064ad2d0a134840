--------------------------------- MODULE IdSpace ---------------------------------
(***************************************************************************)
(* The ids of nodes and of info hashes (src/id.ts): numbers of Bits bits,  *)
(* and the metric of Kademlia on them.                                     *)
(***************************************************************************)
EXTENDS Naturals

CONSTANT Bits  \* BIT_LENGTH of an id, 160 in the program

ASSUME BitsAssumption == Bits \in Nat \ {0}

\* The powers of two.
Pow2[k \in 0 .. Bits] == IF k = 0 THEN 1 ELSE 2 * Pow2[k - 1]

Ids == 0 .. Pow2[Bits] - 1

\* xor of two ids, bit by bit.
Distance(a, b) ==
    LET bit(x, k) == (x \div Pow2[k]) % 2
        low[k \in 0 .. Bits] ==
            IF k = 0 THEN 0
            ELSE low[k - 1] + (IF bit(a, k - 1) = bit(b, k - 1) THEN 0 ELSE Pow2[k - 1])
    IN  low[Bits]

=============================================================================
