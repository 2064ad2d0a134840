------------------------------- MODULE Positions -------------------------------
(***************************************************************************)
(* Taking elements out of a sequence: what the program does with splice,   *)
(* filter and Map.delete.  The members of a finite set are listed in a     *)
(* strict total order by counting those before each of them, and what is   *)
(* kept of a sequence are the elements at the listed positions.            *)
(***************************************************************************)
EXTENDS Naturals, Sequences, FiniteSets

\* The members of the finite set K, in the strict total order R.
Listed(K, R) ==
    [k \in 1 .. Cardinality(K) |->
        CHOOSE i \in K : Cardinality({j \in K : <<j, i>> \in R}) = k - 1]

\* The positions of the sequence m, first to last.
ByPosition(m) ==
    {p \in (DOMAIN m) \X (DOMAIN m) : p[1] < p[2]}

\* What is left of the sequence m when only the positions in K stay.
Kept(m, K) ==
    LET order == Listed(K, ByPosition(m))
    IN  [k \in 1 .. Cardinality(K) |-> m[order[k]]]

=============================================================================
