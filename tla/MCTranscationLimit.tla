------------------------- MODULE MCTranscationLimit -------------------------
(***************************************************************************)
(* TranscationManager with the limit computed as the class computes it:    *)
(* Chars characters give a pool of Chars * Chars tids, while "length ^ 2"  *)
(* is the exclusive or of Chars and 2.  The program has 62 characters,     *)
(* 3844 tids and a limit of 60; four characters give 16 tids and a limit   *)
(* of 6.                                                                   *)
(***************************************************************************)
EXTENDS TranscationManager, Bitwise

CONSTANT Chars

AllTids == [k \in 1 .. Chars * Chars |-> k]

LengthXorTwo == Chars ^^ 2

=============================================================================
