----------------------- MODULE MCTranscationManager -----------------------
(* TranscationManager on a pool of five tids of which four may be lent.    *)
EXTENDS TranscationManager

CONSTANTS t1, t2, t3, t4, t5

FivePool == <<t1, t2, t3, t4, t5>>

=============================================================================
