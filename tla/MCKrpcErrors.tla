------------------------------ MODULE MCKrpcErrors ------------------------------
(* KrpcErrors on a pool of three tids of which two may be lent.            *)
EXTENDS KrpcErrors

CONSTANTS t1, t2, t3

ThreePool == <<t1, t2, t3>>

=============================================================================
