---------------------------- MODULE MCKrpcRequests ----------------------------
(* KrpcRequests on a pool of three tids of which two may be lent.         *)
EXTENDS KrpcRequests

CONSTANTS t1, t2, t3

ThreePool == <<t1, t2, t3>>

=============================================================================
