------------------------------- MODULE KrpcErrors -------------------------------
(***************************************************************************)
(* KrpcRequests with errors among the answers: the error handler of        *)
(* src/krpc/handler/error_handler.ts.  It never changes the program's      *)
(* state, so only the history variable "errored" tells that it ran.        *)
(***************************************************************************)
EXTENDS KrpcRequests

VARIABLE errored  \* the queries for which an error was handled while they waited

keVars == <<krVars, errored>>

KeInit == KrInit /\ errored = {}

\* An error in answer to query n.  The test of the handler is the wrong way round:
\* of a valid tid it only logs, and finish ignores any other.
HandleError(n) ==
    LET tid == requests[n].tid
    IN  /\ IsValid(tid)
        /\ errored' = errored \cup {Holder(tid)}
        /\ UNCHANGED krVars

KeNext ==
    \/ KrNext /\ UNCHANGED errored
    \/ \E n \in DOMAIN requests : HandleError(n)

KeSpec == KeInit /\ [][KeNext]_keVars

\* error_handler.ts:27 says "finish transcation": a query that is answered by an
\* error waits no longer.  The inverted test before it keeps it waiting, and one
\* of the #ID_COUNT_MAX places taken, until it expires or is forced out.
ErrorEndsTranscation == \A n \in errored : Fate[n] # "waiting"

=============================================================================
