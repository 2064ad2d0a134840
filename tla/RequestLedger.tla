----------------------------- MODULE RequestLedger -----------------------------
(***************************************************************************)
(* What the transaction layer promises to the code that sends queries,     *)
(* without transaction ids, pools or clocks.  Every query waits, then is   *)
(* answered once or dropped, for good.  At most Limit wait.  Only opening  *)
(* a new query drops others, and it drops the oldest that wait.            *)
(***************************************************************************)
EXTENDS Naturals, Sequences, FiniteSets

CONSTANT Limit

VARIABLE status  \* the fate of every query, in the order the queries were sent

Waiting(s) == {n \in DOMAIN s : s[n] = "waiting"}

\* The ledger s with the fate f for the queries in A.
Settled(s, A, f) == [n \in DOMAIN s |-> IF n \in A THEN f ELSE s[n]]

\* The ledgers after a new query, and the drop of some of the oldest that wait.
Openings(s) ==
    {Append(Settled(s, D, "dropped"), "waiting") :
        D \in {E \in SUBSET Waiting(s) :
                  \A d \in E, w \in Waiting(s) \ E : d < w}}

Init == status = <<>>

Answer ==
    \E n \in Waiting(status) : status' = Settled(status, {n}, "answered")

Open == status' \in Openings(status)

\* A handler that is given an answer may send a query before it returns.
AnswerAndOpen ==
    \E n \in Waiting(status) : status' \in Openings(Settled(status, {n}, "answered"))

Next ==
    /\ Answer \/ Open \/ AnswerAndOpen
    /\ Cardinality(Waiting(status')) <= Limit

Spec == Init /\ [][Next]_status

=============================================================================
