------------------------ MODULE ConnectionPoolProps ------------------------
(* What must be true of connections and slots.                                *)
EXTENDS ConnectionPool

Phases == {"away", "authorize", "admit", "retrieve", "generate", "finish", "fail", "report"}
Transactions == {"admit", "retrieve", "finish", "fail", "report"}

\* Every variable has its shape, and nobody has a connection or a slot that
\* there is not.
TypeOK ==
    /\ phase \in [Requests -> Phases]
    /\ waiting \subseteq Requests /\ own \subseteq Requests
    /\ second \subseteq Requests /\ slots \subseteq Requests
    /\ InUse <= Capacity
    /\ Cardinality(slots) <= Slots

\* What a request has is what its phase needs, however it got there: a timeout,
\* an error or a cancellation leaks nothing and leaves nobody in a queue.
NothingKept ==
    \A r \in Requests :
        /\ r \in own <=> \/ phase[r] \in {"admit", "retrieve", "generate", "finish", "fail"}
                         \/ At(r, "authorize")
        /\ r \in second <=> \E p \in Transactions : At(r, p)
        /\ r \in slots <=> At(r, "generate")
        /\ r \in waiting => phase[r] # "away"

\* The pool never needs its timeout while fewer requests than it has connections
\* are past authorize: all of them stand still only when each connection is the
\* first one of a question that waits for its second (database.py takes the
\* defaults of QueuePool, 5 and 10; the image serves 50 requests at once).
Stuck(r) ==
    /\ r \in waiting
    /\ IF phase[r] = "generate" THEN Cardinality(slots) >= Slots ELSE ~Available
Active == {r \in Requests : phase[r] # "away"}
GridlockNeedsAll ==
    Active # {} /\ (\A r \in Active : Stuck(r)) => Cardinality(own) = Capacity

\* The timeout ends every such standstill: every request is answered.
EveryRequestEnds == \A r \in Requests : phase[r] # "away" ~> phase[r] = "away"

=============================================================================
