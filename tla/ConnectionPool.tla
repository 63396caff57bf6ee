--------------------------- MODULE ConnectionPool ---------------------------
(* The requests of one API process and what they wait for: connections of the  *)
(* pool of persistence/database.py, of which a question holds the one that    *)
(* authorized it to its end and takes a second for each of its transactions,  *)
(* and slots of the semaphore of HttpGateway.  What the transactions do and    *)
(* the locks they take of each other is in RagService.                        *)
EXTENDS Integers, FiniteSets

CONSTANTS
    Requests,     \* as many as uvicorn serves at once (--limit-concurrency)
    Capacity,     \* connections: pool_size and max_overflow
    Slots         \* ai_concurrency

ASSUME PoolAssumption ==
    /\ IsFiniteSet(Requests)
    /\ Capacity \in Nat \ {0}
    /\ Slots \in Nat \ {0}

VARIABLES
    phase,      \* of each request
    waiting,    \* for a connection or, to generate, for a slot
    own,        \* with the connection of get_session
    second,     \* with one of a session opened on the way
    slots       \* with a slot

vars == <<phase, waiting, own, second, slots>>

Init ==
    /\ phase = [r \in Requests |-> "away"]
    /\ waiting = {} /\ own = {} /\ second = {} /\ slots = {}

-----------------------------------------------------------------------------
(* The pool and the semaphore.                                              *)

InUse == Cardinality(own) + Cardinality(second)

Available == InUse < Capacity

\* The first statement of a session takes a connection.
Checkout(r) ==
    /\ r \in waiting /\ phase[r] # "generate"
    /\ Available
    /\ waiting' = waiting \ {r}
    /\ IF phase[r] = "authorize"
       THEN own' = own \cup {r} /\ UNCHANGED second
       ELSE second' = second \cup {r} /\ UNCHANGED own
    /\ UNCHANGED <<phase, slots>>

TakeSlot(r) ==
    /\ r \in waiting /\ phase[r] = "generate"
    /\ Cardinality(slots) < Slots
    /\ waiting' = waiting \ {r}
    /\ slots' = slots \cup {r}
    /\ UNCHANGED <<phase, own, second>>

\* Sessions and slots are left as their blocks are, in whatever way: the second
\* one at the end of the phase, that of the request before an error is reported
\* or when it ends.
\* Faulty variants: the session of retrieve is open until _finish has its
\* own; a slot is kept by a stream that is cancelled.
SecondAfter_UntilFinished(r, next) ==
    IF next \in {"generate", "finish"} THEN second ELSE second \ {r}
SecondAfter(r, next) == second \ {r}
SlotsAfter_UnlessFailed(r, next) == IF next = "fail" THEN slots ELSE slots \ {r}
SlotsAfter(r, next) == slots \ {r}

Goto(r, next) ==
    /\ phase' = [phase EXCEPT ![r] = next]
    /\ waiting' = IF next = "away" THEN waiting \ {r} ELSE waiting \cup {r}
    /\ own' = IF next \in {"away", "report"} THEN own \ {r} ELSE own
    /\ second' = SecondAfter(r, next)
    /\ slots' = SlotsAfter(r, next)

At(r, p) == phase[r] = p /\ r \notin waiting

-----------------------------------------------------------------------------
(* A request.                                                               *)

Arrive(r) == phase[r] = "away" /\ Goto(r, "authorize")

\* authorize; on routes other than those of questions that is the connection of
\* all there is to do.  An error is reported by the middleware.
Authorized(r) ==
    /\ At(r, "authorize")
    /\ \E next \in {"admit", "report", "away"} : Goto(r, next)

\* Txn 1 admits the question, has the answer already, or refuses; an error in a
\* stream is an event of its body and is not reported.
Admitted(r) ==
    /\ At(r, "admit")
    /\ \E next \in {"retrieve", "report", "away"} : Goto(r, next)

\* retrieve, with the call for the vector of the question in its session, finds
\* something to answer from, or nothing, or fails.
Retrieved(r) ==
    /\ At(r, "retrieve")
    /\ \E next \in {"generate", "finish", "fail"} : Goto(r, next)

\* complete or stream: an answer, an error, or the timeout of the client.
Generated(r) ==
    /\ At(r, "generate")
    /\ \E next \in {"finish", "fail"} : Goto(r, next)

\* _finish settles the question, is late (request_recovered), or fails.
Finished(r) ==
    /\ At(r, "finish")
    /\ \E next \in {"away", "report", "fail"} : Goto(r, next)

Failed(r) ==
    /\ At(r, "fail")
    /\ \E next \in {"report", "away"} : Goto(r, next)

\* The security event of request_context.
Reported(r) == At(r, "report") /\ Goto(r, "away")

\* QueuePool gives up after pool_timeout.  That is an error like another: _fail
\* follows inside the try of ask, and a 500, which nothing reports, elsewhere.
\* The semaphore has no timeout.  Faulty variant: nor has the pool.
Timeout_Never(r) == FALSE /\ UNCHANGED vars
Timeout(r) ==
    /\ r \in waiting /\ phase[r] # "generate" /\ ~Available
    /\ Goto(r, IF phase[r] \in {"retrieve", "finish"} THEN "fail" ELSE "away")

\* A stream that is closed cancels its task, wherever it is, and waits for it.
Cancel(r) ==
    \/ phase[r] \in {"retrieve", "generate", "finish"} /\ Goto(r, "fail")
    \/ phase[r] \in {"admit", "fail"} /\ Goto(r, "away")

-----------------------------------------------------------------------------

Work(r) ==
    \/ Authorized(r) \/ Admitted(r) \/ Retrieved(r) \/ Generated(r)
    \/ Finished(r) \/ Failed(r) \/ Reported(r)

Next ==
    \E r \in Requests :
        Arrive(r) \/ Checkout(r) \/ TakeSlot(r) \/ Work(r) \/ Timeout(r) \/ Cancel(r)

Spec == Init /\ [][Next]_vars

\* Statements and calls end (ai_timeout_seconds, 30 seconds for a vector);
\* pool and semaphore serve in the order of arrival, and the pool's timer runs.
FairSpec ==
    /\ Spec
    /\ \A r \in Requests :
          /\ WF_vars(Work(r)) /\ WF_vars(Timeout(r))
          /\ SF_vars(Checkout(r)) /\ SF_vars(TakeSlot(r))

=============================================================================
