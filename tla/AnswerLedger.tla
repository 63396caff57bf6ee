---------------------------- MODULE AnswerLedger ----------------------------
(***************************************************************************)
(* What the question pipeline promises to the clients of a conversation,   *)
(* without tables, locks or processes: a ledger of numbered answers, at     *)
(* most Limit of them and one per idempotency key, to which each accepted   *)
(* question adds one entry or none.  RagService implements it.              *)
(***************************************************************************)
EXTENDS Integers

CONSTANTS Conversations, Keys, Limit

VARIABLES
    count,       \* answers given so far: the quota that is used
    answers,     \* the ledger: <<n, k>> when the n-th answer is to key k
    inflight,    \* the key being answered, if any
    spent,       \* keys that can never be accepted again
    delivered    \* the entries of the ledger that some client was told

vars == <<count, answers, inflight, spent, delivered>>

Init ==
    /\ count = [c \in Conversations |-> 0]
    /\ answers = [c \in Conversations |-> {}]
    /\ inflight = [c \in Conversations |-> {}]
    /\ spent = [c \in Conversations |-> {}]
    /\ delivered = [c \in Conversations |-> {}]

\* A new key is accepted: only with nothing else in flight and quota left.
Admit(c, k) ==
    /\ k \notin spent[c]
    /\ inflight[c] = {}
    /\ count[c] < Limit
    /\ inflight' = [inflight EXCEPT ![c] = {k}]
    /\ spent' = [spent EXCEPT ![c] = spent[c] \cup {k}]
    /\ UNCHANGED <<count, answers, delivered>>

\* A new key is refused; the refusal uses it up.
Reject(c, k) ==
    /\ k \notin spent[c]
    /\ spent' = [spent EXCEPT ![c] = spent[c] \cup {k}]
    /\ UNCHANGED <<count, answers, inflight, delivered>>

\* The question in flight gets the next number.
Complete(c, k) ==
    /\ inflight[c] = {k}
    /\ count' = [count EXCEPT ![c] = count[c] + 1]
    /\ answers' = [answers EXCEPT ![c] = answers[c] \cup {<<count[c] + 1, k>>}]
    /\ inflight' = [inflight EXCEPT ![c] = {}]
    /\ UNCHANGED <<spent, delivered>>

\* Questions of several conversations can be given up at once.
Abort(S) ==
    /\ inflight' = [c \in Conversations |-> IF c \in S THEN {} ELSE inflight[c]]
    /\ UNCHANGED <<count, answers, spent, delivered>>

\* Only what is in the ledger is told, and under its number.
Deliver(c, n, k) ==
    /\ <<n, k>> \in answers[c]
    /\ delivered' = [delivered EXCEPT ![c] = delivered[c] \cup {<<n, k>>}]
    /\ UNCHANGED <<count, answers, inflight, spent>>

Next ==
    \/ \E c \in Conversations, k \in Keys :
          Admit(c, k) \/ Reject(c, k) \/ Complete(c, k)
    \/ \E S \in SUBSET Conversations : Abort(S)
    \/ \E c \in Conversations, k \in Keys : \E n \in 1..count[c] : Deliver(c, n, k)

Spec == Init /\ [][Next]_vars

=============================================================================
