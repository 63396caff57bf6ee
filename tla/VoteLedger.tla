----------------------------- MODULE VoteLedger -----------------------------
(* What a visitor is promised of ratings: each vote that is acknowledged      *)
(* counted at one moment, the last to count stands, and nothing is known of   *)
(* an answer that was deleted.                                                *)
CONSTANTS Answers, Votes, About, Says, NoVote

VARIABLES
    stored,    \* of each answer: what the last vote said, or NoVote
    counted,   \* the votes that had their moment
    gone       \* deleted answers

Init ==
    /\ stored = [a \in Answers |-> NoVote]
    /\ counted = {} /\ gone = {}

Count(v) ==
    /\ v \notin counted /\ About[v] \notin gone
    /\ stored' = [stored EXCEPT ![About[v]] = Says[v]]
    /\ counted' = counted \cup {v}
    /\ UNCHANGED gone

Forget(S) ==
    /\ gone' = gone \cup S
    /\ stored' = [a \in Answers |-> IF a \in S THEN NoVote ELSE stored[a]]
    /\ UNCHANGED counted

Next == (\E v \in Votes : Count(v)) \/ (\E S \in SUBSET Answers : Forget(S))

Spec == Init /\ [][Next]_<<stored, counted, gone>>
=============================================================================
