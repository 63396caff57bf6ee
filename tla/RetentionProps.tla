--------------------------- MODULE RetentionProps ---------------------------
(* What must be true of deletion, of those who ask and of those who vote.     *)
EXTENDS Retention

Statuses == {"none", "pending", "rejected", "failed", "completed"}

\* Every variable has the shape the code gives it; the cascade goes from clients
\* that are there to their conversations to their requests.
TypeOK ==
    /\ clients \subseteq Clients
    /\ row \in [Questions -> Statuses]
    /\ feedback \in [Questions -> Opinions \cup {NoVote}]
    /\ emptied \subseteq held /\ held \subseteq doomed /\ doomed \subseteq clients
    /\ current \in doomed \cup {Nobody}
    /\ pc \in [Questions -> {"new", "authorized", "admitting", "inserting", "running",
                             "finishing", "failing", "answered", "refused"}]
    /\ vote \in [Votes -> {"new", "read", "recorded", "refused", "failed"}]
    /\ seen \in [Votes -> Opinions \cup {NoVote}]

\* Of a deleted client nothing is there and nothing comes: no request of a
\* question that was on its way, no vote (README: retention deletes clients,
\* their requests, outcomes, messages and feedback).  There is feedback on
\* completed answers only.
NothingLeft ==
    \A q \in Questions :
        /\ row[q] # "none" => Of[q] \in clients
        /\ feedback[q] # NoVote => row[q] = "completed"

\* What a visitor was told is true as long as the client is there: a shown
\* answer is stored, a refused question is not completed and does not stay
\* pending, which would block the conversation.
RepliesTrue ==
    \A q \in Questions :
        /\ pc[q] = "answered" /\ Of[q] \in clients => row[q] = "completed"
        /\ row[q] = "pending" => pc[q] \in {"running", "finishing", "failing"}
        /\ row[q] = "completed" => pc[q] = "answered"

\* Votes that race each other and the deletion act as one after the other: one
\* that says what it read counts where it read, the others when they commit.
Counted ==
    {v \in Votes : vote[v] = "recorded" \/ (vote[v] = "read" /\ seen[v] = Says[v])}
Ledger == INSTANCE VoteLedger WITH
    Answers <- Questions, stored <- feedback, counted <- Counted,
    gone <- {q \in Questions : Of[q] \notin clients}

\* FeedbackRepository.save, which looks before it writes, implements the ledger
\* of votes.
VotesLinearize == Ledger!Spec

\* Whatever locks cross, no question and no run of the job waits for ever.
AllEnd ==
    /\ \A q \in Questions :
          pc[q] = "authorized" ~> pc[q] \in {"answered", "refused"}
    /\ (doomed # {}) ~> (doomed = {})

=============================================================================
