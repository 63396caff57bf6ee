-------------------------- MODULE TranscriptProps --------------------------
(* What must be true of history pages and of the context of prompts.         *)
EXTENDS Transcript

\* Every variable has the shape the code gives it; no time is in the future.
TypeOK ==
    /\ clock \in 0 .. LastTick
    /\ pc \in [Tasks -> {"idle", "asking", "admitted", "generating", "finishing", "done"}]
    /\ began \in [Tasks -> 0 .. clock]
    /\ request \in [Tasks -> {"absent", "pending", "rejected", "failed", "completed"}]
    /\ status \in [Messages -> {"absent", "pending", "failed", "completed"}]
    /\ created_at \in [Messages -> 0 .. clock]
    /\ history \in [Tasks -> SUBSET Messages]
    /\ walk \in [Walks -> {"new", "open", "ended"}]
    /\ before \in [Walks -> 0 .. clock]
    /\ page \in [Walks -> SUBSET Messages]
    /\ earlier \in [Walks -> SUBSET Messages]
    /\ awaited \in [Walks -> SUBSET Messages]

\* What a client has seen, and what it has seen or lost to a tie: a cursor is a
\* time, so a page that is cut between two messages of one time loses the second.
Seen(w) == page[w] \cup earlier[w]
Accounted(w, m) == \E k \in Seen(w) : created_at[k] = created_at[m]

\* A walk loses and repeats nothing but for ties.  Each page is older than all the
\* pages before it, though rows with old times keep being completed; and a client that
\* followed every next_cursor has seen all that was there when it started, whatever
\* limits it chose (the backend prompt: "Paginated authorized question/answer history").
WalkExact ==
    \A w \in Walks :
        /\ \A m \in page[w], k \in earlier[w] : created_at[m] < created_at[k]
        /\ walk[w] = "ended" => \A m \in awaited[w] : Accounted(w, m)

\* An answer on a page was complete, with its question, when the walk started: one
\* that is stored while a client is paging is not older than the cursor, although
\* its time is that of the beginning of _finish, since until then its request was in
\* flight and nothing else could be completed.  Only questions may come up on the
\* way, and WalkExact says that no answer is shown without its question.
NoLateAnswers ==
    \A w \in Walks, t \in Tasks :
        Answer(t) \in Seen(w) => {Question(t), Answer(t)} \subseteq awaited[w]

\* The history in the prompt of a question that may still be answered is what
\* recent_messages would read at any later time: what was read before the awaits
\* of retrieval and generation is not stale, since nothing else of the conversation
\* completes meanwhile.  A worker that was overtaken by recovery may hold stale
\* history, but its answer is refused.
ContextFresh ==
    \A t \in Tasks :
        Pending(t) /\ pc[t] \in {"generating", "finishing"} => history[t] = Recent

=============================================================================
