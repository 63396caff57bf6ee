----------------------------- MODULE Transcript -----------------------------
(***************************************************************************)
(* The messages of one conversation and those who read them: the history   *)
(* pages of MessageRepository.page, walked by clients from cursor to       *)
(* cursor, and the prompt context of ConversationRepository                *)
(* .recent_messages.  Both order messages by created_at and id, and        *)
(* created_at is the now() of PostgreSQL: when the transaction that wrote  *)
(* a message began, not when it committed.                                 *)
(*                                                                         *)
(* A task is an execution of RagService.ask with a key of its own.  What   *)
(* Txn 1 does behind the lock of the conversation row is one step here,    *)
(* and so is _finish: RagService interleaves them.  A task that takes no   *)
(* more steps stands for a worker that crashed.                            *)
(***************************************************************************)
EXTENDS Integers, FiniteSets

CONSTANTS
    Tasks,
    Walks,        \* clients that page through the history
    Id,           \* messages.id: uuid4, so in no particular order
    Limits,       \* what clients ask for per page
    Window,       \* recent messages in a prompt (6)
    LastTick      \* bound: times are 0..LastTick

Messages == Tasks \X {"user", "assistant"}
Question(t) == <<t, "user">>
Answer(t) == <<t, "assistant">>

\* Query(20, ge=1, le=100); no two messages have the same primary key.
ASSUME TranscriptAssumption ==
    /\ IsFiniteSet(Tasks)
    /\ Id \in [Messages -> Nat]
    /\ \A m, k \in Messages : Id[m] = Id[k] => m = k
    /\ Limits \subseteq 1..100
    /\ Window \in Nat
    /\ LastTick \in Nat

VARIABLES
    clock,            \* now() of the database
    pc,               \* where each task is in ask
    began,            \* now() of the transaction it has open
    request,          \* rag_requests.status of its row
    status,           \* messages.status
    created_at,       \* messages.created_at
    history,          \* the recent messages its prompt has
    walk,             \* whether a client has a next_cursor
    before,           \* which
    page,             \* the messages of the last page it got
    earlier,          \* those of the pages before
    awaited           \* those that were complete when it started

tasks == <<pc, began, history>>
database == <<request, status, created_at>>
walks == <<walk, before, page, earlier, awaited>>
vars == <<clock, tasks, database, walks>>

Pending(t) == request[t] = "pending"
Completed == {m \in Messages : status[m] = "completed"}

Init ==
    /\ clock = 0
    /\ pc = [t \in Tasks |-> "idle"]
    /\ began = [t \in Tasks |-> 0]
    /\ request = [t \in Tasks |-> "absent"]
    /\ status = [m \in Messages |-> "absent"]
    /\ created_at = [m \in Messages |-> 0]
    /\ history = [t \in Tasks |-> {}]
    /\ walk = [w \in Walks |-> "new"]
    /\ before = [w \in Walks |-> 0]
    /\ page = [w \in Walks |-> {}]
    /\ earlier = [w \in Walks |-> {}]
    /\ awaited = [w \in Walks |-> {}]

Tick ==
    /\ clock < LastTick
    /\ clock' = clock + 1
    /\ UNCHANGED <<tasks, database, walks>>

-----------------------------------------------------------------------------
(* ORDER BY created_at DESC, id DESC LIMIT n.                               *)

Newer(m, k) ==
    \/ created_at[m] > created_at[k]
    \/ created_at[m] = created_at[k] /\ Id[m] > Id[k]

Newest(n, rows) ==
    {m \in rows : Cardinality({k \in rows : Newer(k, m)}) < n}

-----------------------------------------------------------------------------
(* ask.                                                                     *)

Goto(t, where) == pc' = [pc EXCEPT ![t] = where]
Begin(t) == began' = [began EXCEPT ![t] = clock]

\* Txn 1 begins, and waits for the conversation row.
Post(t) ==
    /\ pc[t] = "idle"
    /\ Begin(t)
    /\ Goto(t, "asking")
    /\ UNCHANGED <<clock, history, database, walks>>

\* Row and user message of a question, in one commit.
Insert(t, outcome, message) ==
    /\ request' = [request EXCEPT ![t] = outcome]
    /\ status' = [status EXCEPT ![Question(t)] = message]
    /\ created_at' = [created_at EXCEPT ![Question(t)] = began[t]]

\* AuditRepository.pending.  Faulty variant: nobody looks.
InFlight_Unseen == FALSE
InFlight == \E t \in Tasks : Pending(t)

Admit(t) ==
    /\ pc[t] = "asking"
    /\ ~InFlight
    /\ Insert(t, "pending", "pending")
    /\ Goto(t, "admitted")
    /\ UNCHANGED <<clock, began, history, walks>>

\* For want of quota or budget, for a limit, or since one is in flight.
Deny(t) ==
    /\ pc[t] = "asking"
    /\ Insert(t, "rejected", "failed")
    /\ Goto(t, "done")
    /\ UNCHANGED <<clock, began, history, walks>>

\* recent_messages, after retrieval.
Recent == Newest(Window, Completed)
Remember(t) ==
    /\ pc[t] = "admitted"
    /\ history' = [history EXCEPT ![t] = Recent]
    /\ Goto(t, "generating")
    /\ UNCHANGED <<clock, began, database, walks>>

\* The model has answered; the transaction of _finish begins, and waits.
Generate(t) ==
    /\ pc[t] = "generating"
    /\ Begin(t)
    /\ Goto(t, "finishing")
    /\ UNCHANGED <<clock, history, database, walks>>

\* The question is completed with its answer.
AnswerStored(t) ==
    /\ status' = [status EXCEPT ![Question(t)] = "completed", ![Answer(t)] = "completed"]
    /\ created_at' = [created_at EXCEPT ![Answer(t)] = began[t]]

\* _finish commits, unless the row was recovered.  Faulty variant: it does not
\* look.
FinishAllowed_Unchecked(t) == TRUE
FinishAllowed(t) == Pending(t)
Finish(t) ==
    /\ pc[t] = "finishing"
    /\ IF FinishAllowed(t)
       THEN request' = [request EXCEPT ![t] = "completed"] /\ AnswerStored(t)
       ELSE UNCHANGED database
    /\ Goto(t, "done")
    /\ UNCHANGED <<clock, began, history, walks>>

\* A pending row fails with its user message.
FailRow(t) ==
    /\ request' = [request EXCEPT ![t] = "failed"]
    /\ status' = [status EXCEPT ![Question(t)] = "failed"]
    /\ UNCHANGED created_at

\* Provider, database or client fail a task inside its try block: _fail.
Fail(t) ==
    /\ pc[t] \in {"admitted", "generating", "finishing"}
    /\ IF Pending(t) THEN FailRow(t) ELSE UNCHANGED database
    /\ Goto(t, "done")
    /\ UNCHANGED <<clock, began, history, walks>>

\* recover_pending, for a row that has become stale.
Recover(t) ==
    /\ Pending(t)
    /\ FailRow(t)
    /\ UNCHANGED <<clock, tasks, walks>>

-----------------------------------------------------------------------------
(* GET /conversations/{id}/messages.                                        *)

\* created_at < before.
IsBefore(m, cursor) == created_at[m] < cursor

\* What a page is cut from: the first one has no cursor.
Eligible(w) == {m \in Completed : walk[w] = "new" \/ IsBefore(m, before[w])}

Oldest(rows) == CHOOSE m \in rows : \A k \in rows : k = m \/ Newer(k, m)

\* rows[limit - 1].created_at.  Faulty variant: of rows[limit], the row that was
\* fetched only to see whether there is more.
Cursor_PastTheEnd(limit, rows) == created_at[Oldest(Newest(limit + 1, rows))]
Cursor(limit, rows) == created_at[Oldest(Newest(limit, rows))]

\* len(rows) > limit, of limit + 1 rows.
MoreThan(limit, rows) == Cardinality(Newest(limit + 1, rows)) > limit

\* A client that got a next_cursor follows it, with the limit it likes.
Page(w, limit) ==
    /\ walk[w] # "ended"
    /\ page' = [page EXCEPT ![w] = Newest(limit, Eligible(w))]
    /\ earlier' = [earlier EXCEPT ![w] = @ \cup page[w]]
    /\ awaited' = IF walk[w] = "new" THEN [awaited EXCEPT ![w] = Completed] ELSE awaited
    /\ IF MoreThan(limit, Eligible(w))
       THEN /\ before' = [before EXCEPT ![w] = Cursor(limit, Eligible(w))]
            /\ walk' = [walk EXCEPT ![w] = "open"]
       ELSE /\ walk' = [walk EXCEPT ![w] = "ended"]
            /\ UNCHANGED before
    /\ UNCHANGED <<clock, tasks, database>>

-----------------------------------------------------------------------------

Ask(t) ==
    \/ Post(t) \/ Admit(t) \/ Deny(t)
    \/ Remember(t) \/ Generate(t) \/ Finish(t) \/ Fail(t)

Next ==
    \/ Tick
    \/ \E t \in Tasks : Ask(t) \/ Recover(t)
    \/ \E w \in Walks, limit \in Limits : Page(w, limit)

Spec == Init /\ [][Next]_vars

=============================================================================
