-------------------------- MODULE RagServiceProps --------------------------
(***************************************************************************)
(* What must hold of RagService.  The properties speak of the database and  *)
(* of what clients were told; none of them mentions where a task is, except *)
(* the last one.                                                           *)
(***************************************************************************)
EXTENDS RagService

RowStatus == {"absent", "pending", "completed", "failed", "rejected"}
ErrorCodes == DenialCodes \cup FailureCodes
Replies == {"none", "ok", "idempotency_conflict", "request_recovered", "generation_failed"}
              \cup ErrorCodes

\* The shape of the state.
TypeOK ==
    /\ conversation_id \in [Tasks -> Conversations]
    /\ idempotency_key \in [Tasks -> Keys]
    /\ question \in [Tasks -> Questions]
    /\ pc \in [Tasks -> {"idle", "done"} \cup Live]
    /\ code \in [Tasks -> {"none"} \cup ErrorCodes]
    /\ reply \in [Tasks -> Replies]
    /\ reply_used \in [Tasks -> Nat]
    /\ quota_used \in [Conversations -> Nat]
    /\ status \in [Tasks -> RowStatus]
    /\ charged \subseteq Tasks
    /\ error_code \in [Tasks -> {"none"} \cup ErrorCodes]
    /\ started_at \in [Tasks -> 0..LastMonth]
    /\ budget_usd \in [Tasks -> Nat]
    /\ response \in [Tasks -> RowStatus]
    /\ response_used \in [Tasks -> Nat]
    /\ user_message \in [Tasks -> RowStatus]
    /\ assistant_message \in [Tasks -> RowStatus]
    /\ stale \subseteq Tasks
    /\ recovering \subseteq Tasks
    /\ month \in 0..LastMonth

\* The quota is never overrun, and a question in flight always has a unit of
\* it left: _finish increments without looking.
QuotaHolds ==
    \A c \in Conversations :
        /\ quota_used[c] <= QuotaLimit
        /\ InFlight(c) => quota_used[c] < QuotaLimit

\* A conversation has at most one pending row.
OneInFlight ==
    \A t, u \in Tasks :
        Pending(t) /\ Pending(u) /\ SameConversation(t, u) => t = u

\* Every unit of quota was charged for one stored answer, and the stored
\* payloads number the answers of a conversation 1, 2, ..., quota_used.
QuotaExact ==
    \A c \in Conversations :
        LET answered == {t \in RowsOf(c) : status[t] = "completed"}
        IN  /\ {response_used[t] : t \in answered} = 1..quota_used[c]
            /\ \A t, u \in answered : response_used[t] = response_used[u] => t = u

\* The four tables tell one story: a row has an outcome exactly when it is no
\* longer pending, outcome and messages agree with it, only completed rows are
\* charged and have an assistant message, and only refused or failed ones
\* carry an error code.
AuditAgrees ==
    \A t \in Tasks :
        /\ response[t] = IF Pending(t) THEN "absent" ELSE status[t]
        /\ user_message[t] = IF status[t] = "rejected" THEN "failed" ELSE status[t]
        /\ assistant_message[t] = IF status[t] = "completed" THEN "completed" ELSE "absent"
        /\ (t \in charged) <=> (status[t] = "completed")
        /\ (error_code[t] # "none") <=> (status[t] \in {"failed", "rejected"})

\* An idempotency key has one row per conversation, by the locking alone: the
\* unique constraint of models.py never fires.
OneRowPerKey ==
    \A t, u \in Tasks :
        status[t] # "absent" /\ status[u] # "absent" /\ SameKey(t, u) => t = u

\* A client that was given an answer was given a stored, completed one, with
\* the payload that is stored now, to its own question under its own key.
AnswersDurable ==
    \A t \in Tasks :
        reply[t] = "ok" =>
            \E r \in Tasks :
                /\ SameKey(r, t) /\ question[r] = question[t]
                /\ status[r] = "completed"
                /\ response_used[r] = reply_used[t]

\* A task that reported a provider failure or an interruption has not left
\* its row pending, and no replay ever needs the fallback code of line 85.
ErrorsReconciled ==
    \A t \in Tasks :
        /\ reply[t] \in ProviderCodes \cup {"request_recovered"} => ~Pending(t)
        /\ reply[t] # "generation_failed"

\* The rows whose reservation or bill counts against month m.
RowsOfMonth(m) == {t \in Counted : started_at[t] = m}

\* No month has more rows than the global request budget allows, although a
\* decision and its row can fall into different months.
RequestBudgetHolds ==
    \A m \in 0..LastMonth : Cardinality(RowsOfMonth(m)) <= RequestBudget

\* Nor do its reservations and bills exceed the model budget, although bills
\* replace reservations outside the advisory lock (CostAssumption).
ModelBudgetHolds ==
    ModelBudget > 0 => \A m \in 0..LastMonth : CostOf(RowsOfMonth(m)) <= ModelBudget

\* An outcome is final: no step changes a completed, failed or rejected row,
\* its response or its messages, whoever finishes late.
TerminalStable ==
    [][\A t \in Tasks :
          status[t] \in {"completed", "failed", "rejected"} =>
             /\ status'[t] = status[t] /\ error_code'[t] = error_code[t]
             /\ budget_usd'[t] = budget_usd[t]
             /\ response'[t] = response[t] /\ response_used'[t] = response_used[t]
             /\ user_message'[t] = user_message[t]
             /\ assistant_message'[t] = assistant_message[t]]_vars

\* Every question that arrived is let go, whatever the locks of the others:
\* neither ask, _finish, _fail nor recovery wait for each other for ever.
EveryAskEnds == \A t \in Tasks : pc[t] = "asking" ~> pc[t] = "done"

\* No row stays pending, even when its worker is lost.
PendingResolved == \A t \in Tasks : Pending(t) ~> ~Pending(t)

-----------------------------------------------------------------------------
(* The ledger a conversation's clients see.                                 *)

KeysOf(rows) == {idempotency_key[t] : t \in rows}
AnswersOf(c) ==
    {<<response_used[t], idempotency_key[t]>> :
        t \in {u \in RowsOf(c) : status[u] = "completed"}}
PendingOf(c) == {t \in RowsOf(c) : Pending(t)}
ToldIn(c) ==
    {<<reply_used[t], idempotency_key[t]>> :
        t \in {u \in Tasks : reply[u] = "ok" /\ conversation_id[u] = c}}

Ledger == INSTANCE AnswerLedger WITH
    Limit <- QuotaLimit,
    count <- quota_used,
    answers <- [c \in Conversations |-> AnswersOf(c)],
    inflight <- [c \in Conversations |-> KeysOf(PendingOf(c))],
    spent <- [c \in Conversations |-> KeysOf(RowsOf(c))],
    delivered <- [c \in Conversations |-> ToldIn(c)]

\* The pipeline implements the ledger: under any interleaving of tasks,
\* failures and recoveries, its answers are numbered without gaps, each key is
\* accepted at most once, and clients are only told what is in the ledger.
ImplementsLedger == Ledger!Spec

-----------------------------------------------------------------------------
(* A statement of the implementation prompt that the code does not keep.    *)

\* docs/mobin-ai-backend-implementation-prompt.md:197: a client disconnect is
\* "reconciled to a completed or cancelled database state, not left pending".
\* A task that is over has no pending row (checked without crashes).
NotLeftPending == \A t \in Tasks : pc[t] = "done" => ~Pending(t)

=============================================================================
