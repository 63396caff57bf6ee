----------------------------- MODULE RagService -----------------------------
(***************************************************************************)
(* The question pipeline of app/rag/service.py over the PostgreSQL tables   *)
(* of app/persistence/models.py, together with the stale-request recovery   *)
(* job of scripts/maintenance.py.                                          *)
(*                                                                         *)
(* A task is one execution of RagService.ask: one authenticated question   *)
(* POST, streamed or not.  Retries of a question are further tasks with    *)
(* the same idempotency key.  A task's steps are cut at its awaits: where  *)
(* it waits for a lock, where it commits, and where it waits for the       *)
(* retriever or the model.  Row locks and the advisory lock 740092 are not *)
(* variables: a transaction holds what it has locked for as long as its    *)
(* task's pc says that it is open.                                         *)
(***************************************************************************)
EXTENDS Integers, FiniteSets

CONSTANTS
    Tasks,            \* executions of RagService.ask
    Conversations,
    Keys,             \* values of the Idempotency-Key header
    Questions,
    QuotaLimit,       \* conversations.quota_limit (100 in the code)
    RequestBudget,    \* settings.monthly_request_budget
    ModelBudget,      \* settings.monthly_model_budget_usd; 0 switches it off
    MaxRequestCost,   \* settings.max_request_cost_usd
    UsageCosts,       \* what a call can cost by the token usage it reports
    RateDenials,      \* rate limits the environment may run into
    Faults,           \* which failures the environment may inflict
    LastMonth         \* bound: months are 0..LastMonth

DenialCodes == {"quota_exhausted", "generation_pending", "ip_rate_limited",
                "model_budget_exhausted", "rate_limited"}
ProviderCodes == {"provider_timeout", "provider_unavailable"}
FailureCodes == ProviderCodes \cup {"generation_cancelled", "worker_lost"}
FaultKinds == {"disconnect", "provider", "database", "crash", "recovery_crash"}

ASSUME RagServiceAssumption ==
    /\ QuotaLimit \in Nat \ {0}
    /\ RequestBudget \in Nat \ {0}
    /\ ModelBudget \in Nat /\ MaxRequestCost \in Nat
    /\ UsageCosts \subseteq Nat
    /\ RateDenials \subseteq {"ip_rate_limited", "rate_limited"}
    /\ Faults \subseteq FaultKinds
    /\ LastMonth \in Nat

\* Only finitely many questions have been asked.
ASSUME FiniteAssumption == IsFiniteSet(Tasks)

\* The README's condition on MAX_REQUEST_COST_USD: "above the worst expected
\* call cost".
ASSUME CostAssumption == \A cost \in UsageCosts : cost <= MaxRequestCost

VARIABLES
    (* the arguments of each ask, which are also columns of its row *)
    conversation_id, idempotency_key, question,
    (* each task *)
    pc,                 \* where it is in ask, _finish or _fail
    code,               \* its local denial, or the code it will fail with
    reply,              \* what its handler gave the client: "ok" or an error code
    reply_used,         \* quota.used of the answer it gave
    (* the database *)
    quota_used,         \* conversations.quota_used
    status,             \* rag_requests.status of the row each task inserted
    error_code, started_at, budget_usd,     \* more of its columns
    charged,            \* the rows whose charged column is true
    response,           \* rag_responses.status of that row
    response_used,      \* quota.used in the stored payload
    user_message, assistant_message,    \* messages.status, by role
    (* the recovery job and the clock *)
    stale,              \* rows with started_at < now() - minutes
    recovering,         \* rows the recovery transaction has locked
    month               \* the calendar month of now()

arguments == <<conversation_id, idempotency_key, question>>
rag_requests == <<status, charged, error_code, started_at, budget_usd>>
rag_responses == <<response, response_used>>
messages == <<user_message, assistant_message>>
database == <<quota_used, rag_requests, rag_responses, messages>>
told == <<reply, reply_used>>
jobs == <<stale, recovering, month>>
vars == <<arguments, pc, code, told, database, jobs>>

-----------------------------------------------------------------------------

\* Txn 1 is open with the conversation row locked.
Admission == {"locked", "deciding", "decided"}
\* Inside the try block of ask.
Generation == {"generating", "finishing", "charging", "returning"}
Live == {"asking"} \cup Admission \cup {"admitted"} \cup Generation \cup {"failing"}

Pending(t) == status[t] = "pending"
RowsOf(c) == {t \in Tasks : status[t] # "absent" /\ conversation_id[t] = c}
SameConversation(t, u) == conversation_id[t] = conversation_id[u]
SameKey(t, u) == /\ SameConversation(t, u)
                 /\ idempotency_key[t] = idempotency_key[u]

\* Which questions will be asked, with which keys, is settled at the start.
Init ==
    /\ conversation_id \in [Tasks -> Conversations]
    /\ idempotency_key \in [Tasks -> Keys]
    /\ question \in [Tasks -> Questions]
    /\ pc = [t \in Tasks |-> "idle"]
    /\ code = [t \in Tasks |-> "none"]
    /\ reply = [t \in Tasks |-> "none"]
    /\ reply_used = [t \in Tasks |-> 0]
    /\ quota_used = [c \in Conversations |-> 0]
    /\ status = [t \in Tasks |-> "absent"]
    /\ charged = {}
    /\ error_code = [t \in Tasks |-> "none"]
    /\ started_at = [t \in Tasks |-> 0]
    /\ budget_usd = [t \in Tasks |-> 0]
    /\ response = [t \in Tasks |-> "absent"]
    /\ response_used = [t \in Tasks |-> 0]
    /\ user_message = [t \in Tasks |-> "absent"]
    /\ assistant_message = [t \in Tasks |-> "absent"]
    /\ stale = {}
    /\ recovering = {}
    /\ month = 0

Goto(t, where) == pc' = [pc EXCEPT ![t] = where]

\* What the handler gives its client: the stored answer of a row, or an error.
Answer(t, row) ==
    /\ reply' = [reply EXCEPT ![t] = "ok"]
    /\ reply_used' = [reply_used EXCEPT ![t] = response_used[row]]
Raise(t, error) ==
    /\ reply' = [reply EXCEPT ![t] = error]
    /\ UNCHANGED reply_used

-----------------------------------------------------------------------------
(* Locks.                                                                  *)

\* SELECT ... FOR UPDATE on the conversation row: nobody else's Txn 1 is open
\* on it.  _finish locks it too, in the step that commits.
\* Faulty variant: a plain SELECT.
ConversationFree_NoLock(c) == TRUE
ConversationFree(c) ==
    \A u \in Tasks : pc[u] \in Admission => conversation_id[u] # c

\* pg_advisory_xact_lock(740092).  Faulty variants: one lock per
\* conversation (the row lock makes it free); pg_advisory_lock, which a pooled
\* connection never gives back.
BudgetLockFree_PerConversation == TRUE
BudgetLockFree_SessionLevel ==
    \A u \in Tasks : status[u] = "absent" /\ pc[u] \notin {"deciding", "decided"}
BudgetLockFree == \A u \in Tasks : pc[u] \notin {"deciding", "decided"}

\* SELECT ... FOR UPDATE on a rag_requests row, by its own task: only the
\* recovery job competes for it.
RowFree(t) == t \notin recovering

-----------------------------------------------------------------------------
(* Txn 1 of ask: replay, admission, the pending or rejected row.            *)

\* The question arrives; it waits for the conversation row.
Post(t) ==
    /\ pc[t] = "idle"
    /\ Goto(t, "asking")
    /\ UNCHANGED <<arguments, code, told, database, jobs>>

\* AuditRepository.by_idempotency.
Previous(t) == {r \in Tasks : status[r] # "absent" /\ SameKey(r, t)}

\* The key has a row: every answer to it comes from that row.  Faulty variant:
\* the status is reported in place of the code.
StoredError_Status(r) == status[r]
StoredError(r) ==
    IF error_code[r] = "none" THEN "generation_failed"
    ELSE error_code[r]

ReplayOf(t, r) ==
    IF question[r] # question[t] THEN Raise(t, "idempotency_conflict")
    ELSE IF Pending(r) THEN Raise(t, "generation_pending")
    ELSE IF status[r] = "completed" /\ response[r] # "absent"
    THEN Answer(t, r)
    ELSE Raise(t, StoredError(r))

AskReplay(t) ==
    /\ pc[t] = "asking"
    /\ ConversationFree(conversation_id[t])
    /\ \E r \in Previous(t) : ReplayOf(t, r)
    /\ Goto(t, "done")
    /\ UNCHANGED <<arguments, code, database, jobs>>

\* The key is new: Txn 1 stays open, holding the conversation row.
AskFresh(t) ==
    /\ pc[t] = "asking"
    /\ ConversationFree(conversation_id[t])
    /\ Previous(t) = {}
    /\ Goto(t, "locked")
    /\ UNCHANGED <<arguments, code, told, database, jobs>>

AskBudgetLock(t) ==
    /\ pc[t] = "locked"
    /\ BudgetLockFree
    /\ Goto(t, "deciding")
    /\ UNCHANGED <<arguments, code, told, database, jobs>>

\* Faulty variant: quota_used > quota_limit.
QuotaExhausted_OffByOne(c) == quota_used[c] > QuotaLimit
QuotaExhausted(c) == quota_used[c] >= QuotaLimit

\* AuditRepository.pending.  Faulty variant: stale rows count as dead.
InFlight_UnlessStale(c) == \E t \in RowsOf(c) \ stale : Pending(t)
InFlight(c) == \E t \in RowsOf(c) : Pending(t)

\* AuditRepository.monthly_count and monthly_cost_usd: the rows of the month
\* of now() and later that are pending or completed.
Counted == {t \in Tasks : status[t] \in {"pending", "completed"}}
CountedSince(m) == {t \in Counted : started_at[t] >= m}

\* The sum of budget_usd over some rows, as the number of their dollars.
Dollars(rows) == UNION {{t} \X (1..budget_usd[t]) : t \in rows}
CostOf(rows) == Cardinality(Dollars(rows))

BudgetExhausted ==
    \/ Cardinality(CountedSince(month)) >= RequestBudget
    \/ ModelBudget > 0 /\ CostOf(CountedSince(month)) + MaxRequestCost > ModelBudget

\* The denials the elif chain can end with; "none" admits.  The two rate limits
\* are met or not as the environment pleases; the second one is tested last.
Denials(c) ==
    IF QuotaExhausted(c) THEN {"quota_exhausted"}
    ELSE IF InFlight(c) THEN {"generation_pending"}
    ELSE (RateDenials \cap {"ip_rate_limited"})
         \cup (IF BudgetExhausted THEN {"model_budget_exhausted"}
               ELSE {"none"} \cup (RateDenials \cap {"rate_limited"}))

\* The checks run under both locks; what commits meanwhile (_finish, _fail,
\* recovery) can only end pending rows.
AskDecide(t) ==
    /\ pc[t] = "deciding"
    /\ \E denial \in Denials(conversation_id[t]) :
          code' = [code EXCEPT ![t] = denial]
    /\ Goto(t, "decided")
    /\ UNCHANGED <<arguments, told, database, jobs>>

\* Row, user message and, for a denial, the outcome; the commit releases both
\* locks.  started_at is the now() of this step, not of the checks.
AskInsert(t) ==
    /\ pc[t] = "decided"
    /\ LET denied == code[t] # "none"
       IN  /\ status' = [status EXCEPT ![t] = IF denied THEN "rejected" ELSE "pending"]
           /\ error_code' = [error_code EXCEPT ![t] = code[t]]
           /\ started_at' = [started_at EXCEPT ![t] = month]
           /\ budget_usd' = [budget_usd EXCEPT ![t] =
                IF ~denied /\ ModelBudget > 0 THEN MaxRequestCost ELSE 0]
           /\ user_message' = [user_message EXCEPT ![t] =
                IF denied THEN "failed" ELSE "pending"]
           /\ response' = [response EXCEPT ![t] = IF denied THEN "rejected" ELSE @]
           /\ IF denied THEN Raise(t, code[t]) ELSE UNCHANGED told
           /\ Goto(t, IF denied THEN "done" ELSE "admitted")
    /\ UNCHANGED <<arguments, code, quota_used, charged, response_used,
                   assistant_message, jobs>>

\* The session is closed and the try block entered.
EnterTry(t) ==
    /\ pc[t] = "admitted"
    /\ Goto(t, "generating")
    /\ UNCHANGED <<arguments, code, told, database, jobs>>

-----------------------------------------------------------------------------
(* The try block of ask, _finish and _fail.                                 *)

\* Retriever and model have answered; neither writes to the database.
Generate(t) ==
    /\ pc[t] = "generating"
    /\ Goto(t, "finishing")
    /\ UNCHANGED <<arguments, code, told, database, jobs>>

\* _finish and _fail act on a row that is still pending, and only then.
\* Faulty variants: the status is not read again under the row lock;
\* stale rows are left to the recovery job.
FinishAllowed_Unchecked(t) == TRUE
FinishAllowed(t) == Pending(t)
FailAllowed_Unchecked(t) == TRUE
FailAllowed_UnlessStale(t) == Pending(t) /\ t \notin stale
FailAllowed(t) == Pending(t)

\* _finish has the rag_requests row; a recovered row ends the task with an
\* AppError, which skips _fail.
FinishLock(t) ==
    /\ pc[t] = "finishing"
    /\ RowFree(t)
    /\ IF FinishAllowed(t)
       THEN Goto(t, "charging") /\ UNCHANGED told
       ELSE Goto(t, "done") /\ Raise(t, "request_recovered")
    /\ UNCHANGED <<arguments, code, database, jobs>>

\* quota.used of the payload.  Faulty variant: built before the increment.
UsedBy_BeforeIncrement(c) == quota_used[c]
UsedBy(c) == quota_used[c] + 1

\* No model was called; or usage is missing, so the reservation is billed; or
\* the reported tokens are.
Billed(t) == {0, budget_usd[t]} \cup UsageCosts

\* _finish gets the conversation row too and commits everything at once.
FinishCommit(t) ==
    /\ pc[t] = "charging"
    /\ LET c == conversation_id[t]
       IN  /\ ConversationFree(c)
           /\ quota_used' = [quota_used EXCEPT ![c] = @ + 1]
           /\ response_used' = [response_used EXCEPT ![t] = UsedBy(c)]
    /\ status' = [status EXCEPT ![t] = "completed"]
    /\ charged' = charged \cup {t}
    /\ \E billed \in Billed(t) : budget_usd' = [budget_usd EXCEPT ![t] = billed]
    /\ response' = [response EXCEPT ![t] = "completed"]
    /\ user_message' = [user_message EXCEPT ![t] = "completed"]
    /\ assistant_message' = [assistant_message EXCEPT ![t] = "completed"]
    /\ Goto(t, "returning")
    /\ UNCHANGED <<arguments, code, told, error_code, started_at, jobs>>

\* The commit is durable; the answer leaves.  Faulty variant: it leaves while
\* the transaction is still open.
ReadyToReturn_Uncommitted == {"charging", "returning"}
ReadyToReturn == {"returning"}
Return(t) ==
    /\ pc[t] \in ReadyToReturn
    /\ Answer(t, t)
    /\ Goto(t, "done")
    /\ UNCHANGED <<arguments, code, database, jobs>>

\* A pending row and its user message fail; it gets its outcome row.
EndRows(rows, error) ==
    LET Failed(column) ==
            [t \in Tasks |-> IF t \in rows THEN "failed" ELSE column[t]]
    IN  /\ status' = Failed(status)
        /\ response' = Failed(response)
        /\ user_message' = Failed(user_message)
        /\ error_code' = [t \in Tasks |-> IF t \in rows THEN error ELSE error_code[t]]
        /\ UNCHANGED <<quota_used, charged, started_at, budget_usd, response_used,
                       assistant_message>>

\* _fail commits; ask raises a 503, or goes on with its cancellation.
FailCommit(t) ==
    /\ pc[t] = "failing"
    /\ RowFree(t)
    /\ IF FailAllowed(t) THEN EndRows({t}, code[t]) ELSE UNCHANGED database
    /\ IF code[t] = "generation_cancelled" THEN UNCHANGED told ELSE Raise(t, code[t])
    /\ Goto(t, "done")
    /\ UNCHANGED <<arguments, code, jobs>>

-----------------------------------------------------------------------------
(* What can go wrong around a task.                                         *)

\* An exception in the try block: what is open rolls back and _fail runs.
FailWith(t, error) ==
    /\ code' = [code EXCEPT ![t] = error]
    /\ Goto(t, "failing")
    /\ UNCHANGED <<arguments, told, database, jobs>>

\* An exception outside of it, or no process left: what is open rolls back.
Vanish(t) ==
    /\ Goto(t, "done")
    /\ UNCHANGED <<arguments, code, told, database, jobs>>

ProviderFails(t) ==
    /\ "provider" \in Faults
    /\ pc[t] = "generating"
    /\ \E error \in ProviderCodes : FailWith(t, error)

\* The client of a stream goes away: stream_message cancels the task at
\* whichever await it is, one of _fail included.
Disconnect(t) ==
    /\ "disconnect" \in Faults
    /\ \/ pc[t] \in Generation /\ FailWith(t, "generation_cancelled")
       \/ pc[t] \in {"asking", "admitted", "failing"} \cup Admission /\ Vanish(t)

\* A statement, a commit or only its acknowledgement is lost.
DatabaseFails(t) ==
    /\ "database" \in Faults
    /\ \/ pc[t] \in Generation /\ FailWith(t, "provider_unavailable")
       \/ pc[t] \in {"asking", "admitted", "failing"} \cup Admission /\ Vanish(t)

\* The process that runs the task dies.
WorkerLost(t) ==
    /\ "crash" \in Faults
    /\ pc[t] \in Live
    /\ Vanish(t)

-----------------------------------------------------------------------------
(* Time, and the job "maintenance recover".                                 *)

MonthRolls ==
    /\ month < LastMonth
    /\ month' = month + 1
    /\ UNCHANGED <<arguments, pc, code, told, database, stale, recovering>>

\* The row's started_at falls behind the job's cutoff; its task may be alive.
Age(t) ==
    /\ Pending(t) /\ t \notin stale
    /\ stale' = stale \cup {t}
    /\ UNCHANGED <<arguments, pc, code, told, database, recovering, month>>

\* Pending rows behind the cutoff, FOR UPDATE SKIP LOCKED: not those _finish
\* has locked.  Faulty variants: no row locks; the comparison reversed.
Recoverable_NoLock == {t \in stale : Pending(t)}
Recoverable_Reversed ==
    {t \in Tasks \ stale : Pending(t) /\ pc[t] # "charging"}
Recoverable == {t \in stale : Pending(t) /\ pc[t] # "charging"}

RecoverSelect ==
    /\ recovering = {}
    /\ Recoverable # {}
    /\ recovering' = Recoverable
    /\ UNCHANGED <<arguments, pc, code, told, database, stale, month>>

RecoverCommit ==
    /\ recovering # {}
    /\ EndRows(recovering, "worker_lost")
    /\ recovering' = {}
    /\ UNCHANGED <<arguments, pc, code, told, stale, month>>

RecoverLost ==
    /\ "recovery_crash" \in Faults
    /\ recovering # {}
    /\ recovering' = {}
    /\ UNCHANGED <<arguments, pc, code, told, database, stale, month>>

-----------------------------------------------------------------------------

\* What the event loop does with a task when nothing goes wrong.
Step(t) ==
    \/ AskReplay(t) \/ AskFresh(t) \/ AskBudgetLock(t) \/ AskDecide(t)
    \/ AskInsert(t) \/ EnterTry(t)
    \/ Generate(t) \/ FinishLock(t) \/ FinishCommit(t) \/ Return(t)
    \/ FailCommit(t)

Failure(t) ==
    ProviderFails(t) \/ Disconnect(t) \/ DatabaseFails(t) \/ WorkerLost(t)

Recovery == RecoverSelect \/ RecoverCommit \/ RecoverLost

Next ==
    \/ \E t \in Tasks : Post(t) \/ Step(t) \/ Failure(t) \/ Age(t)
    \/ Recovery
    \/ MonthRolls

Spec == Init /\ [][Next]_vars

\* The event loop runs every task, locks are granted in order, provider calls
\* end (timeouts, max_tokens), time passes, and the operator runs the recovery
\* job regularly; it is not interrupted for ever.
Fairness ==
    /\ \A t \in Tasks : WF_vars(Step(t)) /\ WF_vars(Age(t))
    /\ WF_vars(RecoverSelect)
    /\ SF_vars(RecoverCommit)

FairSpec == Spec /\ Fairness

=============================================================================
