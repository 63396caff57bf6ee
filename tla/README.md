# Verification of the Mobin AI backend

The backend answers visitors' questions from published articles. A visitor
registers, exchanges a one-time grant for a token that is good for 100 answers
of one conversation, and posts questions, plain or streamed. Everything that
must not go wrong is a matter of order: of transactions on PostgreSQL, of
cancelled tasks, of retries, of a recovery job that runs beside the API. This
directory models those orders in TLA+, checks them with TLC, and proves the
central results with TLAPS for every number of tasks, conversations and keys.

Source paths below are relative to the repository.

## 1. Inventory

### Components, state, operations

| Component | Source | State it keeps | Operations |
|---|---|---|---|
| Question pipeline | `app/rag/service.py`, `persistence/repositories.py`, `persistence/models.py` | `conversations.quota_used`; rows of `rag_requests`, `rag_responses`, `messages`; one asyncio task per question | `ask` (Txn 1, generation), `_finish`, `_fail` |
| Stale-request recovery | `scripts/maintenance.py` 25-59 | none of its own; fails pending rows | `recover_pending` |
| Registration and issuance | `app/clients/service.py`, `app/conversations/service.py` | `clients`, `registration_grants`, `conversations`, `registration_events` | `register`, `create`, `authorize`, `info` |
| Streaming delivery | `app/api/v1/routes.py` 179-268 | per stream: a queue, a task, a frame sequence | `events`, `emit`, the done callback, cancellation |
| Citation filter | `app/rag/retrieval.py` 205-256 | per stream: a buffer of undecided text | `feed`, `finish`, `sanitize_citations`, `validated_citations` |
| Retriever, graph index | `app/rag/retrieval.py` 64-184 | an immutable graph loaded at startup | `retrieve`, `load` |
| Gateways | `app/providers/*.py` | a semaphore of `ai_concurrency` | `complete`, `stream`, `embed`, `verify` |
| Rate limits | `app/core/rate_limit.py`, `AuditRepository.token_count` | `rate_buckets`, and the rows of the last minute | `check_ip_limit`, `token_count` |
| Connections | `app/persistence/database.py` | SQLAlchemy's default pool (5 + 10, 30 s) | `get_session`, `session_factory` |
| Knowledge releases | `scripts/knowledge.py`, `app/main.py` 35-74, 187-201 | release directories, `knowledge_releases`, `article_chunks`, the loaded graph | `stage`, `validate`, `ingest`, `activate`, startup, `ready` |
| Transcript | `MessageRepository.page`, `recent_messages` | reads `messages` | `history`, prompt context |
| Feedback | `app/conversations/feedback_service.py` | `feedback` | `record` |
| Retention | `scripts/maintenance.py` 62-110 | none of its own; deletes clients and what hangs on them | `retention` |
| Request context, errors, metrics, settings, schemas | `app/main.py`, `app/core/*`, `app/api/v1/schemas.py` | request attributes, counters, `security_events` | middleware, handlers |

### How they interact

Components share PostgreSQL and little else: no component calls another one's
process. Locks carry the protocol. Txn 1 of `ask` locks the conversation row
and then the advisory lock 740092; `_finish` locks the request's row and then
the conversation's; `_fail` and recovery lock request rows only; registration
takes one advisory lock per contact in sorted order; issuance locks the grant,
then the client; ingestion and activation take 740091. A stream handler starts
`ask` as a task, reads its events from a queue and cancels it when the client
goes away. The API loads the active release once, at startup.

### What is hard, and what makes each component correct

* **Question pipeline.** Two transactions with a long model call between them:
  what admission has checked (quota, nothing in flight, both budgets) must
  still hold when `_finish` commits, although nothing is locked meanwhile. An
  exception or a cancellation can arrive at every await, also behind a commit.
  Correct: quota never overrun and equal to the stored answers, one row per
  key, four tables that tell one story, final outcomes, replays that return
  what was stored, budgets kept, no row pending for ever, no deadlock.
* **Recovery.** It decides by age, not by liveness, so it races live tasks.
  Correct: exactly one of `_finish`, `_fail`, recovery ends a row.
* **Registration and issuance.** Concurrent registrations of one contact,
  concurrent exchanges of one grant or of two grants of a client. Correct: one
  client per contact, one conversation per client, a grant used once.
* **Streaming.** Correct: frames in the order emitted, none lost, `complete`
  last and only after the commit, every stream ended by a terminal event.
* **Citation filter.** Correct: for every way the model cuts its answer into
  deltas, what was streamed is the sanitized answer.
* **Connections.** A request keeps the connection `authorize` used while `ask`
  takes a second one. Correct: nothing leaks, and requests that wait for
  each other do not wait for ever.
* **Knowledge.** Crashes between files and between transactions, two
  operators, an API that still has the old graph. Correct: at most one active
  release, complete and valid; readiness tells the truth.
* **Transcript.** A message has the time its transaction began, pages go back
  through times, and rows are completed meanwhile. Correct: a walk loses and
  repeats nothing but for ties; no prompt has a context that is out of date.
* **Rate limits, feedback, retention.** Window boundaries; select-then-insert;
  deletion under a running task.

`PROJECT.json` lists the hazards, each at its line, with the properties that
watch it, or a note why none does.

## 2. Plan

Modules are ordered by how much the system depends on them. Each has a
property module, an `MC` module with its configurations and, where marked (P), a proof
module.

1. **RagService** (P): the pipeline and recovery over the database.
   **AnswerLedger**: what the pipeline promises, which RagService implements (P).
2. **Issuance** (P): `register` and `create` over contacts, grants and clients,
   beside the retention job.
3. **CitationFilter** (P): `feed` one delta at a time, against
   `sanitize_citations` of the whole text, over all short texts and cuts.
4. **Stream** (P): `events`, `emit`, the done callback and cancellation around an
   abstract task that ends as RagService's do; uses CitationFilter.
5. **Knowledge** (P): stage, validate, ingest, activate and the workers, with
   crashes anywhere.
6. **Retention** (P): the deletion of clients composed with their questions and
   their feedback, and PostgreSQL's deadlock detector. **VoteLedger**: what
   feedback promises, which Retention implements (P).
7. **ConnectionPool** (P): connections and generation slots of one process.
8. **Transcript** (P): history pages and prompt context beside the tasks that write.

All are done, and every safety property of the passing runs is proved. Left for TLC is
liveness. A module for the hourly bucket and the per-minute count could follow.

## 3. The core model

### RagService

A *task* is one execution of `RagService.ask`. Its arguments (conversation,
idempotency key, question) are fixed in `Init`, in every combination, so a
retry is a second task with the same key and a careless client one that reuses
a key for another question. One variable stands for each database column that
matters, indexed by the task that inserted the row (`absent`: no row), because
a task inserts at most one row, and its response and messages have the row's
identity. `quota_used` is indexed by conversation; `charged` is the set of rows
with the flag.

`pc` is where a task is. Steps are cut at awaits, where another task, another
process or a cancellation can come in between:

| `pc` | Where in the code | Leaves by |
|---|---|---|
| `idle` | not posted | `Post` |
| `asking` | waits for the conversation row (line 64) | `AskReplay`, `AskFresh` |
| `locked` | holds it, waits for 740092 (88) | `AskBudgetLock` |
| `deciding` | holds both, runs the elif chain (89-114) | `AskDecide` |
| `decided` | inserts and commits (115-161) | `AskInsert` |
| `admitted` | committed, before `try` (162-179) | `EnterTry` |
| `generating` | retriever and model (180-234) | `Generate`, `ProviderFails` |
| `finishing` | `_finish` waits for its row (263) | `FinishLock` |
| `charging` | holds it, waits for the conversation, commits (267-327) | `FinishCommit` |
| `returning` | committed, before the return reaches the caller | `Return` |
| `failing` | `_fail` (329-353) | `FailCommit` |
| `done` | has replied, or is gone | |

Locks are no variables. A transaction holds a lock exactly while its task's
`pc` says so: `ConversationFree`, `BudgetLockFree` and `RowFree` read it off.
`_finish` commits in the step that gets its last lock, since nothing it does
after that waits for anyone. Statements read what is committed (READ
COMMITTED); uncommitted writes are part of the step that commits them.

Faults: `Disconnect` cancels a task at any await, inside `try` (then `_fail` runs),
outside of it (the transaction rolls back) or inside `_fail`; `DatabaseFails` loses a statement, a
commit or its acknowledgement; `ProviderFails` is a timeout or an error;
`WorkerLost` ends a task with nothing run after it. The recovery job's
`RecoverSelect` locks the stale pending rows that `_finish` does not hold
(`SKIP LOCKED`), `RecoverCommit` fails them, `RecoverLost` is its death in
between. `Age` moves a pending row behind the cutoff at any time, so the job
may meet live tasks.

Abstracted: texts, ids, HTTP statuses, latencies, token counters; the two rate
limits, which are met or not as the environment pleases; money, in whole units;
time, in months for the budgets and as `stale` for recovery. A conversation is
never deleted here (lines 65-66 and the assertions of `_finish` do not fire).

### AnswerLedger

What a client may rely on: per conversation a ledger of answers numbered from
one, at most `Limit`, one key in flight, each key accepted or refused once, and
clients told only what is in the ledger. The mapping in RagServiceProps takes
`count` from `quota_used`, the entries from completed rows (number from the
stored payload, key from the row), `inflight` from pending rows, `spent` from
all rows, `delivered` from the replies.

## 4. Registration and issuance

### Issuance

A *registration* is one POST of a visitor's contacts, an *exchange* one POST that
presents a grant. Rows are named after what inserted them: a client after its
registration, a grant after the registration it was given to, a conversation
after its exchange; so `client[r]` is the `client_id` of grant `r`, and `email`,
`phone` of a registration that became a client are that row's hashes. Contacts are
numbers, in the order of their hashes, because `lock_contacts` sorts.

| State | Where in the code | Leaves by |
|---|---|---|
| `reg_pc` `locking` | `lock_contacts`: has the advisory locks `held` | `LockContact`, `FindClient` |
| `found` | behind `by_contact_hash`, before the commit | `Register` |
| `ex_pc` `granted` | has its grant's row, waits for the client's | `LockClient` |
| `issuing` | has both rows, before the commit | `Issue` |
| `retiring` | the client rows locked by retention's DELETE so far | `RetireLock`, `RetireCommit` |

Registration and exchange may fail anywhere (`RegistrationLost`, `ExchangeLost`) and
are rolled back. A lock of a client row, and a foreign key to it, wait for an
exchange or a DELETE that has it (`ClientFree`); the DELETE waits for exchanges that
have grants of its clients (`CascadeFree`). The two wait for each other when the
DELETE has the client and the exchange the grant: PostgreSQL aborts either one
(`BreakDeadlock`). `by_contact_hash` may return any client that matches.

Abstracted: names, consents, addresses and events stored beside a client; the
secrecy and encoding of grants and tokens; Turnstile and the rate limit, which agree
or not as the environment pleases; durations (a grant `Expire`s, a client `GrowOld`s at
any time).

## 5. Streaming

### CitationFilter

`Sanitize` is `sanitize_citations`, `Used` is `validated_citations`, `Drain` the loop
of `CitationStreamFilter.feed` over pending text. They are recursive functions over
`Text`, the sequences of `Char`, of which the model's instance has the few that a
citation is made of and one more: the question is where a text is cut. `Patience` is the
32 of line 239: an unclosed bracket is held back until the text behind it is longer. A
citation of more than 30 digits would slip through the stream filter uncleaned and
`StreamFaithful` excludes it (`TooLong`); the ids in use have one or two.

### Stream

One POST to `messages:stream`: the generator `events`, the task it starts, and the
queue between them.

| State | Where in the code | Leaves by |
|---|---|---|
| `handler` `start` | before the first frame | `Open` |
| `opened` | has yielded `retrieving` | `Begin` |
| `reading` | the `while` loop (231-241) | `Relay`, `StopReading` |
| `awaited` | behind `await task` (242) | `Replay`, `Close` |
| `replayed` | has yielded what a replay needs (244-248) | `Close` |
| `closed`, `gone` | at its end; closed by a disconnect | `Finally` |
| `task` `asking` | Txn 1 of `ask` | `Ask` |
| `retrieving` | the retriever | `Retrieve` |
| `streaming` | the loop over the model's deltas (201-212) | `Generate`, `EndGeneration` |
| `finishing` | `_finish` | `Finish` |

A task may fail (`TaskFails`) or be cancelled (`Finally`) wherever it waits; a commit
that was under way may have got through. `DoneCallback` is the callback of line 229,
a step of the event loop of its own. A stored answer ends the task in `Ask` with nothing
emitted. Abstracted: what the task does to the database (that is RagService), the
encoding of frames, heartbeats, the time between them.

## 6. Knowledge releases

### Knowledge

A *version* is the day of its staging and the graph it was staged with, as its name
is made of the date and the graph's digest. `Calendar` says, for each moment, what day
it is and what the website publishes; `Tick` goes to the next moment. An article is a
pair of an id and a content, and one chunk.

| State | Where in the code | Leaves by |
|---|---|---|
| `pc` `staging` | has made the directory (75-77) | `StageBaseline` |
| `staged` | has read the other manifests (84-89) | `StageManifest` |
| `writing` | `write_text` of the manifest (102) | `StageEnd` |
| `embedding` | validated, not ingested, vectors of other releases read (135-152) | `IngestEmbed` |
| `embedded` | waits for 740091 (186) | `IngestLock` |
| `inserting` | has it, has looked again (187), commits | `IngestCommit` |
| `activating` | has it, has checked (206-225), commits | `ActivateCommit` |
| `worker` `loading` | `lifespan` has read the active release (54) | `StartLoad`, `StartFails` |
| `serving`, `unavailable` | started, with and without `rag_service` | `Stop` |

`dir` is `partial` without a manifest, `torn` with half of one, `whole` at the end. Any
command may be `Interrupted` at any of these: its transaction is rolled back, its files
stay. Faults of a worker: it fails to start, or stops. `validate` (a hash, the ids, the
number of nodes) is `Valid`. Abstracted: hashes, which either agree or the file is not
whole; titles and URLs; the cutting of articles into chunks.

## 7. Deletion and feedback

### Retention

The retention job is one transaction. `doomed` are the client rows its DELETE has taken,
`current` the client whose rows the cascade is at, `held` and `emptied` the clients
whose conversation, and whose requests, it has deleted so far. A question goes through
the transactions of `ask` with the locks it takes; a vote through `record`.

| State | Where in the code | Leaves by |
|---|---|---|
| `pc` `authorized` | behind `authorize`, waits for the conversation (`service.py` 64) | `AdmitLock` |
| `admitting` | has it, waits for 740092 (88) | `AdmitCheck` |
| `inserting` | has both; the insert shares the client's row | `AdmitInsert` |
| `running` | retrieves, generates, waits for its row (263) | `FinishLock`, `GenerationFails` |
| `finishing` | has its row, waits for the conversation (267) | `FinishCommit` |
| `failing` | `_fail` | `Fail` |
| `vote` `read` | has read the answer, the token and the feedback | `VoteInsert`, `VoteUpdate`, `VoteSame` |

Two orders cross: the job has the client and wants the conversation, a question the
other way round; and across clients, over 740092, a cycle of three. `InCycle` is what
PostgreSQL's detector finds, `BreakDeadlock` its abort of any transaction in it: Txn 1
ends in a 500, `_finish` in `_fail`. A task whose row is gone fails the assertion of
`_finish` (264), and `_fail` finds nothing (333). A client has one conversation, whose
deletion Issuance shares with this module. Votes are in no cycle: the migration creates
the foreign key of `feedback` to the client before the one to the message
(`0001_initial.py` 254-255), PostgreSQL runs the triggers of an INSERT by name and those
of foreign keys are numbered as they are created, so that a vote waits for a doomed client
before it has shared its message; and the cascade comes to a message only when the
DELETE has the client, for which no vote is at work any more. (Created the other way
round, as the columns of `models.py` stand, a vote would hold the message while it
waits, and the job and the vote could lock each other out.) Not here: retries, recovery,
budgets.

### VoteLedger

Each acknowledged vote counts at one moment, the last to count stands, nothing is kept
of an answer that is gone. In the mapping a vote that says what it has read counts when
it reads (`save` assigns the same value and nothing is written), the others when they
commit.

## 8. Connections and transcript

### ConnectionPool

One uvicorn process. A request's `phase` is what it is doing, `waiting` says that it
waits for what it needs for that: a connection, or a slot of the gateway's semaphore to
`generate`. `own` are requests with the connection of `get_session`, which `authorize`
took and which stays with the request to its end, also of a stream (`routes.py` 32 and
FastAPI's dependencies); `second` those with a connection of a session opened on the way
(Txn 1, `retrieve`, `_finish`, `_fail`, the security event of the middleware). `Goto`
ends a phase: the blocks it leaves give back what they took. `Timeout` is the 30 seconds
of the pool, `Cancel` a stream that is closed. Requests are reused: an `away` one is a
place among the 50 that uvicorn serves. What is done in a transaction is left open.

### Transcript

The messages of one conversation, by the task that writes them and their role. A task is
an `ask` with a key of its own; Txn 1 behind its lock is one step, as is `_finish`, since
RagService interleaves what is in them, but each *begins* in an earlier step (`Post`,
`Generate`), which fixes `created_at`: it is PostgreSQL's `now()`, the start of the
transaction. A task that stops anywhere is a crashed worker; `Recover` may end any
pending row. `Newest(n, rows)` is `ORDER BY created_at DESC, id DESC LIMIT n`, by counting
the rows in front; `Id` is any injective assignment, for UUIDs are random.

A walk is a client that follows `next_cursor` from page to page with any limits
(`Page`). `page` and `earlier` are what it has got, `awaited`, which no code has, is what was
complete at its first page. A cursor is a time of microseconds, in JSON and in the query
string too, so nothing is rounded. `history` is what `recent_messages` returned for the
prompt of a task.

Abstracted: contents; retries of a key, which write nothing; `authorize`. The clock of
the database never goes back.

## 9. Runs

The `Rag` runs use module MCRagService, the `Issuance` runs MCIssuance, the `Stream`
runs MCStream, the others the `MC` module of their component. `CHECK_DEADLOCK FALSE` is
set where a finite set of requests, votes or moments is used up: the system stops when
all have ended. That nothing stops earlier is `EveryAskEnds`, `EveryRegistrationEnds`,
`EveryExchangeEnds`, `EveryStreamEnds` and `AllEnd`, under fairness. Pool has no end and
checks deadlock.

| Run | Question | Instance |
|---|---|---|
| RagQuota | Are quota, audit trail and replies sound, and is the ledger implemented, under every fault? | 3 tasks, 1 conversation, 3 keys, 2 questions, quota 2 |
| RagBudget | Are the global budgets kept, across conversations and over the turn of a month? | 3 tasks, 2 conversations, request budget 2, cost budget 3 with reservations of 2 and bills of 0, 1, 2 |
| RagLiveness | Does every question end, and every pending row, also across conversations that contend for locks? | 3 tasks, 2 conversations, 1 key, crashes of tasks and job, no symmetry |
| RagDisconnect | *Violated:* a disconnect is never left pending | only disconnects |
| Issuance | Do clients, contacts, grants and conversations stay one to one, beside retention, and does every registration and exchange end? | 2 registrations, 2 exchanges, 2 emails, 1 phone, no symmetry |
| IssuanceContacts | *Violated:* one conversation per contact | 3 registrations, 2 exchanges, 1 email, 1 phone |
| Stream | Does the client get every piece in order, `complete` only behind the commit, and an end? | answers of up to 8 characters in deltas of 1 to 4, 1 source, patience 3 |
| StreamUngrounded | *Violated:* the streamed text is the answer | answers of up to 4 characters |
| Knowledge | Is what is served whole, the way back open, an ingested release fixed, and do workers catch up? | 2 operators, 1 worker, 2 graphs, 3 articles, 4 moments on 2 days |
| Retention | Is nothing left of deleted clients, every reply true, every vote counted, every deadlock broken? | 2 clients, 2 questions, 3 votes on one answer |
| Transcript | Does a walk through the history show everything once and in order, and is no prompt's context stale? | 3 questions, 1 client with pages of 1 or 2, prompts with 2 messages, times 0 to 3 |
| Pool | Does nothing leak, and does every request end, though all connections may be waited on by their holders? | 4 requests, 3 connections, 1 slot |

Why the bounds suffice: three tasks are the least that allow a retry beside a
competitor, two admissions for one remaining unit, and a recovery between them.
Quota 2 lets one answer be given, so that the last unit is contended and the
numbering has a second entry. Two keys differ; a third lets all tasks be
strangers. Two months are all a decision and its row can fall into. A budget of
3 with reservations of 2 refuses a second reservation and admits it after a
cheap bill. For issuance, two registrations of one or two contacts overlap in
every way and two exchanges compete for a client through one grant or two; of the two
emails one sorts before the phone, one after it. The third registration of
IssuanceContacts matches what the second one adds. For these two modules, more of
anything is covered by the proofs. The calendar of Knowledge has what makes versions
collide: a correction on the same day with the same graph, the same text on another day
(whose vectors are taken over), a graph that lost more than a fifth of its nodes; two
operators are the least that race, a worker has no effect on another. In Retention, one
question of each of two clients is what the cycle of three transactions takes; two votes
with opposite opinions and a third that repeats one race on an answer while its client is
deleted.
In Transcript three exchanges make six messages, so that a walk takes up to six pages; four
times let a question begin before an answer is stored, and all kinds of messages tie.
In Pool a fourth request waits for the connections that three hold, one slot is
contended. Eight characters hold two citations, or one inside another, and every
delta boundary in them: a delta ends inside a citation, between two, or begins one and
ends another. A source with one digit needs a patience of 3, as one of 30 digits needs
32, and longer unclosed brackets occur, so the patience runs out too.

`TypeOK` gives the shape; in Retention, ConnectionPool and Transcript it is proved and no
run repeats it. `QuotaHolds` bounds the quota and says what `_finish` relies
on: a pending row always has a unit left. `OneInFlight`, `OneRowPerKey`,
`AuditAgrees` relate rows to each other and the four tables among themselves.
`QuotaExact` says the stored payloads number the answers 1..`quota_used`.
`AnswersDurable` and `ErrorsReconciled` relate what clients were told to what
is stored. `TerminalStable` says that no step touches a terminal row.
`RequestBudgetHolds` and `ModelBudgetHolds` count a row in the month it was
started in, which the code does not: it counts from the month of the decision.
`ContactsUnique` and `OneConversationPerClient` are what a unique constraint would
say and the schema does not; `GrantsAccounted` relates consumed grants, conversations
and clients through every deletion.
`ServedWhole` relates directories, tables and what a worker loaded earlier;
`RollbackKept` and `ReleaseImmutable` are about every later command, by whomever.
`NothingLeft` and `RepliesTrue` relate rows, and what visitors were told, to a deletion
that crossed them; `VotesLinearize` is the refinement of VoteLedger. `NothingKept` is
about every way a phase can end, and `GridlockNeedsAll` says how bad holding one
connection while waiting for another can get: the pool of 15 is only ever stuck with 15
questions past `authorize`. The image serves 50 at once, so that can happen, and then
only the pool's timeout helps: some of these questions are answered with an error after
30 seconds.
`WalkExact` and `NoLateAnswers` relate what a client has got on several
pages to what was there when it started, while rows with times in the past keep being
completed; what ties with the last message of a page is lost, and they say no less and no
more. `ContextFresh` relates what was read before generation to what is stored behind
it. (The transcript is in the order of its times, not of its commits: a question that
waits for the commit of an answer sorts before that answer.)
`StreamFaithful` relates three places a piece of text can be in, on both sides of the
queue, to the text as a whole; `SourcesAnnounced` and `CompleteDurable` are the order of
frames against each other and against the commit, for replays as well.

### Fairness

`FairSpec` assumes weak fairness of each task's own steps (the event loop runs
every task; PostgreSQL queues lock requests; provider calls end by their timeouts
and token limits), of `Age` (time passes) and of the recovery job's select
(the repository's README asks the operator to run it regularly), and strong fairness of its
commit: it may be killed, but not every time. Nothing is assumed of arrivals
or faults. For Issuance it assumes weak fairness of the steps of requests that
have begun; strong fairness where a step waits for the row of a client
(`Register`, `LockClient`), since PostgreSQL serves lock queues in order and the row
may be taken and given back over and over; and that a DELETE which has begun goes on
and that deadlocks are found. For Stream: the task's own steps, the done callback and
the generator's steps, which the event loop runs when they are ready. A model that
sends deltas need not be fair: `ai_max_tokens` and `MaxText` end its answer. For
Knowledge: starting a worker may fail, but not every time (strong fairness of its two
steps), and one that is not ready is restarted, as `activate` tells the operator to.
Nothing is assumed of operators. For Retention: strong fairness of the steps of a
question that has begun, because lock queues are served in order; weak fairness of the
cascade and of the deadlock detector. For ConnectionPool: statements and calls end (weak
fairness of the work, by `ai_timeout_seconds` and the 30 seconds of the vector call), pool and
semaphore serve in order of arrival (strong fairness), and the pool's timer runs (weak
fairness of `Timeout`).

### Findings

1. **RagDisconnect / `NotLeftPending`.** The `try` block of `ask` starts after
   Txn 1 has committed and its session is closed (`service.py` 162-179), and
   `_fail` is itself an await (247). A client that disconnects there leaves its
   row pending until the recovery job fails it. The implementation prompt
   (`docs/mobin-ai-backend-implementation-prompt.md:197`) says a disconnect "must be
   reconciled to a completed or cancelled database state, not left pending".
2. **IssuanceContacts / `OneConversationPerContact`.** `register` leaves a client it
   found as it is (`clients/service.py` 44): a phone number that comes with a known
   email is not recorded. A later registration with that number alone inserts a
   second client, and both grants are exchanged. The repository's README (31) says "One
   conversation may be issued per normalized contact". Per client it is one
   (`OneConversationHolds`).

3. **StreamUngrounded / `StreamedIsAnswer`.** Whether an answer cites anything is known
   when the model has ended (`service.py` 220-226). By then the client has read it; the
   insufficient-evidence text is appended, while it alone is stored, replayed and
   returned by the plain route. The implementation prompt (199) says the two routes "share
   validation, authorization, idempotency, RAG, persistence, citation checks".

Seen while modelling, and held against the code by no run: recovery fails a row by its
age, so a generation that outlasts the cutoff (a long stream, or a wait for the gateway's
semaphore) loses its row, the next question is admitted and two generations of a
conversation run, where line 73 of the prompt allows one in flight; the overtaken one is
refused (`TerminalStable`, `ContextFresh`). Unknown citations are removed in one pass (`retrieval.py` 210-216 and the filter
alike), so `[c[c9]9]` becomes `[c9]`, while the stored list of sources stays right; half a
manifest makes every later `stage` fail behind its `mkdir` (`knowledge.py` 84); a release
ingested without vectors can neither be activated in production nor ingested again.

## 10. Proofs

`RagServiceProofs` proves for every value of the constants that satisfies the
named assumptions (`RagServiceAssumption`: limits are natural numbers;
`FiniteAssumption`: finitely many questions were asked, needed for
cardinalities only):

* `TypeCorrect`, `QuotaCorrect` (`QuotaHolds`), `OneInFlightCorrect`,
  `QuotaExactCorrect`, `AuditCorrect` (`AuditAgrees`), `OneRowPerKeyCorrect`,
  `AnswersCorrect` (`AnswersDurable`), `ErrorsCorrect` (`ErrorsReconciled`),
  `OutcomesFinal` (`TerminalStable`), `RequestBudgetCorrect` (`RequestBudgetHolds`).

It also proves `LedgerImplemented`: the initial states map to the empty ledger and each
step to a ledger step or a stutter.

**The invariant.** The safety properties speak of the database, but a task that
is about to write has decided on what it read earlier. `IInv` adds what those
decisions rest on:

* `PhaseOK`: what a task's `pc` says of its row, in particular that a row locked
  by `_finish` is pending and that only a finished task has replied;
* `LocksOK`: one Txn 1 at a time per conversation;
* `FreshOK`: while a Txn 1 is open, its key has no row;
* `DecisionOK`: an admission that is not yet inserted still has a unit of quota
  and no pending row beside it, because `_finish` needs the conversation row to take
  quota and another Txn 1 needs it to insert;
* `RecoveryOK`: rows locked by the job are pending and not being charged;
* `Numbered`: `QuotaExact`, taken apart into range, injectivity, surjectivity.

**The argument.** `StepEffect` reduces the database side of every step to four
effects: none, the insert of Txn 1, the commit of `_finish`, failing pending
rows. Each table property is then preserved by four small cases, and only
`PhaseOK`, `DecisionOK` and `RecoveryOK` look at single actions. The request budget needs
`BudgetInv`: the advisory lock has one holder, and what an admitting holder has counted
is still below the budget when it inserts, for counts of the past only shrink and the
clock only advances. `ModelBudgetCorrect` is proved in the same way, from
`CostAssumption` (no call costs more than its reservation) and `FiniteAssumption`. A sum
of dollars is the number of elements of `Dollars(rows)`, so that the library's facts about
cardinality apply to it. `MoneyInv` adds that a row in flight has its reservation in full:
a bill written by `_finish`, outside the advisory lock, can then only lower the month that
another task has added up.

**Issuance.** `IssuanceProofs` proves `TypeCorrect`, `ContactsUniqueHolds`,
`OneConversationHolds` and `GrantsAccountedHolds` from `IssuanceAssumption` (contacts
are positive numbers, emails are not phones). Its invariant adds what each process
knows under its locks: contact locks are disjoint (`LocksExclusive`); who found nobody
under the locks of its contacts still shares none with any client
(`FoundUnderLock`), because whoever inserts one holds that client's contacts;
grants and clients refer to what changes no more (`RowsSettled`); a locked grant is not
deleted, and a client whose row is locked to issue has no conversation and no other
issuer (`IssueUnderLock`).

**Knowledge.** `KnowledgeProofs` proves `TypeCorrect`, `ServedWholeHolds`,
`RollbackStays` and `ReleasesStay` from `KnowledgeAssumption` (the types of calendar and
node counts). Its invariant follows a release on its way: a directory that is written has
one writer (`StagersApart`), because its `mkdir` found nothing; what a command has
prepared is what the finished directory says (`PreparedRight`), because nothing writes to
it again; behind the advisory lock the version is still not ingested (`LockRight`); a row
stands for a valid directory (`ReleasesRight`); what is active, loaded, or about to be
activated passed the checks of `activate` (`CheckedRight`).

**Retention.** `RetentionProofs` proves `TypeCorrect`, `NothingIsLeft`, `RepliesAreTrue`
and `VotesCorrect` from `RetentionAssumption`. Besides the properties its invariant needs
who holds which lock (`LocksRight`), that the row of a question is where its `pc` says,
unless the client is gone (`RowsRight`), and what a vote that has read may rely on
(`VotesRight`). `VotesCorrect` maps each step to one of VoteLedger or a stutter.

**Citation filter.** `FilterProofs` proves what the recursion of CitationFilter computes,
for any characters and any sources, from `CharAssumption` and `FilterAssumption` (brackets,
`c` and ten digits are different characters; the evidence is a sequence of ids; the
patience is at least what a citation of 30 digits needs). Induction is over sets of numbers
(`Least`, `NatInd`): `Recursion` shows that there is a function that obeys such equations,
so that the ones of the module can be unfolded (`SanitizeUnfolds`, `DrainUnfolds`).
A split of a text into what was put out and what is held back is `Right` if, whatever
follows, both sanitize to the same: what was put out is final. `FeedIsRight` says that
`feed` keeps it so for every delta; `FilterIsSanitize` that at the end of the answer the
output is the sanitized answer. A citation longer than the patience is excluded
(`TooLong`), since the filter gives up on it, as line 239 says.

**Stream.** `StreamProofs` proves `StreamTypes`, `StreamIsFaithful`, `CompleteIsDurable`
and `SourcesAreAnnounced`, for any evidence, deltas, cuts and stored answers, from the
assumptions of the filter and `StreamAssumption` (deltas are texts; a stored answer is a
text, uses sources that are known, and is `INSUFFICIENT` if it uses none). `StreamInv`
follows the sources of an answer: once retrieved they are in the queue or with the client
(`Announced`); an answer that was found instead has left nothing in the queue but `_done`,
which is how the generator knows that it has to replay; `_done` is the last event of the
queue (`EndsWithDone`), so nothing is dropped behind it. What the filter lets through
does not matter to the last two theorems. For the first two `TextInv` follows the text:
while the model answers, what was relayed, what is queued and what is held back are a
`Right` split of what it has said; behind that they are the answer, all of it told or
queued, or none of it when it is a replay. Lemmas on sequences of events and of texts
(`Joined`, `FirstOff`, `OrderJoined`, `FlattenJoined`) take the place of induction over
them.

**Transcript.** `TranscriptProofs` proves `TypeCorrect`, `WalksAreExact`,
`AnswersAreOfTheStart` and `ContextIsFresh` from
`TranscriptAssumption` (finitely many questions; different ids; limits of 1 to 100).
`PageCut` says what a page is, by the rank of a row among the others: nothing that is left
out is newer than what is on it, and the row that is fetched beyond the limit tells truly
whether anything is left out. In the invariant `FlightRight` is what `NoLateAnswers` rests
on: while a request is in flight nothing else is completed, so when its `_finish` begins
nothing completed is newer. `WalkRight` says that what a walk still owes is older than its
cursor, and that the cursor is the time of something it has shown.

**ConnectionPool.** `PoolProofs` proves `TypeCorrect`, `NothingIsKept` and
`NoEarlyGridlock` from `PoolAssumption` (finitely many requests, at least one connection
and one slot). `TypeOK` and `NothingKept` are inductive together. In a standstill nobody
generates, so no slot is taken; nobody is in a transaction, so all connections in use are
first ones; and they are all in use, since somebody waits for one.

Only model-checked is what holds under fairness: `EveryAskEnds`, `PendingResolved`,
`EveryRegistrationEnds`, `EveryExchangeEnds`, `EveryStreamEnds`, `WorkersCatchUp`, `AllEnd`,
`EveryRequestEnds`. Every invariant and action property of the passing runs is the
conclusion of a theorem.

## 11. Not modelled, and why

Texts and their ranking (numeric, and PostgreSQL's full-text search), HTTP
formatting, metrics, settings and pydantic schemas (no state that a protocol
depends on), migrations and deployment, website data and the scripts that built it.
The hourly and the per-minute
limit are one counter and one count each; where they matter they are met or not as the
environment pleases.
