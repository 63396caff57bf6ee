------------------------------ MODULE Retention ------------------------------
(* The retention job of scripts/maintenance.py deletes old clients with all   *)
(* that refers to them while their visitors go on: questions on their way     *)
(* through RagService.ask, and feedback on answers.  A client stands for      *)
(* itself and its one conversation.  A question is one with a key of its own, *)
(* without recover (both are in RagService).                                  *)
EXTENDS Integers

CONSTANTS
    Clients,
    Questions, Of,        \* the client who asks each
    Votes, About, Says    \* the question each is on, and what it says

Opinions == {"helpful", "unhelpful"}

ASSUME RetentionAssumption ==
    /\ Of \in [Questions -> Clients]
    /\ About \in [Votes -> Questions]
    /\ Says \in [Votes -> Opinions]

Nobody == "nobody"
NoVote == "none"

VARIABLES
    (* committed rows *)
    clients,         \* with their conversations
    row,             \* status of the request of each question, or "none"
    feedback,        \* on the answer to each question
    (* the transaction of the job *)
    doomed,          \* client rows deleted
    current,         \* the client whose rows the cascade is at
    held, emptied,   \* clients whose conversation, and whose requests, are deleted
    (* visitors *)
    pc,              \* of questions
    vote, seen       \* of votes, and the feedback each has read

database == <<clients, row, feedback>>
job == <<doomed, current, held, emptied>>
visitors == <<pc, vote, seen>>
vars == <<database, job, visitors>>

Init ==
    /\ clients = Clients
    /\ row = [q \in Questions |-> "none"]
    /\ feedback = [q \in Questions |-> NoVote]
    /\ doomed = {} /\ current = Nobody /\ held = {} /\ emptied = {}
    /\ pc = [q \in Questions |-> "new"]
    /\ vote = [v \in Votes |-> "new"]
    /\ seen = [v \in Votes |-> NoVote]

Goto(q, label) == pc' = [pc EXCEPT ![q] = label]

-----------------------------------------------------------------------------
(* Locks.                                                                   *)

\* Txn 1 of a question has its conversation FOR UPDATE, and then lock 740092.
HasConversation(q) == pc[q] \in {"admitting", "inserting"}
ConversationFree(q) ==
    /\ Of[q] \notin held
    /\ \A p \in Questions : HasConversation(p) => Of[p] # Of[q]

\* Faulty variant: the lock is one of the connection, and stays there.
AdvisoryFree_Session == \A p \in Questions : pc[p] \notin {"inserting", "running", "answered"}
AdvisoryFree == \A p \in Questions : pc[p] # "inserting"

-----------------------------------------------------------------------------
(* Questions.                                                               *)

\* authorize, in the session of the request.
Authorize(q) ==
    /\ pc[q] = "new"
    /\ Goto(q, IF Of[q] \in clients THEN "authorized" ELSE "refused")
    /\ UNCHANGED <<database, job, vote, seen>>

\* Txn 1 finds the conversation, or answers 404 ...
AdmitLock(q) ==
    /\ pc[q] = "authorized"
    /\ ConversationFree(q)
    /\ Goto(q, IF Of[q] \in clients THEN "admitting" ELSE "refused")
    /\ UNCHANGED <<database, job, vote, seen>>

AdmitCheck(q) ==
    /\ pc[q] = "admitting"
    /\ AdvisoryFree
    /\ Goto(q, "inserting")
    /\ UNCHANGED <<database, job, vote, seen>>

\* ... and inserts the request, which shares the row of the client.
AdmitInsert(q) ==
    /\ pc[q] = "inserting"
    /\ Of[q] \notin doomed
    /\ \/ /\ \A p \in Questions : Of[p] = Of[q] => row[p] # "pending"
          /\ row' = [row EXCEPT ![q] = "pending"]
          /\ Goto(q, "running")
       \/ /\ row' = [row EXCEPT ![q] = "rejected"]
          /\ Goto(q, "refused")
    /\ UNCHANGED <<clients, feedback, job, vote, seen>>

\* The row of the request can be locked: the job has not deleted it, or has
\* ended.
RequestFree(q) == Of[q] \notin emptied

\* _finish takes the request; if it is gone the assertion ends in _fail.
FinishLock(q) ==
    /\ pc[q] = "running"
    /\ RequestFree(q)
    /\ Goto(q, IF row[q] = "pending" THEN "finishing" ELSE "failing")
    /\ UNCHANGED <<database, job, vote, seen>>

FinishCommit(q) ==
    /\ pc[q] = "finishing"
    /\ ConversationFree(q)
    /\ row' = [row EXCEPT ![q] = "completed"]
    /\ Goto(q, "answered")
    /\ UNCHANGED <<clients, feedback, job, vote, seen>>

\* The generation goes wrong, and _fail settles the request, if there is one.
GenerationFails(q) ==
    /\ pc[q] = "running"
    /\ Goto(q, "failing")
    /\ UNCHANGED <<database, job, vote, seen>>

Fail(q) ==
    /\ pc[q] = "failing"
    /\ RequestFree(q)
    /\ row' = IF row[q] = "pending" THEN [row EXCEPT ![q] = "failed"] ELSE row
    /\ Goto(q, "refused")
    /\ UNCHANGED <<clients, feedback, job, vote, seen>>

\* PostgreSQL aborts the transaction: Txn 1 ends in a 500, _finish in _fail.
\* Faulty variant: _finish ends in a 500 as well.
AfterAbort_Unsettled(q) == "refused"
AfterAbort(q) == IF pc[q] = "finishing" THEN "failing" ELSE "refused"
AbortQuestion(q) ==
    /\ Goto(q, AfterAbort(q))
    /\ UNCHANGED <<database, job, vote, seen>>

-----------------------------------------------------------------------------
(* Feedback.                                                                *)

Reply(v, outcome) ==
    /\ vote' = [vote EXCEPT ![v] = outcome]
    /\ seen' = [seen EXCEPT ![v] = NoVote]

\* record: the completed answer, the token, and the vote that is there.
VoteRead(v) ==
    LET q == About[v]
    IN  /\ vote[v] = "new"
        /\ IF row[q] = "completed" /\ Of[q] \in clients
           THEN vote' = [vote EXCEPT ![v] = "read"] /\ seen' = [seen EXCEPT ![v] = feedback[q]]
           ELSE Reply(v, "refused")
        /\ UNCHANGED <<database, job, pc>>

\* The first vote is inserted.  Its foreign keys are looked at in the order in
\* which the migration creates them (alembic/versions/0001_initial.py 254-255):
\* that of the client first, which waits for a client that is being deleted and
\* then finds none, so that a vote that waits holds no message.  Its unique
\* constraint finds a vote that came in between.  Faulty variant: that vote is
\* left, and the visitor thanked.
OnConflict_Ignored == "recorded"
OnConflict == "failed"

VoteInsert(v) ==
    LET q == About[v]
    IN  /\ vote[v] = "read" /\ seen[v] = NoVote
        /\ Of[q] \notin doomed
        /\ IF Of[q] \in clients /\ feedback[q] = NoVote
           THEN Reply(v, "recorded") /\ feedback' = [feedback EXCEPT ![q] = Says[v]]
           ELSE Reply(v, OnConflict) /\ UNCHANGED feedback
        /\ UNCHANGED <<clients, row, job, pc>>

\* Another one is updated, and an error if it is gone; if it says the same
\* there is nothing to update.
VoteUpdate(v) ==
    LET q == About[v]
    IN  /\ vote[v] = "read" /\ seen[v] \notin {NoVote, Says[v]}
        /\ Of[q] \notin emptied
        /\ IF feedback[q] = NoVote
           THEN Reply(v, "failed") /\ UNCHANGED feedback
           ELSE Reply(v, "recorded") /\ feedback' = [feedback EXCEPT ![q] = Says[v]]
        /\ UNCHANGED <<clients, row, job, pc>>

VoteSame(v) ==
    /\ vote[v] = "read" /\ seen[v] = Says[v]
    /\ Reply(v, "recorded")
    /\ UNCHANGED <<database, job, pc>>

-----------------------------------------------------------------------------
(* The job, one transaction.                                                *)

\* DELETE takes the rows of the clients that are past the cutoff by then.
JobStart ==
    /\ doomed = {}
    /\ doomed' \in SUBSET clients \ {{}}
    /\ UNCHANGED <<database, current, held, emptied, visitors>>

\* The cascade goes client by client: first its conversation, which Txn 1 and
\* _finish may hold, then its requests and feedback.
JobTurn(c) ==
    /\ current = Nobody
    /\ c \in doomed \ emptied
    /\ current' = c
    /\ UNCHANGED <<database, doomed, held, emptied, visitors>>

JobConversation ==
    /\ current # Nobody /\ current \notin held
    /\ \A q \in Questions : HasConversation(q) => Of[q] # current
    /\ held' = held \cup {current}
    /\ UNCHANGED <<database, doomed, current, emptied, visitors>>

JobRequests ==
    /\ current \in held
    /\ \A q \in Questions : pc[q] = "finishing" => Of[q] # current
    /\ emptied' = emptied \cup {current}
    /\ current' = Nobody
    /\ UNCHANGED <<database, doomed, held, visitors>>

\* Locks end with the transaction.
JobEnd ==
    /\ doomed' = {} /\ current' = Nobody /\ held' = {} /\ emptied' = {}
    /\ UNCHANGED visitors

\* ON DELETE CASCADE.  Faulty variant: questions on their way are spared.
Deleted_Settled(q) == Of[q] \in doomed /\ row[q] # "pending"
Deleted(q) == Of[q] \in doomed

JobCommit ==
    /\ doomed # {} /\ emptied = doomed
    /\ clients' = clients \ doomed
    /\ row' = [q \in Questions |-> IF Deleted(q) THEN "none" ELSE row[q]]
    /\ feedback' = [q \in Questions |-> IF Deleted(q) THEN NoVote ELSE feedback[q]]
    /\ JobEnd

\* Interrupted, or aborted.
JobLost ==
    /\ doomed # {}
    /\ JobEnd
    /\ UNCHANGED database

-----------------------------------------------------------------------------
(* PostgreSQL aborts any one transaction of a cycle.  The longest has three:   *)
(* the job waits for a conversation whose question waits for lock 740092,      *)
(* which a question has that waits for a client of the job.                   *)

WaitsForJob(q) ==
    \/ pc[q] = "inserting" /\ Of[q] \in doomed
    \/ pc[q] = "finishing" /\ Of[q] \in held
JobWaitsFor(q) ==
    /\ current = Of[q]
    /\ \/ current \notin held /\ HasConversation(q)
       \/ current \in held /\ pc[q] = "finishing"
WaitsFor(q, p) == pc[q] = "admitting" /\ pc[p] = "inserting"

InCycle(q) ==
    \/ JobWaitsFor(q) /\ WaitsForJob(q)
    \/ \E p \in Questions :
          \/ JobWaitsFor(q) /\ WaitsFor(q, p) /\ WaitsForJob(p)
          \/ JobWaitsFor(p) /\ WaitsFor(p, q) /\ WaitsForJob(q)
BreakDeadlock(q) == InCycle(q) /\ (AbortQuestion(q) \/ JobLost)

-----------------------------------------------------------------------------

QuestionStep(q) ==
    \/ AdmitLock(q) \/ AdmitCheck(q) \/ AdmitInsert(q)
    \/ FinishLock(q) \/ FinishCommit(q) \/ Fail(q)
JobStep == (\E c \in Clients : JobTurn(c)) \/ JobConversation \/ JobRequests \/ JobCommit

Next ==
    \/ \E q \in Questions :
          Authorize(q) \/ QuestionStep(q) \/ GenerationFails(q) \/ BreakDeadlock(q)
    \/ \E v \in Votes : VoteRead(v) \/ VoteInsert(v) \/ VoteUpdate(v) \/ VoteSame(v)
    \/ JobStart \/ JobStep \/ JobLost

Spec == Init /\ [][Next]_vars

\* Statements run, locks are granted in the order of the requests, deadlocks are
\* found.  Nobody has to ask or vote, nor start the job again.
FairSpec ==
    /\ Spec
    /\ \A q \in Questions : SF_vars(QuestionStep(q)) /\ WF_vars(BreakDeadlock(q))
    /\ WF_vars(JobStep)

=============================================================================
