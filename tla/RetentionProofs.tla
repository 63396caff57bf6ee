--------------------------- MODULE RetentionProofs ---------------------------
(* Deletion beside questions and votes, for every number of each.             *)
EXTENDS RetentionProps, TLAPS

Unasked == {"new", "authorized", "admitting", "inserting"}

(* Who has a lock has what it locks.                                         *)
LocksRight ==
    \A q \in Questions :
        /\ HasConversation(q) => Of[q] \in clients \ held
        /\ pc[q] = "finishing" => Of[q] \notin emptied /\ row[q] = "pending"

(* The row of a question before and after it was admitted.                   *)
RowsRight ==
    \A q \in Questions :
        /\ pc[q] \in Unasked => row[q] = "none"
        /\ pc[q] \in {"running", "failing"} => row[q] \in {"none", "pending"}

(* Who read about an answer read of one that stays until its client goes.    *)
VotesRight ==
    \A v \in Votes :
        vote[v] = "read" /\ Of[About[v]] \in clients => row[About[v]] = "completed"

IInv == TypeOK /\ LocksRight /\ RowsRight /\ VotesRight /\ NothingLeft /\ RepliesTrue

-----------------------------------------------------------------------------

LEMMA TypeInit == Init => TypeOK
BY RetentionAssumption DEF Init, TypeOK, Statuses

LEMMA TypeNext == TypeOK /\ [Next]_vars => TypeOK'
<1> SUFFICES ASSUME TypeOK, [Next]_vars PROVE TypeOK'
  OBVIOUS
<1> USE RetentionAssumption DEF TypeOK, Statuses
<1>1. ASSUME NEW q \in Questions,
             \/ Authorize(q) \/ AdmitLock(q) \/ AdmitCheck(q) \/ AdmitInsert(q)
             \/ FinishLock(q) \/ FinishCommit(q) \/ GenerationFails(q) \/ Fail(q)
      PROVE  TypeOK'
  BY <1>1 DEF Authorize, AdmitLock, AdmitCheck, AdmitInsert, FinishLock, FinishCommit,
              GenerationFails, Fail, Goto, database, job
<1>2. ASSUME NEW q \in Questions, AbortQuestion(q) PROVE TypeOK'
  BY <1>2 DEF AbortQuestion, AfterAbort, Goto, database, job
<1>3. ASSUME NEW v \in Votes, VoteRead(v) \/ VoteInsert(v) \/ VoteUpdate(v) \/ VoteSame(v)
      PROVE  TypeOK'
  BY <1>3 DEF VoteRead, VoteInsert, VoteUpdate, VoteSame, Reply, OnConflict, database, job
<1>4. ASSUME JobEnd, UNCHANGED database \/ JobCommit PROVE TypeOK'
  BY <1>4 DEF JobEnd, JobCommit, database, visitors
<1>5. ASSUME JobStart \/ (\E c \in Clients : JobTurn(c)) \/ JobConversation \/ JobRequests
      PROVE  TypeOK'
  BY <1>5 DEF JobStart, JobTurn, JobConversation, JobRequests, database, visitors
<1>6. CASE UNCHANGED vars
  BY <1>6 DEF vars, database, job, visitors
<1> QED
  BY <1>1, <1>2, <1>3, <1>4, <1>5, <1>6
     DEF Next, QuestionStep, JobStep, JobCommit, JobLost, BreakDeadlock

-----------------------------------------------------------------------------
(* The steps of questions, of votes and of the job.                          *)

Rest == LocksRight /\ RowsRight /\ VotesRight /\ NothingLeft /\ RepliesTrue

LEMMA QuestionKeeps ==
    ASSUME IInv, NEW q \in Questions,
           \/ Authorize(q) \/ AdmitLock(q) \/ AdmitCheck(q) \/ AdmitInsert(q)
           \/ FinishLock(q) \/ FinishCommit(q) \/ GenerationFails(q) \/ Fail(q)
           \/ AbortQuestion(q) /\ pc[q] \in {"admitting", "inserting", "finishing"}
    PROVE  Rest'
<1> USE RetentionAssumption DEF IInv, TypeOK, LocksRight, RowsRight, HasConversation, Unasked
<1>1. UNCHANGED <<clients, feedback, doomed, held, emptied, vote>>
  BY DEF Authorize, AdmitLock, AdmitCheck, AdmitInsert, FinishLock, FinishCommit,
         GenerationFails, Fail, AbortQuestion, database, job
<1>2. \A p \in Questions \ {q} : pc'[p] = pc[p] /\ row'[p] = row[p]
  BY DEF Authorize, AdmitLock, AdmitCheck, AdmitInsert, FinishLock, FinishCommit,
         GenerationFails, Fail, AbortQuestion, Goto, database
<1>3. /\ HasConversation(q)' => Of[q] \in clients \ held
      /\ pc'[q] = "finishing" => Of[q] \notin emptied /\ row'[q] = "pending"
      /\ pc'[q] \in Unasked => row'[q] = "none"
      /\ pc'[q] \in {"running", "failing"} => row'[q] \in {"none", "pending"}
  <2>1. CASE Authorize(q) \/ AdmitLock(q) \/ AdmitCheck(q) \/ AdmitInsert(q)
    BY <2>1 DEF Authorize, AdmitLock, AdmitCheck, AdmitInsert, ConversationFree, Goto, database
  <2>2. CASE FinishLock(q) \/ FinishCommit(q) \/ GenerationFails(q) \/ Fail(q)
    BY <2>2 DEF FinishLock, FinishCommit, GenerationFails, Fail, RequestFree, Goto, database
  <2>3. CASE AbortQuestion(q) /\ pc[q] \in {"admitting", "inserting", "finishing"}
    BY <2>3 DEF AbortQuestion, AfterAbort, Goto, database
  <2> QED  BY <2>1, <2>2, <2>3
<1>4. LocksRight' /\ RowsRight'
  BY <1>1, <1>2, <1>3
<1>5. /\ row'[q] = row[q] \/ (row[q] \in {"none", "pending"} /\ Of[q] \in clients)
      /\ pc'[q] = "answered" /\ Of[q] \in clients => row'[q] = "completed"
      /\ row'[q] = "pending" => pc'[q] \in {"running", "finishing", "failing"}
      /\ row'[q] = "completed" => pc'[q] = "answered"
  <2>1. CASE Authorize(q) \/ AdmitLock(q) \/ AdmitCheck(q) \/ AdmitInsert(q)
    BY <2>1 DEF Authorize, AdmitLock, AdmitCheck, AdmitInsert, Goto, database, RepliesTrue
  <2>2. CASE FinishLock(q) \/ FinishCommit(q) \/ GenerationFails(q) \/ Fail(q)
    BY <2>2 DEF FinishLock, FinishCommit, GenerationFails, Fail, Goto, database, RepliesTrue,
                NothingLeft
  <2>3. CASE AbortQuestion(q) /\ pc[q] \in {"admitting", "inserting", "finishing"}
    BY <2>3 DEF AbortQuestion, AfterAbort, Goto, database, RepliesTrue
  <2> QED  BY <2>1, <2>2, <2>3
<1>6. VotesRight'
  BY <1>1, <1>2, <1>5 DEF VotesRight
<1>7. NothingLeft' /\ RepliesTrue'
  BY <1>1, <1>2, <1>5 DEF NothingLeft, RepliesTrue
<1> QED  BY <1>4, <1>6, <1>7 DEF Rest

LEMMA VoteKeeps ==
    ASSUME IInv, NEW v \in Votes,
           VoteRead(v) \/ VoteInsert(v) \/ VoteUpdate(v) \/ VoteSame(v)
    PROVE  Rest'
<1> USE RetentionAssumption DEF IInv, TypeOK
<1>1. UNCHANGED <<clients, row, doomed, held, emptied, pc>>
  BY DEF VoteRead, VoteInsert, VoteUpdate, VoteSame, database, job
<1>2. LocksRight' /\ RowsRight' /\ RepliesTrue'
  BY <1>1 DEF LocksRight, RowsRight, RepliesTrue, HasConversation
<1>3. VotesRight'
  BY <1>1 DEF VotesRight, VoteRead, VoteInsert, VoteUpdate, VoteSame, Reply, OnConflict
<1>4. \A q \in Questions : feedback'[q] # NoVote => feedback[q] # NoVote \/ row[q] = "completed"
  BY DEF VotesRight, VoteRead, VoteInsert, VoteUpdate, VoteSame, database
<1> QED  BY <1>1, <1>2, <1>3, <1>4 DEF NothingLeft, Rest

LEMMA JobKeeps ==
    ASSUME IInv, JobStart \/ JobStep \/ JobLost
    PROVE  Rest'
<1> USE RetentionAssumption DEF IInv, TypeOK
<1>1. UNCHANGED <<pc, vote, seen>>
  BY DEF JobStart, JobStep, JobTurn, JobConversation, JobRequests, JobCommit, JobLost, JobEnd,
         visitors
<1>2. CASE JobCommit
  <2>1. \A q \in Questions :
            Of[q] \in doomed => ~HasConversation(q) /\ pc[q] # "finishing"
    BY <1>2 DEF JobCommit, LocksRight
  <2>2. /\ clients' = clients \ doomed /\ held' = {} /\ emptied' = {}
        /\ row' = [q \in Questions |-> IF Of[q] \in doomed THEN "none" ELSE row[q]]
        /\ feedback' = [q \in Questions |-> IF Of[q] \in doomed THEN NoVote ELSE feedback[q]]
    BY <1>2 DEF JobCommit, JobEnd, Deleted
  <2>3. LocksRight' /\ RowsRight'
    BY <1>1, <2>1, <2>2 DEF LocksRight, RowsRight, HasConversation
  <2>4. VotesRight' /\ NothingLeft' /\ RepliesTrue'
    BY <1>1, <2>2 DEF VotesRight, NothingLeft, RepliesTrue
  <2> QED  BY <2>3, <2>4 DEF Rest
<1>3. ASSUME UNCHANGED database, LocksRight' PROVE Rest'
  BY <1>1, <1>3 DEF Rest, RowsRight, VotesRight, NothingLeft, RepliesTrue, database
<1>4. CASE JobStart \/ JobLost \/ \E c \in Clients : JobTurn(c)
  BY <1>1, <1>3, <1>4 DEF JobStart, JobLost, JobTurn, JobEnd, LocksRight, HasConversation, database
<1>5. CASE JobConversation \/ JobRequests
  BY <1>1, <1>3, <1>5 DEF JobConversation, JobRequests, LocksRight, HasConversation, database
<1> QED  BY <1>2, <1>4, <1>5 DEF JobStep

-----------------------------------------------------------------------------

THEOREM Invariance == Spec => []IInv
<1>1. Init => IInv
  BY TypeInit DEF Init, IInv, LocksRight, RowsRight, VotesRight, NothingLeft, RepliesTrue,
     HasConversation, Unasked
<1>2. IInv /\ [Next]_vars => IInv'
  <2> SUFFICES ASSUME IInv, [Next]_vars PROVE Rest'
    BY TypeNext DEF IInv, Rest
  <2>1. CASE UNCHANGED vars
    BY <2>1 DEF vars, database, job, visitors, IInv, Rest, LocksRight, RowsRight, VotesRight,
                NothingLeft, RepliesTrue, HasConversation
  <2>2. ASSUME NEW q \in Questions, InCycle(q)
        PROVE  pc[q] \in {"admitting", "inserting", "finishing"}
    BY <2>2 DEF InCycle, WaitsForJob, JobWaitsFor, WaitsFor, HasConversation
  <2>3. ASSUME NEW q \in Questions, BreakDeadlock(q) PROVE Rest'
    BY <2>2, <2>3, QuestionKeeps, JobKeeps DEF BreakDeadlock
  <2> QED  BY <2>1, <2>3, QuestionKeeps, VoteKeeps, JobKeeps DEF Next, QuestionStep
<1> QED  BY <1>1, <1>2, PTL DEF Spec

\* TypeOK, with the order of the cascade.
THEOREM TypeCorrect == Spec => []TypeOK
BY Invariance, PTL DEF IInv

\* NothingLeft: a deleted client leaves no request and no vote, whoever was at
\* work.
THEOREM NothingIsLeft == Spec => []NothingLeft
BY Invariance, PTL DEF IInv

\* RepliesTrue: what visitors were told holds while their client is there.
THEOREM RepliesAreTrue == Spec => []RepliesTrue
BY Invariance, PTL DEF IInv

-----------------------------------------------------------------------------
(* Votes refine the ledger.                                                  *)

Gone == {q \in Questions : Of[q] \notin clients}

LEMMA LedgerFrame ==
    ASSUME UNCHANGED <<feedback, Counted, Gone>>
    PROVE  [Ledger!Next]_<<feedback, Counted, Gone>>
OBVIOUS

LEMMA VoteRefines ==
    ASSUME IInv, NEW v \in Votes,
           VoteRead(v) \/ VoteInsert(v) \/ VoteUpdate(v) \/ VoteSame(v)
    PROVE  [Ledger!Next]_<<feedback, Counted, Gone>>
<1> USE RetentionAssumption DEF IInv, TypeOK
<1>1. Gone' = Gone
  BY DEF VoteRead, VoteInsert, VoteUpdate, VoteSame, database, Gone
<1>2. \A u \in Votes \ {v} : vote'[u] = vote[u] /\ seen'[u] = seen[u]
  BY DEF VoteRead, VoteInsert, VoteUpdate, VoteSame, Reply
<1>3. \A u \in Votes \ {v} : u \in Counted' <=> u \in Counted
  BY <1>2 DEF Counted
<1>4. Says[v] # NoVote
  BY DEF Opinions, NoVote
<1>5. CASE (v \in Counted' <=> v \in Counted) /\ UNCHANGED feedback
  BY <1>1, <1>3, <1>5, LedgerFrame DEF Counted
<1>6. CASE /\ v \notin Counted /\ v \in Counted' /\ Of[About[v]] \in clients
           /\ feedback' = [feedback EXCEPT ![About[v]] = Says[v]]
  <2>1. Counted' = Counted \cup {v}
    BY <1>3, <1>6 DEF Counted
  <2>2. Ledger!Count(v)
    BY <1>1, <1>6, <2>1 DEF Ledger!Count, Gone
  <2> QED  BY <2>2 DEF Ledger!Next
<1>7. CASE VoteRead(v)
  BY <1>5, <1>6, <1>7 DEF VoteRead, Reply, Counted, database
<1>8. CASE VoteInsert(v)
  BY <1>4, <1>5, <1>6, <1>8 DEF VoteInsert, Reply, OnConflict, Counted
<1>9. CASE VoteUpdate(v)
  BY <1>5, <1>6, <1>9 DEF VoteUpdate, Reply, Counted, NothingLeft
<1>10. CASE VoteSame(v)
  BY <1>5, <1>10 DEF VoteSame, Reply, Counted, database
<1> QED  BY <1>7, <1>8, <1>9, <1>10

\* VotesLinearize: every vote that is acknowledged counts at one moment between
\* its reading and its reply, and none on an answer that is gone.
THEOREM VotesCorrect == Spec => VotesLinearize
<1>1. Init => Ledger!Init
  BY RetentionAssumption DEF Init, Ledger!Init, Counted
<1>2. IInv /\ [Next]_vars => [Ledger!Next]_<<feedback, Counted, Gone>>
  <2> SUFFICES ASSUME IInv, [Next]_vars PROVE [Ledger!Next]_<<feedback, Counted, Gone>>
    OBVIOUS
  <2>1. CASE JobCommit
    <3> DEFINE S == {q \in Questions : Of[q] \in doomed}
    <3>1. Gone' = Gone \cup S
      BY <2>1 DEF JobCommit, Gone
    <3>2. Counted' = Counted
      BY <2>1 DEF JobCommit, JobEnd, visitors, Counted
    <3>3. feedback' = [q \in Questions |-> IF q \in S THEN NoVote ELSE feedback[q]]
      BY <2>1 DEF JobCommit, Deleted
    <3>4. Ledger!Forget(S) /\ S \in SUBSET Questions
      BY <3>1, <3>2, <3>3 DEF Ledger!Forget, Gone
    <3> HIDE DEF S
    <3>5. \E T \in SUBSET Questions : Ledger!Forget(T)
      BY <3>4 DEF Ledger!Forget
    <3>6. Ledger!Next
      BY <3>5 DEF Ledger!Next
    <3> QED  BY <3>6
  <2>2. ASSUME NEW v \in Votes,
               VoteRead(v) \/ VoteInsert(v) \/ VoteUpdate(v) \/ VoteSame(v)
        PROVE  [Ledger!Next]_<<feedback, Counted, Gone>>
    BY <2>2, VoteRefines
  <2>3. ASSUME UNCHANGED <<clients, feedback, vote, seen>>
        PROVE  [Ledger!Next]_<<feedback, Counted, Gone>>
    BY <2>3, LedgerFrame DEF Counted, Gone
  <2>4. ASSUME NEW q \in Questions,
               Authorize(q) \/ QuestionStep(q) \/ GenerationFails(q) \/ AbortQuestion(q)
        PROVE  UNCHANGED <<clients, feedback, vote, seen>>
    BY <2>4 DEF QuestionStep, Authorize, AdmitLock, AdmitCheck, AdmitInsert, FinishLock,
                FinishCommit, GenerationFails, Fail, AbortQuestion, database
  <2>5. ASSUME \/ JobStart \/ (\E c \in Clients : JobTurn(c)) \/ JobConversation \/ JobRequests
               \/ JobLost \/ UNCHANGED vars
        PROVE  UNCHANGED <<clients, feedback, vote, seen>>
    BY <2>5 DEF JobStart, JobTurn, JobConversation, JobRequests, JobLost, JobEnd, vars, database,
                visitors
  <2> QED  BY <2>1, <2>2, <2>3, <2>4, <2>5 DEF Next, BreakDeadlock, JobStep
<1> QED  BY <1>1, <1>2, Invariance, PTL DEF Spec, VotesLinearize, Ledger!Spec, Gone

=============================================================================
