-------------------------- MODULE RagServiceProofs --------------------------
(***************************************************************************)
(* Proofs about RagService: its types, and that its quota, its audit trail  *)
(* and its replies are sound, for any tasks, conversations, keys, limits,   *)
(* costs and faults.                                                       *)
(***************************************************************************)
EXTENDS RagServiceProps, FiniteSetTheorems, TLAPS

(***************************************************************************)
(* Types.                                                                  *)
(***************************************************************************)

\* Every initial state has the right shape.
LEMMA TypeInit == Init => TypeOK
  BY RagServiceAssumption DEF Init, TypeOK, RowStatus, Replies

\* A task's own steps keep the shape of the state.
LEMMA TypeStep ==
    ASSUME TypeOK, NEW t \in Tasks, Step(t)
    PROVE  TypeOK'
  <1> USE RagServiceAssumption
      DEF TypeOK, Goto, arguments, told, jobs, database, rag_requests, rag_responses,
          messages, RowStatus, Replies, ErrorCodes, DenialCodes, ProviderCodes,
          FailureCodes, Live, Admission, Generation
  <1>1. CASE AskReplay(t)
    <2> PICK r \in Tasks : ReplayOf(t, r)
      BY <1>1 DEF AskReplay, Previous
    <2>1. reply' \in [Tasks -> Replies] /\ reply_used' \in [Tasks -> Nat]
      BY DEF ReplayOf, Answer, Raise, StoredError
    <2> QED
      BY <1>1, <2>1 DEF AskReplay
  <1>2. CASE AskFresh(t) \/ AskBudgetLock(t) \/ EnterTry(t) \/ Generate(t)
    BY <1>2 DEF AskFresh, AskBudgetLock, EnterTry, Generate
  <1>3. CASE AskDecide(t)
    BY <1>3 DEF AskDecide, Denials
  <1>4. CASE AskInsert(t)
    BY <1>4 DEF AskInsert, Raise
  <1>5. CASE FinishLock(t)
    BY <1>5 DEF FinishLock, Raise
  <1>6. CASE FinishCommit(t)
    <2>1. PICK billed \in Billed(t) : budget_usd' = [budget_usd EXCEPT ![t] = billed]
      BY <1>6 DEF FinishCommit
    <2>2. billed \in Nat
      BY DEF Billed
    <2>3. budget_usd' \in [Tasks -> Nat]
      BY <2>1, <2>2
    <2> QED
      BY <1>6, <2>3 DEF FinishCommit, UsedBy
  <1>7. CASE Return(t)
    BY <1>7 DEF Return, Answer
  <1>8. CASE FailCommit(t)
    BY <1>8 DEF FailCommit, Raise, EndRows
  <1> QED
    BY <1>1, <1>2, <1>3, <1>4, <1>5, <1>6, <1>7, <1>8 DEF Step

\* So do arrivals, failures, the recovery job and the clock.
LEMMA TypeOther ==
    ASSUME TypeOK,
           \/ \E t \in Tasks : Post(t) \/ Failure(t) \/ Age(t)
           \/ Recovery
           \/ MonthRolls
    PROVE  TypeOK'
  <1> USE RagServiceAssumption
      DEF TypeOK, Goto, arguments, told, jobs, database, rag_requests, rag_responses,
          messages, RowStatus, Replies, ErrorCodes, DenialCodes, ProviderCodes,
          FailureCodes, Live, Admission, Generation
  <1>1. ASSUME NEW t \in Tasks, Post(t) PROVE TypeOK'
    BY <1>1 DEF Post
  <1>2. ASSUME NEW t \in Tasks, Failure(t) PROVE TypeOK'
    BY <1>2 DEF Failure, ProviderFails, Disconnect, DatabaseFails, WorkerLost,
                FailWith, Vanish
  <1>3. ASSUME NEW t \in Tasks, Age(t) PROVE TypeOK'
    BY <1>3 DEF Age
  <1>4. CASE Recovery
    BY <1>4 DEF Recovery, RecoverSelect, RecoverCommit, RecoverLost, Recoverable, EndRows
  <1>5. CASE MonthRolls
    BY <1>5 DEF MonthRolls
  <1> QED
    BY <1>1, <1>2, <1>3, <1>4, <1>5

\* In every reachable state each variable has the values its column or local
\* variable can have; in particular no reply carries an unknown code and no
\* bill is negative.
THEOREM TypeCorrect == Spec => []TypeOK
  <1>1. TypeOK /\ UNCHANGED vars => TypeOK'
    BY DEF TypeOK, vars, arguments, told, jobs, database, rag_requests,
           rag_responses, messages
  <1>2. TypeOK /\ Next => TypeOK'
    BY TypeStep, TypeOther DEF Next
  <1> QED
    BY <1>1, <1>2, TypeInit, PTL DEF Spec

(***************************************************************************)
(* The inductive invariant.  QuotaHolds and the others say nothing of tasks *)
(* that are about to write; what those rely on is stated here.              *)
(***************************************************************************)

\* A task's row exists from the commit of Txn 1 on; the row lock of _finish
\* keeps it pending; only a task that is over has replied.
PhaseOK ==
    \A t \in Tasks :
        /\ pc[t] \in {"idle", "asking"} \cup Admission => status[t] = "absent"
        /\ pc[t] \in {"admitted", "failing"} \cup Generation => status[t] # "absent"
        /\ pc[t] = "charging" => Pending(t)
        /\ pc[t] = "returning" => status[t] = "completed"
        /\ pc[t] = "failing" => code[t] \in FailureCodes
        /\ reply[t] # "none" => pc[t] = "done"

\* One Txn 1 at a time holds a conversation.
LocksOK ==
    \A t, u \in Tasks :
        pc[t] \in Admission /\ pc[u] \in Admission /\ SameConversation(t, u) => t = u

\* While it does, its key has no row ...
FreshOK ==
    \A t \in Tasks : pc[t] \in Admission =>
        \A u \in Tasks : status[u] # "absent" => ~SameKey(u, t)

\* ... and what it has decided on stays true: nothing in flight, quota left.
DecisionOK ==
    \A t \in Tasks : pc[t] = "decided" /\ code[t] = "none" =>
        /\ quota_used[conversation_id[t]] < QuotaLimit
        /\ \A u \in Tasks : Pending(u) => ~SameConversation(u, t)

\* Rows locked by the recovery job are pending, and not being charged.
RecoveryOK == \A t \in recovering : Pending(t) /\ pc[t] # "charging"

\* QuotaExact, taken apart.
Numbered ==
    /\ \A t \in Tasks : status[t] = "completed" =>
          response_used[t] \in 1..quota_used[conversation_id[t]]
    /\ \A t, u \in Tasks :
          /\ status[t] = "completed" /\ status[u] = "completed"
          /\ SameConversation(t, u)
          /\ response_used[t] = response_used[u]
          => t = u
    /\ \A c \in Conversations : \A n \in 1..quota_used[c] :
          \E t \in Tasks : /\ status[t] = "completed"
                           /\ conversation_id[t] = c
                           /\ response_used[t] = n

IInv ==
    /\ TypeOK /\ PhaseOK /\ LocksOK /\ FreshOK /\ DecisionOK /\ RecoveryOK
    /\ QuotaHolds /\ OneInFlight /\ AuditAgrees /\ OneRowPerKey /\ Numbered
    /\ AnswersDurable /\ ErrorsReconciled

\* The initial state satisfies it.
LEMMA InvInit == Init => IInv
  <1> SUFFICES ASSUME Init PROVE IInv
    OBVIOUS
  <1>1. TypeOK
    BY TypeInit
  <1>2. PhaseOK /\ LocksOK /\ FreshOK /\ DecisionOK /\ RecoveryOK
    BY DEF Init, PhaseOK, LocksOK, FreshOK, DecisionOK, RecoveryOK, Admission,
           Generation, Pending
  <1>3. QuotaHolds
    BY RagServiceAssumption DEF Init, QuotaHolds, InFlight, RowsOf, Pending
  <1>4. OneInFlight /\ AuditAgrees /\ OneRowPerKey
    BY DEF Init, OneInFlight, AuditAgrees, OneRowPerKey, Pending
  <1>5. Numbered
    BY DEF Init, Numbered
  <1>6. AnswersDurable /\ ErrorsReconciled
    BY DEF Init, AnswersDurable, ErrorsReconciled, ProviderCodes
  <1> QED
    BY <1>1, <1>2, <1>3, <1>4, <1>5, <1>6 DEF IInv

\* What a step can do to the database: nothing, insert the row of a Txn 1,
\* complete a row, or fail pending ones.
Effect ==
    \/ UNCHANGED database
    \/ \E t \in Tasks : AskInsert(t)
    \/ \E t \in Tasks : FinishCommit(t)
    \/ \E rows \in SUBSET Tasks, error \in FailureCodes :
          EndRows(rows, error) /\ \A r \in rows : Pending(r)

\* Every step of the pipeline has one of these effects, and no step changes what
\* was asked.
LEMMA StepEffect ==
    ASSUME IInv, [Next]_vars
    PROVE  UNCHANGED arguments /\ Effect
  <1> USE DEF IInv, database, arguments
  <1>1. CASE UNCHANGED vars
    BY <1>1 DEF vars, Effect
  <1>2. ASSUME NEW t \in Tasks, Post(t) \/ Failure(t) \/ Age(t)
        PROVE  UNCHANGED <<arguments, database>>
    BY <1>2 DEF Post, Failure, Age, ProviderFails, Disconnect, DatabaseFails,
                WorkerLost, FailWith, Vanish
  <1>3. ASSUME NEW t \in Tasks,
               \/ AskReplay(t) \/ AskFresh(t) \/ AskBudgetLock(t) \/ AskDecide(t)
               \/ EnterTry(t) \/ Generate(t) \/ FinishLock(t) \/ Return(t)
        PROVE  UNCHANGED <<arguments, database>>
    BY <1>3 DEF AskReplay, AskFresh, AskBudgetLock, AskDecide, EnterTry, Generate,
                FinishLock, Return
  <1>4. ASSUME NEW t \in Tasks, AskInsert(t) \/ FinishCommit(t)
        PROVE  UNCHANGED arguments
    BY <1>4 DEF AskInsert, FinishCommit
  <1>5. ASSUME NEW t \in Tasks, FailCommit(t)
        PROVE  UNCHANGED arguments /\ Effect
    <2>1. code[t] \in FailureCodes
      BY <1>5 DEF FailCommit, PhaseOK
    <2>2. CASE FailAllowed(t)
      <3>1. EndRows({t}, code[t]) /\ \A r \in {t} : Pending(r)
        BY <1>5, <2>2 DEF FailCommit, FailAllowed
      <3> QED
        BY <1>5, <2>1, <3>1 DEF FailCommit, Effect
    <2>3. CASE ~FailAllowed(t)
      BY <1>5, <2>3 DEF FailCommit, Effect
    <2> QED
      BY <2>2, <2>3
  <1>6. ASSUME Recovery
        PROVE  UNCHANGED arguments /\ Effect
    <2>1. CASE RecoverCommit
      <3>1. recovering \in SUBSET Tasks /\ \A r \in recovering : Pending(r)
        BY DEF RecoveryOK, TypeOK
      <3>2. "worker_lost" \in FailureCodes
        BY DEF FailureCodes
      <3> QED
        BY <2>1, <3>1, <3>2 DEF RecoverCommit, Effect
    <2>2. CASE RecoverSelect \/ RecoverLost
      BY <2>2 DEF RecoverSelect, RecoverLost, Effect
    <2> QED
      BY <1>6, <2>1, <2>2 DEF Recovery
  <1>7. CASE MonthRolls
    BY <1>7 DEF MonthRolls, Effect
  <1> QED
    BY <1>1, <1>2, <1>3, <1>4, <1>5, <1>6, <1>7 DEF Next, Step, Effect

\* A Txn 1 that admits has seen no other pending row; nothing else adds one.
LEMMA OneInFlightStep ==
    ASSUME IInv, UNCHANGED arguments, Effect
    PROVE  OneInFlight'
  <1> USE DEF IInv, TypeOK, OneInFlight, Pending, SameConversation, arguments
  <1>1. CASE UNCHANGED database
    BY <1>1 DEF database, rag_requests, rag_responses, messages
  <1>2. ASSUME NEW t \in Tasks, AskInsert(t) PROVE OneInFlight'
    BY <1>2 DEF AskInsert, DecisionOK
  <1>3. ASSUME NEW t \in Tasks, FinishCommit(t) PROVE OneInFlight'
    BY <1>3 DEF FinishCommit
  <1>4. ASSUME NEW rows \in SUBSET Tasks, NEW error \in FailureCodes,
               EndRows(rows, error), \A r \in rows : Pending(r)
        PROVE  OneInFlight'
    BY <1>4 DEF EndRows
  <1> QED
    BY <1>1, <1>2, <1>3, <1>4 DEF Effect

\* A Txn 1 inserts its row while it holds the conversation, so the key it
\* found unused still is.
LEMMA OneRowPerKeyStep ==
    ASSUME IInv, UNCHANGED arguments, Effect
    PROVE  OneRowPerKey'
  <1> USE DEF IInv, TypeOK, OneRowPerKey, SameKey, SameConversation, arguments
  <1>1. CASE UNCHANGED database
    BY <1>1 DEF database, rag_requests, rag_responses, messages
  <1>2. ASSUME NEW t \in Tasks, AskInsert(t) PROVE OneRowPerKey'
    BY <1>2 DEF AskInsert, FreshOK, Admission
  <1>3. ASSUME NEW t \in Tasks, FinishCommit(t) PROVE OneRowPerKey'
    BY <1>3 DEF FinishCommit, PhaseOK, Pending
  <1>4. ASSUME NEW rows \in SUBSET Tasks, NEW error \in FailureCodes,
               EndRows(rows, error), \A r \in rows : Pending(r)
        PROVE  OneRowPerKey'
    BY <1>4 DEF EndRows, Pending
  <1> QED
    BY <1>1, <1>2, <1>3, <1>4 DEF Effect

\* The four tables change together.
LEMMA AuditStep ==
    ASSUME IInv, UNCHANGED arguments, Effect
    PROVE  AuditAgrees'
  <1> USE DEF IInv, TypeOK, AuditAgrees, Pending
  <1>1. CASE UNCHANGED database
    BY <1>1 DEF database, rag_requests, rag_responses, messages
  <1>2. ASSUME NEW t \in Tasks, AskInsert(t) PROVE AuditAgrees'
    BY <1>2 DEF AskInsert, PhaseOK, Admission
  <1>3. ASSUME NEW t \in Tasks, FinishCommit(t) PROVE AuditAgrees'
    BY <1>3 DEF FinishCommit, PhaseOK
  <1>4. ASSUME NEW rows \in SUBSET Tasks, NEW error \in FailureCodes,
               EndRows(rows, error), \A r \in rows : Pending(r)
        PROVE  AuditAgrees'
    BY <1>4 DEF EndRows, FailureCodes, ProviderCodes
  <1> QED
    BY <1>1, <1>2, <1>3, <1>4 DEF Effect

\* _finish holds the conversation row while it takes the next number.
LEMMA NumberedStep ==
    ASSUME IInv, UNCHANGED arguments, Effect
    PROVE  Numbered'
  <1> USE DEF IInv, TypeOK, Numbered, SameConversation, arguments
  <1>1. CASE UNCHANGED database
    BY <1>1 DEF database, rag_requests, rag_responses, messages
  <1>2. ASSUME NEW t \in Tasks, AskInsert(t) PROVE Numbered'
    BY <1>2 DEF AskInsert, PhaseOK, Admission
  <1>3. ASSUME NEW t \in Tasks, FinishCommit(t) PROVE Numbered'
    <2> DEFINE c == conversation_id[t]
    <2>1. /\ c \in Conversations /\ quota_used[c] \in Nat
          /\ quota_used' = [quota_used EXCEPT ![c] = quota_used[c] + 1]
          /\ response_used' = [response_used EXCEPT ![t] = quota_used[c] + 1]
          /\ status' = [status EXCEPT ![t] = "completed"]
          /\ status[t] # "completed"
      BY <1>3 DEF FinishCommit, UsedBy, PhaseOK, Pending
    <2>2. \A u \in Tasks : status'[u] = "completed" =>
             response_used'[u] \in 1..quota_used'[conversation_id[u]]
      BY <2>1
    <2>3. \A u, v \in Tasks :
             /\ status'[u] = "completed" /\ status'[v] = "completed"
             /\ conversation_id[u] = conversation_id[v]
             /\ response_used'[u] = response_used'[v]
             => u = v
      BY <2>1
    <2>4. ASSUME NEW d \in Conversations, NEW n \in 1..quota_used'[d]
          PROVE  \E u \in Tasks : /\ status'[u] = "completed"
                                  /\ conversation_id[u] = d
                                  /\ response_used'[u] = n
      <3>1. CASE d = c /\ n = quota_used[c] + 1
        BY <2>1, <3>1
      <3>2. CASE ~(d = c /\ n = quota_used[c] + 1)
        <4>1. n \in 1..quota_used[d]
          BY <2>1, <3>2
        <4> QED
          BY <2>1, <4>1
      <3> QED
        BY <3>1, <3>2
    <2> QED
      BY <2>2, <2>3, <2>4
  <1>4. ASSUME NEW rows \in SUBSET Tasks, NEW error \in FailureCodes,
               EndRows(rows, error), \A r \in rows : Pending(r)
        PROVE  Numbered'
    BY <1>4 DEF EndRows, Pending
  <1> QED
    BY <1>1, <1>2, <1>3, <1>4 DEF Effect

\* Admission leaves a unit of quota; nobody else takes it while the row is
\* pending, because only pending rows are completed and there is only one.
LEMMA QuotaStep ==
    ASSUME IInv, UNCHANGED arguments, Effect
    PROVE  QuotaHolds'
  <1> USE DEF IInv, TypeOK, QuotaHolds, InFlight, RowsOf, Pending, arguments
  <1>1. CASE UNCHANGED database
    BY <1>1 DEF database, rag_requests, rag_responses, messages
  <1>2. ASSUME NEW t \in Tasks, AskInsert(t) PROVE QuotaHolds'
    BY <1>2 DEF AskInsert, DecisionOK
  <1>3. ASSUME NEW t \in Tasks, FinishCommit(t) PROVE QuotaHolds'
    <2> DEFINE c == conversation_id[t]
    <2>1. /\ c \in Conversations /\ quota_used[c] \in Nat
          /\ quota_used' = [quota_used EXCEPT ![c] = quota_used[c] + 1]
          /\ status' = [status EXCEPT ![t] = "completed"]
          /\ status[t] = "pending"
      BY <1>3 DEF FinishCommit, PhaseOK
    <2>2. quota_used[c] < QuotaLimit
      BY <2>1
    <2>3. ~InFlight(c)'
      BY <2>1 DEF OneInFlight, SameConversation
    <2>4. \A d \in Conversations : d # c /\ InFlight(d)' => InFlight(d)
      BY <2>1
    <2> QED
      BY <2>1, <2>2, <2>3, <2>4, RagServiceAssumption
  <1>4. ASSUME NEW rows \in SUBSET Tasks, NEW error \in FailureCodes,
               EndRows(rows, error), \A r \in rows : Pending(r)
        PROVE  QuotaHolds'
    BY <1>4 DEF EndRows
  <1> QED
    BY <1>1, <1>2, <1>3, <1>4 DEF Effect

(***************************************************************************)
(* The parts that follow the tasks.                                         *)
(***************************************************************************)

\* Where a task is tells what its row is: one task's pc moves per step, and
\* its row moves with it; only pending rows are failed by others.
LEMMA PhaseStep ==
    ASSUME IInv, [Next]_vars
    PROVE  PhaseOK'
  <1> USE DEF IInv, TypeOK, PhaseOK, Admission, Generation, Pending, Goto,
              arguments, told, jobs, database, rag_requests, rag_responses, messages
  <1>1. CASE UNCHANGED vars
    BY <1>1 DEF vars
  <1>2. ASSUME NEW t \in Tasks, Post(t) \/ Age(t) PROVE PhaseOK'
    BY <1>2 DEF Post, Age
  <1>3. ASSUME NEW t \in Tasks, Failure(t) PROVE PhaseOK'
    BY <1>3 DEF Failure, ProviderFails, Disconnect, DatabaseFails, WorkerLost,
                FailWith, Vanish, Live, FailureCodes, ProviderCodes
  <1>4. ASSUME NEW t \in Tasks, AskReplay(t) PROVE PhaseOK'
    <2> PICK r \in Tasks : ReplayOf(t, r)
      BY <1>4 DEF AskReplay, Previous
    <2>1. /\ pc[t] = "asking" /\ pc' = [pc EXCEPT ![t] = "done"]
          /\ UNCHANGED <<status, code>>
          /\ \A u \in Tasks : u # t => reply'[u] = reply[u]
      BY <1>4 DEF AskReplay, ReplayOf, Answer, Raise
    <2> QED
      BY <2>1
  <1>5. ASSUME NEW t \in Tasks,
               AskFresh(t) \/ AskBudgetLock(t) \/ EnterTry(t) \/ Generate(t)
        PROVE  PhaseOK'
    BY <1>5 DEF AskFresh, AskBudgetLock, EnterTry, Generate
  <1>6. ASSUME NEW t \in Tasks, AskDecide(t) PROVE PhaseOK'
    BY <1>6 DEF AskDecide
  <1>7. ASSUME NEW t \in Tasks, AskInsert(t) PROVE PhaseOK'
    BY <1>7 DEF AskInsert, Raise
  <1>8. ASSUME NEW t \in Tasks, FinishLock(t) PROVE PhaseOK'
    BY <1>8 DEF FinishLock, FinishAllowed, Raise
  <1>9. ASSUME NEW t \in Tasks, FinishCommit(t) PROVE PhaseOK'
    BY <1>9 DEF FinishCommit
  <1>10. ASSUME NEW t \in Tasks, Return(t) PROVE PhaseOK'
    BY <1>10 DEF Return, ReadyToReturn, Answer
  <1>11. ASSUME NEW t \in Tasks, FailCommit(t) PROVE PhaseOK'
    BY <1>11 DEF FailCommit, FailAllowed, EndRows, Raise
  <1>12. CASE Recovery
    <2>1. CASE RecoverCommit
      BY <2>1 DEF RecoverCommit, EndRows, RecoveryOK
    <2> QED
      BY <1>12, <2>1 DEF Recovery, RecoverSelect, RecoverLost
  <1>13. CASE MonthRolls
    BY <1>13 DEF MonthRolls
  <1> QED
    BY <1>1, <1>2, <1>3, <1>4, <1>5, <1>6, <1>7, <1>8, <1>9, <1>10, <1>11,
       <1>12, <1>13 DEF Next, Step

\* Txn 1 is entered by AskFresh and nowhere else, and decided by AskDecide.
LEMMA Entering ==
    ASSUME IInv, [Next]_vars, NEW u \in Tasks, pc'[u] \in Admission
    PROVE  /\ pc[u] \in Admission \/ AskFresh(u)
           /\ \/ pc'[u] = "decided" /\ pc[u] = "decided" /\ code'[u] = code[u]
              \/ AskDecide(u)
              \/ pc'[u] # "decided"
  <1> DEFINE Entered ==
        /\ pc[u] \in Admission \/ AskFresh(u)
        /\ \/ pc'[u] = "decided" /\ pc[u] = "decided" /\ code'[u] = code[u]
           \/ AskDecide(u)
           \/ pc'[u] # "decided"
  <1> USE DEF IInv, TypeOK, Admission, Goto
  <1>1. CASE UNCHANGED vars
    BY <1>1 DEF vars
  <1>2. ASSUME NEW t \in Tasks, Post(t) \/ Age(t) PROVE Entered
    BY <1>2 DEF Post, Age
  <1>3. ASSUME NEW t \in Tasks, Failure(t) PROVE Entered
    BY <1>3 DEF Failure, ProviderFails, Disconnect, DatabaseFails, WorkerLost,
                FailWith, Vanish
  <1>4. ASSUME NEW t \in Tasks, AskFresh(t) \/ AskBudgetLock(t) PROVE Entered
    BY <1>4 DEF AskFresh, AskBudgetLock
  <1>5. ASSUME NEW t \in Tasks, AskDecide(t) PROVE Entered
    BY <1>5 DEF AskDecide
  <1>6. ASSUME NEW t \in Tasks, AskReplay(t) \/ AskInsert(t) \/ EnterTry(t)
        PROVE  Entered
    BY <1>6 DEF AskReplay, AskInsert, EnterTry
  <1>7. ASSUME NEW t \in Tasks,
               Generate(t) \/ FinishLock(t) \/ FinishCommit(t) \/ Return(t) \/ FailCommit(t)
        PROVE  Entered
    BY <1>7 DEF Generate, FinishLock, FinishCommit, Return, FailCommit
  <1>8. CASE Recovery \/ MonthRolls
    BY <1>8 DEF Recovery, RecoverSelect, RecoverCommit, RecoverLost, MonthRolls
  <1> QED
    BY <1>1, <1>2, <1>3, <1>4, <1>5, <1>6, <1>7, <1>8 DEF Next, Step

\* A task enters Txn 1 only while nobody else is in it.
LEMMA LocksStep ==
    ASSUME IInv, [Next]_vars
    PROVE  LocksOK'
  <1> SUFFICES ASSUME NEW t \in Tasks, NEW u \in Tasks,
                      pc'[t] \in Admission, pc'[u] \in Admission,
                      SameConversation(t, u)', t # u
               PROVE  FALSE
    BY DEF LocksOK
  <1> USE DEF IInv, TypeOK
  <1>1. SameConversation(t, u)
    BY StepEffect DEF SameConversation, arguments
  <1>2. /\ AskFresh(t) => pc[u] \notin Admission /\ ~AskFresh(u)
        /\ AskFresh(u) => pc[t] \notin Admission
    BY <1>1 DEF AskFresh, ConversationFree, SameConversation, Goto
  <1> QED
    BY <1>1, <1>2, Entering DEF LocksOK

\* While a task is in Txn 1, other tasks insert no row with its key: they
\* would have to be in Txn 1 on the same conversation.
LEMMA FreshStep ==
    ASSUME IInv, [Next]_vars
    PROVE  FreshOK'
  <1> SUFFICES ASSUME NEW t \in Tasks, NEW u \in Tasks,
                      pc'[t] \in Admission, status'[u] # "absent", SameKey(u, t)'
               PROVE  FALSE
    BY DEF FreshOK
  <1> USE DEF IInv, TypeOK
  <1>1. SameKey(u, t)
    BY StepEffect DEF SameKey, SameConversation, arguments
  <1>2. CASE status[u] # "absent"
    BY <1>1, <1>2, Entering DEF FreshOK, AskFresh, Previous
  <1>3. CASE status[u] = "absent"
    <2>1. AskInsert(u)
      <3>1. CASE UNCHANGED database
        BY <1>3, <3>1 DEF database, rag_requests
      <3>2. ASSUME NEW w \in Tasks, AskInsert(w) PROVE AskInsert(u)
        BY <1>3, <3>2 DEF AskInsert
      <3>3. ASSUME NEW w \in Tasks, FinishCommit(w) PROVE AskInsert(u)
        BY <1>3, <3>3 DEF FinishCommit, PhaseOK, Pending
      <3>4. ASSUME NEW rows \in SUBSET Tasks, NEW error \in FailureCodes,
                   EndRows(rows, error), \A r \in rows : Pending(r)
            PROVE  AskInsert(u)
        BY <1>3, <3>4 DEF EndRows, Pending
      <3> QED
        BY StepEffect, <3>1, <3>2, <3>3, <3>4 DEF Effect
    <2>2. pc[u] = "decided" /\ pc'[u] \in {"admitted", "done"} /\ t # u
      BY <2>1 DEF AskInsert, Goto, Admission
    <2>3. pc'[t] = pc[t]
      BY <2>1, <2>2 DEF AskInsert, Goto
    <2> QED
      BY <1>1, <2>2, <2>3 DEF LocksOK, Admission, SameKey
  <1> QED
    BY <1>2, <1>3

\* An admission stays justified until its row is inserted: _finish needs the
\* conversation row to take quota, Txn 1 of another task to add a row.
LEMMA DecisionStep ==
    ASSUME IInv, [Next]_vars
    PROVE  DecisionOK'
  <1> SUFFICES ASSUME NEW t \in Tasks, pc'[t] = "decided", code'[t] = "none"
               PROVE  /\ quota_used'[conversation_id[t]] < QuotaLimit
                      /\ \A u \in Tasks : status'[u] = "pending" =>
                            conversation_id[u] # conversation_id[t]
    BY StepEffect DEF DecisionOK, Pending, SameConversation, arguments
  <1> DEFINE c == conversation_id[t]
  <1> USE DEF IInv, TypeOK
  <1>1. CASE AskDecide(t)
    <2>1. "none" \in Denials(c)
      BY <1>1 DEF AskDecide
    <2>2. ~QuotaExhausted(c) /\ ~InFlight(c)
      BY <2>1 DEF Denials
    <2>3. UNCHANGED <<quota_used, status>>
      BY <1>1 DEF AskDecide, database, rag_requests
    <2> QED
      BY <2>2, <2>3, RagServiceAssumption
         DEF QuotaExhausted, InFlight, RowsOf, Pending
  <1>2. CASE ~AskDecide(t)
    <2>1. pc[t] = "decided" /\ code[t] = "none"
      BY <1>2, Entering DEF Admission
    <2>2. /\ quota_used[c] < QuotaLimit
          /\ \A u \in Tasks : status[u] = "pending" => conversation_id[u] # c
      BY <2>1 DEF DecisionOK, Pending, SameConversation
    <2>3. CASE UNCHANGED database
      BY <2>2, <2>3 DEF database, rag_requests
    <2>4. ASSUME NEW w \in Tasks, AskInsert(w)
          PROVE  /\ UNCHANGED quota_used /\ conversation_id[w] # c
                 /\ \A u \in Tasks : u # w => status'[u] = status[u]
      <3>1. w # t
        BY <2>4 DEF AskInsert, Goto
      <3> QED
        BY <2>1, <2>4, <3>1 DEF AskInsert, LocksOK, Admission, SameConversation
    <2>5. ASSUME NEW w \in Tasks, FinishCommit(w)
          PROVE  /\ quota_used'[c] = quota_used[c]
                 /\ \A u \in Tasks : status'[u] = "pending" => status[u] = "pending"
      <3>1. conversation_id[w] # c
        BY <2>1, <2>5 DEF FinishCommit, ConversationFree, Admission
      <3> QED
        BY <2>5, <3>1 DEF FinishCommit
    <2>6. ASSUME NEW rows \in SUBSET Tasks, NEW error \in FailureCodes,
                 EndRows(rows, error)
          PROVE  /\ UNCHANGED quota_used
                 /\ \A u \in Tasks : status'[u] = "pending" => status[u] = "pending"
      BY <2>6 DEF EndRows
    <2> QED
      BY <2>2, <2>3, <2>4, <2>5, <2>6, StepEffect DEF Effect
  <1> QED
    BY <1>1, <1>2

\* A row the recovery job has locked is not touched: _finish and _fail wait.
LEMMA RecoveryStep ==
    ASSUME IInv, [Next]_vars
    PROVE  RecoveryOK'
  <1> USE DEF IInv, TypeOK, RecoveryOK, Pending, Goto, database, rag_requests, jobs
  <1>1. CASE UNCHANGED vars
    BY <1>1 DEF vars
  <1>2. ASSUME NEW t \in Tasks, Post(t) \/ Age(t) PROVE RecoveryOK'
    BY <1>2 DEF Post, Age
  <1>3. ASSUME NEW t \in Tasks, Failure(t) PROVE RecoveryOK'
    BY <1>3 DEF Failure, ProviderFails, Disconnect, DatabaseFails, WorkerLost,
                FailWith, Vanish
  <1>4. ASSUME NEW t \in Tasks,
               \/ AskReplay(t) \/ AskFresh(t) \/ AskBudgetLock(t) \/ AskDecide(t)
               \/ EnterTry(t) \/ Generate(t) \/ Return(t)
        PROVE  RecoveryOK'
    BY <1>4 DEF AskReplay, AskFresh, AskBudgetLock, AskDecide, EnterTry, Generate,
                Return
  <1>5. ASSUME NEW t \in Tasks, AskInsert(t) PROVE RecoveryOK'
    <2>1. t \notin recovering
      BY <1>5 DEF AskInsert, PhaseOK, Admission
    <2> QED
      BY <1>5, <2>1 DEF AskInsert
  <1>6. ASSUME NEW t \in Tasks, FinishLock(t) \/ FailCommit(t) PROVE RecoveryOK'
    BY <1>6 DEF FinishLock, FailCommit, RowFree, EndRows
  <1>7. ASSUME NEW t \in Tasks, FinishCommit(t) PROVE RecoveryOK'
    BY <1>7 DEF FinishCommit
  <1>8. CASE Recovery
    BY <1>8 DEF Recovery, RecoverSelect, RecoverCommit, RecoverLost, Recoverable
  <1>9. CASE MonthRolls
    BY <1>9 DEF MonthRolls
  <1> QED
    BY <1>1, <1>2, <1>3, <1>4, <1>5, <1>6, <1>7, <1>8, <1>9 DEF Next, Step

\* A completed row stays as it is.
LEMMA CompletedStable ==
    ASSUME IInv, [Next]_vars, NEW r \in Tasks, status[r] = "completed"
    PROVE  status'[r] = "completed" /\ response_used'[r] = response_used[r]
  <1> USE DEF IInv, TypeOK, database, rag_requests, rag_responses
  <1>1. CASE UNCHANGED database
    BY <1>1
  <1>2. ASSUME NEW t \in Tasks, AskInsert(t)
        PROVE  status'[r] = "completed" /\ response_used'[r] = response_used[r]
    BY <1>2 DEF AskInsert, PhaseOK, Admission
  <1>3. ASSUME NEW t \in Tasks, FinishCommit(t)
        PROVE  status'[r] = "completed" /\ response_used'[r] = response_used[r]
    BY <1>3 DEF FinishCommit, PhaseOK, Pending
  <1>4. ASSUME NEW rows \in SUBSET Tasks, NEW error \in FailureCodes,
               EndRows(rows, error), \A u \in rows : Pending(u)
        PROVE  status'[r] = "completed" /\ response_used'[r] = response_used[r]
    BY <1>4 DEF EndRows, Pending
  <1> QED
    BY <1>1, <1>2, <1>3, <1>4, StepEffect DEF Effect

\* Three kinds of reply: none new; the stored answer of a completed row with
\* the same key and question; an error, which for a failure of the task itself
\* comes with its row ended.
NewReply(t) ==
    \/ reply'[t] = reply[t] /\ reply_used'[t] = reply_used[t]
    \/ \E r \in Tasks : /\ SameKey(r, t) /\ question[r] = question[t]
                        /\ status[r] = "completed"
                        /\ reply'[t] = "ok" /\ reply_used'[t] = response_used[r]
    \/ /\ reply'[t] \notin {"ok", "generation_failed"}
       /\ status'[t] # "pending"

\* Every step answers a task in one of these ways, or not at all.
LEMMA ReplyStep ==
    ASSUME IInv, [Next]_vars, NEW t \in Tasks
    PROVE  NewReply(t)
  <1> USE DEF IInv, TypeOK, NewReply, told
  <1>1. CASE UNCHANGED told
    BY <1>1
  <1>2. ASSUME NEW u \in Tasks, AskReplay(u) PROVE NewReply(t)
    <2>1. PICK r \in Previous(u) : ReplayOf(u, r)
      BY <1>2 DEF AskReplay
    <2>2. r \in Tasks /\ status[r] # "absent" /\ SameKey(r, u) /\ pc[u] = "asking"
      BY <1>2, <2>1 DEF Previous, AskReplay
    <2>3. CASE t # u
      BY <2>1, <2>3 DEF ReplayOf, Answer, Raise
    <2>4. CASE t = u /\ reply'[u] = "ok"
      <3>1. Answer(u, r) /\ question[r] = question[u] /\ status[r] = "completed"
        BY <2>1, <2>2, <2>4
           DEF ReplayOf, Raise, StoredError, ErrorCodes, DenialCodes, FailureCodes,
               ProviderCodes
      <3> QED
        BY <2>2, <2>4, <3>1 DEF Answer
    <2>5. CASE t = u /\ reply'[u] # "ok"
      <3>1. StoredError(r) # "generation_failed"
            \/ (status[r] = "completed" /\ response[r] # "absent") \/ Pending(r)
        BY <2>2 DEF StoredError, AuditAgrees, ErrorCodes, DenialCodes, FailureCodes,
                    ProviderCodes, RowStatus, Pending
      <3>2. reply'[u] # "generation_failed"
        BY <2>1, <2>5, <3>1 DEF ReplayOf, Answer, Raise
      <3>3. status'[u] = "absent"
        BY <1>2, <2>2 DEF AskReplay, PhaseOK, database, rag_requests
      <3> QED
        BY <2>5, <3>2, <3>3
    <2> QED
      BY <2>3, <2>4, <2>5
  <1>3. ASSUME NEW u \in Tasks, AskInsert(u) PROVE NewReply(t)
    BY <1>3 DEF AskInsert, Raise, ErrorCodes, DenialCodes, FailureCodes, ProviderCodes
  <1>4. ASSUME NEW u \in Tasks, FinishLock(u) PROVE NewReply(t)
    BY <1>4 DEF FinishLock, FinishAllowed, Raise, Pending, database, rag_requests
  <1>5. ASSUME NEW u \in Tasks, Return(u) PROVE NewReply(t)
    <2>1. status[u] = "completed" /\ Answer(u, u)
      BY <1>5 DEF Return, ReadyToReturn, PhaseOK
    <2> QED
      BY <2>1 DEF Answer, SameKey, SameConversation
  <1>6. ASSUME NEW u \in Tasks, FailCommit(u) PROVE NewReply(t)
    <2>1. code[u] \in FailureCodes /\ status'[u] # "pending"
      BY <1>6 DEF FailCommit, FailAllowed, EndRows, PhaseOK, Pending, database,
                  rag_requests
    <2> QED
      BY <1>6, <2>1 DEF FailCommit, Raise, FailureCodes, ProviderCodes
  <1>7. ASSUME NEW u \in Tasks,
               \/ AskFresh(u) \/ AskBudgetLock(u) \/ AskDecide(u) \/ EnterTry(u)
               \/ Generate(u) \/ FinishCommit(u) \/ Post(u) \/ Age(u) \/ Failure(u)
        PROVE  UNCHANGED told
    BY <1>7 DEF AskFresh, AskBudgetLock, AskDecide, EnterTry, Generate, FinishCommit,
                Post, Age, Failure, ProviderFails, Disconnect, DatabaseFails,
                WorkerLost, FailWith, Vanish
  <1>8. UNCHANGED vars \/ Recovery \/ MonthRolls => UNCHANGED told
    BY DEF vars, Recovery, RecoverSelect, RecoverCommit, RecoverLost, MonthRolls
  <1> QED
    BY <1>1, <1>2, <1>3, <1>4, <1>5, <1>6, <1>7, <1>8 DEF Next, Step

\* Answers already given stay true because completed rows are final.
LEMMA AnswersStep ==
    ASSUME IInv, [Next]_vars
    PROVE  AnswersDurable'
  <1> SUFFICES ASSUME NEW t \in Tasks, reply'[t] = "ok"
               PROVE  \E r \in Tasks : /\ SameKey(r, t) /\ question[r] = question[t]
                                       /\ status'[r] = "completed"
                                       /\ response_used'[r] = reply_used'[t]
    BY StepEffect DEF AnswersDurable, SameKey, SameConversation, arguments
  <1>1. \E r \in Tasks : /\ SameKey(r, t) /\ question[r] = question[t]
                         /\ status[r] = "completed"
                         /\ response_used[r] = reply_used'[t]
    BY ReplyStep DEF NewReply, IInv, AnswersDurable
  <1> QED
    BY <1>1, CompletedStable

\* A task that has replied is over, so its row never becomes pending again.
LEMMA ErrorsStep ==
    ASSUME IInv, [Next]_vars
    PROVE  ErrorsReconciled'
  <1> SUFFICES ASSUME NEW t \in Tasks
               PROVE  /\ reply'[t] \in ProviderCodes \cup {"request_recovered"}
                            => status'[t] # "pending"
                      /\ reply'[t] # "generation_failed"
    BY DEF ErrorsReconciled, Pending
  <1> USE DEF IInv, TypeOK
  <1>1. CASE reply'[t] = reply[t]
    <2>1. reply[t] # "generation_failed"
      BY DEF ErrorsReconciled
    <2>2. ASSUME reply[t] \in ProviderCodes \cup {"request_recovered"},
                 status'[t] = "pending"
          PROVE  FALSE
      <3>1. status[t] # "pending" /\ pc[t] = "done"
        BY <2>2 DEF ErrorsReconciled, PhaseOK, ProviderCodes, Pending
      <3>2. CASE UNCHANGED database
        BY <2>2, <3>1, <3>2 DEF database, rag_requests
      <3>3. ASSUME NEW u \in Tasks, AskInsert(u) \/ FinishCommit(u) PROVE FALSE
        BY <2>2, <3>1, <3>3 DEF AskInsert, FinishCommit
      <3>4. ASSUME NEW rows \in SUBSET Tasks, NEW error \in FailureCodes,
                   EndRows(rows, error)
            PROVE  FALSE
        BY <2>2, <3>1, <3>4 DEF EndRows
      <3> QED
        BY <3>2, <3>3, <3>4, StepEffect DEF Effect
    <2> QED
      BY <1>1, <2>1, <2>2
  <1>2. CASE reply'[t] # reply[t]
    BY <1>2, ReplyStep DEF NewReply, ProviderCodes
  <1> QED
    BY <1>1, <1>2

(***************************************************************************)
(* The theorems.                                                           *)
(***************************************************************************)

\* The inductive invariant holds in every reachable state.
LEMMA Invariance == Spec => []IInv
  <1>1. IInv /\ [Next]_vars => IInv'
    <2> SUFFICES ASSUME IInv, [Next]_vars PROVE IInv'
      OBVIOUS
    <2>1. TypeOK'
      <3>1. CASE UNCHANGED vars
        BY <3>1 DEF IInv, TypeOK, vars, arguments, told, jobs, database,
                    rag_requests, rag_responses, messages
      <3>2. CASE Next
        BY <3>2, TypeStep, TypeOther DEF IInv, Next
      <3> QED
        BY <3>1, <3>2
    <2>2. UNCHANGED arguments /\ Effect
      BY StepEffect
    <2>3. QuotaHolds' /\ OneInFlight' /\ AuditAgrees' /\ OneRowPerKey' /\ Numbered'
      BY <2>2, QuotaStep, OneInFlightStep, AuditStep, OneRowPerKeyStep, NumberedStep
    <2>4. PhaseOK' /\ LocksOK' /\ FreshOK' /\ DecisionOK' /\ RecoveryOK'
      BY PhaseStep, LocksStep, FreshStep, DecisionStep, RecoveryStep
    <2>5. AnswersDurable' /\ ErrorsReconciled'
      BY AnswersStep, ErrorsStep
    <2> QED
      BY <2>1, <2>3, <2>4, <2>5 DEF IInv
  <1> QED
    BY InvInit, <1>1, PTL DEF Spec

\* The quota of a conversation is never overrun, however many questions race
\* for its last unit and whenever recovery interrupts them.
THEOREM QuotaCorrect == Spec => []QuotaHolds
  <1>1. IInv => QuotaHolds
    BY DEF IInv
  <1> QED
    BY Invariance, <1>1, PTL

\* A conversation has one pending request at most.
THEOREM OneInFlightCorrect == Spec => []OneInFlight
  <1>1. IInv => OneInFlight
    BY DEF IInv
  <1> QED
    BY Invariance, <1>1, PTL

\* Charges and stored answers agree one to one, and are numbered in order.
THEOREM QuotaExactCorrect == Spec => []QuotaExact
  <1>1. IInv => QuotaExact
    <2> SUFFICES ASSUME IInv, NEW c \in Conversations
                 PROVE  LET answered == {t \in RowsOf(c) : status[t] = "completed"}
                        IN  /\ {response_used[t] : t \in answered} = 1..quota_used[c]
                            /\ \A t, u \in answered :
                                  response_used[t] = response_used[u] => t = u
      BY DEF QuotaExact
    <2> DEFINE answered == {t \in RowsOf(c) : status[t] = "completed"}
    <2> USE DEF IInv, TypeOK, Numbered, RowsOf, SameConversation
    <2>1. \A t \in answered : response_used[t] \in 1..quota_used[c]
      OBVIOUS
    <2>2. \A n \in 1..quota_used[c] : \E t \in answered : response_used[t] = n
      OBVIOUS
    <2>3. \A t, u \in answered : response_used[t] = response_used[u] => t = u
      OBVIOUS
    <2> QED
      BY <2>1, <2>2, <2>3
  <1> QED
    BY Invariance, <1>1, PTL

\* The rows, responses and messages of a request agree with each other.
THEOREM AuditCorrect == Spec => []AuditAgrees
  <1>1. IInv => AuditAgrees
    BY DEF IInv
  <1> QED
    BY Invariance, <1>1, PTL

\* A key has one row, however its question is repeated.
THEOREM OneRowPerKeyCorrect == Spec => []OneRowPerKey
  <1>1. IInv => OneRowPerKey
    BY DEF IInv
  <1> QED
    BY Invariance, <1>1, PTL

\* Clients were only given stored answers to their own questions.
THEOREM AnswersCorrect == Spec => []AnswersDurable
  <1>1. IInv => AnswersDurable
    BY DEF IInv
  <1> QED
    BY Invariance, <1>1, PTL

\* A reported failure has reached the database.
THEOREM ErrorsCorrect == Spec => []ErrorsReconciled
  <1>1. IInv => ErrorsReconciled
    BY DEF IInv
  <1> QED
    BY Invariance, <1>1, PTL

\* No step changes a terminal row, its outcome or its messages.
THEOREM OutcomesFinal == Spec => TerminalStable
  <1> DEFINE Final ==
        \A t \in Tasks :
          status[t] \in {"completed", "failed", "rejected"} =>
             /\ status'[t] = status[t] /\ error_code'[t] = error_code[t]
             /\ budget_usd'[t] = budget_usd[t]
             /\ response'[t] = response[t] /\ response_used'[t] = response_used[t]
             /\ user_message'[t] = user_message[t]
             /\ assistant_message'[t] = assistant_message[t]
  <1>1. IInv /\ [Next]_vars => Final
    <2> SUFFICES ASSUME IInv, [Next]_vars PROVE Final
      OBVIOUS
    <2> USE DEF IInv, TypeOK
    <2>1. CASE UNCHANGED database
      BY <2>1 DEF database, rag_requests, rag_responses, messages
    <2>2. ASSUME NEW u \in Tasks, AskInsert(u) PROVE Final
      BY <2>2 DEF AskInsert, PhaseOK, Admission
    <2>3. ASSUME NEW u \in Tasks, FinishCommit(u) PROVE Final
      BY <2>3 DEF FinishCommit, PhaseOK, Pending
    <2>4. ASSUME NEW rows \in SUBSET Tasks, NEW error \in FailureCodes,
                 EndRows(rows, error), \A r \in rows : Pending(r)
          PROVE  Final
      BY <2>4 DEF EndRows, Pending
    <2> QED
      BY <2>1, <2>2, <2>3, <2>4, StepEffect DEF Effect
  <1> QED
    BY Invariance, <1>1, PTL DEF Spec, TerminalStable

(***************************************************************************)
(* The request budget.                                                      *)
(***************************************************************************)

\* The advisory lock has one holder, across conversations; what its holder
\* has counted only shrinks until its row is inserted.
BudgetInv ==
    /\ \A t, u \in Tasks :
          pc[t] \in {"deciding", "decided"} /\ pc[u] \in {"deciding", "decided"} => t = u
    /\ \A t \in Tasks : pc[t] = "decided" /\ code[t] = "none" =>
          Cardinality(CountedSince(month)) < RequestBudget
    /\ RequestBudgetHolds

\* The advisory lock is taken by AskBudgetLock and by nothing else.
LEMMA Lockers ==
    ASSUME TypeOK, [Next]_vars, NEW t \in Tasks, pc'[t] \in {"deciding", "decided"}
    PROVE  pc[t] \in {"deciding", "decided"} \/ AskBudgetLock(t)
  <1> DEFINE Held == pc[t] \in {"deciding", "decided"} \/ AskBudgetLock(t)
  <1> USE DEF TypeOK, Goto
  <1>1. CASE UNCHANGED vars
    BY <1>1 DEF vars
  <1>2. ASSUME NEW u \in Tasks, Post(u) \/ Age(u) \/ Failure(u) PROVE Held
    BY <1>2 DEF Post, Age, Failure, ProviderFails, Disconnect, DatabaseFails,
                WorkerLost, FailWith, Vanish
  <1>3. ASSUME NEW u \in Tasks,
               AskReplay(u) \/ AskFresh(u) \/ AskBudgetLock(u) \/ AskDecide(u)
        PROVE  Held
    BY <1>3 DEF AskReplay, AskFresh, AskBudgetLock, AskDecide
  <1>4. ASSUME NEW u \in Tasks, AskInsert(u) \/ EnterTry(u) \/ Generate(u)
        PROVE  Held
    BY <1>4 DEF AskInsert, EnterTry, Generate
  <1>5. ASSUME NEW u \in Tasks,
               FinishLock(u) \/ FinishCommit(u) \/ Return(u) \/ FailCommit(u)
        PROVE  Held
    BY <1>5 DEF FinishLock, FinishCommit, Return, FailCommit
  <1>6. CASE Recovery \/ MonthRolls
    BY <1>6 DEF Recovery, RecoverSelect, RecoverCommit, RecoverLost, MonthRolls
  <1> QED
    BY <1>1, <1>2, <1>3, <1>4, <1>5, <1>6 DEF Next, Step

\* Only the insert of an admitted question adds a row to a month, and that is
\* the month of the clock.
LEMMA MonthEffect ==
    ASSUME IInv, [Next]_vars
    PROVE  \/ /\ Counted' \subseteq Counted
              /\ \A t \in Counted' : started_at'[t] = started_at[t]
              /\ month' \in 0..LastMonth /\ month' >= month
           \/ \E t \in Tasks :
                 /\ AskInsert(t) /\ code[t] = "none"
                 /\ Counted' \subseteq Counted \cup {t}
                 /\ started_at' = [started_at EXCEPT ![t] = month]
                 /\ month' = month
  <1> DEFINE Shrinks == /\ Counted' \subseteq Counted
                        /\ \A t \in Counted' : started_at'[t] = started_at[t]
  <1> USE DEF IInv, TypeOK, Counted, database, rag_requests
  <1>1. month' \in 0..LastMonth /\ month' >= month
    <2>1. CASE MonthRolls
      BY <2>1, RagServiceAssumption DEF MonthRolls
    <2>2. CASE UNCHANGED month
      BY <2>2, RagServiceAssumption
    <2>3. Next /\ ~MonthRolls => UNCHANGED month
      BY DEF Next, Step, Failure, Recovery, Post, Age, AskReplay, AskFresh,
         AskBudgetLock, AskDecide, AskInsert, EnterTry, Generate, FinishLock,
         FinishCommit, Return, FailCommit, ProviderFails, Disconnect,
         DatabaseFails, WorkerLost, FailWith, Vanish, RecoverSelect,
         RecoverCommit, RecoverLost, jobs
    <2> QED
      BY <2>1, <2>2, <2>3 DEF vars, jobs
  <1>2. CASE UNCHANGED database
    BY <1>1, <1>2
  <1>3. ASSUME NEW t \in Tasks, AskInsert(t), code[t] # "none" PROVE Shrinks
    BY <1>3 DEF AskInsert
  <1>4. ASSUME NEW t \in Tasks, AskInsert(t), code[t] = "none"
        PROVE  /\ Counted' \subseteq Counted \cup {t}
               /\ started_at' = [started_at EXCEPT ![t] = month]
               /\ month' = month
    BY <1>4 DEF AskInsert, jobs
  <1>5. ASSUME NEW t \in Tasks, FinishCommit(t) PROVE Shrinks
    BY <1>5 DEF FinishCommit, PhaseOK, Pending
  <1>6. ASSUME NEW rows \in SUBSET Tasks, NEW error \in FailureCodes,
               EndRows(rows, error)
        PROVE  Shrinks
    BY <1>6 DEF EndRows
  <1> QED
    BY <1>1, <1>2, <1>3, <1>4, <1>5, <1>6, StepEffect DEF Effect

\* A row is added to a month only by the holder of the advisory lock, who has
\* counted less than the budget since.
LEMMA BudgetStep ==
    ASSUME IInv, BudgetInv, [Next]_vars
    PROVE  BudgetInv'
  <1> USE DEF IInv, TypeOK, BudgetInv
  <1>0. \A S \in SUBSET Tasks : IsFiniteSet(S) /\ Cardinality(S) \in Nat
    BY FiniteAssumption, FS_Subset, FS_CardinalityType
  <1>1. ASSUME NEW t \in Tasks, NEW u \in Tasks,
               pc'[t] \in {"deciding", "decided"}, pc'[u] \in {"deciding", "decided"},
               t # u
        PROVE  FALSE
    BY <1>1, Lockers DEF AskBudgetLock, BudgetLockFree, Goto
  <1>2. ASSUME NEW t \in Tasks, pc'[t] = "decided", code'[t] = "none"
        PROVE  (Cardinality(CountedSince(month)) < RequestBudget)'
    <2>1. CASE AskDecide(t)
      <3>1. "none" \in Denials(conversation_id[t])
        BY <1>2, <2>1 DEF AskDecide
      <3>2. ~BudgetExhausted
        BY <3>1 DEF Denials
      <3>3. Cardinality(CountedSince(month)) < RequestBudget
        BY <1>0, <3>2, RagServiceAssumption
           DEF BudgetExhausted, CountedSince, Counted
      <3>4. UNCHANGED <<status, started_at, month>>
        BY <2>1 DEF AskDecide, database, rag_requests, jobs
      <3> QED
        BY <3>3, <3>4 DEF CountedSince, Counted
    <2>2. CASE ~AskDecide(t)
      <3>1. pc[t] = "decided" /\ code[t] = "none"
        BY <1>2, <2>2, Entering DEF Admission
      <3>2. \A u \in Tasks : ~AskInsert(u)
        <4>1. ~AskInsert(t)
          BY <1>2 DEF AskInsert, Goto
        <4>2. \A u \in Tasks \ {t} : pc[u] # "decided"
          BY <3>1
        <4> QED
          BY <4>1, <4>2 DEF AskInsert
      <3>3. CountedSince(month)' \subseteq CountedSince(month)
        <4>1. /\ Counted' \subseteq Counted
              /\ \A u \in Counted' : started_at'[u] = started_at[u]
              /\ month' \in 0..LastMonth /\ month' >= month
          BY <3>2, MonthEffect
        <4>2. \A u \in Counted' : started_at[u] \in Int
          BY DEF Counted
        <4> QED
          BY <4>1, <4>2 DEF CountedSince
      <3>4. CountedSince(month) \in SUBSET Tasks
        BY DEF CountedSince, Counted
      <3>5. Cardinality(CountedSince(month)') <= Cardinality(CountedSince(month))
        BY <1>0, <3>3, <3>4, FS_Subset
      <3> QED
        BY <1>0, <3>1, <3>3, <3>4, <3>5, RagServiceAssumption
    <2> QED
      BY <2>1, <2>2
  <1>3. ASSUME NEW m \in 0..LastMonth
        PROVE  Cardinality(RowsOfMonth(m)') <= RequestBudget
    <2>1. RowsOfMonth(m) \in SUBSET Tasks /\ Cardinality(RowsOfMonth(m)) <= RequestBudget
      BY DEF RowsOfMonth, Counted, RequestBudgetHolds
    <2>2. CASE RowsOfMonth(m)' \subseteq RowsOfMonth(m)
      <3>1. Cardinality(RowsOfMonth(m)') <= Cardinality(RowsOfMonth(m))
        BY <1>0, <2>1, <2>2, FS_Subset
      <3> QED
        BY <1>0, <2>1, <2>2, <3>1, RagServiceAssumption
    <2>3. CASE ~(RowsOfMonth(m)' \subseteq RowsOfMonth(m))
      <3>1. PICK t \in Tasks :
               /\ AskInsert(t) /\ code[t] = "none"
               /\ Counted' \subseteq Counted \cup {t}
               /\ started_at' = [started_at EXCEPT ![t] = month]
        BY <2>3, MonthEffect DEF RowsOfMonth
      <3>2. m = month /\ RowsOfMonth(m)' \subseteq CountedSince(month) \cup {t}
        BY <2>3, <3>1 DEF RowsOfMonth, CountedSince
      <3>3. Cardinality(CountedSince(month)) < RequestBudget
        BY <3>1 DEF AskInsert
      <3>4. CountedSince(month) \in SUBSET Tasks
        BY DEF CountedSince, Counted
      <3>5. Cardinality(CountedSince(month) \cup {t}) <= Cardinality(CountedSince(month)) + 1
        BY <1>0, <3>4, FS_AddElement
      <3>6. IsFiniteSet(CountedSince(month) \cup {t})
        BY <1>0, <3>4, FS_AddElement
      <3>7. Cardinality(RowsOfMonth(m)') <= Cardinality(CountedSince(month) \cup {t})
        BY <3>2, <3>6, FS_Subset
      <3>8. Cardinality(RowsOfMonth(m)') \in Nat /\ Cardinality(CountedSince(month)) \in Nat
            /\ Cardinality(CountedSince(month) \cup {t}) \in Nat
        BY <1>0, <3>2, <3>4
      <3> QED
        BY <3>3, <3>5, <3>7, <3>8, RagServiceAssumption
    <2> QED
      BY <2>2, <2>3
  <1> QED
    BY <1>1, <1>2, <1>3 DEF RequestBudgetHolds

\* The strengthened invariant holds.
LEMMA BudgetInvariance == Spec => []BudgetInv
  <1>1. Init => BudgetInv
    <2> SUFFICES ASSUME Init PROVE BudgetInv
      OBVIOUS
    <2>1. \A m : RowsOfMonth(m) = {}
      BY DEF Init, RowsOfMonth, Counted
    <2>2. RequestBudgetHolds
      BY <2>1, FS_EmptySet, RagServiceAssumption DEF RequestBudgetHolds
    <2> QED
      BY <2>2 DEF Init, BudgetInv
  <1>2. IInv /\ BudgetInv /\ [Next]_vars => BudgetInv'
    BY BudgetStep
  <1> QED
    BY Invariance, <1>1, <1>2, PTL DEF Spec

\* The global request budget holds in every month, for any number of
\* conversations asking at once.
THEOREM RequestBudgetCorrect == Spec => []RequestBudgetHolds
  <1>1. BudgetInv => RequestBudgetHolds
    BY DEF BudgetInv
  <1> QED
    BY BudgetInvariance, <1>1, PTL

(***************************************************************************)
(* The model budget: the reservations and bills of a month never exceed it, *)
(* from the two assumptions that no call costs more than its reservation    *)
(* and that only finitely many questions have been asked.                  *)
(***************************************************************************)

\* What the argument rests on: no row has more than a reservation to its name,
\* a row in flight has its reservation in full, and what the holder of the
\* advisory lock has added up leaves room for one more until its row is there.
MoneyInv ==
    /\ \A t \in Tasks : budget_usd[t] <= MaxRequestCost
    /\ \A t \in Tasks : Pending(t) /\ ModelBudget > 0 => budget_usd[t] = MaxRequestCost
    /\ \A t \in Tasks : pc[t] = "decided" /\ code[t] = "none" /\ ModelBudget > 0 =>
          CostOf(CountedSince(month)) + MaxRequestCost <= ModelBudget
    /\ ModelBudgetHolds

(***************************************************************************)
(* Adding up dollars.                                                      *)
(***************************************************************************)

\* One reservation is MaxRequestCost dollars, whichever row it is for.
LEMMA OneReservation ==
    ASSUME NEW t
    PROVE  /\ IsFiniteSet({t} \X (1..MaxRequestCost))
           /\ Cardinality({t} \X (1..MaxRequestCost)) = MaxRequestCost
  <1>1. IsFiniteSet({t}) /\ Cardinality({t}) = 1
    BY FS_Singleton
  <1>2. MaxRequestCost \in Nat
    BY RagServiceAssumption
  <1>3. IsFiniteSet(1..MaxRequestCost) /\ Cardinality(1..MaxRequestCost) = MaxRequestCost
    BY <1>2, FS_Interval
  <1>4. /\ IsFiniteSet({t} \X (1..MaxRequestCost))
        /\ Cardinality({t} \X (1..MaxRequestCost))
              = Cardinality({t}) * Cardinality(1..MaxRequestCost)
    BY <1>1, <1>3, FS_Product, Zenon
  <1> QED
    BY <1>1, <1>2, <1>3, <1>4

\* Rows with at most a reservation each have finitely many dollars.
LEMMA FinitelyMany ==
    ASSUME TypeOK, \A t \in Tasks : budget_usd[t] <= MaxRequestCost,
           NEW rows \in SUBSET Tasks
    PROVE  IsFiniteSet(Dollars(rows)) /\ CostOf(rows) \in Nat
  <1>1. MaxRequestCost \in Nat
    BY RagServiceAssumption
  <1>2. IsFiniteSet(Tasks \X (1..MaxRequestCost))
    <2>1. IsFiniteSet(1..MaxRequestCost)
      BY <1>1, FS_Interval
    <2> QED
      BY <2>1, FiniteAssumption, FS_Product, Zenon
  <1>3. ASSUME NEW d \in Dollars(rows) PROVE d \in Tasks \X (1..MaxRequestCost)
    <2>1. PICK t \in rows : d \in {t} \X (1..budget_usd[t])
      BY DEF Dollars
    <2> QED
      BY <1>1, <2>1 DEF TypeOK
  <1>4. IsFiniteSet(Dollars(rows))
    BY <1>2, <1>3, FS_Subset
  <1> QED
    BY <1>4, FS_CardinalityType DEF CostOf

\* Fewer rows, none of which costs more than before, cost no more.
LEMMA FewerDollars ==
    ASSUME TypeOK, TypeOK', \A t \in Tasks : budget_usd[t] <= MaxRequestCost,
           NEW before \in SUBSET Tasks, NEW after \in SUBSET before,
           \A t \in after : budget_usd'[t] <= budget_usd[t]
    PROVE  /\ Cardinality(UNION {{t} \X (1..budget_usd'[t]) : t \in after})
                 <= CostOf(before)
           /\ Cardinality(UNION {{t} \X (1..budget_usd'[t]) : t \in after}) \in Nat
  <1> DEFINE Now == UNION {{t} \X (1..budget_usd'[t]) : t \in after}
  <1>1. ASSUME NEW d \in Now PROVE d \in Dollars(before)
    <2>1. PICK t \in after : d \in {t} \X (1..budget_usd'[t])
      OBVIOUS
    <2>2. budget_usd'[t] \in Nat /\ budget_usd[t] \in Nat
      BY DEF TypeOK
    <2>3. d \in {t} \X (1..budget_usd[t])
      BY <2>1, <2>2
    <2> QED
      BY <2>3 DEF Dollars
  <1>2. IsFiniteSet(Dollars(before))
    BY FinitelyMany
  <1> QED
    BY <1>1, <1>2, FS_Subset, FS_CardinalityType DEF CostOf

(***************************************************************************)
(* What a step does to them.                                               *)
(***************************************************************************)

\* Only the insert of an admitted question adds dollars to a month; every other
\* step keeps or lowers what its rows cost, _finish included, whose bill is at
\* most the reservation it replaces.
LEMMA DollarEffect ==
    ASSUME IInv, MoneyInv, ModelBudget > 0, [Next]_vars
    PROVE  \/ \A t \in Tasks : t \in Counted' => budget_usd'[t] <= budget_usd[t]
           \/ \E t \in Tasks :
                 /\ AskInsert(t) /\ code[t] = "none"
                 /\ budget_usd' = [budget_usd EXCEPT ![t] = MaxRequestCost]
  <1> USE DEF IInv, TypeOK, MoneyInv
  <1>1. CASE UNCHANGED database
    BY <1>1 DEF database, rag_requests
  <1>2. ASSUME NEW t \in Tasks, AskInsert(t), code[t] = "none"
        PROVE  budget_usd' = [budget_usd EXCEPT ![t] = MaxRequestCost]
    BY <1>2 DEF AskInsert
  <1>3. ASSUME NEW t \in Tasks, AskInsert(t), code[t] # "none"
        PROVE  \A u \in Tasks : u \in Counted' => budget_usd'[u] <= budget_usd[u]
    BY <1>3 DEF AskInsert, Counted
  <1>4. ASSUME NEW t \in Tasks, FinishCommit(t)
        PROVE  \A u \in Tasks : budget_usd'[u] <= budget_usd[u]
    <2>1. Pending(t) /\ budget_usd[t] = MaxRequestCost
      BY <1>4 DEF FinishCommit, PhaseOK
    <2>2. PICK billed \in Billed(t) : budget_usd' = [budget_usd EXCEPT ![t] = billed]
      BY <1>4 DEF FinishCommit
    <2>3. billed <= budget_usd[t]
      BY <2>1, CostAssumption, RagServiceAssumption DEF Billed
    <2> QED
      BY <2>2, <2>3
  <1>5. ASSUME NEW rows \in SUBSET Tasks, NEW error \in FailureCodes,
               EndRows(rows, error)
        PROVE  UNCHANGED budget_usd
    BY <1>5 DEF EndRows
  <1> QED
    BY <1>1, <1>2, <1>3, <1>4, <1>5, StepEffect DEF Effect

\* No step makes a row cost more than a reservation, or leaves one in flight
\* without its reservation.
LEMMA ReservationStep ==
    ASSUME IInv, MoneyInv, [Next]_vars, NEW t \in Tasks
    PROVE  /\ budget_usd'[t] <= MaxRequestCost
           /\ Pending(t)' /\ ModelBudget > 0 => budget_usd'[t] = MaxRequestCost
  <1> DEFINE Reserved == /\ budget_usd'[t] <= MaxRequestCost
                         /\ Pending(t)' /\ ModelBudget > 0 =>
                               budget_usd'[t] = MaxRequestCost
  <1> USE DEF IInv, TypeOK, MoneyInv, Pending
  <1>1. CASE UNCHANGED database
    BY <1>1 DEF database, rag_requests
  <1>2. ASSUME NEW u \in Tasks, AskInsert(u) PROVE Reserved
    BY <1>2, RagServiceAssumption DEF AskInsert
  <1>3. ASSUME NEW u \in Tasks, FinishCommit(u) PROVE Reserved
    <2>1. PICK billed \in Billed(u) : budget_usd' = [budget_usd EXCEPT ![u] = billed]
      BY <1>3 DEF FinishCommit
    <2>2. billed <= MaxRequestCost
      BY CostAssumption, RagServiceAssumption DEF Billed
    <2>3. status' = [status EXCEPT ![u] = "completed"]
      BY <1>3 DEF FinishCommit
    <2> QED
      BY <2>1, <2>2, <2>3
  <1>4. ASSUME NEW rows \in SUBSET Tasks, NEW error \in FailureCodes,
               EndRows(rows, error)
        PROVE  Reserved
    BY <1>4 DEF EndRows
  <1> QED
    BY <1>1, <1>2, <1>3, <1>4, StepEffect DEF Effect

\* The holder of the advisory lock has room for its reservation: it has just
\* added up the month, or nobody has inserted a row since it did.
LEMMA RoomStep ==
    ASSUME IInv, IInv', BudgetInv, MoneyInv, [Next]_vars, ModelBudget > 0,
           NEW t \in Tasks, pc'[t] = "decided", code'[t] = "none"
    PROVE  (CostOf(CountedSince(month)) + MaxRequestCost <= ModelBudget)'
  <1> USE DEF IInv, TypeOK, BudgetInv, MoneyInv
  <1> DEFINE Now == CostOf(CountedSince(month))
  <1>0. CountedSince(month) \in SUBSET Tasks /\ Now \in Nat
    BY FinitelyMany DEF CountedSince, Counted
  <1>1. Now + MaxRequestCost <= ModelBudget
    <2>1. CASE AskDecide(t)
      <3>1. "none" \in Denials(conversation_id[t])
        BY <2>1 DEF AskDecide
      <3>2. ~BudgetExhausted
        BY <3>1 DEF Denials
      <3> QED
        BY <1>0, <3>2, RagServiceAssumption DEF BudgetExhausted
    <2>2. CASE ~AskDecide(t)
      BY <2>2, Entering DEF Admission
    <2> QED
      BY <2>1, <2>2
  <1>2. \A u \in Tasks : ~AskInsert(u)
    <2>1. ~AskInsert(t)
      BY DEF AskInsert, Goto
    <2>2. pc[t] \in {"deciding", "decided"}
      BY Entering DEF Admission, AskDecide
    <2>3. \A u \in Tasks \ {t} : pc[u] # "decided"
      BY <2>2
    <2> QED
      BY <2>1, <2>3 DEF AskInsert
  <1>3. /\ CountedSince(month)' \in SUBSET CountedSince(month)
        /\ \A u \in CountedSince(month)' : budget_usd'[u] <= budget_usd[u]
    <2>1. /\ Counted' \subseteq Counted
          /\ \A u \in Counted' : started_at'[u] = started_at[u]
          /\ month' \in 0..LastMonth /\ month' >= month
      BY <1>2, MonthEffect
    <2>2. \A u \in Tasks : u \in Counted' => budget_usd'[u] <= budget_usd[u]
      BY <1>2, DollarEffect
    <2> QED
      BY <2>1, <2>2 DEF CountedSince, Counted
  <1>4. Now' <= Now /\ Now' \in Nat
    BY <1>0, <1>3, FewerDollars DEF CostOf, Dollars
  <1> QED
    BY <1>0, <1>1, <1>4, RagServiceAssumption

\* A month's dollars only fall, except when the holder of the advisory lock
\* adds a reservation, for which there is room.
LEMMA MonthStep ==
    ASSUME IInv, IInv', BudgetInv, MoneyInv, [Next]_vars, ModelBudget > 0,
           NEW m \in 0..LastMonth
    PROVE  CostOf(RowsOfMonth(m))' <= ModelBudget
  <1> USE DEF IInv, TypeOK, MoneyInv
  <1> DEFINE Before == RowsOfMonth(m)
  <1>0. /\ Before \in SUBSET Tasks /\ CostOf(Before) \in Nat
        /\ CostOf(Before) <= ModelBudget
    BY FinitelyMany DEF RowsOfMonth, Counted, ModelBudgetHolds
  <1>1. CASE /\ Before' \in SUBSET Before
             /\ \A t \in Before' : budget_usd'[t] <= budget_usd[t]
    <2>1. CostOf(Before)' <= CostOf(Before) /\ CostOf(Before)' \in Nat
      BY <1>0, <1>1, FewerDollars DEF CostOf, Dollars
    <2> QED
      BY <1>0, <2>1, RagServiceAssumption
  <1>2. ASSUME NEW t \in Tasks, AskInsert(t), code[t] = "none"
        PROVE  CostOf(Before)' <= ModelBudget
    <2> DEFINE Later == CountedSince(month)
               Mine == {t} \X (1..MaxRequestCost)
    <2>1. /\ budget_usd' = [budget_usd EXCEPT ![t] = MaxRequestCost]
          /\ started_at' = [started_at EXCEPT ![t] = month]
          /\ status' = [status EXCEPT ![t] = "pending"]
          /\ pc[t] = "decided" /\ t \notin Counted
      BY <1>2 DEF AskInsert, PhaseOK, Admission, Counted
    <2>2. CASE m = month
      <3>1. /\ Later \in SUBSET Tasks /\ IsFiniteSet(Dollars(Later))
            /\ CostOf(Later) \in Nat
        BY FinitelyMany DEF CountedSince, Counted
      <3>2. CostOf(Later) + MaxRequestCost <= ModelBudget
        BY <1>2, <2>1
      <3>3. Before' \subseteq Later \cup {t}
        BY <2>1, <2>2 DEF RowsOfMonth, CountedSince, Counted
      <3>4. ASSUME NEW d \in Dollars(Before)' PROVE d \in Dollars(Later) \cup Mine
        <4>1. PICK u \in Before' : d \in {u} \X (1..budget_usd'[u])
          BY DEF Dollars
        <4>2. CASE u = t
          BY <2>1, <4>1, <4>2
        <4>3. CASE u # t
          <5>1. u \in Later /\ budget_usd'[u] = budget_usd[u]
            BY <2>1, <3>3, <4>3
          <5> QED
            BY <4>1, <5>1 DEF Dollars
        <4> QED
          BY <4>2, <4>3
      <3>5. /\ IsFiniteSet(Dollars(Later) \cup Mine)
            /\ Cardinality(Dollars(Later) \cup Mine)
                 = CostOf(Later) + MaxRequestCost - Cardinality(Dollars(Later) \cap Mine)
        BY <3>1, OneReservation, FS_Union DEF CostOf
      <3>6. Cardinality(Dollars(Later) \cap Mine) \in Nat
        <4>1. IsFiniteSet(Dollars(Later) \cap Mine)
          BY <3>1, FS_Subset
        <4> QED
          BY <4>1, FS_CardinalityType
      <3>7. CostOf(Before)' <= Cardinality(Dollars(Later) \cup Mine)
        BY <3>4, <3>5, FS_Subset DEF CostOf
      <3>8. CostOf(Before)' \in Nat
        <4>1. IsFiniteSet(Dollars(Before)')
          BY <3>4, <3>5, FS_Subset
        <4> QED
          BY <4>1, FS_CardinalityType DEF CostOf
      <3> QED
        BY <3>1, <3>2, <3>5, <3>6, <3>7, <3>8, RagServiceAssumption
    <2>3. CASE m # month
      <3>1. /\ Before' \in SUBSET Before
            /\ \A u \in Before' : budget_usd'[u] <= budget_usd[u]
        BY <2>1, <2>3 DEF RowsOfMonth, Counted
      <3> QED
        BY <1>1, <3>1
    <2> QED
      BY <2>2, <2>3
  <1>3. CASE \A t \in Tasks : ~(AskInsert(t) /\ code[t] = "none")
    <2>1. /\ Counted' \subseteq Counted
          /\ \A t \in Counted' : started_at'[t] = started_at[t]
      BY <1>3, MonthEffect
    <2>2. \A t \in Tasks : t \in Counted' => budget_usd'[t] <= budget_usd[t]
      BY <1>3, DollarEffect
    <2>3. /\ Before' \in SUBSET Before
          /\ \A t \in Before' : budget_usd'[t] <= budget_usd[t]
      BY <2>1, <2>2 DEF RowsOfMonth, Counted
    <2> QED
      BY <1>1, <2>3
  <1> QED
    BY <1>2, <1>3

\* The strengthened invariant is kept.
LEMMA MoneyStep ==
    ASSUME IInv, IInv', BudgetInv, MoneyInv, [Next]_vars
    PROVE  MoneyInv'
  BY ReservationStep, RoomStep, MonthStep DEF MoneyInv, ModelBudgetHolds

\* No month's reservations and bills exceed the model budget, for any number
\* of conversations asking at once, whatever their calls cost up to a
\* reservation, and although bills come in outside the advisory lock.
THEOREM ModelBudgetCorrect == Spec => []ModelBudgetHolds
  <1>1. Init => MoneyInv
    <2> SUFFICES ASSUME Init PROVE MoneyInv
      OBVIOUS
    <2>1. \A m : CostOf(RowsOfMonth(m)) = 0
      <3>1. \A m : Dollars(RowsOfMonth(m)) = {}
        BY DEF Init, RowsOfMonth, Counted, Dollars
      <3> QED
        BY <3>1, FS_EmptySet DEF CostOf
    <2>2. ModelBudgetHolds
      BY <2>1, RagServiceAssumption DEF ModelBudgetHolds
    <2> QED
      BY <2>2, RagServiceAssumption DEF Init, MoneyInv, Pending
  <1>2. IInv /\ IInv' /\ BudgetInv /\ MoneyInv /\ [Next]_vars => MoneyInv'
    BY MoneyStep
  <1>3. MoneyInv => ModelBudgetHolds
    BY DEF MoneyInv
  <1> QED
    BY Invariance, BudgetInvariance, <1>1, <1>2, <1>3, PTL DEF Spec

(***************************************************************************)
(* RagService implements AnswerLedger.                                     *)
(***************************************************************************)

\* Equal columns give equal ledgers.
LEMMA LedgerUnchanged ==
    ASSUME UNCHANGED <<arguments, database, told>>
    PROVE  UNCHANGED Ledger!vars
  BY DEF Ledger!vars, arguments, database, told, rag_requests, rag_responses,
         messages, AnswersOf, PendingOf, ToldIn, KeysOf, RowsOf, Pending

\* A reply that is not an answer tells the client nothing of the ledger.
LEMMA ToldUnchanged ==
    ASSUME IInv, UNCHANGED arguments, NEW t \in Tasks,
           reply[t] # "ok", reply'[t] # "ok",
           \A u \in Tasks : u # t => reply'[u] = reply[u] /\ reply_used'[u] = reply_used[u]
    PROVE  \A c \in Conversations : ToldIn(c)' = ToldIn(c)
  <1> TAKE c \in Conversations
  <1>1. \A u \in Tasks : reply'[u] = "ok" /\ conversation_id[u] = c
                      <=> reply[u] = "ok" /\ conversation_id[u] = c
    OBVIOUS
  <1>2. \A u \in Tasks : reply[u] = "ok" => reply_used'[u] = reply_used[u]
    OBVIOUS
  <1> QED
    BY <1>1, <1>2 DEF ToldIn, arguments

\* The insert of Txn 1 admits or refuses its key.
LEMMA InsertIsAdmission ==
    ASSUME IInv, NEW t \in Tasks, AskInsert(t)
    PROVE  Ledger!Next
  <1> DEFINE c == conversation_id[t]
             k == idempotency_key[t]
  <1> USE DEF IInv, TypeOK
  <1>1. c \in Conversations /\ k \in Keys /\ UNCHANGED arguments /\ pc[t] = "decided"
    BY DEF AskInsert
  <1>2. /\ status[t] = "absent" /\ status' = [status EXCEPT ![t] =
              IF code[t] # "none" THEN "rejected" ELSE "pending"]
        /\ UNCHANGED <<quota_used, response_used>>
    BY <1>1 DEF AskInsert, PhaseOK, Admission
  <1>3. \A d \in Conversations : RowsOf(d)' = IF d = c THEN RowsOf(d) \cup {t} ELSE RowsOf(d)
    BY <1>1, <1>2 DEF RowsOf, arguments
  <1>4. k \notin KeysOf(RowsOf(c))
    BY <1>1 DEF FreshOK, Admission, KeysOf, RowsOf, SameKey, SameConversation
  <1>5. \A d \in Conversations :
           KeysOf(RowsOf(d))' = IF d = c THEN KeysOf(RowsOf(d)) \cup {k} ELSE KeysOf(RowsOf(d))
    BY <1>1, <1>3 DEF KeysOf, arguments
  <1>6. \A d \in Conversations : AnswersOf(d)' = AnswersOf(d)
    <2> TAKE d \in Conversations
    <2>1. {u \in RowsOf(d) : status[u] = "completed"}'
            = {u \in RowsOf(d) : status[u] = "completed"}
      BY <1>2, <1>3 DEF RowsOf
    <2> QED
      BY <1>1, <1>2, <2>1 DEF AnswersOf, arguments
  <1>7. \A d \in Conversations : ToldIn(d)' = ToldIn(d)
    <2>1. reply[t] # "ok" /\ reply'[t] # "ok"
      BY <1>1 DEF PhaseOK, AskInsert, Raise, told, ErrorCodes, DenialCodes,
                  FailureCodes, ProviderCodes
    <2>2. \A u \in Tasks : u # t => reply'[u] = reply[u] /\ reply_used'[u] = reply_used[u]
      BY DEF AskInsert, Raise, told
    <2> QED
      BY <1>1, <2>1, <2>2, ToldUnchanged
  <1>8. CASE code[t] = "none"
    <2>1. PendingOf(c) = {} /\ quota_used[c] < QuotaLimit
      BY <1>1, <1>8 DEF DecisionOK, PendingOf, RowsOf, SameConversation
    <2>2. \A d \in Conversations :
             PendingOf(d)' = IF d = c THEN {t} ELSE PendingOf(d)
      BY <1>2, <1>3, <1>8, <2>1 DEF PendingOf, Pending, RowsOf
    <2>3. KeysOf(PendingOf(c)) = {}
      BY <2>1 DEF KeysOf
    <2>4. \A d \in Conversations :
             KeysOf(PendingOf(d))' = IF d = c THEN {k} ELSE KeysOf(PendingOf(d))
      BY <1>1, <2>2 DEF KeysOf, arguments
    <2>5. Ledger!Admit(c, k)
      BY <1>1, <1>2, <1>4, <1>5, <1>6, <1>7, <2>1, <2>3, <2>4 DEF Ledger!Admit
    <2> QED
      BY <1>1, <2>5 DEF Ledger!Next
  <1>9. CASE code[t] # "none"
    <2>1. \A d \in Conversations : PendingOf(d)' = PendingOf(d)
      BY <1>2, <1>3, <1>9 DEF PendingOf, Pending, RowsOf
    <2>2. \A d \in Conversations : KeysOf(PendingOf(d))' = KeysOf(PendingOf(d))
      BY <1>1, <2>1 DEF KeysOf, arguments
    <2>3. Ledger!Reject(c, k)
      BY <1>1, <1>2, <1>4, <1>5, <1>6, <1>7, <2>2 DEF Ledger!Reject
    <2> QED
      BY <1>1, <2>3 DEF Ledger!Next
  <1> QED
    BY <1>8, <1>9

\* The commit of _finish is the next entry.
LEMMA FinishIsCompletion ==
    ASSUME IInv, NEW t \in Tasks, FinishCommit(t)
    PROVE  Ledger!Next
  <1> DEFINE c == conversation_id[t]
             k == idempotency_key[t]
  <1> USE DEF IInv, TypeOK
  <1>1. /\ c \in Conversations /\ k \in Keys
        /\ UNCHANGED arguments /\ UNCHANGED told
        /\ quota_used[c] \in Nat
    BY DEF FinishCommit
  <1>2. /\ status[t] = "pending" /\ status' = [status EXCEPT ![t] = "completed"]
        /\ quota_used' = [quota_used EXCEPT ![c] = quota_used[c] + 1]
        /\ response_used' = [response_used EXCEPT ![t] = quota_used[c] + 1]
    BY DEF FinishCommit, UsedBy, PhaseOK, Pending
  <1>3. \A d \in Conversations : RowsOf(d)' = RowsOf(d)
    BY <1>1, <1>2 DEF RowsOf, arguments
  <1>4. \A d \in Conversations : KeysOf(RowsOf(d))' = KeysOf(RowsOf(d))
    BY <1>1, <1>3 DEF KeysOf, arguments
  <1>5. \A d \in Conversations : ToldIn(d)' = ToldIn(d)
    BY <1>1 DEF ToldIn, told, arguments
  <1>6. PendingOf(c) = {t}
    BY <1>2 DEF PendingOf, Pending, RowsOf, OneInFlight, SameConversation
  <1>7. \A d \in Conversations : PendingOf(d)' = IF d = c THEN {} ELSE PendingOf(d)
    <2> TAKE d \in Conversations
    <2>1. CASE d = c
      BY <1>2, <1>3, <1>6, <2>1 DEF PendingOf, Pending
    <2>2. CASE d # c
      BY <1>2, <1>3, <2>2 DEF PendingOf, Pending, RowsOf
    <2> QED
      BY <2>1, <2>2
  <1>8. KeysOf(PendingOf(c)) = {k}
    BY <1>6 DEF KeysOf
  <1>9. \A d \in Conversations :
           KeysOf(PendingOf(d))' = IF d = c THEN {} ELSE KeysOf(PendingOf(d))
    BY <1>1, <1>7 DEF KeysOf, arguments
  <1>10. \A d \in Conversations :
            AnswersOf(d)' = IF d = c THEN AnswersOf(c) \cup {<<quota_used[c] + 1, k>>}
                            ELSE AnswersOf(d)
    <2> DEFINE Done(d) == {u \in RowsOf(d) : status[u] = "completed"}
    <2> TAKE d \in Conversations
    <2>1. Done(d)' = IF d = c THEN Done(c) \cup {t} ELSE Done(d)
      BY <1>2, <1>3 DEF RowsOf
    <2>2. t \notin Done(d)
      BY <1>2
    <2>3. \A u \in Done(d) : response_used'[u] = response_used[u]
      BY <1>2, <2>2 DEF RowsOf
    <2>4. response_used'[t] = quota_used[c] + 1 /\ UNCHANGED idempotency_key
      BY <1>1, <1>2 DEF arguments
    <2>5. AnswersOf(d)' = {<<response_used'[u], idempotency_key[u]>> : u \in Done(d)'}
      BY <2>4 DEF AnswersOf
    <2>6. AnswersOf(d) = {<<response_used[u], idempotency_key[u]>> : u \in Done(d)}
      BY DEF AnswersOf
    <2> QED
      BY <2>1, <2>3, <2>4, <2>5, <2>6
  <1>11. Ledger!Complete(c, k)
    BY <1>1, <1>2, <1>4, <1>5, <1>8, <1>9, <1>10 DEF Ledger!Complete
  <1> QED
    BY <1>1, <1>11 DEF Ledger!Next

\* Failing pending rows gives up the questions of their conversations.
LEMMA EndIsAbort ==
    ASSUME IInv, UNCHANGED arguments,
           NEW rows \in SUBSET Tasks, NEW error \in FailureCodes,
           EndRows(rows, error), \A r \in rows : Pending(r),
           \A c \in Conversations : ToldIn(c)' = ToldIn(c)
    PROVE  Ledger!Next
  <1> DEFINE S == {conversation_id[r] : r \in rows}
  <1> USE DEF IInv, TypeOK
  <1>1. S \in SUBSET Conversations
    OBVIOUS
  <1>2. /\ UNCHANGED <<quota_used, response_used>>
        /\ \A u \in Tasks : status'[u] = IF u \in rows THEN "failed" ELSE status[u]
        /\ \A r \in rows : status[r] = "pending"
    BY DEF EndRows, Pending
  <1>3. \A d \in Conversations : RowsOf(d)' = RowsOf(d)
    BY <1>2 DEF RowsOf, arguments
  <1>4. \A d \in Conversations : KeysOf(RowsOf(d))' = KeysOf(RowsOf(d))
    BY <1>3 DEF KeysOf, arguments
  <1>5. \A d \in Conversations : AnswersOf(d)' = AnswersOf(d)
    <2> TAKE d \in Conversations
    <2>1. {u \in RowsOf(d) : status[u] = "completed"}'
            = {u \in RowsOf(d) : status[u] = "completed"}
      BY <1>2, <1>3 DEF RowsOf
    <2> QED
      BY <1>2, <2>1 DEF AnswersOf, arguments
  <1>6. \A d \in Conversations :
           PendingOf(d)' = IF d \in S THEN {} ELSE PendingOf(d)
    <2> TAKE d \in Conversations
    <2>1. CASE d \in S
      <3>1. PICK r \in rows : conversation_id[r] = d
        BY <2>1
      <3>2. \A u \in PendingOf(d) : u = r
        BY <1>2, <3>1 DEF PendingOf, Pending, RowsOf, OneInFlight, SameConversation
      <3>3. PendingOf(d)' = {}
        BY <1>2, <1>3, <3>1, <3>2 DEF PendingOf, Pending, RowsOf
      <3> QED
        BY <2>1, <3>3
    <2>2. CASE d \notin S
      <3>1. \A u \in RowsOf(d) : u \notin rows
        BY <2>2 DEF RowsOf
      <3> QED
        BY <1>2, <1>3, <2>2, <3>1 DEF PendingOf, Pending, RowsOf
    <2> QED
      BY <2>1, <2>2
  <1>7. \A d \in Conversations :
           KeysOf(PendingOf(d))' = IF d \in S THEN {} ELSE KeysOf(PendingOf(d))
    BY <1>6 DEF KeysOf, arguments
  <1>8. Ledger!Abort(S)
    BY <1>2, <1>4, <1>5, <1>7 DEF Ledger!Abort
  <1> QED
    BY <1>1, <1>8 DEF Ledger!Next

\* With the database unchanged, at most one client is told an entry.
LEMMA ReplyIsDelivery ==
    ASSUME IInv, [Next]_vars, UNCHANGED database, NEW t \in Tasks,
           reply[t] = "none",
           \A u \in Tasks : u # t => reply'[u] = reply[u] /\ reply_used'[u] = reply_used[u]
    PROVE  [Ledger!Next]_(Ledger!vars)
  <1> DEFINE c == conversation_id[t]
             k == idempotency_key[t]
  <1> USE DEF IInv, TypeOK
  <1>1. /\ c \in Conversations /\ k \in Keys /\ UNCHANGED arguments
        /\ UNCHANGED <<quota_used, status, response_used>>
    BY StepEffect DEF database, rag_requests, rag_responses
  <1>2. \A d \in Conversations :
           /\ KeysOf(RowsOf(d))' = KeysOf(RowsOf(d)) /\ AnswersOf(d)' = AnswersOf(d)
           /\ KeysOf(PendingOf(d))' = KeysOf(PendingOf(d))
    BY <1>1 DEF KeysOf, RowsOf, AnswersOf, PendingOf, Pending, arguments
  <1>3. CASE reply'[t] = "ok"
    <2> DEFINE n == reply_used'[t]
    <2>1. PICK r \in Tasks : /\ SameKey(r, t) /\ status[r] = "completed"
                             /\ n = response_used[r]
      BY <1>3, ReplyStep DEF NewReply
    <2>2. conversation_id[r] = c /\ idempotency_key[r] = k
      BY <2>1 DEF SameKey, SameConversation
    <2>3. <<n, k>> \in AnswersOf(c) /\ n \in 1..quota_used[c]
      BY <2>1, <2>2 DEF AnswersOf, RowsOf, Numbered
    <2>4. \A d \in Conversations :
             ToldIn(d)' = IF d = c THEN ToldIn(c) \cup {<<n, k>>} ELSE ToldIn(d)
      <3> DEFINE Answered(d) == {u \in Tasks : reply[u] = "ok" /\ conversation_id[u] = d}
      <3> TAKE d \in Conversations
      <3>1. Answered(d)' = IF d = c THEN Answered(c) \cup {t} ELSE Answered(d)
        BY <1>1, <1>3 DEF arguments
      <3>2. \A u \in Answered(d) : reply_used'[u] = reply_used[u]
        OBVIOUS
      <3>3. UNCHANGED idempotency_key
        BY <1>1 DEF arguments
      <3>4. ToldIn(d)' = {<<reply_used'[u], idempotency_key[u]>> : u \in Answered(d)'}
        BY <3>3 DEF ToldIn
      <3>5. ToldIn(d) = {<<reply_used[u], idempotency_key[u]>> : u \in Answered(d)}
        BY DEF ToldIn
      <3> QED
        BY <3>1, <3>2, <3>4, <3>5
    <2>5. Ledger!Deliver(c, n, k)
      BY <1>1, <1>2, <2>3, <2>4 DEF Ledger!Deliver
    <2> QED
      BY <1>1, <2>3, <2>5 DEF Ledger!Next
  <1>4. CASE reply'[t] # "ok"
    <2>1. \A d \in Conversations : ToldIn(d)' = ToldIn(d)
      BY <1>1, <1>4, ToldUnchanged
    <2>2. UNCHANGED Ledger!vars
      BY <1>1, <1>2, <2>1 DEF Ledger!vars
    <2> QED
      BY <2>2
  <1> QED
    BY <1>3, <1>4

\* Every step of the pipeline is a step of the ledger or leaves it alone: the
\* insert of Txn 1 is Admit or Reject, the commit of _finish Complete, _fail and
\* recovery Abort, an answered client Deliver.
LEMMA StepIsLedgerStep ==
    ASSUME IInv, [Next]_vars
    PROVE  [Ledger!Next]_(Ledger!vars)
  <1> USE DEF IInv, TypeOK
  <1>1. CASE UNCHANGED <<arguments, database, told>>
    BY <1>1, LedgerUnchanged
  <1>2. ASSUME NEW t \in Tasks, AskInsert(t) \/ FinishCommit(t)
        PROVE  Ledger!Next
    BY <1>2, InsertIsAdmission, FinishIsCompletion
  <1>3. ASSUME RecoverCommit
        PROVE  Ledger!Next
    <2>1. /\ UNCHANGED <<arguments, told>> /\ EndRows(recovering, "worker_lost")
          /\ "worker_lost" \in FailureCodes /\ recovering \in SUBSET Tasks
          /\ \A r \in recovering : Pending(r)
      BY <1>3 DEF RecoverCommit, RecoveryOK, FailureCodes
    <2>2. \A c \in Conversations : ToldIn(c)' = ToldIn(c)
      BY <2>1 DEF ToldIn, told, arguments
    <2> QED
      BY <2>1, <2>2, EndIsAbort
  <1>4. ASSUME NEW t \in Tasks, AskReplay(t) \/ FinishLock(t) \/ Return(t)
        PROVE  [Ledger!Next]_(Ledger!vars)
    <2>1. UNCHANGED database /\ reply[t] = "none"
      BY <1>4 DEF AskReplay, FinishLock, Return, ReadyToReturn, PhaseOK
    <2>2. \A u \in Tasks : u # t => reply'[u] = reply[u] /\ reply_used'[u] = reply_used[u]
      BY <1>4 DEF AskReplay, FinishLock, Return, ReplayOf, Answer, Raise, told
    <2> QED
      BY <2>1, <2>2, ReplyIsDelivery
  <1>5. ASSUME NEW t \in Tasks, FailCommit(t)
        PROVE  [Ledger!Next]_(Ledger!vars)
    <2>1. /\ reply[t] = "none" /\ code[t] \in FailureCodes /\ UNCHANGED arguments
          /\ reply'[t] # "ok"
          /\ \A u \in Tasks : u # t => reply'[u] = reply[u] /\ reply_used'[u] = reply_used[u]
      BY <1>5 DEF FailCommit, PhaseOK, Raise, told, FailureCodes, ProviderCodes
    <2>2. CASE FailAllowed(t)
      <3>1. EndRows({t}, code[t]) /\ \A r \in {t} : Pending(r)
        BY <1>5, <2>2 DEF FailCommit, FailAllowed
      <3>2. \A c \in Conversations : ToldIn(c)' = ToldIn(c)
        BY <2>1, ToldUnchanged
      <3> QED
        BY <2>1, <3>1, <3>2, EndIsAbort
    <2>3. CASE ~FailAllowed(t)
      <3>1. UNCHANGED database
        BY <1>5, <2>3 DEF FailCommit
      <3> QED
        BY <2>1, <3>1, ReplyIsDelivery
    <2> QED
      BY <2>2, <2>3
  <1>6. ASSUME NEW t \in Tasks,
               \/ Post(t) \/ Failure(t) \/ Age(t)
               \/ AskFresh(t) \/ AskBudgetLock(t) \/ AskDecide(t)
               \/ EnterTry(t) \/ Generate(t)
        PROVE  UNCHANGED <<arguments, database, told>>
    BY <1>6 DEF Post, Failure, Age, ProviderFails, Disconnect, DatabaseFails,
                WorkerLost, FailWith, Vanish, AskFresh, AskBudgetLock, AskDecide,
                EnterTry, Generate
  <1>7. ASSUME RecoverSelect \/ RecoverLost \/ MonthRolls \/ UNCHANGED vars
        PROVE  UNCHANGED <<arguments, database, told>>
    BY <1>7 DEF RecoverSelect, RecoverLost, MonthRolls, vars
  <1> QED
    BY <1>1, <1>2, <1>3, <1>4, <1>5, <1>6, <1>7 DEF Next, Step, Recovery

\* Nobody has asked anything: the ledger is empty.
LEMMA InitIsEmptyLedger == Init => Ledger!Init
  <1> SUFFICES ASSUME Init PROVE Ledger!Init
    OBVIOUS
  <1>1. \A c \in Conversations : RowsOf(c) = {}
    BY DEF Init, RowsOf
  <1>2. \A c \in Conversations :
           KeysOf(RowsOf(c)) = {} /\ KeysOf(PendingOf(c)) = {} /\ AnswersOf(c) = {}
    BY <1>1 DEF KeysOf, PendingOf, AnswersOf
  <1>3. \A c \in Conversations : ToldIn(c) = {}
    BY DEF Init, ToldIn
  <1> QED
    BY <1>2, <1>3 DEF Init, Ledger!Init

\* The pipeline of service.py implements the ledger: answers are numbered
\* without gaps up to the quota, a key is accepted at most once, one question is
\* in flight, and clients are told only what is in the ledger.
THEOREM LedgerImplemented == Spec => ImplementsLedger
  <1>1. IInv /\ [Next]_vars => [Ledger!Next]_(Ledger!vars)
    BY StepIsLedgerStep
  <1> QED
    BY Invariance, InitIsEmptyLedger, <1>1, PTL DEF Spec, ImplementsLedger, Ledger!Spec

=============================================================================
