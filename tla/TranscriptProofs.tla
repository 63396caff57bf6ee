-------------------------- MODULE TranscriptProofs --------------------------
(***************************************************************************)
(* Proofs about Transcript: pages and prompts, for any number of questions  *)
(* and clients, any ids, any limits and any window.                        *)
(***************************************************************************)
EXTENDS TranscriptProps, FiniteSetTheorems, TLAPS

(***************************************************************************)
(* Messages and their order.                                               *)
(***************************************************************************)

\* A message is the question or the answer of one task.
LEMMA MessageFacts ==
    /\ \A t \in Tasks : Question(t) \in Messages /\ Answer(t) \in Messages
    /\ \A t, u \in Tasks : /\ Question(t) # Answer(u)
                           /\ Question(t) = Question(u) => t = u
                           /\ Answer(t) = Answer(u) => t = u
    /\ \A m \in Messages : \E t \in Tasks : m = Question(t) \/ m = Answer(t)
    /\ Completed \subseteq Messages
    /\ IsFiniteSet(Messages)
  <1>1. IsFiniteSet({"user", "assistant"})
    <2>1. IsFiniteSet({} \cup {"user"})
      BY FS_EmptySet, FS_AddElement, Zenon
    <2>2. IsFiniteSet(({} \cup {"user"}) \cup {"assistant"})
      BY <2>1, FS_AddElement, Zenon
    <2>3. ({} \cup {"user"}) \cup {"assistant"} = {"user", "assistant"}
      OBVIOUS
    <2> QED  BY <2>2, <2>3
  <1>2. IsFiniteSet(Messages)
    BY <1>1, TranscriptAssumption, FS_Product, Zenon DEF Messages
  <1> QED
    BY <1>2 DEF Messages, Question, Answer, Completed

\* A set of numbers has a least one, or one could go down forever through the
\* finitely many below.
LEMMA Least ==
    ASSUME NEW T \in SUBSET Nat, T # {}
    PROVE  \E n \in T : \A m \in T : n <= m
  <1> SUFFICES ASSUME \A n \in T : \E m \in T : m < n PROVE FALSE
    OBVIOUS
  <1> PICK n \in T : TRUE
    OBVIOUS
  <1> DEFINE Below == {i \in 0 .. n : \A m \in T : i <= m}
             up == [i \in Below |-> i + 1]
  <1>1. IsFiniteSet(Below) /\ 0 \in Below
    <2>1. IsFiniteSet(0 .. n) /\ Below \subseteq 0 .. n
      BY FS_Interval
    <2> QED
      BY <2>1, FS_Subset
  <1>2. IsFiniteSet(Below \ {0}) /\ Cardinality(Below \ {0}) < Cardinality(Below)
    <2> HIDE DEF Below
    <2>1. Cardinality(Below) \in Nat
      BY <1>1, FS_CardinalityType
    <2>2. /\ IsFiniteSet(Below \ {0})
          /\ Cardinality(Below \ {0}) = Cardinality(Below) - 1
      BY <1>1, FS_RemoveElement, Zenon
    <2> QED
      BY <2>1, <2>2
  <1>3. up \in [Below -> Below \ {0}]
    OBVIOUS
  <1>4. \E i, j \in Below : i # j /\ up[i] = up[j]
    <2> HIDE DEF Below, up
    <2> QED
      BY <1>1, <1>2, <1>3, FS_PigeonHole
  <1> QED
    BY <1>4

\* How many of some rows come before m.
Ahead(m, rows) == {k \in rows : Newer(k, m)}
Rank(m, rows) == Cardinality(Ahead(m, rows))

\* Newer is a strict total order, because ids differ.
LEMMA NewerOrders ==
    ASSUME created_at \in [Messages -> Nat]
    PROVE  /\ \A m \in Messages : ~Newer(m, m)
           /\ \A m, k \in Messages : m = k \/ Newer(m, k) \/ Newer(k, m)
           /\ \A m, k, j \in Messages : Newer(m, k) /\ Newer(k, j) => Newer(m, j)
  BY TranscriptAssumption DEF Newer

\* Who is newer has a smaller rank, and the other way round.
LEMMA RankOrders ==
    ASSUME created_at \in [Messages -> Nat], NEW rows \in SUBSET Messages
    PROVE  /\ \A m \in rows : Rank(m, rows) \in Nat /\ IsFiniteSet(Ahead(m, rows))
           /\ \A m, k \in rows : Newer(m, k) <=> Rank(m, rows) < Rank(k, rows)
  <1>1. \A m \in rows : Rank(m, rows) \in Nat /\ IsFiniteSet(Ahead(m, rows))
    <2> TAKE m \in rows
    <2>1. Ahead(m, rows) \in SUBSET Messages
      BY DEF Ahead
    <2>2. IsFiniteSet(Ahead(m, rows))
      BY <2>1, MessageFacts, FS_Subset
    <2> QED
      BY <2>2, FS_CardinalityType DEF Rank
  <1>2. ASSUME NEW m \in rows, NEW k \in rows, Newer(m, k)
        PROVE  Rank(m, rows) < Rank(k, rows)
    <2>1. Ahead(m, rows) \in SUBSET Ahead(k, rows)
      BY <1>2, NewerOrders DEF Ahead
    <2>2. m \in Ahead(k, rows) /\ m \notin Ahead(m, rows)
      BY <1>2, NewerOrders DEF Ahead
    <2>3. Cardinality(Ahead(m, rows)) <= Cardinality(Ahead(k, rows))
      BY <1>1, <2>1, FS_Subset
    <2>4. Cardinality(Ahead(m, rows)) # Cardinality(Ahead(k, rows))
      BY <1>1, <2>1, <2>2, FS_Subset
    <2> QED
      BY <1>1, <2>3, <2>4 DEF Rank
  <1>3. ASSUME NEW m \in rows, NEW k \in rows, Rank(m, rows) < Rank(k, rows)
        PROVE  Newer(m, k)
    <2>1. m = k \/ Newer(m, k) \/ Newer(k, m)
      BY NewerOrders
    <2> QED
      BY <1>1, <1>2, <1>3, <2>1
  <1> QED
    BY <1>1, <1>2, <1>3

\* A non-empty set of rows has a newest one.
LEMMA NewestExists ==
    ASSUME created_at \in [Messages -> Nat], NEW rows \in SUBSET Messages, rows # {}
    PROVE  \E m \in rows : Rank(m, rows) = 0
  <1> DEFINE Ranks == {Rank(m, rows) : m \in rows}
  <1>1. Ranks \in SUBSET Nat /\ Ranks # {}
    BY RankOrders
  <1>2. PICK m \in rows : \A k \in rows : Rank(m, rows) <= Rank(k, rows)
    <2>1. \E n \in Ranks : \A j \in Ranks : n <= j
      <3> HIDE DEF Ranks
      <3> QED  BY <1>1, Least
    <2> QED  BY <2>1
  <1>3. Ahead(m, rows) = {}
    <2> SUFFICES ASSUME NEW k \in rows, Newer(k, m) PROVE FALSE
      BY DEF Ahead
    <2>1. Rank(k, rows) < Rank(m, rows) /\ Rank(m, rows) <= Rank(k, rows)
      BY <1>2, RankOrders
    <2>2. Rank(k, rows) \in Nat /\ Rank(m, rows) \in Nat
      BY RankOrders
    <2> QED
      BY <2>1, <2>2
  <1> QED
    BY <1>3, FS_EmptySet DEF Rank

\* A non-empty set of rows has an oldest one, which is what Oldest chooses.
LEMMA OldestExists ==
    ASSUME created_at \in [Messages -> Nat], NEW rows \in SUBSET Messages, rows # {}
    PROVE  /\ Oldest(rows) \in rows
           /\ \A k \in rows : created_at[Oldest(rows)] <= created_at[k]
  <1> DEFINE n == Cardinality(rows)
             Depths == {n - Rank(m, rows) : m \in rows}
  <1>1. n \in Nat /\ IsFiniteSet(rows)
    BY MessageFacts, FS_Subset, FS_CardinalityType
  <1>2. \A m \in rows : Rank(m, rows) \in Nat /\ Rank(m, rows) <= n
    <2> TAKE m \in rows
    <2>1. Ahead(m, rows) \in SUBSET rows
      BY DEF Ahead
    <2> QED
      BY <1>1, <2>1, RankOrders, FS_Subset DEF Rank
  <1>3. Depths \in SUBSET Nat /\ Depths # {}
    <2> HIDE DEF n
    <2> QED  BY <1>1, <1>2
  <1>4. PICK m \in rows : \A k \in rows : n - Rank(m, rows) <= n - Rank(k, rows)
    <2>1. \E i \in Depths : \A j \in Depths : i <= j
      <3> HIDE DEF Depths
      <3> QED  BY <1>3, Least
    <2> QED  BY <2>1
  <1>5. \A k \in rows : Rank(k, rows) <= Rank(m, rows)
    <2> HIDE DEF n
    <2> QED  BY <1>1, <1>2, <1>4
  <1>6. \A k \in rows : k = m \/ Newer(k, m)
    BY <1>2, <1>5, RankOrders, NewerOrders
  <1>7. /\ Oldest(rows) \in rows
        /\ \A k \in rows : k = Oldest(rows) \/ Newer(k, Oldest(rows))
    BY <1>6 DEF Oldest
  <1> QED
    BY <1>7 DEF Newer

\* A page of the newest rows: it is not empty when there are rows, what is left
\* out is not newer than what is on it, and the row fetched beyond the limit says
\* truly whether anything is left out.
LEMMA PageCut ==
    ASSUME created_at \in [Messages -> Nat], NEW rows \in SUBSET Messages,
           NEW limit \in Nat, limit >= 1
    PROVE  LET cut == Newest(limit, rows)
           IN  /\ cut \subseteq rows
               /\ cut = {} => rows = {}
               /\ \A m \in rows \ cut, k \in cut : created_at[m] <= created_at[k]
               /\ rows # cut => MoreThan(limit, rows)
               /\ MoreThan(limit, rows) => rows # {}
  <1> DEFINE cut == Newest(limit, rows)
             fetched == Newest(limit + 1, rows)
  <1>1. /\ \A m \in rows : m \in cut <=> Rank(m, rows) < limit
        /\ \A m \in rows : m \in fetched <=> Rank(m, rows) < limit + 1
        /\ cut \subseteq rows /\ fetched \subseteq rows
    BY DEF Newest, Rank, Ahead
  <1> HIDE DEF cut, fetched
  <1>2. cut = {} => rows = {}
    BY <1>1, NewestExists
  <1>3. \A m \in rows \ cut, k \in cut : created_at[m] <= created_at[k]
    <2> TAKE m \in rows \ cut, k \in cut
    <2>1. Rank(k, rows) < Rank(m, rows)
      BY <1>1, RankOrders
    <2>2. Newer(k, m)
      BY <1>1, <2>1, RankOrders
    <2> QED
      BY <1>1, <2>2 DEF Newer
  <1>4. IsFiniteSet(fetched)
    BY <1>1, MessageFacts, FS_Subset
  <1>5. ASSUME rows # cut PROVE Cardinality(fetched) > limit
    <2> DEFINE Ranks == {Rank(m, rows) : m \in rows \ cut}
    <2>1. Ranks \in SUBSET Nat /\ Ranks # {}
      BY <1>1, <1>5, RankOrders
    <2>2. PICK m \in rows \ cut : \A k \in rows \ cut : Rank(m, rows) <= Rank(k, rows)
      <3>1. \E i \in Ranks : \A j \in Ranks : i <= j
        <4> HIDE DEF Ranks
        <4> QED  BY <2>1, Least
      <3> QED  BY <3>1
    <2>3. Rank(m, rows) \in Nat /\ Rank(m, rows) >= limit
      BY <1>1, RankOrders
    <2>4. \A k \in Ahead(m, rows) : k \in rows /\ Rank(k, rows) \in Nat /\ Rank(k, rows) < Rank(m, rows)
      BY RankOrders DEF Ahead
    <2>5. Ahead(m, rows) \subseteq fetched
      BY <1>1, <2>2, <2>3, <2>4
    <2>6. CASE Rank(m, rows) > limit
      BY <1>4, <2>3, <2>5, <2>6, FS_Subset, FS_CardinalityType DEF Rank
    <2>7. CASE Rank(m, rows) = limit
      <3>1. m \in fetched /\ m \notin Ahead(m, rows)
        BY <1>1, <2>7, NewerOrders DEF Ahead
      <3>2. Ahead(m, rows) \cup {m} \in SUBSET fetched
        BY <2>5, <3>1
      <3>3. IsFiniteSet(Ahead(m, rows))
        BY RankOrders
      <3>4. Cardinality(Ahead(m, rows) \cup {m}) = limit + 1
        BY <2>7, <3>1, <3>3, FS_AddElement DEF Rank
      <3>5. Cardinality(Ahead(m, rows) \cup {m}) <= Cardinality(fetched)
        BY <1>4, <3>2, FS_Subset
      <3> QED
        BY <1>4, <3>4, <3>5, FS_CardinalityType
    <2> QED
      BY <2>3, <2>6, <2>7
  <1>6. ASSUME Cardinality(fetched) > limit PROVE rows # {}
    <2>1. fetched = {} => Cardinality(fetched) = 0
      BY FS_EmptySet
    <2> QED
      BY <1>1, <1>6, <2>1
  <1> QED
    BY <1>1, <1>2, <1>3, <1>5, <1>6 DEF cut, fetched, MoreThan

(***************************************************************************)
(* Types.                                                                  *)
(***************************************************************************)

\* Every reachable state has the types the code gives its columns, and no message
\* and no cursor is of the future.
THEOREM TypeCorrect == Spec => []TypeOK
<1>1. Init => TypeOK
  BY MessageFacts, TranscriptAssumption DEF Init, TypeOK
<1>2. TypeOK /\ [Next]_vars => TypeOK'
  <2> SUFFICES ASSUME TypeOK, [Next]_vars PROVE TypeOK'
    OBVIOUS
  <2> USE DEF TypeOK
  <2>1. CASE Tick
    BY <2>1, TranscriptAssumption DEF Tick, tasks, database, walks
  <2>2. ASSUME NEW t \in Tasks, Post(t) \/ Generate(t) PROVE TypeOK'
    BY <2>2 DEF Post, Generate, Begin, Goto, database, walks
  <2>3. ASSUME NEW t \in Tasks, Admit(t) \/ Deny(t) PROVE TypeOK'
    <3>1. Question(t) \in Messages
      BY MessageFacts
    <3>2. /\ request' \in [Tasks -> {"absent", "pending", "rejected", "failed", "completed"}]
          /\ status' \in [Messages -> {"absent", "pending", "failed", "completed"}]
          /\ created_at' \in [Messages -> 0 .. clock]
      BY <2>3, <3>1 DEF Admit, Deny, Insert
    <3>3. /\ pc' \in [Tasks -> {"idle", "asking", "admitted", "generating", "finishing", "done"}]
          /\ UNCHANGED <<clock, began, history, walks>>
      BY <2>3 DEF Admit, Deny, Goto
    <3> QED
      BY <3>2, <3>3 DEF walks
  <2>4. ASSUME NEW t \in Tasks, Remember(t) PROVE TypeOK'
    <3>1. Recent \in SUBSET Messages
      BY MessageFacts DEF Recent, Newest
    <3> QED
      BY <2>4, <3>1 DEF Remember, Goto, database, walks
  <2>5. ASSUME NEW t \in Tasks, Finish(t) PROVE TypeOK'
    <3>1. Question(t) \in Messages /\ Answer(t) \in Messages
      BY MessageFacts
    <3>2. /\ request' \in [Tasks -> {"absent", "pending", "rejected", "failed", "completed"}]
          /\ status' \in [Messages -> {"absent", "pending", "failed", "completed"}]
          /\ created_at' \in [Messages -> 0 .. clock]
      BY <2>5, <3>1 DEF Finish, AnswerStored, database
    <3>3. /\ pc' \in [Tasks -> {"idle", "asking", "admitted", "generating", "finishing", "done"}]
          /\ UNCHANGED <<clock, began, history, walks>>
      BY <2>5 DEF Finish, Goto
    <3> QED
      BY <3>2, <3>3 DEF walks
  <2>6. ASSUME NEW t \in Tasks, Fail(t) \/ Recover(t) PROVE TypeOK'
    <3>1. Question(t) \in Messages
      BY MessageFacts
    <3>2. /\ request' \in [Tasks -> {"absent", "pending", "rejected", "failed", "completed"}]
          /\ status' \in [Messages -> {"absent", "pending", "failed", "completed"}]
          /\ UNCHANGED <<clock, created_at, began, history, walks>>
      BY <2>6, <3>1 DEF Fail, Recover, FailRow, database, tasks
    <3>3. pc' \in [Tasks -> {"idle", "asking", "admitted", "generating", "finishing", "done"}]
      BY <2>6 DEF Fail, Recover, Goto, tasks
    <3> QED
      BY <3>2, <3>3 DEF walks
  <2>7. ASSUME NEW w \in Walks, NEW limit \in Limits, Page(w, limit) PROVE TypeOK'
    <3>1. limit \in Nat /\ limit >= 1 /\ Eligible(w) \in SUBSET Messages
      BY TranscriptAssumption, MessageFacts DEF Eligible
    <3>2. created_at \in [Messages -> Nat]
      OBVIOUS
    <3>3. Newest(limit, Eligible(w)) \in SUBSET Messages
      BY <3>1 DEF Newest
    <3>4. ASSUME MoreThan(limit, Eligible(w))
          PROVE  Cursor(limit, Eligible(w)) \in 0 .. clock
      <4>1. Newest(limit, Eligible(w)) # {}
        BY <3>1, <3>2, <3>4, PageCut
      <4>2. Oldest(Newest(limit, Eligible(w))) \in Messages
        BY <3>2, <3>3, <4>1, OldestExists
      <4> QED
        BY <4>2 DEF Cursor
    <3>5. Completed \in SUBSET Messages
      BY MessageFacts
    <3> QED
      BY <2>7, <3>3, <3>4, <3>5 DEF Page, tasks, database
  <2>8. CASE UNCHANGED vars
    BY <2>8 DEF vars, tasks, database, walks
  <2> QED
    BY <2>1, <2>2, <2>3, <2>4, <2>5, <2>6, <2>7, <2>8 DEF Next, Ask
<1> QED
  BY <1>1, <1>2, PTL DEF Spec

(***************************************************************************)
(* The invariant.                                                          *)
(***************************************************************************)

\* A request, its question and its answer are completed together.
RowsRight ==
    \A t \in Tasks :
        /\ pc[t] \in {"idle", "asking"} => request[t] = "absent"
        /\ status[Question(t)] = "completed" <=> request[t] = "completed"
        /\ status[Answer(t)] = "completed" <=> request[t] = "completed"

\* One request is in flight; when its _finish begins, nothing completed is newer.
FlightRight ==
    /\ \A t, u \in Tasks : Pending(t) /\ Pending(u) => t = u
    /\ \A t \in Tasks : Pending(t) /\ pc[t] = "finishing" =>
          \A m \in Completed : created_at[m] <= began[t]

\* What is still to come on a walk is older than its cursor, which is the time of
\* something it has shown; answers that came in since it started are not.
StillToCome(w, m) == walk[w] = "open" /\ created_at[m] < before[w]
WalkRight(w) ==
    /\ Seen(w) \subseteq Completed /\ awaited[w] \subseteq Completed
    /\ walk[w] = "new" => Seen(w) = {} /\ awaited[w] = {}
    /\ walk[w] = "open" => /\ \A k \in Seen(w) : before[w] <= created_at[k]
                           /\ \E k \in Seen(w) : before[w] = created_at[k]
    /\ \A m \in awaited[w] : Accounted(w, m) \/ StillToCome(w, m)
    /\ \A t \in Tasks :
          /\ Answer(t) \in awaited[w] => Question(t) \in awaited[w]
          /\ Answer(t) \in Seen(w) => Answer(t) \in awaited[w]
          /\ StillToCome(w, Answer(t)) /\ Answer(t) \in Completed => Answer(t) \in awaited[w]
    /\ \A m \in page[w], k \in earlier[w] : created_at[m] < created_at[k]

IInv == TypeOK /\ RowsRight /\ FlightRight /\ ContextFresh /\ \A w \in Walks : WalkRight(w)

(***************************************************************************)
(* What a task's step does to the transcript.                              *)
(***************************************************************************)

\* Nothing, as far as completed messages go; or it adds an exchange.
Steady == /\ Completed' = Completed
          /\ \A m \in Completed : created_at'[m] = created_at[m]
Stored(t) == /\ Pending(t) /\ pc[t] = "finishing"
             /\ Question(t) \notin Completed /\ Answer(t) \notin Completed
             /\ Completed' = Completed \cup {Question(t), Answer(t)}
             /\ created_at' = [created_at EXCEPT ![Answer(t)] = began[t]]

LEMMA TaskEffect ==
    ASSUME TypeOK, RowsRight, NEW t \in Tasks, Ask(t) \/ Recover(t)
    PROVE  /\ UNCHANGED <<clock, walks>>
           /\ Steady \/ Stored(t)
  <1> USE DEF TypeOK, RowsRight
  <1>1. CASE Post(t) \/ Generate(t) \/ Remember(t)
    BY <1>1 DEF Post, Generate, Remember, database, Steady, Completed
  <1>2. CASE Admit(t) \/ Deny(t)
    BY <1>2, MessageFacts DEF Admit, Deny, Insert, Steady, Completed
  <1>3. CASE Finish(t)
    <2>1. CASE ~Pending(t)
      BY <1>3, <2>1 DEF Finish, FinishAllowed, database, Steady, Completed
    <2>2. CASE Pending(t)
      <3>1. /\ status' = [status EXCEPT ![Question(t)] = "completed",
                                        ![Answer(t)] = "completed"]
            /\ created_at' = [created_at EXCEPT ![Answer(t)] = began[t]]
            /\ pc[t] = "finishing" /\ UNCHANGED <<clock, walks>>
        BY <1>3, <2>2 DEF Finish, FinishAllowed, AnswerStored
      <3>2. Question(t) \notin Completed /\ Answer(t) \notin Completed
        BY <2>2 DEF Pending, Completed
      <3>3. Completed' = Completed \cup {Question(t), Answer(t)}
        BY <3>1, MessageFacts DEF Completed
      <3> QED
        BY <2>2, <3>1, <3>2, <3>3 DEF Stored
    <2> QED  BY <2>1, <2>2
  <1>4. CASE Fail(t) \/ Recover(t)
    BY <1>4, MessageFacts
    DEF Fail, Recover, FailRow, Pending, database, Steady, Completed
  <1> QED
    BY <1>1, <1>2, <1>3, <1>4 DEF Ask

\* The newest completed messages stay what they are while nothing is completed.
LEMMA RecentSteady ==
    ASSUME Steady
    PROVE  Recent' = Recent
  <1>1. \A m, k \in Completed : Newer(k, m)' <=> Newer(k, m)
    BY DEF Steady, Newer
  <1>2. \A m \in Completed : {k \in Completed : Newer(k, m)'} = {k \in Completed : Newer(k, m)}
    BY <1>1
  <1>3. Recent' = {m \in Completed : Cardinality({k \in Completed : Newer(k, m)'}) < Window}
    BY DEF Steady, Recent, Newest
  <1>4. Recent = {m \in Completed : Cardinality({k \in Completed : Newer(k, m)}) < Window}
    BY DEF Recent, Newest
  <1> QED
    BY <1>2, <1>3, <1>4

(***************************************************************************)
(* Rows and the request in flight.                                         *)
(***************************************************************************)

LEMMA RowsStep ==
    ASSUME IInv, NEW t \in Tasks, Ask(t) \/ Recover(t)
    PROVE  RowsRight'
  <1> USE DEF IInv, TypeOK, RowsRight
  <1>1. CASE Post(t) \/ Generate(t) \/ Remember(t)
    BY <1>1 DEF Post, Generate, Remember, Goto, database
  <1>2. CASE Admit(t) \/ Deny(t)
    BY <1>2, MessageFacts DEF Admit, Deny, Insert, Goto
  <1>3. CASE Finish(t)
    BY <1>3, MessageFacts DEF Finish, FinishAllowed, AnswerStored, Goto, Pending, database
  <1>4. CASE Fail(t)
    BY <1>4, MessageFacts DEF Fail, FailRow, Goto, Pending, database
  <1>5. CASE Recover(t)
    BY <1>5, MessageFacts DEF Recover, FailRow, Pending, tasks
  <1> QED
    BY <1>1, <1>2, <1>3, <1>4, <1>5 DEF Ask

\* Which requests are in flight after a step, and where their tasks are.
LEMMA FlightStep ==
    ASSUME IInv, NEW t \in Tasks, Ask(t) \/ Recover(t)
    PROVE  /\ FlightRight'
           /\ ContextFresh'
  <1> USE DEF IInv, TypeOK
  <1>1. \A u \in Tasks : u # t => /\ Pending(u)' <=> Pending(u)
                                  /\ pc'[u] = pc[u] /\ began'[u] = began[u]
                                  /\ history'[u] = history[u]
    BY DEF Ask, Post, Admit, Deny, Remember, Generate, Finish, Fail, Recover, Insert, FailRow,
           Begin, Goto, Pending, database, tasks
  <1>2. CASE Post(t) \/ Deny(t) \/ Fail(t) \/ Recover(t)
    <2>1. ~Pending(t)'
      BY <1>2 DEF Post, Deny, Fail, Recover, Insert, FailRow, Pending, database, RowsRight
    <2>2. Steady
      <3>1. ~Stored(t)
        <4>1. CASE Post(t) \/ Deny(t)
          BY <4>1 DEF Stored, Post, Deny
        <4>2. CASE Fail(t) \/ Recover(t)
          <5>1. Pending(t) => status'[Question(t)] = "failed"
            BY <4>2, MessageFacts DEF Fail, Recover, FailRow
          <5> QED
            BY <5>1, MessageFacts DEF Stored, Completed
        <4> QED  BY <1>2, <4>1, <4>2
      <3> QED
        BY <3>1, TaskEffect DEF Ask
    <2> QED
      BY <1>1, <2>1, <2>2, RecentSteady DEF FlightRight, ContextFresh, Steady
  <1>3. CASE Admit(t)
    <2>1. pc'[t] = "admitted" /\ \A u \in Tasks : ~Pending(u)
      BY <1>3 DEF Admit, Goto, InFlight
    <2> QED
      BY <1>1, <2>1 DEF FlightRight, ContextFresh
  <1>4. CASE Remember(t)
    <2>1. Steady /\ pc'[t] = "generating" /\ history'[t] = Recent /\ (Pending(t)' <=> Pending(t))
      BY <1>4 DEF Remember, Goto, Pending, database, Steady, Completed
    <2> QED
      BY <1>1, <2>1, RecentSteady DEF FlightRight, ContextFresh, Steady
  <1>5. CASE Generate(t)
    <2>1. /\ Steady /\ pc[t] = "generating" /\ history'[t] = history[t] /\ began'[t] = clock
          /\ (Pending(t)' <=> Pending(t))
      BY <1>5 DEF Generate, Begin, Goto, Pending, database, Steady, Completed
    <2>2. \A m \in Completed : created_at[m] <= clock
      BY MessageFacts
    <2> QED
      BY <1>1, <2>1, <2>2, RecentSteady DEF FlightRight, ContextFresh, Steady
  <1>6. CASE Finish(t)
    <2>1. ~Pending(t)'
      BY <1>6 DEF Finish, FinishAllowed, Pending, database
    <2>2. CASE Pending(t)
      BY <1>1, <2>1, <2>2 DEF FlightRight, ContextFresh
    <2>3. CASE ~Pending(t)
      <3>1. Steady
        BY <1>6, <2>3, TaskEffect DEF Stored, Ask
      <3> QED
        BY <1>1, <2>1, <3>1, RecentSteady DEF FlightRight, ContextFresh, Steady
    <2> QED  BY <2>2, <2>3
  <1> QED
    BY <1>2, <1>3, <1>4, <1>5, <1>6 DEF Ask

(***************************************************************************)
(* Walks.                                                                  *)
(***************************************************************************)

\* No task disturbs a walk: an answer that comes in is as new as its cursor.
LEMMA WalkSteady ==
    ASSUME IInv, NEW w \in Walks, UNCHANGED walks, Steady
    PROVE  WalkRight(w)'
  <1>1. WalkRight(w) /\ Completed \subseteq Messages
    BY MessageFacts DEF IInv
  <1>2. \A m \in Completed : created_at'[m] = created_at[m]
    BY DEF Steady
  <1>3. Seen(w)' = Seen(w) /\ Seen(w) \subseteq Completed /\ awaited[w] \subseteq Completed
    BY <1>1 DEF walks, Seen, WalkRight
  <1>4. \A m \in Completed : /\ Accounted(w, m)' <=> Accounted(w, m)
                             /\ StillToCome(w, m)' <=> StillToCome(w, m)
    BY <1>2, <1>3 DEF walks, Accounted, StillToCome
  <1> QED
    BY <1>1, <1>2, <1>3, <1>4 DEF WalkRight, Steady, walks, Seen

LEMMA WalkStored ==
    ASSUME IInv, NEW w \in Walks, UNCHANGED walks, NEW t \in Tasks, Stored(t)
    PROVE  WalkRight(w)'
  <1>1. WalkRight(w) /\ Completed \subseteq Messages /\ created_at \in [Messages -> Nat]
    BY MessageFacts DEF IInv, TypeOK
  <1>2. /\ Answer(t) \notin Completed
        /\ Completed' = Completed \cup {Question(t), Answer(t)}
        /\ \A m \in Completed : created_at'[m] = created_at[m]
        /\ created_at'[Answer(t)] = began[t]
    BY <1>1, MessageFacts DEF Stored
  <1>3. Seen(w)' = Seen(w) /\ Seen(w) \subseteq Completed /\ awaited[w] \subseteq Completed
    BY <1>1 DEF walks, Seen, WalkRight
  <1>4. \A m \in Completed : /\ Accounted(w, m)' <=> Accounted(w, m)
                             /\ StillToCome(w, m)' <=> StillToCome(w, m)
    BY <1>2, <1>3 DEF walks, Accounted, StillToCome
  <1>5. ~StillToCome(w, Answer(t))'
    <2>1. \A m \in Completed : created_at[m] <= began[t]
      BY DEF IInv, FlightRight, Stored
    <2>2. walk[w] = "open" => before[w] <= began[t]
      BY <1>1, <1>3, <2>1 DEF WalkRight
    <2>3. before[w] \in Nat /\ began[t] \in Nat
      BY DEF IInv, TypeOK
    <2> QED
      BY <1>2, <2>2, <2>3 DEF StillToCome, walks
  <1>6. \A u \in Tasks : Answer(u) \in Completed' => u = t \/ Answer(u) \in Completed
    BY <1>2, MessageFacts
  <1> QED
    BY <1>1, <1>2, <1>3, <1>4, <1>5, <1>6 DEF WalkRight, walks, Seen

\* A page goes on where the walk was, and moves it back in time.
LEMMA WalkPage ==
    ASSUME IInv, NEW w \in Walks, NEW limit \in Limits, Page(w, limit)
    PROVE  WalkRight(w)'
  <1> DEFINE rows == Eligible(w)
             cut == Newest(limit, rows)
             more == MoreThan(limit, rows)
             cursor == Cursor(limit, rows)
  <1>1. /\ WalkRight(w) /\ created_at \in [Messages -> Nat] /\ before[w] \in Nat
        /\ walk[w] \in {"new", "open"} /\ limit \in Nat /\ limit >= 1
        /\ rows \in SUBSET Completed /\ Completed \in SUBSET Messages
    BY TranscriptAssumption, MessageFacts DEF IInv, TypeOK, Page, Eligible
  <1>2. /\ \A m \in Completed : m \in rows <=> walk[w] = "new" \/ created_at[m] < before[w]
        /\ \A m \in Completed : StillToCome(w, m) => m \in rows
    BY DEF Eligible, IsBefore, StillToCome
  <1> HIDE DEF rows
  <1>3. /\ cut \subseteq rows
        /\ cut = {} => rows = {}
        /\ \A m \in rows \ cut, k \in cut : created_at[m] <= created_at[k]
        /\ rows # cut => more
        /\ more => rows # {}
    BY <1>1, PageCut
  <1> HIDE DEF cut
  <1>4. ASSUME more
        PROVE  /\ \A k \in cut : cursor <= created_at[k]
               /\ \E k \in cut : cursor = created_at[k]
    BY <1>1, <1>3, <1>4, OldestExists DEF Cursor, cut
  <1> HIDE DEF more, cursor
  <1>5. /\ UNCHANGED <<clock, tasks, database>>
        /\ page'[w] = cut /\ earlier'[w] = Seen(w)
        /\ walk[w] = "new" => awaited'[w] = Completed
        /\ walk[w] = "open" => awaited'[w] = awaited[w]
        /\ more => before'[w] = cursor /\ walk'[w] = "open"
        /\ ~more => walk'[w] = "ended"
    BY <1>1 DEF IInv, TypeOK, Page, Seen, rows, cut, more, cursor
  <1>6. /\ Completed' = Completed /\ created_at' = created_at
        /\ Seen(w)' = cut \cup Seen(w)
    BY <1>5 DEF Completed, database, Seen
  <1>7. \A k \in Seen(w) : walk[w] = "open" /\ before[w] <= created_at[k]
    BY <1>1 DEF WalkRight
  <1>8. \A m \in Completed :
           /\ Accounted(w, m)' <=> \E k \in cut \cup Seen(w) : created_at[k] = created_at[m]
           /\ StillToCome(w, m)' <=> more /\ created_at[m] < cursor
    BY <1>5, <1>6 DEF Accounted, StillToCome
  <1>9. \A m \in rows : Accounted(w, m)' \/ StillToCome(w, m)'
    <2> TAKE m \in rows
    <2>1. CASE m \in cut
      BY <1>1, <1>8, <2>1
    <2>2. CASE m \notin cut
      <3>1. more /\ \E k \in cut : cursor = created_at[k]
        BY <1>3, <1>4, <2>2
      <3>2. PICK k \in cut : cursor = created_at[k]
        BY <3>1
      <3>3. created_at[m] <= created_at[k]
        BY <1>3, <2>2
      <3>4. created_at[m] \in Nat /\ created_at[k] \in Nat
        BY <1>1, <1>3
      <3> QED
        BY <1>1, <1>8, <3>1, <3>2, <3>3, <3>4
    <2> QED  BY <2>1, <2>2
  <1>10. /\ Seen(w)' \subseteq Completed' /\ awaited'[w] \subseteq Completed'
         /\ walk'[w] # "new"
    BY <1>1, <1>3, <1>5, <1>6 DEF WalkRight
  <1>11. walk'[w] = "open" => /\ \A k \in Seen(w)' : before'[w] <= created_at'[k]
                             /\ \E k \in Seen(w)' : before'[w] = created_at'[k]
    <2> SUFFICES ASSUME more
                 PROVE  /\ \A k \in cut \cup Seen(w) : cursor <= created_at[k]
                        /\ \E k \in cut : cursor = created_at[k]
      BY <1>5, <1>6
    <2>1. PICK j \in cut : cursor = created_at[j]
      BY <1>4
    <2>2. \A k \in Seen(w) : created_at[j] < before[w] /\ before[w] <= created_at[k]
      BY <1>1, <1>2, <1>3, <1>7
    <2>3. \A k \in Seen(w) : created_at[k] \in Nat /\ created_at[j] \in Nat
      BY <1>1, <1>3 DEF WalkRight
    <2> QED
      BY <1>1, <1>4, <2>1, <2>2, <2>3
  <1>12. \A m \in awaited'[w] : Accounted(w, m)' \/ StillToCome(w, m)'
    <2> TAKE m \in awaited'[w]
    <2>1. m \in Completed
      BY <1>6, <1>10
    <2>2. CASE walk[w] = "new"
      BY <1>2, <1>9, <2>1, <2>2
    <2>3. CASE walk[w] = "open"
      <3>1. Accounted(w, m) \/ StillToCome(w, m)
        BY <1>1, <1>5, <2>3 DEF WalkRight
      <3>2. Accounted(w, m) => Accounted(w, m)'
        BY <1>8, <2>1 DEF Accounted
      <3> QED
        BY <1>2, <1>9, <2>1, <3>1, <3>2
    <2> QED  BY <1>1, <2>2, <2>3
  <1>13. ASSUME NEW t \in Tasks
         PROVE  /\ Answer(t) \in awaited'[w] => Question(t) \in awaited'[w]
                /\ Answer(t) \in Seen(w)' => Answer(t) \in awaited'[w]
                /\ StillToCome(w, Answer(t))' /\ Answer(t) \in Completed'
                      => Answer(t) \in awaited'[w]
    <2>1. Answer(t) \in Completed => Question(t) \in Completed
      BY MessageFacts DEF IInv, RowsRight, Completed
    <2>2. CASE walk[w] = "new"
      BY <1>5, <1>6, <1>10, <2>1, <2>2
    <2>3. CASE walk[w] = "open"
      <3>1. /\ Answer(t) \in awaited[w] => Question(t) \in awaited[w]
            /\ Answer(t) \in Seen(w) => Answer(t) \in awaited[w]
            /\ StillToCome(w, Answer(t)) /\ Answer(t) \in Completed => Answer(t) \in awaited[w]
            /\ awaited'[w] = awaited[w]
        BY <1>1, <1>5, <2>3 DEF WalkRight
      <3>2. Answer(t) \in cut => StillToCome(w, Answer(t)) /\ Answer(t) \in Completed
        BY <1>1, <1>2, <1>3, <2>3 DEF StillToCome
      <3>3. StillToCome(w, Answer(t))' /\ Answer(t) \in Completed => StillToCome(w, Answer(t))
        <4> SUFFICES ASSUME more, Answer(t) \in Completed, created_at[Answer(t)] < cursor
                     PROVE  created_at[Answer(t)] < before[w]
          BY <1>8, <2>3 DEF StillToCome
        <4>1. PICK j \in cut : cursor = created_at[j]
          BY <1>4
        <4>2. created_at[j] < before[w] /\ created_at[j] \in Nat
          BY <1>1, <1>2, <1>3, <2>3
        <4> QED
          BY <1>1, <4>1, <4>2
      <3> QED
        BY <1>6, <3>1, <3>2, <3>3
    <2> QED  BY <1>1, <2>2, <2>3
  <1>14. \A m \in page'[w], k \in earlier'[w] : created_at'[m] < created_at'[k]
    <2> SUFFICES ASSUME NEW m \in cut, NEW k \in Seen(w)
                 PROVE  created_at[m] < created_at[k]
      BY <1>5, <1>6
    <2>1. created_at[m] < before[w] /\ before[w] <= created_at[k]
      BY <1>1, <1>2, <1>3, <1>7
    <2>2. created_at[m] \in Nat /\ created_at[k] \in Nat
      BY <1>1, <1>3 DEF WalkRight
    <2> QED
      BY <1>1, <2>1, <2>2
  <1> QED
    BY <1>10, <1>11, <1>12, <1>13, <1>14 DEF WalkRight

(***************************************************************************)
(* The theorems.                                                           *)
(***************************************************************************)

LEMMA Invariance == Spec => []IInv
<1>1. Init => IInv
  <2> SUFFICES ASSUME Init PROVE RowsRight /\ FlightRight /\ ContextFresh
                                 /\ \A w \in Walks : WalkRight(w)
    BY MessageFacts, TranscriptAssumption DEF IInv, Init, TypeOK
  <2>1. RowsRight /\ \A t \in Tasks : ~Pending(t)
    BY MessageFacts DEF Init, RowsRight, Pending
  <2>2. \A w \in Walks : WalkRight(w)
    BY DEF Init, WalkRight, Seen, StillToCome
  <2> QED
    BY <2>1, <2>2 DEF FlightRight, ContextFresh
<1>2. IInv /\ TypeOK' /\ [Next]_vars => IInv'
  <2> SUFFICES ASSUME IInv, TypeOK', [Next]_vars
               PROVE  RowsRight' /\ FlightRight' /\ ContextFresh'
                      /\ \A w \in Walks : WalkRight(w)'
    BY DEF IInv
  <2>1. ASSUME NEW t \in Tasks, Ask(t) \/ Recover(t)
        PROVE  RowsRight' /\ FlightRight' /\ ContextFresh' /\ \A w \in Walks : WalkRight(w)'
    <3>1. UNCHANGED walks /\ (Steady \/ Stored(t))
      BY <2>1, TaskEffect DEF IInv
    <3> QED
      BY <2>1, <3>1, RowsStep, FlightStep, WalkSteady, WalkStored
  <2>2. ASSUME UNCHANGED <<tasks, database>>
        PROVE  RowsRight' /\ FlightRight' /\ ContextFresh' /\ Steady
    <3>1. Steady
      BY <2>2 DEF Steady, Completed, database
    <3> QED
      BY <2>2, <3>1, RecentSteady
      DEF IInv, RowsRight, FlightRight, ContextFresh, Steady, Pending, tasks, database
  <2>3. ASSUME Tick \/ UNCHANGED vars
        PROVE  RowsRight' /\ FlightRight' /\ ContextFresh' /\ \A w \in Walks : WalkRight(w)'
    <3>1. UNCHANGED <<tasks, database, walks>>
      BY <2>3 DEF Tick, vars
    <3> QED
      BY <2>2, <3>1, WalkSteady
  <2>4. ASSUME NEW w \in Walks, NEW limit \in Limits, Page(w, limit)
        PROVE  RowsRight' /\ FlightRight' /\ ContextFresh' /\ \A v \in Walks : WalkRight(v)'
    <3>1. UNCHANGED <<tasks, database>>
      BY <2>4 DEF Page
    <3>2. ASSUME NEW v \in Walks, v # w PROVE WalkRight(v)'
      <4>1. /\ walk'[v] = walk[v] /\ before'[v] = before[v] /\ page'[v] = page[v]
            /\ earlier'[v] = earlier[v] /\ awaited'[v] = awaited[v]
        BY <2>4, <3>2 DEF Page, IInv, TypeOK
      <4>2. WalkRight(v) /\ Completed' = Completed /\ created_at' = created_at
        BY <3>1 DEF IInv, Completed, database
      <4> QED
        BY <4>1, <4>2 DEF WalkRight, Seen, Accounted, StillToCome
    <3>3. WalkRight(w)'
      BY <2>4, WalkPage
    <3> QED
      BY <2>2, <3>1, <3>2, <3>3
  <2> QED
    BY <2>1, <2>3, <2>4 DEF Next
<1> QED
  BY <1>1, <1>2, TypeCorrect, PTL DEF Spec

\* Every page is older than those before it, and a client that follows every cursor
\* to the end sees everything that was complete when it started, but for what is tied
\* in time with a message it sees, whatever is asked, answered, failed or recovered
\* meanwhile.
THEOREM WalksAreExact == Spec => []WalkExact
<1>1. IInv => WalkExact
  BY DEF IInv, WalkExact, WalkRight, StillToCome
<1> QED
  BY <1>1, Invariance, PTL

\* No page shows an answer that was stored after the walk started.
THEOREM AnswersAreOfTheStart == Spec => []NoLateAnswers
<1>1. IInv => NoLateAnswers
  BY DEF IInv, NoLateAnswers, WalkRight
<1> QED
  BY <1>1, Invariance, PTL

\* The context of a prompt is not stale while its question may be answered.
THEOREM ContextIsFresh == Spec => []ContextFresh
  BY Invariance, PTL DEF IInv

=============================================================================
