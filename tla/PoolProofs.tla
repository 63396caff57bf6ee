----------------------------- MODULE PoolProofs -----------------------------
(* Connections for every number of requests, connections and slots.           *)
EXTENDS ConnectionPoolProps, FiniteSetTheorems, TLAPS

IInv == TypeOK /\ NothingKept

\* The sets that are counted are finite.
LEMMA Finite ==
    ASSUME TypeOK
    PROVE  /\ IsFiniteSet(own) /\ IsFiniteSet(second) /\ IsFiniteSet(slots)
           /\ Cardinality(own) \in Nat /\ Cardinality(second) \in Nat
           /\ Cardinality(slots) \in Nat
<1>1. IsFiniteSet(own) /\ IsFiniteSet(second) /\ IsFiniteSet(slots)
  BY PoolAssumption, FS_Subset DEF TypeOK
<1> QED  BY <1>1, FS_CardinalityType

\* Giving up what one has never makes more of it.
LEMMA Fewer ==
    ASSUME NEW S, IsFiniteSet(S), NEW r
    PROVE  Cardinality(S \ {r}) \in Nat /\ Cardinality(S \ {r}) <= Cardinality(S)
BY FS_Subset, FS_CardinalityType

\* Taking one more makes it at most one more.
LEMMA More ==
    ASSUME NEW S, IsFiniteSet(S), NEW r
    PROVE  /\ Cardinality(S \cup {r}) \in Nat
           /\ Cardinality(S \cup {r}) <= Cardinality(S) + 1
<1>1. Cardinality(S) \in Nat /\ Cardinality(S \cup {r}) \in Nat
  BY FS_AddElement, FS_CardinalityType
<1>2. Cardinality(S \cup {r}) = IF r \in S THEN Cardinality(S) ELSE Cardinality(S) + 1
  BY FS_AddElement
<1> QED  BY <1>1, <1>2

\* Whatever ends a phase leaves the sets right for the next one.
LEMMA GotoKeeps ==
    ASSUME IInv, NEW r \in Requests, NEW next \in Phases, Goto(r, next),
           phase[r] = "away" => next = "authorize",
           next \in {"admit", "retrieve", "generate", "finish", "fail"} => r \in own,
           next = "authorize" => r \notin own
    PROVE  IInv'
<1> USE DEF IInv
<1>1. phase' \in [Requests -> Phases] /\ phase' = [phase EXCEPT ![r] = next]
  BY DEF Goto, TypeOK
<1>2. waiting' \subseteq Requests /\ own' \subseteq own /\ second' = second \ {r}
      /\ slots' = slots \ {r}
  BY DEF Goto, TypeOK, SecondAfter, SlotsAfter
<1>3. Cardinality(own') <= Cardinality(own) /\ Cardinality(own') \in Nat
  BY <1>2, Finite, FS_Subset, FS_CardinalityType
<1>4. TypeOK'
  <2>1. Cardinality(second') <= Cardinality(second) /\ Cardinality(second') \in Nat
    BY <1>2, Finite, Fewer
  <2>2. Cardinality(slots') <= Cardinality(slots) /\ Cardinality(slots') \in Nat
    BY <1>2, Finite, Fewer
  <2> QED  BY <1>1, <1>2, <1>3, <2>1, <2>2, Finite, PoolAssumption DEF TypeOK, InUse
<1>5. NothingKept'
  <2>1. ASSUME NEW s \in Requests, s # r
        PROVE  /\ phase'[s] = phase[s] /\ (s \in waiting' <=> s \in waiting)
               /\ (s \in own' <=> s \in own) /\ (s \in second' <=> s \in second)
               /\ (s \in slots' <=> s \in slots)
    BY <1>2, <2>1 DEF Goto, TypeOK
  <2>2. /\ phase'[r] = next /\ (r \in waiting' <=> next # "away")
        /\ r \notin second' /\ r \notin slots'
        /\ (r \in own' <=> r \in own /\ next \notin {"away", "report"})
    BY <1>1, <1>2 DEF Goto, TypeOK
  <2> QED  BY <2>1, <2>2 DEF NothingKept, At, Transactions, Phases
<1> QED  BY <1>4, <1>5

LEMMA CheckoutKeeps ==
    ASSUME IInv, NEW r \in Requests, Checkout(r) PROVE IInv'
<1> USE DEF IInv
<1>1. CASE phase[r] = "authorize"
  <2>1. own' = own \cup {r} /\ second' = second /\ slots' = slots
        /\ phase' = phase /\ waiting' = waiting \ {r}
    BY <1>1 DEF Checkout
  <2>2. Cardinality(own') \in Nat /\ Cardinality(own') <= Cardinality(own) + 1
    BY <2>1, Finite, More
  <2>3. InUse' <= Capacity
    BY <2>1, <2>2, Finite, PoolAssumption DEF Checkout, Available, InUse
  <2>4. TypeOK'
    BY <2>1, <2>3 DEF TypeOK
  <2>5. NothingKept'
    BY <1>1, <2>1 DEF Checkout, TypeOK, NothingKept, At, Transactions
  <2> QED  BY <2>4, <2>5
<1>2. CASE phase[r] # "authorize"
  <2>1. second' = second \cup {r} /\ own' = own /\ slots' = slots
        /\ phase' = phase /\ waiting' = waiting \ {r}
    BY <1>2 DEF Checkout
  <2>2. Cardinality(second') \in Nat /\ Cardinality(second') <= Cardinality(second) + 1
    BY <2>1, Finite, More
  <2>3. InUse' <= Capacity
    BY <2>1, <2>2, Finite, PoolAssumption DEF Checkout, Available, InUse
  <2>4. TypeOK'
    BY <2>1, <2>3 DEF TypeOK
  <2>5. phase[r] \in Transactions
    BY <1>2 DEF Checkout, TypeOK, Phases, Transactions, NothingKept
  <2>6. NothingKept'
    BY <1>2, <2>1, <2>5 DEF Checkout, TypeOK, NothingKept, At, Transactions
  <2> QED  BY <2>4, <2>6
<1> QED  BY <1>1, <1>2

LEMMA TakeSlotKeeps ==
    ASSUME IInv, NEW r \in Requests, TakeSlot(r) PROVE IInv'
<1> USE DEF IInv
<1>1. slots' = slots \cup {r} /\ own' = own /\ second' = second
      /\ phase' = phase /\ waiting' = waiting \ {r}
  BY DEF TakeSlot
<1>2. Cardinality(slots') <= Slots
  <2>1. Cardinality(slots') \in Nat /\ Cardinality(slots') <= Cardinality(slots) + 1
    BY <1>1, Finite, More
  <2> QED  BY <2>1, Finite, PoolAssumption DEF TakeSlot
<1>3. TypeOK'
  BY <1>1, <1>2 DEF TypeOK, InUse
<1>4. NothingKept'
  BY <1>1 DEF TakeSlot, TypeOK, NothingKept, At, Transactions
<1> QED  BY <1>3, <1>4

\* The invariant: every variable is typed and nothing is kept.
THEOREM Invariance == Spec => []IInv
<1>1. Init => IInv
  BY PoolAssumption, FS_EmptySet
  DEF Init, IInv, TypeOK, InUse, NothingKept, At, Phases, Transactions
<1>2. IInv /\ [Next]_vars => IInv'
  <2> SUFFICES ASSUME IInv, [Next]_vars PROVE IInv'
    OBVIOUS
  <2>1. ASSUME NEW r \in Requests, Arrive(r) PROVE IInv'
    <3>1. r \notin own
      BY <2>1 DEF IInv, NothingKept, Arrive, At
    <3> QED  BY <2>1, <3>1, GotoKeeps DEF Arrive, Phases
  <2>2. ASSUME NEW r \in Requests, Work(r) PROVE IInv'
    <3>1. PICK next \in Phases :
            /\ Goto(r, next) /\ phase[r] # "away" /\ next # "authorize"
            /\ next \in {"admit", "retrieve", "generate", "finish", "fail"} =>
                 \/ phase[r] \in {"admit", "retrieve", "generate", "finish"}
                 \/ At(r, "authorize")
      BY <2>2 DEF Work, Authorized, Admitted, Retrieved, Generated, Finished, Failed,
                  Reported, At, Phases
    <3>2. next \in {"admit", "retrieve", "generate", "finish", "fail"} => r \in own
      BY <3>1 DEF IInv, NothingKept
    <3> QED  BY <3>1, <3>2, GotoKeeps
  <2>3. ASSUME NEW r \in Requests, Timeout(r) \/ Cancel(r) PROVE IInv'
    <3>1. PICK next \in {"fail", "away"} :
            /\ Goto(r, next) /\ phase[r] # "away"
            /\ next = "fail" => phase[r] \in {"retrieve", "generate", "finish"}
      <4>1. CASE Timeout(r)
        <5>1. phase[r] # "away"
          BY <4>1 DEF Timeout, IInv, NothingKept
        <5> QED  BY <4>1, <5>1 DEF Timeout
      <4>2. CASE Cancel(r)
        BY <4>2 DEF Cancel
      <4> QED  BY <2>3, <4>1, <4>2
    <3>2. next = "fail" => r \in own
      BY <3>1 DEF IInv, NothingKept
    <3> QED  BY <3>1, <3>2, GotoKeeps DEF Phases
  <2>4. CASE UNCHANGED vars
    BY <2>4 DEF vars, IInv, TypeOK, InUse, NothingKept, At
  <2> QED  BY <2>1, <2>2, <2>3, <2>4, CheckoutKeeps, TakeSlotKeeps DEF Next
<1> QED  BY <1>1, <1>2, PTL DEF Spec

\* No more connections and slots are taken than there are.
THEOREM TypeCorrect == Spec => []TypeOK
<1>1. IInv => TypeOK
  BY DEF IInv
<1> QED  BY <1>1, Invariance, PTL

\* Timeouts, errors and cancellations leak neither.
THEOREM NothingIsKept == Spec => []NothingKept
<1>1. IInv => NothingKept
  BY DEF IInv
<1> QED  BY <1>1, Invariance, PTL

\* Requests stand still only when each connection is the first one of a request.
THEOREM NoEarlyGridlock == Spec => []GridlockNeedsAll
<1>1. IInv => GridlockNeedsAll
  <2> SUFFICES ASSUME IInv, Active # {}, \A r \in Active : Stuck(r)
               PROVE  Cardinality(own) = Capacity
    BY DEF GridlockNeedsAll
  <2> USE DEF IInv
  <2>1. slots = {}
    BY DEF TypeOK, NothingKept, At, Active, Stuck
  <2>2. second = {}
    BY DEF TypeOK, NothingKept, At, Active, Stuck, Transactions
  <2>3. PICK r \in Active : r \in waiting /\ phase[r] # "generate"
    BY <2>1, FS_EmptySet, PoolAssumption DEF Stuck
  <2>4. ~Available
    BY <2>3 DEF Stuck
  <2> QED  BY <2>2, <2>4, Finite, FS_EmptySet, PoolAssumption DEF TypeOK, Available, InUse
<1> QED  BY <1>1, Invariance, PTL

=============================================================================
