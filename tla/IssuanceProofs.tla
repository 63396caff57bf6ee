--------------------------- MODULE IssuanceProofs ---------------------------
(* For every number of registrations, exchanges and contacts: no two clients *)
(* share a contact, no client has two conversations, and no grant is spent   *)
(* for nothing.  The argument is an inductive invariant that adds to the     *)
(* three properties what each process knows under the locks it holds.        *)
EXTENDS IssuanceProps, TLAPS

\* A registration holds contacts of its own while it runs, and none that
\* another one holds.
LocksExclusive ==
    /\ \A r \in Registrations :
          /\ held[r] \subseteq Hashes(r)
          /\ reg_pc[r] \notin {"locking", "found"} => held[r] = {}
    /\ \A r \in Registrations, s \in Registrations :
          r # s => held[r] \cap held[s] = {}

\* What by_contact_hash has found stays true under the locks: who found nobody
\* is going to insert a client nobody shares a contact with.
FoundUnderLock ==
    \A r \in Registrations : reg_pc[r] = "found" =>
        /\ Hashes(r) \subseteq held[r]
        /\ client[r] = r => \A c \in clients : ~Shares(c, r)

\* Clients and grants come from registrations that are done: their contacts and
\* the client they refer to change no more.
RowsSettled ==
    /\ \A r \in clients \cup grants : reg_pc[r] = "done"
    /\ \A x \in conversations : ex_pc[x] = "done"

\* An exchange that locked a grant has it, and nobody deletes it.  One that
\* locked the client is the only one to issue for it, for the first time.
IssueUnderLock ==
    /\ \A x \in Exchanges : ex_pc[x] \in HoldsGrant => presents[x] \in grants
    /\ \A x \in Exchanges : ex_pc[x] = "issuing" =>
          /\ ~HasConversation(ClientOf(x))
          /\ \A y \in Exchanges : ex_pc[y] = "issuing" /\ ClientOf(y) = ClientOf(x) => y = x

IInv ==
    /\ TypeOK
    /\ LocksExclusive
    /\ FoundUnderLock
    /\ RowsSettled
    /\ IssueUnderLock
    /\ ContactsUnique
    /\ OneConversationPerClient
    /\ GrantsAccounted

-----------------------------------------------------------------------------
\* Registrations, exchanges and the job keep the shape of the state.
LEMMA TypeInit == Init => TypeOK
  BY IssuanceAssumption DEF Init, TypeOK, HoldsGrant

LEMMA TypeStep == TypeOK /\ [Next]_vars => TypeOK'
  <1> SUFFICES ASSUME TypeOK, [Next]_vars PROVE TypeOK'
    OBVIOUS
  <1> USE IssuanceAssumption
      DEF TypeOK, registrations, exchanges, database, retention, Contacts, Hashes, HoldsGrant
  <1>1. ASSUME NEW r \in Registrations, Submit(r) PROVE TypeOK'
    BY <1>1 DEF Submit
  <1>2. ASSUME NEW r \in Registrations, RegistrationStep(r) PROVE TypeOK'
    BY <1>2 DEF RegistrationStep, LockContact, IsNext, FindClient, Register
  <1>3. ASSUME NEW r \in Registrations, RegistrationLost(r) \/ Expire(r) PROVE TypeOK'
    BY <1>3 DEF RegistrationLost, Expire
  <1>4. ASSUME NEW x \in Exchanges, LockGrant(x) PROVE TypeOK'
    BY <1>4 DEF LockGrant, GrantValid
  <1>5. ASSUME NEW x \in Exchanges, LockClient(x) \/ ExchangeLost(x) PROVE TypeOK'
    BY <1>5 DEF LockClient, ExchangeLost
  <1>6. ASSUME NEW x \in Exchanges, Issue(x) PROVE TypeOK'
    BY <1>6 DEF Issue
  <1>7. ASSUME NEW c \in Registrations, GrowOld(c) \/ RetireLock(c) PROVE TypeOK'
    BY <1>7 DEF GrowOld, RetireLock
  <1>8. CASE RetireCommit
    BY <1>8 DEF RetireCommit
  <1>9. CASE RetireLost
    BY <1>9 DEF RetireLost
  <1>10. CASE UNCHANGED vars
    BY <1>10 DEF vars
  <1> QED
    BY <1>1, <1>2, <1>3, <1>4, <1>5, <1>6, <1>7, <1>8, <1>9, <1>10
    DEF Next, ExchangeStep, BreakDeadlock

-----------------------------------------------------------------------------
\* Contacts that are shared are in both sets of hashes.
LEMMA SharedHash ==
    ASSUME NEW r, NEW s, Shares(r, s)
    PROVE  Hashes(r) \cap Hashes(s) # {}
  BY DEF Shares, Hashes

\* A registration that runs alone under its contacts' locks keeps what it found
\* true, and inserts a client that shares no contact.
LEMMA ContactsStep ==
    IInv /\ [Next]_vars =>
        LocksExclusive' /\ FoundUnderLock' /\ ContactsUnique'
  <1> SUFFICES ASSUME IInv, [Next]_vars
               PROVE  LocksExclusive' /\ FoundUnderLock' /\ ContactsUnique'
    OBVIOUS
  <1> DEFINE Goal == LocksExclusive /\ FoundUnderLock /\ ContactsUnique
  <1> USE DEF IInv, LocksExclusive, FoundUnderLock, ContactsUnique, RowsSettled,
              registrations, exchanges, database, retention
  <1>1. ASSUME NEW r \in Registrations, Submit(r) PROVE Goal'
    BY <1>1 DEF Submit, TypeOK, Hashes, Shares
  <1>2. ASSUME NEW r \in Registrations, LockContact(r) PROVE Goal'
    <2>1. PICK h \in Hashes(r) : ContactFree(h) /\ held' = [held EXCEPT ![r] = @ \cup {h}]
      BY <1>2 DEF LockContact
    <2>2. LocksExclusive'
      BY <1>2, <2>1 DEF LockContact, ContactFree, TypeOK, Hashes
    <2>3. FoundUnderLock' /\ ContactsUnique'
      BY <1>2, <2>1 DEF LockContact, TypeOK, Hashes, Shares
    <2> QED
      BY <2>2, <2>3
  <1>3. ASSUME NEW r \in Registrations, FindClient(r) PROVE Goal'
    <2>1. PICK c \in Registrations :
            /\ client' = [client EXCEPT ![r] = c]
            /\ IF {d \in clients : Shares(d, r)} = {} THEN c = r ELSE c \in clients
      BY <1>3 DEF FindClient, TypeOK
    <2>2. c = r => \A d \in clients : ~Shares(d, r)
      BY <1>3, <2>1 DEF FindClient
    <2>3. FoundUnderLock'
      BY <1>3, <2>1, <2>2 DEF FindClient, TypeOK, Hashes, Shares
    <2> QED
      BY <1>3, <2>3 DEF FindClient, TypeOK, Hashes, Shares
  <1>4. ASSUME NEW r \in Registrations, Register(r) PROVE Goal'
    <2>1. clients' = clients \/ (clients' = clients \cup {client[r]}
                                  /\ client[r] \in clients \cup {r})
      BY <1>4 DEF Register
    <2>2. \A d \in clients' : d \in clients \/ (d = r /\ client[r] = r)
      BY <2>1
    <2>3. UNCHANGED <<email, phone, client>> /\ reg_pc' = [reg_pc EXCEPT ![r] = "done"]
          /\ held' = [held EXCEPT ![r] = {}] /\ reg_pc[r] = "found"
      BY <1>4 DEF Register
    <2>4. \A c, d : Shares(c, d)' = Shares(c, d) /\ Hashes(c)' = Hashes(c)
      BY <2>3 DEF Shares, Hashes
    <2>5. \A s \in Registrations : reg_pc[s] = "found" /\ s # r => ~Shares(r, s)
      BY <2>3, SharedHash
    <2>6. LocksExclusive'
      BY <2>3, <2>4 DEF TypeOK
    <2>7. FoundUnderLock'
      BY <2>2, <2>3, <2>4, <2>5 DEF TypeOK
    <2>8. \A c, d : Shares(c, d) => Shares(d, c)
      BY DEF Shares
    <2>9. ContactsUnique'
      BY <2>2, <2>3, <2>4, <2>8
    <2> QED
      BY <2>6, <2>7, <2>9
  <1>5. ASSUME NEW r \in Registrations, RegistrationLost(r) PROVE Goal'
    BY <1>5 DEF RegistrationLost, TypeOK, Hashes, Shares
  <1>6. CASE RetireCommit
    BY <1>6 DEF RetireCommit, Hashes, Shares
  <1>7. CASE UNCHANGED <<registrations, clients>>
    BY <1>7 DEF Hashes, Shares
  <1>8. ASSUME NEW x \in Exchanges, LockGrant(x) \/ ExchangeStep(x) \/ ExchangeLost(x)
        PROVE  UNCHANGED <<registrations, clients>>
    BY <1>8 DEF LockGrant, ExchangeStep, LockClient, Issue, ExchangeLost
  <1>9. ASSUME NEW c \in Registrations, Expire(c) \/ GrowOld(c) \/ RetireLock(c)
        PROVE  UNCHANGED <<registrations, clients>>
    BY <1>9 DEF Expire, GrowOld, RetireLock
  <1>10. ASSUME RetireLost \/ UNCHANGED vars PROVE UNCHANGED <<registrations, clients>>
    BY <1>10 DEF RetireLost, vars
  <1> QED
    BY <1>1, <1>2, <1>3, <1>4, <1>5, <1>6, <1>7, <1>8, <1>9, <1>10
    DEF Next, RegistrationStep, BreakDeadlock

-----------------------------------------------------------------------------
\* Nothing moves under what an exchange has locked, and no client is issued a
\* second conversation.
LEMMA IssueStep ==
    IInv /\ [Next]_vars =>
        RowsSettled' /\ IssueUnderLock' /\ OneConversationPerClient' /\ GrantsAccounted'
  <1> SUFFICES ASSUME IInv, [Next]_vars
               PROVE  RowsSettled' /\ IssueUnderLock' /\ OneConversationPerClient'
                      /\ GrantsAccounted'
    OBVIOUS
  <1> DEFINE Goal == RowsSettled /\ IssueUnderLock /\ OneConversationPerClient
                     /\ GrantsAccounted
  <1> USE DEF IInv, RowsSettled, IssueUnderLock, OneConversationPerClient, GrantsAccounted,
              HoldsGrant, ClientOf, HasConversation,
              registrations, exchanges, database, retention
  <1>1. ASSUME NEW r \in Registrations, Submit(r) \/ LockContact(r) \/ RegistrationLost(r)
        PROVE  Goal'
    BY <1>1 DEF Submit, LockContact, RegistrationLost, TypeOK
  <1>2. ASSUME NEW r \in Registrations, FindClient(r) PROVE Goal'
    BY <1>2 DEF FindClient, TypeOK
  <1>3. ASSUME NEW r \in Registrations, Register(r) PROVE Goal'
    BY <1>3 DEF Register, TypeOK
  <1>4. ASSUME NEW x \in Exchanges, LockGrant(x) PROVE Goal'
    BY <1>4, IssuanceAssumption DEF LockGrant, GrantValid, TypeOK
  <1>5. ASSUME NEW x \in Exchanges, LockClient(x) PROVE Goal'
    BY <1>5 DEF LockClient, ClientFree, TypeOK
  <1>6. ASSUME NEW x \in Exchanges, Issue(x) PROVE Goal'
    BY <1>6 DEF Issue, TypeOK
  <1>7. ASSUME NEW x \in Exchanges, ExchangeLost(x) PROVE Goal'
    BY <1>7 DEF ExchangeLost, TypeOK
  <1>8. CASE RetireCommit
    BY <1>8 DEF RetireCommit, CascadeFree, TypeOK
  <1>9. CASE UNCHANGED <<registrations, exchanges, database>>
    BY <1>9
  <1>10. ASSUME NEW c \in Registrations, Expire(c) \/ GrowOld(c) \/ RetireLock(c)
        PROVE  UNCHANGED <<registrations, exchanges, database>>
    BY <1>10 DEF Expire, GrowOld, RetireLock
  <1>11. ASSUME RetireLost \/ UNCHANGED vars
         PROVE  UNCHANGED <<registrations, exchanges, database>>
    BY <1>11 DEF RetireLost, vars
  <1> QED
    BY <1>1, <1>2, <1>3, <1>4, <1>5, <1>6, <1>7, <1>8, <1>9, <1>10, <1>11
    DEF Next, RegistrationStep, ExchangeStep, BreakDeadlock

-----------------------------------------------------------------------------
\* The empty database satisfies the invariant.
LEMMA InductionBase == Init => IInv
  BY TypeInit DEF Init, IInv, LocksExclusive, FoundUnderLock, RowsSettled, IssueUnderLock,
                  ContactsUnique, OneConversationPerClient, GrantsAccounted, HoldsGrant

\* The inductive invariant.
LEMMA Invariant == Spec => []IInv
  <1>1. IInv /\ [Next]_vars => IInv'
    BY TypeStep, ContactsStep, IssueStep DEF IInv
  <1> QED
    BY <1>1, InductionBase, PTL DEF Spec

\* Every reachable state is well typed.
THEOREM TypeCorrect == Spec => []TypeOK
  <1>1. IInv => TypeOK
    BY DEF IInv
  <1> QED
    BY <1>1, Invariant, PTL

\* The advisory locks make up for the missing unique constraint: no two clients
\* ever share an email or a phone.
THEOREM ContactsUniqueHolds == Spec => []ContactsUnique
  <1>1. IInv => ContactsUnique
    BY DEF IInv
  <1> QED
    BY <1>1, Invariant, PTL

\* The lock of the client row does the same for conversations: no client is
\* ever issued two tokens, however many grants it holds.
THEOREM OneConversationHolds == Spec => []OneConversationPerClient
  <1>1. IInv => OneConversationPerClient
    BY DEF IInv
  <1> QED
    BY <1>1, Invariant, PTL

\* Grants, conversations and clients refer to each other soundly, through every
\* deletion.
THEOREM GrantsAccountedHolds == Spec => []GrantsAccounted
  <1>1. IInv => GrantsAccounted
    BY DEF IInv
  <1> QED
    BY <1>1, Invariant, PTL

=============================================================================
