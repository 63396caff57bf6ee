------------------------------ MODULE Issuance ------------------------------
(***************************************************************************)
(* How a visitor comes by a conversation: ClientService.register turns a    *)
(* contact into a client and a one-time grant, ConversationService.create   *)
(* exchanges the grant for the client's only conversation, and the retention *)
(* job of scripts/maintenance.py deletes old clients with all they own.     *)
(*                                                                         *)
(* A registration is one POST /clients, an exchange one POST                *)
(* /conversations.  A client is named after the registration that inserted  *)
(* it, a grant after the registration it was given to, a conversation after *)
(* its exchange.  Transactions are cut where they wait for a lock; what one *)
(* has locked follows from where it is.                                     *)
(***************************************************************************)
EXTENDS Integers

CONSTANTS
    Registrations,
    Exchanges,
    Emails, Phones    \* contacts, numbered in the order of their keyed hashes

Contacts == Emails \cup Phones
NoContact == 0

ASSUME IssuanceAssumption ==
    /\ Emails \subseteq Nat \ {0} /\ Phones \subseteq Nat \ {0}
    /\ Emails \cap Phones = {}
    /\ "none" \notin Registrations

VARIABLES
    (* registrations *)
    email, phone,     \* the contacts submitted, NoContact where there is none
    reg_pc,
    held,             \* the contacts whose advisory locks it holds
    client,           \* the client it found, or itself for a new one
    (* exchanges *)
    ex_pc,
    presents,         \* the registration whose grant it presents
    (* the database *)
    clients, grants, conversations,
    consumed,         \* grants with consumed_at set
    (* time and the retention job *)
    expired,          \* grants with expires_at <= now()
    old,              \* clients behind the cutoff of the job
    retiring          \* clients whose rows its DELETE has locked

registrations == <<email, phone, reg_pc, held, client>>
exchanges == <<ex_pc, presents>>
database == <<clients, grants, conversations, consumed>>
retention == <<expired, old, retiring>>
vars == <<registrations, exchanges, database, retention>>

Init ==
    /\ email = [r \in Registrations |-> NoContact]
    /\ phone = [r \in Registrations |-> NoContact]
    /\ reg_pc = [r \in Registrations |-> "idle"]
    /\ held = [r \in Registrations |-> {}]
    /\ client = [r \in Registrations |-> r]
    /\ ex_pc = [x \in Exchanges |-> "idle"]
    /\ presents = [x \in Exchanges |-> "none"]
    /\ clients = {} /\ grants = {} /\ conversations = {} /\ consumed = {}
    /\ expired = {} /\ old = {} /\ retiring = {}

-----------------------------------------------------------------------------
\* The client of an exchange whose grant was valid.
ClientOf(x) == client[presents[x]]

\* The client row is not locked by an exchange or by the job: what a lock of it
\* waits for (ClientRepository.lock), and the foreign key of a row that refers
\* to it.  Faulty variants: a plain SELECT; a lock its holder never gives back.
ClientFree_NoLock(c) == c \notin retiring
ClientFree_SessionLevel(c) ==
    /\ c \notin retiring
    /\ \A x \in Exchanges : presents[x] # "none" /\ ex_pc[x] # "granted" => ClientOf(x) # c
ClientFree(c) ==
    /\ c \notin retiring
    /\ \A x \in Exchanges : ex_pc[x] = "issuing" => ClientOf(x) # c

-----------------------------------------------------------------------------
(* ClientService.register.                                                  *)

\* The rate limit has committed its count and Turnstile has agreed.  The
\* schema asks for one contact at least.
Submit(r) ==
    /\ reg_pc[r] = "idle"
    /\ \E e \in Emails \cup {NoContact}, p \in Phones \cup {NoContact} :
          /\ {e, p} # {NoContact}
          /\ email' = [email EXCEPT ![r] = e]
          /\ phone' = [phone EXCEPT ![r] = p]
    /\ reg_pc' = [reg_pc EXCEPT ![r] = "locking"]
    /\ UNCHANGED <<held, client, exchanges, database, retention>>

\* The contacts to lock, in sorted order.  Faulty variants: the first will do;
\* the one that was not submitted is locked too.
Hashes_FirstOnly(r) ==
    IF email[r] # NoContact THEN {email[r]} ELSE {phone[r]}
Hashes_Unfiltered(r) == {email[r], phone[r]}
Hashes(r) == {email[r], phone[r]} \ {NoContact}

\* pg_advisory_xact_lock.  Faulty variant: pg_advisory_lock, which a pooled
\* connection keeps.
ContactFree_SessionLevel(h) ==
    \A s \in Registrations : h \notin held[s] /\ (s \in grants => h \notin Hashes(s))
ContactFree(h) == \A s \in Registrations : h \notin held[s]

IsNext(r, h) == h \in Hashes(r) \ held[r] /\ \A k \in Hashes(r) \ held[r] : h <= k

LockContact(r) ==
    /\ reg_pc[r] = "locking"
    /\ \E h \in Hashes(r) :
          /\ IsNext(r, h)
          /\ ContactFree(h)
          /\ held' = [held EXCEPT ![r] = @ \cup {h}]
    /\ UNCHANGED <<email, phone, reg_pc, client, exchanges, database, retention>>

\* Two clients or registrations have an email or a phone in common.
Shares(r, s) ==
    \/ email[r] # NoContact /\ email[r] = email[s]
    \/ phone[r] # NoContact /\ phone[r] = phone[s]

\* by_contact_hash: one of the clients that match, whichever comes first.
FindClient(r) ==
    /\ reg_pc[r] = "locking"
    /\ Hashes(r) \subseteq held[r]
    /\ LET found == {c \in clients : Shares(c, r)}
       IN  \E c \in IF found = {} THEN {r} ELSE found :
              client' = [client EXCEPT ![r] = c]
    /\ reg_pc' = [reg_pc EXCEPT ![r] = "found"]
    /\ UNCHANGED <<email, phone, held, exchanges, database, retention>>

\* Client, grant and event are inserted and committed.  The foreign key of the
\* grant waits for whoever has locked the client, and fails if that deleted it.
\* A client that was found is not changed: it does not learn a new contact.
Register(r) ==
    /\ reg_pc[r] = "found"
    /\ ClientFree(client[r])
    /\ IF client[r] \in clients \cup {r}
       THEN clients' = clients \cup {client[r]} /\ grants' = grants \cup {r}
       ELSE UNCHANGED <<clients, grants>>
    /\ reg_pc' = [reg_pc EXCEPT ![r] = "done"]
    /\ held' = [held EXCEPT ![r] = {}]
    /\ UNCHANGED <<email, phone, client, conversations, consumed, exchanges, retention>>

\* Refused by the rate limit or Turnstile, or the request fails: rolled back.
RegistrationLost(r) ==
    /\ reg_pc[r] \in {"idle", "locking", "found"}
    /\ reg_pc' = [reg_pc EXCEPT ![r] = "done"]
    /\ held' = [held EXCEPT ![r] = {}]
    /\ UNCHANGED <<email, phone, client, exchanges, database, retention>>

-----------------------------------------------------------------------------
(* ConversationService.create.                                              *)

\* Where an exchange has locked its grant, and the client too.
HoldsGrant == {"granted", "issuing"}
GrantFree(r) ==
    \A x \in Exchanges : ex_pc[x] \in HoldsGrant => presents[x] # r

\* The checks behind lock_by_hash, for the client_id claimed.
GrantValid(r, claimed) ==
    /\ r \in grants
    /\ claimed = r
    /\ r \notin consumed
    /\ r \notin expired

LockGrant(x) ==
    /\ ex_pc[x] = "idle"
    /\ \E r \in Registrations, claimed \in Registrations :
          /\ GrantFree(r)
          /\ IF GrantValid(r, claimed)
             THEN /\ presents' = [presents EXCEPT ![x] = r]
                  /\ ex_pc' = [ex_pc EXCEPT ![x] = "granted"]
             ELSE /\ ex_pc' = [ex_pc EXCEPT ![x] = "done"]
                  /\ UNCHANGED presents
    /\ UNCHANGED <<registrations, database, retention>>

\* by_client.
HasConversation(c) == \E x \in conversations : ClientOf(x) = c

LockClient(x) ==
    /\ ex_pc[x] = "granted"
    /\ ClientFree(ClientOf(x))
    /\ ex_pc' = [ex_pc EXCEPT ![x] = IF HasConversation(ClientOf(x)) THEN "done" ELSE "issuing"]
    /\ UNCHANGED <<presents, registrations, database, retention>>

Issue(x) ==
    /\ ex_pc[x] = "issuing"
    /\ conversations' = conversations \cup {x}
    /\ consumed' = consumed \cup {presents[x]}
    /\ ex_pc' = [ex_pc EXCEPT ![x] = "done"]
    /\ UNCHANGED <<presents, clients, grants, registrations, retention>>

\* The request fails: its transaction is rolled back.
ExchangeLost(x) ==
    /\ ex_pc[x] \in HoldsGrant
    /\ ex_pc' = [ex_pc EXCEPT ![x] = "done"]
    /\ UNCHANGED <<presents, registrations, database, retention>>

-----------------------------------------------------------------------------
(* Time, and the job "maintenance retention --execute".                     *)

Expire(r) ==
    /\ r \in grants \ expired
    /\ expired' = expired \cup {r}
    /\ UNCHANGED <<registrations, exchanges, database, old, retiring>>

\* The cutoff is fixed when the job starts.
GrowOld(c) ==
    /\ c \in clients \ old
    /\ retiring = {}
    /\ old' = old \cup {c}
    /\ UNCHANGED <<registrations, exchanges, database, expired, retiring>>

\* The DELETE locks the rows of the old clients one after the other ...
RetireLock(c) ==
    /\ c \in old \ retiring
    /\ ClientFree(c)
    /\ retiring' = retiring \cup {c}
    /\ UNCHANGED <<registrations, exchanges, database, expired, old>>

\* ... and cascades to their grants, which exchanges may have locked, and
\* their conversations.  Faulty variant: the cascade does not wait.
CascadeFree_NoWait == TRUE
CascadeFree ==
    \A x \in Exchanges : ex_pc[x] \in HoldsGrant => ClientOf(x) \notin retiring

Cascading == retiring # {} /\ retiring = old

RetireCommit ==
    /\ Cascading
    /\ CascadeFree
    /\ clients' = clients \ retiring
    /\ grants' = {r \in grants : client[r] \notin retiring}
    /\ consumed' = {r \in consumed : client[r] \notin retiring}
    /\ conversations' = {x \in conversations : ClientOf(x) \notin retiring}
    /\ old' = {}
    /\ retiring' = {}
    /\ UNCHANGED <<registrations, exchanges, expired>>

RetireLost ==
    /\ retiring # {}
    /\ retiring' = {}
    /\ UNCHANGED <<registrations, exchanges, database, expired, old>>

\* An exchange locks its grant, then its client; the cascade goes the other
\* way.  PostgreSQL finds the cycle and aborts one of the two.
Deadlocked(x) ==
    /\ ex_pc[x] = "granted"
    /\ Cascading
    /\ ClientOf(x) \in retiring
BreakDeadlock(x) == Deadlocked(x) /\ (ExchangeLost(x) \/ RetireLost)

-----------------------------------------------------------------------------

RegistrationStep(r) == LockContact(r) \/ FindClient(r) \/ Register(r)
ExchangeStep(x) == LockClient(x) \/ Issue(x)

Next ==
    \/ \E r \in Registrations :
          Submit(r) \/ RegistrationStep(r) \/ RegistrationLost(r) \/ Expire(r)
    \/ \E x \in Exchanges :
          LockGrant(x) \/ ExchangeStep(x) \/ ExchangeLost(x) \/ BreakDeadlock(x)
    \/ \E c \in Registrations : GrowOld(c) \/ RetireLock(c)
    \/ RetireCommit \/ RetireLost

Spec == Init /\ [][Next]_vars

\* The server runs each request it has begun; lock queues are first come,
\* first served, so that nobody is overtaken for ever; the deadlock detector
\* works; the job goes on with the DELETE it has begun.
Fairness ==
    /\ \A r \in Registrations :
          WF_vars(LockContact(r)) /\ WF_vars(FindClient(r)) /\ SF_vars(Register(r))
    /\ \A x \in Exchanges :
          SF_vars(LockClient(x)) /\ WF_vars(Issue(x)) /\ WF_vars(BreakDeadlock(x))
    /\ \A c \in Registrations : WF_vars(retiring # {} /\ RetireLock(c))
    /\ WF_vars(RetireCommit)

FairSpec == Spec /\ Fairness

=============================================================================
