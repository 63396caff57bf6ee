---------------------------- MODULE IssuanceProps ----------------------------
(* What registration, exchange and retention promise together.              *)
EXTENDS Issuance

\* Every variable has the type the code gives it; a registration locks contacts
\* it was given, and an exchange that got past the grant check presents one.
TypeOK ==
    /\ email \in [Registrations -> Emails \cup {NoContact}]
    /\ phone \in [Registrations -> Phones \cup {NoContact}]
    /\ reg_pc \in [Registrations -> {"idle", "locking", "found", "done"}]
    /\ held \in [Registrations -> SUBSET Contacts]
    /\ client \in [Registrations -> Registrations]
    /\ ex_pc \in [Exchanges -> {"idle", "granted", "issuing", "done"}]
    /\ presents \in [Exchanges -> Registrations \cup {"none"}]
    /\ \A x \in Exchanges : ex_pc[x] \in HoldsGrant => presents[x] \in Registrations
    /\ clients \subseteq Registrations /\ grants \subseteq Registrations
    /\ conversations \subseteq Exchanges
    /\ consumed \subseteq Registrations /\ expired \subseteq Registrations
    /\ old \subseteq clients /\ retiring \subseteq old

\* No two clients have a contact in common, though models.py puts no unique
\* constraint on the hashes: only lock_contacts, held from before
\* by_contact_hash to the commit, keeps two registrations of one contact from
\* both finding nobody and both inserting.
ContactsUnique ==
    \A c \in clients, d \in clients : c # d => ~Shares(c, d)

\* No client has two conversations, though conversations.client_id is not
\* unique and a client may hold several valid grants: by_client is only good
\* under the lock of the client row.
OneConversationPerClient ==
    \A x \in conversations, y \in conversations :
        ClientOf(x) = ClientOf(y) => x = y

\* Grants and conversations belong to clients that exist, and the grants that
\* are consumed are those some stored conversation was issued for: whatever
\* retention deletes under an exchange, no grant is spent for nothing and no
\* token outlives its client.
GrantsAccounted ==
    /\ \A r \in grants : client[r] \in clients
    /\ consumed = {presents[x] : x \in conversations}
    /\ consumed \subseteq grants

\* A registration that waits for contacts is answered: locking both hashes in
\* sorted order, for one transaction, starves nobody.
EveryRegistrationEnds ==
    \A r \in Registrations : reg_pc[r] = "locking" ~> reg_pc[r] = "done"

\* An exchange that locked its grant is answered, though the retention job takes
\* the client and its grants in the other order.
EveryExchangeEnds ==
    \A x \in Exchanges : ex_pc[x] = "granted" ~> ex_pc[x] = "done"

-----------------------------------------------------------------------------
\* README.md, line 31: "One conversation may be issued per normalized contact".
\* Two conversations were never issued for registrations that gave the same
\* contact.
OneConversationPerContact ==
    \A x \in conversations, y \in conversations :
        x # y => ~Shares(presents[x], presents[y])

=============================================================================
