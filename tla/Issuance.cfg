\* Two registrations of up to two emails and a phone, two exchanges, the
\* retention job; no symmetry, for liveness.
CONSTANTS
    Registrations = {r1, r2}
    Exchanges = {x1, x2}
    Emails <- TwoEmails
    Phones <- OnePhone
SPECIFICATION FairSpec
CHECK_DEADLOCK FALSE
INVARIANTS
    TypeOK
    ContactsUnique
    OneConversationPerClient
    GrantsAccounted
PROPERTIES
    EveryRegistrationEnds
    EveryExchangeEnds
