\* The second registration names a phone with an email that is already known,
\* the third the phone alone.
CONSTANTS
    Registrations = {r1, r2, r3}
    Exchanges = {x1, x2}
    Emails <- OneEmail
    Phones <- OnePhone
SPECIFICATION Spec
SYMMETRY Symmetric
CHECK_DEADLOCK FALSE
INVARIANTS
    OneConversationPerContact
