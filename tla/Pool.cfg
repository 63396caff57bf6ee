\* More requests than connections, and one slot that they contend for: all
\* connections may be first ones while another request still waits for its own.
CONSTANTS
    r1 = r1
    r2 = r2
    r3 = r3
    r4 = r4
    Requests = {r1, r2, r3, r4}
    Capacity = 3
    Slots = 1
SPECIFICATION FairSpec
INVARIANTS
    NothingKept
    GridlockNeedsAll
PROPERTIES
    EveryRequestEnds
