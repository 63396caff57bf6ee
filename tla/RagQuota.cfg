\* One conversation, three tasks that may be retries of each other, one quota
\* unit short of admitting them all, every fault.
CONSTANTS
    Tasks = {t1, t2, t3}
    Conversations = {c1}
    Keys = {k1, k2, k3}
    Questions = {q1, q2}
    QuotaLimit = 2
    RequestBudget = 3
    ModelBudget = 0
    MaxRequestCost = 0
    UsageCosts = {}
    RateDenials <- NoRateDenials
    Faults <- AllFaults
    LastMonth = 0
SPECIFICATION Spec
SYMMETRY Symmetric
CHECK_DEADLOCK FALSE
INVARIANTS
    TypeOK
    QuotaHolds
    OneInFlight
    QuotaExact
    AuditAgrees
    OneRowPerKey
    AnswersDurable
    ErrorsReconciled
PROPERTIES
    TerminalStable
    ImplementsLedger
