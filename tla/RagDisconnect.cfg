\* Nothing fails but clients that go away.
CONSTANTS
    Tasks = {t1, t2, t3}
    Conversations = {c1}
    Keys = {k1, k2, k3}
    Questions = {q1, q2}
    QuotaLimit = 2
    RequestBudget = 3
    ModelBudget = 0
    MaxRequestCost = 0
    UsageCosts = {}
    RateDenials <- NoRateDenials
    Faults <- OnlyDisconnects
    LastMonth = 0
SPECIFICATION Spec
SYMMETRY Symmetric
CHECK_DEADLOCK FALSE
INVARIANT
    NotLeftPending
