\* Two conversations share the global budgets over a month boundary. Three
\* reservations of 2 do not fit a budget of 3; bills of 1 make room for one
\* more. Failed calls release their reservation.
CONSTANTS
    Tasks = {t1, t2, t3}
    Conversations = {c1, c2}
    Keys = {k1, k2}
    Questions = {q1}
    QuotaLimit = 2
    RequestBudget = 2
    ModelBudget = 3
    MaxRequestCost = 2
    UsageCosts <- CheapCalls
    RateDenials <- BothRateDenials
    Faults <- ProviderFaults
    LastMonth = 1
SPECIFICATION Spec
SYMMETRY SymmetricConversations
CHECK_DEADLOCK FALSE
INVARIANTS
    RequestBudgetHolds
    ModelBudgetHolds
