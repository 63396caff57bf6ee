\* Two conversations contend for the advisory lock; with one key each, the
\* tasks of a conversation are retries.
CONSTANTS
    Tasks = {t1, t2, t3}
    Conversations = {c1, c2}
    Keys = {k1}
    Questions = {q1}
    QuotaLimit = 2
    RequestBudget = 3
    ModelBudget = 0
    MaxRequestCost = 0
    UsageCosts = {}
    RateDenials <- NoRateDenials
    Faults <- FaultsForLiveness
    LastMonth = 0
SPECIFICATION FairSpec
CHECK_DEADLOCK FALSE
PROPERTIES
    EveryAskEnds
    PendingResolved
