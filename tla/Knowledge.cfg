\* Two operators, a worker, two days, a text that is corrected.
CONSTANTS
    o1 = o1
    o2 = o2
    w1 = w1
    g1 = g1
    g2 = g2
    Operators = {o1, o2}
    Workers = {w1}
    Graphs <- TwoGraphs
    NodeCount <- FiveAndThree
    Sound <- TwoGraphs
    Articles <- ThreeArticles
    Last = 4
    Calendar <- FourMoments
    Production = TRUE
SPECIFICATION FairSpec
CHECK_DEADLOCK FALSE
INVARIANTS
    TypeOK
    ServedWhole
PROPERTIES
    RollbackKept
    ReleaseImmutable
    WorkersCatchUp
