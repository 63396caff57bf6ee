\* Three questions, a walk in pages of one or two, a prompt with two messages.
CONSTANTS
    t1 = t1
    t2 = t2
    t3 = t3
    w1 = w1
    Tasks <- ThreeTasks
    Walks = {w1}
    Id <- Ids
    Limits = {1, 2}
    Window = 2
    LastTick = 3
SPECIFICATION Spec
CHECK_DEADLOCK FALSE
INVARIANTS
    WalkExact
    NoLateAnswers
    ContextFresh
