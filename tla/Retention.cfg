\* Two clients who ask, and three votes on one answer, two of which agree.
CONSTANTS
    c1 = c1
    c2 = c2
    q1 = q1
    q2 = q2
    v1 = v1
    v2 = v2
    v3 = v3
    Clients <- TwoClients
    Questions = {q1, q2}
    Of <- EachHisOwn
    Votes = {v1, v2, v3}
    About <- OnFirst
    Says <- YesNoYes
SPECIFICATION FairSpec
CHECK_DEADLOCK FALSE
INVARIANTS
    NothingLeft
    RepliesTrue
PROPERTIES
    VotesLinearize
    AllEnd
