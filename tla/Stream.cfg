\* Every answer of up to eight characters, in every cut, and every interleaving.
CONSTANTS
    Char <- Characters
    Digits <- TwoDigits
    Evidence <- OneSource
    Patience = 3
    Deltas <- Pieces
    MaxText = 8
    StoredAnswers <- EarlierAnswers
SPECIFICATION FairSpec
CHECK_DEADLOCK FALSE
INVARIANTS
    TypeOK
    StreamFaithful
    CompleteDurable
    SourcesAnnounced
PROPERTIES
    EveryStreamEnds
