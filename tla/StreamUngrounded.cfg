\* Answers that cite nothing.
CONSTANTS
    Char <- Characters
    Digits <- TwoDigits
    Evidence <- OneSource
    Patience = 3
    Deltas <- Pieces
    MaxText = 4
    StoredAnswers <- EarlierAnswers
SPECIFICATION Spec
CHECK_DEADLOCK FALSE
INVARIANTS
    StreamedIsAnswer
