SPECIFICATION FairSpec
CONSTANTS
    MaxSaid = 2
    MaxItems = 1
    MaxNotes = 1
    MaxText = 1
    MaxRequests = 2
    MaxPieces = 3
    MaxResponse = 2
    MaxUpgrade = 1
    None = None
INVARIANTS
    AnswersRecordedOnce
    TotalIsRows
    AnsweredIsCaptured
PROPERTIES
    ExchangeEnds
CHECK_DEADLOCK FALSE
