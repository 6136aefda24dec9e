SPECIFICATION FairSpec
CONSTANTS
    l1 = l1
    l2 = l2
    r1 = r1
    a = a
    key = key
    LiveTurn <- MCLiveTurn
    RecoveredTurn <- MCRecoveredTurn
    Session <- MCSession
    SessionOf <- MCSessionOf
    HashText <- MCHashText
    MaxRetries = 3
    MaxRecoveryRuns = 2
    Free = Free
INVARIANTS
    TypeOK
    SlotUnique
    GapFree
    LiveNeverCollide
    OkMeansPersisted
PROPERTIES
    RowsImmutable
    ImplementsTurnLog
    EveryWriteEnds
CHECK_DEADLOCK FALSE
