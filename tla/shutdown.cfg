SPECIFICATION FairSpec
CONSTANTS
    c1 = c1
    c2 = c2
    c3 = c3
    Conn <- MCConn
INVARIANTS
    TypeOK
    ActiveCoversLive
    CleanExitCutsNothing
PROPERTY SignalLeadsToExit
CHECK_DEADLOCK FALSE
