SPECIFICATION FairSpec
CONSTANTS
    c1 = c1
    c2 = c2
    c3 = c3
    Conn <- MCConn
PROPERTY TimeoutMeansActive
CHECK_DEADLOCK FALSE
