SPECIFICATION PartsSpec
CONSTANTS
    t1 = t1
    t2 = t2
    b1 = b1
    Turn <- MCTurn
    Blob <- MCBlob
    BlobsOf <- MCBlobsOf
    UrlOnly = UrlOnly
    MaxRetries = 2
    Free = Free
    Exchange = {x1, x2}
    Captures = 3
    Conn = {k1, k2}
    MaxOpen = 2
    ScanFails = TRUE
    MaxFailures = 1
    Asked <- MCAsked
    Preflight <- MCPreflight
    None = None
    MaxFrames = 3
    Sizes = {2, 4}
    ReadSize = 2
    MaxAccum = 2
    MaxMessage = 4
    MaxGarbage = 1
    Data = {"text"}
    NoOpcode = NoOpcode
    p1 = p1
    Process = {p1, p2}
    Pid = {p1}
    Thread = {c1, c2}
    GatewayOf <- MCGatewayOf
    Host = {"h"}
    Capacity = 1
    MaxWaits = 2
    MaxAge = 2
    Validity = 4
    MaxTime = 4
    s1 = s1
    s2 = s2
    a = a
    b = b
    d = d
    Session = {s1, s2}
    TurnsOf <- MCTurnsOf
    Matches = {b}
    Tasks = {"detail", "turn", "breakdown"}
    Windows = {"today"}
    MaxPending = 2
    MaxKeys = 3
INVARIANTS
    RowsHadTheirObject
    CountIsTrue
    NothingBuried
    EntriesSurvive
    EveryMessageOnce
    SessionAgrees
    CapturedExactly
    ChainsVerify
    OneLeafKept
PROPERTIES
    ReferencedObjectsKept
    CapturesEnd
    DriftIsTold
    Settles
    RefreshKeepsTurn
CHECK_DEADLOCK FALSE
