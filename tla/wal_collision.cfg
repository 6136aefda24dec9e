SPECIFICATION Spec
CONSTANTS
    c1 = c1
    c2 = c2
    x1 = x1
    x2 = x2
    p1 = p1
    p2 = p2
    Conn <- MCConn
    Exchange <- MCExchange
    Pid <- MCPid
    MaxOpen = 2
    ScanFails = FALSE
    None = None
SYMMETRY MCSymmetry
INVARIANT OrphansKept
