SPECIFICATION Spec
CONSTANTS
    x1 = x1
    x2 = x2
    w1 = w1
    c1 = c1
    c2 = c2
    a = a
    b = b
    h1 = h1
    h2 = h2
    h3 = h3
    Exchange <- MCExchange
    Conn <- MCConn
    Session <- MCSession
    SessionOf <- MCSessionOf
    RequestOf <- MCRequestOf
    Upgrade <- MCUpgrade
    Overlap = TRUE
    MaxCrashes = 0
    None = None
SYMMETRY MCSymmetry
INVARIANTS
    OneTurnPerExchange
CHECK_DEADLOCK FALSE
