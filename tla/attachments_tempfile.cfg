SPECIFICATION Spec
CONSTANTS
    t1 = t1
    t2 = t2
    b1 = b1
    Turn <- MCTurn
    Blob <- MCBlob
    BlobsOf <- MCBlobsOf
    UrlOnly = UrlOnly
    MaxRetries = 2
    Free = Free
INVARIANT BytesWereStored
CHECK_DEADLOCK FALSE
