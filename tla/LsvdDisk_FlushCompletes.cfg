CONSTANTS
    v1 = v1
    v2 = v2
    r1 = r1
    r2 = r2
    Zero = Zero
    NoVal = NoVal
    Err = Err
    LBAs <- MCLBAs1
    Values <- MCValues1
    Readers <- MCReaders1
    MaxSeg = 3
    Threshold = 2
    LruCap = 1
    CtxCancel = TRUE
    StoreErrors = TRUE
    LocalFiles = FALSE

SPECIFICATION FairSpec

PROPERTY FlushCompletes
