CONSTANTS
    v1 = v1
    v2 = v2
    Zero = Zero
    NoVal = NoVal
    Err = Err
    LBAs <- MCLBAs1
    Values <- MCValues
    Readers <- MCNoReaders
    MaxSeg = 3
    Threshold = 2
    LruCap = 1
    CtxCancel = TRUE
    StoreErrors = TRUE
    LocalFiles = FALSE
    Crashes = TRUE

SPECIFICATION RecSpec
SYMMETRY MCSymmetry

INVARIANT TypeOK
INVARIANT RecoveryTypeOK
INVARIANT Durable
INVARIANT CleanRestartRecovers
