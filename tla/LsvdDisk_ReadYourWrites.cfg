CONSTANTS
    v1 = v1
    v2 = v2
    r1 = r1
    r2 = r2
    Zero = Zero
    NoVal = NoVal
    Err = Err
    LBAs <- MCLBAs1
    Values <- MCValues
    Readers <- MCReaders1
    MaxSeg = 3
    Threshold = 2
    LruCap = 1
    CtxCancel = FALSE
    StoreErrors = TRUE
    LocalFiles = FALSE

SPECIFICATION Spec
SYMMETRY MCSymmetry

INVARIANT ReadYourWrites
