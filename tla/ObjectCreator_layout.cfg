\* Layout of flushed segments, no I/O faults, uint32 wide enough.
CONSTANTS
    v1 = v1
    v2 = v2
    Zero = Zero
    LBAs <- MCLBAs
    Values <- MCValues
    Lz4Size <- MCLz4Size
    BlockSize = 4
    OffsetBits = 8
    MaxBlocks = 2
    MaxExtent = 2
    MaxSegs = 2
    Faults = FALSE
SPECIFICATION Spec
\* The bounds end every behaviour: no WriteExtent fits and no segment id is left.
CHECK_DEADLOCK FALSE
INVARIANT TypeOK ReadBack
