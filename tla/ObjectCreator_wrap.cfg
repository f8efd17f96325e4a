\* uint32 fields scaled to 4 bits: dataBegin + offset wraps.
CONSTANTS
    v1 = v1
    v2 = v2
    Zero = Zero
    LBAs <- MCLBAs
    Values <- MCValues
    Lz4Size <- MCLz4Size
    BlockSize = 4
    OffsetBits = 4
    MaxBlocks = 3
    MaxExtent = 2
    MaxSegs = 2
    Faults = FALSE
SPECIFICATION Spec
\* The bounds end every behaviour: no WriteExtent fits and no segment id is left.
CHECK_DEADLOCK FALSE
INVARIANT ReadBack
