CONSTANTS
    SegLens = {1, 2}
    MaxSeq = 7
    MaxReads = 3
    MidStream = TRUE
    Fins = {"bare", "withData"}
SPECIFICATION Spec
INVARIANTS TypeOK ServerStreamInOrder ClientStreamContiguous
    AckedBeforeFinIsForwarded RelayFinIsLast
CHECK_DEADLOCK FALSE
