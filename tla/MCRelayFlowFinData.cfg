CONSTANTS
    SegLens = {2}
    MaxSeq = 7
    MaxReads = 3
    MidStream = FALSE
    Fins = {"withData"}
SPECIFICATION Spec
INVARIANT AckedIsForwarded
CHECK_DEADLOCK FALSE
