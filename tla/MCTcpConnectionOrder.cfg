CONSTANTS
    Size <- MCSizeShort
    max_output_bytes_ = 4
SPECIFICATION ConnectionSpec
INVARIANTS RepliesInOrder
CHECK_DEADLOCK FALSE
