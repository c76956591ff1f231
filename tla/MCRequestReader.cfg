\* A connection ends when it is closed.
CONSTANTS
    Number <- MCNumber
    max_bulk_length_ = 2
    max_array_length_ = 3
    max_depth_ = 1
    Zero = Zero
    ExtraSize = 8
    Scripts <- MCScripts
    Tails <- MCTails
    initial_size = 12
    max_request_bytes_ = 20
SPECIFICATION Spec
INVARIANTS CommandsArriveWhole UnreadIsKept InputBounded
CHECK_DEADLOCK FALSE
