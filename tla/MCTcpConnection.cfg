\* A closed connection stays closed, so the model may stop.
CONSTANTS
    Size <- MCSize
    max_output_bytes_ = 4
SPECIFICATION FairConnectionSpec
INVARIANTS OutputAccounting OutputBounded RepliesAreWhole
PROPERTIES OutputDrains ClosedReleasesAll
CHECK_DEADLOCK FALSE
