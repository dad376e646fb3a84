CONSTANTS
    Bucket = {1, 2}
    Rate = {0, 1}
    Late <- MCLate
    MaxCalls = 5
SPECIFICATION Spec
INVARIANT
    NoStaleRows
CHECK_DEADLOCK FALSE
