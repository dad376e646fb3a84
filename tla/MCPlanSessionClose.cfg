CONSTANTS
    Bucket = {1, 2}
    Rate = {0, 1}
    Late <- MCLate
    MaxCalls = 5
SPECIFICATION Spec
PROPERTY
    WorkSurvivesClose
CHECK_DEADLOCK FALSE
