CONSTANTS
    Files <- NoFiles
    Grids <- LongGrids
    Limit = 2
    MaxRows = 4
SPECIFICATION Spec
INVARIANT WholeFileIsImported
CHECK_DEADLOCK FALSE
