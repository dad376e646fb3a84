CONSTANTS
    Horizon = 3
    MaxQty = 2
    Item <- FixedItems
SPECIFICATION Spec
INVARIANT
    FixedMeansFixed
CHECK_DEADLOCK FALSE
