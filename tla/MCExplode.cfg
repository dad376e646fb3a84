CONSTANTS
    Horizon = 4
    MaxQty = 2
    PageLimit = 2
    Item <- MCItem
    Plant <- MCPlant
SPECIFICATION ScreensSpec
INVARIANTS
    StockIsJustEnough
    ReleasedInTime
    LotsAreCheapest
    RequirementsAreComplete
    RefusedForCause
    FeasiblePlansFit
    OverloadsAreExplained
    PagesOwnUp
    ScreensTellOnePlan
CHECK_DEADLOCK FALSE
