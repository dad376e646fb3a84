CONSTANTS
    Horizon = 4
    Opening = 1
    MaxOrder = 20
    MaxDemand = 2
    MaxLead = 2
    MaxReview = 2
    Rules <- MCRules
    Keys <- MCKeys
    Histories <- MCHistories
    Parts <- MCParts
    Rates <- MCRates
    Unit = 2
    Factor <- MCFactor
    Fits <- MCFits
    Week = 2
    Holdout = 2
    FoldLength = 1
    FoldCount = 2
    MinTrain = 3
    MinNonzero = 3
    Recent = 3
SPECIFICATION ServiceSpec
INVARIANT ModelIsChosenBlind
CHECK_DEADLOCK FALSE
