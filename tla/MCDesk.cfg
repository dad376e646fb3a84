CONSTANTS
    Files <- MCFiles
    Grids <- MCGrids
    Limit = 2
    MaxRows = 3
    Word <- MCWord
    Spreadsheets <- MCSpreadsheets
    Field <- MCField
    Options <- MCOptions
    Required <- MCRequired
    Number <- MCNumber
    Digits <- MCDigits
    ZeroLed <- MCZeroLed
    Whole <- MCWhole
    MaxScan = 4
    MaxEdits = 1
    Truck = {1, 2, 3}
    Job = {1, 2, 3, 4}
    Horizon = 2
    Trips <- MCTrips
    Fleet <- MCFleet
SPECIFICATION DeskSpec
INVARIANTS
    AllOrNothing
    EveryProblemIsReported
    NoPhantomReferences
    InspectionIsRight
    PreviewIsWhatWasInspected
    OneTripPerBucket
    LongHaulsComeFirst
    FairnessIsEarned
    GapIsBounded
CHECK_DEADLOCK FALSE
