CONSTANTS
    Word <- MCWord
    Spreadsheets <- MCSpreadsheets
    Field <- MCField
    Options <- MCOptions
    Required <- MCRequired
    Number <- MCNumber
    Digits <- MCDigits
    ZeroLed <- MCZeroLed
    Whole <- MCWhole
    MaxScan = 4
    MaxEdits = 1
SPECIFICATION MappingSpec
INVARIANT SuggestionCanBePreviewed
CHECK_DEADLOCK FALSE
