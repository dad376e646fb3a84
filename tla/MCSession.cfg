CONSTANTS
    Bucket = {1, 2}
    Rate = {0, 1}
    Late <- MCLate
    MaxCalls = 6
    all = all
    make = make
    march = march
    april = april
    byName = byName
    byGuess = byGuess
    Choice = {all, make}
    Form = {march, april}
    Mapping = {byName, byGuess}
    Valid <- IsValid
    MaxClicks = 5
    MaxErrors = 1
SPECIFICATION SessionSpec
INVARIANTS
    AnswerDescribesTables
    NoMixedPlan
    ScreenIsOnePlan
    FixesAreAnnounced
    ButtonsComeBack
CHECK_DEADLOCK FALSE
