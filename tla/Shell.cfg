CONSTANTS
    MaxCalls = 2
    MaxStages = 1
    MaxFaults = 2
    MaxTraffic = 2
    Capacity = 1
SPECIFICATION Spec
INVARIANT AnswersAreComplete
PROPERTIES
    ImplementsDelivery
    CallsSettle
CHECK_DEADLOCK FALSE
