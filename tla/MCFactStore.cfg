CONSTANTS
    Scenario <- MCScenario
    Addr = {a1}
    Measure = {firm, plan}
    Firm = firm
    MaxQty = 1
    Author = {asha, ravi}
    Nobody = nobody
    Name = {working, w09, w10}
    Working = working
    Rate = {0, 1}
    NoAck = noack
    MaxCalls = 4
SYMMETRY MCSymmetry
SPECIFICATION Spec
INVARIANTS
    WorkingAttributed
    AckedOverridesKept
PROPERTIES
    FrozenForever
    FreezesTheSource
CHECK_DEADLOCK FALSE
