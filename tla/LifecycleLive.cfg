SPECIFICATION LiveSpec
CONSTANTS
    a = a
    b = b
    c = c
    Steps = {a, b, c}
    NoStep = NoStep
    Topologies <- ShortTopology
    Causes = {c1}
    NoCause = NoCause
    MaxRetries = 1
    MaxFaults = 0
    MaxRestarts = 1
INVARIANTS
    CarriedRecord
    CancelCutsForward
    UnwindNeverCut
    NeverStranded
PROPERTIES
    DurableMonotone
    Progress
    CancelTakesEffect
