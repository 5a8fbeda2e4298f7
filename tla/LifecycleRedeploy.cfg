SPECIFICATION Spec
CONSTANTS
    a = a
    b = b
    c = c
    Steps = {a, b, c}
    NoStep = NoStep
    Topologies <- AllTopologies
    Causes = {c1}
    NoCause = NoCause
    MaxRetries = 0
    MaxFaults = 1
    MaxRestarts = 1
INVARIANTS
    TypeOK
    ReservedBeforeInvoked
    UnwindSound
    OutcomeExplained
