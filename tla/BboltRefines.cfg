SPECIFICATION Spec
CONSTANTS
    p = p
    q = q
    m = m
    a = a
    b = b
    c = c
    Runs <- Two
    NoRun = NoRun
    Steps = {a, b, c}
    NoStep = NoStep
    SlotOf <- OneResource
    Excluding <- BothExcluded
    Causes = {c1}
    NoCause = NoCause
    StepsOf <- FirstSteps
    Delayed = {2}
    Inputs = {"large"}
    StateOf <- LargeAndSmall
    Outputs = {"large"}
    MaxAttempts <- FewAttempts
    MaxTime = 1
    PerWrite = 1
    PerSweep = 1
    ReapLimit = 1
    BatchFails = TRUE
    MaxFaults = 1
INVARIANTS
    RowsSound
    HeadAgrees
PROPERTY StoreContract
