SPECIFICATION Spec
CONSTANTS
    Runs <- Three
    NoRun = NoRun
    Resource <- SharedResource
    Delay <- NoDelay
    Capacities = {1}
    MaxQueued = 0
    EarlyCallers = FALSE
    Breakable = {}
    Cancelable = {}
    Faults = FALSE
    MaxTime = 0
    MaxTries = 0
    MaxCrashes = 0
INVARIANT NoIdleToken
