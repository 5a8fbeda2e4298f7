SPECIFICATION FairSpec
CONSTANTS
    Runs <- Three
    NoRun = NoRun
    Resource <- OwnResource
    Delay <- NoDelay
    Capacities = {1}
    MaxQueued = 0
    EarlyCallers = FALSE
    Breakable = {2}
    Cancelable = {3}
    Faults = FALSE
    MaxTime = 0
    MaxTries = 0
    MaxCrashes = 1
INVARIANT NoIdleToken
PROPERTY EveryRunEnds
