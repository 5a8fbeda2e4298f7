SPECIFICATION Spec
CONSTANTS
    Runs <- Three
    NoRun = NoRun
    Resource <- SharedResource
    Delay <- FirstDelayed
    Capacities = {1, 2}
    MaxQueued = 1
    EarlyCallers = FALSE
    Breakable = {2}
    Cancelable = {}
    Faults = TRUE
    MaxTime = 1
    MaxTries = 1
    MaxCrashes = 1
INVARIANT PoolConsistent
INVARIANT StartedHold
INVARIANT MembersLive
PROPERTY StartsWithinCapacity
