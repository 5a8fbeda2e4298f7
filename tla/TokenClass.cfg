SPECIFICATION Spec
CONSTANTS
    disk = disk
    d = d
    Plain = {a, b, c}
    Runs <- All
    Classes = {disk}
    NoClass = NoClass
    Capacity <- Capacities
    StepsOf <- Short
    Delayed = {}
    Recovered = {d}
    Cancelable = {d}
    Concurrency = 3
    MaxTries <- OneTry
SYMMETRY Interchangeable
INVARIANTS
    PoolSound
    NoTokenIdle
    NoRunForgotten
