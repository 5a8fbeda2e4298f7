SPECIFICATION Spec
CONSTANTS
    Cursors <- SomeCursors
    Operations <- SomeOperations
    Records <- SomeRecords
    Returns <- SomeReturns
    Targets <- SomeTargets
    ParkOptions <- SomeParkOptions
    Schemas <- SomeSchemas
    HandWritten <- SomeHandWritten
    Texts <- SomeTexts
    Policies <- SomePolicies
    MaxAttempt = 4
    Schedules <- SomeSchedules
    URIs <- SomeURIs
    DefaultTextLimit = 5
    MaxInt = 32767
    MaxDuration = 20
    MaxFloat = 26
    Unit <- Units
    DefaultCache = 64
INVARIANTS
    RecordSurvives
    SpanAgrees
    WrappingIsTransparent
    ReparkCoversRest
    GeneratedSound
    StepOwnedOnce
    ExclusionMutual
    SettingsHold
CHECK_DEADLOCK FALSE
