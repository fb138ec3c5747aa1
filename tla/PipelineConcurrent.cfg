SPECIFICATION DesignedSpec
CONSTANTS
    h1 = h1
    h2 = h2
    Handlers <- TwoHandlers
    Standalone <- NoStandalone
    Operations <- AllButRefine
    MayFail = TRUE
    MaxClock = 5
    MaxVersions = 2
    Null = Null
CHECK_DEADLOCK FALSE
SYMMETRY AnyHandler
INVARIANTS
    FreshMeansCurrent
    VersionsDense
PROPERTIES
    VersionsImmutable
    ImplementsVersionLog
