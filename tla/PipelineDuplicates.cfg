SPECIFICATION Spec
CONSTANTS
    h1 = h1
    h2 = h2
    Handlers <- OneHandler
    Standalone <- NoStandalone
    Operations <- AllButRefine
    MayFail = FALSE
    MaxClock = 5
    MaxVersions = 2
    Null = Null
CHECK_DEADLOCK FALSE
INVARIANT
    NoDuplicateVersions
