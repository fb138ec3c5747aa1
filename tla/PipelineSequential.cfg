SPECIFICATION Spec
CONSTANTS
    h1 = h1
    h2 = h2
    Handlers <- OneHandler
    Standalone <- CostOnly
    Operations <- AllOperations
    MayFail = FALSE
    MaxClock = 6
    MaxVersions = 3
    Null = Null
CHECK_DEADLOCK FALSE
INVARIANTS
    TypeOK
    PrerequisitesHold
    RestoreExact
    RefineConsistent
PROPERTY
    CutIsCurrent
