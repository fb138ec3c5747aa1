SPECIFICATION Spec
CONSTANTS
    h1 = h1
    h2 = h2
    agent = agent
    Handlers <- TwoHandlers
    Staff <- OneAgent
    Can <- Everything
    Patches <- SomePatches
    MaxRequests = 4
    MaxUpset = 1
    Outsider = Outsider
    Nobody = Nobody
    Null = Null
CHECK_DEADLOCK FALSE
SYMMETRY AnyHandler
INVARIANTS
    TypeOK
    StatusIsOnTimeline
    TimelineTells
    OwnerIsTold
    DatesAgree
    FirstResponseKept
