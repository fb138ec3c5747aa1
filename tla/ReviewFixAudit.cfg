SPECIFICATION Spec
CONSTANTS
    h1 = h1
    h2 = h2
    f1 = f1
    f2 = f2
    Handlers <- TwoHandlers
    Findings <- TwoFindings
    Reviews <- OneReview
    Replies <- SomeReplies
    MaxChanges = 3
    MaxLog = 1
    MaxUpset = 0
    Null = Null
CHECK_DEADLOCK FALSE
SYMMETRY AnyHandler
INVARIANTS
    TypeOK
    AuditComplete
    NotOfferedAgain
    LoggedIsWritten
    NothingErased
