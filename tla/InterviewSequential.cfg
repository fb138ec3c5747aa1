SPECIFICATION FairSpec
CONSTANTS
    budget = budget
    en = en
    h1 = h1
    h2 = h2
    Handlers <- OneHandler
    SlotKeys <- MCSlotKeys
    BudgetSlot = budget
    Languages <- MCLanguages
    IdeaLanguage = en
    MaxQuestions = 3
    MinQuestions = 2
    TotalQuestions = 4
    Threshold = 90
    ModelCoverage <- MCCoverage
    ModelSlots <- MCModelSlots
    MaxTurns = 2
    Null = Null
    Deleted = Deleted
CHECK_DEADLOCK FALSE
INVARIANTS
    TypeOK
    NeverStuck
    CapKept
    CorrectionsKept
    OpenQuestionsReconciled
    GateComplete
    ConfirmPins
PROPERTIES
    ConfirmLocks
    TranscriptGrows
    StatementsStay
    OwnerChoicesStay
    ImplementsLockedProject
    GateReached
