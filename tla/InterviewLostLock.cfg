SPECIFICATION Spec
CONSTANTS
    budget = budget
    en = en
    h1 = h1
    h2 = h2
    Handlers <- TwoHandlers
    SlotKeys <- MCSlotKeys
    BudgetSlot = budget
    Languages <- MCLanguages
    IdeaLanguage = en
    MaxQuestions = 1
    MinQuestions = 1
    TotalQuestions = 2
    Threshold = 90
    ModelCoverage <- LowCoverage
    ModelSlots <- MCModelSlots
    MaxTurns = 2
    Null = Null
    Deleted = Deleted
CHECK_DEADLOCK FALSE
PROPERTY
    ConfirmLocks
