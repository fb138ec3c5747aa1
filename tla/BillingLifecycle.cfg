SPECIFICATION Spec
CONSTANTS
    h1 = h1
    h2 = h2
    p1 = p1
    s1 = s1
    Handlers <- TwoHandlers
    Providers <- EitherProvider
    PaddleIds <- OneId
    Projects <- OneProject
    Quota = 1
    Period <- ShortPeriod
    Tagged = {TRUE, FALSE}
    Dated = {TRUE, FALSE}
    MaxTime = 1
    MaxMail = 2
    MaxUpset = 0
    Null = Null
CHECK_DEADLOCK FALSE
SYMMETRY Interchangeable
CONSTRAINT ProjectsFirst
INVARIANTS
    TypeOK
    PaidIsPro
    ProIsDue
    CancelHonoured
    QuotaBounded
