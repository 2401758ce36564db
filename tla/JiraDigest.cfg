\* Two overlapping digest runs on the rows of two issues; one cut.
CONSTANTS
    Issues <- TwoIssues
    Owner <- EachItsOwner
    DueOn <- OneADay
    Syncs = {"s1"}
    Runs = {"r1", "r2"}
    Webhooks = {"SERVICE_TECHNIQUE", "APP_ALERT"}
    MaxAttempts = 3
    MaxSections = 1
    SectionCap = 1
    MaxDay = 2
    MaxCuts = 1
SPECIFICATION FairSpec
INVARIANTS
    TypeOK
    ClaimExclusive
    AttemptsBound
    StuckOnlyAfterCut
PROPERTIES
    SettledStays
    ImplementsDigest
    EachRowSettled
CHECK_DEADLOCK FALSE
