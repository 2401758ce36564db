\* The original flow of a DI, from its creation to its end.
CONSTANTS
    MaxCycle = 0
    Screens <- FirstCycleScreens
    InitialStatuses = {"CREATED", "PENDING1"}
    InitialDocs = {}
SPECIFICATION Spec
INVARIANTS
    RowFollowsDi
    FirstCycleDues
    NoOpenGate
CHECK_DEADLOCK FALSE
