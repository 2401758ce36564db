\* Three calls race on a DI at any gate, or in repair; the third may crash.
CONSTANTS
    Calls <- ThreeCalls
    Enders = {"c1"}
    MayCrash = {"c3"}
    Exit = "PENDING3"
SPECIFICATION FairSpec
INVARIANTS
    TypeOK
    AnnouncedOnce
    NoOpenGateAtRest
PROPERTIES
    ImplementsGates
    GatesProgress
CHECK_DEADLOCK FALSE
