\* The technician ends the repair twice while the closing documents are there.
CONSTANTS
    Calls <- ThreeCalls
    Enders = {"c1", "c2"}
    MayCrash = {}
    Exit = "PENDING3"
SPECIFICATION Spec
PROPERTIES
    FinishedStays
CHECK_DEADLOCK FALSE
