\* A DI of the first cycle that is cancelled and reactivated.
CONSTANTS
    MaxCycle = 0
    Screens <- CancelAnywhere
    InitialStatuses = {"CREATED"}
    InitialDocs = {}
SPECIFICATION Spec
INVARIANTS
    StatInStepUnlessCancelled
PROPERTIES
    
    ImplementsPipeline
CHECK_DEADLOCK FALSE
