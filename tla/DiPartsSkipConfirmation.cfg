\* managerAdminManager_Pending3 sends a DI with parts straight to PENDING3.
CONSTANTS
    MaxCycle = 0
    Screens <- AdminToPending3
    InitialStatuses = {"PENDING1"}
    InitialDocs = {}
SPECIFICATION Spec
PROPERTIES
    PartsConfirmedBeforeRepair
CHECK_DEADLOCK FALSE
