\* A DI at its closing is finished, comes back and is repaired again.
CONSTANTS
    MaxCycle = 1
    Screens <- RetourScreens
    InitialStatuses = {"ATTENTE_BL_FACTURE"}
    InitialDocs = {{"Devis", "BC"}}
SPECIFICATION Spec
INVARIANTS
    TypeOK
    
PROPERTIES
    
    RetourStaysOpen
CHECK_DEADLOCK FALSE
