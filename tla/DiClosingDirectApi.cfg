\* A DI written before the migrations, driven from its approval to its end by
\* calls in any status: what the handlers guarantee without the screens.
CONSTANTS
    MaxCycle = 0
    Screens <- ClosingDirectApi
    InitialStatuses = {"NEGOTIATION1", "ATTENTE_BL_FACTURE"}
    InitialDocs = {{"Devis"}, {"BL"}, {"Facture"}, {"Devis", "BC"}, {"Devis", "BC", "BL", "Facture"}}
SPECIFICATION Spec
INVARIANTS
    FinishedHasDocuments
CHECK_DEADLOCK FALSE
