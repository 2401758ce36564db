------------------------------ MODULE MCDiFlow ------------------------------
(***************************************************************************)
(* The screens the clients show in the runs of DiFlow: for each mutation,  *)
(* the statuses in which its button is offered.                            *)
(***************************************************************************)
EXTENDS DiFlow, TLC

\* The calls of the original flow.  A mutation whose handler checks the source
\* status is offered everywhere; one that does not is offered where its screen
\* shows it.
Guarded(names) == [m \in names |-> Status]

FirstCycleScreens ==
    Guarded({"createStat", "affectForRep", "changeStatusPending1",
             "sendDiBackToDiagnostic", "coordinator_ToDiag",
             "changeStatusInDiagnostic", "abandonDi",
             "changeStatusPricing", "sendDiToAdminsForPricing",
             "changeStatusNegociate1", "changeStatusNegociate2", "addBC",
             "sendComponentToConMagasinForConfirmation",
             "componentConfirmedFromCoordinator", "confirmDiComponents",
             "changeStatusPending3", "changeStatusRepaire", "changeStatusInRepair",
             "changeStatusTofinsh"})
    @@ ("magasinTech_Pending2" :> DiagStatus \cup {"MagasinEstimation"})
    @@ ("changeStatusMagasinEstimation" :> DiagStatus)
    @@ ("changeStatusPending2" :> {"MagasinEstimation"})
    @@ ("manager_Pending1" :> {"CREATED"})
    @@ ("changeToPending1" :> {"CREATED"})
    @@ ("changeToDiagnosticInPause" :> {"DIAGNOSTIC", "INDIAGNOSTIC"})
    @@ ("tech_startDiagnostic" :> DiagStatus)
    @@ ("setDiagnosticPayant" :> {"CREATED", "PENDING1"} \cup DiagStatus)
    @@ ("affectinitialPrice" :> {"PRICING_DIAG", "PRICING"})
    @@ ("changeStatusIrreparableFromPricing" :> {"PRICING_DIAG", "PRICING"})
    @@ ("addDevis" :> {"WAITING_DEVIS", "WAITING_BC"})
    @@ ("addBl" :> RepairStatus \cup ClosingStatus)
    @@ ("addFacture" :> RepairStatus \cup ClosingStatus)
    @@ ("changeStatusInMagasin" :> {"MagasinEstimation", "WAITING_BC", "NEGOTIATION2"})
    @@ ("changeToReparationInPause" :> {"REPARATION", "INREPARATION"})

\* The same flow, then one that comes back: the manager returns a closed DI,
\* opens the cycle and relaunches it, and the coordinator sends every repair
\* with its quotation.  The calls that repeat another one are left to the run
\* of the first cycle.
RetourScreens ==
    ("changeStatusRetour" :> {"FINISHED"})
    @@ ("countIgnore" :> RetourStatus)
    @@ ("manager_Pending1" :> {"CREATED"} \cup RetourStatus)
    @@ ("changeStatusPending1" :> {"CREATED"})
    @@ ("createStat" :> {"PENDING1"})
    @@ ("coordinatorSendToRepairWithDevis" :> {"PENDING3"})
    @@ ("changeStatusRepaire" :> {})
    @@ ("changeStatusInDiagnostic" :> {"DIAGNOSTIC", "DIAGNOSTIC_Pause"})
    @@ ("changeStatusInRepair" :> {"REPARATION", "REPARATION_Pause"})
    @@ ("addBl" :> ClosingStatus)
    @@ ("addFacture" :> ClosingStatus)
    @@ [m \in DOMAIN FirstCycleScreens
            \ {"setDiagnosticPayant", "affectinitialPrice", "affectForRep",
               "abandonDi",
               "sendDiBackToDiagnostic", "sendDiToAdminsForPricing",
               "confirmDiComponents", "changeStatusNegociate2",
               "changeStatusPending2", "changeToPending1"}
        |-> FirstCycleScreens[m] \ RetourStatus]

\* From the approval on, every mutation in every status: stale screens and
\* direct calls of the API, the cancellation and the older entry points included.
ClosingDirectApi ==
    Guarded({"addDevis", "addBC", "addBl", "addFacture", "addPDFFile",
             "changeStatusNegociate2", "changeStatusInMagasin",
             "sendComponentToConMagasinForConfirmation",
             "componentConfirmedFromCoordinator", "changeStatusPending3",
             "managerAdminManager_Pending3", "affectForRep", "changeStatusRepaire",
             "changeStatusInRepair", "tech_startReperation",
             "changeToReparationInPause", "changeStatusTofinsh",
             "annulerDi", "reactiverDi", "deleteDi"})

\* One mutation whose handler has no guard, issued from the API in any status.
AdminToPending3 == ("managerAdminManager_Pending3" :> Status) @@ FirstCycleScreens

\* A DI is cancelled anywhere; while it is, only the reactivation is offered.
CancelAnywhere ==
    ("annulerDi" :> Status) @@ ("reactiverDi" :> {"ANNULER"})
    @@ [m \in DOMAIN FirstCycleScreens
            \ {"setDiagnosticPayant", "affectinitialPrice"}
        |-> FirstCycleScreens[m] \ {"ANNULER"}]

\* What the theorems on the original flow ask of the screens (FirstCycle in
\* DiFlow) is met by the screens of the runs that stay in it.
ASSUME FirstCycleAssumption ==
    FirstCycleOffers(FirstCycleScreens) /\ FirstCycleOffers(CancelAnywhere)

\* What the theorems on the retours ask of them is met by the screens of their run.
ASSUME RetourAssumption == RetourOffers(RetourScreens)

============================================================================
