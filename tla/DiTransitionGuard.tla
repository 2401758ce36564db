------------------------- MODULE DiTransitionGuard -------------------------
(***************************************************************************)
(* The status vocabulary of an intervention request (DI) and the guard     *)
(* that whitelists its pipeline transitions (src/src/di/di.status.ts and   *)
(* src/src/di/workflow/di-transition-guard.ts).  A status is the string    *)
(* stored in the database.  The module has no variables: the state machines*)
(* of the DI extend it.                                                    *)
(***************************************************************************)

\* The statuses of STATUS_DI, by phase.
RetourStatus == {"RETOUR1", "RETOUR2", "RETOUR3"}
DiagStatus == {"DIAGNOSTIC", "INDIAGNOSTIC", "DIAGNOSTIC_Pause"}
RepairStatus == {"REPARATION", "INREPARATION", "REPARATION_Pause"}
MagasinConfirmation ==
    {"CONFIRMATION", "ATTENTE_CONFIRMATION_COORDINATION", "MAGASIN_FINALISATION"}

\* Values that only documents written before a migration still hold.
LegacyApproval == {"ATTENTE_BC_DEVIS", "NEGOTIATION1"}
LegacyClosing == {"CLOSING", "ATTENTE_BL_FACTURE"}
LegacyStatus ==
    LegacyApproval \cup LegacyClosing \cup {"PRICING", "CONFIRMATION_COMPOSANTS"}

ApprovalDocStatus == {"WAITING_DEVIS", "WAITING_BC"} \cup LegacyApproval
ClosingStatus == {"WAITING_BL", "WAITING_FACTURE"} \cup LegacyClosing

Status ==
    {"CREATED", "PENDING1", "MagasinEstimation", "PENDING2", "PRICING_DIAG",
     "WAITING_DEVIS", "WAITING_BC", "NEGOTIATION2", "PENDING3", "WAITING_BL",
     "WAITING_FACTURE", "FINISHED", "IRREPARABLE", "ANNULER"}
        \cup RetourStatus \cup DiagStatus \cup RepairStatus
        \cup MagasinConfirmation \cup LegacyStatus

----------------------------------------------------------------------------

\* ALLOWED_TRANSITIONS: the statuses a DI may be in to move into target.
AllowedSources(target) ==
    CASE target = "PENDING1" -> {"CREATED", "PRICING_DIAG", "PRICING"}
      [] target = "DIAGNOSTIC" -> {"PENDING1"}
      [] target = "INDIAGNOSTIC" -> {"DIAGNOSTIC", "DIAGNOSTIC_Pause", "PENDING1"}
      [] target = "DIAGNOSTIC_Pause" -> {"DIAGNOSTIC", "INDIAGNOSTIC"}
      [] target = "MagasinEstimation" -> {"INDIAGNOSTIC", "DIAGNOSTIC_Pause"}
      [] target = "CONFIRMATION" ->
            {"MagasinEstimation", "INDIAGNOSTIC", "DIAGNOSTIC_Pause",
             "WAITING_BC", "NEGOTIATION2"} \cup LegacyApproval
      [] target = "PENDING2" ->
            {"CONFIRMATION", "INDIAGNOSTIC", "DIAGNOSTIC_Pause", "MagasinEstimation"}
      [] target = "PRICING_DIAG" -> {"PENDING2"}
      [] target = "ATTENTE_CONFIRMATION_COORDINATION" -> {"CONFIRMATION"}
      [] target = "MAGASIN_FINALISATION" ->
            {"ATTENTE_CONFIRMATION_COORDINATION", "CONFIRMATION_COMPOSANTS"}
      [] target = "WAITING_DEVIS" -> {"PRICING_DIAG", "PRICING", "ANNULER"}
      [] target = "WAITING_BC" -> {"WAITING_DEVIS"} \cup LegacyApproval
      [] target = "NEGOTIATION2" -> ApprovalDocStatus
      [] target = "PENDING3" ->
            {"WAITING_BC", "NEGOTIATION2", "CONFIRMATION_COMPOSANTS"}
                \cup LegacyApproval \cup MagasinConfirmation
      [] target = "REPARATION" -> {"PENDING3"}
      [] target = "INREPARATION" -> {"REPARATION", "REPARATION_Pause", "PENDING3"}
      [] target = "REPARATION_Pause" -> {"REPARATION", "INREPARATION"}
      [] target = "WAITING_BL" -> RepairStatus
      [] target = "WAITING_FACTURE" -> {"WAITING_BL"} \cup LegacyClosing
      [] target = "FINISHED" ->
            {"WAITING_FACTURE", "NEGOTIATION2"} \cup LegacyClosing
                \cup ApprovalDocStatus \cup DiagStatus
      [] target = "IRREPARABLE" ->
            {"PRICING_DIAG", "NEGOTIATION2"} \cup ApprovalDocStatus \cup DiagStatus
      [] OTHER -> {}

\* The keys of ALLOWED_TRANSITIONS: any other target is not guarded.
GuardedTarget ==
    Status \ ({"CREATED", "ANNULER"} \cup RetourStatus \cup LegacyStatus)

\* REENTRY_SOURCES: a returned or cancelled DI may enter any phase.
ReentrySource == RetourStatus \cup {"ANNULER"}

\* assertDiTransition: true when the call does not throw.
MayEnter(current, target) ==
    \/ target \notin GuardedTarget
    \/ current = target
    \/ current \in ReentrySource
    \/ current \in AllowedSources(target)

============================================================================
