--------------------------- MODULE DiFlow_proofs ---------------------------
(***************************************************************************)
(* Theorems about the life of a DI (DiFlow).                               *)
(*                                                                         *)
(* The first two hold for every set of screens and every number of retour  *)
(* cycles.  They follow from one invariant: the types, and the documents a *)
(* DI must have at its closing.  That a DI at WAITING_FACTURE has its      *)
(* delivery note is what makes the second part inductive: the gate of the  *)
(* invoice looks at the invoice alone.                                     *)
(*                                                                         *)
(* Two more are about the retours, for every set of screens within         *)
(* RetourOffers: a DI that stands at its repair has the quotation of its   *)
(* cycle, and the rows of the past cycles are left alone.  The last, that  *)
(* no retour is finished by the papers of an earlier cycle, holds again    *)
(* for every set of screens.                                               *)
(***************************************************************************)
EXTENDS DiFlow, TLAPS

\* The documents a DI must have at the end of its closing.
Closing(d) ==
    /\ d.status = "FINISHED" => {"BL", "Facture"} \subseteq d.driveDocs
    /\ d.status = "WAITING_FACTURE" => "BL" \in d.driveDocs

DocOK(d) == d \in DiDoc /\ Closing(d)

\* The statuses that ask for no document.
EarlyStatus == Status \ {"FINISHED", "WAITING_FACTURE"}

\* A move to a status that asks for no document leaves a sound DI.
LEMMA MovedDoc ==
    ASSUME NEW d \in DiDoc, NEW target \in EarlyStatus
    PROVE  /\ DocOK(Moved(d, target))
           /\ Moved(d, target).driveDocs = d.driveDocs
           /\ Moved(d, target).ignoreCount = d.ignoreCount
           /\ Moved(d, target).status = target
  BY DEF EarlyStatus, DiDoc, Moved, DocOK, Closing

\* A move keeps the shape of the document, its documents and its cycle.
LEMMA MovedType ==
    ASSUME NEW d \in DiDoc, NEW target \in Status
    PROVE  /\ Moved(d, target) \in DiDoc
           /\ Moved(d, target).driveDocs = d.driveDocs
           /\ Moved(d, target).ignoreCount = d.ignoreCount
           /\ Moved(d, target).status = target
  BY DEF DiDoc, Moved

\* The writes of updateStatus, openDiagLeg and closeDiagLeg keep the shape of the rows.
LEMMA RowsType ==
    ASSUME NEW st \in [Cycles -> StatRow], NEW rows, NEW target \in Status, NEW open \in BOOLEAN
    PROVE  /\ WithStatus(rows, target, st) \in [Cycles -> StatRow]
           /\ WithLeg(rows, open, st) \in [Cycles -> StatRow]
  BY DEF WithStatus, WithLeg, StatRow

\* One turn of maybeAdvanceDocGate leaves a sound DI.
LEMMA GateHopDoc ==
    ASSUME NEW d, DocOK(d)
    PROVE  /\ DocOK(GateHop(d))
           /\ GateHop(d).ignoreCount = d.ignoreCount
<1>1. d \in DiDoc
  BY DEF DocOK
<1>2. AfterBc(d) \in EarlyStatus /\ "WAITING_BC" \in EarlyStatus
  BY DEF AfterBc, EarlyStatus, Status, MagasinConfirmation
<1>3. /\ DocOK(Moved(d, AfterBc(d))) /\ Moved(d, AfterBc(d)).ignoreCount = d.ignoreCount
      /\ DocOK(Moved(d, "WAITING_BC")) /\ Moved(d, "WAITING_BC").ignoreCount = d.ignoreCount
  BY <1>1, <1>2, MovedDoc
<1>4. /\ Moved(d, "FINISHED") \in DiDoc
      /\ Moved(d, "FINISHED").driveDocs = d.driveDocs
      /\ Moved(d, "FINISHED").ignoreCount = d.ignoreCount
      /\ Moved(d, "FINISHED").status = "FINISHED"
      /\ Moved(d, "WAITING_FACTURE") \in DiDoc
      /\ Moved(d, "WAITING_FACTURE").driveDocs = d.driveDocs
      /\ Moved(d, "WAITING_FACTURE").ignoreCount = d.ignoreCount
      /\ Moved(d, "WAITING_FACTURE").status = "WAITING_FACTURE"
  <2>1. "FINISHED" \in Status /\ "WAITING_FACTURE" \in Status
    BY DEF Status
  <2>2. QED
    BY <1>1, <2>1, MovedType
<1>5. {"BL", "Facture"} \subseteq d.driveDocs => DocOK(Moved(d, "FINISHED"))
  BY <1>4 DEF DocOK, Closing
<1>6. "BL" \in d.driveDocs => DocOK(Moved(d, "WAITING_FACTURE"))
  BY <1>4 DEF DocOK, Closing
<1>7. d.status = "WAITING_FACTURE" /\ "Facture" \in d.driveDocs
      => {"BL", "Facture"} \subseteq d.driveDocs
  BY DEF DocOK, Closing
<1>8. QED
  BY <1>3, <1>4, <1>5, <1>6, <1>7 DEF GateHop, GateExit

\* So do the turns of its loop.
LEMMA CrossedDoc ==
    ASSUME NEW d, DocOK(d)
    PROVE  /\ DocOK(GatesCrossed(d))
           /\ GatesCrossed(d) \in DiDoc
           /\ GatesCrossed(d).status \in Status
<1>1. DocOK(GateHop(d))
  BY GateHopDoc
<1>2. DocOK(GateHop(GateHop(d)))
  BY <1>1, GateHopDoc
<1>3. DocOK(GatesCrossed(d))
  BY <1>1, <1>2 DEF GatesCrossed
<1>4. QED
  BY <1>3 DEF DocOK, DiDoc

\* The statuses that an action writes outside the gates.
LEMMA Targets ==
    /\ EarlyStatus \subseteq Status
    /\ RetourStatus \subseteq EarlyStatus
    /\ {"PENDING1", "DIAGNOSTIC", "INDIAGNOSTIC", "DIAGNOSTIC_Pause",
        "MagasinEstimation", "PENDING2", "PRICING_DIAG", "CONFIRMATION",
        "WAITING_DEVIS", "NEGOTIATION2", "ATTENTE_CONFIRMATION_COORDINATION",
        "MAGASIN_FINALISATION", "PENDING3", "REPARATION", "INREPARATION",
        "REPARATION_Pause", "WAITING_BL", "IRREPARABLE", "ANNULER"} \subseteq EarlyStatus
  BY DEF EarlyStatus, Status, RetourStatus, DiagStatus, RepairStatus, MagasinConfirmation

\* The inductive invariant.
IInv ==
    /\ DocOK(di)
    /\ stat \in [Cycles -> StatRow]
    /\ log \in [Cycles -> LogRow]
    /\ draws \in 0..MaxDraws

\* The updates that follow a move keep the shape of the rows.
LEMMA SyncedType ==
    ASSUME IInv, NEW target \in Status
    PROVE  /\ Synced(target) \in [Cycles -> StatRow]
           /\ LegClosedAndSynced(target) \in [Cycles -> StatRow]
           /\ WithLeg(CurrentRow, TRUE, Synced(target)) \in [Cycles -> StatRow]
           /\ WithStatus(OldestRow, target, Synced(target)) \in [Cycles -> StatRow]
           /\ WithStatus(OldestRow, target, stat) \in [Cycles -> StatRow]
           /\ WithLeg(CurrentRow, FALSE, stat) \in [Cycles -> StatRow]
<1>1. /\ Synced(target) \in [Cycles -> StatRow]
      /\ WithLeg(CurrentRow, FALSE, stat) \in [Cycles -> StatRow]
      /\ WithStatus(OldestRow, target, stat) \in [Cycles -> StatRow]
  BY RowsType DEF IInv, Synced
<1>2. QED
  BY <1>1, RowsType DEF LegClosedAndSynced

\* A guarded move with its Stat update preserves the invariant.
LEMMA GuardedMoveInv ==
    ASSUME IInv, NEW target \in EarlyStatus, GuardedMove(target)
    PROVE  IInv'
<1>1. di \in DiDoc /\ target \in Status
  BY DEF IInv, DocOK, EarlyStatus
<1>2. DocOK(Moved(di, target))
  BY <1>1, MovedDoc
<1>3. QED
  BY <1>1, <1>2, SyncedType DEF IInv, GuardedMove, DocOK, Closing

\* commitStockDecrementOnce touches the marker and the stock only.
LEMMA StockCommittedInv ==
    ASSUME IInv, NEW d, DocOK(d), StockCommitted(d)
    PROVE  DocOK(di)' /\ (draws \in 0..MaxDraws)'
<1>1. DocOK([d EXCEPT !.stockDecrementedAt = TRUE])
  BY DEF DocOK, DiDoc, Closing
<1>2. DocOK(di)'
  BY <1>1 DEF StockCommitted, DocOK, Closing
<1>3. (draws \in 0..MaxDraws)'
  BY DEF StockCommitted, IInv, MaxDraws
<1>4. QED
  BY <1>2, <1>3

\* The gates tried from a sound DI leave a sound state.
LEMMA AdvancedFromInv ==
    ASSUME IInv, NEW d, DocOK(d), NEW st \in [Cycles -> StatRow], AdvancedFrom(d, st)
    PROVE  DocOK(di)' /\ (stat \in [Cycles -> StatRow])'
<1>1. DocOK(GatesCrossed(d)) /\ GatesCrossed(d).status \in Status
  BY CrossedDoc
<1>2. WithStatus(CurrentRow, GatesCrossed(d).status, st) \in [Cycles -> StatRow]
  BY <1>1, RowsType
<1>3. QED
  BY <1>1, <1>2 DEF AdvancedFrom, DocOK, Closing

\* A closing as irreparable preserves the invariant.
LEMMA CloseIrreparableInv ==
    ASSUME IInv, NEW st \in [Cycles -> StatRow], CloseIrreparable(di, st)
    PROVE  IInv'
<1>1. DocOK(Moved(di, "IRREPARABLE"))
  BY Targets, MovedDoc DEF IInv, DocOK
<1>2. QED
  BY <1>1 DEF IInv, CloseIrreparable, DocOK, Closing

\* The way to PENDING2 preserves the invariant.
LEMMA ToPending2Inv ==
    ASSUME IInv, ToPending2
    PROVE  IInv'
<1>1. DocOK(Moved(di, "PENDING2")) /\ "PENDING2" \in Status
  BY Targets, MovedDoc DEF IInv, DocOK
<1>2. QED
  BY <1>1, SyncedType DEF IInv, ToPending2, DocOK, Closing

\* The way to the pricing preserves the invariant.
LEMMA ToPricingInv ==
    ASSUME IInv, ToPricing
    PROVE  IInv'
<1>1. DocOK(Moved(di, "PRICING_DIAG")) /\ "PRICING_DIAG" \in Status
  BY Targets, MovedDoc DEF IInv, DocOK
<1>2. DocOK([Moved(di, "PRICING_DIAG") EXCEPT !.pricingRequestSentAt = TRUE])
  BY <1>1 DEF DocOK, DiDoc, Closing
<1>3. QED
  BY <1>1, <1>2, SyncedType DEF IInv, ToPricing, DocOK, Closing

\* The way of a retour from its diagnostic to PENDING3 preserves the invariant.
LEMMA ToPending3Inv ==
    ASSUME IInv, ToPending3FromRetourDiag
    PROVE  IInv'
<1>1. DocOK(Moved(di, "PENDING3")) /\ "PENDING3" \in Status
  BY Targets, MovedDoc DEF IInv, DocOK
<1>2. DocOK([Moved(di, "PENDING3") EXCEPT
                !.needsDevisBeforeRepair = @ \/ CurrentRow # {}])
  BY <1>1 DEF DocOK, DiDoc, Closing
<1>3. QED
  BY <1>1, <1>2, SyncedType DEF IInv, ToPending3FromRetourDiag, DocOK, Closing

\* A document filed leaves a sound DI: documents are only added.
LEMMA FiledDoc ==
    ASSUME IInv, NEW doc \in Docs
    PROVE  DocOK(Filed(doc)) /\ LogFiled(doc) \in [Cycles -> LogRow]
<1>1. DocOK(Filed(doc))
  BY DEF IInv, DocOK, DiDoc, Closing, Filed
<1>2. LogFiled(doc) \in [Cycles -> LogRow]
  BY DEF IInv, LogRow, LogFiled
<1>3. QED
  BY <1>1, <1>2

\* An upload, with the gates it opens, preserves the invariant.
LEMMA UploadInv ==
    ASSUME IInv, NEW doc \in Docs, Upload(doc)
    PROVE  IInv'
<1>1. DocOK(Filed(doc)) /\ LogFiled(doc) \in [Cycles -> LogRow]
  BY FiledDoc
<1>2. DocOK(di)' /\ (stat \in [Cycles -> StatRow])'
  BY <1>1, AdvancedFromInv DEF Upload, IInv
<1>3. QED
  BY <1>1, <1>2 DEF Upload, IInv

\* The rows and the cycle: assignment, deletion and retour.
LEMMA CycleActionsInv ==
    ASSUME IInv,
           \/ createStat \/ affectForRep \/ countIgnore \/ deleteDi
           \/ \E level \in RetourStatus : changeDiRetour(level)
    PROVE  IInv'
<1>0. di \in DiDoc /\ di.ignoreCount \in Cycles
  BY DEF IInv, DocOK, DiDoc
<1>n. NoStat \in StatRow
  BY DEF NoStat, StatRow
<1>1. CASE createStat
  <2>1. (log \in [Cycles -> LogRow])'
    BY <1>0, <1>1 DEF createStat, IInv, LogRow
  <2>2. [NoStat EXCEPT !.exists = TRUE] \in StatRow
    BY DEF NoStat, StatRow
  <2>3. (stat \in [Cycles -> StatRow])'
    BY <1>0, <1>1, <2>2 DEF createStat, IInv
  <2>4. QED
    BY <1>1, <2>1, <2>3 DEF createStat, IInv
<1>2. CASE affectForRep
  <2>1. (stat \in [Cycles -> StatRow])'
    BY <1>2 DEF affectForRep, IInv, StatRow
  <2>2. QED
    BY <1>2, <2>1 DEF affectForRep, IInv
<1>3. CASE countIgnore
  <2>1. di.ignoreCount + 1 \in Cycles
    BY <1>0, <1>3, MaxCycleAssumption DEF countIgnore, Cycles
  <2>2. DocOK(di)'
    BY <1>0, <1>3, <2>1 DEF countIgnore, IInv, DocOK, DiDoc, Closing
  <2>3. QED
    BY <1>3, <2>2 DEF countIgnore, IInv
<1>4. CASE deleteDi
  BY <1>4, <1>n DEF deleteDi, IInv
<1>5. CASE \E level \in RetourStatus : changeDiRetour(level)
  <2>1. PICK level \in RetourStatus : changeDiRetour(level)
    BY <1>5
  <2>2. DocOK(Moved(di, level))
    BY <1>0, Targets, MovedDoc
  <2>3. DocOK(di)'
    BY <2>1, <2>2 DEF changeDiRetour, DocOK, DiDoc, Closing
  <2>4. QED
    BY <2>1, <2>3 DEF changeDiRetour, IInv
<1>6. QED
  BY <1>1, <1>2, <1>3, <1>4, <1>5

\* The way into the diagnostic and the diagnostic itself.
LEMMA DiagnosticActionsInv ==
    ASSUME IInv,
           \/ changeStatusPending1 \/ manager_Pending1 \/ changeToPending1
           \/ sendDiBackToDiagnostic \/ coordinator_ToDiag
           \/ changeStatusInDiagnostic \/ changeToDiagnosticInPause
           \/ tech_startDiagnostic \/ abandonDi
    PROVE  IInv'
<1>0. /\ di \in DiDoc /\ di.ignoreCount \in Cycles
      /\ {"PENDING1", "DIAGNOSTIC", "INDIAGNOSTIC", "DIAGNOSTIC_Pause"}
            \subseteq EarlyStatus \cap Status
  BY Targets DEF IInv, DocOK, DiDoc
<1>d. /\ DocOK(Moved(di, "PENDING1"))
      /\ DocOK(Moved(di, "INDIAGNOSTIC"))
      /\ DocOK(Moved(di, "DIAGNOSTIC_Pause"))
  BY <1>0, MovedDoc
<1>1. CASE changeStatusPending1
  BY <1>0, <1>1, <1>d, SyncedType DEF changeStatusPending1, IInv, DocOK, Closing
<1>2. CASE manager_Pending1
  BY <1>2, <1>d DEF manager_Pending1, IInv, DocOK, Closing
<1>3. CASE changeToPending1
  BY <1>3, <1>d DEF changeToPending1, IInv, DocOK, Closing
<1>4. CASE sendDiBackToDiagnostic
  BY <1>0, <1>4, GuardedMoveInv DEF sendDiBackToDiagnostic
<1>5. CASE coordinator_ToDiag
  BY <1>0, <1>5, GuardedMoveInv DEF coordinator_ToDiag
<1>6. CASE changeStatusInDiagnostic
  BY <1>0, <1>6, <1>d, SyncedType DEF changeStatusInDiagnostic, IInv, DocOK, Closing
<1>7. CASE changeToDiagnosticInPause
  BY <1>0, <1>7, <1>d, SyncedType DEF changeToDiagnosticInPause, IInv, DocOK, Closing
<1>8. CASE tech_startDiagnostic
  <2>1. PICK repairable \in BOOLEAN, pdr \in BOOLEAN, parts \in BOOLEAN, fixtronix \in BOOLEAN :
           \/ /\ di' = [di EXCEPT !.can_be_repaired = repairable,
                                  !.contain_pdr = pdr, !.composants = parts,
                                  !.stockDecrementedAt = FALSE]
              /\ UNCHANGED log
           \/ /\ log' = [log EXCEPT ![di.ignoreCount] =
                           [@ EXCEPT !.contain_pdr = pdr, !.composants = parts,
                                     !.isErrorFromFixtronix = fixtronix]]
              /\ UNCHANGED di
    BY <1>8 DEF tech_startDiagnostic
  <2>2. DocOK(di)'
    BY <1>0, <2>1 DEF IInv, DocOK, DiDoc, Closing
  <2>r. [log[di.ignoreCount] EXCEPT !.contain_pdr = pdr, !.composants = parts,
                                    !.isErrorFromFixtronix = fixtronix] \in LogRow
    <3>1. log[di.ignoreCount] \in LogRow
      BY <1>0 DEF IInv
    <3>2. QED
      BY <3>1 DEF LogRow
  <2>3. (log \in [Cycles -> LogRow])'
    BY <1>0, <2>1, <2>r DEF IInv
  <2>4. QED
    BY <1>8, <2>2, <2>3 DEF tech_startDiagnostic, IInv
<1>9. CASE abandonDi
  BY <1>0, <1>9, <1>d, SyncedType DEF abandonDi, IInv, DocOK, Closing
<1>10. QED
  BY <1>1, <1>2, <1>3, <1>4, <1>5, <1>6, <1>7, <1>8, <1>9

\* The store and the pricing.
LEMMA PricingActionsInv ==
    ASSUME IInv,
           \/ magasinTech_Pending2 \/ changeStatusPending2
           \/ changeStatusMagasinEstimation \/ changeStatusInMagasin
           \/ changeStatusPricing \/ sendDiToAdminsForPricing
           \/ affectinitialPrice \/ setDiagnosticPayant
           \/ changeStatusIrreparableFromPricing
           \/ changeStatusNegociate1 \/ changeStatusNegociate2
    PROVE  IInv'
<1>0. /\ di \in DiDoc
      /\ {"MagasinEstimation", "CONFIRMATION", "WAITING_DEVIS", "NEGOTIATION2",
          "IRREPARABLE"} \subseteq EarlyStatus \cap Status
  BY Targets DEF IInv, DocOK
<1>1. CASE magasinTech_Pending2 \/ changeStatusPending2
  BY <1>1, ToPending2Inv DEF magasinTech_Pending2, changeStatusPending2
<1>2. CASE changeStatusMagasinEstimation
  <2>1. CASE ToPending3FromRetourDiag
    BY <2>1, ToPending3Inv
  <2>2. CASE ToPending2
    BY <2>2, ToPending2Inv
  <2>3. CASE /\ di' = Moved(di, "MagasinEstimation")
             /\ stat' = LegClosedAndSynced("MagasinEstimation")
             /\ UNCHANGED <<log, draws>>
    <3>1. DocOK(Moved(di, "MagasinEstimation"))
      BY <1>0, MovedDoc
    <3>2. QED
      BY <1>0, <2>3, <3>1, SyncedType DEF IInv, DocOK, Closing
  <2>4. QED
    BY <1>2, <2>1, <2>2, <2>3 DEF changeStatusMagasinEstimation
<1>3. CASE changeStatusInMagasin
  BY <1>0, <1>3, GuardedMoveInv DEF changeStatusInMagasin
<1>4. CASE changeStatusPricing \/ sendDiToAdminsForPricing
  BY <1>4, ToPricingInv DEF changeStatusPricing, sendDiToAdminsForPricing
<1>5. CASE affectinitialPrice
  <2>1. DocOK([di EXCEPT !.price = di.diagnosticPayant])
    BY <1>0 DEF IInv, DocOK, DiDoc, Closing
  <2>2. QED
    BY <1>5, <2>1 DEF affectinitialPrice, IInv, DocOK, Closing
<1>6. CASE setDiagnosticPayant
  <2>1. PICK payant \in BOOLEAN : di' = [di EXCEPT !.diagnosticPayant = payant]
    BY <1>6 DEF setDiagnosticPayant
  <2>2. DocOK(di)'
    BY <1>0, <2>1 DEF IInv, DocOK, DiDoc, Closing
  <2>3. QED
    BY <1>6, <2>2 DEF setDiagnosticPayant, IInv
<1>7. CASE changeStatusIrreparableFromPricing
  <2>1. Synced("IRREPARABLE") \in [Cycles -> StatRow]
    BY <1>0, SyncedType
  <2>2. QED
    BY <1>7, <2>1, CloseIrreparableInv DEF changeStatusIrreparableFromPricing
<1>8. CASE changeStatusNegociate1
  BY <1>0, <1>8, GuardedMoveInv DEF changeStatusNegociate1
<1>9. CASE changeStatusNegociate2
  BY <1>0, <1>9, GuardedMoveInv DEF changeStatusNegociate2
<1>10. QED
  BY <1>1, <1>2, <1>3, <1>4, <1>5, <1>6, <1>7, <1>8, <1>9

\* The documents and the confirmation of the components.
LEMMA DocumentActionsInv ==
    ASSUME IInv,
           \/ addDevisPDF \/ addBlPDF \/ addFacturePDF \/ addBCPDF \/ addPDFFile
           \/ sendComponentToConMagasinForConfirmation
           \/ componentConfirmedFromCoordinator \/ confirmDiComponents
    PROVE  IInv'
<1>0. /\ di \in DiDoc /\ di.ignoreCount \in Cycles
      /\ {"ATTENTE_CONFIRMATION_COORDINATION", "MAGASIN_FINALISATION"}
            \subseteq EarlyStatus \cap Status
  BY Targets DEF IInv, DocOK, DiDoc
<1>1. CASE addDevisPDF \/ addBlPDF \/ addFacturePDF \/ addBCPDF
  BY <1>1, UploadInv DEF addDevisPDF, addBlPDF, addFacturePDF, addBCPDF, Docs
<1>2. CASE addPDFFile
  <2>1. DocOK([di EXCEPT !.driveDocs = @ \cup {"BL", "Facture"}])
    BY <1>0 DEF IInv, DocOK, DiDoc, Closing, Docs
  <2>2. QED
    BY <1>2, <2>1 DEF addPDFFile, IInv, DocOK, Closing
<1>3. CASE sendComponentToConMagasinForConfirmation
  <2> DEFINE sent == Moved(di, "ATTENTE_CONFIRMATION_COORDINATION")
  <2>1. DocOK(sent)
    BY <1>0, MovedDoc
  <2>2. CASE CurrentRow = {}
    BY <1>0, <1>3, <2>1, <2>2, SyncedType
       DEF sendComponentToConMagasinForConfirmation, IInv, DocOK, Closing
  <2>3. CASE CurrentRow # {}
    <3>1. StockCommitted(sent)
      BY <1>3, <2>3 DEF sendComponentToConMagasinForConfirmation
    <3>2. DocOK(di)' /\ (draws \in 0..MaxDraws)'
      BY <2>1, <3>1, StockCommittedInv
    <3>3. QED
      BY <1>0, <1>3, <3>2, SyncedType DEF sendComponentToConMagasinForConfirmation, IInv
  <2>4. QED
    BY <2>2, <2>3
<1>4. CASE ConfirmComponents
  <2>1. CASE InRetour
    <3>1. DocOK([di EXCEPT !.componentsConfirmedAt = TRUE])
      BY <1>0 DEF IInv, DocOK, DiDoc, Closing
    <3>2. [log EXCEPT ![di.ignoreCount].isConfirmed = @ \/ log[di.ignoreCount].exists]
             \in [Cycles -> LogRow]
      BY <1>0 DEF IInv, LogRow
    <3>3. QED
      BY <1>4, <2>1, <3>1, <3>2 DEF ConfirmComponents, IInv, DocOK, Closing
  <2>2. CASE ~InRetour
    <3> DEFINE confirmed == [Moved(di, "MAGASIN_FINALISATION") EXCEPT
                                !.componentsConfirmedAt = TRUE]
    <3>1. DocOK(Moved(di, "MAGASIN_FINALISATION"))
      BY <1>0, MovedDoc
    <3>2. DocOK(confirmed)
      BY <3>1 DEF DocOK, DiDoc, Closing
    <3>3. StockCommitted(confirmed)
      BY <1>4, <2>2 DEF ConfirmComponents
    <3>4. DocOK(di)' /\ (draws \in 0..MaxDraws)'
      BY <3>2, <3>3, StockCommittedInv
    <3>5. QED
      BY <1>0, <1>4, <2>2, <3>4, SyncedType DEF ConfirmComponents, IInv
  <2>3. QED
    BY <2>1, <2>2
<1>5. QED
  BY <1>1, <1>2, <1>3, <1>4 DEF componentConfirmedFromCoordinator, confirmDiComponents

\* The one gesture of the coordinator that crosses a gate, clears the marker and
\* moves the DI: each of the documents it may leave behind is sound.
LEMMA SendToRepairInv ==
    ASSUME IInv, coordinatorSendToRepairWithDevis
    PROVE  IInv'
<1> DEFINE filed == GatesCrossed(Filed("Devis"))
           threw == CurrentRow = {} /\ filed.status # di.status
           cleared == [filed EXCEPT !.needsDevisBeforeRepair = FALSE]
           final == IF threw THEN filed
                    ELSE IF MayEnter(filed.status, "REPARATION")
                         THEN Moved(cleared, "REPARATION") ELSE cleared
<1>1. DocOK(Filed("Devis")) /\ LogFiled("Devis") \in [Cycles -> LogRow]
  BY FiledDoc DEF Docs
<1>2. DocOK(filed)
  BY <1>1, CrossedDoc
<1>3. DocOK(cleared)
  BY <1>2 DEF DocOK, DiDoc, Closing
<1>4. DocOK(Moved(cleared, "REPARATION"))
  <2>1. cleared \in DiDoc /\ "REPARATION" \in EarlyStatus
    BY <1>3, Targets DEF DocOK
  <2>2. QED
    BY <2>1, MovedDoc
<1>5. DocOK(final) /\ final.status \in Status
  <2>1. DocOK(final)
    BY <1>2, <1>3, <1>4
  <2>2. QED
    BY <2>1 DEF DocOK, DiDoc
<1>6. /\ di' = final
      /\ stat' = [c \in Cycles |->
                     IF c \in CurrentRow
                     THEN [stat[c] EXCEPT !.id_tech_rep = TRUE,
                             !.status = IF final.status = di.status /\ final.status # "REPARATION"
                                        THEN @ ELSE final.status]
                     ELSE stat[c]]
      /\ log' = LogFiled("Devis")
      /\ UNCHANGED draws
  BY DEF coordinatorSendToRepairWithDevis
<1>7. (stat \in [Cycles -> StatRow])'
  <2> HIDE DEF final
  <2>1. ASSUME NEW c \in Cycles
        PROVE  [stat[c] EXCEPT !.id_tech_rep = TRUE,
                    !.status = IF final.status = di.status /\ final.status # "REPARATION"
                               THEN @ ELSE final.status] \in StatRow
    <3>1. stat[c] \in StatRow
      BY DEF IInv
    <3>2. QED
      BY <1>5, <3>1 DEF StatRow
  <2>2. QED
    BY <1>6, <2>1 DEF IInv
<1>8. QED
  <2> HIDE DEF final
  <2>1. DocOK(di)'
    BY <1>5, <1>6 DEF DocOK, Closing
  <2>2. QED
    BY <1>1, <1>6, <1>7, <2>1 DEF IInv

\* The repair, the closing, the cancellation and the reactivation.
LEMMA RepairActionsInv ==
    ASSUME IInv,
           \/ changeStatusPending3 \/ managerAdminManager_Pending3
           \/ changeStatusRepaire \/ changeStatusInRepair \/ tech_startReperation
           \/ changeToReparationInPause \/ changeStatusTofinsh
           \/ annulerDi \/ reactiverDi
    PROVE  IInv'
<1>0. /\ di \in DiDoc
      /\ {"PENDING3", "REPARATION", "INREPARATION", "REPARATION_Pause", "WAITING_BL",
          "IRREPARABLE", "ANNULER"} \subseteq EarlyStatus \cap Status
  BY Targets DEF IInv, DocOK
<1>d. /\ DocOK(Moved(di, "PENDING3")) /\ DocOK(Moved(di, "INREPARATION"))
      /\ DocOK(Moved(di, "REPARATION_Pause")) /\ DocOK(Moved(di, "WAITING_BL"))
      /\ DocOK(Moved(di, "ANNULER"))
  BY <1>0, MovedDoc
<1>1. CASE changeStatusPending3
  <2>1. DocOK(di)' /\ (draws \in 0..MaxDraws)'
    BY <1>1, <1>d, StockCommittedInv DEF changeStatusPending3
  <2>2. QED
    BY <1>0, <1>1, <2>1, SyncedType DEF changeStatusPending3, IInv
<1>2. CASE managerAdminManager_Pending3
  <2>1. DocOK(di)' /\ (draws \in 0..MaxDraws)'
    <3>1. CASE CurrentRow = {}
      BY <1>2, <1>d, <3>1 DEF managerAdminManager_Pending3, IInv, DocOK, Closing
    <3>2. CASE CurrentRow # {}
      BY <1>2, <1>d, <3>2, StockCommittedInv DEF managerAdminManager_Pending3
    <3>3. QED
      BY <3>1, <3>2
  <2>2. QED
    BY <1>0, <1>2, <2>1, SyncedType DEF managerAdminManager_Pending3, IInv
<1>3. CASE changeStatusRepaire
  BY <1>0, <1>3, GuardedMoveInv DEF changeStatusRepaire
<1>4. CASE changeStatusInRepair
  BY <1>0, <1>4, GuardedMoveInv DEF changeStatusInRepair
<1>5. CASE tech_startReperation
  BY <1>0, <1>5, <1>d, SyncedType DEF tech_startReperation, IInv, DocOK, Closing
<1>6. CASE changeToReparationInPause
  BY <1>0, <1>6, <1>d, SyncedType DEF changeToReparationInPause, IInv, DocOK, Closing
<1>7. CASE changeStatusTofinsh
  <2>1. /\ LegClosedAndSynced("IRREPARABLE") \in [Cycles -> StatRow]
        /\ Synced("IRREPARABLE") \in [Cycles -> StatRow]
        /\ Synced("WAITING_BL") \in [Cycles -> StatRow]
    BY <1>0, SyncedType
  <2>2. CASE ToPending2
    BY <2>2, ToPending2Inv
  <2>3. CASE \/ CloseIrreparable(di, LegClosedAndSynced("IRREPARABLE"))
             \/ CloseIrreparable(di, Synced("IRREPARABLE"))
    BY <2>1, <2>3, CloseIrreparableInv
  <2>4. CASE /\ \/ di' = Moved(di, "WAITING_BL") /\ UNCHANGED stat
                \/ AdvancedFrom(Moved(di, "WAITING_BL"), Synced("WAITING_BL"))
             /\ UNCHANGED <<log, draws>>
    <3>1. DocOK(di)' /\ (stat \in [Cycles -> StatRow])'
      <4>1. CASE di' = Moved(di, "WAITING_BL") /\ UNCHANGED stat
        BY <1>d, <4>1 DEF IInv, DocOK, Closing
      <4>2. CASE AdvancedFrom(Moved(di, "WAITING_BL"), Synced("WAITING_BL"))
        BY <1>d, <2>1, <4>2, AdvancedFromInv
      <4>3. QED
        BY <2>4, <4>1, <4>2
    <3>2. QED
      BY <2>4, <3>1 DEF IInv
  <2>5. QED
    BY <1>7, <2>2, <2>3, <2>4 DEF changeStatusTofinsh
<1>8. CASE annulerDi
  <2>1. DocOK([Moved(di, "ANNULER") EXCEPT !.annuleLe = TRUE])
    BY <1>d DEF DocOK, DiDoc, Closing
  <2>2. QED
    BY <1>8, <2>1 DEF annulerDi, IInv, DocOK, Closing
<1>9. CASE reactiverDi
  <2>1. di.beforeAnnul \in EarlyStatus
    BY <1>0, <1>9 DEF reactiverDi, DiDoc, EarlyStatus, ClosingStatus
  <2>2. DocOK(Moved(di, di.beforeAnnul))
    BY <1>0, <2>1, MovedDoc
  <2>3. DocOK([Moved(di, di.beforeAnnul) EXCEPT !.annuleLe = FALSE])
    BY <2>2 DEF DocOK, DiDoc, Closing
  <2>4. QED
    BY <1>9, <2>3 DEF reactiverDi, IInv, DocOK, Closing
<1>10. QED
  BY <1>1, <1>2, <1>3, <1>4, <1>5, <1>6, <1>7, <1>8, <1>9

\* The initial states satisfy the invariant.
LEMMA InitInv == Init => IInv
<1> SUFFICES ASSUME Init PROVE IInv
  OBVIOUS
<1>1. PICK s \in InitialStatuses, payant \in BOOLEAN, docs \in InitialDocs \cup {{}} :
        /\ di = [status |-> s, ignoreCount |-> 0,
                 can_be_repaired |-> TRUE, contain_pdr |-> FALSE,
                 composants |-> FALSE, diagnosticPayant |-> payant,
                 price |-> FALSE, driveDocs |-> docs,
                 stockDecrementedAt |-> FALSE, componentsConfirmedAt |-> FALSE,
                 needsDevisBeforeRepair |-> FALSE, pricingRequestSentAt |-> FALSE,
                 annuleLe |-> FALSE, beforeAnnul |-> "none", leftAnnul |-> FALSE]
        /\ stat = [c \in Cycles |->
                      IF c = 0 /\ s \in LegacyStatus
                      THEN [NoStat EXCEPT !.exists = TRUE, !.status = s]
                      ELSE NoStat]
        /\ log = [c \in Cycles |-> NoLog]
        /\ draws = 0
  BY DEF Init
<1>2. s \in EarlyStatus /\ s \in Status
  BY InitialStatusesAssumption
     DEF EarlyStatus, Status, LegacyStatus, LegacyApproval, LegacyClosing
<1>3. docs \in SUBSET Docs /\ 0 \in Cycles
  BY InitialDocsAssumption, MaxCycleAssumption DEF Cycles
<1>4. DocOK(di)
  <2>1. di \in DiDoc
    BY <1>1, <1>2, <1>3 DEF DiDoc
  <2>2. di.status = s
    BY <1>1
  <2>3. QED
    BY <1>2, <2>1, <2>2 DEF DocOK, Closing, EarlyStatus
<1>5. stat \in [Cycles -> StatRow]
  <2>1. NoStat \in StatRow /\ [NoStat EXCEPT !.exists = TRUE, !.status = s] \in StatRow
    BY <1>2 DEF NoStat, StatRow
  <2>2. QED
    BY <1>1, <2>1
<1>6. log \in [Cycles -> LogRow]
  BY <1>1 DEF NoLog, LogRow
<1>7. draws \in 0..MaxDraws
  BY <1>1 DEF MaxDraws
<1>8. QED
  BY <1>4, <1>5, <1>6, <1>7 DEF IInv

\* Every mutation preserves the invariant.
LEMMA StepInv == IInv /\ [Next]_vars => IInv'
<1> SUFFICES ASSUME IInv, [Next]_vars PROVE IInv'
  OBVIOUS
<1>1. CASE UNCHANGED vars
  BY <1>1 DEF vars, IInv, DocOK, Closing
<1>2. CASE Next
  BY <1>2, CycleActionsInv, DiagnosticActionsInv, PricingActionsInv,
     DocumentActionsInv, SendToRepairInv, RepairActionsInv DEF Next
<1>3. QED
  BY <1>1, <1>2

\* The documents keep the shape of their schemas, whatever the screens and the
\* number of cycles: no mutation writes a status outside the vocabulary, and
\* countIgnore does not pass its cap.
THEOREM TypeCorrect == Spec => []TypeOK
<1>1. IInv => TypeOK
  BY DEF IInv, TypeOK, DocOK
<1>2. QED
  BY <1>1, InitInv, StepInv, PTL DEF Spec

\* A FINISHED DI has its delivery note and its invoice on file, whatever calls
\* the clients issue in whatever order: it is a property of the handlers alone.
THEOREM FinishedIsDocumented == Spec => []FinishedHasDocuments
<1>1. IInv => FinishedHasDocuments
  BY DEF IInv, FinishedHasDocuments, DocOK, Closing
<1>2. QED
  BY <1>1, InitInv, StepInv, PTL DEF Spec

----------------------------------------------------------------------------
(* The retours.                                                            *)

\* A DI that has come back does not stand at its creation; if it stands at its repair,
\* the row of its cycle has the quotation.
Quoted(d, l) == d.ignoreCount > 0 =>
    /\ StandingOf(d) # "CREATED"
    /\ l[d.ignoreCount].exists /\ StandingOf(d) \in RepairStatus
          => "Devis" \in l[d.ignoreCount].docs /\ ~d.needsDevisBeforeRepair

\* The inductive invariant of the retours.
RetourIInv == IInv /\ Quoted(di, log)

\* What a step leaves of the rows of the cycles that are over.
PastKept == \A c \in Cycles : c < di.ignoreCount => stat'[c] = stat[c]

\* A DI that is moved stands where it is moved to.
LEMMA MovedStands ==
    ASSUME NEW d \in DiDoc, NEW t \in Status \ {"ANNULER"}
    PROVE  /\ StandingOf(Moved(d, t)) = t
           /\ Moved(d, t).ignoreCount = d.ignoreCount
           /\ Moved(d, t) \in DiDoc
  BY MovedType DEF StandingOf

\* It needs no quotation elsewhere than at its repair.
LEMMA ElsewhereQuoted ==
    ASSUME NEW d, NEW l, StandingOf(d) \notin RepairStatus \cup {"CREATED"}
    PROVE  Quoted(d, l)
  BY DEF Quoted

\* A step that leaves it where it stands, and its quotation on its row.
LEMMA StillQuoted ==
    ASSUME Quoted(di, log), NEW d, NEW l,
           d.ignoreCount = di.ignoreCount, StandingOf(d) = StandingOf(di),
           d.needsDevisBeforeRepair => di.needsDevisBeforeRepair,
           l[di.ignoreCount].exists => log[di.ignoreCount].exists,
           log[di.ignoreCount].docs \subseteq l[di.ignoreCount].docs
    PROVE  Quoted(d, l)
  BY DEF Quoted

\* The statuses that a move goes to outside the repair.
LEMMA Outside ==
    {"PENDING1", "DIAGNOSTIC", "INDIAGNOSTIC", "DIAGNOSTIC_Pause", "MagasinEstimation",
     "PENDING2", "PRICING_DIAG", "CONFIRMATION", "WAITING_DEVIS", "NEGOTIATION2",
     "ATTENTE_CONFIRMATION_COORDINATION", "MAGASIN_FINALISATION", "PENDING3",
     "WAITING_BL", "IRREPARABLE"} \cup RetourStatus
        \subseteq Status \ (RepairStatus \cup {"CREATED", "ANNULER"})
  BY DEF Status, DiagStatus, RepairStatus, MagasinConfirmation, RetourStatus

\* A move outside the repair, whatever the handler writes beside the status.
LEMMA OutsideQuoted ==
    ASSUME IInv, NEW t \in Status \ (RepairStatus \cup {"CREATED", "ANNULER"}),
           NEW d, NEW l, d.status = t
    PROVE  Quoted(d, l)
  BY ElsewhereQuoted DEF StandingOf

\* The gates are shut in a retour, and the cycle does not change in the first one.
LEMMA GatesOfRetour ==
    ASSUME NEW d, DocOK(d)
    PROVE  /\ GatesCrossed(d).ignoreCount = d.ignoreCount
           /\ d.ignoreCount > 0 => GatesCrossed(d) = d
<1>1. DocOK(GateHop(d)) /\ GateHop(d).ignoreCount = d.ignoreCount
  BY GateHopDoc
<1>2. GateHop(GateHop(d)).ignoreCount = d.ignoreCount
  BY <1>1, GateHopDoc
<1>3. d.ignoreCount > 0 => GateHop(d) = d
  BY DEF GateHop, GateExit
<1>4. QED
  BY <1>1, <1>2, <1>3 DEF GatesCrossed

\* A query of a retour finds the row of its cycle only.
LEMMA RowOfRetour ==
    ASSUME IInv, InRetour
    PROVE  /\ CurrentRow \subseteq {di.ignoreCount}
           /\ di.ignoreCount \in Cycles
  BY DEF CurrentRow, RowOf, InRetour, IInv, DocOK, DiDoc

\* What is written to the rows it finds leaves the past cycles alone.
LEMMA PastRows ==
    ASSUME IInv, NEW st \in [Cycles -> StatRow], NEW rows \in SUBSET {di.ignoreCount},
           NEW c \in Cycles, c < di.ignoreCount
    PROVE  /\ \A t \in Status : WithStatus(rows, t, st)[c] = st[c]
           /\ WithLeg(rows, TRUE, st)[c] = st[c]
           /\ WithLeg(rows, FALSE, st)[c] = st[c]
<1>1. c \notin rows
  BY DEF Cycles, IInv, DocOK, DiDoc
<1>2. QED
  BY <1>1 DEF WithStatus, WithLeg

\* The updates that a transition sends.
LEMMA PastSynced ==
    ASSUME IInv, NEW t \in Status,
           \/ stat' = stat
           \/ stat' = Synced(t)
           \/ stat' = LegClosedAndSynced(t)
           \/ stat' = WithLeg(CurrentRow, TRUE, Synced(t))
           \/ stat' = WithLeg(CurrentRow, FALSE, stat)
    PROVE  PastKept
<1> SUFFICES ASSUME NEW c \in Cycles, c < di.ignoreCount PROVE stat'[c] = stat[c]
  BY DEF PastKept
<1>1. InRetour
  BY DEF InRetour, IInv, DocOK, DiDoc, Cycles
<1>2. CurrentRow \in SUBSET {di.ignoreCount} /\ stat \in [Cycles -> StatRow]
  BY <1>1, RowOfRetour DEF IInv
<1>3. Synced(t) \in [Cycles -> StatRow] /\ WithLeg(CurrentRow, FALSE, stat) \in [Cycles -> StatRow]
  BY SyncedType
<1>4. Synced(t)[c] = stat[c] /\ WithLeg(CurrentRow, FALSE, stat)[c] = stat[c]
  BY <1>2, PastRows DEF Synced
<1>5. WithLeg(CurrentRow, TRUE, Synced(t))[c] = Synced(t)[c]
  BY <1>2, <1>3, PastRows
<1>6. LegClosedAndSynced(t)[c] = WithLeg(CurrentRow, FALSE, stat)[c]
  BY <1>2, <1>3, PastRows DEF LegClosedAndSynced
<1>7. QED
  BY <1>4, <1>5, <1>6

\* What the steps of a DI that may come back preserve.
RetourKept == Quoted(di', log') /\ PastKept

\* A mutation is issued within what the screens offer.
LEMMA Offered ==
    ASSUME RetourOffers(Screens), NEW m, Client(m)
    PROVE  /\ m \notin {"deleteDi", "tech_startReperation"}
           /\ \A statuses : OfferedWithin(Screens, m, statuses) => di.status \in statuses
  BY DEF RetourOffers, OfferedWithin, Client

\* A move outside the repair that sends an update to the current row.
LEMMA MovesOut ==
    ASSUME RetourIInv, NEW t \in Status \ (RepairStatus \cup {"CREATED", "ANNULER"}),
           di'.status = t,
           \/ stat' = stat
           \/ stat' = Synced(t)
           \/ stat' = LegClosedAndSynced(t)
           \/ stat' = WithLeg(CurrentRow, TRUE, Synced(t))
    PROVE  RetourKept
<1>1. PastKept
  BY PastSynced DEF RetourIInv
<1>2. QED
  BY <1>1, OutsideQuoted DEF RetourIInv, RetourKept

\* The same, when the status is the last field written.
LEMMA MovedOut ==
    ASSUME RetourIInv, NEW t \in Status \ (RepairStatus \cup {"CREATED", "ANNULER"}),
           \/ di' = Moved(di, t)
           \/ di' = [Moved(di, t) EXCEPT !.pricingRequestSentAt = TRUE]
           \/ di' = [Moved(di, t) EXCEPT !.pricingRequestSentAt = FALSE,
                                         !.componentsConfirmedAt = FALSE]
           \/ di' = [Moved(di, t) EXCEPT !.needsDevisBeforeRepair = @ \/ CurrentRow # {}]
           \/ StockCommitted(Moved(di, t))
           \/ StockCommitted([Moved(di, t) EXCEPT !.componentsConfirmedAt = TRUE]),
           \/ stat' = stat
           \/ stat' = Synced(t)
           \/ stat' = LegClosedAndSynced(t)
           \/ stat' = WithLeg(CurrentRow, TRUE, Synced(t))
    PROVE  RetourKept
<1>1. Moved(di, t) \in DiDoc /\ Moved(di, t).status = t
  BY MovedType DEF RetourIInv, IInv, DocOK
<1>2. di'.status = t
  BY <1>1 DEF StockCommitted, DiDoc
<1>3. QED
  BY <1>2, MovesOut

\* The first cycle asks for nothing.
LEMMA FirstCycleQuoted ==
    ASSUME NEW d, NEW l, d.ignoreCount = 0
    PROVE  Quoted(d, l)
  BY DEF Quoted

\* The assignments, the retours and the deletion.
LEMMA CycleRetour ==
    ASSUME RetourIInv, RetourOffers(Screens),
           \/ createStat \/ affectForRep \/ countIgnore \/ deleteDi
           \/ \E level \in RetourStatus : changeDiRetour(level)
    PROVE  RetourKept
<1>0. di \in DiDoc /\ Quoted(di, log) /\ stat \in [Cycles -> StatRow] /\ log \in [Cycles -> LogRow]
  BY DEF RetourIInv, IInv, DocOK
<1>1. CASE createStat
  <2>1. di' = di /\ di.status \notin RepairStatus \cup {"ANNULER"}
    BY <1>1, Offered DEF createStat, RetourOffers
  <2>2. Quoted(di', log')
    BY <1>0, <2>1 DEF Quoted, StandingOf
  <2>3. PastKept
    BY <1>0, <1>1 DEF createStat, PastKept, DiDoc, Cycles
  <2>4. QED
    BY <2>2, <2>3 DEF RetourKept
<1>2. CASE affectForRep
  <2>1. Quoted(di', log')
    BY <1>0, <1>2 DEF affectForRep
  <2>2. PastKept
    <3> SUFFICES ASSUME NEW c \in Cycles, c < di.ignoreCount PROVE stat'[c] = stat[c]
      BY DEF PastKept
    <3>1. CurrentRow \subseteq {di.ignoreCount}
      BY <1>0, RowOfRetour DEF RetourIInv, InRetour, DiDoc, Cycles
    <3>2. c \notin CurrentRow
      BY <1>0, <3>1 DEF DiDoc, Cycles
    <3>3. QED
      BY <1>2, <3>2 DEF affectForRep
  <2>3. QED
    BY <2>1, <2>2 DEF RetourKept
<1>3. CASE countIgnore
  <2>1. di'.status \in RetourStatus /\ stat' = stat
    BY <1>0, <1>3, Offered DEF countIgnore, RetourOffers, DiDoc
  <2>2. QED
    BY <2>1, Outside, MovesOut
<1>4. ~deleteDi
  BY Offered DEF deleteDi
<1>5. CASE \E level \in RetourStatus : changeDiRetour(level)
  <2>1. PICK level \in RetourStatus : changeDiRetour(level)
    BY <1>5
  <2>2. QED
    BY <2>1, Outside, MovedOut DEF changeDiRetour
<1>6. QED
  BY <1>1, <1>2, <1>3, <1>4, <1>5

\* The diagnostic, the estimation and the pricing.
LEMMA DiagnosticRetour ==
    ASSUME RetourIInv, RetourOffers(Screens),
           \/ changeStatusPending1 \/ manager_Pending1 \/ changeToPending1
           \/ sendDiBackToDiagnostic \/ coordinator_ToDiag
           \/ changeStatusInDiagnostic \/ changeToDiagnosticInPause \/ abandonDi
           \/ magasinTech_Pending2 \/ changeStatusPending2
           \/ changeStatusMagasinEstimation \/ changeStatusInMagasin
           \/ changeStatusPricing \/ sendDiToAdminsForPricing
           \/ changeStatusIrreparableFromPricing
           \/ changeStatusNegociate1 \/ changeStatusNegociate2
    PROVE  RetourKept
<1>0. di \in DiDoc /\ Quoted(di, log) /\ stat \in [Cycles -> StatRow]
  BY DEF RetourIInv, IInv, DocOK
<1>1. CASE changeStatusPending1
  <2>1. di.status = "CREATED"
    BY <1>1, Offered DEF changeStatusPending1, RetourOffers
  <2>2. di.ignoreCount = 0
    BY <1>0, <2>1 DEF Quoted, StandingOf, DiDoc, Cycles
  <2>3. PastKept
    BY <2>2 DEF PastKept, Cycles
  <2>4. Quoted(di', log')
    <3>1. di'.status = "PENDING1"
      BY <1>0, <1>1 DEF changeStatusPending1, Moved, DiDoc
    <3>2. QED
      BY <3>1, Outside, OutsideQuoted DEF RetourIInv
  <2>5. QED
    BY <2>3, <2>4 DEF RetourKept
<1>2. CASE \/ manager_Pending1 \/ changeToPending1 \/ sendDiBackToDiagnostic
           \/ coordinator_ToDiag \/ changeStatusInDiagnostic
           \/ changeToDiagnosticInPause \/ abandonDi
  <2>1. \E t \in {"PENDING1", "DIAGNOSTIC", "INDIAGNOSTIC", "DIAGNOSTIC_Pause"} :
           /\ di' = Moved(di, t)
           /\ \/ stat' = stat \/ stat' = Synced(t) \/ stat' = LegClosedAndSynced(t)
              \/ stat' = WithLeg(CurrentRow, TRUE, Synced(t))
    BY <1>2 DEF manager_Pending1, changeToPending1, sendDiBackToDiagnostic, coordinator_ToDiag,
                changeStatusInDiagnostic, changeToDiagnosticInPause, abandonDi, GuardedMove
  <2>2. QED
    BY <2>1, Outside, MovedOut
<1>3. CASE \/ magasinTech_Pending2 \/ changeStatusPending2 \/ changeStatusInMagasin
           \/ changeStatusIrreparableFromPricing
           \/ changeStatusNegociate1 \/ changeStatusNegociate2
  <2>1. \E t \in {"PENDING2", "CONFIRMATION", "IRREPARABLE", "WAITING_DEVIS", "NEGOTIATION2"} :
           /\ di' = Moved(di, t)
           /\ stat' = Synced(t) \/ stat' = LegClosedAndSynced(t)
    BY <1>3 DEF magasinTech_Pending2, changeStatusPending2, ToPending2, changeStatusInMagasin,
                changeStatusIrreparableFromPricing, CloseIrreparable, changeStatusNegociate1,
                changeStatusNegociate2, GuardedMove
  <2>2. QED
    BY <2>1, Outside, MovedOut
<1>4. CASE changeStatusPricing \/ sendDiToAdminsForPricing
  BY <1>4, Outside, MovedOut DEF changeStatusPricing, sendDiToAdminsForPricing, ToPricing
<1>5. CASE changeStatusMagasinEstimation
  <2>1. CASE ToPending3FromRetourDiag
    <3>1. CASE di.status \in {"INDIAGNOSTIC", "DIAGNOSTIC_Pause"}
      BY <2>1, <3>1, Outside, MovedOut DEF ToPending3FromRetourDiag
    <3>2. CASE di.status \notin {"INDIAGNOSTIC", "DIAGNOSTIC_Pause"}
      <4>1. di' = di /\ log' = log /\ stat' = WithLeg(CurrentRow, FALSE, stat)
        BY <2>1, <3>2 DEF ToPending3FromRetourDiag
      <4>2. PastKept
        BY <1>0, <4>1, PastSynced DEF RetourIInv, DiDoc
      <4>3. QED
        BY <1>0, <4>1, <4>2 DEF RetourKept
    <3>3. QED
      BY <3>1, <3>2
  <2>2. CASE ToPending2
    BY <2>2, Outside, MovedOut DEF ToPending2
  <2>3. CASE di' = Moved(di, "MagasinEstimation") /\ stat' = LegClosedAndSynced("MagasinEstimation")
    BY <2>3, Outside, MovedOut
  <2>4. QED
    BY <1>5, <2>1, <2>2, <2>3 DEF changeStatusMagasinEstimation
<1>6. QED
  BY <1>1, <1>2, <1>3, <1>4, <1>5

\* The forms and the uploads leave the DI where it stands.
LEMMA FormsRetour ==
    ASSUME RetourIInv,
           \/ tech_startDiagnostic \/ affectinitialPrice \/ setDiagnosticPayant
           \/ addDevisPDF \/ addBlPDF \/ addFacturePDF \/ addBCPDF \/ addPDFFile
    PROVE  RetourKept
<1>0. di \in DiDoc /\ Quoted(di, log) /\ stat \in [Cycles -> StatRow] /\ log \in [Cycles -> LogRow]
  BY DEF RetourIInv, IInv, DocOK
<1>1. CASE tech_startDiagnostic \/ affectinitialPrice \/ setDiagnosticPayant \/ addPDFFile
  <2>1. /\ di'.ignoreCount = di.ignoreCount /\ StandingOf(di') = StandingOf(di)
        /\ di'.needsDevisBeforeRepair = di.needsDevisBeforeRepair
    BY <1>0, <1>1 DEF tech_startDiagnostic, affectinitialPrice, setDiagnosticPayant, addPDFFile,
                      DiDoc, StandingOf
  <2>2. \A c \in Cycles : log'[c].exists = log[c].exists /\ log'[c].docs = log[c].docs
    <3>1. CASE log' = log
      BY <3>1
    <3>2. CASE \E pdr, parts, fixtronix \in BOOLEAN :
                  log' = [log EXCEPT ![di.ignoreCount] =
                             [@ EXCEPT !.contain_pdr = pdr, !.composants = parts,
                                       !.isErrorFromFixtronix = fixtronix]]
      <4>1. PICK pdr \in BOOLEAN, parts \in BOOLEAN, fixtronix \in BOOLEAN :
                  log' = [log EXCEPT ![di.ignoreCount] =
                             [log[di.ignoreCount] EXCEPT !.contain_pdr = pdr, !.composants = parts,
                                                         !.isErrorFromFixtronix = fixtronix]]
        BY <3>2
      <4>2. di.ignoreCount \in Cycles /\ log[di.ignoreCount] \in LogRow
        BY <1>0 DEF DiDoc
      <4>3. /\ log'[di.ignoreCount].exists = log[di.ignoreCount].exists
            /\ log'[di.ignoreCount].docs = log[di.ignoreCount].docs
        BY <1>0, <4>1, <4>2 DEF LogRow
      <4>4. \A c \in Cycles \ {di.ignoreCount} : log'[c] = log[c]
        BY <1>0, <4>1
      <4>5. QED
        BY <4>3, <4>4
    <3>3. QED
      BY <1>1, <3>1, <3>2
         DEF tech_startDiagnostic, affectinitialPrice, setDiagnosticPayant, addPDFFile
  <2>3. Quoted(di', log')
    BY <1>0, <2>1, <2>2, StillQuoted DEF DiDoc
  <2>4. stat' = stat
    BY <1>1 DEF tech_startDiagnostic, affectinitialPrice, setDiagnosticPayant, addPDFFile
  <2>5. QED
    BY <2>3, <2>4 DEF RetourKept, PastKept
<1>2. CASE addDevisPDF \/ addBlPDF \/ addFacturePDF \/ addBCPDF
  <2>1. PICK doc \in Docs : Upload(doc)
    BY <1>2 DEF addDevisPDF, addBlPDF, addFacturePDF, addBCPDF, Docs
  <2>2. DocOK(Filed(doc)) /\ Filed(doc).ignoreCount = di.ignoreCount
    <3>1. Filed(doc) \in DiDoc
      BY <1>0 DEF Filed, DiDoc
    <3>2. /\ Filed(doc).status = di.status /\ di.driveDocs \subseteq Filed(doc).driveDocs
          /\ Filed(doc).ignoreCount = di.ignoreCount
      BY <1>0 DEF Filed, DiDoc
    <3>3. QED
      BY <3>1, <3>2 DEF RetourIInv, IInv, DocOK, Closing
  <2>3. CASE InRetour
    <3>1. Filed(doc) = di /\ GatesCrossed(Filed(doc)) = di
      BY <2>2, <2>3, GatesOfRetour DEF Filed, InRetour
    <3>2. di' = di /\ stat' = stat
      BY <2>1, <3>1 DEF Upload, AdvancedFrom
    <3>3. Quoted(di', log')
      <4>1. /\ log'[di.ignoreCount].exists = log[di.ignoreCount].exists
            /\ log[di.ignoreCount].docs \subseteq log'[di.ignoreCount].docs
        BY <1>0, <2>1 DEF Upload, LogFiled, LogRow, DiDoc
      <4>2. QED
        BY <1>0, <3>2, <4>1, StillQuoted
    <3>4. QED
      BY <3>2, <3>3 DEF RetourKept, PastKept
  <2>4. CASE ~InRetour
    <3>1. di.ignoreCount = 0
      BY <1>0, <2>4 DEF InRetour, DiDoc, Cycles
    <3>2. di'.ignoreCount = 0
      BY <2>1, <2>2, <3>1, GatesOfRetour DEF Upload, AdvancedFrom
    <3>3. QED
      BY <3>1, <3>2, FirstCycleQuoted DEF RetourKept, PastKept, Cycles
  <2>5. QED
    BY <2>3, <2>4
<1>3. QED
  BY <1>1, <1>2

\* The store and the way to the repair of the first cycle.
LEMMA StoreRetour ==
    ASSUME RetourIInv,
           \/ sendComponentToConMagasinForConfirmation
           \/ componentConfirmedFromCoordinator \/ confirmDiComponents
           \/ changeStatusPending3 \/ managerAdminManager_Pending3
    PROVE  RetourKept
<1>0. di \in DiDoc /\ Quoted(di, log) /\ stat \in [Cycles -> StatRow] /\ log \in [Cycles -> LogRow]
  BY DEF RetourIInv, IInv, DocOK
<1>1. CASE sendComponentToConMagasinForConfirmation
  <2>1. \/ di' = Moved(di, "ATTENTE_CONFIRMATION_COORDINATION")
        \/ StockCommitted(Moved(di, "ATTENTE_CONFIRMATION_COORDINATION"))
    BY <1>1 DEF sendComponentToConMagasinForConfirmation
  <2>2. stat' = Synced("ATTENTE_CONFIRMATION_COORDINATION")
    BY <1>1 DEF sendComponentToConMagasinForConfirmation
  <2>3. QED
    BY <2>1, <2>2, Outside, MovedOut
<1>2. CASE changeStatusPending3 \/ managerAdminManager_Pending3
  <2>1. di' = Moved(di, "PENDING3") \/ StockCommitted(Moved(di, "PENDING3"))
    BY <1>2 DEF changeStatusPending3, managerAdminManager_Pending3
  <2>2. stat' = Synced("PENDING3")
    BY <1>2 DEF changeStatusPending3, managerAdminManager_Pending3
  <2>3. QED
    BY <2>1, <2>2, Outside, MovedOut
<1>3. CASE componentConfirmedFromCoordinator \/ confirmDiComponents
  <2>1. ConfirmComponents
    BY <1>3 DEF componentConfirmedFromCoordinator, confirmDiComponents
  <2>2. CASE InRetour
    <3>1. /\ di' = [di EXCEPT !.componentsConfirmedAt = TRUE] /\ stat' = stat
          /\ log' = [log EXCEPT ![di.ignoreCount].isConfirmed = @ \/ log[di.ignoreCount].exists]
      BY <2>1, <2>2 DEF ConfirmComponents
    <3>2. /\ di'.ignoreCount = di.ignoreCount /\ StandingOf(di') = StandingOf(di)
          /\ di'.needsDevisBeforeRepair = di.needsDevisBeforeRepair
      BY <1>0, <3>1 DEF DiDoc, StandingOf
    <3>3. /\ log'[di.ignoreCount].exists = log[di.ignoreCount].exists
          /\ log'[di.ignoreCount].docs = log[di.ignoreCount].docs
      BY <1>0, <3>1 DEF DiDoc, LogRow
    <3>4. Quoted(di', log')
      BY <1>0, <3>2, <3>3, StillQuoted
    <3>5. QED
      BY <3>1, <3>4 DEF RetourKept, PastKept
  <2>3. CASE ~InRetour
    <3>1. /\ StockCommitted([Moved(di, "MAGASIN_FINALISATION") EXCEPT
                                !.componentsConfirmedAt = TRUE])
          /\ stat' = Synced("MAGASIN_FINALISATION")
      BY <2>1, <2>3 DEF ConfirmComponents
    <3>2. QED
      BY <3>1, Outside, MovedOut
  <2>4. QED
    BY <2>2, <2>3
<1>4. QED
  BY <1>1, <1>2, <1>3

\* The coordinator sends a DI that has come back to its repair with its quotation.
LEMMA SendRetour ==
    ASSUME RetourIInv, coordinatorSendToRepairWithDevis
    PROVE  RetourKept
<1>0. /\ di \in DiDoc /\ Quoted(di, log) /\ stat \in [Cycles -> StatRow]
      /\ log \in [Cycles -> LogRow]
  BY DEF RetourIInv, IInv, DocOK
<1> DEFINE filed == GatesCrossed(Filed("Devis"))
           cleared == [filed EXCEPT !.needsDevisBeforeRepair = FALSE]
<1>1. di' \in {filed, cleared, Moved(cleared, "REPARATION")}
  BY DEF coordinatorSendToRepairWithDevis
<1>2. DocOK(Filed("Devis")) /\ Filed("Devis").ignoreCount = di.ignoreCount
  <2>1. Filed("Devis") \in DiDoc
    BY <1>0 DEF Filed, DiDoc, Docs
  <2>2. /\ Filed("Devis").status = di.status /\ di.driveDocs \subseteq Filed("Devis").driveDocs
        /\ Filed("Devis").ignoreCount = di.ignoreCount
    BY <1>0 DEF Filed, DiDoc
  <2>3. QED
    BY <2>1, <2>2 DEF RetourIInv, IInv, DocOK, Closing
<1>3. filed \in DiDoc /\ filed.ignoreCount = di.ignoreCount
  BY <1>2, CrossedDoc, GatesOfRetour
<1>4. CASE ~InRetour
  <2>1. di.ignoreCount = 0
    BY <1>0, <1>4 DEF InRetour, DiDoc, Cycles
  <2> HIDE DEF filed
  <2>2. cleared \in DiDoc /\ cleared.ignoreCount = 0
    BY <1>3, <2>1 DEF DiDoc
  <2>3. "REPARATION" \in Status
    BY DEF Status, RepairStatus
  <2> HIDE DEF cleared
  <2>4. Moved(cleared, "REPARATION").ignoreCount = 0
    BY <2>2, <2>3, MovedType
  <2>5. di'.ignoreCount = 0
    BY <1>1, <1>3, <2>1, <2>2, <2>4
  <2>6. QED
    BY <2>1, <2>5, FirstCycleQuoted DEF RetourKept, PastKept, Cycles
<1>5. CASE InRetour
  <2>1. Filed("Devis") = di /\ filed = di
    BY <1>2, <1>5, GatesOfRetour DEF Filed, InRetour
  <2>2. di' \in {cleared, Moved(cleared, "REPARATION")}
    BY <2>1 DEF coordinatorSendToRepairWithDevis
  <2>3. /\ cleared \in DiDoc /\ cleared.ignoreCount = di.ignoreCount
        /\ ~cleared.needsDevisBeforeRepair /\ StandingOf(cleared) = StandingOf(di)
    BY <1>0, <2>1 DEF DiDoc, StandingOf
  <2> HIDE DEF cleared
  <2>4. "REPARATION" \in Status \ {"ANNULER", "CREATED"}
    BY DEF Status, RepairStatus
  <2>5. /\ Moved(cleared, "REPARATION").ignoreCount = di.ignoreCount
        /\ StandingOf(Moved(cleared, "REPARATION")) = "REPARATION"
        /\ ~Moved(cleared, "REPARATION").needsDevisBeforeRepair
    <3>1. ~Moved(cleared, "REPARATION").needsDevisBeforeRepair
      BY <2>3 DEF Moved, DiDoc
    <3>2. QED
      BY <2>3, <2>4, <3>1, MovedStands
  <2>6. di'.ignoreCount = di.ignoreCount /\ ~di'.needsDevisBeforeRepair
        /\ StandingOf(di') \in {StandingOf(di), "REPARATION"}
    BY <2>2, <2>3, <2>5
  <2>7. log'[di.ignoreCount].exists => "Devis" \in log'[di.ignoreCount].docs
    BY <1>0, <1>5 DEF coordinatorSendToRepairWithDevis, LogFiled, LogRow, DiDoc
  <2>8. Quoted(di', log')
    BY <1>0, <2>6, <2>7 DEF Quoted
  <2>9. PastKept
    <3> SUFFICES ASSUME NEW c \in Cycles, c < di.ignoreCount PROVE stat'[c] = stat[c]
      BY DEF PastKept
    <3>1. c \notin CurrentRow
      BY <1>0, <1>5, RowOfRetour DEF RetourIInv, DiDoc, Cycles
    <3>2. QED
      BY <3>1 DEF coordinatorSendToRepairWithDevis
  <2>10. QED
    BY <2>8, <2>9 DEF RetourKept
<1>6. QED
  BY <1>4, <1>5

\* The repair and its end.
LEMMA RepairRetour ==
    ASSUME RetourIInv, RetourOffers(Screens),
           \/ changeStatusRepaire \/ changeStatusInRepair \/ tech_startReperation
           \/ changeToReparationInPause \/ changeStatusTofinsh
    PROVE  RetourKept
<1>0. /\ di \in DiDoc /\ Quoted(di, log) /\ stat \in [Cycles -> StatRow]
      /\ RepairStatus \subseteq Status \ {"ANNULER", "CREATED"}
  BY DEF RetourIInv, IInv, DocOK, RepairStatus, Status
<1>1. CASE changeStatusRepaire \/ changeStatusInRepair \/ changeToReparationInPause
  <2>1. PICK t \in RepairStatus : di' = Moved(di, t) /\ stat' = Synced(t)
    BY <1>1 DEF changeStatusRepaire, changeStatusInRepair, changeToReparationInPause,
                GuardedMove, RepairStatus
  <2>2. di.status \in RepairStatus /\ log' = log
    BY <1>1, Offered
       DEF RetourOffers, changeStatusRepaire, changeStatusInRepair, changeToReparationInPause,
           GuardedMove
  <2>3. /\ di'.ignoreCount = di.ignoreCount /\ StandingOf(di') = t
        /\ di'.needsDevisBeforeRepair = di.needsDevisBeforeRepair
    <3>1. Moved(di, t).needsDevisBeforeRepair = di.needsDevisBeforeRepair
      BY <1>0 DEF Moved, DiDoc
    <3>2. QED
      BY <1>0, <2>1, <3>1, MovedStands
  <2>4. StandingOf(di) \in RepairStatus
    BY <1>0, <2>2 DEF StandingOf
  <2>5. Quoted(di', log')
    BY <1>0, <2>2, <2>3, <2>4 DEF Quoted
  <2>6. PastKept
    BY <1>0, <2>1, PastSynced DEF RetourIInv
  <2>7. QED
    BY <2>5, <2>6 DEF RetourKept
<1>2. ~tech_startReperation
  BY Offered DEF tech_startReperation
<1>3. CASE changeStatusTofinsh
  <2>1. CASE ToPending2
    BY <2>1, Outside, MovedOut DEF ToPending2
  <2>2. CASE \/ CloseIrreparable(di, LegClosedAndSynced("IRREPARABLE"))
             \/ CloseIrreparable(di, Synced("IRREPARABLE"))
    BY <2>2, Outside, MovedOut DEF CloseIrreparable
  <2>3. CASE di' = Moved(di, "WAITING_BL") /\ stat' = stat
    BY <2>3, Outside, MovedOut
  <2>4. CASE AdvancedFrom(Moved(di, "WAITING_BL"), Synced("WAITING_BL"))
    <3>1. /\ DocOK(Moved(di, "WAITING_BL"))
          /\ Moved(di, "WAITING_BL").ignoreCount = di.ignoreCount
      BY <1>0, Targets, MovedDoc
    <3>2. CASE InRetour
      <4>1. GatesCrossed(Moved(di, "WAITING_BL")) = Moved(di, "WAITING_BL")
        BY <3>1, <3>2, GatesOfRetour DEF InRetour
      <4>2. di' = Moved(di, "WAITING_BL") /\ stat' = Synced("WAITING_BL")
        BY <2>4, <4>1 DEF AdvancedFrom
      <4>3. QED
        BY <4>2, Outside, MovedOut
    <3>3. CASE ~InRetour
      <4>1. di.ignoreCount = 0
        BY <1>0, <3>3 DEF InRetour, DiDoc, Cycles
      <4>2. di'.ignoreCount = 0
        BY <2>4, <3>1, <4>1, GatesOfRetour DEF AdvancedFrom
      <4>3. QED
        BY <4>1, <4>2, FirstCycleQuoted DEF RetourKept, PastKept, Cycles
    <3>4. QED
      BY <3>2, <3>3
  <2>5. QED
    BY <1>3, <2>1, <2>2, <2>3, <2>4 DEF changeStatusTofinsh
<1>4. QED
  BY <1>1, <1>2, <1>3

\* The cancellation and the reactivation: the DI stands where it stood.
LEMMA CancelRetour ==
    ASSUME RetourIInv, annulerDi \/ reactiverDi
    PROVE  RetourKept
<1>0. di \in DiDoc /\ Quoted(di, log)
  BY DEF RetourIInv, IInv, DocOK
<1>1. stat' = stat /\ log' = log
  BY DEF annulerDi, reactiverDi
<1>2. di'.ignoreCount = di.ignoreCount
      /\ di'.needsDevisBeforeRepair = di.needsDevisBeforeRepair
  BY <1>0 DEF annulerDi, reactiverDi, Moved, DiDoc
<1>3. Quoted(di', log')
  <2>1. CASE annulerDi
    <3>1. StandingOf(di') = di.status /\ StandingOf(di) = di.status
      BY <1>0, <2>1 DEF annulerDi, Moved, DiDoc, StandingOf
    <3>2. QED
      BY <1>0, <1>1, <1>2, <3>1, StillQuoted
  <2>2. CASE reactiverDi
    <3>1. /\ di.status = "ANNULER" /\ StandingOf(di) = di.beforeAnnul
          /\ di'.status = di.beforeAnnul
      BY <1>0, <2>2 DEF reactiverDi, Moved, DiDoc, StandingOf
    <3>2. CASE di.beforeAnnul # "ANNULER"
      <4>1. StandingOf(di') = StandingOf(di)
        BY <3>1, <3>2 DEF StandingOf
      <4>2. QED
        BY <1>0, <1>1, <1>2, <4>1, StillQuoted
    <3>3. CASE di.beforeAnnul = "ANNULER"
      <4>1. StandingOf(di') = "ANNULER"
        BY <1>0, <2>2, <3>1, <3>3 DEF reactiverDi, Moved, DiDoc, StandingOf
      <4>2. QED
        BY <4>1, ElsewhereQuoted DEF RepairStatus
    <3>4. QED
      BY <3>2, <3>3
  <2>3. QED
    BY <2>1, <2>2
<1>4. QED
  BY <1>1, <1>3 DEF RetourKept, PastKept

\* Every mutation preserves the invariant and the rows of the past cycles.
LEMMA StepRetour ==
    ASSUME RetourOffers(Screens)
    PROVE  RetourIInv /\ [Next]_vars => RetourKept
<1> SUFFICES ASSUME RetourIInv, [Next]_vars PROVE RetourKept
  OBVIOUS
<1>1. CASE UNCHANGED vars
  BY <1>1 DEF vars, RetourIInv, Quoted, StandingOf, RetourKept, PastKept
<1>2. CASE Next
  BY <1>2, CycleRetour, DiagnosticRetour, FormsRetour, StoreRetour, SendRetour, RepairRetour,
     CancelRetour DEF Next
<1>3. QED
  BY <1>1, <1>2

\* A new DI has no retour.
LEMMA InitRetour == Init => Quoted(di, log)
  BY DEF Init, Quoted

\* The retours start from the invariant and keep it.
LEMMA RetourInvariant ==
    ASSUME RetourOffers(Screens)
    PROVE  Spec => []RetourIInv
<1>1. Init => RetourIInv
  BY InitInv, InitRetour DEF RetourIInv
<1>2. RetourIInv /\ [Next]_vars => RetourIInv'
  BY StepInv, StepRetour DEF RetourIInv, RetourKept
<1>3. QED
  BY <1>1, <1>2, PTL DEF Spec

\* A DI that has come back and been assigned is in its repair only with the quotation of
\* its cycle on file, which it no longer waits for, in every cycle and through every
\* cancellation.
THEOREM RetourIsQuoted ==
    ASSUME RetourOffers(Screens)
    PROVE  Spec => []DevisBeforeRetourRepair
<1>1. RetourIInv => DevisBeforeRetourRepair
  BY DEF RetourIInv, Quoted, DevisBeforeRetourRepair, InRetour, StandingOf, RepairStatus
<1>2. QED
  BY <1>1, RetourInvariant, PTL

\* No call of a retour changes the Stat row of a cycle that is over: those that look the
\* row up by its cycle miss it, and those that take the oldest are not issued then.
THEOREM PastCyclesStay ==
    ASSUME RetourOffers(Screens)
    PROVE  Spec => ArchivedCycleFrozen
<1>1. RetourIInv /\ [Next]_vars => [\A c \in Cycles : c < di.ignoreCount => stat'[c] = stat[c]]_vars
  BY StepRetour DEF RetourKept, PastKept
<1>2. QED
  BY <1>1, RetourInvariant, PTL DEF Spec, ArchivedCycleFrozen

\* A retour that is not finished is not finished by the step.
StillOpen == InRetour /\ di.status # "FINISHED" => di'.status # "FINISHED"

\* A handler that moves the DI, whatever else it writes, finishes none.
LEMMA MoveOpen ==
    ASSUME IInv, NEW t \in EarlyStatus,
           \/ di' = Moved(di, t)
           \/ di' = [Moved(di, t) EXCEPT !.pricingRequestSentAt = TRUE]
           \/ di' = [Moved(di, t) EXCEPT !.pricingRequestSentAt = FALSE,
                                         !.componentsConfirmedAt = FALSE]
           \/ di' = [Moved(di, t) EXCEPT !.needsDevisBeforeRepair = @ \/ CurrentRow # {}]
           \/ di' = [Moved(di, t) EXCEPT !.annuleLe = TRUE]
           \/ di' = [Moved(di, t) EXCEPT !.annuleLe = FALSE]
           \/ StockCommitted(Moved(di, t))
           \/ StockCommitted([Moved(di, t) EXCEPT !.componentsConfirmedAt = TRUE])
    PROVE  StillOpen
<1>1. Moved(di, t) \in DiDoc /\ Moved(di, t).status = t
  BY MovedType DEF IInv, DocOK, EarlyStatus
<1>2. di'.status = t
  BY <1>1 DEF StockCommitted, DiDoc
<1>3. QED
  BY <1>2 DEF StillOpen, EarlyStatus

\* The calls that write no status.
LEMMA FormOpen ==
    ASSUME IInv,
           \/ createStat \/ affectForRep \/ countIgnore \/ deleteDi \/ tech_startDiagnostic
           \/ affectinitialPrice \/ setDiagnosticPayant \/ addPDFFile
    PROVE  StillOpen
<1>1. di \in DiDoc
  BY DEF IInv, DocOK
<1>2. di'.status = di.status
  BY <1>1 DEF createStat, affectForRep, countIgnore, deleteDi, tech_startDiagnostic,
              affectinitialPrice, setDiagnosticPayant, addPDFFile, DiDoc
<1>3. QED
  BY <1>2 DEF StillOpen

\* The uploads and the end of the repair try the gates, which are shut: the papers of the
\* first cycle are still on the DI.
LEMMA GateOpen ==
    ASSUME IInv,
           \/ addDevisPDF \/ addBlPDF \/ addFacturePDF \/ addBCPDF
           \/ coordinatorSendToRepairWithDevis
           \/ AdvancedFrom(Moved(di, "WAITING_BL"), Synced("WAITING_BL"))
    PROVE  StillOpen
<1> SUFFICES ASSUME InRetour, di.status # "FINISHED" PROVE di'.status # "FINISHED"
  BY DEF StillOpen
<1>1. /\ DocOK(di) /\ di \in DiDoc /\ di.ignoreCount > 0
      /\ \A doc \in Docs : Filed(doc) = di
      /\ {"WAITING_BL", "REPARATION"} \subseteq EarlyStatus
  BY Targets DEF IInv, DocOK, InRetour, Filed
<1>2. GatesCrossed(di) = di
  BY <1>1, GatesOfRetour
<1>3. CASE \E doc \in Docs : Upload(doc)
  BY <1>1, <1>2, <1>3 DEF Upload, AdvancedFrom
<1>4. CASE coordinatorSendToRepairWithDevis
  <2> DEFINE cleared == [di EXCEPT !.needsDevisBeforeRepair = FALSE]
  <2>1. cleared \in DiDoc /\ cleared.status = di.status
    BY <1>1 DEF DiDoc
  <2>2. Moved(cleared, "REPARATION").status = "REPARATION"
    BY <1>1, <2>1, MovedDoc
  <2>3. di' \in {di, cleared, Moved(cleared, "REPARATION")}
    BY <1>1, <1>2, <1>4 DEF coordinatorSendToRepairWithDevis, Docs
  <2>4. QED
    BY <2>1, <2>2, <2>3
<1>5. CASE AdvancedFrom(Moved(di, "WAITING_BL"), Synced("WAITING_BL"))
  <2> DEFINE waiting == Moved(di, "WAITING_BL")
  <2>1. DocOK(waiting) /\ waiting.ignoreCount > 0 /\ waiting.status = "WAITING_BL"
    BY <1>1, MovedDoc
  <2>2. di' = waiting
    BY <1>5, <2>1, GatesOfRetour DEF AdvancedFrom
  <2>3. QED
    BY <2>1, <2>2
<1>6. QED
  BY <1>3, <1>4, <1>5 DEF addDevisPDF, addBlPDF, addFacturePDF, addBCPDF, Docs

\* The other calls move the DI, or give it back as it was.
LEMMA FlowOpen ==
    ASSUME IInv,
           \/ \E level \in RetourStatus : changeDiRetour(level)
           \/ changeStatusPending1 \/ manager_Pending1 \/ changeToPending1
           \/ sendDiBackToDiagnostic \/ coordinator_ToDiag
           \/ changeStatusInDiagnostic \/ changeToDiagnosticInPause \/ abandonDi
           \/ magasinTech_Pending2 \/ changeStatusPending2
           \/ changeStatusMagasinEstimation \/ changeStatusInMagasin
           \/ changeStatusPricing \/ sendDiToAdminsForPricing
           \/ changeStatusIrreparableFromPricing
           \/ changeStatusNegociate1 \/ changeStatusNegociate2
    PROVE  StillOpen
<1>1. CASE \E level \in RetourStatus : changeDiRetour(level)
  BY <1>1, Targets, MoveOpen DEF changeDiRetour
<1>2. CASE \/ changeStatusPending1 \/ manager_Pending1 \/ changeToPending1
           \/ sendDiBackToDiagnostic \/ coordinator_ToDiag
           \/ changeStatusInDiagnostic \/ changeToDiagnosticInPause \/ abandonDi
  <2>1. \E t \in {"PENDING1", "DIAGNOSTIC", "INDIAGNOSTIC", "DIAGNOSTIC_Pause"} : di' = Moved(di, t)
    BY <1>2 DEF changeStatusPending1, manager_Pending1, changeToPending1, sendDiBackToDiagnostic,
                coordinator_ToDiag, changeStatusInDiagnostic, changeToDiagnosticInPause, abandonDi,
                GuardedMove
  <2>2. QED
    BY <2>1, Targets, MoveOpen
<1>3. CASE \/ magasinTech_Pending2 \/ changeStatusPending2 \/ changeStatusInMagasin
           \/ changeStatusIrreparableFromPricing
           \/ changeStatusNegociate1 \/ changeStatusNegociate2
  <2>1. \E t \in {"PENDING2", "CONFIRMATION", "IRREPARABLE", "WAITING_DEVIS", "NEGOTIATION2"} :
           di' = Moved(di, t)
    BY <1>3 DEF magasinTech_Pending2, changeStatusPending2, ToPending2, changeStatusInMagasin,
                changeStatusIrreparableFromPricing, CloseIrreparable, changeStatusNegociate1,
                changeStatusNegociate2, GuardedMove
  <2>2. QED
    BY <2>1, Targets, MoveOpen
<1>4. CASE changeStatusPricing \/ sendDiToAdminsForPricing
  BY <1>4, Targets, MoveOpen DEF changeStatusPricing, sendDiToAdminsForPricing, ToPricing
<1>5. CASE changeStatusMagasinEstimation
  <2>1. \/ di' = [Moved(di, "PENDING3") EXCEPT !.needsDevisBeforeRepair = @ \/ CurrentRow # {}]
        \/ di' = di
        \/ \E t \in {"PENDING2", "MagasinEstimation"} : di' = Moved(di, t)
    BY <1>5 DEF changeStatusMagasinEstimation, ToPending3FromRetourDiag, ToPending2
  <2>2. CASE di' = di
    BY <2>2 DEF StillOpen
  <2>3. QED
    BY <2>1, <2>2, Targets, MoveOpen
<1>6. QED
  BY <1>1, <1>2, <1>3, <1>4, <1>5

\* The store, the repair, the end of it, and the cancellation.
LEMMA RepairOpen ==
    ASSUME IInv,
           \/ sendComponentToConMagasinForConfirmation
           \/ componentConfirmedFromCoordinator \/ confirmDiComponents
           \/ changeStatusPending3 \/ managerAdminManager_Pending3
           \/ changeStatusRepaire \/ changeStatusInRepair \/ tech_startReperation
           \/ changeToReparationInPause \/ changeStatusTofinsh
           \/ annulerDi \/ reactiverDi
    PROVE  StillOpen
<1>0. di \in DiDoc
  BY DEF IInv, DocOK
<1>1. CASE sendComponentToConMagasinForConfirmation
  BY <1>1 DEF sendComponentToConMagasinForConfirmation, StillOpen
<1>2. CASE componentConfirmedFromCoordinator \/ confirmDiComponents
  <2>1. di'.status = di.status \/ ~InRetour
    BY <1>0, <1>2 DEF componentConfirmedFromCoordinator, confirmDiComponents, ConfirmComponents, DiDoc
  <2>2. QED
    BY <2>1 DEF StillOpen
<1>3. CASE changeStatusPending3 \/ managerAdminManager_Pending3
  BY <1>3, Targets, MoveOpen DEF changeStatusPending3, managerAdminManager_Pending3
<1>4. CASE \/ changeStatusRepaire \/ changeStatusInRepair \/ tech_startReperation
           \/ changeToReparationInPause
  <2>1. \E t \in {"REPARATION", "INREPARATION", "REPARATION_Pause"} : di' = Moved(di, t)
    BY <1>4 DEF changeStatusRepaire, changeStatusInRepair, tech_startReperation,
                changeToReparationInPause, GuardedMove
  <2>2. QED
    BY <2>1, Targets, MoveOpen
<1>5. CASE changeStatusTofinsh
  <2>1. \/ \E t \in {"PENDING2", "IRREPARABLE", "WAITING_BL"} : di' = Moved(di, t)
        \/ AdvancedFrom(Moved(di, "WAITING_BL"), Synced("WAITING_BL"))
    BY <1>5 DEF changeStatusTofinsh, ToPending2, CloseIrreparable
  <2>2. QED
    BY <2>1, Targets, MoveOpen, GateOpen
<1>6. CASE annulerDi
  BY <1>6, Targets, MoveOpen DEF annulerDi
<1>7. CASE reactiverDi
  <2>1. di.beforeAnnul \in EarlyStatus
    BY <1>0, <1>7 DEF reactiverDi, DiDoc, EarlyStatus, ClosingStatus
  <2>2. QED
    BY <1>7, <2>1, MoveOpen DEF reactiverDi
<1>8. QED
  BY <1>1, <1>2, <1>3, <1>4, <1>5, <1>6, <1>7

\* A retour is not finished by the papers of an earlier cycle: for any screens, direct
\* calls included, no call in a retour leads to FINISHED.
THEOREM RetoursStayOpen == Spec => RetourStaysOpen
<1>1. ASSUME IInv, [Next]_vars PROVE StillOpen
  <2>1. CASE UNCHANGED vars
    BY <2>1 DEF vars, StillOpen
  <2>2. CASE Next
    BY <1>1, <2>2, FormOpen, GateOpen, FlowOpen, RepairOpen DEF Next
  <2>3. QED
    BY <1>1, <2>1, <2>2
<1>2. IInv /\ [Next]_vars => [InRetour /\ di'.status = "FINISHED" => di.status = "FINISHED"]_vars
  BY <1>1 DEF StillOpen
<1>3. QED
  BY <1>2, InitInv, StepInv, PTL DEF Spec, RetourStaysOpen

============================================================================
