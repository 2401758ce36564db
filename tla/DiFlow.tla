------------------------------- MODULE DiFlow -------------------------------
(***************************************************************************)
(* The life of one intervention request (DI): its document in the dis      *)
(* collection, the Stat row and the LogsDi row of each retour cycle, and   *)
(* the GraphQL mutations of DiResolver and StatResolver that change them   *)
(* (src/src/di/di.service.ts, src/src/stat/stat.service.ts).               *)
(*                                                                         *)
(* A mutation is one atomic action here: the module is about what a        *)
(* sequence of calls does to the DI, including a call that throws half-way *)
(* because the Stat row its last write needs does not exist.               *)
(* The resolver offers nearly every mutation in any status, so what guards *)
(* a call is what its handler checks and nothing else.                     *)
(***************************************************************************)
EXTENDS Naturals, DiTransitionGuard

CONSTANTS
    MaxCycle,           \* countIgnore caps ignoreCount at 3; a run may cap it lower
    Screens,            \* Screens[m]: the statuses in which clients issue mutation m
    InitialStatuses,    \* the statuses of the DI the run starts from
    InitialDocs         \* the sets of documents a legacy DI may start with

ASSUME MaxCycleAssumption == MaxCycle \in 0..3
ASSUME InitialStatusesAssumption ==
    InitialStatuses \subseteq {"CREATED", "PENDING1"} \cup LegacyStatus

Docs == {"Devis", "BC", "BL", "Facture"}
ASSUME InitialDocsAssumption == InitialDocs \subseteq SUBSET Docs

Cycles == 0..MaxCycle
MaxDraws == 2   \* the second draw-down is already one too many

VARIABLES
    di,     \* the DI document
    stat,   \* stat[c]: the Stat row of cycle c
    log,    \* log[c]: the LogsDi row of cycle c (cycles above 0 only)
    draws   \* history: draw-downs of the stock by the DI document, up to MaxDraws

vars == <<di, stat, log, draws>>

\* A Date or a number of the document is a Boolean here: set or null.
DiDoc ==
    [status: Status, ignoreCount: Cycles,
     can_be_repaired: BOOLEAN, contain_pdr: BOOLEAN, composants: BOOLEAN,
     diagnosticPayant: BOOLEAN, price: BOOLEAN, driveDocs: SUBSET Docs,
     stockDecrementedAt: BOOLEAN, componentsConfirmedAt: BOOLEAN,
     needsDevisBeforeRepair: BOOLEAN, pricingRequestSentAt: BOOLEAN,
     annuleLe: BOOLEAN,
     beforeAnnul: Status \cup {"none"}, leftAnnul: BOOLEAN]

StatRow ==
    [exists: BOOLEAN, status: Status \cup {"unset"},
     diagRunStartedAt: BOOLEAN, id_tech_rep: BOOLEAN]

LogRow ==
    [exists: BOOLEAN, contain_pdr: BOOLEAN, composants: BOOLEAN,
     isErrorFromFixtronix: BOOLEAN, isConfirmed: BOOLEAN, docs: SUBSET Docs]

\* The type invariant: the documents have the shape their schemas give them.
TypeOK ==
    /\ di \in DiDoc
    /\ stat \in [Cycles -> StatRow]
    /\ log \in [Cycles -> LogRow]
    /\ draws \in 0..MaxDraws

NoStat == [exists |-> FALSE, status |-> "unset",
           diagRunStartedAt |-> FALSE, id_tech_rep |-> FALSE]

NoLog == [exists |-> FALSE, contain_pdr |-> FALSE, composants |-> FALSE,
          isErrorFromFixtronix |-> FALSE, isConfirmed |-> FALSE, docs |-> {}]

\* createDi leaves the DI at CREATED, or at PENDING1 when the box is ticked.
\* A legacy DI was written before a migration: it carries a Stat row in step
\* with it and whatever documents had been uploaded.
Init ==
    \E s \in InitialStatuses, payant \in BOOLEAN, docs \in InitialDocs \cup {{}} :
        /\ s \in {"CREATED", "PENDING1"} => docs = {}
        /\ di = [status |-> s, ignoreCount |-> 0,
                 can_be_repaired |-> TRUE, contain_pdr |-> FALSE,
                 composants |-> FALSE, diagnosticPayant |-> payant,
                 price |-> FALSE, driveDocs |-> docs,
                 stockDecrementedAt |-> FALSE, componentsConfirmedAt |-> FALSE,
                 needsDevisBeforeRepair |-> FALSE, pricingRequestSentAt |-> FALSE,
                 annuleLe |-> FALSE, beforeAnnul |-> "none", leftAnnul |-> FALSE]
        /\ stat = [c \in Cycles |->
                      IF c = 0 /\ s \in LegacyStatus
                      THEN [NoStat EXCEPT !.exists = TRUE, !.status = s]
                      ELSE NoStat]
        /\ log = [c \in Cycles |-> NoLog]
        /\ draws = 0

----------------------------------------------------------------------------
(* The DI document.                                                        *)

\* A client issues m.  The server does not check the screen: where the handler
\* has no guard, Screens is all that restrains the call, and a screen shown on
\* stale data, or a direct API call, is a run with a larger Screens[m].
Client(m) == m \in DOMAIN Screens /\ di.status \in Screens[m]

\* A $set of the status.  The query hook of the schema appends the status to
\* statusHistory at each such write; of the history the module keeps what
\* reactiverDi reads from it: the entry before the last ANNULER, and whether
\* an ANNULER was ever followed by something else.
Moved(d, target) ==
    [d EXCEPT !.status = target,
              !.beforeAnnul = IF target = "ANNULER" THEN d.status ELSE @,
              !.leftAnnul = @ \/ (d.status = "ANNULER" /\ target # "ANNULER")]

\* assertTransitionAllowed on the current document.
Allowed(target) == MayEnter(di.status, target)

\* diHasComponents: the toggle and the list must agree.
HasComponents(d) == d.contain_pdr /\ d.composants

InRetour == di.ignoreCount > 0

----------------------------------------------------------------------------
(* The Stat rows.                                                          *)

\* The row a query on (DI, cycle) returns; a query without ignoreCount, which
\* is what cycle 0 sends, returns the oldest row of the DI.
RowOf(cycle) ==
    {c \in Cycles : /\ stat[c].exists
                    /\ cycle > 0 => c = cycle
                    /\ cycle = 0 => \A b \in Cycles : stat[b].exists => c <= b}

\* Mutant of CurrentRow: the cycle is left out of the query.
CurrentRowAnyCycle == RowOf(0)

CurrentRow == RowOf(di.ignoreCount)
OldestRow == RowOf(0)

\* updateStatus: it throws when there is no row, after the DI was written.
WithStatus(rows, target, st) ==
    [c \in Cycles |-> IF c \in rows THEN [st[c] EXCEPT !.status = target] ELSE st[c]]

\* openDiagLeg stamps the anchor of the diagnostic time, closeDiagLeg adds the
\* elapsed time to diag_time and clears it.
WithLeg(rows, open, st) ==
    [c \in Cycles |->
        IF c \in rows THEN [st[c] EXCEPT !.diagRunStartedAt = open] ELSE st[c]]

\* The update of the current row that a transition sends.
Synced(target) == WithStatus(CurrentRow, target, stat)
LegClosedAndSynced(target) ==
    WithStatus(CurrentRow, target, WithLeg(CurrentRow, FALSE, stat))

\* assertTechOwnsDi looks at the newest row, whatever its cycle.
NewestRow ==
    {c \in Cycles : /\ stat[c].exists
                    /\ \A b \in Cycles : stat[b].exists => b <= c}
OwnedDiag == NewestRow # {}
OwnedRep == \E c \in NewestRow : stat[c].id_tech_rep

----------------------------------------------------------------------------
(* The shapes that the handlers share.                                     *)

\* assert the arc, write the status, update the current Stat row.
GuardedMove(target) ==
    /\ Allowed(target)
    /\ di' = Moved(di, target)
    /\ stat' = Synced(target)
    /\ UNCHANGED <<log, draws>>

\* Mutants of StockCommitted: the marker is not claimed, or not tested.
StockUnmarked(d) ==
    /\ di' = d
    /\ draws' = IF d.composants /\ draws < MaxDraws THEN draws + 1 ELSE draws
StockClaimedBlindly(d) ==
    /\ di' = [d EXCEPT !.stockDecrementedAt = TRUE]
    /\ draws' = IF d.composants /\ draws < MaxDraws THEN draws + 1 ELSE draws

\* commitStockDecrementOnce on the document d: the marker is claimed, and the
\* winner draws down the parts listed on the DI document.
StockCommitted(d) ==
    /\ di' = [d EXCEPT !.stockDecrementedAt = TRUE]
    /\ draws' = IF ~d.stockDecrementedAt /\ d.composants /\ draws < MaxDraws
                THEN draws + 1 ELSE draws

\* closeIrreparable.
CloseIrreparable(d, st) ==
    /\ MayEnter(d.status, "IRREPARABLE")
    /\ di' = Moved(d, "IRREPARABLE")
    /\ stat' = st
    /\ UNCHANGED <<log, draws>>

\* Mutants of ToPending2: the leg is left open; it is, and the Stat row behind.
ToPending2LegOpen == GuardedMove("PENDING2")
ToPending2DiOnly ==
    /\ Allowed("PENDING2")
    /\ di' = Moved(di, "PENDING2")
    /\ UNCHANGED <<stat, log, draws>>

\* magasinTech_Pending2: the open diagnostic leg is closed first.
ToPending2 ==
    /\ Allowed("PENDING2")
    /\ di' = Moved(di, "PENDING2")
    /\ stat' = LegClosedAndSynced("PENDING2")
    /\ UNCHANGED <<log, draws>>

\* magasinTech_Pending3: strictFrom, so that only a diagnostic under way may
\* take the shortcut; the marker is a later write, skipped when the Stat row is
\* missing because the transition throws.  The leg is closed even when refused.
ToPending3FromRetourDiag ==
    /\ IF di.status \in {"INDIAGNOSTIC", "DIAGNOSTIC_Pause"}
       THEN /\ di' = [Moved(di, "PENDING3") EXCEPT
                         !.needsDevisBeforeRepair = @ \/ CurrentRow # {}]
            /\ stat' = LegClosedAndSynced("PENDING3")
       ELSE /\ di' = di
            /\ stat' = WithLeg(CurrentRow, FALSE, stat)
    /\ UNCHANGED <<log, draws>>

\* exitWaitingBcOnBc: where an uploaded purchase order sends the DI.
AfterBc(d) ==
    IF ~d.can_be_repaired THEN "IRREPARABLE"
    ELSE IF HasComponents(d) THEN "CONFIRMATION" ELSE "PENDING3"

\* Mutant of GateHop: the delivery note alone ends the closing.
GateHopBlOnly(d) ==
    IF d.status \in ClosingStatus /\ "BL" \in d.driveDocs THEN Moved(d, "FINISHED") ELSE d

\* Where the documents of the DI send it from its gate, itself when it waits for one.
GateExit(d) ==
    CASE d.status \in LegacyClosing /\ {"BL", "Facture"} \subseteq d.driveDocs ->
           Moved(d, "FINISHED")
      [] d.status = "WAITING_BL" /\ "BL" \in d.driveDocs -> Moved(d, "WAITING_FACTURE")
      [] d.status = "WAITING_FACTURE" /\ "Facture" \in d.driveDocs -> Moved(d, "FINISHED")
      [] d.status = "WAITING_DEVIS" /\ "Devis" \in d.driveDocs -> Moved(d, "WAITING_BC")
      [] d.status = "WAITING_BC" /\ "BC" \in d.driveDocs -> Moved(d, AfterBc(d))
      [] OTHER -> d

\* Mutant of GateHop: the cycle is not looked at.
GateHopAnyCycle(d) == GateExit(d)

\* One hop of maybeAdvanceDocGate on the document d: no gate opens for a retour.
GateHop(d) == IF d.ignoreCount > 0 THEN d ELSE GateExit(d)

\* Mutant of GatesCrossed: no second hop when the next document is there.
GatesCrossedOnce(d) == GateHop(d)

\* maybeAdvanceDocGate: a hop, and a second one when the next document is
\* already there.  A missing Stat row makes the first hop throw: the cascade
\* stops after its DI write.
GatesCrossed(d) == IF CurrentRow = {} THEN GateHop(d) ELSE GateHop(GateHop(d))

AdvancedFrom(d, st) ==
    LET after == GatesCrossed(d) IN
    /\ di' = after
    /\ stat' = IF after.status = d.status THEN st
               ELSE WithStatus(CurrentRow, after.status, st)

----------------------------------------------------------------------------
(* Assignment and retour cycles.                                           *)

\* The coordinator assigns a diagnostic technician.  In a retour the LogsDi row
\* of the cycle is created first; a row that exists is reused.
createStat ==
    /\ Client("createStat")
    /\ di.status \notin RetourStatus
    /\ log' = IF InRetour THEN [log EXCEPT ![di.ignoreCount].exists = TRUE] ELSE log
    /\ stat' = IF CurrentRow = {}
               THEN [stat EXCEPT ![di.ignoreCount] = [NoStat EXCEPT !.exists = TRUE]]
               ELSE stat
    /\ UNCHANGED <<di, draws>>

\* The coordinator assigns the repair technician.
affectForRep ==
    /\ Client("affectForRep")
    /\ stat' = [c \in Cycles |->
                  IF c \in CurrentRow THEN [stat[c] EXCEPT !.id_tech_rep = TRUE]
                  ELSE stat[c]]
    /\ UNCHANGED <<di, log, draws>>

\* A soft delete: it removes the Stat rows, and no handler looks at isDeleted.
deleteDi ==
    /\ Client("deleteDi")
    /\ stat' = [c \in Cycles |-> NoStat]
    /\ UNCHANGED <<di, log, draws>>

\* Mutant of countIgnore: no cap on the number of cycles.
countIgnoreUncapped ==
    /\ Client("countIgnore")
    /\ di' = [di EXCEPT !.ignoreCount = @ + 1]
    /\ UNCHANGED <<stat, log, draws>>

\* countIgnore starts the next retour cycle; it does not touch the Stat rows.
countIgnore ==
    /\ Client("countIgnore")
    /\ di.ignoreCount < MaxCycle
    /\ di' = [di EXCEPT !.ignoreCount = @ + 1]
    /\ UNCHANGED <<stat, log, draws>>

\* changeDiRetour1, 2 and 3: no guard, retourCycleReset clears the flags of the
\* cycle but not stockDecrementedAt, and the Stat row is left alone.
changeDiRetour(level) ==
    /\ Client("changeStatusRetour")
    /\ di' = [Moved(di, level) EXCEPT !.pricingRequestSentAt = FALSE,
                                      !.componentsConfirmedAt = FALSE]
    /\ UNCHANGED <<stat, log, draws>>

----------------------------------------------------------------------------
(* Entering the diagnostic.                                                *)

\* Guarded, but updateStatus is called without ignoreCount: whatever the cycle,
\* the oldest Stat row takes the status.
changeStatusPending1 ==
    /\ Client("changeStatusPending1")
    /\ Allowed("PENDING1")
    /\ di' = Moved(di, "PENDING1")
    /\ stat' = WithStatus(OldestRow, "PENDING1", stat)
    /\ UNCHANGED <<log, draws>>

\* MANAGER_TO_PENDING1 does not update the Stat row.
manager_Pending1 ==
    /\ Client("manager_Pending1")
    /\ Allowed("PENDING1")
    /\ di' = Moved(di, "PENDING1")
    /\ UNCHANGED <<stat, log, draws>>

\* No guard, no Stat update.
changeToPending1 ==
    /\ Client("changeToPending1")
    /\ di' = Moved(di, "PENDING1")
    /\ UNCHANGED <<stat, log, draws>>

sendDiBackToDiagnostic ==
    /\ Client("sendDiBackToDiagnostic")
    /\ ~di.can_be_repaired
    /\ GuardedMove("PENDING1")

coordinator_ToDiag ==
    /\ Client("coordinator_ToDiag")
    /\ GuardedMove("DIAGNOSTIC")

\* The leg opens on a genuine start or resume; a call that finds the DI
\* already INDIAGNOSTIC leaves the anchor alone.
changeStatusInDiagnostic ==
    /\ Client("changeStatusInDiagnostic")
    /\ OwnedDiag
    /\ Allowed("INDIAGNOSTIC")
    /\ di' = Moved(di, "INDIAGNOSTIC")
    /\ stat' = IF di.status = "INDIAGNOSTIC" THEN Synced("INDIAGNOSTIC")
               ELSE WithLeg(CurrentRow, TRUE, Synced("INDIAGNOSTIC"))
    /\ UNCHANGED <<log, draws>>

\* The pause is not guarded by the status.
changeToDiagnosticInPause ==
    /\ Client("changeToDiagnosticInPause")
    /\ OwnedDiag
    /\ di' = Moved(di, "DIAGNOSTIC_Pause")
    /\ stat' = LegClosedAndSynced("DIAGNOSTIC_Pause")
    /\ UNCHANGED <<log, draws>>

\* The diagnostic form: the verdict and the parts list, saved on the DI in the
\* first cycle and on the LogsDi row in a retour (the call throws without one).
\* Saving the list on the DI re-arms the stock marker.
tech_startDiagnostic ==
    /\ Client("tech_startDiagnostic")
    /\ OwnedDiag
    /\ \E repairable, pdr, parts, fixtronix \in BOOLEAN :
          \/ /\ ~InRetour
             /\ di' = [di EXCEPT !.can_be_repaired = repairable,
                                 !.contain_pdr = pdr, !.composants = parts,
                                 !.stockDecrementedAt = FALSE]
             /\ UNCHANGED log
          \/ /\ InRetour
             /\ log[di.ignoreCount].exists
             /\ log' = [log EXCEPT ![di.ignoreCount] =
                          [@ EXCEPT !.contain_pdr = pdr, !.composants = parts,
                                    !.isErrorFromFixtronix = fixtronix]]
             /\ UNCHANGED di
    /\ UNCHANGED <<stat, draws>>

\* The technician gives the DI back to the coordinator.
abandonDi ==
    /\ Client("abandonDi")
    /\ di.status \in DiagStatus
    /\ di' = Moved(di, "PENDING1")
    /\ stat' = LegClosedAndSynced("PENDING1")
    /\ UNCHANGED <<log, draws>>

----------------------------------------------------------------------------
(* Leaving the diagnostic, estimation and pricing.                         *)

magasinTech_Pending2 ==
    /\ Client("magasinTech_Pending2")
    /\ ToPending2

changeStatusPending2 ==
    /\ Client("changeStatusPending2")
    /\ ToPending2

\* The exit of the diagnostic.  A retour without parts that is Fixtronix's own
\* error skips the store and the pricing; the rest is routed on the parts of
\* the DI document, in a retour too.
changeStatusMagasinEstimation ==
    LET row == log[di.ignoreCount]
        shortcut == /\ InRetour
                    /\ ~row.contain_pdr
                    /\ ~row.composants
                    /\ row.isErrorFromFixtronix
    IN /\ Client("changeStatusMagasinEstimation")
       /\ \/ shortcut /\ ToPending3FromRetourDiag
          \/ ~shortcut /\ ~di.contain_pdr /\ ToPending2
          \/ /\ ~shortcut
             /\ HasComponents(di)
             /\ Allowed("MagasinEstimation")
             /\ di' = Moved(di, "MagasinEstimation")
             /\ stat' = LegClosedAndSynced("MagasinEstimation")
             /\ UNCHANGED <<log, draws>>

\* The store is entered without closing the diagnostic leg.
changeStatusInMagasin ==
    /\ Client("changeStatusInMagasin")
    /\ GuardedMove("CONFIRMATION")

ToPricing ==
    /\ Allowed("PRICING_DIAG")
    /\ di' = [Moved(di, "PRICING_DIAG") EXCEPT !.pricingRequestSentAt = TRUE]
    /\ stat' = Synced("PRICING_DIAG")
    /\ UNCHANGED <<log, draws>>

changeStatusPricing ==
    /\ Client("changeStatusPricing")
    /\ ToPricing

\* A request that was already sent is answered with the DI as it is.
sendDiToAdminsForPricing ==
    /\ Client("sendDiToAdminsForPricing")
    /\ ~di.pricingRequestSentAt
    /\ ToPricing

\* A diagnostic that is billed takes a positive price, one that is not takes
\* none.  In a retour the price goes to the LogsDi row.
affectinitialPrice ==
    /\ Client("affectinitialPrice")
    /\ di' = IF InRetour THEN di ELSE [di EXCEPT !.price = di.diagnosticPayant]
    /\ UNCHANGED <<stat, log, draws>>

setDiagnosticPayant ==
    /\ Client("setDiagnosticPayant")
    /\ ~di.price
    /\ \E payant \in BOOLEAN : di' = [di EXCEPT !.diagnosticPayant = payant]
    /\ UNCHANGED <<stat, log, draws>>

changeStatusIrreparableFromPricing ==
    /\ Client("changeStatusIrreparableFromPricing")
    /\ ~di.can_be_repaired
    /\ CloseIrreparable(di, Synced("IRREPARABLE"))

----------------------------------------------------------------------------
(* Approval documents, negotiation and the store.                          *)

\* No document gate is tried here, even if the quotation is already there.
changeStatusNegociate1 ==
    /\ Client("changeStatusNegociate1")
    /\ GuardedMove("WAITING_DEVIS")

changeStatusNegociate2 ==
    /\ Client("changeStatusNegociate2")
    /\ GuardedMove("NEGOTIATION2")

\* An upload files the document under the current cycle: on the DI, where it
\* may open gates, or on the LogsDi row, where it opens none.
Filed(doc) ==
    IF InRetour THEN di ELSE [di EXCEPT !.driveDocs = @ \cup {doc}]
\* Mutant of LogFiled: the document of a retour is not filed.
LogFiledNowhere(doc) == IF doc \in Docs THEN log ELSE log

LogFiled(doc) ==
    [c \in Cycles |->
        IF InRetour /\ c = di.ignoreCount /\ log[c].exists
        THEN [log[c] EXCEPT !.docs = @ \cup {doc}] ELSE log[c]]

Upload(doc) ==
    /\ AdvancedFrom(Filed(doc), stat)
    /\ log' = LogFiled(doc)
    /\ UNCHANGED draws

addDevisPDF == Client("addDevis") /\ Upload("Devis")
addBlPDF == Client("addBl") /\ Upload("BL")
addFacturePDF == Client("addFacture") /\ Upload("Facture")

\* The purchase order is refused until the DI document holds a quotation.
addBCPDF ==
    /\ Client("addBC")
    /\ "Devis" \in di.driveDocs
    /\ Upload("BC")

\* The older upload of both closing documents files them on the DI whatever the
\* cycle, and tries no gate.
addPDFFile ==
    /\ Client("addPDFFile")
    /\ di' = [di EXCEPT !.driveDocs = @ \cup {"BL", "Facture"}]
    /\ UNCHANGED <<stat, log, draws>>

\* In a retour only a flag of the LogsDi row changes.  A missing Stat row makes
\* the call throw after the DI write, so the stock is not committed.
sendComponentToConMagasinForConfirmation ==
    /\ Client("sendComponentToConMagasinForConfirmation")
    /\ ~InRetour
    /\ Allowed("ATTENTE_CONFIRMATION_COORDINATION")
    /\ LET sent == Moved(di, "ATTENTE_CONFIRMATION_COORDINATION") IN
       IF CurrentRow = {} THEN di' = sent /\ UNCHANGED draws ELSE StockCommitted(sent)
    /\ stat' = Synced("ATTENTE_CONFIRMATION_COORDINATION")
    /\ UNCHANGED log

\* A retour confirms its LogsDi row and stamps the DI; the first cycle moves the
\* DI, once: the flip is filtered on componentsConfirmedAt = null.
ConfirmComponents ==
    \/ /\ InRetour
       /\ log' = [log EXCEPT ![di.ignoreCount].isConfirmed = @ \/ log[di.ignoreCount].exists]
       /\ di' = [di EXCEPT !.componentsConfirmedAt = TRUE]
       /\ UNCHANGED <<stat, draws>>
    \/ /\ ~InRetour
       /\ Allowed("MAGASIN_FINALISATION")
       /\ ~di.componentsConfirmedAt
       /\ StockCommitted([Moved(di, "MAGASIN_FINALISATION") EXCEPT
                             !.componentsConfirmedAt = TRUE])
       /\ stat' = Synced("MAGASIN_FINALISATION")
       /\ UNCHANGED log

componentConfirmedFromCoordinator ==
    /\ Client("componentConfirmedFromCoordinator")
    /\ ConfirmComponents

\* confirmDiComponents returns the DI as it is once the stamp is set.
confirmDiComponents ==
    /\ Client("confirmDiComponents")
    /\ ~di.componentsConfirmedAt
    /\ ConfirmComponents

----------------------------------------------------------------------------
(* Repair and closing.                                                     *)

\* Mutant of changeStatusPending3: the components are not looked at.
changeStatusPending3AnyParts ==
    /\ Client("changeStatusPending3")
    /\ Allowed("PENDING3")
    /\ StockCommitted(Moved(di, "PENDING3"))
    /\ stat' = Synced("PENDING3")
    /\ UNCHANGED log

\* A DI with components may not come straight from the approval phase.  The
\* stock is committed before the Stat row is updated, whatever the cycle.
changeStatusPending3 ==
    /\ Client("changeStatusPending3")
    /\ ~(di.status \in ApprovalDocStatus \cup {"NEGOTIATION2"} /\ HasComponents(di))
    /\ Allowed("PENDING3")
    /\ StockCommitted(Moved(di, "PENDING3"))
    /\ stat' = Synced("PENDING3")
    /\ UNCHANGED log

\* The same arc without the components check; the stock is committed after the
\* Stat update, hence only when there is a Stat row.
managerAdminManager_Pending3 ==
    /\ Client("managerAdminManager_Pending3")
    /\ Allowed("PENDING3")
    /\ IF CurrentRow = {} THEN di' = Moved(di, "PENDING3") /\ UNCHANGED draws
       ELSE StockCommitted(Moved(di, "PENDING3"))
    /\ stat' = Synced("PENDING3")
    /\ UNCHANGED log

changeStatusRepaire ==
    /\ Client("changeStatusRepaire")
    /\ GuardedMove("REPARATION")

\* One gesture of the coordinator, four writes: file the quotation (its gate may
\* open, and throw when the Stat row is missing), assign the technician, clear
\* the marker, and move the DI if the guard lets it.
coordinatorSendToRepairWithDevis ==
    LET filed == GatesCrossed(Filed("Devis"))
        threw == CurrentRow = {} /\ filed.status # di.status
        cleared == [filed EXCEPT !.needsDevisBeforeRepair = FALSE]
        final == IF threw THEN filed
                 ELSE IF MayEnter(filed.status, "REPARATION")
                      THEN Moved(cleared, "REPARATION") ELSE cleared
    IN /\ Client("coordinatorSendToRepairWithDevis")
       /\ di' = final
       /\ stat' = [c \in Cycles |->
                     IF c \in CurrentRow
                     THEN [stat[c] EXCEPT !.id_tech_rep = TRUE,
                             !.status = IF final.status = di.status /\ final.status # "REPARATION"
                                        THEN @ ELSE final.status]
                     ELSE stat[c]]
       /\ log' = LogFiled("Devis")
       /\ UNCHANGED draws

changeStatusInRepair ==
    /\ Client("changeStatusInRepair")
    /\ OwnedRep
    /\ GuardedMove("INREPARATION")

\* No guard.  In a retour a second update, without ignoreCount, also writes the
\* oldest row, unless the first one threw.
tech_startReperation ==
    /\ Client("tech_startReperation")
    /\ OwnedRep
    /\ di' = Moved(di, "INREPARATION")
    /\ stat' = IF CurrentRow = {} THEN stat
               ELSE WithStatus(OldestRow, "INREPARATION", Synced("INREPARATION"))
    /\ UNCHANGED <<log, draws>>

\* The pause is not guarded by the status.
changeToReparationInPause ==
    /\ Client("changeToReparationInPause")
    /\ OwnedRep
    /\ di' = Moved(di, "REPARATION_Pause")
    /\ stat' = Synced("REPARATION_Pause")
    /\ UNCHANGED <<log, draws>>

\* Mutant of changeStatusTofinsh: every diagnostic is closed at once.
changeStatusTofinshUnbilled ==
    /\ Client("changeStatusTofinsh")
    /\ IF di.status \in RepairStatus
       THEN di' = Moved(di, "WAITING_BL") /\ stat' = Synced("WAITING_BL")
            /\ UNCHANGED <<log, draws>>
       ELSE CloseIrreparable(di, LegClosedAndSynced("IRREPARABLE"))

\* The end of a diagnostic that concluded "not repairable", of a repair, or of
\* an approval.  Only the repaired DI goes through the closing documents.
changeStatusTofinsh ==
    /\ Client("changeStatusTofinsh")
    /\ \/ /\ di.status \in DiagStatus
          /\ ~InRetour /\ di.diagnosticPayant
          /\ ToPending2
       \/ /\ di.status \in DiagStatus
          /\ InRetour \/ ~di.diagnosticPayant
          /\ CloseIrreparable(di, LegClosedAndSynced("IRREPARABLE"))
       \/ /\ di.status \in RepairStatus
          /\ LET waiting == Moved(di, "WAITING_BL") IN
             IF CurrentRow = {} THEN di' = waiting /\ UNCHANGED stat
             ELSE AdvancedFrom(waiting, Synced("WAITING_BL"))
          /\ UNCHANGED <<log, draws>>
       \/ /\ di.status \notin DiagStatus \cup RepairStatus
          /\ CloseIrreparable(di, Synced("IRREPARABLE"))

----------------------------------------------------------------------------
(* Cancelling and reactivating.                                            *)

\* Allowed in every status but ANNULER; nothing but the DI document is touched.
annulerDi ==
    /\ Client("annulerDi")
    /\ di.status # "ANNULER"
    /\ di' = [Moved(di, "ANNULER") EXCEPT !.annuleLe = TRUE]
    /\ UNCHANGED <<stat, log, draws>>

\* Mutants of reactiverDi: back to the pricing whatever the DI was cancelled from,
\* or with no look at the documents.
reactiverDiToPricing ==
    /\ Client("reactiverDi")
    /\ di.status = "ANNULER"
    /\ di.beforeAnnul \notin ClosingStatus \cup {"FINISHED", "none"}
    /\ ~di.leftAnnul
    /\ di' = [Moved(di, "PRICING_DIAG") EXCEPT !.annuleLe = FALSE]
    /\ UNCHANGED <<stat, log, draws>>
reactiverDiAnyOrigin ==
    /\ Client("reactiverDi")
    /\ di.status = "ANNULER"
    /\ di.beforeAnnul # "none"
    /\ ~di.leftAnnul
    /\ di' = [Moved(di, di.beforeAnnul) EXCEPT !.annuleLe = FALSE]
    /\ UNCHANGED <<stat, log, draws>>

\* Back to the status the history gives, unless the closing had begun or the DI
\* left ANNULER before.
reactiverDi ==
    /\ Client("reactiverDi")
    /\ di.status = "ANNULER"
    /\ di.beforeAnnul \notin ClosingStatus \cup {"FINISHED", "none"}
    /\ ~di.leftAnnul
    /\ di' = [Moved(di, di.beforeAnnul) EXCEPT !.annuleLe = FALSE]
    /\ UNCHANGED <<stat, log, draws>>

----------------------------------------------------------------------------

Next ==
    \/ createStat \/ affectForRep \/ countIgnore
    \/ \E level \in RetourStatus : changeDiRetour(level)
    \/ changeStatusPending1 \/ manager_Pending1 \/ changeToPending1
    \/ sendDiBackToDiagnostic \/ coordinator_ToDiag
    \/ changeStatusInDiagnostic \/ changeToDiagnosticInPause
    \/ tech_startDiagnostic \/ abandonDi
    \/ magasinTech_Pending2 \/ changeStatusPending2
    \/ changeStatusMagasinEstimation \/ changeStatusInMagasin
    \/ changeStatusPricing \/ sendDiToAdminsForPricing
    \/ affectinitialPrice \/ setDiagnosticPayant
    \/ changeStatusIrreparableFromPricing
    \/ changeStatusNegociate1 \/ changeStatusNegociate2
    \/ addDevisPDF \/ addBlPDF \/ addFacturePDF \/ addBCPDF \/ addPDFFile
    \/ sendComponentToConMagasinForConfirmation
    \/ componentConfirmedFromCoordinator \/ confirmDiComponents
    \/ changeStatusPending3 \/ managerAdminManager_Pending3
    \/ changeStatusRepaire \/ coordinatorSendToRepairWithDevis
    \/ changeStatusInRepair \/ tech_startReperation \/ changeToReparationInPause
    \/ changeStatusTofinsh
    \/ annulerDi \/ reactiverDi \/ deleteDi

Spec == Init /\ [][Next]_vars

----------------------------------------------------------------------------
(* What the handlers leave to the screens.                                 *)

OfferedWithin(screens, m, statuses) == m \in DOMAIN screens => screens[m] \subseteq statuses

\* The statuses before the approval, where a DI has no document yet.
EarlyPhase ==
    {"CREATED", "PENDING1", "MagasinEstimation", "PENDING2", "PRICING_DIAG"} \cup DiagStatus

\* The first cycle of a new DI: no retour, no deletion, none of the older entry points;
\* a mutation whose handler has no guard, or one wider than its screen, is issued from
\* the screen; and a DI that is cancelled is reactivated before anything else.
FirstCycleOffers(screens) ==
    /\ DOMAIN screens \cap {"countIgnore", "changeStatusRetour", "deleteDi", "addPDFFile",
            "managerAdminManager_Pending3", "coordinatorSendToRepairWithDevis"} = {}
    /\ \A m \in {"manager_Pending1", "changeToPending1"} :
          OfferedWithin(screens, m, {"CREATED"})
    /\ \A m \in {"tech_startDiagnostic", "changeToDiagnosticInPause"} :
          OfferedWithin(screens, m, DiagStatus)
    /\ \A m \in {"changeStatusPending2", "magasinTech_Pending2", "changeStatusMagasinEstimation"} :
          OfferedWithin(screens, m, Status \ {"CONFIRMATION"})
    /\ \A m \in {"changeStatusInMagasin", "changeStatusIrreparableFromPricing"} :
          OfferedWithin(screens, m, Status \ DiagStatus)
    /\ \A m \in {"addDevis", "addBl", "addFacture"} :
          OfferedWithin(screens, m, Status \ EarlyPhase)
    /\ \A m \in {"tech_startReperation", "changeToReparationInPause"} :
          OfferedWithin(screens, m, RepairStatus)
    /\ OfferedWithin(screens, "setDiagnosticPayant", Status \ {"IRREPARABLE"})
    /\ "annulerDi" \in DOMAIN screens =>
          \A m \in DOMAIN screens \ {"annulerDi", "reactiverDi"} :
              OfferedWithin(screens, m, Status \ {"ANNULER"})

FirstCycle == InitialStatuses \subseteq {"CREATED", "PENDING1"} /\ FirstCycleOffers(Screens)

\* The cycle of a DI that comes back is opened while it stands at a return; its Stat row
\* and its LogsDi row are made before its repair; it goes to the repair with its quotation
\* (coordinatorSendToRepairWithDevis), not by the calls of the first cycle; and the calls
\* that write the oldest Stat row are not issued once it has come back.
RetourOffers(screens) ==
    /\ DOMAIN screens \cap {"deleteDi", "tech_startReperation"} = {}
    /\ OfferedWithin(screens, "countIgnore", RetourStatus)
    /\ OfferedWithin(screens, "changeStatusPending1", {"CREATED"})
    /\ OfferedWithin(screens, "createStat", Status \ (RepairStatus \cup {"ANNULER"}))
    /\ \A m \in {"changeStatusRepaire", "changeStatusInRepair", "changeToReparationInPause"} :
          OfferedWithin(screens, m, RepairStatus)

----------------------------------------------------------------------------
(* What should be true of the DI.                                          *)

\* A DI is FINISHED only with its delivery note and its invoice on file: every
\* way into FINISHED is the end of maybeAdvanceDocGate, and a reactivation
\* cannot bring a finished DI back.
FinishedHasDocuments ==
    di.status = "FINISHED" => {"BL", "Facture"} \subseteq di.driveDocs

\* The technician's list reads Stat.status and the coordinator's reads
\* Di.status: once the row of the cycle has a status the two agree
\* (the T281/T282 divergence, di-transition.map.ts:47-51).
StatInStep == \A c \in CurrentRow : stat[c].status \in {"unset", di.status}

\* Billed diagnostic time runs only while the DI is being diagnosed: every exit
\* from INDIAGNOSTIC closes the leg of the current cycle (closeDiagLeg).
LegOnlyInDiagnostic ==
    \A c \in Cycles :
        stat[c].diagRunStartedAt => di.status = "INDIAGNOSTIC" /\ c = di.ignoreCount

\* Where no DI is cancelled, the Stat row of the cycle follows the DI, in its status and
\* in its diagnostic leg, whichever of the handlers of the first cycle made the move.
RowFollowsDi == StatInStep /\ LegOnlyInDiagnostic

\* A first-cycle DI with components reaches the repair with its parts taken out
\* of the stock, whichever way it came (commitStockDecrementOnce).
StockTakenBeforeRepair ==
    /\ ~InRetour
    /\ HasComponents(di)
    /\ di.status \in {"PENDING3"} \cup RepairStatus \cup ClosingStatus \cup {"FINISHED"}
    => di.stockDecrementedAt

\* The parts of a DI leave the stock once (di.service.ts:4905).
StockTakenOnce == draws <= 1

\* A DI with components enters PENDING3 from the store's confirmation phase and
\* never straight from the approval, or it re-enters after a retour or a
\* cancellation (changeStatusPending3, di.service.ts:4039-4045).
PartsConfirmedBeforeRepair ==
    [][ di'.status = "PENDING3" /\ di.status # "PENDING3" /\ HasComponents(di)
        => di.status \in MagasinConfirmation \cup {"CONFIRMATION_COMPOSANTS"}
                            \cup ReentrySource ]_vars

\* A first-cycle DI whose diagnostic is billed is not closed as irreparable
\* before it went through pricing (changeStatusTofinsh, di.status.ts:198-200).
BilledIfIrreparable ==
    di.status = "IRREPARABLE" /\ ~InRetour /\ di.diagnosticPayant
    => di.pricingRequestSentAt

\* A first-cycle DI does not go on without what is due: its parts drawn, once, and its
\* billed diagnostic priced, on every way to the repair or to the end.
FirstCycleDues == StockTakenBeforeRepair /\ StockTakenOnce /\ BilledIfIrreparable

\* The document a gate of the DI waits for.
AwaitedDoc(status) ==
    CASE status = "WAITING_DEVIS" -> {"Devis"}
      [] status = "WAITING_BC" -> {"BC"}
      [] status = "WAITING_BL" -> {"BL"}
      [] status = "WAITING_FACTURE" -> {"Facture"}
      [] OTHER -> {}

\* A DI does not wait at a gate for a document it already has: an upload or the
\* end of the repair crosses every gate that is open (maybeAdvanceDocGate).
NoOpenGate == AwaitedDoc(di.status) \cap di.driveDocs = {}

\* The Stat row of a cycle that is over is history: no call of a later cycle
\* changes it.
ArchivedCycleFrozen ==
    [][ \A c \in Cycles : c < di.ignoreCount => stat'[c] = stat[c] ]_vars

\* A retour is not finished by the papers of an earlier cycle, which are still on the DI
\* (maybeAdvanceDocGate, di.service.ts:2183-2191): no call in a retour, from whatever
\* status, leads to FINISHED, not even the reactivation of a DI cancelled at its end.
RetourStaysOpen ==
    [][ InRetour /\ di'.status = "FINISHED" => di.status = "FINISHED" ]_vars

\* A retour in repair, once it has been assigned, has the quotation of its own
\* cycle on file and no longer waits for it: coordinatorSendToRepairWithDevis
\* files it before it moves the DI.
DevisBeforeRetourRepair ==
    InRetour /\ log[di.ignoreCount].exists /\ di.status \in RepairStatus
    => "Devis" \in log[di.ignoreCount].docs /\ ~di.needsDevisBeforeRepair

\* Cancelling and reactivating a DI loses nothing: while it is not cancelled, its
\* current Stat row is in step, although neither call touches the Stat rows.
StatInStepUnlessCancelled == di.status # "ANNULER" => StatInStep

\* A DI cancelled after its delivery note or its invoice is not opened again
\* (the accounting guard of reactiverDi, di.service.ts:2725-2726).
ClosedStaysClosed ==
    [][ di.status = "ANNULER" /\ di.beforeAnnul \in ClosingStatus \cup {"FINISHED"}
        => di'.status = "ANNULER" ]_vars

\* The status a DI stands at: the one it will be reactivated to while it is cancelled.
StandingOf(d) == IF d.status = "ANNULER" THEN d.beforeAnnul ELSE d.status

\* The phase of a status; FINISHED and IRREPARABLE are their own.
PhaseOf(status) ==
    CASE status \in EarlyPhase -> "study"
      [] status \in ApprovalDocStatus \cup {"NEGOTIATION2"} -> "approval"
      [] status \in MagasinConfirmation -> "store"
      [] status \in {"PENDING3"} \cup RepairStatus -> "repair"
      [] status \in ClosingStatus -> "closing"
      [] OTHER -> status

\* The mutations of the first cycle implement the phases of DiPipelineSpec: whatever
\* the order of the calls, the DI goes from phase to phase with what is due.
Pipeline == INSTANCE DiPipelineSpec WITH
    phase <- PhaseOf(StandingOf(di)),
    cancelled <- di.status = "ANNULER",
    docs <- di.driveDocs,
    parts <- HasComponents(di),
    drawn <- di.stockDecrementedAt,
    billed <- di.diagnosticPayant,
    priced <- di.pricingRequestSentAt
ImplementsPipeline == Pipeline!Spec

============================================================================
