------------------------- MODULE DiFlowFirst_proofs -------------------------
(***************************************************************************)
(* Theorems about the first cycle of a DI, for every set of screens that   *)
(* stays within FirstCycleOffers.  They follow from one invariant: what a  *)
(* DI that stands at a status has had done to its stock, its pricing, its  *)
(* documents and its Stat row.  A DI that is cancelled stands where it     *)
(* will be reactivated, which is what carries the invariant across the     *)
(* cancellation.                                                           *)
(***************************************************************************)
EXTENDS DiFlow_proofs

\* The statuses of a first cycle.
FlowStatus == Status \ (RetourStatus \cup LegacyStatus \cup {"ANNULER"})

RepairPhase ==
    {"PENDING3", "WAITING_BL", "WAITING_FACTURE", "FINISHED"} \cup RepairStatus

\* Where the stock may have been taken.
TakenPhase == RepairPhase \cup {"ATTENTE_CONFIRMATION_COORDINATION", "MAGASIN_FINALISATION"}

\* What follows the pricing, up to the end of the approval.
PricedPhase == {"PRICING_DIAG", "WAITING_DEVIS", "WAITING_BC", "NEGOTIATION2"}

\* Where a DI may be without a Stat row.
Rowless == {"CREATED", "PENDING1", "DIAGNOSTIC", "IRREPARABLE"}

\* What a DI that stands at s has had done to its stock, its price and its documents.
Carried(s, d, n) ==
    /\ s \in FlowStatus
    /\ n \in {0, 1} /\ (n = 1 => d.stockDecrementedAt)
    /\ d.stockDecrementedAt => s \in TakenPhase
    /\ HasComponents(d) /\ s \in RepairPhase => d.stockDecrementedAt
    /\ s \in PricedPhase \/ (s = "IRREPARABLE" /\ d.diagnosticPayant)
          => d.pricingRequestSentAt
    /\ s \in EarlyPhase => d.driveDocs = {}

\* It does not wait for a document it has.
GateShut(s, d) == AwaitedDoc(s) \cap d.driveDocs = {}

\* Its only row is that of the first cycle, in step, with the leg open in the
\* diagnostic only.
RowsSound(st, s) ==
    /\ \A c \in Cycles : c # 0 => ~st[c].exists /\ ~st[c].diagRunStartedAt
    /\ s \notin Rowless => st[0].exists
    /\ st[0].status \in {"unset", s}
    /\ s = "CREATED" \/ ~st[0].exists => st[0].status = "unset"
    /\ st[0].diagRunStartedAt => s = "INDIAGNOSTIC"

Sound(s, d, n, st) == Carried(s, d, n) /\ GateShut(s, d) /\ RowsSound(st, s)

\* The inductive invariant of the first cycle.
FirstIInv ==
    /\ IInv
    /\ di.ignoreCount = 0
    /\ di.status = "ANNULER" => "annulerDi" \in DOMAIN Screens
    /\ Sound(StandingOf(di), di, draws, stat)

\* A DI under way that a step leaves sound.
OnCourse(d, n, st) == d.ignoreCount = 0 /\ Sound(d.status, d, n, st)

----------------------------------------------------------------------------
(* The moves.                                                              *)

\* The moves that ask for nothing more to be done.
PhaseArc(s, t) ==
    /\ t \in FlowStatus
    /\ s \in TakenPhase => t \in TakenPhase
    /\ t \in RepairPhase => s \in RepairPhase
    /\ t \in PricedPhase \cup {"IRREPARABLE"} => s \in PricedPhase \/ s = t
    /\ t \in EarlyPhase => s \in EarlyPhase

\* Nor for a gate to be tried.
Arc(s, t) == PhaseArc(s, t) /\ (AwaitedDoc(t) = {} \/ s = t \/ s \in EarlyPhase)

\* The fields that Carried and GateShut read.
SameDues(d, e) ==
    /\ e.contain_pdr = d.contain_pdr /\ e.composants = d.composants
    /\ e.stockDecrementedAt = d.stockDecrementedAt
    /\ e.diagnosticPayant = d.diagnosticPayant
    /\ e.pricingRequestSentAt = d.pricingRequestSentAt
    /\ e.driveDocs = d.driveDocs

\* A move touches none of them.
LEMMA MovedDues ==
    ASSUME NEW d \in DiDoc, NEW t \in Status
    PROVE  /\ SameDues(d, Moved(d, t))
           /\ Moved(d, t) \in DiDoc
           /\ Moved(d, t).can_be_repaired = d.can_be_repaired
           /\ Moved(d, t).ignoreCount = d.ignoreCount
           /\ Moved(d, t).status = t
  BY DEF DiDoc, Moved, SameDues

\* What a DI has had done is read from those fields only.
LEMMA DuesOnly ==
    ASSUME NEW d, NEW e, NEW s, NEW n, SameDues(d, e)
    PROVE  /\ Carried(s, d, n) => Carried(s, e, n)
           /\ GateShut(s, d) => GateShut(s, e)
           /\ HasComponents(e) = HasComponents(d)
  BY DEF SameDues, Carried, GateShut, HasComponents

\* A move along an arc asks for nothing more.
LEMMA ArcCarried ==
    ASSUME NEW d, NEW n, NEW s, NEW t, Carried(s, d, n), PhaseArc(s, t)
    PROVE  Carried(t, d, n)
<1>1. t = "IRREPARABLE" /\ d.diagnosticPayant => d.pricingRequestSentAt
  BY DEF Carried, PhaseArc
<1>2. QED
  BY <1>1 DEF Carried, PhaseArc

\* A move along an arc that skips no gate does not wait for a document it has.
LEMMA ArcShut ==
    ASSUME NEW d, NEW n, NEW s, NEW t, Carried(s, d, n), GateShut(s, d), Arc(s, t)
    PROVE  GateShut(t, d)
  BY DEF Carried, GateShut, Arc

\* Where a guarded move may come from, in a first cycle.
LEMMA Sources ==
    ASSUME NEW s \in FlowStatus
    PROVE  /\ MayEnter(s, "PENDING1") => s \in {"PENDING1", "CREATED", "PRICING_DIAG"}
           /\ MayEnter(s, "DIAGNOSTIC") => s \in {"DIAGNOSTIC", "PENDING1"}
           /\ MayEnter(s, "INDIAGNOSTIC") => s \in DiagStatus \cup {"PENDING1"}
           /\ MayEnter(s, "MagasinEstimation") =>
                 s \in {"MagasinEstimation", "INDIAGNOSTIC", "DIAGNOSTIC_Pause"}
           /\ MayEnter(s, "PENDING2") =>
                 s \in {"PENDING2", "CONFIRMATION", "MagasinEstimation", "INDIAGNOSTIC",
                        "DIAGNOSTIC_Pause"}
           /\ MayEnter(s, "CONFIRMATION") =>
                 s \in {"CONFIRMATION", "MagasinEstimation", "WAITING_BC", "NEGOTIATION2",
                        "INDIAGNOSTIC", "DIAGNOSTIC_Pause"}
           /\ MayEnter(s, "PRICING_DIAG") => s \in {"PRICING_DIAG", "PENDING2"}
           /\ MayEnter(s, "WAITING_DEVIS") => s \in {"WAITING_DEVIS", "PRICING_DIAG"}
           /\ MayEnter(s, "NEGOTIATION2") => s \in {"NEGOTIATION2", "WAITING_DEVIS", "WAITING_BC"}
           /\ MayEnter(s, "ATTENTE_CONFIRMATION_COORDINATION") =>
                 s \in {"ATTENTE_CONFIRMATION_COORDINATION", "CONFIRMATION"}
           /\ MayEnter(s, "MAGASIN_FINALISATION") =>
                 s \in {"MAGASIN_FINALISATION", "ATTENTE_CONFIRMATION_COORDINATION"}
           /\ MayEnter(s, "PENDING3") =>
                 s \in {"PENDING3", "WAITING_BC", "NEGOTIATION2"} \cup MagasinConfirmation
           /\ MayEnter(s, "REPARATION") => s \in {"REPARATION", "PENDING3"}
           /\ MayEnter(s, "INREPARATION") => s \in RepairStatus \cup {"PENDING3"}
           /\ MayEnter(s, "IRREPARABLE") =>
                 s \in {"IRREPARABLE", "PRICING_DIAG", "NEGOTIATION2", "WAITING_DEVIS",
                        "WAITING_BC"} \cup DiagStatus
  BY DEF MayEnter, AllowedSources, GuardedTarget, ReentrySource, FlowStatus, Status,
         RetourStatus, LegacyStatus, LegacyApproval, LegacyClosing, DiagStatus,
         RepairStatus, MagasinConfirmation, ApprovalDocStatus

\* The arcs of the first cycle, by target.
LEMMA Arcs ==
    ASSUME NEW s
    PROVE  /\ s \in {"PENDING1", "CREATED", "PRICING_DIAG"} \cup DiagStatus => Arc(s, "PENDING1")
           /\ s \in {"DIAGNOSTIC", "PENDING1"} => Arc(s, "DIAGNOSTIC")
           /\ s \in DiagStatus \cup {"PENDING1"} => Arc(s, "INDIAGNOSTIC")
           /\ s \in DiagStatus => Arc(s, "DIAGNOSTIC_Pause")
           /\ s \in {"MagasinEstimation"} \cup DiagStatus => Arc(s, "MagasinEstimation")
           /\ s \in {"PENDING2", "MagasinEstimation"} \cup DiagStatus => Arc(s, "PENDING2")
           /\ s \in {"CONFIRMATION", "MagasinEstimation", "WAITING_BC", "NEGOTIATION2"}
                 => Arc(s, "CONFIRMATION")
           /\ s \in {"WAITING_DEVIS", "PRICING_DIAG"} => Arc(s, "WAITING_DEVIS")
           /\ s \in {"NEGOTIATION2", "WAITING_DEVIS", "WAITING_BC"} => Arc(s, "NEGOTIATION2")
           /\ s \in RepairStatus \cup {"PENDING3"} =>
                 Arc(s, "REPARATION") /\ Arc(s, "INREPARATION") /\ Arc(s, "REPARATION_Pause")
           /\ s \in {"IRREPARABLE"} \cup PricedPhase => Arc(s, "IRREPARABLE")
           /\ s \in RepairStatus => PhaseArc(s, "WAITING_BL")
           /\ PhaseArc("WAITING_BL", "WAITING_FACTURE") /\ PhaseArc("WAITING_FACTURE", "FINISHED")
           /\ PhaseArc("WAITING_DEVIS", "WAITING_BC")
           /\ PhaseArc("WAITING_BC", "IRREPARABLE") /\ PhaseArc("WAITING_BC", "CONFIRMATION")
  BY DEF Arc, PhaseArc, AwaitedDoc, FlowStatus, Status, RetourStatus, LegacyStatus,
         LegacyApproval, LegacyClosing, DiagStatus, RepairStatus, MagasinConfirmation,
         RepairPhase, TakenPhase, PricedPhase, EarlyPhase

----------------------------------------------------------------------------
(* The Stat rows.                                                          *)

\* The one row of a first cycle, or none.
Row0(st) == IF st[0].exists THEN {0} ELSE {}

\* Every query of a first cycle returns it.
LEMMA OneRow ==
    ASSUME NEW s, RowsSound(stat, s), di.ignoreCount = 0
    PROVE  /\ 0 \in Cycles
           /\ CurrentRow = Row0(stat) /\ OldestRow = Row0(stat) /\ NewestRow = Row0(stat)
           /\ s \notin Rowless => CurrentRow # {}
           /\ OwnedDiag => stat[0].exists
<1>1. 0 \in Cycles /\ Cycles \subseteq Nat
  BY MaxCycleAssumption DEF Cycles
<1>2. \A c \in Cycles : stat[c].exists => c = 0
  BY DEF RowsSound
<1>r. \A c : c \in Row0(stat) <=> c \in Cycles /\ stat[c].exists
  BY <1>1, <1>2 DEF Row0
<1>3. OldestRow = Row0(stat)
  <2>1. \A c \in Cycles : stat[c].exists => \A b \in Cycles : stat[b].exists => c <= b
    BY <1>1, <1>2
  <2>2. RowOf(0) = {c \in Cycles : stat[c].exists
                                   /\ \A b \in Cycles : stat[b].exists => c <= b}
    BY DEF RowOf
  <2>3. \A c : c \in RowOf(0) <=> c \in Cycles /\ stat[c].exists
    BY <2>1, <2>2
  <2>4. QED
    BY <1>r, <2>3 DEF OldestRow, RowOf, Row0
<1>4. CurrentRow = Row0(stat)
  BY <1>3 DEF CurrentRow, OldestRow
<1>5. NewestRow = Row0(stat)
  <2>1. \A c \in Cycles : stat[c].exists => \A b \in Cycles : stat[b].exists => b <= c
    BY <1>1, <1>2
  <2>2. NewestRow = {c \in Cycles : stat[c].exists}
    BY <2>1 DEF NewestRow
  <2>3. QED
    BY <1>r, <2>2
<1>6. QED
  BY <1>1, <1>3, <1>4, <1>5 DEF RowsSound, Row0, OwnedDiag

\* The update that a transition sends keeps the row in step, when the leg was closed
\* or stays open.
LEMMA StatusWritten ==
    ASSUME NEW st \in [Cycles -> StatRow], NEW s, RowsSound(st, s),
           NEW t \in FlowStatus \ {"CREATED"},
           t \in Rowless \/ st[0].exists,
           st[0].diagRunStartedAt => t = "INDIAGNOSTIC"
    PROVE  /\ RowsSound(WithStatus(Row0(st), t, st), t)
           /\ WithStatus(Row0(st), t, st) \in [Cycles -> StatRow]
           /\ WithStatus(Row0(st), t, st)[0].exists = st[0].exists
           /\ WithStatus(Row0(st), t, st)[0].diagRunStartedAt = st[0].diagRunStartedAt
           /\ Row0(WithStatus(Row0(st), t, st)) = Row0(st)
<1> DEFINE ws == WithStatus(Row0(st), t, st)
<1>0. 0 \in Cycles /\ t \in Status
  BY MaxCycleAssumption DEF Cycles, FlowStatus
<1>1. /\ ws \in [Cycles -> StatRow]
      /\ \A c \in Cycles : /\ ws[c].exists = st[c].exists
                           /\ ws[c].diagRunStartedAt = st[c].diagRunStartedAt
                           /\ c \in Row0(st) => ws[c].status = t
                           /\ c \notin Row0(st) => ws[c] = st[c]
  BY <1>0 DEF WithStatus, StatRow
<1> HIDE DEF ws
<1>2. ws[0].status = IF st[0].exists THEN t ELSE "unset"
  <2>1. CASE st[0].exists
    BY <1>0, <1>1, <2>1 DEF Row0
  <2>2. CASE ~st[0].exists
    BY <1>0, <1>1, <2>2 DEF Row0, RowsSound
  <2>3. QED
    BY <2>1, <2>2
<1>3. RowsSound(ws, t)
  BY <1>0, <1>1, <1>2 DEF RowsSound
<1>4. QED
  BY <1>0, <1>1, <1>3 DEF ws, Row0

\* closeDiagLeg on it leaves it as sound, and closed.
LEMMA LegWritten ==
    ASSUME NEW st \in [Cycles -> StatRow], NEW s, RowsSound(st, s), st[0].exists \/ s \in Rowless
    PROVE  /\ RowsSound(WithLeg(Row0(st), FALSE, st), s)
           /\ WithLeg(Row0(st), FALSE, st) \in [Cycles -> StatRow]
           /\ WithLeg(Row0(st), FALSE, st)[0].exists = st[0].exists
           /\ ~WithLeg(Row0(st), FALSE, st)[0].diagRunStartedAt
           /\ Row0(WithLeg(Row0(st), FALSE, st)) = Row0(st)
<1> DEFINE ws == WithLeg(Row0(st), FALSE, st)
<1>0. 0 \in Cycles
  BY MaxCycleAssumption DEF Cycles
<1>1. /\ ws \in [Cycles -> StatRow]
      /\ \A c \in Cycles : /\ ws[c].exists = st[c].exists
                           /\ ws[c].status = st[c].status
                           /\ c \in Row0(st) => ~ws[c].diagRunStartedAt
                           /\ c \notin Row0(st) => ws[c] = st[c]
  BY DEF WithLeg, StatRow
<1> HIDE DEF ws
<1>2. ~ws[0].diagRunStartedAt
  <2>1. CASE st[0].exists
    BY <1>0, <1>1, <2>1 DEF Row0
  <2>2. CASE ~st[0].exists
    <3>1. "INDIAGNOSTIC" \notin Rowless
      BY DEF Rowless
    <3>2. QED
      BY <1>0, <1>1, <2>2, <3>1 DEF Row0, RowsSound
  <2>3. QED
    BY <2>1, <2>2
<1>3. \A c \in Cycles : c # 0 => ws[c] = st[c]
  BY <1>1 DEF Row0
<1>4. RowsSound(ws, s)
  BY <1>0, <1>1, <1>2, <1>3 DEF RowsSound
<1>5. QED
  BY <1>0, <1>1, <1>2, <1>4 DEF ws, Row0

----------------------------------------------------------------------------
(* The steps of a DI under way.                                            *)

Underway == di \in DiDoc /\ stat \in [Cycles -> StatRow] /\ OnCourse(di, draws, stat)

\* A mutation other than the two of the cancellation finds the DI under way, where
\* its screen offers it.
LEMMA ClientUnderway ==
    ASSUME FirstCycle, FirstIInv, NEW m, Client(m), m \notin {"annulerDi", "reactiverDi"}
    PROVE  /\ Underway /\ ~InRetour
           /\ di.status \in FlowStatus
           /\ \A statuses : OfferedWithin(Screens, m, statuses) => di.status \in statuses
<1>1. di.status # "ANNULER"
  BY DEF FirstIInv, FirstCycle, FirstCycleOffers, OfferedWithin, Client
<1>2. Underway /\ di.status \in FlowStatus
  BY <1>1 DEF FirstIInv, IInv, DocOK, StandingOf, Sound, Carried, Underway, OnCourse
<1>3. QED
  BY <1>2 DEF OfferedWithin, Client, InRetour, FirstIInv

\* A step that leaves the DI under way and sound preserves the invariant.
LEMMA Lands ==
    ASSUME IInv', OnCourse(di', draws', stat')
    PROVE  FirstIInv'
<1>1. di'.status # "ANNULER" /\ StandingOf(di') = di'.status
  BY DEF OnCourse, Sound, Carried, FlowStatus, StandingOf
<1>2. QED
  BY <1>1 DEF FirstIInv, OnCourse, Sound, Carried, GateShut, RowsSound, StandingOf, HasComponents

\* The rows after a move to t.
LEMMA RowsAfter ==
    ASSUME Underway, NEW t \in FlowStatus \ {"CREATED"},
           t \in Rowless \/ di.status \notin Rowless \/ stat[0].exists
    PROVE  /\ (di.status = "INDIAGNOSTIC" => t = "INDIAGNOSTIC")
                 => RowsSound(Synced(t), t)
           /\ RowsSound(LegClosedAndSynced(t), t)
<1>1. /\ stat \in [Cycles -> StatRow] /\ RowsSound(stat, di.status)
      /\ CurrentRow = Row0(stat)
      /\ stat[0].exists \/ di.status \in Rowless
      /\ t \in Rowless \/ stat[0].exists
  BY OneRow DEF Underway, OnCourse, Sound, RowsSound
<1>2. ASSUME di.status = "INDIAGNOSTIC" => t = "INDIAGNOSTIC"
      PROVE  RowsSound(Synced(t), t)
  <2>1. stat[0].diagRunStartedAt => t = "INDIAGNOSTIC"
    BY <1>1, <1>2 DEF RowsSound
  <2>2. QED
    BY <1>1, <2>1, StatusWritten DEF Synced
<1>3. RowsSound(LegClosedAndSynced(t), t)
  <2> DEFINE closed == WithLeg(Row0(stat), FALSE, stat)
  <2>1. /\ RowsSound(closed, di.status)
        /\ closed \in [Cycles -> StatRow]
        /\ closed[0].exists = stat[0].exists
        /\ ~closed[0].diagRunStartedAt
        /\ Row0(closed) = Row0(stat)
    BY <1>1, LegWritten
  <2> HIDE DEF closed
  <2>2. RowsSound(WithStatus(Row0(closed), t, closed), t)
    BY <1>1, <2>1, StatusWritten
  <2>3. QED
    BY <1>1, <2>1, <2>2 DEF LegClosedAndSynced, closed
<1>4. QED
  BY <1>2, <1>3

\* A move along an arc leaves the DI sound, once the rows have followed.
LEMMA MovedOnCourse ==
    ASSUME Underway, NEW t, Arc(di.status, t), NEW st, RowsSound(st, t)
    PROVE  OnCourse(Moved(di, t), draws, st)
<1>1. t \in Status
  BY DEF Arc, PhaseArc, FlowStatus
<1>2. Carried(t, di, draws) /\ GateShut(t, di)
  BY ArcCarried, ArcShut DEF Underway, OnCourse, Sound, Arc
<1>3. /\ SameDues(di, Moved(di, t))
      /\ Moved(di, t).ignoreCount = 0 /\ Moved(di, t).status = t
  BY <1>1, MovedDues DEF Underway, OnCourse
<1>4. QED
  BY <1>2, <1>3, DuesOnly DEF OnCourse, Sound

\* A guarded move along an arc, with the update of the row.
LEMMA GuardedOnCourse ==
    ASSUME Underway, NEW t \in FlowStatus \ {"CREATED"}, Arc(di.status, t),
           t \in Rowless \/ di.status \notin Rowless \/ stat[0].exists,
           \/ /\ stat' = Synced(t)
              /\ di.status = "INDIAGNOSTIC" => t = "INDIAGNOSTIC"
           \/ stat' = LegClosedAndSynced(t),
           di' = Moved(di, t), UNCHANGED <<log, draws>>
    PROVE  OnCourse(di', draws', stat')
<1>1. RowsSound(stat', t)
  BY RowsAfter
<1>2. QED
  BY <1>1, MovedOnCourse

----------------------------------------------------------------------------
(* The document gates.                                                     *)

\* One turn of maybeAdvanceDocGate carries on what was done; a gate that it leaves shut
\* it leaves alone.
LEMMA HopCarried ==
    ASSUME NEW d \in DiDoc, NEW n, d.ignoreCount = 0, Carried(d.status, d, n)
    PROVE  LET e == GateHop(d) IN
           /\ e \in DiDoc /\ e.ignoreCount = 0 /\ Carried(e.status, e, n)
           /\ e.status \in {"WAITING_DEVIS", "WAITING_BL"} => e = d /\ GateShut(e.status, e)
           /\ d.status \notin {"WAITING_DEVIS", "WAITING_BL"} => GateShut(e.status, e)
           /\ e.status = d.status \/ /\ d.status \notin Rowless
                                     /\ d.status # "INDIAGNOSTIC" /\ e.status # "CREATED"
<1> DEFINE gated == {"WAITING_DEVIS", "WAITING_BC", "WAITING_BL", "WAITING_FACTURE"}
<1>0. d.status \notin LegacyClosing /\ gated \cap (Rowless \cup {"INDIAGNOSTIC"}) = {}
  BY DEF Carried, FlowStatus, LegacyStatus, Rowless
<1>1. ASSUME NEW t, PhaseArc(d.status, t), d.status \in gated, GateHop(d) = Moved(d, t),
             AwaitedDoc(t) = {} \/ d.status = "WAITING_DEVIS" \/ d.status = "WAITING_BL",
             t \in {"WAITING_BC", "WAITING_FACTURE", "FINISHED", "IRREPARABLE", "CONFIRMATION"}
      PROVE  LET e == GateHop(d) IN
           /\ e \in DiDoc /\ e.ignoreCount = 0 /\ Carried(e.status, e, n)
           /\ e.status \notin {"WAITING_DEVIS", "WAITING_BL"}
           /\ d.status \notin {"WAITING_DEVIS", "WAITING_BL"} => GateShut(e.status, e)
           /\ d.status \notin Rowless
           /\ d.status # "INDIAGNOSTIC" /\ e.status # "CREATED"
  <2>1. t \in Status
    BY <1>1 DEF PhaseArc, FlowStatus
  <2>2. /\ SameDues(d, Moved(d, t)) /\ Moved(d, t) \in DiDoc
        /\ Moved(d, t).ignoreCount = 0 /\ Moved(d, t).status = t
    BY <2>1, MovedDues
  <2>3. Carried(t, d, n)
    BY <1>1, ArcCarried
  <2>4. Carried(t, Moved(d, t), n)
    BY <2>2, <2>3, DuesOnly
  <2>5. QED
    BY <1>0, <1>1, <2>2, <2>4 DEF GateShut
<1>2. CASE d.status = "WAITING_BL"
  <2>1. CASE "BL" \in d.driveDocs
    BY <1>0, <1>1, <1>2, <2>1, Arcs DEF GateHop, GateExit
  <2>2. CASE "BL" \notin d.driveDocs
    BY <1>0, <1>2, <2>2 DEF GateHop, GateExit, GateShut, AwaitedDoc
  <2>3. QED
    BY <2>1, <2>2
<1>3. CASE d.status = "WAITING_FACTURE"
  <2>1. CASE "Facture" \in d.driveDocs
    <3>1. AwaitedDoc("FINISHED") = {}
      BY DEF AwaitedDoc
    <3>2. QED
      BY <1>0, <1>1, <1>3, <2>1, <3>1, Arcs DEF GateHop, GateExit
  <2>2. CASE "Facture" \notin d.driveDocs
    BY <1>0, <1>3, <2>2 DEF GateHop, GateExit, GateShut, AwaitedDoc
  <2>3. QED
    BY <2>1, <2>2
<1>4. CASE d.status = "WAITING_DEVIS"
  <2>1. CASE "Devis" \in d.driveDocs
    BY <1>0, <1>1, <1>4, <2>1, Arcs DEF GateHop, GateExit
  <2>2. CASE "Devis" \notin d.driveDocs
    BY <1>0, <1>4, <2>2 DEF GateHop, GateExit, GateShut, AwaitedDoc
  <2>3. QED
    BY <2>1, <2>2
<1>5. CASE d.status = "WAITING_BC"
  <2>1. CASE "BC" \in d.driveDocs
    <3>1. GateHop(d) = Moved(d, AfterBc(d))
      BY <1>0, <1>5, <2>1 DEF GateHop, GateExit
    <3>2. CASE AfterBc(d) \in {"IRREPARABLE", "CONFIRMATION"}
      <4>1. AwaitedDoc(AfterBc(d)) = {} /\ PhaseArc(d.status, AfterBc(d))
        BY <1>5, <3>2, Arcs DEF AwaitedDoc
      <4>2. QED
        BY <1>1, <1>5, <3>1, <3>2, <4>1
    <3>3. CASE AfterBc(d) = "PENDING3"
      <4>1. ~HasComponents(d)
        BY <3>3 DEF AfterBc
      <4>2. /\ SameDues(d, Moved(d, "PENDING3")) /\ Moved(d, "PENDING3") \in DiDoc
            /\ Moved(d, "PENDING3").ignoreCount = 0
            /\ Moved(d, "PENDING3").status = "PENDING3"
        <5>1. "PENDING3" \in Status
          BY DEF Status
        <5>2. QED
          BY <5>1, MovedDues
      <4>3. "WAITING_BC" \notin TakenPhase /\ "PENDING3" \in FlowStatus \ (PricedPhase \cup EarlyPhase)
        BY DEF TakenPhase, RepairPhase, RepairStatus, FlowStatus, Status, RetourStatus,
               LegacyStatus, LegacyApproval, LegacyClosing, PricedPhase, EarlyPhase, DiagStatus
      <4>4. Carried("PENDING3", d, n)
        BY <1>5, <4>1, <4>3 DEF Carried
      <4>5. Carried("PENDING3", Moved(d, "PENDING3"), n)
        BY <4>2, <4>4, DuesOnly
      <4>6. AwaitedDoc("PENDING3") = {}
        BY DEF AwaitedDoc
      <4>7. QED
        BY <1>0, <1>5, <3>1, <3>3, <4>2, <4>5, <4>6 DEF GateShut
    <3>4. QED
      BY <3>2, <3>3 DEF AfterBc
  <2>2. CASE "BC" \notin d.driveDocs
    BY <1>0, <1>5, <2>2 DEF GateHop, GateExit, GateShut, AwaitedDoc
  <2>3. QED
    BY <2>1, <2>2
<1>6. CASE d.status \notin gated
  BY <1>0, <1>6 DEF GateHop, GateExit, GateShut, AwaitedDoc
<1>7. QED
  BY <1>2, <1>3, <1>4, <1>5, <1>6

\* maybeAdvanceDocGate leaves the DI sound: after its second turn, or its only one
\* where there is no row, no gate is left open.
LEMMA GatesOnCourse ==
    ASSUME NEW d \in DiDoc, d.ignoreCount = 0, Carried(d.status, d, draws),
           NEW st \in [Cycles -> StatRow], RowsSound(st, d.status), CurrentRow = Row0(st),
           AdvancedFrom(d, st)
    PROVE  OnCourse(di', draws, stat')
<1> DEFINE once == GateHop(d)
           after == GatesCrossed(d)
<1>1. /\ once \in DiDoc /\ once.ignoreCount = 0 /\ Carried(once.status, once, draws)
      /\ once.status \in {"WAITING_DEVIS", "WAITING_BL"} => once = d /\ GateShut(once.status, once)
      /\ d.status \notin {"WAITING_DEVIS", "WAITING_BL"} => GateShut(once.status, once)
      /\ once.status = d.status \/ /\ d.status \notin Rowless
                                   /\ d.status # "INDIAGNOSTIC" /\ once.status # "CREATED"
  BY HopCarried
<1>2. /\ after.ignoreCount = 0 /\ Carried(after.status, after, draws)
      /\ GateShut(after.status, after)
      /\ after.status = d.status \/ /\ d.status \notin Rowless
                                    /\ d.status # "INDIAGNOSTIC" /\ after.status # "CREATED"
  <2>1. CASE CurrentRow = {}
    <3>1. d.status \in Rowless
      BY <2>1 DEF Row0, RowsSound
    <3>2. d.status \notin {"WAITING_DEVIS", "WAITING_BL"}
      BY <3>1 DEF Rowless
    <3>3. after = once
      BY <2>1 DEF GatesCrossed
    <3>4. QED
      BY <1>1, <3>2, <3>3
  <2>2. CASE CurrentRow # {}
    <3> HIDE DEF once
    <3>1. /\ GateHop(once).ignoreCount = 0
          /\ Carried(GateHop(once).status, GateHop(once), draws)
          /\ once.status \notin {"WAITING_DEVIS", "WAITING_BL"}
                => GateShut(GateHop(once).status, GateHop(once))
          /\ GateHop(once).status = once.status
                \/ /\ once.status \notin Rowless
                   /\ once.status # "INDIAGNOSTIC" /\ GateHop(once).status # "CREATED"
      BY <1>1, HopCarried
    <3>2. once.status \in {"WAITING_DEVIS", "WAITING_BL"} => GateHop(once) = once
      BY <1>1 DEF once
    <3>3. after = GateHop(once)
      BY <2>2 DEF GatesCrossed, once
    <3>4. QED
      BY <1>1, <3>1, <3>2, <3>3
  <2>3. QED
    BY <2>1, <2>2
<1> HIDE DEF after
<1>3. RowsSound(stat', after.status)
  <2>1. stat' = IF after.status = d.status THEN st
                ELSE WithStatus(Row0(st), after.status, st)
    BY DEF AdvancedFrom, after
  <2>2. CASE after.status = d.status
    BY <2>1, <2>2
  <2>3. CASE after.status # d.status
    <3>1. /\ after.status \in FlowStatus \ {"CREATED"}
          /\ st[0].exists /\ ~st[0].diagRunStartedAt
      BY <1>2, <2>3 DEF Carried, RowsSound
    <3>2. RowsSound(WithStatus(Row0(st), after.status, st), after.status)
      BY <3>1, StatusWritten
    <3>3. QED
      BY <2>1, <2>3, <3>2
  <2>4. QED
    BY <2>2, <2>3
<1>4. QED
  BY <1>2, <1>3 DEF AdvancedFrom, after, OnCourse, Sound

\* An upload past the early phase leaves the DI sound.
LEMMA UploadOnCourse ==
    ASSUME Underway, di.status \notin EarlyPhase, NEW doc \in Docs, Upload(doc)
    PROVE  OnCourse(di', draws', stat')
<1> DEFINE filed == [di EXCEPT !.driveDocs = @ \cup {doc}]
<1>1. Filed(doc) = filed
  BY DEF Filed, InRetour, Underway, OnCourse
<1>2. /\ filed \in DiDoc /\ filed.ignoreCount = 0 /\ filed.status = di.status
      /\ filed.contain_pdr = di.contain_pdr /\ filed.composants = di.composants
      /\ filed.stockDecrementedAt = di.stockDecrementedAt
      /\ filed.diagnosticPayant = di.diagnosticPayant
      /\ filed.pricingRequestSentAt = di.pricingRequestSentAt
  BY DEF Underway, OnCourse, DiDoc
<1> HIDE DEF filed
<1>3. Carried(filed.status, filed, draws)
  BY <1>2 DEF Underway, OnCourse, Sound, Carried, HasComponents
<1>4. CurrentRow = Row0(stat)
  BY OneRow DEF Underway, OnCourse, Sound
<1>5. AdvancedFrom(filed, stat) /\ draws' = draws
  BY <1>1 DEF Upload
<1>6. QED
  BY <1>2, <1>3, <1>4, <1>5, GatesOnCourse DEF Underway, OnCourse, Sound

\* commitStockDecrementOnce on a DI that has moved to where its stock is taken: it is
\* drawn once.
LEMMA StockOnCourse ==
    ASSUME Underway, NEW d \in DiDoc, d.ignoreCount = 0,
           d.status \in {"ATTENTE_CONFIRMATION_COORDINATION", "MAGASIN_FINALISATION", "PENDING3"},
           d.stockDecrementedAt = di.stockDecrementedAt,
           StockCommitted(d), RowsSound(stat', d.status)
    PROVE  OnCourse(di', draws', stat')
<1>1. /\ di'.status = d.status /\ di'.ignoreCount = 0 /\ di'.stockDecrementedAt
  BY DEF StockCommitted, DiDoc
<1>2. draws' \in {0, 1}
  BY DEF StockCommitted, MaxDraws, Underway, OnCourse, Sound, Carried
<1>3. /\ d.status \in FlowStatus /\ d.status \in TakenPhase
      /\ d.status \notin PricedPhase \cup EarlyPhase \cup {"IRREPARABLE"}
      /\ AwaitedDoc(d.status) = {}
  BY DEF TakenPhase, RepairPhase, RepairStatus, FlowStatus, Status, RetourStatus,
         LegacyStatus, LegacyApproval, LegacyClosing, PricedPhase, EarlyPhase, DiagStatus,
         MagasinConfirmation, AwaitedDoc
<1>4. Carried(d.status, di', draws')
  BY <1>1, <1>2, <1>3 DEF Carried
<1>5. QED
  BY <1>1, <1>3, <1>4 DEF OnCourse, Sound, GateShut

----------------------------------------------------------------------------
(* The mutations.                                                          *)

\* The statuses of a DI that a step moves along an arc.
LEMMA FlowTargets ==
    {"PENDING1", "DIAGNOSTIC", "INDIAGNOSTIC", "DIAGNOSTIC_Pause", "MagasinEstimation",
     "PENDING2", "PRICING_DIAG", "CONFIRMATION", "WAITING_DEVIS", "NEGOTIATION2",
     "ATTENTE_CONFIRMATION_COORDINATION", "MAGASIN_FINALISATION", "PENDING3",
     "REPARATION", "INREPARATION", "REPARATION_Pause", "WAITING_BL", "IRREPARABLE"}
        \subseteq FlowStatus \ {"CREATED"}
  BY DEF FlowStatus, Status, RetourStatus, LegacyStatus, LegacyApproval, LegacyClosing,
         DiagStatus, RepairStatus, MagasinConfirmation

\* A field that the dues do not depend on may change.
LEMMA SameDuesOnCourse ==
    ASSUME Underway, SameDues(di, di'), di'.status = di.status,
           di'.ignoreCount = di.ignoreCount, UNCHANGED <<stat, log, draws>>
    PROVE  OnCourse(di', draws', stat')
  BY DuesOnly DEF Underway, OnCourse, Sound

\* The assignments touch the row alone.
LEMMA AssignedOnCourse ==
    ASSUME FirstCycle, FirstIInv, createStat \/ affectForRep
    PROVE  OnCourse(di', draws', stat')
<1>1. Underway
  BY ClientUnderway DEF createStat, affectForRep
<1>2. /\ 0 \in Cycles /\ CurrentRow = Row0(stat)
      /\ stat \in [Cycles -> StatRow] /\ RowsSound(stat, di.status)
  BY <1>1, OneRow DEF Underway, OnCourse, Sound
<1>3. RowsSound(stat', di.status)
  <2>1. CASE createStat
    <3>1. CASE stat[0].exists
      BY <1>2, <2>1, <3>1 DEF createStat, Row0
    <3>2. CASE ~stat[0].exists
      <4>1. stat' = [stat EXCEPT ![0] = [NoStat EXCEPT !.exists = TRUE]]
        BY <1>1, <1>2, <2>1, <3>2 DEF createStat, Row0, Underway, OnCourse
      <4>2. /\ stat'[0].exists /\ stat'[0].status = "unset" /\ ~stat'[0].diagRunStartedAt
            /\ \A c \in Cycles : c # 0 => stat'[c] = stat[c]
        BY <1>2, <4>1 DEF NoStat
      <4>3. QED
        BY <1>2, <4>2 DEF RowsSound
    <3>3. QED
      BY <3>1, <3>2
  <2>2. CASE affectForRep
    <3>1. \A c \in Cycles : /\ stat'[c].exists = stat[c].exists
                            /\ stat'[c].status = stat[c].status
                            /\ stat'[c].diagRunStartedAt = stat[c].diagRunStartedAt
      BY <1>2, <2>2 DEF affectForRep, StatRow
    <3>2. QED
      BY <1>2, <3>1 DEF RowsSound
  <2>3. QED
    BY <2>1, <2>2
<1>4. QED
  BY <1>1, <1>3 DEF createStat, affectForRep, Underway, OnCourse, Sound

\* The way into the diagnostic and the diagnostic itself.
LEMMA DiagnosticOnCourse ==
    ASSUME FirstCycle, FirstIInv,
           \/ changeStatusPending1 \/ manager_Pending1 \/ changeToPending1
           \/ sendDiBackToDiagnostic \/ coordinator_ToDiag
           \/ changeStatusInDiagnostic \/ changeToDiagnosticInPause
           \/ tech_startDiagnostic \/ abandonDi
    PROVE  OnCourse(di', draws', stat')
<1>1. /\ Underway /\ ~InRetour /\ di.status \in FlowStatus
      /\ \A statuses : \A m \in {"manager_Pending1", "changeToPending1",
               "changeToDiagnosticInPause", "tech_startDiagnostic"} :
            OfferedWithin(Screens, m, statuses) /\ Client(m) => di.status \in statuses
  <2>1. \/ Client("changeStatusPending1") \/ Client("manager_Pending1")
        \/ Client("changeToPending1") \/ Client("sendDiBackToDiagnostic")
        \/ Client("coordinator_ToDiag") \/ Client("changeStatusInDiagnostic")
        \/ Client("changeToDiagnosticInPause") \/ Client("tech_startDiagnostic")
        \/ Client("abandonDi")
    BY DEF changeStatusPending1, manager_Pending1, changeToPending1, sendDiBackToDiagnostic,
           coordinator_ToDiag, changeStatusInDiagnostic, changeToDiagnosticInPause,
           tech_startDiagnostic, abandonDi
  <2>2. QED
    BY <2>1, ClientUnderway
<1>2. /\ CurrentRow = Row0(stat) /\ OldestRow = Row0(stat)
      /\ OwnedDiag => stat[0].exists
      /\ stat \in [Cycles -> StatRow] /\ RowsSound(stat, di.status)
  BY <1>1, OneRow DEF Underway, OnCourse, Sound
<1>3. \A t \in {"PENDING1", "DIAGNOSTIC", "INDIAGNOSTIC", "DIAGNOSTIC_Pause"} :
         t \in FlowStatus \ {"CREATED"}
  BY FlowTargets
<1>4. CASE changeStatusPending1 \/ sendDiBackToDiagnostic
  <2>1. di.status \in {"PENDING1", "CREATED", "PRICING_DIAG"}
    BY <1>1, <1>4, Sources DEF changeStatusPending1, sendDiBackToDiagnostic, GuardedMove, Allowed
  <2>2. /\ di' = Moved(di, "PENDING1") /\ stat' = Synced("PENDING1")
        /\ UNCHANGED <<log, draws>>
    BY <1>2, <1>4 DEF changeStatusPending1, sendDiBackToDiagnostic, GuardedMove, Synced
  <2>3. Arc(di.status, "PENDING1") /\ "PENDING1" \in Rowless
    BY <2>1, Arcs DEF Rowless
  <2>4. QED
    BY <1>1, <1>3, <2>1, <2>2, <2>3, GuardedOnCourse
<1>5. CASE manager_Pending1 \/ changeToPending1
  <2>1. di.status = "CREATED"
    BY <1>1, <1>5 DEF FirstCycle, FirstCycleOffers, manager_Pending1, changeToPending1
  <2>2. RowsSound(stat, "PENDING1")
    BY <1>2, <2>1 DEF RowsSound, Rowless
  <2>3. Arc(di.status, "PENDING1")
    BY <2>1, Arcs
  <2>4. OnCourse(Moved(di, "PENDING1"), draws, stat)
    BY <1>1, <2>2, <2>3, MovedOnCourse
  <2>5. QED
    BY <1>5, <2>4 DEF manager_Pending1, changeToPending1
<1>6. CASE coordinator_ToDiag
  <2>1. di.status \in {"DIAGNOSTIC", "PENDING1"}
    BY <1>1, <1>6, Sources DEF coordinator_ToDiag, GuardedMove, Allowed
  <2>2. /\ di' = Moved(di, "DIAGNOSTIC") /\ stat' = Synced("DIAGNOSTIC")
        /\ UNCHANGED <<log, draws>>
    BY <1>6 DEF coordinator_ToDiag, GuardedMove
  <2>3. Arc(di.status, "DIAGNOSTIC") /\ "DIAGNOSTIC" \in Rowless
    BY <2>1, Arcs DEF Rowless
  <2>4. QED
    BY <1>1, <1>3, <2>1, <2>2, <2>3, GuardedOnCourse
<1>7. CASE changeStatusInDiagnostic
  <2> DEFINE synced == Synced("INDIAGNOSTIC")
  <2>1. di.status \in DiagStatus \cup {"PENDING1"} /\ stat[0].exists
    BY <1>1, <1>2, <1>7, Sources DEF changeStatusInDiagnostic, Allowed
  <2>2. RowsSound(synced, "INDIAGNOSTIC") /\ synced \in [Cycles -> StatRow]
    <3>1. RowsSound(synced, "INDIAGNOSTIC")
      BY <1>1, <1>3, <2>1, RowsAfter
    <3>2. synced \in [Cycles -> StatRow]
      BY <1>2, <1>3, RowsType DEF Synced, FlowStatus
    <3>3. QED
      BY <3>1, <3>2
  <2>3. RowsSound(stat', "INDIAGNOSTIC")
    <3>1. CASE di.status = "INDIAGNOSTIC"
      BY <1>7, <2>2, <3>1 DEF changeStatusInDiagnostic
    <3>2. CASE di.status # "INDIAGNOSTIC"
      <4>1. stat' = WithLeg({0}, TRUE, synced)
        BY <1>2, <1>7, <2>1, <3>2 DEF changeStatusInDiagnostic, Row0
      <4> HIDE DEF synced
      <4>2. /\ \A c \in Cycles : /\ stat'[c].exists = synced[c].exists
                                 /\ stat'[c].status = synced[c].status
                                 /\ c # 0 => stat'[c] = synced[c]
        BY <2>2, <4>1 DEF WithLeg, StatRow
      <4>3. 0 \in Cycles
        BY MaxCycleAssumption DEF Cycles
      <4>4. QED
        BY <2>2, <4>2, <4>3 DEF RowsSound
    <3>3. QED
      BY <3>1, <3>2
  <2>4. Arc(di.status, "INDIAGNOSTIC")
    BY <2>1, Arcs
  <2>5. QED
    BY <1>1, <1>7, <2>3, <2>4, MovedOnCourse DEF changeStatusInDiagnostic
<1>8. CASE changeToDiagnosticInPause
  <2>1. di.status \in DiagStatus /\ stat[0].exists
    BY <1>1, <1>2, <1>8 DEF FirstCycle, FirstCycleOffers, changeToDiagnosticInPause
  <2>2. Arc(di.status, "DIAGNOSTIC_Pause")
    BY <2>1, Arcs
  <2>3. QED
    BY <1>1, <1>3, <1>8, <2>1, <2>2, GuardedOnCourse DEF changeToDiagnosticInPause
<1>9. CASE tech_startDiagnostic
  <2>1. di.status \in DiagStatus
    BY <1>1, <1>9 DEF FirstCycle, FirstCycleOffers, tech_startDiagnostic
  <2>2. PICK repairable \in BOOLEAN, pdr \in BOOLEAN, parts \in BOOLEAN :
           di' = [di EXCEPT !.can_be_repaired = repairable, !.contain_pdr = pdr,
                            !.composants = parts, !.stockDecrementedAt = FALSE]
    BY <1>1, <1>9 DEF tech_startDiagnostic
  <2>3. /\ di'.status = di.status /\ di'.ignoreCount = 0
        /\ di'.driveDocs = di.driveDocs /\ ~di'.stockDecrementedAt
        /\ draws' = draws /\ stat' = stat
    BY <1>1, <1>9, <2>2 DEF tech_startDiagnostic, Underway, OnCourse, DiDoc
  <2>4. di.status \notin TakenPhase \cup RepairPhase \cup PricedPhase \cup {"IRREPARABLE"}
    BY <2>1 DEF DiagStatus, TakenPhase, RepairPhase, RepairStatus, PricedPhase
  <2>5. Carried(di.status, di', draws')
    BY <1>1, <2>3, <2>4 DEF Underway, OnCourse, Sound, Carried
  <2>6. QED
    BY <1>1, <2>3, <2>5 DEF Underway, OnCourse, Sound, GateShut
<1>10. CASE abandonDi
  <2>1. Arc(di.status, "PENDING1") /\ "PENDING1" \in Rowless
    BY <1>10, Arcs DEF abandonDi, Rowless
  <2>2. QED
    BY <1>1, <1>3, <1>10, <2>1, GuardedOnCourse DEF abandonDi
<1>11. QED
  BY <1>4, <1>5, <1>6, <1>7, <1>8, <1>9, <1>10

\* The way to PENDING2, which no DI takes back from the store.
LEMMA ToPending2OnCourse ==
    ASSUME Underway, di.status # "CONFIRMATION", ToPending2
    PROVE  OnCourse(di', draws', stat')
<1>1. di.status \in {"PENDING2", "MagasinEstimation", "INDIAGNOSTIC", "DIAGNOSTIC_Pause"}
  BY Sources DEF ToPending2, Allowed, Underway, OnCourse, Sound, Carried
<1>2. /\ Arc(di.status, "PENDING2") /\ di.status \notin Rowless
      /\ "PENDING2" \in FlowStatus \ {"CREATED"}
  BY <1>1, Arcs, FlowTargets DEF Rowless, DiagStatus
<1>3. QED
  BY <1>2, GuardedOnCourse DEF ToPending2

\* closeIrreparable, of a DI that was priced or that owes no diagnostic.
LEMMA IrreparableOnCourse ==
    ASSUME Underway, NEW st,
           \/ st = LegClosedAndSynced("IRREPARABLE")
           \/ st = Synced("IRREPARABLE") /\ di.status \notin DiagStatus,
           di.status \in DiagStatus => ~di.diagnosticPayant,
           CloseIrreparable(di, st)
    PROVE  OnCourse(di', draws', stat')
<1>1. "IRREPARABLE" \in FlowStatus \ {"CREATED"} /\ "IRREPARABLE" \in Rowless
  BY FlowTargets DEF Rowless
<1>2. di' = Moved(di, "IRREPARABLE") /\ stat' = st /\ UNCHANGED <<log, draws>>
  BY DEF CloseIrreparable
<1>3. CASE di.status \in DiagStatus
  <2>1. RowsSound(stat', "IRREPARABLE")
    BY <1>1, <1>2, <1>3, RowsAfter
  <2>2. /\ di.status \notin TakenPhase
        /\ "IRREPARABLE" \notin RepairPhase \cup PricedPhase \cup EarlyPhase
    BY <1>3 DEF DiagStatus, TakenPhase, RepairPhase, RepairStatus, PricedPhase, EarlyPhase
  <2>3. Carried("IRREPARABLE", di, draws)
    BY <1>1, <1>3, <2>2 DEF Underway, OnCourse, Sound, Carried
  <2>4. /\ SameDues(di, di') /\ di'.ignoreCount = 0 /\ di'.status = "IRREPARABLE"
    BY <1>1, <1>2, MovedDues DEF Underway, OnCourse, FlowStatus
  <2>5. Carried("IRREPARABLE", di', draws')
    BY <1>2, <2>3, <2>4, DuesOnly
  <2>6. QED
    BY <2>1, <2>4, <2>5 DEF OnCourse, Sound, GateShut, AwaitedDoc
<1>4. CASE di.status \notin DiagStatus
  <2>1. di.status \in {"IRREPARABLE"} \cup PricedPhase
    BY <1>4, Sources DEF CloseIrreparable, Underway, OnCourse, Sound, Carried, PricedPhase
  <2>2. Arc(di.status, "IRREPARABLE")
    BY <2>1, Arcs
  <2>3. QED
    BY <1>1, <1>2, <1>4, <2>2, GuardedOnCourse DEF DiagStatus
<1>5. QED
  BY <1>3, <1>4

\* The store and the pricing.
LEMMA PricingOnCourse ==
    ASSUME FirstCycle, FirstIInv,
           \/ magasinTech_Pending2 \/ changeStatusPending2
           \/ changeStatusMagasinEstimation \/ changeStatusInMagasin
           \/ changeStatusPricing \/ sendDiToAdminsForPricing
           \/ affectinitialPrice \/ setDiagnosticPayant
           \/ changeStatusIrreparableFromPricing
           \/ changeStatusNegociate1 \/ changeStatusNegociate2
    PROVE  OnCourse(di', draws', stat')
<1>1. /\ Underway /\ ~InRetour /\ di.status \in FlowStatus
      /\ \A statuses : \A m \in {"magasinTech_Pending2", "changeStatusPending2",
               "changeStatusMagasinEstimation", "changeStatusInMagasin", "setDiagnosticPayant",
               "changeStatusIrreparableFromPricing"} :
            OfferedWithin(Screens, m, statuses) /\ Client(m) => di.status \in statuses
  <2>1. \/ Client("magasinTech_Pending2") \/ Client("changeStatusPending2")
        \/ Client("changeStatusMagasinEstimation") \/ Client("changeStatusInMagasin")
        \/ Client("changeStatusPricing") \/ Client("sendDiToAdminsForPricing")
        \/ Client("affectinitialPrice") \/ Client("setDiagnosticPayant")
        \/ Client("changeStatusIrreparableFromPricing")
        \/ Client("changeStatusNegociate1") \/ Client("changeStatusNegociate2")
    BY DEF magasinTech_Pending2, changeStatusPending2, changeStatusMagasinEstimation,
           changeStatusInMagasin, changeStatusPricing, sendDiToAdminsForPricing,
           affectinitialPrice, setDiagnosticPayant, changeStatusIrreparableFromPricing,
           changeStatusNegociate1, changeStatusNegociate2
  <2>2. QED
    BY <2>1, ClientUnderway
<1>2. CASE magasinTech_Pending2 \/ changeStatusPending2
  <2>1. di.status # "CONFIRMATION"
    BY <1>1, <1>2 DEF FirstCycle, FirstCycleOffers, magasinTech_Pending2, changeStatusPending2
  <2>2. QED
    BY <1>1, <1>2, <2>1, ToPending2OnCourse DEF magasinTech_Pending2, changeStatusPending2
<1>3. CASE changeStatusMagasinEstimation
  <2>1. di.status # "CONFIRMATION"
    BY <1>1, <1>3 DEF FirstCycle, FirstCycleOffers, changeStatusMagasinEstimation
  <2>2. CASE ToPending2
    BY <1>1, <2>1, <2>2, ToPending2OnCourse
  <2>3. CASE /\ Allowed("MagasinEstimation")
             /\ di' = Moved(di, "MagasinEstimation")
             /\ stat' = LegClosedAndSynced("MagasinEstimation")
             /\ UNCHANGED <<log, draws>>
    <3>1. di.status \in {"MagasinEstimation", "INDIAGNOSTIC", "DIAGNOSTIC_Pause"}
      BY <1>1, <2>3, Sources DEF Allowed
    <3>2. Arc(di.status, "MagasinEstimation") /\ di.status \notin Rowless
      BY <3>1, Arcs DEF Rowless, DiagStatus
    <3>3. QED
      BY <1>1, <2>3, <3>2, FlowTargets, GuardedOnCourse
  <2>4. QED
    BY <1>1, <1>3, <2>2, <2>3 DEF changeStatusMagasinEstimation
<1>4. CASE changeStatusInMagasin
  <2>1. di.status \in {"CONFIRMATION", "MagasinEstimation", "WAITING_BC", "NEGOTIATION2"}
    <3>1. di.status \notin DiagStatus
      BY <1>1, <1>4 DEF FirstCycle, FirstCycleOffers, changeStatusInMagasin
    <3>2. QED
      BY <1>1, <1>4, <3>1, Sources DEF changeStatusInMagasin, GuardedMove, Allowed, DiagStatus
  <2>2. Arc(di.status, "CONFIRMATION") /\ di.status \notin Rowless /\ di.status # "INDIAGNOSTIC"
    BY <2>1, Arcs DEF Rowless
  <2>3. QED
    BY <1>1, <1>4, <2>2, FlowTargets, GuardedOnCourse DEF changeStatusInMagasin, GuardedMove
<1>5. CASE changeStatusPricing \/ sendDiToAdminsForPricing
  <2>1. /\ Allowed("PRICING_DIAG")
        /\ di' = [Moved(di, "PRICING_DIAG") EXCEPT !.pricingRequestSentAt = TRUE]
        /\ stat' = Synced("PRICING_DIAG")
        /\ UNCHANGED <<log, draws>>
    BY <1>5 DEF changeStatusPricing, sendDiToAdminsForPricing, ToPricing
  <2>2. di.status \in {"PRICING_DIAG", "PENDING2"}
    BY <1>1, <2>1, Sources DEF Allowed
  <2>3. /\ "PRICING_DIAG" \in FlowStatus \ {"CREATED"}
        /\ di.status \notin TakenPhase \cup Rowless /\ di.status # "INDIAGNOSTIC"
        /\ di.status \in EarlyPhase
        /\ "PRICING_DIAG" \notin RepairPhase
        /\ AwaitedDoc("PRICING_DIAG") = {}
    BY <2>2, FlowTargets DEF TakenPhase, RepairPhase, RepairStatus, Rowless, EarlyPhase, AwaitedDoc
  <2>4. RowsSound(stat', "PRICING_DIAG")
    BY <1>1, <2>1, <2>3, RowsAfter
  <2>5. /\ di'.status = "PRICING_DIAG" /\ di'.ignoreCount = 0 /\ di'.pricingRequestSentAt
        /\ di'.driveDocs = di.driveDocs /\ di'.stockDecrementedAt = di.stockDecrementedAt
    <3>1. Moved(di, "PRICING_DIAG") \in DiDoc /\ SameDues(di, Moved(di, "PRICING_DIAG"))
          /\ Moved(di, "PRICING_DIAG").ignoreCount = 0
          /\ Moved(di, "PRICING_DIAG").status = "PRICING_DIAG"
      BY <1>1, <2>3, MovedDues DEF Underway, OnCourse, FlowStatus
    <3>2. QED
      BY <2>1, <3>1 DEF DiDoc, SameDues
  <2>6. Carried("PRICING_DIAG", di', draws')
    BY <1>1, <2>1, <2>3, <2>5 DEF Underway, OnCourse, Sound, Carried
  <2>7. QED
    BY <2>3, <2>4, <2>5, <2>6 DEF OnCourse, Sound, GateShut
<1>6. CASE affectinitialPrice
  <2>1. /\ SameDues(di, di') /\ di'.status = di.status /\ di'.ignoreCount = di.ignoreCount
        /\ UNCHANGED <<stat, log, draws>>
    BY <1>1, <1>6 DEF affectinitialPrice, Underway, DiDoc, SameDues
  <2>2. QED
    BY <1>1, <2>1, SameDuesOnCourse
<1>7. CASE setDiagnosticPayant
  <2>1. di.status # "IRREPARABLE"
    BY <1>1, <1>7 DEF FirstCycle, FirstCycleOffers, setDiagnosticPayant
  <2>2. PICK payant \in BOOLEAN : di' = [di EXCEPT !.diagnosticPayant = payant]
    BY <1>7 DEF setDiagnosticPayant
  <2>3. /\ di'.status = di.status /\ di'.ignoreCount = 0 /\ di'.driveDocs = di.driveDocs
        /\ di'.contain_pdr = di.contain_pdr /\ di'.composants = di.composants
        /\ di'.stockDecrementedAt = di.stockDecrementedAt
        /\ di'.pricingRequestSentAt = di.pricingRequestSentAt
        /\ draws' = draws /\ stat' = stat
    BY <1>1, <1>7, <2>2 DEF setDiagnosticPayant, Underway, OnCourse, DiDoc
  <2>4. Carried(di.status, di', draws')
    BY <1>1, <2>1, <2>3 DEF Underway, OnCourse, Sound, Carried, HasComponents
  <2>5. QED
    BY <1>1, <2>3, <2>4 DEF Underway, OnCourse, Sound, GateShut
<1>8. CASE changeStatusIrreparableFromPricing
  <2>1. di.status \notin DiagStatus
    BY <1>1, <1>8 DEF FirstCycle, FirstCycleOffers, changeStatusIrreparableFromPricing
  <2>2. QED
    BY <1>1, <1>8, <2>1, IrreparableOnCourse DEF changeStatusIrreparableFromPricing
<1>9. CASE changeStatusNegociate1
  <2>1. di.status \in {"WAITING_DEVIS", "PRICING_DIAG"}
    BY <1>1, <1>9, Sources DEF changeStatusNegociate1, GuardedMove, Allowed
  <2>2. /\ Arc(di.status, "WAITING_DEVIS")
        /\ di.status \notin Rowless /\ di.status # "INDIAGNOSTIC"
    BY <2>1, Arcs DEF Rowless
  <2>3. QED
    BY <1>1, <1>9, <2>2, FlowTargets, GuardedOnCourse DEF changeStatusNegociate1, GuardedMove
<1>10. CASE changeStatusNegociate2
  <2>1. di.status \in {"NEGOTIATION2", "WAITING_DEVIS", "WAITING_BC"}
    BY <1>1, <1>10, Sources DEF changeStatusNegociate2, GuardedMove, Allowed
  <2>2. /\ Arc(di.status, "NEGOTIATION2")
        /\ di.status \notin Rowless /\ di.status # "INDIAGNOSTIC"
    BY <2>1, Arcs DEF Rowless
  <2>3. QED
    BY <1>1, <1>10, <2>2, FlowTargets, GuardedOnCourse DEF changeStatusNegociate2, GuardedMove
<1>11. QED
  BY <1>2, <1>3, <1>4, <1>5, <1>6, <1>7, <1>8, <1>9, <1>10

\* The documents and the confirmation of the components.
LEMMA DocumentOnCourse ==
    ASSUME FirstCycle, FirstIInv,
           \/ addDevisPDF \/ addBlPDF \/ addFacturePDF \/ addBCPDF
           \/ sendComponentToConMagasinForConfirmation
           \/ componentConfirmedFromCoordinator \/ confirmDiComponents
    PROVE  OnCourse(di', draws', stat')
<1>1. /\ Underway /\ ~InRetour /\ di.status \in FlowStatus
      /\ \A statuses : \A m \in {"addDevis", "addBl", "addFacture"} :
            OfferedWithin(Screens, m, statuses) /\ Client(m) => di.status \in statuses
  <2>1. \/ Client("addDevis") \/ Client("addBl") \/ Client("addFacture") \/ Client("addBC")
        \/ Client("sendComponentToConMagasinForConfirmation")
        \/ Client("componentConfirmedFromCoordinator") \/ Client("confirmDiComponents")
    BY DEF addDevisPDF, addBlPDF, addFacturePDF, addBCPDF,
           sendComponentToConMagasinForConfirmation, componentConfirmedFromCoordinator,
           confirmDiComponents
  <2>2. QED
    BY <2>1, ClientUnderway
<1>2. CASE addDevisPDF \/ addBlPDF \/ addFacturePDF
  <2>1. di.status \notin EarlyPhase
    BY <1>1, <1>2 DEF FirstCycle, FirstCycleOffers, addDevisPDF, addBlPDF, addFacturePDF
  <2>2. QED
    BY <1>1, <1>2, <2>1, UploadOnCourse DEF addDevisPDF, addBlPDF, addFacturePDF, Docs
<1>3. CASE addBCPDF
  <2>1. di.status \notin EarlyPhase
    BY <1>1, <1>3 DEF addBCPDF, Underway, OnCourse, Sound, Carried
  <2>2. QED
    BY <1>1, <1>3, <2>1, UploadOnCourse DEF addBCPDF, Docs
<1>4. CASE sendComponentToConMagasinForConfirmation
  <2> DEFINE t == "ATTENTE_CONFIRMATION_COORDINATION"
             sent == Moved(di, t)
  <2>1. di.status \in {"ATTENTE_CONFIRMATION_COORDINATION", "CONFIRMATION"}
    BY <1>1, <1>4, Sources DEF sendComponentToConMagasinForConfirmation, Allowed
  <2>2. /\ di.status \notin Rowless /\ di.status # "INDIAGNOSTIC" /\ CurrentRow # {}
        /\ t \in FlowStatus \ {"CREATED"}
    <3>1. di.status \notin Rowless /\ di.status # "INDIAGNOSTIC"
      BY <2>1 DEF Rowless
    <3>2. QED
      BY <1>1, <3>1, OneRow, FlowTargets DEF Underway, OnCourse, Sound
  <2>3. StockCommitted(sent) /\ RowsSound(stat', t)
    BY <1>1, <1>4, <2>2, RowsAfter DEF sendComponentToConMagasinForConfirmation
  <2>4. /\ sent \in DiDoc /\ sent.ignoreCount = 0 /\ sent.status = t
        /\ sent.stockDecrementedAt = di.stockDecrementedAt
    BY <1>1, <2>2, MovedDues DEF Underway, OnCourse, FlowStatus, SameDues
  <2> HIDE DEF sent
  <2>5. QED
    BY <1>1, <2>3, <2>4, StockOnCourse
<1>5. CASE componentConfirmedFromCoordinator \/ confirmDiComponents
  <2> DEFINE t == "MAGASIN_FINALISATION"
             confirmed == [Moved(di, t) EXCEPT !.componentsConfirmedAt = TRUE]
  <2>1. /\ Allowed(t) /\ StockCommitted(confirmed) /\ stat' = Synced(t)
    BY <1>1, <1>5 DEF componentConfirmedFromCoordinator, confirmDiComponents, ConfirmComponents
  <2>2. di.status \in {"MAGASIN_FINALISATION", "ATTENTE_CONFIRMATION_COORDINATION"}
    BY <1>1, <2>1, Sources DEF Allowed
  <2>3. /\ di.status \notin Rowless /\ di.status # "INDIAGNOSTIC"
        /\ t \in FlowStatus \ {"CREATED"}
    BY <2>2, FlowTargets DEF Rowless
  <2>4. RowsSound(stat', t)
    BY <1>1, <2>1, <2>3, RowsAfter
  <2>5. /\ confirmed \in DiDoc /\ confirmed.ignoreCount = 0 /\ confirmed.status = t
        /\ confirmed.stockDecrementedAt = di.stockDecrementedAt
    <3>1. /\ Moved(di, t) \in DiDoc /\ Moved(di, t).ignoreCount = 0 /\ Moved(di, t).status = t
          /\ Moved(di, t).stockDecrementedAt = di.stockDecrementedAt
      BY <1>1, <2>3, MovedDues DEF Underway, OnCourse, FlowStatus, SameDues
    <3>2. QED
      BY <3>1 DEF DiDoc
  <2> HIDE DEF confirmed
  <2>6. QED
    BY <1>1, <2>1, <2>4, <2>5, StockOnCourse
<1>6. QED
  BY <1>2, <1>3, <1>4, <1>5

\* The repair and the closing.
LEMMA RepairOnCourse ==
    ASSUME FirstCycle, FirstIInv,
           \/ changeStatusPending3 \/ changeStatusRepaire \/ changeStatusInRepair
           \/ tech_startReperation \/ changeToReparationInPause \/ changeStatusTofinsh
    PROVE  OnCourse(di', draws', stat')
<1>1. /\ Underway /\ ~InRetour /\ di.status \in FlowStatus
      /\ \A statuses : \A m \in {"tech_startReperation", "changeToReparationInPause"} :
            OfferedWithin(Screens, m, statuses) /\ Client(m) => di.status \in statuses
  <2>1. \/ Client("changeStatusPending3") \/ Client("changeStatusRepaire")
        \/ Client("changeStatusInRepair") \/ Client("tech_startReperation")
        \/ Client("changeToReparationInPause") \/ Client("changeStatusTofinsh")
    BY DEF changeStatusPending3, changeStatusRepaire, changeStatusInRepair,
           tech_startReperation, changeToReparationInPause, changeStatusTofinsh
  <2>2. QED
    BY <2>1, ClientUnderway
<1>2. /\ CurrentRow = Row0(stat) /\ OldestRow = Row0(stat)
      /\ di.status \notin Rowless => CurrentRow # {}
      /\ stat \in [Cycles -> StatRow] /\ RowsSound(stat, di.status)
  BY <1>1, OneRow DEF Underway, OnCourse, Sound
<1>3. CASE changeStatusPending3
  <2> DEFINE t == "PENDING3"
  <2>1. di.status \in {"PENDING3", "WAITING_BC", "NEGOTIATION2"} \cup MagasinConfirmation
    BY <1>1, <1>3, Sources DEF changeStatusPending3, Allowed
  <2>2. /\ di.status \notin Rowless /\ di.status # "INDIAGNOSTIC"
        /\ t \in FlowStatus \ {"CREATED"}
    BY <2>1, FlowTargets DEF Rowless, MagasinConfirmation
  <2>3. StockCommitted(Moved(di, t)) /\ RowsSound(stat', t)
    BY <1>1, <1>3, <2>2, RowsAfter DEF changeStatusPending3
  <2>4. /\ Moved(di, t) \in DiDoc /\ Moved(di, t).ignoreCount = 0 /\ Moved(di, t).status = t
        /\ Moved(di, t).stockDecrementedAt = di.stockDecrementedAt
    BY <1>1, <2>2, MovedDues DEF Underway, OnCourse, FlowStatus, SameDues
  <2>5. QED
    BY <1>1, <2>3, <2>4, StockOnCourse
<1>4. CASE changeStatusRepaire
  <2>1. di.status \in {"REPARATION", "PENDING3"}
    BY <1>1, <1>4, Sources DEF changeStatusRepaire, GuardedMove, Allowed
  <2>2. Arc(di.status, "REPARATION") /\ di.status \notin Rowless /\ di.status # "INDIAGNOSTIC"
    BY <2>1, Arcs DEF Rowless, RepairStatus
  <2>3. QED
    BY <1>1, <1>4, <2>2, FlowTargets, GuardedOnCourse DEF changeStatusRepaire, GuardedMove
<1>5. CASE changeStatusInRepair
  <2>1. di.status \in RepairStatus \cup {"PENDING3"}
    BY <1>1, <1>5, Sources DEF changeStatusInRepair, GuardedMove, Allowed
  <2>2. Arc(di.status, "INREPARATION") /\ di.status \notin Rowless /\ di.status # "INDIAGNOSTIC"
    BY <2>1, Arcs DEF Rowless, RepairStatus
  <2>3. QED
    BY <1>1, <1>5, <2>2, FlowTargets, GuardedOnCourse DEF changeStatusInRepair, GuardedMove
<1>6. CASE changeToReparationInPause
  <2>1. di.status \in RepairStatus
    BY <1>1, <1>6 DEF FirstCycle, FirstCycleOffers, changeToReparationInPause
  <2>2. /\ Arc(di.status, "REPARATION_Pause")
        /\ di.status \notin Rowless /\ di.status # "INDIAGNOSTIC"
    BY <2>1, Arcs DEF Rowless, RepairStatus
  <2>3. QED
    BY <1>1, <1>6, <2>2, FlowTargets, GuardedOnCourse DEF changeToReparationInPause
<1>7. CASE tech_startReperation
  <2> DEFINE synced == Synced("INREPARATION")
  <2>1. di.status \in RepairStatus
    BY <1>1, <1>7 DEF FirstCycle, FirstCycleOffers, tech_startReperation
  <2>2. /\ Arc(di.status, "INREPARATION")
        /\ di.status \notin Rowless /\ di.status # "INDIAGNOSTIC"
        /\ "INREPARATION" \in FlowStatus \ {"CREATED"}
    BY <2>1, Arcs, FlowTargets DEF Rowless, RepairStatus
  <2>3. stat[0].exists /\ ~stat[0].diagRunStartedAt
    BY <1>2, <2>2 DEF RowsSound
  <2>4. /\ RowsSound(synced, "INREPARATION") /\ synced \in [Cycles -> StatRow]
        /\ synced[0].exists /\ ~synced[0].diagRunStartedAt
        /\ Row0(synced) = Row0(stat)
    BY <1>2, <2>2, <2>3, StatusWritten DEF Synced
  <2>5. stat' = WithStatus(Row0(stat), "INREPARATION", synced)
    BY <1>2, <1>7, <2>2 DEF tech_startReperation
  <2> HIDE DEF synced
  <2>6. RowsSound(stat', "INREPARATION")
    BY <2>2, <2>4, <2>5, StatusWritten
  <2>7. QED
    BY <1>1, <1>7, <2>2, <2>6, MovedOnCourse DEF tech_startReperation
<1>8. CASE changeStatusTofinsh
  <2>1. CASE di.status \in DiagStatus /\ ToPending2
    <3>1. di.status # "CONFIRMATION"
      BY <2>1 DEF DiagStatus
    <3>2. QED
      BY <1>1, <2>1, <3>1, ToPending2OnCourse
  <2>2. CASE /\ di.status \in DiagStatus /\ ~di.diagnosticPayant
             /\ CloseIrreparable(di, LegClosedAndSynced("IRREPARABLE"))
    BY <1>1, <2>2, IrreparableOnCourse
  <2>3. CASE di.status \notin DiagStatus /\ CloseIrreparable(di, Synced("IRREPARABLE"))
    BY <1>1, <2>3, IrreparableOnCourse
  <2>4. CASE /\ di.status \in RepairStatus
             /\ IF CurrentRow = {} THEN di' = Moved(di, "WAITING_BL") /\ UNCHANGED stat
                ELSE AdvancedFrom(Moved(di, "WAITING_BL"), Synced("WAITING_BL"))
             /\ UNCHANGED <<log, draws>>
    <3> DEFINE waiting == Moved(di, "WAITING_BL")
               synced == Synced("WAITING_BL")
    <3>1. /\ di.status \notin Rowless /\ di.status # "INDIAGNOSTIC"
          /\ PhaseArc(di.status, "WAITING_BL")
          /\ "WAITING_BL" \in FlowStatus \ {"CREATED"}
      BY <2>4, Arcs, FlowTargets DEF RepairStatus, Rowless
    <3>2. AdvancedFrom(waiting, synced) /\ draws' = draws
      BY <1>2, <2>4, <3>1
    <3>3. /\ SameDues(di, waiting) /\ waiting \in DiDoc
          /\ waiting.ignoreCount = 0 /\ waiting.status = "WAITING_BL"
      BY <1>1, <3>1, MovedDues DEF Underway, OnCourse, FlowStatus
    <3>4. Carried("WAITING_BL", di, draws)
      BY <1>1, <3>1, ArcCarried DEF Underway, OnCourse, Sound
    <3>5. Carried(waiting.status, waiting, draws)
      BY <3>3, <3>4, DuesOnly
    <3>6. stat[0].exists /\ ~stat[0].diagRunStartedAt
      BY <1>2, <3>1 DEF RowsSound
    <3>7. /\ RowsSound(synced, "WAITING_BL") /\ synced \in [Cycles -> StatRow]
          /\ CurrentRow = Row0(synced)
      BY <1>2, <3>1, <3>6, StatusWritten DEF Synced
    <3> HIDE DEF waiting, synced
    <3>8. QED
      BY <3>2, <3>3, <3>5, <3>7, GatesOnCourse
  <2>5. QED
    BY <1>1, <1>8, <2>1, <2>2, <2>3, <2>4 DEF changeStatusTofinsh
<1>9. QED
  BY <1>3, <1>4, <1>5, <1>6, <1>7, <1>8

\* A cancellation does not change where the DI stands, nor does a reactivation.
LEMMA CancelStands ==
    ASSUME FirstIInv, annulerDi \/ reactiverDi
    PROVE  FirstIInv'
<1>0. /\ IInv' /\ di \in DiDoc /\ StandingOf(di) \in FlowStatus
      /\ di.ignoreCount = 0
      /\ Sound(StandingOf(di), di, draws, stat)
  BY RepairActionsInv DEF FirstIInv, IInv, DocOK, Sound, Carried
<1>1. ASSUME NEW t \in Status, NEW mark \in BOOLEAN,
             di' = [Moved(di, t) EXCEPT !.annuleLe = mark],
             UNCHANGED <<stat, log, draws>>
      PROVE  /\ di'.ignoreCount = 0 /\ di'.status = t
             /\ Sound(StandingOf(di), di', draws', stat')
  <2>1. /\ Moved(di, t) \in DiDoc /\ SameDues(di, Moved(di, t))
        /\ Moved(di, t).ignoreCount = 0 /\ Moved(di, t).status = t
    BY <1>0, <1>1, MovedDues
  <2>2. SameDues(di, di') /\ di'.ignoreCount = 0 /\ di'.status = t
    BY <1>1, <2>1 DEF DiDoc, SameDues
  <2>3. QED
    BY <1>0, <1>1, <2>2, DuesOnly DEF Sound
<1>2. CASE annulerDi
  <2>1. /\ di.status # "ANNULER" /\ di' = [Moved(di, "ANNULER") EXCEPT !.annuleLe = TRUE]
        /\ UNCHANGED <<stat, log, draws>>
        /\ "annulerDi" \in DOMAIN Screens
    BY <1>2 DEF annulerDi, Client
  <2>2. /\ di'.ignoreCount = 0 /\ di'.status = "ANNULER"
        /\ Sound(StandingOf(di), di', draws', stat')
    <3>1. "ANNULER" \in Status
      BY DEF Status
    <3>2. QED
      BY <1>1, <2>1, <3>1
  <2>3. StandingOf(di') = StandingOf(di)
    <3>1. di'.beforeAnnul = di.status
      BY <1>0, <2>1 DEF Moved, DiDoc
    <3>2. QED
      BY <2>1, <2>2, <3>1 DEF StandingOf
  <2>4. QED
    BY <1>0, <2>1, <2>2, <2>3 DEF FirstIInv, StandingOf, Sound, Carried, GateShut, RowsSound,
                                  HasComponents
<1>3. CASE reactiverDi
  <2>1. /\ di.status = "ANNULER" /\ di' = [Moved(di, di.beforeAnnul) EXCEPT !.annuleLe = FALSE]
        /\ UNCHANGED <<stat, log, draws>>
        /\ StandingOf(di) = di.beforeAnnul
        /\ di.beforeAnnul \in Status \ {"ANNULER"}
    BY <1>0, <1>3 DEF reactiverDi, StandingOf, FlowStatus
  <2>2. /\ di'.ignoreCount = 0 /\ di'.status = di.beforeAnnul
        /\ Sound(StandingOf(di), di', draws', stat')
    BY <1>1, <2>1
  <2>3. QED
    BY <1>0, <2>1, <2>2, Lands DEF OnCourse
<1>4. QED
  BY <1>2, <1>3

\* The mutations that the first cycle does not offer.
LEMMA NotOffered ==
    ASSUME FirstCycle
    PROVE  /\ ~countIgnore /\ ~deleteDi /\ ~addPDFFile
           /\ ~managerAdminManager_Pending3 /\ ~coordinatorSendToRepairWithDevis
           /\ \A level \in RetourStatus : ~changeDiRetour(level)
  BY DEF FirstCycle, FirstCycleOffers, countIgnore, deleteDi, addPDFFile,
         managerAdminManager_Pending3, coordinatorSendToRepairWithDevis, changeDiRetour, Client

\* A new DI satisfies the invariant.
LEMMA FirstInitInv ==
    ASSUME FirstCycle, Init
    PROVE  FirstIInv
<1>1. IInv
  BY InitInv
<1>2. PICK s \in {"CREATED", "PENDING1"} :
        /\ di.status = s /\ di.ignoreCount = 0 /\ di.driveDocs = {}
        /\ ~di.contain_pdr /\ ~di.stockDecrementedAt
        /\ stat = [c \in Cycles |-> NoStat]
        /\ draws = 0
  <2>1. \A s \in InitialStatuses : s \in {"CREATED", "PENDING1"} /\ s \notin LegacyStatus
    BY DEF FirstCycle, LegacyStatus, LegacyApproval, LegacyClosing
  <2>2. QED
    BY <2>1 DEF Init
<1>3. /\ s \in FlowStatus /\ s \in Rowless /\ s # "ANNULER"
      /\ s \notin TakenPhase \cup RepairPhase \cup PricedPhase \cup {"IRREPARABLE"}
      /\ AwaitedDoc(s) = {}
  BY DEF FlowStatus, Status, RetourStatus, LegacyStatus, LegacyApproval, LegacyClosing,
         Rowless, TakenPhase, RepairPhase, RepairStatus, PricedPhase, AwaitedDoc
<1>4. Carried(s, di, draws) /\ GateShut(s, di)
  BY <1>2, <1>3 DEF Carried, GateShut
<1>5. RowsSound(stat, s)
  <2>1. 0 \in Cycles /\ \A c \in Cycles : stat[c] = NoStat
    BY <1>2, MaxCycleAssumption DEF Cycles
  <2>2. QED
    BY <1>3, <2>1 DEF RowsSound, NoStat
<1>6. QED
  BY <1>1, <1>2, <1>3, <1>4, <1>5 DEF FirstIInv, StandingOf, Sound

\* Every mutation of the first cycle preserves it.
LEMMA FirstStepInv ==
    ASSUME FirstCycle, FirstIInv, [Next]_vars
    PROVE  FirstIInv'
<1>1. IInv'
  BY StepInv DEF FirstIInv
<1>2. CASE UNCHANGED vars
  BY <1>1, <1>2 DEF vars, FirstIInv, StandingOf, Sound, Carried, GateShut, RowsSound,
                    HasComponents
<1>3. CASE annulerDi \/ reactiverDi
  BY <1>3, CancelStands
<1>4. CASE Next /\ ~(annulerDi \/ reactiverDi)
  <2>1. OnCourse(di', draws', stat')
    BY <1>4, NotOffered, AssignedOnCourse, DiagnosticOnCourse, PricingOnCourse,
       DocumentOnCourse, RepairOnCourse DEF Next
  <2>2. QED
    BY <1>1, <2>1, Lands
<1>5. QED
  BY <1>2, <1>3, <1>4

LEMMA FirstInvariant ==
    ASSUME FirstCycle
    PROVE  Spec => []FirstIInv
<1>1. Init => FirstIInv
  BY FirstInitInv
<1>2. FirstIInv /\ [Next]_vars => FirstIInv'
  BY FirstStepInv
<1>3. QED
  BY <1>1, <1>2, PTL DEF Spec

----------------------------------------------------------------------------
(* What follows.                                                           *)

\* A DI that is not cancelled is under way.
LEMMA StandsOrCancelled ==
    ASSUME FirstIInv
    PROVE  \/ di.status = "ANNULER" /\ "annulerDi" \in DOMAIN Screens
           \/ Underway /\ di.status \in FlowStatus
  BY DEF FirstIInv, IInv, DocOK, StandingOf, Sound, Carried, Underway, OnCourse

\* A first-cycle DI does not reach the repair without its parts taken out of the stock,
\* they are taken once, and a billed diagnostic is priced before it is closed, whatever
\* the order of the calls and wherever the DI is cancelled and reactivated.
THEOREM DuesArePaid ==
    ASSUME FirstCycle
    PROVE  Spec => []FirstCycleDues
<1>1. FirstIInv => FirstCycleDues
  <2> SUFFICES ASSUME FirstIInv PROVE FirstCycleDues
    OBVIOUS
  <2>1. StockTakenOnce
    BY DEF FirstIInv, Sound, Carried, StockTakenOnce
  <2>2. CASE di.status = "ANNULER"
    BY <2>1, <2>2 DEF FirstCycleDues, StockTakenBeforeRepair, BilledIfIrreparable, RepairStatus,
                      ClosingStatus, LegacyClosing
  <2>3. CASE Underway /\ di.status \in FlowStatus
    <3>1. di.status \in {"PENDING3"} \cup RepairStatus \cup ClosingStatus \cup {"FINISHED"}
          => di.status \in RepairPhase
      BY <2>3 DEF FlowStatus, LegacyStatus, ClosingStatus, RepairPhase
    <3>2. StockTakenBeforeRepair /\ BilledIfIrreparable
      BY <2>3, <3>1 DEF Underway, OnCourse, Sound, Carried, StockTakenBeforeRepair,
                        BilledIfIrreparable
    <3>3. QED
      BY <2>1, <3>2 DEF FirstCycleDues
  <2>4. QED
    BY <2>2, <2>3, StandsOrCancelled
<1>2. QED
  BY <1>1, FirstInvariant, PTL

\* No call leaves a DI of the first cycle at a gate whose document it has: an upload and
\* the end of the repair cross every gate that is open, and the other ways to a gate are
\* taken before there is a document.
THEOREM GatesAreCrossed ==
    ASSUME FirstCycle
    PROVE  Spec => []NoOpenGate
<1>1. FirstIInv => NoOpenGate
  BY StandsOrCancelled DEF Underway, OnCourse, Sound, GateShut, NoOpenGate, AwaitedDoc
<1>2. QED
  BY <1>1, FirstInvariant, PTL

\* The row of a DI under way has its status, and its leg is open in the diagnostic only.
LEMMA RowOfDiUnderway ==
    ASSUME Underway
    PROVE  StatInStep /\ LegOnlyInDiagnostic
<1>1. CurrentRow = Row0(stat) /\ RowsSound(stat, di.status) /\ di.ignoreCount = 0
  BY OneRow DEF Underway, OnCourse, Sound
<1>2. StatInStep
  BY <1>1 DEF StatInStep, Row0, RowsSound
<1>3. LegOnlyInDiagnostic
  BY <1>1 DEF LegOnlyInDiagnostic, RowsSound
<1>4. QED
  BY <1>2, <1>3

\* The technician's list and the coordinator's agree on a DI that is not cancelled: after
\* a reactivation they agree again, although neither call touches the row.
THEOREM StatKeptInStep ==
    ASSUME FirstCycle
    PROVE  Spec => []StatInStepUnlessCancelled
<1>1. FirstIInv => StatInStepUnlessCancelled
  BY StandsOrCancelled, RowOfDiUnderway DEF StatInStepUnlessCancelled
<1>2. QED
  BY <1>1, FirstInvariant, PTL

\* Where the DI is not cancelled they always agree, and the diagnostic is billed only
\* while it is under way.
THEOREM DiagnosticKeptInStep ==
    ASSUME FirstCycle, "annulerDi" \notin DOMAIN Screens
    PROVE  Spec => []RowFollowsDi
<1>1. FirstIInv => RowFollowsDi
  BY StandsOrCancelled, RowOfDiUnderway DEF RowFollowsDi
<1>2. QED
  BY <1>1, FirstInvariant, PTL

\* While it is cancelled, a DI of the first cycle waits for its reactivation, and the
\* accounting guard of reactiverDi refuses one that had begun its closing.
THEOREM CancelledAtTheClosing ==
    ASSUME FirstCycle
    PROVE  Spec => ClosedStaysClosed
<1>1. ASSUME FirstIInv, [Next]_vars, di.status = "ANNULER",
             di.beforeAnnul \in ClosingStatus \cup {"FINISHED"}
      PROVE  di'.status = "ANNULER"
  <2>1. CASE UNCHANGED vars
    BY <1>1, <2>1 DEF vars
  <2>2. CASE annulerDi \/ reactiverDi
    BY <1>1, <2>2 DEF annulerDi, reactiverDi
  <2>3. CASE Next /\ ~(annulerDi \/ reactiverDi)
    <3>1. \A m : m \notin {"annulerDi", "reactiverDi"} => ~Client(m)
      BY <1>1, ClientUnderway DEF FlowStatus
    <3>2. FALSE
      BY <2>3, <3>1, NotOffered
         DEF Next, createStat, affectForRep, changeStatusPending1, manager_Pending1,
             changeToPending1, sendDiBackToDiagnostic, coordinator_ToDiag,
             changeStatusInDiagnostic, changeToDiagnosticInPause, tech_startDiagnostic,
             abandonDi, magasinTech_Pending2, changeStatusPending2,
             changeStatusMagasinEstimation, changeStatusInMagasin, changeStatusPricing,
             sendDiToAdminsForPricing, affectinitialPrice, setDiagnosticPayant,
             changeStatusIrreparableFromPricing, changeStatusNegociate1,
             changeStatusNegociate2, addDevisPDF, addBlPDF, addFacturePDF, addBCPDF,
             sendComponentToConMagasinForConfirmation, componentConfirmedFromCoordinator,
             confirmDiComponents, changeStatusPending3, changeStatusRepaire,
             changeStatusInRepair, tech_startReperation, changeToReparationInPause,
             changeStatusTofinsh
    <3>3. QED
      BY <3>2
  <2>4. QED
    BY <1>1, <2>1, <2>2, <2>3
<1>2. FirstIInv /\ [Next]_vars
      => [di.status = "ANNULER" /\ di.beforeAnnul \in ClosingStatus \cup {"FINISHED"}
             => di'.status = "ANNULER"]_vars
  BY <1>1
<1>3. QED
  BY <1>2, FirstInvariant, PTL DEF Spec, ClosedStaysClosed

----------------------------------------------------------------------------
(* The first cycle implements the phases of DiPipelineSpec.                *)

\* The phase of each status.
LEMMA Phases ==
    ASSUME NEW s
    PROVE  /\ s \in EarlyPhase => PhaseOf(s) = "study"
           /\ s \in {"WAITING_DEVIS", "WAITING_BC", "NEGOTIATION2"} => PhaseOf(s) = "approval"
           /\ s \in MagasinConfirmation => PhaseOf(s) = "store"
           /\ s \in {"PENDING3"} \cup RepairStatus => PhaseOf(s) = "repair"
           /\ s \in {"WAITING_BL", "WAITING_FACTURE"} => PhaseOf(s) = "closing"
           /\ s \in {"FINISHED", "IRREPARABLE"} => PhaseOf(s) = s
           /\ s \in FlowStatus =>
                 s \in EarlyPhase \cup {"WAITING_DEVIS", "WAITING_BC", "NEGOTIATION2"}
                          \cup MagasinConfirmation \cup {"PENDING3"} \cup RepairStatus
                          \cup {"WAITING_BL", "WAITING_FACTURE", "FINISHED", "IRREPARABLE"}
  BY DEF PhaseOf, EarlyPhase, DiagStatus, ApprovalDocStatus, LegacyApproval, MagasinConfirmation,
         RepairStatus, ClosingStatus, LegacyClosing, FlowStatus, Status, RetourStatus,
         LegacyStatus

\* The state of DiPipelineSpec that a step of a DI under way leads to.
LEMMA ViewUnderway ==
    ASSUME Underway, OnCourse(di', draws', stat')
    PROVE  /\ di.status \in FlowStatus /\ di'.status \in FlowStatus
           /\ di.status # "ANNULER" /\ di'.status # "ANNULER"
           /\ StandingOf(di) = di.status /\ StandingOf(di') = di'.status
           /\ Carried(di.status, di, draws) /\ Carried(di'.status, di', draws')
  BY DEF Underway, OnCourse, Sound, Carried, StandingOf, FlowStatus

\* What DiPipelineSpec sees of the DI apart from its phase.
SeenDues == <<di.driveDocs, HasComponents(di), di.stockDecrementedAt, di.diagnosticPayant,
              di.pricingRequestSentAt>>

\* A step that stays in the phase and changes no due is a stutter of DiPipelineSpec.
LEMMA StaysInPhase ==
    ASSUME Underway, OnCourse(di', draws', stat'),
           PhaseOf(di'.status) = PhaseOf(di.status), UNCHANGED SeenDues
    PROVE  UNCHANGED Pipeline!vars
<1>1. UNCHANGED PhaseOf(StandingOf(di)) /\ UNCHANGED (di.status = "ANNULER")
  BY ViewUnderway
<1>2. QED
  BY <1>1 DEF Pipeline!vars, SeenDues

\* A step to a phase that may follow is an Advance.
LEMMA GoesOn ==
    ASSUME Underway, OnCourse(di', draws', stat'),
           PhaseOf(di'.status) \in {"approval", "store", "repair", "IRREPARABLE"},
           Pipeline!Leads(PhaseOf(di'.status)),
           di'.driveDocs = di.driveDocs, HasComponents(di') = HasComponents(di),
           di'.diagnosticPayant = di.diagnosticPayant,
           di'.pricingRequestSentAt = di.pricingRequestSentAt,
           \/ di'.stockDecrementedAt = di.stockDecrementedAt
           \/ PhaseOf(di'.status) = "repair" /\ di'.stockDecrementedAt = TRUE
    PROVE  Pipeline!Next
<1> DEFINE target == PhaseOf(di'.status)
<1>1. PhaseOf(StandingOf(di))' = target /\ ~(di.status = "ANNULER")
      /\ UNCHANGED (di.status = "ANNULER")
  BY ViewUnderway
<1>2. target = "repair" /\ HasComponents(di) => di'.stockDecrementedAt
  <2>1. target = "repair" => di'.status \in RepairPhase
    BY ViewUnderway, Phases DEF RepairPhase, EarlyPhase, MagasinConfirmation
  <2>2. QED
    BY <2>1, ViewUnderway DEF Carried
<1>3. di'.stockDecrementedAt \in {di.stockDecrementedAt, di.stockDecrementedAt \/ target = "repair"}
  OBVIOUS
<1>4. Pipeline!Advance(target)
  BY <1>1, <1>2, <1>3 DEF Pipeline!Advance
<1>5. QED
  BY <1>4 DEF Pipeline!Next

\* What the phases lead to, from the status of the DI.
LEMMA LeadsOn ==
    ASSUME Underway
    PROVE  /\ di.status = "PRICING_DIAG" => Pipeline!Leads("approval")
           /\ di.status \in EarlyPhase \cup {"WAITING_DEVIS", "WAITING_BC", "NEGOTIATION2"}
                 => Pipeline!Leads("store")
           /\ di.status \in MagasinConfirmation => Pipeline!Leads("repair")
           /\ di.status \in {"WAITING_DEVIS", "WAITING_BC", "NEGOTIATION2"} /\ ~HasComponents(di)
                 => Pipeline!Leads("repair")
           /\ di.status \in DiagStatus /\ ~di.diagnosticPayant => Pipeline!Leads("IRREPARABLE")
           /\ di.status \in PricedPhase => Pipeline!Leads("IRREPARABLE")
<1>1. /\ StandingOf(di) = di.status
      /\ di.status \in PricedPhase => di.pricingRequestSentAt
  BY DEF Underway, OnCourse, Sound, Carried, StandingOf, FlowStatus
<1>2. "PRICING_DIAG" \in EarlyPhase \cap PricedPhase /\ DiagStatus \subseteq EarlyPhase
      /\ PricedPhase \subseteq EarlyPhase \cup {"WAITING_DEVIS", "WAITING_BC", "NEGOTIATION2"}
  BY DEF EarlyPhase, PricedPhase
<1>3. QED
  BY <1>1, <1>2, Phases DEF Pipeline!Leads

\* A move within a phase, or to one that may follow.
LEMMA MoveSteps ==
    ASSUME Underway, OnCourse(di', draws', stat'), NEW t \in Status, di' = Moved(di, t),
           \/ PhaseOf(t) = PhaseOf(di.status)
           \/ PhaseOf(t) \in {"approval", "store", "IRREPARABLE"} /\ Pipeline!Leads(PhaseOf(t))
    PROVE  [Pipeline!Next]_Pipeline!vars
<1>1. SameDues(di, di') /\ di'.status = t
  BY MovedDues DEF Underway
<1>2. UNCHANGED SeenDues
  BY <1>1 DEF SameDues, SeenDues, HasComponents
<1>3. CASE PhaseOf(t) = PhaseOf(di.status)
  BY <1>1, <1>2, <1>3, StaysInPhase
<1>4. CASE PhaseOf(t) \in {"approval", "store", "IRREPARABLE"} /\ Pipeline!Leads(PhaseOf(t))
  BY <1>1, <1>2, <1>4, GoesOn DEF SeenDues
<1>5. QED
  BY <1>3, <1>4

\* A draw-down of the stock, within the store, within the repair or on the way to it.
LEMMA StockSteps ==
    ASSUME Underway, OnCourse(di', draws', stat'), NEW d \in DiDoc, StockCommitted(d),
           SameDues(di, d),
           \/ PhaseOf(d.status) = PhaseOf(di.status) /\ PhaseOf(d.status) \in {"store", "repair"}
           \/ PhaseOf(d.status) = "repair" /\ Pipeline!Leads("repair")
    PROVE  Pipeline!Next
<1>1. /\ di'.status = d.status /\ di'.stockDecrementedAt = TRUE
      /\ di'.driveDocs = di.driveDocs /\ HasComponents(di') = HasComponents(di)
      /\ di'.diagnosticPayant = di.diagnosticPayant
      /\ di'.pricingRequestSentAt = di.pricingRequestSentAt
  BY DEF StockCommitted, DiDoc, SameDues, HasComponents
<1>2. CASE PhaseOf(d.status) = PhaseOf(di.status) /\ PhaseOf(d.status) \in {"store", "repair"}
  <2>1. Pipeline!Draw
    BY <1>1, <1>2, ViewUnderway DEF Pipeline!Draw
  <2>2. QED
    BY <2>1 DEF Pipeline!Next
<1>3. CASE PhaseOf(d.status) = "repair" /\ Pipeline!Leads("repair")
  BY <1>1, <1>3, GoesOn
<1>4. QED
  BY <1>2, <1>3

\* A gate changes the status alone, and keeps it within the first cycle.
LEMMA HopDues ==
    ASSUME NEW d \in DiDoc, d.status \in FlowStatus
    PROVE  LET e == GateHop(d) IN
           SameDues(d, e) /\ e \in DiDoc /\ e.status \in FlowStatus /\ e.ignoreCount = d.ignoreCount
<1>1. {"FINISHED", "WAITING_FACTURE", "WAITING_BC", AfterBc(d)} \subseteq FlowStatus
  BY DEF AfterBc, FlowStatus, Status, RetourStatus, LegacyStatus, LegacyApproval, LegacyClosing,
         MagasinConfirmation
<1>2. \/ GateHop(d) = d
      \/ \E t \in {"FINISHED", "WAITING_FACTURE", "WAITING_BC", AfterBc(d)} : GateHop(d) = Moved(d, t)
  BY DEF GateHop, GateExit
<1>3. CASE GateHop(d) = d
  BY <1>3 DEF SameDues
<1>4. ASSUME NEW t \in FlowStatus, GateHop(d) = Moved(d, t)
      PROVE  LET e == GateHop(d) IN
             SameDues(d, e) /\ e \in DiDoc /\ e.status \in FlowStatus /\ e.ignoreCount = d.ignoreCount
  BY <1>4, MovedDues DEF FlowStatus
<1>5. QED
  BY <1>1, <1>2, <1>3, <1>4

\* Where a gate leads in a first cycle.
LEMMA HopStatus ==
    ASSUME NEW d \in DiDoc, d.status \in FlowStatus, d.ignoreCount = 0
    PROVE  GateHop(d).status =
             CASE d.status = "WAITING_BL" /\ "BL" \in d.driveDocs -> "WAITING_FACTURE"
               [] d.status = "WAITING_FACTURE" /\ "Facture" \in d.driveDocs -> "FINISHED"
               [] d.status = "WAITING_DEVIS" /\ "Devis" \in d.driveDocs -> "WAITING_BC"
               [] d.status = "WAITING_BC" /\ "BC" \in d.driveDocs -> AfterBc(d)
               [] OTHER -> d.status
<1>1. /\ d.status \notin LegacyClosing /\ GateHop(d) = GateExit(d)
      /\ \A t : Moved(d, t).status = t
  BY DEF FlowStatus, LegacyStatus, GateHop, DiDoc, Moved
<1>2. QED
  BY <1>1 DEF GateExit

\* The documents decide at once whether the closing is over.
LEMMA ClosingGates ==
    ASSUME NEW d \in DiDoc, d.ignoreCount = 0, CurrentRow # {},
           d.status \in {"WAITING_BL", "WAITING_FACTURE"},
           d.status = "WAITING_FACTURE" => "BL" \in d.driveDocs
    PROVE  /\ SameDues(d, GatesCrossed(d))
           /\ PhaseOf(GatesCrossed(d).status) = Pipeline!Closing(d.driveDocs)
<1> DEFINE once == GateHop(d)
<1>1. d.status \in FlowStatus
  BY DEF FlowStatus, Status, RetourStatus, LegacyStatus, LegacyApproval, LegacyClosing
<1>2. SameDues(d, once) /\ once \in DiDoc /\ once.status \in FlowStatus /\ once.ignoreCount = 0
  BY <1>1, HopDues
<1>3. /\ d.status = "WAITING_BL" /\ "BL" \notin d.driveDocs => once.status = "WAITING_BL"
      /\ d.status = "WAITING_BL" /\ "BL" \in d.driveDocs => once.status = "WAITING_FACTURE"
      /\ d.status = "WAITING_FACTURE" /\ "Facture" \notin d.driveDocs
            => once.status = "WAITING_FACTURE"
      /\ d.status = "WAITING_FACTURE" /\ "Facture" \in d.driveDocs => once.status = "FINISHED"
  BY <1>1, HopStatus
<1>4. GatesCrossed(d) = GateHop(once)
  BY DEF GatesCrossed
<1> HIDE DEF once
<1>5. SameDues(once, GateHop(once)) /\ once.driveDocs = d.driveDocs
  BY <1>2, HopDues DEF SameDues
<1>6. /\ once.status = "WAITING_BL" /\ "BL" \notin d.driveDocs
            => GateHop(once).status = "WAITING_BL"
      /\ once.status = "WAITING_FACTURE" /\ "Facture" \notin d.driveDocs
            => GateHop(once).status = "WAITING_FACTURE"
      /\ once.status = "WAITING_FACTURE" /\ "Facture" \in d.driveDocs
            => GateHop(once).status = "FINISHED"
      /\ once.status = "FINISHED" => GateHop(once).status = "FINISHED"
  BY <1>2, <1>5, HopStatus
<1>7. IF {"BL", "Facture"} \subseteq d.driveDocs THEN GateHop(once).status = "FINISHED"
      ELSE GateHop(once).status \in {"WAITING_BL", "WAITING_FACTURE"}
  BY <1>3, <1>6
<1>8. QED
  BY <1>2, <1>4, <1>5, <1>7, Phases DEF Pipeline!Closing, SameDues

\* The approval is left for where the purchase order leads, once the quotation and the
\* purchase order are both on file; past it, the other statuses have no gate.
LEMMA ApprovalGates ==
    ASSUME NEW d \in DiDoc, d.ignoreCount = 0,
           d.status \in FlowStatus \ {"WAITING_BL", "WAITING_FACTURE"},
           d.status = "WAITING_BC" /\ "BC" \in d.driveDocs => "Devis" \in d.driveDocs
    PROVE  /\ SameDues(d, GatesCrossed(d))
           /\ \/ PhaseOf(GatesCrossed(d).status) = PhaseOf(d.status)
              \/ /\ d.status \in {"WAITING_DEVIS", "WAITING_BC"}
                 /\ {"Devis", "BC"} \subseteq d.driveDocs
                 /\ GatesCrossed(d).status = AfterBc(d)
<1> DEFINE once == GateHop(d)
<1>1. SameDues(d, once) /\ once \in DiDoc /\ once.status \in FlowStatus /\ once.ignoreCount = 0
  BY HopDues
<1>2. \/ once.status = d.status /\ d.status \notin {"WAITING_DEVIS", "WAITING_BC"}
      \/ /\ d.status = "WAITING_DEVIS"
         /\ once.status \in {"WAITING_DEVIS", "WAITING_BC"}
         /\ once.status = "WAITING_BC" => "Devis" \in d.driveDocs
      \/ d.status = "WAITING_BC" /\ once.status = "WAITING_BC"
      \/ /\ d.status = "WAITING_BC" /\ {"Devis", "BC"} \subseteq d.driveDocs
         /\ once.status = AfterBc(d)
  BY HopStatus
<1>3. GatesCrossed(d) \in {once, GateHop(once)}
  BY DEF GatesCrossed
<1>4. AfterBc(once) = AfterBc(d)
  <2>1. once.can_be_repaired = d.can_be_repaired
    BY DEF GateHop, GateExit, Moved, DiDoc
  <2>2. QED
    BY <1>1, <2>1 DEF AfterBc, SameDues, HasComponents
<1>5. AfterBc(d) \in {"IRREPARABLE", "CONFIRMATION", "PENDING3"}
  BY DEF AfterBc
<1> HIDE DEF once
<1>6. SameDues(once, GateHop(once)) /\ once.driveDocs = d.driveDocs
  BY <1>1, HopDues DEF SameDues
<1>7. /\ once.status \notin {"WAITING_DEVIS", "WAITING_BC", "WAITING_BL", "WAITING_FACTURE"}
            => GateHop(once).status = once.status
      /\ once.status = "WAITING_DEVIS" => GateHop(once).status \in {"WAITING_DEVIS", "WAITING_BC"}
      /\ once.status = "WAITING_BC" /\ "BC" \notin d.driveDocs
            => GateHop(once).status = "WAITING_BC"
      /\ once.status = "WAITING_BC" /\ "BC" \in d.driveDocs => GateHop(once).status = AfterBc(d)
  BY <1>1, <1>4, <1>6, HopStatus
<1>8. SameDues(d, once) /\ SameDues(d, GateHop(once))
  BY <1>1, <1>6 DEF SameDues
<1>9. PhaseOf("WAITING_DEVIS") = "approval" /\ PhaseOf("WAITING_BC") = "approval"
  BY Phases
<1>10. \/ PhaseOf(once.status) = PhaseOf(d.status)
       \/ /\ d.status = "WAITING_BC" /\ {"Devis", "BC"} \subseteq d.driveDocs
          /\ once.status = AfterBc(d)
  BY <1>2, <1>9
<1>11. \/ PhaseOf(GateHop(once).status) = PhaseOf(d.status)
       \/ /\ d.status \in {"WAITING_DEVIS", "WAITING_BC"}
          /\ {"Devis", "BC"} \subseteq d.driveDocs
          /\ GateHop(once).status = AfterBc(d)
  BY <1>2, <1>5, <1>7, <1>9
<1>12. QED
  BY <1>3, <1>8, <1>10, <1>11

\* A document filed.
LEMMA UploadSteps ==
    ASSUME IInv, Underway, di.status \notin EarlyPhase, NEW doc \in Docs, Upload(doc),
           doc = "BC" => "Devis" \in di.driveDocs, OnCourse(di', draws', stat')
    PROVE  Pipeline!Next
<1> DEFINE filed == [di EXCEPT !.driveDocs = @ \cup {doc}]
           docs == di.driveDocs \cup {doc}
<1>1. Filed(doc) = filed
  BY DEF Filed, InRetour, Underway, OnCourse
<1>2. /\ filed \in DiDoc /\ filed.ignoreCount = 0 /\ filed.status = di.status
      /\ filed.driveDocs = docs
      /\ filed.contain_pdr = di.contain_pdr /\ filed.composants = di.composants
      /\ filed.can_be_repaired = di.can_be_repaired
      /\ filed.stockDecrementedAt = di.stockDecrementedAt
      /\ filed.diagnosticPayant = di.diagnosticPayant
      /\ filed.pricingRequestSentAt = di.pricingRequestSentAt
  BY DEF Underway, OnCourse, DiDoc
<1> HIDE DEF filed
<1>3. di' = GatesCrossed(filed)
  BY <1>1 DEF Upload, AdvancedFrom
<1>4. /\ di.status \in FlowStatus /\ StandingOf(di) = di.status /\ StandingOf(di') = di'.status
      /\ di.status # "ANNULER" /\ di'.status # "ANNULER"
  BY ViewUnderway
<1>5. PhaseOf(di.status) # "study"
  BY <1>4, Phases
<1>6. CASE di.status \in {"WAITING_BL", "WAITING_FACTURE"}
  <2>1. CurrentRow # {}
    BY <1>6, OneRow DEF Underway, OnCourse, Sound, Rowless
  <2>2. di.status = "WAITING_FACTURE" => "BL" \in filed.driveDocs
    BY <1>2 DEF IInv, DocOK, Closing
  <2>3. SameDues(filed, di') /\ PhaseOf(di'.status) = Pipeline!Closing(docs)
    BY <1>2, <1>3, <1>6, <2>1, <2>2, ClosingGates
  <2>4. PhaseOf(di.status) = "closing"
    BY <1>6, Phases
  <2>5. Pipeline!File(doc)
    BY <1>2, <1>4, <2>3, <2>4 DEF Pipeline!File, SameDues, HasComponents
  <2>6. QED
    BY <2>5 DEF Pipeline!Next, Pipeline!Docs, Docs
<1>7. CASE di.status \notin {"WAITING_BL", "WAITING_FACTURE"}
  <2>1. di.status = "WAITING_BC" /\ "BC" \in filed.driveDocs => "Devis" \in filed.driveDocs
    BY <1>2 DEF Underway, OnCourse, Sound, GateShut, AwaitedDoc
  <2>2. /\ SameDues(filed, di')
        /\ \/ PhaseOf(di'.status) = PhaseOf(di.status)
           \/ /\ di.status \in {"WAITING_DEVIS", "WAITING_BC"}
              /\ {"Devis", "BC"} \subseteq docs
              /\ di'.status = AfterBc(filed)
    BY <1>2, <1>3, <1>4, <1>7, <2>1, ApprovalGates
  <2>3. PhaseOf(di.status) # "closing"
    BY <1>4, <1>7, Phases
  <2>4. /\ PhaseOf(di.status) # "study" /\ ~(di.status = "ANNULER") /\ ~(di'.status = "ANNULER")
        /\ di'.driveDocs = di.driveDocs \cup {doc}
        /\ HasComponents(di') = HasComponents(di)
        /\ di'.stockDecrementedAt = di.stockDecrementedAt
        /\ di'.diagnosticPayant = di.diagnosticPayant
        /\ di'.pricingRequestSentAt = di.pricingRequestSentAt
    BY <1>2, <1>4, <1>5, <2>2 DEF SameDues, HasComponents
  <2>5. CASE PhaseOf(di'.status) = PhaseOf(di.status)
    <3>1. Pipeline!File(doc)
      BY <1>4, <2>3, <2>4, <2>5 DEF Pipeline!File
    <3>2. QED
      BY <3>1 DEF Pipeline!Next, Pipeline!Docs, Docs
  <2>6. CASE /\ di.status \in {"WAITING_DEVIS", "WAITING_BC"}
             /\ {"Devis", "BC"} \subseteq docs
             /\ di'.status = AfterBc(filed)
    <3>1. PhaseOf(di.status) = "approval"
      BY <2>6, Phases
    <3>2. /\ di'.status \in {"IRREPARABLE", "CONFIRMATION", "PENDING3"}
          /\ di'.status = "PENDING3" => ~HasComponents(di)
      BY <1>2, <2>6 DEF AfterBc, HasComponents
    <3>3. /\ PhaseOf(di'.status) \in {"store", "repair", "IRREPARABLE"}
          /\ PhaseOf(di'.status) = "repair" => ~HasComponents(di)
      BY <3>2, Phases DEF MagasinConfirmation
    <3>4. Pipeline!Leads(PhaseOf(di'.status))
      BY <2>6, <3>3, LeadsOn DEF PricedPhase
    <3>5. Pipeline!File(doc)
      BY <1>4, <2>4, <2>6, <3>1, <3>3, <3>4 DEF Pipeline!File
    <3>6. QED
      BY <3>5 DEF Pipeline!Next, Pipeline!Docs, Docs
  <2>7. QED
    BY <2>2, <2>5, <2>6
<1>8. QED
  BY <1>6, <1>7

\* The end of the repair.
LEMMA RepairedSteps ==
    ASSUME Underway, di.status \in RepairStatus, OnCourse(di', draws', stat'),
           di' = GatesCrossed(Moved(di, "WAITING_BL"))
    PROVE  Pipeline!Next
<1> DEFINE waiting == Moved(di, "WAITING_BL")
<1>1. /\ SameDues(di, waiting) /\ waiting \in DiDoc
      /\ waiting.ignoreCount = 0 /\ waiting.status = "WAITING_BL"
  BY MovedDues DEF Underway, OnCourse, Status
<1>2. CurrentRow # {}
  BY OneRow DEF Underway, OnCourse, Sound, Rowless, RepairStatus
<1> HIDE DEF waiting
<1>3. SameDues(waiting, di') /\ PhaseOf(di'.status) = Pipeline!Closing(waiting.driveDocs)
  BY <1>1, <1>2, ClosingGates DEF waiting
<1>4. Pipeline!Repaired
  BY <1>1, <1>3, ViewUnderway, Phases DEF Pipeline!Repaired, SameDues, HasComponents
<1>5. QED
  BY <1>4 DEF Pipeline!Next

\* The way into the diagnostic and the diagnostic itself stay in the study.
LEMMA DiagnosticSteps ==
    ASSUME FirstCycle, FirstIInv, OnCourse(di', draws', stat'),
           \/ changeStatusPending1 \/ manager_Pending1 \/ changeToPending1
           \/ sendDiBackToDiagnostic \/ coordinator_ToDiag
           \/ changeStatusInDiagnostic \/ changeToDiagnosticInPause
           \/ tech_startDiagnostic \/ abandonDi
    PROVE  [Pipeline!Next]_Pipeline!vars
<1>1. /\ Underway /\ ~InRetour /\ di.status \in FlowStatus
      /\ \A statuses : \A m \in {"manager_Pending1", "changeToPending1",
               "changeToDiagnosticInPause", "tech_startDiagnostic"} :
            OfferedWithin(Screens, m, statuses) /\ Client(m) => di.status \in statuses
  <2>1. \/ Client("changeStatusPending1") \/ Client("manager_Pending1")
        \/ Client("changeToPending1") \/ Client("sendDiBackToDiagnostic")
        \/ Client("coordinator_ToDiag") \/ Client("changeStatusInDiagnostic")
        \/ Client("changeToDiagnosticInPause") \/ Client("tech_startDiagnostic")
        \/ Client("abandonDi")
    BY DEF changeStatusPending1, manager_Pending1, changeToPending1, sendDiBackToDiagnostic,
           coordinator_ToDiag, changeStatusInDiagnostic, changeToDiagnosticInPause,
           tech_startDiagnostic, abandonDi
  <2>2. QED
    BY <2>1, ClientUnderway
<1>2. CASE tech_startDiagnostic
  <2>1. di.status \in DiagStatus
    BY <1>1, <1>2 DEF FirstCycle, FirstCycleOffers, tech_startDiagnostic
  <2>2. PICK repairable \in BOOLEAN, pdr \in BOOLEAN, parts \in BOOLEAN :
           di' = [di EXCEPT !.can_be_repaired = repairable, !.contain_pdr = pdr,
                            !.composants = parts, !.stockDecrementedAt = FALSE]
    BY <1>1, <1>2 DEF tech_startDiagnostic
  <2>3. /\ di'.status = di.status /\ di'.driveDocs = di.driveDocs
        /\ di'.diagnosticPayant = di.diagnosticPayant
        /\ di'.pricingRequestSentAt = di.pricingRequestSentAt
        /\ di'.stockDecrementedAt = FALSE
        /\ HasComponents(di') \in BOOLEAN
    BY <1>1, <2>2 DEF Underway, DiDoc, HasComponents
  <2>4. di.stockDecrementedAt = FALSE
    BY <1>1, <2>1 DEF Underway, DiDoc, OnCourse, Sound, Carried, DiagStatus, TakenPhase,
                      RepairPhase, RepairStatus
  <2>5. PhaseOf(di.status) = "study"
    BY <2>1, Phases DEF EarlyPhase
  <2>6. Pipeline!Study
    BY <1>1, <2>3, <2>4, <2>5, ViewUnderway DEF Pipeline!Study
  <2>7. QED
    BY <2>6 DEF Pipeline!Next
<1>3. CASE ~tech_startDiagnostic
  <2> DEFINE target == {"PENDING1", "DIAGNOSTIC", "INDIAGNOSTIC", "DIAGNOSTIC_Pause"}
  <2>1. PICK t \in target : di' = Moved(di, t)
    BY <1>3 DEF changeStatusPending1, manager_Pending1, changeToPending1, sendDiBackToDiagnostic,
                coordinator_ToDiag, changeStatusInDiagnostic, changeToDiagnosticInPause,
                abandonDi, GuardedMove
  <2>2. di.status \in EarlyPhase
    <3>1. CASE changeStatusPending1 \/ sendDiBackToDiagnostic
      BY <1>1, <3>1, Sources
         DEF changeStatusPending1, sendDiBackToDiagnostic, GuardedMove, Allowed, EarlyPhase
    <3>2. CASE manager_Pending1 \/ changeToPending1
      BY <1>1, <3>2
         DEF FirstCycle, FirstCycleOffers, manager_Pending1, changeToPending1, EarlyPhase
    <3>3. CASE coordinator_ToDiag \/ changeStatusInDiagnostic
      BY <1>1, <3>3, Sources DEF coordinator_ToDiag, changeStatusInDiagnostic, GuardedMove,
                                 Allowed, EarlyPhase, DiagStatus
    <3>4. CASE changeToDiagnosticInPause \/ abandonDi
      BY <1>1, <3>4
         DEF FirstCycle, FirstCycleOffers, changeToDiagnosticInPause, abandonDi, EarlyPhase
    <3>5. QED
      BY <1>3, <3>1, <3>2, <3>3, <3>4
  <2>3. t \in Status /\ t \in EarlyPhase
    BY <2>1 DEF EarlyPhase, DiagStatus, Status
  <2>4. PhaseOf(t) = PhaseOf(di.status)
    BY <2>2, <2>3, Phases
  <2>5. QED
    BY <1>1, <2>1, <2>3, <2>4, MoveSteps
<1>4. QED
  BY <1>2, <1>3

\* The move to PENDING2 and the closing of an irreparable DI.
LEMMA ToPending2Steps ==
    ASSUME Underway, di.status # "CONFIRMATION", ToPending2, OnCourse(di', draws', stat')
    PROVE  [Pipeline!Next]_Pipeline!vars
<1>1. di.status \in EarlyPhase /\ "PENDING2" \in EarlyPhase \cap Status
  BY Sources DEF ToPending2, Allowed, Underway, OnCourse, Sound, Carried, EarlyPhase, DiagStatus,
                 Status
<1>2. PhaseOf("PENDING2") = PhaseOf(di.status)
  BY <1>1, Phases
<1>3. QED
  BY <1>1, <1>2, MoveSteps DEF ToPending2

LEMMA IrreparableSteps ==
    ASSUME Underway, NEW st, CloseIrreparable(di, st), OnCourse(di', draws', stat'),
           di.status \in DiagStatus => ~di.diagnosticPayant
    PROVE  [Pipeline!Next]_Pipeline!vars
<1>1. di.status \in {"IRREPARABLE"} \cup PricedPhase \cup DiagStatus
  BY Sources DEF CloseIrreparable, Underway, OnCourse, Sound, Carried, PricedPhase
<1>2. PhaseOf("IRREPARABLE") = "IRREPARABLE" /\ "IRREPARABLE" \in Status
  BY Phases DEF Status
<1>3. PhaseOf("IRREPARABLE") = PhaseOf(di.status) \/ Pipeline!Leads("IRREPARABLE")
  BY <1>1, <1>2, LeadsOn
<1>4. QED
  BY <1>2, <1>3, MoveSteps DEF CloseIrreparable

\* The store and the pricing.
LEMMA PricingSteps ==
    ASSUME FirstCycle, FirstIInv, OnCourse(di', draws', stat'),
           \/ magasinTech_Pending2 \/ changeStatusPending2
           \/ changeStatusMagasinEstimation \/ changeStatusInMagasin
           \/ changeStatusPricing \/ sendDiToAdminsForPricing
           \/ affectinitialPrice \/ setDiagnosticPayant
           \/ changeStatusIrreparableFromPricing
           \/ changeStatusNegociate1 \/ changeStatusNegociate2
    PROVE  [Pipeline!Next]_Pipeline!vars
<1>1. /\ Underway /\ ~InRetour /\ di.status \in FlowStatus
      /\ \A statuses : \A m \in {"magasinTech_Pending2", "changeStatusPending2",
               "changeStatusMagasinEstimation", "changeStatusInMagasin", "setDiagnosticPayant",
               "changeStatusIrreparableFromPricing"} :
            OfferedWithin(Screens, m, statuses) /\ Client(m) => di.status \in statuses
  <2>1. \/ Client("magasinTech_Pending2") \/ Client("changeStatusPending2")
        \/ Client("changeStatusMagasinEstimation") \/ Client("changeStatusInMagasin")
        \/ Client("changeStatusPricing") \/ Client("sendDiToAdminsForPricing")
        \/ Client("affectinitialPrice") \/ Client("setDiagnosticPayant")
        \/ Client("changeStatusIrreparableFromPricing")
        \/ Client("changeStatusNegociate1") \/ Client("changeStatusNegociate2")
    BY DEF magasinTech_Pending2, changeStatusPending2, changeStatusMagasinEstimation,
           changeStatusInMagasin, changeStatusPricing, sendDiToAdminsForPricing,
           affectinitialPrice, setDiagnosticPayant, changeStatusIrreparableFromPricing,
           changeStatusNegociate1, changeStatusNegociate2
  <2>2. QED
    BY <2>1, ClientUnderway
<1>2. CASE magasinTech_Pending2 \/ changeStatusPending2
  <2>1. di.status # "CONFIRMATION"
    BY <1>1, <1>2 DEF FirstCycle, FirstCycleOffers, magasinTech_Pending2, changeStatusPending2
  <2>2. QED
    BY <1>1, <1>2, <2>1, ToPending2Steps DEF magasinTech_Pending2, changeStatusPending2
<1>3. CASE changeStatusMagasinEstimation
  <2>1. di.status # "CONFIRMATION"
    BY <1>1, <1>3 DEF FirstCycle, FirstCycleOffers, changeStatusMagasinEstimation
  <2>2. CASE ToPending2
    BY <1>1, <2>1, <2>2, ToPending2Steps
  <2>3. CASE Allowed("MagasinEstimation") /\ di' = Moved(di, "MagasinEstimation")
    <3>1. di.status \in EarlyPhase /\ "MagasinEstimation" \in EarlyPhase \cap Status
      BY <1>1, <2>3, Sources DEF Allowed, EarlyPhase, DiagStatus, Status
    <3>2. PhaseOf("MagasinEstimation") = PhaseOf(di.status)
      BY <3>1, Phases
    <3>3. QED
      BY <1>1, <2>3, <3>1, <3>2, MoveSteps
  <2>4. QED
    BY <1>1, <1>3, <2>2, <2>3 DEF changeStatusMagasinEstimation
<1>4. CASE changeStatusInMagasin
  <2>1. /\ di.status \in {"CONFIRMATION", "MagasinEstimation", "WAITING_BC", "NEGOTIATION2"}
        /\ di' = Moved(di, "CONFIRMATION")
    <3>1. di.status \notin DiagStatus
      BY <1>1, <1>4 DEF FirstCycle, FirstCycleOffers, changeStatusInMagasin
    <3>2. QED
      BY <1>1, <1>4, <3>1, Sources DEF changeStatusInMagasin, GuardedMove, Allowed, DiagStatus
  <2>2. PhaseOf("CONFIRMATION") = "store" /\ "CONFIRMATION" \in Status
    BY Phases DEF MagasinConfirmation, Status
  <2>3. PhaseOf(di.status) = "store" \/ Pipeline!Leads("store")
    BY <1>1, <2>1, <2>2, LeadsOn DEF EarlyPhase
  <2>4. QED
    BY <1>1, <2>1, <2>2, <2>3, MoveSteps
<1>5. CASE changeStatusPricing \/ sendDiToAdminsForPricing
  <2>1. /\ Allowed("PRICING_DIAG")
        /\ di' = [Moved(di, "PRICING_DIAG") EXCEPT !.pricingRequestSentAt = TRUE]
    BY <1>5 DEF changeStatusPricing, sendDiToAdminsForPricing, ToPricing
  <2>2. /\ di.status \in EarlyPhase
        /\ "PRICING_DIAG" \in EarlyPhase \cap Status
    BY <1>1, <2>1, Sources DEF Allowed, EarlyPhase, Status
  <2>3. /\ di'.status = "PRICING_DIAG" /\ di'.pricingRequestSentAt = TRUE
        /\ di'.driveDocs = di.driveDocs /\ di'.stockDecrementedAt = di.stockDecrementedAt
        /\ di'.diagnosticPayant = di.diagnosticPayant
        /\ HasComponents(di') = HasComponents(di)
    <3>1. Moved(di, "PRICING_DIAG") \in DiDoc /\ SameDues(di, Moved(di, "PRICING_DIAG"))
          /\ Moved(di, "PRICING_DIAG").status = "PRICING_DIAG"
      BY <1>1, <2>2, MovedDues DEF Underway
    <3>2. QED
      BY <2>1, <3>1 DEF DiDoc, SameDues, HasComponents
  <2>4. PhaseOf(di.status) = "study" /\ PhaseOf(di'.status) = "study"
    BY <2>2, <2>3, Phases
  <2>5. Pipeline!Study
    BY <1>1, <2>3, <2>4, ViewUnderway DEF Pipeline!Study, HasComponents
  <2>6. QED
    BY <2>5 DEF Pipeline!Next
<1>6. CASE affectinitialPrice
  <2>1. di'.status = di.status /\ UNCHANGED SeenDues
    BY <1>1, <1>6 DEF affectinitialPrice, Underway, DiDoc, SeenDues, HasComponents
  <2>2. QED
    BY <1>1, <2>1, StaysInPhase
<1>7. CASE setDiagnosticPayant
  <2>1. di.status # "IRREPARABLE"
    BY <1>1, <1>7 DEF FirstCycle, FirstCycleOffers, setDiagnosticPayant
  <2>2. PICK payant \in BOOLEAN : di' = [di EXCEPT !.diagnosticPayant = payant]
    BY <1>7 DEF setDiagnosticPayant
  <2>3. /\ di'.status = di.status /\ di'.driveDocs = di.driveDocs
        /\ HasComponents(di') = HasComponents(di)
        /\ di'.stockDecrementedAt = di.stockDecrementedAt
        /\ di'.pricingRequestSentAt = di.pricingRequestSentAt
        /\ di'.diagnosticPayant \in BOOLEAN
    BY <1>1, <2>2 DEF Underway, DiDoc, HasComponents
  <2>4. PhaseOf(di.status) # "IRREPARABLE"
    BY <1>1, <2>1, Phases
  <2>5. Pipeline!Bill
    BY <1>1, <2>3, <2>4, ViewUnderway DEF Pipeline!Bill
  <2>6. QED
    BY <2>5 DEF Pipeline!Next
<1>8. CASE changeStatusIrreparableFromPricing
  <2>1. di.status \notin DiagStatus
    BY <1>1, <1>8 DEF FirstCycle, FirstCycleOffers, changeStatusIrreparableFromPricing
  <2>2. QED
    BY <1>1, <1>8, <2>1, IrreparableSteps DEF changeStatusIrreparableFromPricing
<1>9. CASE changeStatusNegociate1 \/ changeStatusNegociate2
  <2>1. PICK t \in {"WAITING_DEVIS", "NEGOTIATION2"} :
           /\ di' = Moved(di, t)
           /\ di.status \in {"WAITING_DEVIS", "WAITING_BC", "NEGOTIATION2"}
              \/ di.status = "PRICING_DIAG"
    BY <1>1, <1>9, Sources
       DEF changeStatusNegociate1, changeStatusNegociate2, GuardedMove, Allowed
  <2>2. PhaseOf(t) = "approval" /\ t \in Status
    BY <2>1, Phases DEF Status
  <2>3. PhaseOf(di.status) = "approval" \/ Pipeline!Leads("approval")
    BY <1>1, <2>1, Phases, LeadsOn
  <2>4. QED
    BY <1>1, <2>1, <2>2, <2>3, MoveSteps
<1>10. QED
  BY <1>2, <1>3, <1>4, <1>5, <1>6, <1>7, <1>8, <1>9

\* The documents and the confirmation of the components.
LEMMA DocumentSteps ==
    ASSUME FirstCycle, FirstIInv, OnCourse(di', draws', stat'),
           \/ addDevisPDF \/ addBlPDF \/ addFacturePDF \/ addBCPDF
           \/ sendComponentToConMagasinForConfirmation
           \/ componentConfirmedFromCoordinator \/ confirmDiComponents
    PROVE  [Pipeline!Next]_Pipeline!vars
<1>1. /\ Underway /\ ~InRetour /\ di.status \in FlowStatus /\ IInv
      /\ \A statuses : \A m \in {"addDevis", "addBl", "addFacture"} :
            OfferedWithin(Screens, m, statuses) /\ Client(m) => di.status \in statuses
  <2>1. \/ Client("addDevis") \/ Client("addBl") \/ Client("addFacture") \/ Client("addBC")
        \/ Client("sendComponentToConMagasinForConfirmation")
        \/ Client("componentConfirmedFromCoordinator") \/ Client("confirmDiComponents")
    BY DEF addDevisPDF, addBlPDF, addFacturePDF, addBCPDF,
           sendComponentToConMagasinForConfirmation, componentConfirmedFromCoordinator,
           confirmDiComponents
  <2>2. QED
    BY <2>1, ClientUnderway DEF FirstIInv
<1>2. CASE addDevisPDF \/ addBlPDF \/ addFacturePDF
  <2>1. di.status \notin EarlyPhase
    BY <1>1, <1>2 DEF FirstCycle, FirstCycleOffers, addDevisPDF, addBlPDF, addFacturePDF
  <2>2. PICK doc \in {"Devis", "BL", "Facture"} : Upload(doc)
    BY <1>2 DEF addDevisPDF, addBlPDF, addFacturePDF
  <2>3. QED
    BY <1>1, <2>1, <2>2, UploadSteps DEF Docs
<1>3. CASE addBCPDF
  <2>1. di.status \notin EarlyPhase
    BY <1>1, <1>3 DEF addBCPDF, Underway, OnCourse, Sound, Carried
  <2>2. QED
    BY <1>1, <1>3, <2>1, UploadSteps DEF addBCPDF, Docs
<1>4. ASSUME NEW t \in {"ATTENTE_CONFIRMATION_COORDINATION", "MAGASIN_FINALISATION"},
             Allowed(t), NEW d, StockCommitted(d),
             d = Moved(di, t) \/ d = [Moved(di, t) EXCEPT !.componentsConfirmedAt = TRUE]
      PROVE  Pipeline!Next
  <2>1. /\ di.status \in MagasinConfirmation /\ t \in MagasinConfirmation /\ t \in Status
    BY <1>1, <1>4, Sources DEF Allowed, MagasinConfirmation, Status
  <2>2. /\ d \in DiDoc /\ SameDues(di, d) /\ d.status = t
    <3>1. Moved(di, t) \in DiDoc /\ SameDues(di, Moved(di, t)) /\ Moved(di, t).status = t
      BY <1>1, <2>1, MovedDues DEF Underway
    <3>2. QED
      BY <1>4, <3>1 DEF DiDoc, SameDues
  <2>3. PhaseOf(t) = "store" /\ PhaseOf(di.status) = "store"
    BY <2>1, Phases
  <2>4. QED
    BY <1>1, <1>4, <2>2, <2>3, StockSteps
<1>5. CASE sendComponentToConMagasinForConfirmation
  <2>1. Allowed("ATTENTE_CONFIRMATION_COORDINATION")
    BY <1>5 DEF sendComponentToConMagasinForConfirmation
  <2>2. CurrentRow # {}
    <3>1. di.status \in {"ATTENTE_CONFIRMATION_COORDINATION", "CONFIRMATION"}
      BY <1>1, <2>1, Sources DEF Allowed
    <3>2. QED
      BY <1>1, <3>1, OneRow DEF Underway, OnCourse, Sound, Rowless
  <2>3. StockCommitted(Moved(di, "ATTENTE_CONFIRMATION_COORDINATION"))
    BY <1>5, <2>2 DEF sendComponentToConMagasinForConfirmation
  <2>4. QED
    BY <1>4, <2>1, <2>3
<1>6. CASE componentConfirmedFromCoordinator \/ confirmDiComponents
  <2>1. /\ Allowed("MAGASIN_FINALISATION")
        /\ StockCommitted([Moved(di, "MAGASIN_FINALISATION") EXCEPT !.componentsConfirmedAt = TRUE])
    BY <1>1, <1>6 DEF componentConfirmedFromCoordinator, confirmDiComponents, ConfirmComponents
  <2>2. QED
    BY <1>4, <2>1
<1>7. QED
  BY <1>2, <1>3, <1>5, <1>6

\* The repair and the closing.
LEMMA RepairSteps ==
    ASSUME FirstCycle, FirstIInv, OnCourse(di', draws', stat'),
           \/ changeStatusPending3 \/ changeStatusRepaire \/ changeStatusInRepair
           \/ tech_startReperation \/ changeToReparationInPause \/ changeStatusTofinsh
    PROVE  [Pipeline!Next]_Pipeline!vars
<1>1. /\ Underway /\ ~InRetour /\ di.status \in FlowStatus
      /\ \A statuses : \A m \in {"tech_startReperation", "changeToReparationInPause"} :
            OfferedWithin(Screens, m, statuses) /\ Client(m) => di.status \in statuses
  <2>1. \/ Client("changeStatusPending3") \/ Client("changeStatusRepaire")
        \/ Client("changeStatusInRepair") \/ Client("tech_startReperation")
        \/ Client("changeToReparationInPause") \/ Client("changeStatusTofinsh")
    BY DEF changeStatusPending3, changeStatusRepaire, changeStatusInRepair,
           tech_startReperation, changeToReparationInPause, changeStatusTofinsh
  <2>2. QED
    BY <2>1, ClientUnderway
<1>2. CASE changeStatusPending3
  <2>1. /\ Allowed("PENDING3") /\ StockCommitted(Moved(di, "PENDING3"))
        /\ di.status \in {"WAITING_BC", "NEGOTIATION2"} => ~HasComponents(di)
    BY <1>2 DEF changeStatusPending3, ApprovalDocStatus
  <2>2. di.status \in {"PENDING3", "WAITING_BC", "NEGOTIATION2"} \cup MagasinConfirmation
    BY <1>1, <2>1, Sources DEF Allowed
  <2>3. /\ Moved(di, "PENDING3") \in DiDoc /\ SameDues(di, Moved(di, "PENDING3"))
        /\ Moved(di, "PENDING3").status = "PENDING3"
    BY <1>1, MovedDues DEF Underway, Status
  <2>4. PhaseOf("PENDING3") = "repair"
    BY Phases
  <2>5. di.status = "PENDING3" \/ Pipeline!Leads("repair")
    BY <1>1, <2>1, <2>2, LeadsOn
  <2>6. QED
    BY <1>1, <2>1, <2>3, <2>4, <2>5, StockSteps
<1>3. CASE changeStatusRepaire \/ changeStatusInRepair \/ tech_startReperation
           \/ changeToReparationInPause
  <2>1. PICK t \in RepairStatus : di' = Moved(di, t)
    BY <1>3 DEF changeStatusRepaire, changeStatusInRepair, tech_startReperation,
                changeToReparationInPause, GuardedMove, RepairStatus
  <2>2. di.status \in {"PENDING3"} \cup RepairStatus
    <3>1. CASE changeStatusRepaire \/ changeStatusInRepair
      BY <1>1, <3>1, Sources
         DEF changeStatusRepaire, changeStatusInRepair, GuardedMove, Allowed, RepairStatus
    <3>2. CASE tech_startReperation \/ changeToReparationInPause
      BY <1>1, <3>2 DEF FirstCycle, FirstCycleOffers, tech_startReperation, changeToReparationInPause
    <3>3. QED
      BY <1>3, <3>1, <3>2
  <2>3. PhaseOf(t) = PhaseOf(di.status) /\ t \in Status
    BY <2>1, <2>2, Phases DEF Status
  <2>4. QED
    BY <1>1, <2>1, <2>3, MoveSteps
<1>4. CASE changeStatusTofinsh
  <2>1. CASE di.status \in DiagStatus /\ ToPending2
    <3>1. di.status # "CONFIRMATION"
      BY <2>1 DEF DiagStatus
    <3>2. QED
      BY <1>1, <2>1, <3>1, ToPending2Steps
  <2>2. CASE /\ di.status \in DiagStatus /\ ~di.diagnosticPayant
             /\ CloseIrreparable(di, LegClosedAndSynced("IRREPARABLE"))
    BY <1>1, <2>2, IrreparableSteps
  <2>3. CASE di.status \notin DiagStatus /\ CloseIrreparable(di, Synced("IRREPARABLE"))
    BY <1>1, <2>3, IrreparableSteps
  <2>4. CASE /\ di.status \in RepairStatus
             /\ IF CurrentRow = {} THEN di' = Moved(di, "WAITING_BL") /\ UNCHANGED stat
                ELSE AdvancedFrom(Moved(di, "WAITING_BL"), Synced("WAITING_BL"))
    <3>1. CurrentRow # {}
      BY <1>1, <2>4, OneRow DEF Underway, OnCourse, Sound, Rowless, RepairStatus
    <3>2. di' = GatesCrossed(Moved(di, "WAITING_BL"))
      BY <2>4, <3>1 DEF AdvancedFrom
    <3>3. QED
      BY <1>1, <2>4, <3>2, RepairedSteps
  <2>5. QED
    BY <1>1, <1>4, <2>1, <2>2, <2>3, <2>4 DEF changeStatusTofinsh
<1>5. QED
  BY <1>2, <1>3, <1>4

\* The cancellation and the reactivation.
LEMMA CancelSteps ==
    ASSUME FirstIInv, annulerDi \/ reactiverDi
    PROVE  Pipeline!Next
<1>0. di \in DiDoc /\ StandingOf(di) \in FlowStatus
  BY DEF FirstIInv, IInv, DocOK, Sound, Carried
<1>1. ASSUME NEW t \in Status, NEW mark \in BOOLEAN,
             di' = [Moved(di, t) EXCEPT !.annuleLe = mark]
      PROVE  /\ di'.status = t /\ UNCHANGED SeenDues
             /\ t = "ANNULER" => di'.beforeAnnul = di.status
  <2>1. /\ Moved(di, t) \in DiDoc /\ SameDues(di, Moved(di, t)) /\ Moved(di, t).status = t
    BY <1>0, MovedDues
  <2>2. t = "ANNULER" => Moved(di, t).beforeAnnul = di.status
    BY <1>0 DEF Moved, DiDoc
  <2>3. QED
    BY <1>1, <2>1, <2>2 DEF DiDoc, SameDues, SeenDues, HasComponents
<1>2. CASE annulerDi
  <2>1. di.status # "ANNULER" /\ di' = [Moved(di, "ANNULER") EXCEPT !.annuleLe = TRUE]
    BY <1>2 DEF annulerDi
  <2>2. di'.status = "ANNULER" /\ di'.beforeAnnul = di.status /\ UNCHANGED SeenDues
    <3>1. "ANNULER" \in Status
      BY DEF Status
    <3>2. QED
      BY <1>1, <2>1, <3>1
  <2>3. StandingOf(di') = StandingOf(di)
    BY <2>1, <2>2 DEF StandingOf
  <2>4. Pipeline!Cancel
    BY <2>1, <2>2, <2>3 DEF Pipeline!Cancel, SeenDues
  <2>5. QED
    BY <2>4 DEF Pipeline!Next
<1>3. CASE reactiverDi
  <2>1. /\ di.status = "ANNULER" /\ di' = [Moved(di, di.beforeAnnul) EXCEPT !.annuleLe = FALSE]
        /\ StandingOf(di) = di.beforeAnnul
        /\ di.beforeAnnul \in FlowStatus \ (ClosingStatus \cup {"FINISHED"})
    BY <1>0, <1>3 DEF reactiverDi, StandingOf
  <2>2. /\ di'.status = di.beforeAnnul /\ di.beforeAnnul # "ANNULER" /\ UNCHANGED SeenDues
    BY <1>1, <2>1 DEF FlowStatus
  <2>3. StandingOf(di') = StandingOf(di)
    BY <2>1, <2>2 DEF StandingOf
  <2>4. PhaseOf(StandingOf(di)) \notin {"closing", "FINISHED"}
    BY <2>1, Phases DEF ClosingStatus
  <2>5. Pipeline!Reactivate
    BY <2>1, <2>2, <2>3, <2>4 DEF Pipeline!Reactivate, SeenDues
  <2>6. QED
    BY <2>5 DEF Pipeline!Next
<1>4. QED
  BY <1>2, <1>3

\* Every step of the first cycle is a step of DiPipelineSpec, or a stutter.
LEMMA StepImplementsPipeline ==
    ASSUME FirstCycle, FirstIInv, [Next]_vars
    PROVE  [Pipeline!Next]_Pipeline!vars
<1>1. CASE UNCHANGED vars
  BY <1>1 DEF vars, Pipeline!vars
<1>2. CASE annulerDi \/ reactiverDi
  BY <1>2, CancelSteps
<1>3. CASE createStat \/ affectForRep
  BY <1>3 DEF createStat, affectForRep, Pipeline!vars
<1>4. CASE Next /\ ~(annulerDi \/ reactiverDi)
  <2>1. OnCourse(di', draws', stat')
    BY <1>4, NotOffered, AssignedOnCourse, DiagnosticOnCourse, PricingOnCourse,
       DocumentOnCourse, RepairOnCourse DEF Next
  <2>2. QED
    BY <1>3, <1>4, <2>1, NotOffered, DiagnosticSteps, PricingSteps, DocumentSteps, RepairSteps
       DEF Next
<1>5. QED
  BY <1>1, <1>2, <1>4

\* A new DI is in its study.
LEMMA InitImplementsPipeline ==
    ASSUME FirstCycle, Init
    PROVE  Pipeline!Init
<1>1. /\ di.status \in {"CREATED", "PENDING1"} /\ di.driveDocs = {}
      /\ di.diagnosticPayant \in BOOLEAN
      /\ di.contain_pdr = FALSE /\ di.stockDecrementedAt = FALSE
      /\ di.pricingRequestSentAt = FALSE
  BY DEF Init, FirstCycle, LegacyStatus
<1>2. /\ StandingOf(di) = di.status /\ di.status # "ANNULER"
      /\ PhaseOf(di.status) = "study" /\ HasComponents(di) = FALSE
  BY <1>1, Phases DEF StandingOf, EarlyPhase, HasComponents
<1>3. QED
  BY <1>1, <1>2 DEF Pipeline!Init

\* Whatever the order of the calls, a DI of the first cycle goes from phase to phase with
\* what is due before each: the pricing of its diagnostic, its parts confirmed and drawn
\* before its repair, its two closing documents before its end, none of them taken away;
\* a cancellation changes nothing of it, and is not undone once its closing has begun.
THEOREM PipelineImplemented ==
    ASSUME FirstCycle
    PROVE  Spec => ImplementsPipeline
<1>1. Init => Pipeline!Init
  BY InitImplementsPipeline
<1>2. FirstIInv /\ [Next]_vars => [Pipeline!Next]_Pipeline!vars
  BY StepImplementsPipeline
<1>3. QED
  BY <1>1, <1>2, FirstInvariant, PTL DEF Spec, ImplementsPipeline, Pipeline!Spec

----------------------------------------------------------------------------
(* The components of a DI that never comes back, whatever the screens.     *)

\* Neither the call that opens a retour cycle nor the one that skips the components check
\* is issued.
NeverReturned == DOMAIN Screens \cap {"countIgnore", "managerAdminManager_Pending3"} = {}

\* From d, a step to e does not enter PENDING3 with components left unconfirmed.
Confirmed(d, e) ==
    /\ e.ignoreCount = d.ignoreCount
    /\ e.status = "PENDING3" /\ d.status # "PENDING3" /\ HasComponents(d)
       => d.status \in MagasinConfirmation \cup {"CONFIRMATION_COMPOSANTS"} \cup ReentrySource

\* No gate lets a DI with components into PENDING3.
LEMMA HopConfirms ==
    ASSUME NEW d \in DiDoc
    PROVE  LET e == GateHop(d) IN
           /\ e \in DiDoc /\ e.ignoreCount = d.ignoreCount
           /\ HasComponents(e) = HasComponents(d)
           /\ e.status = "PENDING3" /\ d.status # "PENDING3" => ~HasComponents(d)
<1>1. ASSUME NEW t \in Status, GateHop(d) = Moved(d, t), t = "PENDING3" => ~HasComponents(d)
      PROVE  LET e == GateHop(d) IN
           /\ e \in DiDoc /\ e.ignoreCount = d.ignoreCount
           /\ HasComponents(e) = HasComponents(d)
           /\ e.status = "PENDING3" /\ d.status # "PENDING3" => ~HasComponents(d)
  BY <1>1, MovedDues DEF SameDues, HasComponents
<1>2. /\ AfterBc(d) \in Status
      /\ AfterBc(d) = "PENDING3" => ~HasComponents(d)
      /\ {"FINISHED", "WAITING_FACTURE", "WAITING_BC"} \subseteq Status
  BY DEF AfterBc, Status, MagasinConfirmation
<1>3. \/ GateHop(d) = d
      \/ \E t \in {"FINISHED", "WAITING_FACTURE", "WAITING_BC", AfterBc(d)} : GateHop(d) = Moved(d, t)
  BY DEF GateHop, GateExit
<1>4. CASE GateHop(d) = d
  BY <1>4
<1>5. CASE \E t \in {"FINISHED", "WAITING_FACTURE", "WAITING_BC", AfterBc(d)} : GateHop(d) = Moved(d, t)
  <2>1. PICK t \in {"FINISHED", "WAITING_FACTURE", "WAITING_BC", AfterBc(d)} : GateHop(d) = Moved(d, t)
    BY <1>5
  <2>2. t \in Status /\ (t = "PENDING3" => ~HasComponents(d))
    BY <1>2, <2>1
  <2>3. QED
    BY <1>1, <2>1, <2>2
<1>6. QED
  BY <1>3, <1>4, <1>5

\* Nor do the turns of its loop.
LEMMA GatesConfirm ==
    ASSUME NEW d \in DiDoc
    PROVE  LET e == GatesCrossed(d) IN
           /\ e \in DiDoc /\ e.ignoreCount = d.ignoreCount
           /\ e.status = "PENDING3" /\ d.status # "PENDING3" => ~HasComponents(d)
<1> DEFINE once == GateHop(d)
<1>1. /\ once \in DiDoc /\ once.ignoreCount = d.ignoreCount
      /\ HasComponents(once) = HasComponents(d)
      /\ once.status = "PENDING3" /\ d.status # "PENDING3" => ~HasComponents(d)
  BY HopConfirms
<1> HIDE DEF once
<1>2. /\ GateHop(once) \in DiDoc /\ GateHop(once).ignoreCount = once.ignoreCount
      /\ GateHop(once).status = "PENDING3" /\ once.status # "PENDING3" => ~HasComponents(once)
  BY <1>1, HopConfirms
<1>3. GatesCrossed(d) \in {once, GateHop(once)}
  BY DEF GatesCrossed, once
<1>4. QED
  BY <1>1, <1>2, <1>3

\* A move elsewhere confirms nothing and needs not to, whatever else it writes.
LEMMA ElsewhereConfirmed ==
    ASSUME NEW e, e.ignoreCount = di.ignoreCount,
           e.status # "PENDING3" \/ e.status = di.status
    PROVE  Confirmed(di, e)
  BY DEF Confirmed

\* The mutations that leave the status alone.
LEMMA StillConfirmed ==
    ASSUME IInv,
           \/ createStat \/ affectForRep \/ deleteDi \/ tech_startDiagnostic
           \/ affectinitialPrice \/ setDiagnosticPayant \/ addPDFFile
    PROVE  Confirmed(di, di')
<1>1. di'.status = di.status /\ di'.ignoreCount = di.ignoreCount
  BY DEF IInv, DocOK, DiDoc, createStat, affectForRep, deleteDi, tech_startDiagnostic,
         affectinitialPrice, setDiagnosticPayant, addPDFFile
<1>2. QED
  BY <1>1, ElsewhereConfirmed

\* The moves to another status than PENDING3.
LEMMA MovedElsewhere ==
    ASSUME IInv, NEW t \in Status \ {"PENDING3"}, NEW sent \in BOOLEAN, NEW mark \in BOOLEAN,
           \/ di' = Moved(di, t)
           \/ di' = [Moved(di, t) EXCEPT !.pricingRequestSentAt = sent]
           \/ di' = [Moved(di, t) EXCEPT !.annuleLe = mark]
           \/ di' = [Moved(di, t) EXCEPT !.pricingRequestSentAt = FALSE,
                                         !.componentsConfirmedAt = FALSE]
           \/ StockCommitted(Moved(di, t))
           \/ StockCommitted([Moved(di, t) EXCEPT !.componentsConfirmedAt = TRUE])
    PROVE  Confirmed(di, di')
<1>1. /\ Moved(di, t) \in DiDoc /\ Moved(di, t).ignoreCount = di.ignoreCount
      /\ Moved(di, t).status = t
  BY MovedType DEF IInv, DocOK
<1>2. di'.ignoreCount = di.ignoreCount /\ di'.status = t
  BY <1>1 DEF StockCommitted, DiDoc
<1>3. QED
  BY <1>2, ElsewhereConfirmed

\* The documents and the gates they open.
LEMMA FiledConfirmed ==
    ASSUME IInv,
           addDevisPDF \/ addBlPDF \/ addFacturePDF \/ addBCPDF \/ coordinatorSendToRepairWithDevis
    PROVE  Confirmed(di, di')
<1>1. ASSUME NEW doc \in Docs
      PROVE  /\ Filed(doc) \in DiDoc /\ Filed(doc).ignoreCount = di.ignoreCount
             /\ Filed(doc).status = di.status /\ HasComponents(Filed(doc)) = HasComponents(di)
  BY DEF IInv, DocOK, DiDoc, Filed, HasComponents
<1>2. ASSUME NEW doc \in Docs
      PROVE  /\ GatesCrossed(Filed(doc)) \in DiDoc
             /\ Confirmed(di, GatesCrossed(Filed(doc)))
  <2>1. /\ Filed(doc) \in DiDoc /\ Filed(doc).ignoreCount = di.ignoreCount
        /\ Filed(doc).status = di.status /\ HasComponents(Filed(doc)) = HasComponents(di)
    BY <1>1
  <2>2. /\ GatesCrossed(Filed(doc)) \in DiDoc
        /\ GatesCrossed(Filed(doc)).ignoreCount = Filed(doc).ignoreCount
        /\ GatesCrossed(Filed(doc)).status = "PENDING3" /\ Filed(doc).status # "PENDING3"
              => ~HasComponents(Filed(doc))
    BY <2>1, GatesConfirm
  <2>3. QED
    BY <2>1, <2>2 DEF Confirmed
<1>3. CASE addDevisPDF \/ addBlPDF \/ addFacturePDF \/ addBCPDF
  <2>1. PICK doc \in Docs : di' = GatesCrossed(Filed(doc))
    BY <1>3 DEF addDevisPDF, addBlPDF, addFacturePDF, addBCPDF, Upload, AdvancedFrom, Docs
  <2>2. QED
    BY <1>2, <2>1
<1>4. CASE coordinatorSendToRepairWithDevis
  <2> DEFINE filed == GatesCrossed(Filed("Devis"))
             cleared == [filed EXCEPT !.needsDevisBeforeRepair = FALSE]
  <2>1. /\ filed \in DiDoc /\ Confirmed(di, filed)
    BY <1>2 DEF Docs
  <2>2. di' \in {filed, cleared, Moved(cleared, "REPARATION")}
    BY <1>4 DEF coordinatorSendToRepairWithDevis
  <2> HIDE DEF filed
  <2>3. /\ cleared \in DiDoc /\ cleared.status = filed.status
        /\ cleared.ignoreCount = filed.ignoreCount
    BY <2>1 DEF DiDoc
  <2>4. Confirmed(di, cleared)
    BY <2>1, <2>3 DEF Confirmed
  <2> HIDE DEF cleared
  <2>5. Confirmed(di, Moved(cleared, "REPARATION"))
    <3>1. "REPARATION" \in Status
      BY DEF Status, RepairStatus
    <3>2. /\ Moved(cleared, "REPARATION").ignoreCount = cleared.ignoreCount
          /\ Moved(cleared, "REPARATION").status = "REPARATION"
      BY <2>3, <3>1, MovedType
    <3>3. QED
      BY <2>4, <3>2 DEF Confirmed
  <2>6. QED
    BY <2>1, <2>2, <2>4, <2>5
<1>5. QED
  BY <1>3, <1>4

\* The call that takes the stock to the repair, and the reactivation.
LEMMA Pending3Confirmed ==
    ASSUME IInv, changeStatusPending3 \/ reactiverDi
    PROVE  Confirmed(di, di')
<1>0. di \in DiDoc
  BY DEF IInv, DocOK
<1>1. CASE changeStatusPending3
  <2>1. di'.ignoreCount = di.ignoreCount
    <3>1. Moved(di, "PENDING3") \in DiDoc /\ Moved(di, "PENDING3").ignoreCount = di.ignoreCount
      <4>1. "PENDING3" \in Status
        BY DEF Status
      <4>2. QED
        BY <1>0, <4>1, MovedType
    <3>2. QED
      BY <1>1, <3>1 DEF changeStatusPending3, StockCommitted, DiDoc
  <2>2. di.status # "PENDING3" /\ HasComponents(di)
        => di.status \in MagasinConfirmation \cup {"CONFIRMATION_COMPOSANTS"} \cup ReentrySource
    <3>1. MayEnter(di.status, "PENDING3")
      BY <1>1 DEF changeStatusPending3, Allowed
    <3>2. \/ di.status = "PENDING3" \/ di.status \in ReentrySource
          \/ di.status \in {"WAITING_BC", "NEGOTIATION2", "CONFIRMATION_COMPOSANTS"}
                \cup LegacyApproval \cup MagasinConfirmation
      BY <3>1 DEF MayEnter, AllowedSources, GuardedTarget, Status, LegacyStatus, LegacyApproval,
                  LegacyClosing, RetourStatus
    <3>3. QED
      BY <1>1, <3>2 DEF changeStatusPending3, ApprovalDocStatus
  <2>3. QED
    BY <2>1, <2>2 DEF Confirmed
<1>2. CASE reactiverDi
  <2>1. di.status = "ANNULER" /\ di.beforeAnnul \in Status
        /\ di' = [Moved(di, di.beforeAnnul) EXCEPT !.annuleLe = FALSE]
    BY <1>0, <1>2 DEF reactiverDi, DiDoc
  <2>2. di'.ignoreCount = di.ignoreCount
    BY <1>0, <2>1, MovedType DEF DiDoc
  <2>3. QED
    BY <2>1, <2>2 DEF Confirmed, ReentrySource
<1>3. QED
  BY <1>1, <1>2

\* Every mutation but the two that skip the confirmation keeps the cycle, and enters
\* PENDING3 as it should.
LEMMA StepConfirms ==
    ASSUME IInv, di.ignoreCount = 0, Next, NeverReturned
    PROVE  Confirmed(di, di')
<1>0. /\ {"PENDING1", "DIAGNOSTIC", "INDIAGNOSTIC", "DIAGNOSTIC_Pause", "MagasinEstimation",
          "PENDING2", "PRICING_DIAG", "CONFIRMATION", "WAITING_DEVIS", "NEGOTIATION2",
          "ATTENTE_CONFIRMATION_COORDINATION", "MAGASIN_FINALISATION",
          "REPARATION", "INREPARATION", "REPARATION_Pause", "WAITING_BL", "IRREPARABLE",
          "ANNULER"} \cup RetourStatus \subseteq Status \ {"PENDING3"}
      /\ TRUE \in BOOLEAN /\ FALSE \in BOOLEAN
  BY DEF Status, DiagStatus, RepairStatus, MagasinConfirmation, RetourStatus
<1>1. ~countIgnore /\ ~managerAdminManager_Pending3 /\ ~InRetour
  BY DEF NeverReturned, countIgnore, managerAdminManager_Pending3, Client, InRetour
<1>2. CASE \E level \in RetourStatus : changeDiRetour(level)
  BY <1>0, <1>2, MovedElsewhere DEF changeDiRetour
<1>3. CASE \/ changeStatusPending1 \/ manager_Pending1 \/ changeToPending1
           \/ sendDiBackToDiagnostic \/ coordinator_ToDiag
           \/ changeStatusInDiagnostic \/ changeToDiagnosticInPause \/ abandonDi
  <2>1. \E t \in {"PENDING1", "DIAGNOSTIC", "INDIAGNOSTIC", "DIAGNOSTIC_Pause"} : di' = Moved(di, t)
    BY <1>3 DEF changeStatusPending1, manager_Pending1, changeToPending1, sendDiBackToDiagnostic,
                coordinator_ToDiag, changeStatusInDiagnostic, changeToDiagnosticInPause,
                abandonDi, GuardedMove
  <2>2. QED
    BY <1>0, <2>1, MovedElsewhere
<1>4. CASE \/ magasinTech_Pending2 \/ changeStatusPending2 \/ changeStatusMagasinEstimation
           \/ changeStatusInMagasin \/ changeStatusIrreparableFromPricing
           \/ changeStatusNegociate1 \/ changeStatusNegociate2
  <2>1. \E t \in {"PENDING2", "MagasinEstimation", "CONFIRMATION", "IRREPARABLE",
                  "WAITING_DEVIS", "NEGOTIATION2"} : di' = Moved(di, t)
    BY <1>1, <1>4 DEF magasinTech_Pending2, changeStatusPending2, changeStatusMagasinEstimation,
                changeStatusInMagasin, changeStatusIrreparableFromPricing, CloseIrreparable,
                changeStatusNegociate1, changeStatusNegociate2, GuardedMove, ToPending2
  <2>2. QED
    BY <1>0, <2>1, MovedElsewhere
<1>5. CASE changeStatusPricing \/ sendDiToAdminsForPricing
  BY <1>0, <1>5, MovedElsewhere DEF changeStatusPricing, sendDiToAdminsForPricing, ToPricing
<1>6. CASE \/ sendComponentToConMagasinForConfirmation
           \/ componentConfirmedFromCoordinator \/ confirmDiComponents
  <2>1. \/ di' = Moved(di, "ATTENTE_CONFIRMATION_COORDINATION")
        \/ StockCommitted(Moved(di, "ATTENTE_CONFIRMATION_COORDINATION"))
        \/ StockCommitted([Moved(di, "MAGASIN_FINALISATION") EXCEPT !.componentsConfirmedAt = TRUE])
    BY <1>1, <1>6 DEF sendComponentToConMagasinForConfirmation, componentConfirmedFromCoordinator,
                      confirmDiComponents, ConfirmComponents
  <2>2. QED
    BY <1>0, <2>1, MovedElsewhere
<1>7. CASE \/ changeStatusRepaire \/ changeStatusInRepair \/ tech_startReperation
           \/ changeToReparationInPause
  <2>1. \E t \in {"REPARATION", "INREPARATION", "REPARATION_Pause"} : di' = Moved(di, t)
    BY <1>7 DEF changeStatusRepaire, changeStatusInRepair, tech_startReperation,
                changeToReparationInPause, GuardedMove
  <2>2. QED
    BY <1>0, <2>1, MovedElsewhere
<1>8. CASE changeStatusTofinsh
  <2>1. CASE \E t \in {"PENDING2", "IRREPARABLE", "WAITING_BL"} : di' = Moved(di, t)
    BY <1>0, <2>1, MovedElsewhere
  <2>2. CASE di' = GatesCrossed(Moved(di, "WAITING_BL")) /\ di.status \in RepairStatus
    <3>1. /\ Moved(di, "WAITING_BL") \in DiDoc
          /\ Moved(di, "WAITING_BL").ignoreCount = di.ignoreCount
          /\ Moved(di, "WAITING_BL").status = "WAITING_BL"
          /\ HasComponents(Moved(di, "WAITING_BL")) = HasComponents(di)
      BY <1>0, MovedDues DEF IInv, DocOK, SameDues, HasComponents
    <3>2. QED
      BY <2>2, <3>1, GatesConfirm DEF Confirmed
  <2>3. QED
    BY <1>8, <2>1, <2>2 DEF changeStatusTofinsh, ToPending2, CloseIrreparable, AdvancedFrom
<1>9. CASE annulerDi
  BY <1>0, <1>9, MovedElsewhere DEF annulerDi
<1>10. QED
  BY <1>1, <1>2, <1>3, <1>4, <1>5, <1>6, <1>7, <1>8, <1>9, StillConfirmed, FiledConfirmed,
     Pending3Confirmed DEF Next

\* While a DI has not come back, no call but the one without the components check takes
\* it to PENDING3 with components that the store has not confirmed: not an upload, not a
\* stale screen, not a cancellation, and not a DI written before a migration.
THEOREM ComponentsAreConfirmed ==
    ASSUME NeverReturned
    PROVE  Spec => PartsConfirmedBeforeRepair
<1> DEFINE FirstStill == di.ignoreCount = 0
<1>1. Init => FirstStill
  BY DEF Init
<1>2. IInv /\ FirstStill /\ [Next]_vars
      => /\ FirstStill'
         /\ [di'.status = "PENDING3" /\ di.status # "PENDING3" /\ HasComponents(di)
                => di.status \in MagasinConfirmation \cup {"CONFIRMATION_COMPOSANTS"}
                                    \cup ReentrySource]_vars
  <2>1. CASE UNCHANGED vars
    BY <2>1 DEF vars
  <2>2. CASE Next
    BY <2>2, StepConfirms DEF Confirmed
  <2>3. QED
    BY <2>1, <2>2
<1> HIDE DEF FirstStill
<1>3. QED
  BY <1>1, <1>2, InitInv, StepInv, PTL DEF Spec, PartsConfirmedBeforeRepair

=============================================================================
