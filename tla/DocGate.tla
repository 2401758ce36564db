------------------------------ MODULE DocGate ------------------------------
(***************************************************************************)
(* Concurrent calls on the documentary gates of one first-cycle DI: the    *)
(* uploads addDevisPDF, addBCPDF, addBlPDF and addFacturePDF and the end   *)
(* of the repair (changeStatusTofinsh), cut at every await on the          *)
(* database.  Each call files its document, then runs maybeAdvanceDocGate: *)
(* read the DI, claim the gate with a write filtered on the status read,   *)
(* update the Stat row, and try the next gate.                             *)
(***************************************************************************)
EXTENDS Naturals

CONSTANTS
    Calls,      \* the calls the clients make
    Enders,     \* the calls that may be the end of the repair
    MayCrash,   \* the calls whose process may stop between two awaits
    Exit        \* where exitWaitingBcOnBc sends the DI

Docs == {"Devis", "BC", "BL", "Facture"}
Waiting == {"WAITING_DEVIS", "WAITING_BC", "WAITING_BL", "WAITING_FACTURE"}
MaxHops == 6    \* the bound of the loop in maybeAdvanceDocGate

ASSUME CallsAssumption == Enders \subseteq Calls /\ MayCrash \subseteq Calls
ASSUME ExitAssumption == Exit \in {"PENDING3", "CONFIRMATION", "IRREPARABLE"}

GateStatus == Waiting \cup {"INREPARATION", "FINISHED", Exit}

VARIABLES
    status,     \* Di.status
    driveDocs,  \* the documents of Di.driveDocs
    statStatus, \* Stat.status, the copy the technicians read
    announced,  \* the calls that announced the end: sendDiFinished, DI_FINISHED
    pc,         \* pc[c]: the await call c is at
    doc,        \* doc[c]: the document call c uploads, or "repair" for the end of the repair
    seen,       \* seen[c]: the status of the DI as call c last read or wrote it
    hops        \* hops[c]: the gates call c has crossed

vars == <<status, driveDocs, statStatus, announced, pc, doc, seen, hops>>

PcValue == {"idle", "filing", "asserting", "moving", "reading", "claiming",
            "syncing", "announcing", "done", "crashed"}

\* The type invariant.
TypeOK ==
    /\ status \in GateStatus
    /\ driveDocs \in SUBSET Docs
    /\ statStatus \in GateStatus
    /\ announced \in SUBSET Calls
    /\ pc \in [Calls -> PcValue]
    /\ doc \in [Calls -> Docs \cup {"repair", "none"}]
    /\ seen \in [Calls -> GateStatus]
    /\ hops \in [Calls -> 0..MaxHops]

----------------------------------------------------------------------------

\* Mutant of After: a gate leads to the status it led to before the split.
AfterLegacy(s) ==
    CASE s = "WAITING_DEVIS" -> "WAITING_BC"
      [] s = "WAITING_BC" -> Exit
      [] s = "WAITING_BL" -> "ATTENTE_BL_FACTURE"
      [] s = "WAITING_FACTURE" -> "FINISHED"
      [] OTHER -> s

\* The document a gate waits for, and where it leads.
Awaited(s) ==
    CASE s = "WAITING_DEVIS" -> {"Devis"}
      [] s = "WAITING_BC" -> {"BC"}
      [] s = "WAITING_BL" -> {"BL"}
      [] s = "WAITING_FACTURE" -> {"Facture"}
      [] OTHER -> {}
After(s) ==
    CASE s = "WAITING_DEVIS" -> "WAITING_BC"
      [] s = "WAITING_BC" -> Exit
      [] s = "WAITING_BL" -> "WAITING_FACTURE"
      [] s = "WAITING_FACTURE" -> "FINISHED"
      [] OTHER -> s
Opens(s, docs) == s \in Waiting /\ Awaited(s) \subseteq docs

Goto(c, label) == pc' = [pc EXCEPT ![c] = label]

\* A DI at rest: in repair, or at a gate that waits for its document.  addBCPDF
\* needs the quotation, and a gate is behind the DI once its document was there.
Init ==
    /\ status \in Waiting \cup {"INREPARATION"}
    /\ driveDocs \in SUBSET Docs
    /\ ~Opens(status, driveDocs)
    /\ "BC" \in driveDocs \/ status = "WAITING_BC" => "Devis" \in driveDocs
    /\ status = "WAITING_FACTURE" => "BL" \in driveDocs
    /\ statStatus = status
    /\ announced = {}
    /\ pc = [c \in Calls |-> "idle"]
    /\ doc = [c \in Calls |-> "none"]
    /\ seen = [c \in Calls |-> status]
    /\ hops = [c \in Calls |-> 0]

\* The call reads the DI; a purchase order needs a quotation on file.
StartUpload(c, d) ==
    /\ pc[c] = "idle"
    /\ doc' = [doc EXCEPT ![c] = d]
    /\ IF d = "BC" /\ "Devis" \notin driveDocs
       THEN Goto(c, "done") ELSE Goto(c, "filing")
    /\ UNCHANGED <<status, driveDocs, statStatus, announced, seen, hops>>

\* Mutant of FileDoc: the upload does not try the gates.
FileDocAlone(c) ==
    /\ pc[c] = "filing"
    /\ driveDocs' = driveDocs \cup {doc[c]}
    /\ Goto(c, "done")
    /\ UNCHANGED <<status, statStatus, announced, doc, seen, hops>>

\* The document is on Drive: it is written on the DI, and the gates are tried.
FileDoc(c) ==
    /\ pc[c] = "filing"
    /\ driveDocs' = driveDocs \cup {doc[c]}
    /\ Goto(c, "reading")
    /\ UNCHANGED <<status, statStatus, announced, doc, seen, hops>>

\* The end of the repair, asked while the DI is in repair.
StartFinish(c) ==
    /\ pc[c] = "idle"
    /\ c \in Enders
    /\ status = "INREPARATION"
    /\ doc' = [doc EXCEPT ![c] = "repair"]
    /\ Goto(c, "asserting")
    /\ UNCHANGED <<status, driveDocs, statStatus, announced, seen, hops>>

\* assertTransitionAllowed(WAITING_BL) reads the status once more.
AssertFinish(c) ==
    /\ pc[c] = "asserting"
    /\ IF status \in {"INREPARATION", "WAITING_BL"}
       THEN Goto(c, "moving") ELSE Goto(c, "done")
    /\ UNCHANGED <<status, driveDocs, statStatus, announced, doc, seen, hops>>

\* The write that follows is not filtered on the status.
MoveFinish(c) ==
    /\ pc[c] = "moving"
    /\ status' = "WAITING_BL"
    /\ seen' = [seen EXCEPT ![c] = "WAITING_BL"]
    /\ Goto(c, "syncing")
    /\ UNCHANGED <<driveDocs, statStatus, announced, doc, hops>>

\* One turn of the loop of maybeAdvanceDocGate: read, and stop if no gate opens.
ReadDi(c) ==
    /\ pc[c] = "reading"
    /\ seen' = [seen EXCEPT ![c] = status]
    /\ IF hops[c] < MaxHops /\ Opens(status, driveDocs)
       THEN Goto(c, "claiming") ELSE Goto(c, "done")
    /\ UNCHANGED <<status, driveDocs, statStatus, announced, doc, hops>>

\* Mutant of ClaimGate: the write is filtered on the DI alone.
ClaimGateUnfiltered(c) ==
    /\ pc[c] = "claiming"
    /\ status' = After(seen[c])
    /\ seen' = [seen EXCEPT ![c] = After(@)]
    /\ Goto(c, "syncing")
    /\ hops' = [hops EXCEPT ![c] = IF @ < MaxHops THEN @ + 1 ELSE @]
    /\ UNCHANGED <<driveDocs, statStatus, announced, doc>>

\* The write filtered on the status read: the loser of a race stops.
ClaimGate(c) ==
    /\ pc[c] = "claiming"
    /\ IF status = seen[c]
       THEN /\ status' = After(status)
            /\ seen' = [seen EXCEPT ![c] = After(@)]
            /\ hops' = [hops EXCEPT ![c] = @ + 1]
            /\ Goto(c, "syncing")
       ELSE /\ Goto(c, "done")
            /\ UNCHANGED <<status, seen, hops>>
    /\ UNCHANGED <<driveDocs, statStatus, announced, doc>>

\* Mutant of SyncStat: no further gate is tried.
SyncStatAndStop(c) ==
    /\ pc[c] = "syncing"
    /\ statStatus' = seen[c]
    /\ Goto(c, IF seen[c] = "FINISHED" THEN "announcing" ELSE "done")
    /\ UNCHANGED <<status, driveDocs, announced, doc, seen, hops>>

\* updateStatus; then the next gate, the announcement or the end.
SyncStat(c) ==
    /\ pc[c] = "syncing"
    /\ statStatus' = seen[c]
    /\ Goto(c, CASE seen[c] = "FINISHED" -> "announcing"
                 [] seen[c] = Exit -> "done"
                 [] OTHER -> "reading")
    /\ UNCHANGED <<status, driveDocs, announced, doc, seen, hops>>

\* finalizeFinished: Discord, the sockets and the DI_FINISHED event.
AnnounceEnd(c) ==
    /\ pc[c] = "announcing"
    /\ announced' = announced \cup {c}
    /\ Goto(c, "done")
    /\ UNCHANGED <<status, driveDocs, statStatus, doc, seen, hops>>

\* The process stops between two awaits of the call.
Crash(c) ==
    /\ c \in MayCrash
    /\ pc[c] \notin {"idle", "done", "crashed"}
    /\ Goto(c, "crashed")
    /\ UNCHANGED <<status, driveDocs, statStatus, announced, doc, seen, hops>>

\* What a running call does next.
Run(c) ==
    \/ FileDoc(c) \/ AssertFinish(c) \/ MoveFinish(c) \/ ReadDi(c)
    \/ ClaimGate(c) \/ SyncStat(c) \/ AnnounceEnd(c)

Next == \E c \in Calls :
    \/ \E d \in Docs : StartUpload(c, d)
    \/ StartFinish(c)
    \/ Run(c)
    \/ Crash(c)

Spec == Init /\ [][Next]_vars

\* Clients need not call; the event loop takes every call that runs to its end.
FairSpec == Spec /\ \A c \in Calls : WF_vars(Run(c))

----------------------------------------------------------------------------
(* What the gates promise.                                                 *)

\* "Un seul gagnant": the end of the affair is announced by one call at most,
\* however many uploads of the same document race.
AnnouncedOnce == \A a, b \in announced : a = b

\* No call has anything left to do for the gates, and none was cut short.
Resting == \A c \in Calls : pc[c] \in {"idle", "done"}

\* No lost wake-up: when no call runs, the DI does not wait at a gate whose
\* document is there, whatever the order of the uploads and of the end of the
\* repair (the cascade of maybeAdvanceDocGate).
NoOpenGateAtRest == Resting => ~Opens(status, driveDocs)

\* FINISHED is the end: the comment of assertTransitionAllowed says that an
\* out-of-sequence jump "can never mutate the DI" (di.service.ts:1517-1519).
FinishedStays == [][status = "FINISHED" => status' = "FINISHED"]_status

\* The calls implement the gates of DocGateSpec: the announcement of one call
\* is the announcement.
Promise == INSTANCE DocGateSpec WITH announced <- announced # {}
ImplementsGates == Promise!Spec

\* As long as no process stops, a gate whose document is there opens in the end,
\* and a finished DI is announced.
GatesProgress == [](\A c \in Calls : pc[c] # "crashed") => Promise!Progress

============================================================================
