---------------------------- MODULE DocGateSpec ----------------------------
(***************************************************************************)
(* What the documentary gates of a first-cycle DI promise                  *)
(* (src/src/di/di.service.ts, the comment of maybeAdvanceDocGate): the     *)
(* documents arrive in any order; a gate opens once its document is there, *)
(* one gate at a time, and the end of the affair is announced once.        *)
(***************************************************************************)
CONSTANTS
    Exit    \* the status the approval leads to, fixed by the diagnostic

Docs == {"Devis", "BC", "BL", "Facture"}

\* The gate a DI waits at, the document that opens it and where it leads.
Gates == { <<"WAITING_DEVIS", "Devis", "WAITING_BC">>,
           <<"WAITING_BC", "BC", Exit>>,
           <<"WAITING_BL", "BL", "WAITING_FACTURE">>,
           <<"WAITING_FACTURE", "Facture", "FINISHED">> }

VARIABLES
    status,     \* the status of the DI
    driveDocs,  \* its documents
    announced   \* whether the end of the affair was announced

vars == <<status, driveDocs, announced>>

\* A DI in repair, or waiting for a document it does not have.
Init ==
    /\ status \in {"WAITING_DEVIS", "WAITING_BC", "INREPARATION",
                   "WAITING_BL", "WAITING_FACTURE"}
    /\ driveDocs \in SUBSET Docs
    /\ \A gate \in Gates : gate[1] = status => gate[2] \notin driveDocs
    /\ announced = FALSE

\* A document is filed, again or for the first time.
File(doc) ==
    /\ driveDocs' = driveDocs \cup {doc}
    /\ UNCHANGED <<status, announced>>

\* The repair ends.
Repaired ==
    /\ status = "INREPARATION"
    /\ status' = "WAITING_BL"
    /\ UNCHANGED <<driveDocs, announced>>

\* A gate opens.
Advance(gate) ==
    /\ status = gate[1]
    /\ gate[2] \in driveDocs
    /\ status' = gate[3]
    /\ UNCHANGED <<driveDocs, announced>>

\* The end is announced, once.
Announce ==
    /\ status = "FINISHED"
    /\ ~announced
    /\ announced' = TRUE
    /\ UNCHANGED <<status, driveDocs>>

Next ==
    \/ \E doc \in Docs : File(doc)
    \/ Repaired
    \/ \E gate \in Gates : Advance(gate)
    \/ Announce

Spec == Init /\ [][Next]_vars

\* A gate whose document is there opens, and the end of the affair is announced.
Progress ==
    /\ \A gate \in Gates :
          (status = gate[1] /\ gate[2] \in driveDocs) ~> (status # gate[1])
    /\ (status = "FINISHED") ~> announced

============================================================================
