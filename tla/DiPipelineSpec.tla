--------------------------- MODULE DiPipelineSpec ---------------------------
(***************************************************************************)
(* What the workflow promises of a DI that does not come back, phase by    *)
(* phase: the phases follow one another, a phase is entered with what is   *)
(* due before it (the pricing of the diagnostic, the confirmation and the  *)
(* draw-down of the parts, the documents), the parts are settled by the    *)
(* study, no document is taken away, and a cancellation is a parenthesis.  *)
(* There are no Stat rows, no screens and no statuses inside a phase here. *)
(***************************************************************************)
VARIABLES
    phase,     \* where the DI stands; cancelled, where it will be reactivated
    cancelled, \* whether it is cancelled
    docs,      \* the documents on file
    parts,     \* whether its repair needs parts
    drawn,     \* whether they were taken out of the stock
    billed,    \* whether its diagnostic is billed
    priced     \* whether its pricing was asked for

vars == <<phase, cancelled, docs, parts, drawn, billed, priced>>

Docs == {"Devis", "BC", "BL", "Facture"}

Init ==
    /\ phase = "study"
    /\ docs = {}
    /\ billed \in BOOLEAN
    /\ cancelled = FALSE /\ parts = FALSE /\ drawn = FALSE /\ priced = FALSE

\* The study: the diagnostic, the estimate of its parts and the pricing.
Study ==
    /\ phase = "study" /\ ~cancelled
    /\ parts' \in BOOLEAN
    /\ priced' \in {priced, TRUE}
    /\ UNCHANGED <<phase, cancelled, docs, drawn, billed>>

\* Whether the diagnostic is billed is open until the DI is found irreparable.
Bill ==
    /\ phase # "IRREPARABLE" /\ ~cancelled
    /\ billed' \in BOOLEAN
    /\ UNCHANGED <<phase, cancelled, docs, parts, drawn, priced>>

\* The phases that may follow, and what is due first: a DI with parts is repaired
\* once the store has confirmed them.
Leads(target) ==
    \/ target = "approval" /\ phase = "study" /\ priced
    \/ target = "store" /\ phase \in {"study", "approval"}
    \/ target = "repair" /\ (phase = "store" \/ (phase = "approval" /\ ~parts))
    \/ target = "IRREPARABLE" /\ phase \in {"study", "approval"} /\ (billed => priced)

\* The DI goes on; it does not enter its repair with parts still to be drawn.
Advance(target) ==
    /\ ~cancelled
    /\ Leads(target)
    /\ phase' = target
    /\ drawn' \in {drawn, drawn \/ target = "repair"}
    /\ target = "repair" /\ parts => drawn'
    /\ UNCHANGED <<cancelled, docs, parts, billed, priced>>

\* The parts are drawn, from the confirmation of the store on.
Draw ==
    /\ phase \in {"store", "repair"} /\ ~cancelled
    /\ drawn' = TRUE
    /\ UNCHANGED <<phase, cancelled, docs, parts, billed, priced>>

\* The end of the repair waits for the two closing documents, and for nothing else.
Closing(files) == IF {"BL", "Facture"} \subseteq files THEN "FINISHED" ELSE "closing"

Repaired ==
    /\ phase = "repair" /\ ~cancelled
    /\ phase' = Closing(docs)
    /\ UNCHANGED <<cancelled, docs, parts, drawn, billed, priced>>

\* A document is filed: the last closing document finishes the DI, and the purchase
\* order that follows the quotation may end the approval.
File(doc) ==
    /\ phase # "study" /\ ~cancelled
    /\ docs' = docs \cup {doc}
    /\ \/ phase' = IF phase = "closing" THEN Closing(docs') ELSE phase
       \/ /\ phase = "approval" /\ {"Devis", "BC"} \subseteq docs'
          /\ \E target \in {"store", "repair", "IRREPARABLE"} :
                Leads(target) /\ phase' = target
    /\ UNCHANGED <<cancelled, parts, drawn, billed, priced>>

Cancel ==
    /\ ~cancelled
    /\ cancelled' = TRUE
    /\ UNCHANGED <<phase, docs, parts, drawn, billed, priced>>

\* The DI is taken up where it was, unless its closing had begun.
Reactivate ==
    /\ cancelled
    /\ phase \notin {"closing", "FINISHED"}
    /\ cancelled' = FALSE
    /\ UNCHANGED <<phase, docs, parts, drawn, billed, priced>>

Next ==
    \/ Study \/ Bill \/ Draw \/ Repaired
    \/ \E target \in {"approval", "store", "repair", "IRREPARABLE"} : Advance(target)
    \/ \E doc \in Docs : File(doc)
    \/ Cancel \/ Reactivate

Spec == Init /\ [][Next]_vars

============================================================================
