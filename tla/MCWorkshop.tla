----------------------------- MODULE MCWorkshop -----------------------------
(***************************************************************************)
(* DiagTime, Stock, StoredCounts, ImportJob and CycleTickets for TLC.      *)
(* They share no variable: `part` chooses the one that runs, the others    *)
(* stay at an initial state, so one run checks the five separately.        *)
(***************************************************************************)
EXTENDS DiagTime, Stock, StoredCounts, ImportJob, CycleTickets, TLC

VARIABLE part

workshopVars == <<part, diagVars, stockVars, placeVars, importVars, ticketVars>>

\* The parts in store, or made in the workshop and not drawn; a base that is empty
\* but for a deleted DI, or that has a DI and a tier of the same name on both sides.
WorkshopInit ==
    /\ part \in {"time", "stock", "counts", "import", "tickets"}
    /\ DiagTimeInit /\ StockInit /\ StoredInit /\ ImportJobInit /\ CycleTicketsInit
    /\ part # "stock" => \A n \in Parts : parts[n].stocked
    /\ part # "import" => companies = {}
    /\ part # "tickets" => sold = {"p"}

WorkshopNext ==
    /\ UNCHANGED part
    /\ \/ part = "time" /\ DiagTimeNext /\ UNCHANGED <<stockVars, placeVars, importVars, ticketVars>>
       \/ part = "stock" /\ StockNext /\ UNCHANGED <<diagVars, placeVars, importVars, ticketVars>>
       \/ part = "counts" /\ StoredNext /\ UNCHANGED <<diagVars, stockVars, importVars, ticketVars>>
       \/ part = "import" /\ ImportJobNext /\ UNCHANGED <<diagVars, stockVars, placeVars, ticketVars>>
       \/ part = "tickets" /\ CycleTicketsNext /\ UNCHANGED <<diagVars, stockVars, placeVars, importVars>>

WorkshopSpec == WorkshopInit /\ [][WorkshopNext]_workshopVars

\* No step of the workshop rewrites what is behind it: the history of a diagnostic, an
\* active DI met by an import, the ticket and prices of a closed cycle, or the estimate of
\* the open one (each named part states when).
WorkshopSteps ==
    [][HistoryKept /\ ActiveKept /\ ClosedCyclesKept /\ EstimateSteady]_workshopVars

\* No step names a request, nor an import.
WorkshopSymmetry == Permutations(Requests) \cup Permutations(Jobs)

MCFiles == {<<[ref |-> 1, name |-> "a"], [ref |-> 2, name |-> "a"]>>,
            <<[ref |-> 1, name |-> "b"]>>}

MCTickets == {<<"p">>, <<"p", "p">>, <<"p", "q">>}

MCStarts == {[base |-> <<"deleted", "none">>, clients |-> <<>>, companies |-> {}],
             [base |-> <<"none", "active">>,
              clients |-> <<[name |-> "a", deleted |-> FALSE]>>, companies |-> {"a"}]}
=============================================================================
