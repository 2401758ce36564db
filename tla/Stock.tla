------------------------------- MODULE Stock -------------------------------
(***************************************************************************)
(* The stock of the parts: the draw of the parts of a DI, done once per    *)
(* diagnostic (commitStockDecrementOnce in src/src/di/di.service.ts), and  *)
(* the forms of the store (src/src/composant/composant.service.ts), which  *)
(* rename parts and write their quantities meanwhile.                      *)
(***************************************************************************)
EXTENDS Integers, Sequences, FiniteSets

CONSTANTS
    StockDis,      \* the DIs
    PartNames,     \* the names a part can have
    Parts,         \* the parts, each called by its first name
    Commits,       \* the requests that commit the stock of a DI, in flight at once
    Forms,         \* the forms of the store open at once
    MaxQuantity,   \* bound on the quantities in stock
    MaxDrawnEach,  \* bound on the quantity of a line
    MaxStockOps    \* bound on the forms opened, the draws and the re-armings

ASSUME StockBounds ==
    /\ Parts \subseteq PartNames
    /\ MaxQuantity \in Nat \ {0} /\ MaxDrawnEach \in Nat \ {0} /\ MaxStockOps \in Nat

VARIABLES
    parts,      \* parts[n]: the part first called n, [name, quantity, stocked]
    lines,      \* lines[d]: array_composants, lines [name, quantity, meant]
    stamped,    \* stamped[d]: stockDecrementedAt is set
    armings,    \* history: armings[d], the times the marker was null at the start of a cycle
    draws,      \* history: draws[d], the draws begun
    commit,     \* commit[c]: a draw in flight
    form,       \* form[f]: a form of the store
    ledger,     \* history: ledger[n], the quantity that the draws and the forms add up to
    stockOps,   \* the operations so far
    mingled,    \* history: a form was open while another was, or during a draw
    broken      \* history: a draw has failed midway

stockVars == <<parts, lines, stamped, armings, draws, commit, form, ledger, stockOps,
               mingled, broken>>

Quantities == 0..MaxQuantity
Line == [name: PartNames, quantity: 1..MaxDrawnEach, meant: Parts]
IdleForm == [at |-> "idle", on |-> "none", name |-> "none", quantity |-> 0, change |-> 0]

StockTypeOK ==
    /\ parts \in [Parts -> [name: PartNames, quantity: Quantities, stocked: BOOLEAN]]
    /\ \A d \in StockDis : lines[d] \in Seq(Line)
    /\ stamped \in [StockDis -> BOOLEAN]
    /\ commit \in [Commits -> Seq(Line)]
    /\ \A f \in Forms : form[f].at \in {"idle", "open", "written", "cascade"}
    /\ ledger \in [Parts -> Quantities]
    /\ stockOps \in 0..MaxStockOps

StockInit ==
    /\ \E stocked \in [Parts -> BOOLEAN] :
          parts = [n \in Parts |-> [name |-> n, quantity |-> MaxQuantity - 1,
                                        stocked |-> stocked[n]]]
    /\ lines = [d \in StockDis |-> <<>>]
    /\ stamped = [d \in StockDis |-> FALSE]
    /\ armings = [d \in StockDis |-> 1]
    /\ draws = [d \in StockDis |-> 0]
    /\ commit = [c \in Commits |-> <<>>]
    /\ form = [f \in Forms |-> IdleForm]
    /\ ledger = [n \in Parts |-> MaxQuantity - 1]
    /\ stockOps = 0
    /\ mingled = FALSE
    /\ broken = FALSE

StockOp == stockOps < MaxStockOps /\ stockOps' = stockOps + 1
FormsIdle == \A f \in Forms : form[f].at = "idle"

----------------------------------------------------------------------------
(* The DI: its lines, and the draw.                                        *)

\* tech_startDiagnostic: the form of the diagnostic sets the whole list, the name of
\* each part picked and its quantity, and re-arms the marker.
SaveDiagnostic(d, picked, quantity) ==
    /\ StockOp
    /\ lines' = [lines EXCEPT ![d] = [k \in DOMAIN picked |->
                    [name |-> parts[picked[k]].name, quantity |-> quantity,
                     meant |-> picked[k]]]]
    /\ stamped' = [stamped EXCEPT ![d] = FALSE]
    /\ armings' = [armings EXCEPT ![d] = IF stamped[d] THEN @ + 1 ELSE @]
    /\ mingled' = (mingled \/ ~FormsIdle)
    /\ UNCHANGED <<parts, draws, commit, form, ledger, broken>>

\* The claim of the marker, atomic, and the lines as they were at the claim.
\* Mutant of Claim: the marker is read, and the lines drawn whatever it was.
ClaimRead(d) == stamped' = [stamped EXCEPT ![d] = TRUE]
Claim(d) == ~stamped[d] /\ stamped' = [stamped EXCEPT ![d] = TRUE]

CommitStock(c, d) ==
    /\ StockOp
    /\ commit[c] = <<>>
    /\ lines[d] # <<>>
    /\ Claim(d)
    /\ draws' = [draws EXCEPT ![d] = @ + 1]
    /\ commit' = [commit EXCEPT ![c] = lines[d]]
    /\ mingled' = (mingled \/ ~FormsIdle)
    /\ UNCHANGED <<parts, lines, armings, form, ledger, broken>>

\* Mutant of Less: no floor at zero.
LessUnfloored(quantity, n) == quantity - n
Less(quantity, n) == IF quantity > n THEN quantity - n ELSE 0

\* decrementStockForComposants: a part in stock of that name, if there is one.
DrawLine(c) ==
    /\ commit[c] # <<>>
    /\ LET line == Head(commit[c])
           hits == {n \in Parts : parts[n].name = line.name /\ parts[n].stocked}
       IN
       /\ IF hits = {} THEN UNCHANGED parts
          ELSE \E n \in hits :
                  parts' = [parts EXCEPT ![n].quantity = Less(@, line.quantity)]
       /\ ledger' = IF parts[line.meant].stocked
                    THEN [ledger EXCEPT ![line.meant] =
                             IF @ > line.quantity THEN @ - line.quantity ELSE 0]
                    ELSE ledger
    /\ commit' = [commit EXCEPT ![c] = Tail(@)]
    /\ UNCHANGED <<lines, stamped, armings, draws, form, stockOps, mingled, broken>>

\* The error is captured, or the process stops: the claim stays, the rest is lost.
DrawFails(c) ==
    /\ commit[c] # <<>>
    /\ commit' = [commit EXCEPT ![c] = <<>>]
    /\ broken' = TRUE
    /\ UNCHANGED <<parts, lines, stamped, armings, draws, form, ledger, stockOps, mingled>>

----------------------------------------------------------------------------
(* The forms of the store (addComposantInfo, updateComposant).             *)

\* The form is loaded; the user will leave the name or change it to a free one,
\* and leave the quantity or change it.
OpenForm(f, n, name, change) ==
    /\ form[f].at = "idle"
    /\ StockOp
    /\ name = parts[n].name \/ \A k \in Parts : parts[k].name # name
    /\ parts[n].quantity + change \in Quantities
    /\ form' = [form EXCEPT ![f] = [at |-> "open", on |-> n, name |-> name,
                                    quantity |-> parts[n].quantity, change |-> change]]
    /\ mingled' = (mingled \/ ~FormsIdle \/ \E c \in Commits : commit[c] # <<>>)
    /\ UNCHANGED <<parts, lines, stamped, armings, draws, commit, ledger, broken>>

\* The whole form is sent back: the quantity is written as it was loaded, with the
\* change of the user. The name read just before is the one the cascade looks for.
WriteForm(f) ==
    /\ form[f].at = "open"
    /\ LET n == form[f].on IN
       /\ parts' = [parts EXCEPT ![n].name = form[f].name,
                                 ![n].quantity = form[f].quantity + form[f].change]
       /\ ledger' = [ledger EXCEPT ![n] = IF @ + form[f].change \in Quantities
                                          THEN @ + form[f].change ELSE @]
       /\ form' = IF parts[n].name = form[f].name
                  THEN [form EXCEPT ![f] = IdleForm]
                  ELSE [form EXCEPT ![f].at = "cascade", ![f].name = parts[n].name]
    /\ UNCHANGED <<lines, stamped, armings, draws, commit, stockOps, mingled, broken>>

\* Mutant of Renamed: the first line of that name is renamed, not all.
RenamedFirst(ls, old, new) ==
    [k \in DOMAIN ls |-> IF ls[k].name = old /\ \A m \in 1..(k - 1) : ls[m].name # old
                         THEN [ls[k] EXCEPT !.name = new] ELSE ls[k]]

Renamed(ls, old, new) ==
    [k \in DOMAIN ls |-> IF ls[k].name = old THEN [ls[k] EXCEPT !.name = new] ELSE ls[k]]

\* The lines of every DI that carry the old name, by name.
CascadeRename(f) ==
    /\ form[f].at = "cascade"
    /\ lines' = [d \in StockDis |->
                    Renamed(lines[d], form[f].name, parts[form[f].on].name)]
    /\ form' = [form EXCEPT ![f] = IdleForm]
    /\ UNCHANGED <<parts, stamped, armings, draws, commit, ledger, stockOps, mingled, broken>>

StockNext ==
    \/ \E d \in StockDis, length \in 1..2, quantity \in 1..MaxDrawnEach :
          \E picked \in [1..length -> Parts] : SaveDiagnostic(d, picked, quantity)
    \/ \E c \in Commits, d \in StockDis : CommitStock(c, d)
    \/ \E c \in Commits : DrawLine(c) \/ DrawFails(c)
    \/ \E f \in Forms, n \in Parts, name \in PartNames, change \in {-1, 0, 1} :
          OpenForm(f, n, name, change)
    \/ \E f \in Forms : WriteForm(f) \/ CascadeRename(f)

StockSpec == StockInit /\ [][StockNext]_stockVars

----------------------------------------------------------------------------
(* What the stock promises.                                                *)

\* The parts of a DI are drawn at most once per diagnostic, whichever of the two
\* commits comes first and however many requests make it.
DrawnOncePerDiagnostic == \A d \in StockDis : draws[d] <= armings[d]

\* When the forms and the draws keep clear of each other, the quantities are what
\* the draws and the forms add up to, renamed parts included: a line is drawn from
\* the part it was meant for.
StockAddsUp ==
    ~mingled /\ ~broken => \A n \in Parts : parts[n].quantity = ledger[n]

\* At rest, each line of a DI bears the name of the part it was meant for, after any
\* chain of renames done one at a time.
LinesFollowRenames ==
    ~mingled /\ FormsIdle => \A d \in StockDis : \A k \in DOMAIN lines[d] :
        lines[d][k].name = parts[lines[d][k].meant].name

\* The stock as a whole: one draw per diagnostic, quantities that add up and lines that
\* follow the renames, whichever path commits and whichever form is sent.
StockInv ==
    /\ StockTypeOK /\ DrawnOncePerDiagnostic /\ StockAddsUp
    /\ LinesFollowRenames
=============================================================================
