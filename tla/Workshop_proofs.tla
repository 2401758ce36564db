-------------------------- MODULE Workshop_proofs --------------------------
(***************************************************************************)
(* Theorems about the components of the workshop: the stock of the parts   *)
(* (Stock), the counts of the locations (StoredCounts), the tickets and    *)
(* prices of the cycles (CycleTickets) and the import of DIs (ImportJob),  *)
(* for any number of DIs, parts, locations, requests, forms and imports.   *)
(***************************************************************************)
EXTENDS Stock, StoredCounts, CycleTickets, ImportJob, SequenceTheorems, FiniteSetTheorems,
        WellFoundedInduction, TLAPS

(***************************************************************************)
(* The stock of the parts.                                                 *)
(***************************************************************************)

Part == [name: PartNames, quantity: Quantities, stocked: BOOLEAN]
FormInUse == [at: {"open", "cascade"}, on: Parts, name: PartNames, quantity: Quantities,
              change: {-1, 0, 1}]

\* The types, and what a form in use holds.
StockTypes ==
    /\ parts \in [Parts -> Part]
    /\ lines \in [StockDis -> Seq(Line)]
    /\ stamped \in [StockDis -> BOOLEAN]
    /\ draws \in [StockDis -> Nat] /\ armings \in [StockDis -> Nat]
    /\ commit \in [Commits -> Seq(Line)]
    /\ form \in [Forms -> FormInUse \cup {IdleForm}]
    /\ \A f \in Forms : form[f].quantity + form[f].change \in Quantities
    /\ ledger \in [Parts -> Quantities]
    /\ stockOps \in 0..MaxStockOps
    /\ mingled \in BOOLEAN

\* A marker that is null leaves one draw to do.
DrawsInv == \A d \in StockDis : draws[d] + (IF stamped[d] THEN 0 ELSE 1) <= armings[d]

Uses(f) == form[f].at # "idle"
RenamesOn(fs, f, n) == fs[f].at = "cascade" /\ fs[f].on = n

\* One form at a time, and no draw meanwhile.
FormsAlone ==
    /\ \A f, g \in Forms : Uses(f) /\ Uses(g) => f = g
    /\ \A f \in Forms, c \in Commits : Uses(f) => commit[c] = <<>>

\* Two parts never share a name; a form open would give a free one, and was loaded with the
\* quantity that still stands; a form that renames looks for a name no part bears any more.
NamesFree ==
    /\ \A m, n \in Parts : parts[m].name = parts[n].name => m = n
    /\ \A f \in Forms : form[f].at = "open" =>
          /\ form[f].quantity = parts[form[f].on].quantity
          /\ \A k \in Parts : parts[k].name = form[f].name => k = form[f].on
    /\ \A f \in Forms : form[f].at = "cascade" => \A k \in Parts : parts[k].name # form[f].name

\* A line bears the name of its part; the old one while its part is being renamed.
LineNamed(line, ps, fs) ==
    /\ (\A f \in Forms : ~RenamesOn(fs, f, line.meant)) => line.name = ps[line.meant].name
    /\ \A f \in Forms : RenamesOn(fs, f, line.meant) => line.name = fs[f].name

LinesNamed ==
    /\ \A d \in StockDis : \A k \in 1..Len(lines[d]) : LineNamed(lines[d][k], parts, form)
    /\ \A c \in Commits : \A k \in 1..Len(commit[c]) : LineNamed(commit[c][k], parts, form)

LedgerKept == \A n \in Parts : parts[n].quantity = ledger[n]

Unmingled == FormsAlone /\ NamesFree /\ LinesNamed /\ LedgerKept

StockIInv == StockTypes /\ DrawsInv /\ (~mingled => Unmingled)

----------------------------------------------------------------------------
(* Types.                                                                  *)

LEMMA StockNumbers ==
    /\ 0 \in Quantities /\ MaxQuantity - 1 \in Quantities /\ Quantities \subseteq Nat
    /\ \A q \in Quantities, n \in Nat : Less(q, n) \in Quantities
  BY StockBounds DEF Quantities, Less

LEMMA IdleFormTypes == IdleForm.at = "idle" /\ IdleForm.quantity + IdleForm.change = 0
  BY DEF IdleForm

\* A form in use, with what it holds.
LEMMA FormHolds ==
    ASSUME StockTypes, NEW f \in Forms, Uses(f)
    PROVE  /\ form[f] \in FormInUse /\ form[f].at \in {"open", "cascade"}
           /\ form[f].on \in Parts /\ form[f].name \in PartNames
           /\ form[f].quantity \in Quantities /\ form[f].change \in {-1, 0, 1}
<1>1. form[f] \in FormInUse
  BY IdleFormTypes DEF StockTypes, Uses
<1>2. QED
  BY <1>1 DEF FormInUse

\* A line of a list.
LEMMA LineFields ==
    ASSUME NEW list \in Seq(Line), NEW k \in 1..Len(list)
    PROVE  /\ list[k] \in Line /\ list[k].name \in PartNames /\ list[k].meant \in Parts
           /\ list[k].quantity \in Nat
<1>1. list[k] \in Line
  BY ElementOfSeq
<1>2. QED
  BY <1>1, StockBounds DEF Line

----------------------------------------------------------------------------
(* Each step keeps the invariant.                                          *)

LEMMA StockInitInv == StockInit => StockIInv
<1> SUFFICES ASSUME StockInit PROVE StockIInv
  OBVIOUS
<1>1. PICK stocked \in [Parts -> BOOLEAN] :
        parts = [n \in Parts |-> [name |-> n, quantity |-> MaxQuantity - 1,
                                  stocked |-> stocked[n]]]
  BY DEF StockInit
<1>2. parts \in [Parts -> Part]
  BY <1>1, StockNumbers, StockBounds DEF Part
<1>3. \A f \in Forms : form[f] = IdleForm
  BY DEF StockInit
<1>4. lines \in [StockDis -> Seq(Line)] /\ commit \in [Commits -> Seq(Line)]
  BY DEF StockInit
<1>5. form \in [Forms -> FormInUse \cup {IdleForm}]
  BY DEF StockInit
<1>6. stockOps \in 0..MaxStockOps
  BY StockBounds DEF StockInit
<1>7. StockTypes
  BY <1>2, <1>3, <1>4, <1>5, <1>6, StockNumbers, IdleFormTypes DEF StockInit, StockTypes
<1>8. DrawsInv
  BY DEF StockInit, DrawsInv
<1>9. Unmingled
  <2>1. FormsAlone
    BY <1>3, IdleFormTypes DEF FormsAlone, Uses
  <2>2. NamesFree
    BY <1>1, <1>3, IdleFormTypes DEF NamesFree
  <2>3. LinesNamed
    BY EmptySeq DEF StockInit, LinesNamed
  <2>4. LedgerKept
    BY <1>1 DEF StockInit, LedgerKept
  <2>5. QED
    BY <2>1, <2>2, <2>3, <2>4 DEF Unmingled
<1>10. QED
  BY <1>7, <1>8, <1>9 DEF StockIInv

\* The lines of a diagnostic are saved under the names the parts bear then.
LEMMA SaveDiagnosticStep ==
    ASSUME StockIInv, NEW d \in StockDis, NEW length \in 1..2, NEW quantity \in 1..MaxDrawnEach,
           NEW picked \in [1..length -> Parts], SaveDiagnostic(d, picked, quantity)
    PROVE  StockIInv'
<1> DEFINE list == [k \in DOMAIN picked |-> [name |-> parts[picked[k]].name,
                                             quantity |-> quantity, meant |-> picked[k]]]
<1>1. /\ lines' = [lines EXCEPT ![d] = list]
      /\ UNCHANGED <<parts, draws, commit, form, ledger>>
      /\ mingled' = (mingled \/ ~FormsIdle)
  BY DEF SaveDiagnostic
<1>2. /\ list \in Seq(Line) /\ Len(list) = length
      /\ \A k \in 1..length : list[k].name = parts[list[k].meant].name
  <2>1. \A k \in 1..length : parts[picked[k]].name \in PartNames
    BY DEF StockIInv, StockTypes, Part
  <2>2. list = [k \in 1..length |-> [name |-> parts[picked[k]].name,
                                     quantity |-> quantity, meant |-> picked[k]]]
    OBVIOUS
  <2> HIDE DEF list
  <2>3. list \in [1..length -> Line]
    BY <2>1, <2>2 DEF Line
  <2>4. list \in Seq(Line) /\ Len(list) = length
    BY <2>3
  <2>5. QED
    BY <2>2, <2>4
<1> HIDE DEF list
<1>3. /\ lines' \in [StockDis -> Seq(Line)] /\ lines'[d] = list
      /\ \A e \in StockDis : e # d => lines'[e] = lines[e]
  BY <1>1, <1>2 DEF StockIInv, StockTypes
<1>4. StockTypes'
  <2>1. stamped' \in [StockDis -> BOOLEAN] /\ armings' \in [StockDis -> Nat]
    BY DEF SaveDiagnostic, StockIInv, StockTypes
  <2>2. stockOps' \in 0..MaxStockOps
    BY StockBounds DEF SaveDiagnostic, StockOp, StockIInv, StockTypes
  <2>3. QED
    BY <1>1, <1>3, <2>1, <2>2 DEF StockIInv, StockTypes
<1>5. DrawsInv'
  <2> SUFFICES ASSUME NEW e \in StockDis
               PROVE  draws[e] + (IF stamped'[e] THEN 0 ELSE 1) <= armings'[e]
    BY <1>1 DEF DrawsInv
  <2>1. /\ draws[e] + (IF stamped[e] THEN 0 ELSE 1) <= armings[e]
        /\ draws[e] \in Nat /\ armings[e] \in Nat /\ stamped[e] \in BOOLEAN
    BY DEF StockIInv, StockTypes, DrawsInv
  <2>2. /\ stamped'[e] = IF e = d THEN FALSE ELSE stamped[e]
        /\ armings'[e] = IF e = d /\ stamped[e] THEN armings[e] + 1 ELSE armings[e]
    BY DEF SaveDiagnostic, StockIInv, StockTypes
  <2>3. QED
    BY <2>1, <2>2
<1>6. ASSUME ~mingled' PROVE Unmingled'
  <2>1. ~mingled /\ \A f \in Forms : form[f].at = "idle"
    BY <1>1, <1>6 DEF FormsIdle
  <2>2. FormsAlone' /\ NamesFree' /\ LedgerKept'
    BY <1>1, <2>1 DEF StockIInv, Unmingled, FormsAlone, NamesFree, LedgerKept, Uses
  <2>3. \A k \in 1..Len(list) : LineNamed(list[k], parts, form)
    BY <1>2, <2>1 DEF LineNamed, RenamesOn
  <2>4. \A e \in StockDis : \A k \in 1..Len(lines'[e]) : LineNamed(lines'[e][k], parts, form)
    BY <1>3, <2>1, <2>3 DEF StockIInv, Unmingled, LinesNamed
  <2>5. \A c \in Commits : \A k \in 1..Len(commit[c]) : LineNamed(commit[c][k], parts, form)
    BY <2>1 DEF StockIInv, Unmingled, LinesNamed
  <2>6. LinesNamed'
    BY <1>1, <2>4, <2>5 DEF LinesNamed
  <2>7. QED
    BY <2>2, <2>6 DEF Unmingled
<1>7. QED
  BY <1>4, <1>5, <1>6 DEF StockIInv

\* The claim of the marker takes the draw that was left to do.
LEMMA CommitStockStep ==
    ASSUME StockIInv, NEW c \in Commits, NEW d \in StockDis, CommitStock(c, d)
    PROVE  StockIInv'
<1>1. /\ commit' = [commit EXCEPT ![c] = lines[d]]
      /\ UNCHANGED <<parts, lines, armings, form, ledger>>
      /\ mingled' = (mingled \/ ~FormsIdle)
  BY DEF CommitStock
<1>2. /\ commit' \in [Commits -> Seq(Line)] /\ commit'[c] = lines[d]
      /\ \A x \in Commits : x # c => commit'[x] = commit[x]
  BY <1>1 DEF StockIInv, StockTypes
<1>3. StockTypes'
  <2>1. stamped' \in [StockDis -> BOOLEAN] /\ draws' \in [StockDis -> Nat]
    BY DEF CommitStock, Claim, StockIInv, StockTypes
  <2>2. stockOps' \in 0..MaxStockOps
    BY StockBounds DEF CommitStock, StockOp, StockIInv, StockTypes
  <2>3. QED
    BY <1>1, <1>2, <2>1, <2>2 DEF StockIInv, StockTypes
<1>4. DrawsInv'
  <2> SUFFICES ASSUME NEW e \in StockDis
               PROVE  draws'[e] + (IF stamped'[e] THEN 0 ELSE 1) <= armings[e]
    BY <1>1 DEF DrawsInv
  <2>1. /\ draws[e] + (IF stamped[e] THEN 0 ELSE 1) <= armings[e]
        /\ draws[e] \in Nat /\ armings[e] \in Nat /\ stamped[e] \in BOOLEAN
    BY DEF StockIInv, StockTypes, DrawsInv
  <2>2. /\ ~stamped[d] /\ stamped'[e] = IF e = d THEN TRUE ELSE stamped[e]
        /\ draws'[e] = IF e = d THEN draws[e] + 1 ELSE draws[e]
    BY DEF CommitStock, Claim, StockIInv, StockTypes
  <2>3. QED
    BY <2>1, <2>2
<1>5. ASSUME ~mingled' PROVE Unmingled'
  <2>1. ~mingled /\ \A f \in Forms : form[f].at = "idle"
    BY <1>1, <1>5 DEF FormsIdle
  <2>2. FormsAlone' /\ NamesFree' /\ LedgerKept'
    BY <1>1, <2>1 DEF StockIInv, Unmingled, FormsAlone, NamesFree, LedgerKept, Uses
  <2>3. \A e \in StockDis : \A k \in 1..Len(lines[e]) : LineNamed(lines[e][k], parts, form)
    BY <2>1 DEF StockIInv, Unmingled, LinesNamed
  <2>4. \A x \in Commits : \A k \in 1..Len(commit'[x]) : LineNamed(commit'[x][k], parts, form)
    BY <1>2, <2>1, <2>3 DEF StockIInv, Unmingled, LinesNamed
  <2>5. LinesNamed'
    BY <1>1, <2>3, <2>4 DEF LinesNamed
  <2>6. QED
    BY <2>2, <2>5 DEF Unmingled
<1>6. QED
  BY <1>3, <1>4, <1>5 DEF StockIInv

\* A line is drawn from the part that bears its name: the one it was meant for.
LEMMA DrawLineStep ==
    ASSUME StockIInv, NEW c \in Commits, DrawLine(c)
    PROVE  StockIInv'
<1> DEFINE line == Head(commit[c])
           hits == {n \in Parts : parts[n].name = line.name /\ parts[n].stocked}
<1>1. /\ commit' = [commit EXCEPT ![c] = Tail(@)] /\ commit[c] # <<>>
      /\ UNCHANGED <<lines, stamped, armings, draws, form, stockOps, mingled>>
      /\ IF hits = {} THEN UNCHANGED parts
         ELSE \E n \in hits : parts' = [parts EXCEPT ![n].quantity = Less(@, line.quantity)]
      /\ ledger' = IF parts[line.meant].stocked
                   THEN [ledger EXCEPT ![line.meant] = Less(@, line.quantity)] ELSE ledger
  BY DEF DrawLine, Less
<1>2. commit[c] \in Seq(Line)
  BY DEF StockIInv, StockTypes
<1>3. /\ 1 \in 1..Len(commit[c]) /\ line = commit[c][1] /\ Len(commit[c]) \in Nat
      /\ line.name \in PartNames /\ line.meant \in Parts /\ line.quantity \in Nat
  <2>1. 1 \in 1..Len(commit[c]) /\ line = commit[c][1] /\ Len(commit[c]) \in Nat
    BY <1>1, <1>2, EmptySeq, LenProperties
  <2>2. QED
    BY <1>2, <2>1, LineFields
<1>4. /\ Tail(commit[c]) \in Seq(Line) /\ Len(Tail(commit[c])) = Len(commit[c]) - 1
      /\ \A k \in 1..Len(commit[c]) - 1 : Tail(commit[c])[k] = commit[c][k + 1]
  BY <1>1, <1>2, HeadTailProperties
<1> HIDE DEF line
<1>5. /\ commit' \in [Commits -> Seq(Line)] /\ commit'[c] = Tail(commit[c])
      /\ \A x \in Commits : x # c => commit'[x] = commit[x]
  BY <1>1, <1>4 DEF StockIInv, StockTypes
<1>6. /\ \A n \in Parts : /\ parts[n] \in Part /\ parts[n].quantity \in Quantities
                          /\ Less(parts[n].quantity, line.quantity) \in Quantities
                          /\ ledger[n] \in Quantities
                          /\ Less(ledger[n], line.quantity) \in Quantities
  <2>1. \A n \in Parts : parts[n] \in Part /\ ledger[n] \in Quantities
    BY DEF StockIInv, StockTypes
  <2>2. \A n \in Parts : parts[n].quantity \in Quantities
    BY <2>1 DEF Part
  <2>3. QED
    BY <1>3, <2>1, <2>2, StockNumbers
<1>7. /\ parts' \in [Parts -> Part]
      /\ \A n \in Parts : parts'[n].name = parts[n].name
  <2>1. CASE hits = {}
    BY <1>1, <2>1 DEF StockIInv, StockTypes
  <2>2. ASSUME NEW n \in hits, parts' = [parts EXCEPT ![n].quantity = Less(@, line.quantity)]
        PROVE  /\ parts' \in [Parts -> Part]
               /\ \A m \in Parts : parts'[m].name = parts[m].name
    BY <1>6, <2>2 DEF StockIInv, StockTypes, Part
  <2>3. QED
    BY <1>1, <2>1, <2>2
<1>8. StockTypes'
  <2>1. ledger' \in [Parts -> Quantities]
    BY <1>1, <1>3, <1>6 DEF StockIInv, StockTypes
  <2>2. QED
    BY <1>1, <1>5, <1>7, <2>1 DEF StockIInv, StockTypes
<1>9. DrawsInv'
  BY <1>1 DEF StockIInv, DrawsInv
<1>10. ASSUME ~mingled' PROVE Unmingled'
  <2>1. Unmingled /\ \A f \in Forms : form[f].at = "idle"
    BY <1>1, <1>10 DEF StockIInv, Unmingled, FormsAlone, Uses
  <2>2. line.name = parts[line.meant].name
    BY <1>3, <2>1 DEF Unmingled, LinesNamed, LineNamed, RenamesOn
  <2>3. \A n \in hits : n = line.meant
    BY <1>3, <2>1, <2>2 DEF Unmingled, NamesFree
  <2>4. LedgerKept'
    <3> SUFFICES ASSUME NEW n \in Parts PROVE parts'[n].quantity = ledger'[n]
      BY DEF LedgerKept
    <3>1. parts[n].quantity = ledger[n]
      BY <2>1 DEF Unmingled, LedgerKept
    <3>2. CASE parts[line.meant].stocked
      <4>1. line.meant \in hits
        BY <1>3, <2>2, <3>2
      <4> HIDE DEF hits
      <4>2. /\ parts' = [parts EXCEPT ![line.meant].quantity = Less(@, line.quantity)]
            /\ ledger' = [ledger EXCEPT ![line.meant] = Less(@, line.quantity)]
        BY <1>1, <2>3, <3>2, <4>1
      <4>3. /\ parts'[n].quantity = IF n = line.meant THEN Less(parts[n].quantity, line.quantity)
                                   ELSE parts[n].quantity
            /\ ledger'[n] = IF n = line.meant THEN Less(ledger[n], line.quantity) ELSE ledger[n]
        BY <4>2 DEF StockIInv, StockTypes, Part
      <4>4. QED
        BY <3>1, <4>3
    <3>3. CASE ~parts[line.meant].stocked
      <4>1. hits = {}
        BY <2>3, <3>3
      <4>2. QED
        BY <1>1, <3>1, <3>3, <4>1
    <3>4. QED
      BY <3>2, <3>3
  <2>5. FormsAlone'
    BY <1>1, <2>1 DEF FormsAlone, Uses
  <2>6. NamesFree'
    BY <1>1, <1>7, <2>1 DEF Unmingled, NamesFree
  <2>7. LinesNamed'
    <3>1. \A l \in Line : LineNamed(l, parts, form) => LineNamed(l, parts', form)
      BY <1>7 DEF LineNamed, Line
    <3>2. \A e \in StockDis : \A k \in 1..Len(lines[e]) : LineNamed(lines[e][k], parts', form)
      <4> SUFFICES ASSUME NEW e \in StockDis, NEW k \in 1..Len(lines[e])
                   PROVE  LineNamed(lines[e][k], parts', form)
        OBVIOUS
      <4>1. lines[e][k] \in Line
        BY LineFields DEF StockIInv, StockTypes
      <4>2. QED
        BY <2>1, <3>1, <4>1 DEF Unmingled, LinesNamed
    <3>3. \A x \in Commits : \A k \in 1..Len(commit[x]) : LineNamed(commit[x][k], parts', form)
      <4> SUFFICES ASSUME NEW x \in Commits, NEW k \in 1..Len(commit[x])
                   PROVE  LineNamed(commit[x][k], parts', form)
        OBVIOUS
      <4>1. commit[x][k] \in Line
        BY LineFields DEF StockIInv, StockTypes
      <4>2. QED
        BY <2>1, <3>1, <4>1 DEF Unmingled, LinesNamed
    <3>4. \A x \in Commits : \A k \in 1..Len(commit'[x]) : LineNamed(commit'[x][k], parts', form)
      <4> SUFFICES ASSUME NEW x \in Commits, NEW k \in 1..Len(commit'[x])
                   PROVE  LineNamed(commit'[x][k], parts', form)
        OBVIOUS
      <4>1. CASE x = c
        <5>1. k \in 1..Len(commit[c]) - 1
          BY <1>4, <1>5, <4>1
        <5>2. k + 1 \in 1..Len(commit[c]) /\ commit'[x][k] = commit[c][k + 1]
          BY <1>3, <1>4, <1>5, <4>1, <5>1
        <5>3. QED
          BY <3>3, <5>2
      <4>2. CASE x # c
        BY <1>5, <3>3, <4>2
      <4>3. QED
        BY <4>1, <4>2
    <3>5. QED
      BY <1>1, <3>2, <3>4 DEF LinesNamed
  <2>8. QED
    BY <2>4, <2>5, <2>6, <2>7 DEF Unmingled
<1>11. QED
  BY <1>8, <1>9, <1>10 DEF StockIInv

\* A draw that fails loses its last lines, and nothing else.
LEMMA DrawFailsStep ==
    ASSUME StockIInv, NEW c \in Commits, DrawFails(c)
    PROVE  StockIInv'
<1>1. /\ commit' = [commit EXCEPT ![c] = <<>>]
      /\ UNCHANGED <<parts, lines, stamped, armings, draws, form, ledger, stockOps, mingled>>
  BY DEF DrawFails
<1>2. <<>> \in Seq(Line) /\ Len(<<>>) = 0
  BY EmptySeq
<1>3. /\ commit' \in [Commits -> Seq(Line)] /\ commit'[c] = <<>>
      /\ \A x \in Commits : x # c => commit'[x] = commit[x]
  BY <1>1, <1>2 DEF StockIInv, StockTypes
<1>4. StockTypes' /\ DrawsInv'
  BY <1>1, <1>3 DEF StockIInv, StockTypes, DrawsInv
<1>5. ASSUME ~mingled' PROVE Unmingled'
  <2>1. Unmingled
    BY <1>1, <1>5 DEF StockIInv
  <2>2. FormsAlone'
    BY <1>1, <1>3, <2>1 DEF Unmingled, FormsAlone, Uses
  <2>3. NamesFree' /\ LedgerKept'
    BY <1>1, <2>1 DEF Unmingled, NamesFree, LedgerKept
  <2>4. \A x \in Commits : \A k \in 1..Len(commit'[x]) : LineNamed(commit'[x][k], parts, form)
    BY <1>2, <1>3, <2>1 DEF Unmingled, LinesNamed
  <2>5. LinesNamed'
    BY <1>1, <2>1, <2>4 DEF Unmingled, LinesNamed
  <2>6. QED
    BY <2>2, <2>3, <2>5 DEF Unmingled
<1>6. QED
  BY <1>4, <1>5 DEF StockIInv

\* A form opens on a part, for its name or for a free one.
LEMMA OpenFormStep ==
    ASSUME StockIInv, NEW f \in Forms, NEW n \in Parts, NEW name \in PartNames,
           NEW change \in {-1, 0, 1}, OpenForm(f, n, name, change)
    PROVE  StockIInv'
<1> DEFINE opened == [at |-> "open", on |-> n, name |-> name,
                      quantity |-> parts[n].quantity, change |-> change]
<1>1. /\ form' = [form EXCEPT ![f] = opened] /\ form[f].at = "idle"
      /\ name = parts[n].name \/ \A k \in Parts : parts[k].name # name
      /\ parts[n].quantity + change \in Quantities
      /\ mingled' = (mingled \/ ~FormsIdle \/ \E c \in Commits : commit[c] # <<>>)
      /\ UNCHANGED <<parts, lines, stamped, armings, draws, commit, ledger>>
  BY DEF OpenForm
<1>2. /\ opened \in FormInUse /\ opened.at = "open" /\ opened.on = n /\ opened.name = name
      /\ opened.quantity = parts[n].quantity /\ opened.change = change
  <2>1. parts[n].quantity \in Quantities
    BY DEF StockIInv, StockTypes, Part
  <2>2. QED
    BY <2>1 DEF FormInUse
<1> HIDE DEF opened
<1>3. /\ form' \in [Forms -> FormInUse \cup {IdleForm}] /\ form'[f] = opened
      /\ \A g \in Forms : g # f => form'[g] = form[g]
  BY <1>1, <1>2 DEF StockIInv, StockTypes
<1>4. StockTypes'
  <2>1. \A g \in Forms : form'[g].quantity + form'[g].change \in Quantities
    BY <1>1, <1>2, <1>3 DEF StockIInv, StockTypes
  <2>2. stockOps' \in 0..MaxStockOps
    BY StockBounds DEF OpenForm, StockOp, StockIInv, StockTypes
  <2>3. mingled' \in BOOLEAN
    BY <1>1
  <2>4. QED
    BY <1>1, <1>3, <2>1, <2>2, <2>3 DEF StockIInv, StockTypes
<1>5. DrawsInv'
  BY <1>1 DEF StockIInv, DrawsInv
<1>6. ASSUME ~mingled' PROVE Unmingled'
  <2>1. /\ Unmingled /\ \A g \in Forms : form[g].at = "idle"
        /\ \A c \in Commits : commit[c] = <<>>
    BY <1>1, <1>6 DEF StockIInv, FormsIdle
  <2>2. \A g \in Forms : g # f => form'[g].at = "idle"
    BY <1>3, <2>1
  <2>3. FormsAlone'
    BY <1>1, <2>1, <2>2 DEF FormsAlone, Uses
  <2>4. NamesFree'
    <3>1. \A k \in Parts : parts[k].name = name => k = n
      BY <1>1, <2>1 DEF Unmingled, NamesFree
    <3>2. QED
      BY <1>1, <1>2, <1>3, <2>1, <2>2, <3>1 DEF Unmingled, NamesFree
  <2>5. LedgerKept'
    BY <1>1, <2>1 DEF Unmingled, LedgerKept
  <2>6. \A g \in Forms : form[g].at # "cascade" /\ form'[g].at # "cascade"
    BY <1>2, <1>3, <2>1, <2>2
  <2>7. \A l : LineNamed(l, parts, form) => LineNamed(l, parts, form')
    BY <2>6 DEF LineNamed, RenamesOn
  <2>8. LinesNamed'
    BY <1>1, <2>1, <2>7 DEF Unmingled, LinesNamed
  <2>9. QED
    BY <2>3, <2>4, <2>5, <2>8 DEF Unmingled
<1>7. QED
  BY <1>4, <1>5, <1>6 DEF StockIInv

\* A form writes its part, and goes on to the lines when the name has changed.
LEMMA WriteFormStep ==
    ASSUME StockIInv, NEW f \in Forms, WriteForm(f)
    PROVE  StockIInv'
<1> DEFINE n == form[f].on
           next == IF parts[n].name = form[f].name THEN IdleForm
                   ELSE [form[f] EXCEPT !.at = "cascade", !.name = parts[n].name]
<1>1. /\ form[f].at = "open"
      /\ parts' = [parts EXCEPT ![n].name = form[f].name,
                                ![n].quantity = form[f].quantity + form[f].change]
      /\ ledger' = [ledger EXCEPT ![n] = IF @ + form[f].change \in Quantities
                                         THEN @ + form[f].change ELSE @]
      /\ UNCHANGED <<lines, stamped, armings, draws, commit, stockOps, mingled>>
  BY DEF WriteForm
<1>2. /\ form[f] \in FormInUse /\ n \in Parts /\ form[f].name \in PartNames
      /\ form[f].quantity \in Quantities /\ form[f].change \in {-1, 0, 1}
      /\ form[f].quantity + form[f].change \in Quantities
  BY <1>1, FormHolds DEF StockIInv, StockTypes, Uses
<1>3. parts[n] \in Part /\ parts[n].name \in PartNames /\ ledger[n] \in Quantities
  BY <1>2 DEF StockIInv, StockTypes, Part
<1>4. form' = [form EXCEPT ![f] = next]
  <2>1. CASE parts[n].name = form[f].name
    BY <2>1 DEF WriteForm
  <2>2. CASE parts[n].name # form[f].name
    <3>1. form' = [form EXCEPT ![f].at = "cascade", ![f].name = parts[n].name]
      BY <2>2 DEF WriteForm
    <3>2. QED
      BY <2>2, <3>1 DEF StockIInv, StockTypes
  <2>3. QED
    BY <2>1, <2>2
<1>5. /\ next \in FormInUse \cup {IdleForm}
      /\ next.quantity + next.change \in Quantities
      /\ parts[n].name = form[f].name => next.at = "idle"
      /\ parts[n].name # form[f].name =>
            next.at = "cascade" /\ next.on = n /\ next.name = parts[n].name
  BY <1>2, <1>3, StockNumbers, IdleFormTypes DEF FormInUse
<1> HIDE DEF next
<1>6. /\ form' \in [Forms -> FormInUse \cup {IdleForm}] /\ form'[f] = next
      /\ \A g \in Forms : g # f => form'[g] = form[g]
  BY <1>4, <1>5 DEF StockIInv, StockTypes
<1>7. /\ parts' \in [Parts -> Part]
      /\ parts'[n].name = form[f].name
      /\ parts'[n].quantity = form[f].quantity + form[f].change
      /\ \A k \in Parts : k # n => parts'[k] = parts[k]
  BY <1>1, <1>2 DEF StockIInv, StockTypes, Part
<1> HIDE DEF n
<1>8. /\ ledger' \in [Parts -> Quantities]
      /\ ledger'[n] = IF ledger[n] + form[f].change \in Quantities
                      THEN ledger[n] + form[f].change ELSE ledger[n]
      /\ \A k \in Parts : k # n => ledger'[k] = ledger[k]
  BY <1>1, <1>2, <1>3 DEF StockIInv, StockTypes
<1>9. StockTypes'
  <2>1. \A g \in Forms : form'[g].quantity + form'[g].change \in Quantities
    BY <1>5, <1>6 DEF StockIInv, StockTypes
  <2>2. QED
    BY <1>1, <1>6, <1>7, <1>8, <2>1 DEF StockIInv, StockTypes
<1>10. DrawsInv'
  BY <1>1 DEF StockIInv, DrawsInv
<1>11. ASSUME ~mingled' PROVE Unmingled'
  <2>1. Unmingled
    BY <1>1, <1>11 DEF StockIInv
  <2>2. /\ \A g \in Forms : g # f => form[g].at = "idle" /\ form'[g].at = "idle"
        /\ \A c \in Commits : commit[c] = <<>>
    BY <1>1, <1>6, <2>1 DEF Unmingled, FormsAlone, Uses
  <2>3. /\ form[f].quantity = parts[n].quantity
        /\ \A k \in Parts : parts[k].name = form[f].name => k = n
        /\ \A k, m \in Parts : parts[k].name = parts[m].name => k = m
        /\ parts[n].quantity = ledger[n]
    BY <1>1, <1>2, <2>1 DEF Unmingled, NamesFree, LedgerKept, n
  <2>4. FormsAlone'
    BY <1>1, <2>2 DEF FormsAlone, Uses
  <2>5. NamesFree'
    <3>1. \A k, m \in Parts : parts'[k].name = parts'[m].name => k = m
      BY <1>7, <2>3
    <3>2. next.at # "open"
      BY <1>5
    <3>3. next.at = "cascade" => \A k \in Parts : parts'[k].name # next.name
      BY <1>2, <1>5, <1>7, <2>3
    <3>4. QED
      BY <1>6, <2>2, <3>1, <3>2, <3>3 DEF NamesFree
  <2>6. LedgerKept'
    BY <1>2, <1>7, <1>8, <2>1, <2>3 DEF Unmingled, LedgerKept
  <2>7. LinesNamed'
    <3>1. ASSUME NEW l \in Line, LineNamed(l, parts, form)
          PROVE  LineNamed(l, parts', form')
      <4>1. l.meant \in Parts /\ l.name = parts[l.meant].name
        BY <1>1, <2>2, <3>1 DEF LineNamed, RenamesOn, Line
      <4>2. CASE parts[n].name = form[f].name
        <5>1. \A g \in Forms : form'[g].at = "idle"
          BY <1>5, <1>6, <2>2, <4>2
        <5>2. \A k \in Parts : parts'[k].name = parts[k].name
          BY <1>7, <4>2
        <5>3. QED
          BY <4>1, <5>1, <5>2 DEF LineNamed, RenamesOn
      <4>3. CASE parts[n].name # form[f].name
        <5>1. /\ \A g \in Forms : RenamesOn(form', g, l.meant) => g = f
              /\ RenamesOn(form', f, l.meant) <=> l.meant = n
          BY <1>5, <1>6, <2>2, <4>3 DEF RenamesOn
        <5>2. l.meant = n => l.name = form'[f].name
          BY <1>5, <1>6, <4>1, <4>3
        <5>3. l.meant # n => l.name = parts'[l.meant].name
          BY <1>7, <4>1
        <5>4. QED
          BY <5>1, <5>2, <5>3 DEF LineNamed
      <4>4. QED
        BY <4>2, <4>3
    <3>2. ASSUME NEW d \in StockDis, NEW k \in 1..Len(lines[d])
          PROVE  LineNamed(lines[d][k], parts', form')
      <4>1. lines[d][k] \in Line
        BY LineFields DEF StockIInv, StockTypes
      <4>2. LineNamed(lines[d][k], parts, form)
        BY <2>1 DEF Unmingled, LinesNamed
      <4>3. QED
        BY <3>1, <4>1, <4>2
    <3>3. \A c \in Commits : Len(commit[c]) = 0
      BY <2>2, EmptySeq
    <3>4. \A c \in Commits : \A k \in 1..Len(commit[c]) : LineNamed(commit[c][k], parts', form')
      BY <3>3
    <3>5. commit' = commit /\ lines' = lines
      BY <1>1
    <3>6. QED
      BY <3>2, <3>4, <3>5 DEF LinesNamed
  <2>8. QED
    BY <2>4, <2>5, <2>6, <2>7 DEF Unmingled
<1>12. QED
  BY <1>9, <1>10, <1>11 DEF StockIInv

\* The cascade gives the lines of the part its new name, and touches no other line.
LEMMA CascadeRenameStep ==
    ASSUME StockIInv, NEW f \in Forms, CascadeRename(f)
    PROVE  StockIInv'
<1> DEFINE old == form[f].name
           new == parts[form[f].on].name
<1>1. /\ form[f].at = "cascade"
      /\ lines' = [d \in StockDis |-> Renamed(lines[d], old, new)]
      /\ form' = [form EXCEPT ![f] = IdleForm]
      /\ UNCHANGED <<parts, stamped, armings, draws, commit, ledger, stockOps, mingled>>
  BY DEF CascadeRename
<1>2. form[f].on \in Parts /\ new \in PartNames
  <2>1. form[f].on \in Parts
    BY <1>1, FormHolds DEF StockIInv, Uses
  <2>2. QED
    BY <2>1 DEF StockIInv, StockTypes, Part
<1> HIDE DEF old, new
<1>3. /\ form' \in [Forms -> FormInUse \cup {IdleForm}] /\ form'[f].at = "idle"
      /\ form'[f].quantity + form'[f].change \in Quantities
      /\ \A g \in Forms : g # f => form'[g] = form[g]
  BY <1>1, IdleFormTypes, StockNumbers DEF StockIInv, StockTypes
<1>4. ASSUME NEW d \in StockDis
      PROVE  /\ lines'[d] \in Seq(Line) /\ Len(lines'[d]) = Len(lines[d])
             /\ \A k \in 1..Len(lines[d]) :
                   /\ lines'[d][k].meant = lines[d][k].meant
                   /\ lines'[d][k].name = IF lines[d][k].name = old THEN new
                                          ELSE lines[d][k].name
  <2> DEFINE list == lines[d]
  <2>1. list \in Seq(Line) /\ DOMAIN list = 1..Len(list) /\ Len(list) \in Nat
    BY LenProperties DEF StockIInv, StockTypes
  <2> HIDE DEF list
  <2>2. \A k \in 1..Len(list) : list[k] \in Line
    BY <2>1, LineFields
  <2>3. Renamed(list, old, new) = [k \in 1..Len(list) |->
             IF list[k].name = old THEN [list[k] EXCEPT !.name = new] ELSE list[k]]
    BY <2>1 DEF Renamed
  <2>4. Renamed(list, old, new) \in [1..Len(list) -> Line]
    BY <1>2, <2>2, <2>3 DEF Line
  <2>5. Renamed(list, old, new) \in Seq(Line) /\ Len(Renamed(list, old, new)) = Len(list)
    BY <2>1, <2>4
  <2>6. \A k \in 1..Len(list) :
           /\ Renamed(list, old, new)[k].meant = list[k].meant
           /\ Renamed(list, old, new)[k].name = IF list[k].name = old THEN new ELSE list[k].name
    BY <2>2, <2>3 DEF Line
  <2>7. lines'[d] = Renamed(list, old, new)
    BY <1>1 DEF list
  <2>8. QED
    BY <2>5, <2>6, <2>7 DEF list
<1>5. StockTypes'
  <2>1. lines' \in [StockDis -> Seq(Line)]
    BY <1>1, <1>4
  <2>2. QED
    BY <1>1, <1>3, <2>1 DEF StockIInv, StockTypes
<1>6. DrawsInv'
  BY <1>1 DEF StockIInv, DrawsInv
<1>7. ASSUME ~mingled' PROVE Unmingled'
  <2>1. Unmingled
    BY <1>1, <1>7 DEF StockIInv
  <2>2. /\ \A g \in Forms : g # f => form[g].at = "idle"
        /\ \A g \in Forms : form'[g].at = "idle"
        /\ \A c \in Commits : commit[c] = <<>>
    BY <1>1, <1>3, <2>1 DEF Unmingled, FormsAlone, Uses
  <2>3. FormsAlone' /\ NamesFree' /\ LedgerKept'
    BY <1>1, <2>1, <2>2 DEF Unmingled, FormsAlone, NamesFree, LedgerKept, Uses
  <2>4. ASSUME NEW d \in StockDis, NEW k \in 1..Len(lines[d])
        PROVE  LineNamed(lines'[d][k], parts, form')
    <3> DEFINE line == lines[d][k]
    <3>1. line.meant \in Parts /\ LineNamed(line, parts, form)
      BY <2>1, LineFields DEF StockIInv, StockTypes, Unmingled, LinesNamed
    <3>2. /\ lines'[d][k].meant = line.meant
          /\ lines'[d][k].name = IF line.name = old THEN new ELSE line.name
      BY <1>4
    <3> HIDE DEF line
    <3>3. CASE line.meant = form[f].on
      <4>1. line.name = old
        BY <1>1, <3>1, <3>3 DEF LineNamed, RenamesOn, old
      <4>2. QED
        BY <2>2, <3>2, <3>3, <4>1 DEF LineNamed, RenamesOn, new
    <3>4. CASE line.meant # form[f].on
      <4>1. line.name = parts[line.meant].name
        BY <2>2, <3>1, <3>4 DEF LineNamed, RenamesOn
      <4>2. line.name # old
        BY <1>1, <2>1, <3>1, <4>1 DEF Unmingled, NamesFree, old
      <4>3. QED
        BY <2>2, <3>2, <4>1, <4>2 DEF LineNamed, RenamesOn
    <3>5. QED
      BY <3>3, <3>4
  <2>5. \A c \in Commits : Len(commit[c]) = 0
    BY <2>2, EmptySeq
  <2>6. LinesNamed'
    <3>1. \A c \in Commits : \A k \in 1..Len(commit[c]) : LineNamed(commit[c][k], parts, form')
      BY <2>5
    <3>2. \A d \in StockDis : \A k \in 1..Len(lines'[d]) : LineNamed(lines'[d][k], parts, form')
      BY <1>4, <2>4
    <3>3. commit' = commit /\ parts' = parts
      BY <1>1
    <3>4. QED
      BY <3>1, <3>2, <3>3 DEF LinesNamed
  <2>7. QED
    BY <2>3, <2>6 DEF Unmingled
<1>8. QED
  BY <1>5, <1>6, <1>7 DEF StockIInv

LEMMA StockStepInv == StockIInv /\ [StockNext]_stockVars => StockIInv'
<1> SUFFICES ASSUME StockIInv, [StockNext]_stockVars PROVE StockIInv'
  OBVIOUS
<1>1. CASE UNCHANGED stockVars
  BY <1>1 DEF stockVars, StockIInv, StockTypes, DrawsInv, Unmingled, FormsAlone, NamesFree,
     LinesNamed, LedgerKept, Uses
<1>2. ASSUME NEW d \in StockDis, NEW length \in 1..2, NEW quantity \in 1..MaxDrawnEach,
             NEW picked \in [1..length -> Parts], SaveDiagnostic(d, picked, quantity)
      PROVE  StockIInv'
  BY <1>2, SaveDiagnosticStep
<1>3. ASSUME NEW c \in Commits, NEW d \in StockDis, CommitStock(c, d)
      PROVE  StockIInv'
  BY <1>3, CommitStockStep
<1>4. ASSUME NEW c \in Commits, DrawLine(c) \/ DrawFails(c)
      PROVE  StockIInv'
  BY <1>4, DrawLineStep, DrawFailsStep
<1>5. ASSUME NEW f \in Forms, NEW n \in Parts, NEW name \in PartNames, NEW change \in {-1, 0, 1},
             OpenForm(f, n, name, change)
      PROVE  StockIInv'
  BY <1>5, OpenFormStep
<1>6. ASSUME NEW f \in Forms, WriteForm(f) \/ CascadeRename(f)
      PROVE  StockIInv'
  BY <1>6, WriteFormStep, CascadeRenameStep
<1>7. QED
  BY <1>1, <1>2, <1>3, <1>4, <1>5, <1>6 DEF StockNext

----------------------------------------------------------------------------
(* Theorems.                                                               *)

\* Whatever requests commit the stock of a diagnostic, it is drawn at most once; and as
\* long as the forms and the draws keep clear of each other, the quantities are what they
\* add up to, and the lines of the DIs follow the renames (commitStockDecrementOnce,
\* updateComposant).
THEOREM StockInvariant == StockSpec => []StockInv
<1>1. StockIInv => StockInv
  <2> SUFFICES ASSUME StockIInv PROVE StockInv
    OBVIOUS
  <2>1. StockTypeOK
    <3>1. \A f \in Forms : form[f].at \in {"idle", "open", "cascade"}
      BY FormHolds DEF StockIInv, Uses
    <3>2. QED
      BY <3>1 DEF StockIInv, StockTypes, StockTypeOK, Part
  <2>2. DrawnOncePerDiagnostic
    <3> SUFFICES ASSUME NEW d \in StockDis PROVE draws[d] <= armings[d]
      BY DEF DrawnOncePerDiagnostic
    <3>1. /\ draws[d] + (IF stamped[d] THEN 0 ELSE 1) <= armings[d]
          /\ draws[d] \in Nat /\ armings[d] \in Nat
      BY DEF StockIInv, StockTypes, DrawsInv
    <3>2. QED
      BY <3>1
  <2>3. StockAddsUp
    BY DEF StockAddsUp, StockIInv, Unmingled, LedgerKept
  <2>4. LinesFollowRenames
    <3> SUFFICES ASSUME ~mingled, FormsIdle, NEW d \in StockDis, NEW k \in DOMAIN lines[d]
                 PROVE  lines[d][k].name = parts[lines[d][k].meant].name
      BY DEF LinesFollowRenames
    <3>1. k \in 1..Len(lines[d])
      BY LenProperties DEF StockIInv, StockTypes
    <3>2. LineNamed(lines[d][k], parts, form)
      BY <3>1 DEF StockIInv, Unmingled, LinesNamed
    <3>3. QED
      BY <3>2 DEF LineNamed, RenamesOn, FormsIdle
  <2>5. QED
    BY <2>1, <2>2, <2>3, <2>4 DEF StockInv
<1>2. StockInit => StockIInv
  BY StockInitInv
<1>3. StockIInv /\ [StockNext]_stockVars => StockIInv'
  BY StockStepInv
<1>4. QED
  BY <1>1, <1>2, <1>3, PTL DEF StockSpec

(***************************************************************************)
(* The counts of the locations.                                            *)
(***************************************************************************)

Stored == 0..Cardinality(StoredDis)
Where == Locations \cup {"none"}
PlacerState == [at: {"idle", "write", "count", "put"}, di: SUBSET StoredDis, to: Where,
                from: Where, todo: SUBSET Locations, seen: Stored]

\* The types, with what a request has in hand.
PlacementTypes ==
    /\ place \in [StoredDis -> Locations \cup {"none", "unborn", "deleted"}]
    /\ counted \in [Locations -> Stored]
    /\ placer \in [Placers -> PlacerState]
    /\ \A p \in Placers : placer[p].at = "put" => placer[p].to \in placer[p].todo
    /\ placements \in 0..MaxPlacements

LonePlacer ==
    \A p, q \in Placers : placer[p].at # "idle" /\ placer[q].at # "idle" => p = q

\* What a request alone has read still stands when it uses it.
ReadingStands ==
    /\ \A p \in Placers : placer[p].at = "write" =>
          \A d \in placer[p].di : place[d] = placer[p].from
    /\ \A p \in Placers : placer[p].at = "put" => placer[p].seen = InLocation(placer[p].to)

\* A count that is not right is one a request is about to make again.
ToBeCounted(l) == \E p \in Placers : placer[p].at \in {"count", "put"} /\ l \in placer[p].todo
CountsFollow == \A l \in Locations : counted[l] = InLocation(l) \/ ToBeCounted(l)

CountsIInv ==
    /\ PlacementTypes
    /\ ~crossing => LonePlacer /\ ReadingStands /\ (~halfway /\ ~late => CountsFollow)

LEMMA InLocationTyped == \A l : InLocation(l) \in Stored
<1> SUFFICES ASSUME NEW l PROVE InLocation(l) \in Stored
  OBVIOUS
<1> DEFINE there == {d \in StoredDis : place[d] = l}
<1>1. IsFiniteSet(there) /\ Cardinality(there) <= Cardinality(StoredDis)
  <2>1. there \in SUBSET StoredDis
    OBVIOUS
  <2>2. QED
    BY <2>1, PlacementBounds, FS_Subset
<1>2. Cardinality(there) \in Nat /\ Cardinality(StoredDis) \in Nat
  BY <1>1, PlacementBounds, FS_CardinalityType
<1> HIDE DEF there
<1>3. Cardinality(there) \in Stored
  BY <1>1, <1>2 DEF Stored
<1>4. QED
  BY <1>3 DEF there, InLocation

\* A DI that moves leaves the counts of the other locations as they are.
LEMMA OthersCounted ==
    ASSUME NEW d \in StoredDis, NEW x, PlacementTypes, place' = [place EXCEPT ![d] = x]
    PROVE  \A l : l # place[d] /\ l # x => InLocation(l)' = InLocation(l)
<1> SUFFICES ASSUME NEW l, l # place[d], l # x PROVE InLocation(l)' = InLocation(l)
  OBVIOUS
<1>1. {c \in StoredDis : place'[c] = l} = {c \in StoredDis : place[c] = l}
  BY DEF PlacementTypes
<1>2. QED
  BY <1>1 DEF InLocation

LEMMA CountsInitInv == StoredInit => CountsIInv
<1> SUFFICES ASSUME StoredInit PROVE CountsIInv
  OBVIOUS
<1>1. 0 \in Stored /\ 0 \in 0..MaxPlacements
  <2>1. Cardinality(StoredDis) \in Nat
    BY PlacementBounds, FS_CardinalityType
  <2>2. QED
    BY <2>1, PlacementBounds DEF Stored
<1>2. Quiet \in PlacerState /\ Quiet.at = "idle"
  BY <1>1 DEF Quiet, PlacerState, Where
<1>3. PlacementTypes
  BY <1>1, <1>2 DEF StoredInit, PlacementTypes
<1>4. LonePlacer /\ ReadingStands
  BY <1>2 DEF StoredInit, LonePlacer, ReadingStands
<1>5. ASSUME NEW l \in Locations PROVE counted[l] = InLocation(l)
  <2>1. {d \in StoredDis : place[d] = l} = {}
    BY PlacementBounds DEF StoredInit
  <2>2. QED
    BY <2>1, FS_EmptySet DEF StoredInit, InLocation
<1>6. QED
  BY <1>3, <1>4, <1>5 DEF CountsIInv, CountsFollow

\* What a step that moves one request does to the others.
LEMMA PlacerMoved ==
    ASSUME PlacementTypes, NEW p \in Placers, NEW state \in PlacerState,
           placer' = [placer EXCEPT ![p] = state]
    PROVE  /\ placer' \in [Placers -> PlacerState]
           /\ placer'[p] = state
           /\ \A q \in Placers \ {p} : placer'[q] = placer[q]
  BY DEF PlacementTypes

\* A request begins: alone, or the requests cross.
LEMMA PlacementBegins ==
    ASSUME CountsIInv, NEW p \in Placers, Begin(p), NEW state \in PlacerState,
           placer' = [placer EXCEPT ![p] = state], UNCHANGED <<counted, halfway, late>>,
           place' \in [StoredDis -> Locations \cup {"none", "unborn", "deleted"}],
           state.at \in {"write", "count"},
           \A d \in state.di : place'[d] = state.from,
           \A l \in Locations : InLocation(l)' = InLocation(l) \/ (state.at = "count" /\ l \in state.todo)
    PROVE  CountsIInv'
<1> USE DEF CountsIInv
<1>1. /\ placer' \in [Placers -> PlacerState]
      /\ placer'[p] = state
      /\ \A q \in Placers \ {p} : placer'[q] = placer[q]
  BY PlacerMoved
<1>2. PlacementTypes'
  <2>1. placements' \in 0..MaxPlacements
    BY PlacementBounds DEF Begin, PlacementTypes
  <2>2. QED
    BY <1>1, <2>1 DEF PlacementTypes
<1>3. ASSUME ~crossing' PROVE ~crossing /\ \A q \in Placers : placer[q].at = "idle"
  BY <1>3 DEF Begin, Resting
<1>4. ASSUME ~crossing'
      PROVE  LonePlacer' /\ ReadingStands' /\ (~halfway' /\ ~late' => CountsFollow')
  <2>1. \A q \in Placers : placer'[q].at # "idle" => q = p
    BY <1>1, <1>3, <1>4
  <2>2. LonePlacer'
    BY <2>1 DEF LonePlacer
  <2>3. ReadingStands'
    BY <1>1, <2>1 DEF ReadingStands
  <2>4. ASSUME ~halfway', ~late', NEW l \in Locations
        PROVE  counted'[l] = InLocation(l)' \/ ToBeCounted(l)'
    <3>1. counted[l] = InLocation(l)
      BY <1>3, <1>4, <2>4 DEF CountsFollow, ToBeCounted
    <3>2. CASE state.at = "count" /\ l \in state.todo
      BY <1>1, <3>2 DEF ToBeCounted
    <3>3. QED
      BY <3>1, <3>2
  <2>5. QED
    BY <2>2, <2>3, <2>4 DEF CountsFollow
<1>5. QED
  BY <1>2, <1>4

LEMMA CreateDiInv ==
    ASSUME CountsIInv, NEW p \in Placers, NEW d \in StoredDis, NEW l \in Where, CreateDi(p, d, l)
    PROVE  CountsIInv'
<1> DEFINE state == [Quiet EXCEPT !.at = "count", !.todo = {l} \cap Locations]
<1>1. /\ state \in PlacerState /\ state.at = "count" /\ state.di = {}
      /\ state.todo = {l} \cap Locations
  <2>1. 0 \in Stored
    BY PlacementBounds, FS_CardinalityType DEF Stored
  <2>2. QED
    BY <2>1 DEF PlacerState, Quiet, Where
<1>2. Begin(p) /\ placer' = [placer EXCEPT ![p] = state] /\ UNCHANGED <<counted, halfway, late>>
  BY DEF CreateDi
<1> HIDE DEF state
<1>3. place' = [place EXCEPT ![d] = l] /\ place[d] = "unborn" /\ PlacementTypes
  BY DEF CreateDi, CountsIInv
<1>4. place' \in [StoredDis -> Locations \cup {"none", "unborn", "deleted"}]
  BY <1>3 DEF PlacementTypes, Where
<1>5. ASSUME NEW k \in Locations
      PROVE  InLocation(k)' = InLocation(k) \/ (state.at = "count" /\ k \in state.todo)
  BY <1>1, <1>3, OthersCounted, PlacementBounds
<1>6. QED
  BY <1>1, <1>2, <1>4, <1>5, PlacementBegins

LEMMA ReadPlaceInv ==
    ASSUME CountsIInv, NEW p \in Placers, NEW d \in StoredDis, NEW l \in Where, ReadPlace(p, d, l)
    PROVE  CountsIInv'
<1> DEFINE state == [Quiet EXCEPT !.at = "write", !.di = {d}, !.to = l, !.from = place[d]]
<1>1. /\ state \in PlacerState /\ state.at = "write" /\ state.di = {d} /\ state.from = place[d]
  <2>1. 0 \in Stored
    BY PlacementBounds, FS_CardinalityType DEF Stored
  <2>2. QED
    BY <2>1 DEF PlacerState, Quiet, Where, ReadPlace
<1>2. Begin(p) /\ placer' = [placer EXCEPT ![p] = state] /\ UNCHANGED <<place, counted, halfway, late>>
  BY DEF ReadPlace
<1> HIDE DEF state
<1>3. \A k \in Locations : InLocation(k)' = InLocation(k)
  BY <1>2 DEF InLocation
<1>4. QED
  BY <1>1, <1>2, <1>3, PlacementBegins DEF CountsIInv, PlacementTypes

LEMMA DeleteStoredInv ==
    ASSUME CountsIInv, NEW p \in Placers, NEW d \in StoredDis, DeleteStored(p, d)
    PROVE  CountsIInv'
<1> DEFINE state == [Quiet EXCEPT !.at = "count", !.todo = CountedAfterDelete(place[d])]
<1>1. /\ state \in PlacerState /\ state.at = "count" /\ state.di = {}
      /\ state.todo = {place[d]} \cap Locations
  <2>1. 0 \in Stored
    BY PlacementBounds, FS_CardinalityType DEF Stored
  <2>2. QED
    BY <2>1 DEF PlacerState, Quiet, Where, CountedAfterDelete
<1>2. Begin(p) /\ placer' = [placer EXCEPT ![p] = state] /\ UNCHANGED <<counted, halfway, late>>
  BY DEF DeleteStored
<1> HIDE DEF state
<1>3. place' = [place EXCEPT ![d] = "deleted"] /\ PlacementTypes
  BY DEF DeleteStored, CountsIInv
<1>4. place' \in [StoredDis -> Locations \cup {"none", "unborn", "deleted"}]
  BY <1>3 DEF PlacementTypes
<1>5. ASSUME NEW k \in Locations
      PROVE  InLocation(k)' = InLocation(k) \/ (state.at = "count" /\ k \in state.todo)
  <2>1. CASE k = place[d]
    BY <1>1, <2>1
  <2>2. CASE k # place[d]
    <3>1. k # "deleted"
      BY PlacementBounds
    <3>2. QED
      BY <1>3, <2>2, <3>1, OthersCounted
  <2>3. QED
    BY <2>1, <2>2
<1>6. QED
  BY <1>1, <1>2, <1>4, <1>5, PlacementBegins

\* A request under way goes on, or ends.
LEMMA PlacementGoesOn ==
    ASSUME CountsIInv, NEW p \in Placers, placer[p].at # "idle", NEW state \in PlacerState,
           placer' = [placer EXCEPT ![p] = state], UNCHANGED <<placements, crossing>>,
           place' \in [StoredDis -> Locations \cup {"none", "unborn", "deleted"}],
           counted' \in [Locations -> Stored],
           state.at = "put" => state.to \in state.todo /\ state.seen = InLocation(state.to)',
           state.at # "write",
           halfway => halfway', late => late',
           LonePlacer /\ ReadingStands /\ ~halfway' /\ ~late' => \A l \in Locations :
              \/ counted'[l] = InLocation(l)'
              \/ state.at \in {"count", "put"} /\ l \in state.todo
              \/ counted'[l] = counted[l] /\ InLocation(l)' = InLocation(l) /\ ~(
                    placer[p].at \in {"count", "put"} /\ l \in placer[p].todo)
    PROVE  CountsIInv'
<1> USE DEF CountsIInv
<1>1. /\ placer' \in [Placers -> PlacerState]
      /\ placer'[p] = state
      /\ \A q \in Placers \ {p} : placer'[q] = placer[q]
  BY PlacerMoved
<1>2. PlacementTypes'
  BY <1>1 DEF PlacementTypes
<1>3. ASSUME ~crossing'
      PROVE  LonePlacer' /\ ReadingStands' /\ (~halfway' /\ ~late' => CountsFollow')
  <2>1. LonePlacer /\ ReadingStands /\ (~halfway' /\ ~late' => CountsFollow)
    BY <1>3
  <2>2. \A q \in Placers : placer[q].at # "idle" => q = p
    BY <2>1 DEF LonePlacer
  <2>3. \A q \in Placers : placer'[q].at # "idle" => q = p
    BY <1>1, <2>2
  <2>4. LonePlacer'
    BY <2>3 DEF LonePlacer
  <2>5. ReadingStands'
    <3>1. ASSUME NEW q \in Placers, placer'[q].at = "put"
          PROVE  (placer[q].seen = InLocation(placer[q].to))'
      <4>1. placer'[q] = state
        BY <1>1, <2>3, <3>1
      <4>2. state.seen = InLocation(state.to)'
        BY <3>1, <4>1
      <4>3. QED
        BY <4>1, <4>2 DEF InLocation
    <3>2. \A q \in Placers : placer'[q].at # "write"
      BY <1>1, <2>3
    <3>3. QED
      BY <3>1, <3>2 DEF ReadingStands
  <2>6. ASSUME ~halfway', ~late', NEW l \in Locations
        PROVE  counted'[l] = InLocation(l)' \/ ToBeCounted(l)'
    <3>1. CASE state.at \in {"count", "put"} /\ l \in state.todo
      BY <1>1, <3>1 DEF ToBeCounted
    <3>2. CASE /\ counted'[l] = counted[l] /\ InLocation(l)' = InLocation(l)
               /\ ~(placer[p].at \in {"count", "put"} /\ l \in placer[p].todo)
      <4>1. ~ToBeCounted(l)
        BY <2>2, <3>2 DEF ToBeCounted
      <4>2. QED
        BY <2>1, <2>6, <3>2, <4>1 DEF CountsFollow
    <3>3. QED
      BY <2>1, <2>6, <3>1, <3>2
  <2>7. QED
    BY <2>4, <2>5, <2>6 DEF CountsFollow
<1>4. QED
  BY <1>2, <1>3

\* The new location is written, and the two locations are to be counted again.
LEMMA WritePlaceInv ==
    ASSUME CountsIInv, NEW p \in Placers, NEW d \in StoredDis, WritePlace(p, d)
    PROVE  CountsIInv'
<1> DEFINE to == placer[p].to
           from == placer[p].from
           state == [Quiet EXCEPT !.at = "count", !.todo = ToCount(from, to)]
<1>1. /\ PlacementTypes /\ placer[p] \in PlacerState /\ d \in placer[p].di
      /\ placer[p].at = "write" /\ to \in Where /\ from \in Where
  BY DEF CountsIInv, PlacementTypes, PlacerState, WritePlace
<1>2. /\ state \in PlacerState /\ state.at = "count" /\ state.todo = ToCount(from, to)
  <2>1. 0 \in Stored
    BY PlacementBounds, FS_CardinalityType DEF Stored
  <2>2. ToCount(from, to) \subseteq Locations
    BY DEF ToCount
  <2>3. QED
    BY <2>1, <2>2 DEF PlacerState, Quiet, Where
<1>3. /\ placer' = [placer EXCEPT ![p] = state] /\ UNCHANGED <<counted, placements, crossing, halfway>>
      /\ place' = IF place[d] = "deleted" THEN place ELSE [place EXCEPT ![d] = to]
      /\ late' = (late \/ (from = "none" /\ to \in Locations))
  BY DEF WritePlace
<1> HIDE DEF state, to, from
<1>4. place' \in [StoredDis -> Locations \cup {"none", "unborn", "deleted"}]
  BY <1>1, <1>3 DEF PlacementTypes, Where
<1>5. ASSUME LonePlacer, ReadingStands, ~halfway', ~late', NEW l \in Locations
      PROVE  \/ counted'[l] = InLocation(l)'
             \/ state.at \in {"count", "put"} /\ l \in state.todo
             \/ counted'[l] = counted[l] /\ InLocation(l)' = InLocation(l) /\ ~(
                   placer[p].at \in {"count", "put"} /\ l \in placer[p].todo)
  <2>1. place[d] = from
    BY <1>1, <1>5 DEF ReadingStands, from
  <2>2. l \notin {"none", "deleted"} /\ place[d] # "deleted"
    BY <1>1, <2>1, PlacementBounds DEF Where
  <2>3. place' = [place EXCEPT ![d] = to]
    BY <1>3, <2>2
  <2>4. CASE l \in ToCount(from, to)
    BY <1>2, <2>4
  <2>5. CASE from = to
    <3>1. place' = place
      BY <1>1, <2>1, <2>3, <2>5 DEF PlacementTypes
    <3>2. QED
      BY <1>1, <1>3, <3>1 DEF InLocation
  <2>6. CASE l # from /\ l # to
    <3>1. InLocation(l)' = InLocation(l)
      BY <1>1, <2>1, <2>3, <2>6, OthersCounted
    <3>2. QED
      BY <1>1, <1>3, <3>1
  <2>7. QED
    BY <1>1, <1>3, <1>5, <2>2, <2>4, <2>5, <2>6 DEF ToCount, Where
<1>6. placer[p].at # "idle"
  BY <1>1
<1>7. counted' \in [Locations -> Stored] /\ (halfway => halfway') /\ (late => late')
      /\ state.at # "write" /\ state.at # "put"
  BY <1>1, <1>2, <1>3 DEF PlacementTypes
<1>8. QED
  BY <1>2, <1>3, <1>4, <1>5, <1>6, <1>7, PlacementGoesOn

LEMMA CountStoredInv ==
    ASSUME CountsIInv, NEW p \in Placers, NEW l \in Locations, CountStored(p, l)
    PROVE  CountsIInv'
<1> PICK state : state = [placer[p] EXCEPT !.at = "put", !.to = l, !.seen = InLocation(l)]
  OBVIOUS
<1>1. /\ PlacementTypes /\ placer[p] \in PlacerState /\ l \in placer[p].todo
      /\ placer[p].at = "count"
  BY DEF CountsIInv, PlacementTypes, CountStored
<1>2. /\ state \in PlacerState /\ state.at = "put" /\ state.todo = placer[p].todo
      /\ state.to = l /\ state.seen = InLocation(l)
  BY <1>1, InLocationTyped DEF PlacerState, Where
<1>3. /\ placer' = [placer EXCEPT ![p] = state]
      /\ UNCHANGED <<place, counted, placements, crossing, halfway, late>>
  BY DEF CountStored
<1>4. \A k : InLocation(k)' = InLocation(k)
  BY <1>3 DEF InLocation
<1>5. state.at = "put" => state.to \in state.todo /\ state.seen = InLocation(state.to)'
  <2>1. InLocation(l)' = InLocation(l)
    BY <1>4
  <2>2. InLocation(state.to)' = InLocation(l)'
    BY <1>2 DEF InLocation
  <2>3. QED
    BY <1>1, <1>2, <2>1, <2>2
<1>6. \A k \in Locations :
         \/ counted'[k] = InLocation(k)'
         \/ state.at \in {"count", "put"} /\ k \in state.todo
         \/ counted'[k] = counted[k] /\ InLocation(k)' = InLocation(k) /\ ~(
               placer[p].at \in {"count", "put"} /\ k \in placer[p].todo)
  BY <1>2, <1>3, <1>4
<1>7. /\ placer[p].at # "idle" /\ state.at # "write"
      /\ place' \in [StoredDis -> Locations \cup {"none", "unborn", "deleted"}]
      /\ counted' \in [Locations -> Stored] /\ (halfway => halfway') /\ (late => late')
  BY <1>1, <1>2, <1>3 DEF PlacementTypes
<1>8. QED
  BY <1>2, <1>3, <1>5, <1>6, <1>7, PlacementGoesOn

LEMMA PutCountInv ==
    ASSUME CountsIInv, NEW p \in Placers, PutCount(p)
    PROVE  CountsIInv'
<1> DEFINE to == placer[p].to
           state == [placer[p] EXCEPT !.at = "count", !.todo = @ \ {to}]
<1>1. /\ PlacementTypes /\ placer[p] \in PlacerState /\ placer[p].at = "put"
      /\ to \in placer[p].todo /\ to \in Locations /\ placer[p].seen \in Stored
  BY DEF CountsIInv, PlacementTypes, PutCount, PlacerState
<1>2. state \in PlacerState /\ state.at = "count" /\ state.todo = placer[p].todo \ {to}
  BY <1>1 DEF PlacerState
<1>3. /\ placer' = [placer EXCEPT ![p] = state]
      /\ counted' = [counted EXCEPT ![to] = placer[p].seen]
      /\ UNCHANGED <<place, placements, crossing, halfway, late>>
  BY DEF PutCount
<1> HIDE DEF state, to
<1>4. \A k : InLocation(k)' = InLocation(k)
  BY <1>3 DEF InLocation
<1>5. /\ counted' \in [Locations -> Stored]
      /\ counted'[to] = placer[p].seen
      /\ \A k \in Locations \ {to} : counted'[k] = counted[k]
  BY <1>1, <1>3 DEF PlacementTypes
<1>6. ASSUME ReadingStands, NEW k \in Locations
      PROVE  \/ counted'[k] = InLocation(k)'
             \/ state.at \in {"count", "put"} /\ k \in state.todo
             \/ counted'[k] = counted[k] /\ InLocation(k)' = InLocation(k) /\ ~(
                   placer[p].at \in {"count", "put"} /\ k \in placer[p].todo)
  <2>1. CASE k = to
    <3>1. placer[p].seen = InLocation(to)
      BY <1>1, <1>6 DEF ReadingStands, to
    <3>2. QED
      BY <1>4, <1>5, <2>1, <3>1
  <2>2. CASE k # to
    BY <1>2, <1>4, <1>5, <2>2
  <2>3. QED
    BY <2>1, <2>2
<1>7. /\ placer[p].at # "idle" /\ state.at # "write" /\ state.at # "put"
      /\ place' \in [StoredDis -> Locations \cup {"none", "unborn", "deleted"}]
      /\ (halfway => halfway') /\ (late => late')
  BY <1>1, <1>2, <1>3 DEF PlacementTypes
<1>8. QED
  BY <1>2, <1>3, <1>5, <1>6, <1>7, PlacementGoesOn

\* A request that has counted, or that stops halfway.
LEMMA PlacementEndInv ==
    ASSUME CountsIInv, NEW p \in Placers, EndPlacement(p) \/ StopPlacement(p)
    PROVE  CountsIInv'
<1>1. Quiet \in PlacerState /\ Quiet.at = "idle"
  <2>1. 0 \in Stored
    BY PlacementBounds, FS_CardinalityType DEF Stored
  <2>2. QED
    BY <2>1 DEF Quiet, PlacerState, Where
<1>2. /\ placer' = [placer EXCEPT ![p] = Quiet] /\ placer[p].at # "idle"
      /\ UNCHANGED <<place, counted, placements, crossing, late>>
      /\ (halfway => halfway')
      /\ ~halfway' => placer[p].todo = {}
  BY DEF EndPlacement, StopPlacement
<1>3. \A k : InLocation(k)' = InLocation(k)
  BY <1>2 DEF InLocation
<1>4. /\ place' \in [StoredDis -> Locations \cup {"none", "unborn", "deleted"}]
      /\ counted' \in [Locations -> Stored]
  BY <1>2 DEF CountsIInv, PlacementTypes
<1>5. ASSUME ~halfway', NEW k \in Locations
      PROVE  counted'[k] = counted[k] /\ InLocation(k)' = InLocation(k) /\ ~(
                   placer[p].at \in {"count", "put"} /\ k \in placer[p].todo)
  BY <1>2, <1>3, <1>5
<1>6. Quiet.at # "write" /\ Quiet.at # "put"
  BY <1>1
<1>7. QED
  BY <1>1, <1>2, <1>4, <1>5, <1>6, PlacementGoesOn

LEMMA CountsStepInv == CountsIInv /\ [StoredNext]_placeVars => CountsIInv'
<1> SUFFICES ASSUME CountsIInv, [StoredNext]_placeVars PROVE CountsIInv'
  OBVIOUS
<1>1. CASE StoredNext
  BY <1>1, CreateDiInv, ReadPlaceInv, DeleteStoredInv, WritePlaceInv, CountStoredInv, PutCountInv,
     PlacementEndInv, Zenon DEF StoredNext, Where
<1>2. CASE UNCHANGED placeVars
  BY <1>2 DEF placeVars, CountsIInv, PlacementTypes, LonePlacer, ReadingStands, CountsFollow,
     ToBeCounted, InLocation
<1>3. QED
  BY <1>1, <1>2

\* At rest the count of each location is that of its DIs, when the requests came one at
\* a time, none stopped halfway and no DI got its first location after its creation
\* (syncEmplacementStats, after createDi, updateDi and deleteDi).
THEOREM CountsInvariant == StoredSpec => []StoredCountsInv
<1>1. CountsIInv => StoredCountsInv
  <2> SUFFICES ASSUME CountsIInv PROVE StoredCountsInv
    OBVIOUS
  <2>1. StoredTypeOK
    BY DEF CountsIInv, PlacementTypes, StoredTypeOK, PlacerState, Stored
  <2>2. CountsRight
    BY DEF CountsIInv, CountsRight, Resting, CountsFollow, ToBeCounted
  <2>3. QED
    BY <2>1, <2>2 DEF StoredCountsInv
<1>2. QED
  BY <1>1, CountsInitInv, CountsStepInv, PTL DEF StoredSpec

(***************************************************************************)
(* The tickets and prices of the cycles.                                   *)
(***************************************************************************)

TicketLine == [part: TicketNames, done: BOOLEAN]
LogRow == [cycle: 1..MaxIgnore, data: CycleData]
AskState == [op: {"none", "price", "nego", "payant", "ticket", "done", "retour", "row"},
             cycle: 0..MaxIgnore, lines: Seq(TicketLine), price: 0..1, final: 0..1,
             part: SUBSET TicketNames, payant: BOOLEAN]

TicketTypes ==
    /\ ignoreCount \in 0..MaxIgnore /\ payant \in BOOLEAN
    /\ ofDi \in CycleData /\ logRows \in Seq(LogRow)
    /\ ask \in [Asks -> AskState]
    /\ \A q \in Asks : ask[q].op = "row" => ask[q].cycle > 0
    /\ asked \in 0..MaxAsks

\* A request that has been alone: what its guards have read still stands when it writes.
LinesSold(list, names) == \A i \in DOMAIN list : list[i].part \in names
Stands(req) ==
    /\ req.cycle = ignoreCount
    /\ req.op = "price" => (payant <=> req.price > 0)
    /\ req.op = "payant" => ofDi.price = 0
    /\ req.op = "ticket" => LinesSold(req.lines, sold)
LoneAsk == ~together =>
    /\ \A q, r \in Asks : ask[q].op # "none" /\ ask[r].op # "none" => q = r
    /\ \A q \in Asks : ask[q].op # "none" => Stands(ask[q])

\* The lines of the DI follow the catalogue: a rename gives them the new name.
LinesFollow == ~together => LinesSold(ofDi.lines, sold)

TicketIInv == TicketTypes /\ LoneAsk /\ LinesFollow /\ NonPayantNotPriced

----------------------------------------------------------------------------
(* Where a cycle is kept.                                                  *)

LEMMA RowReached ==
    ASSUME NEW rows \in Seq(LogRow), NEW c, NEW i \in RowOf(rows, c)
    PROVE  /\ i \in 1..Len(rows) /\ rows[i].cycle = c /\ rows[i].data \in CycleData
           /\ \A j \in RowOf(rows, c) : j = i
<1>1. /\ Len(rows) \in Nat /\ DOMAIN rows = 1..Len(rows)
      /\ \A j \in 1..Len(rows) : rows[j] \in LogRow
  BY LenProperties, ElementOfSeq
<1>2. i \in 1..Len(rows) /\ rows[i].cycle = c
  BY <1>1 DEF RowOf, RowsOf
<1>3. \A j \in RowOf(rows, c) : j \in 1..Len(rows) /\ j <= i /\ i <= j
  BY <1>1 DEF RowOf, RowsOf
<1>4. QED
  BY <1>1, <1>2, <1>3 DEF LogRow

LEMMA DataTyped ==
    ASSUME TicketTypes, NEW c
    PROVE  /\ DataOf(ofDi, logRows, c) \subseteq CycleData
           /\ \A x, y \in DataOf(ofDi, logRows, c) : x = y
<1>1. CASE c = 0
  BY <1>1 DEF DataOf, TicketTypes
<1>2. CASE c # 0
  <2>1. DataOf(ofDi, logRows, c) = {logRows[i].data : i \in RowOf(logRows, c)}
    BY <1>2 DEF DataOf
  <2>2. \A i \in RowOf(logRows, c) :
           /\ logRows[i].data \in CycleData /\ \A j \in RowOf(logRows, c) : j = i
    BY RowReached DEF TicketTypes
  <2>3. QED
    BY <2>1, <2>2
<1>3. QED
  BY <1>1, <1>2

\* A write reaches the cycle it is for, and no other.
LEMMA WrittenThere ==
    ASSUME TicketTypes, NEW c \in 0..MaxIgnore, NEW written \in SUBSET CycleData,
           DataOf(ofDi, logRows, c) # {} => written # {}, WriteData(c, written)
    PROVE  /\ ofDi' \in CycleData /\ logRows' \in Seq(LogRow)
           /\ c # 0 => ofDi' = ofDi
           /\ c = 0 => ofDi' \in written
           /\ \A d \in 0..MaxIgnore : d # c =>
                 DataOf(ofDi', logRows', d) = DataOf(ofDi, logRows, d)
           /\ DataOf(ofDi', logRows', c) \subseteq written
           /\ DataOf(ofDi, logRows, c) # {} => DataOf(ofDi', logRows', c) # {}
<1>1. /\ ofDi \in CycleData /\ logRows \in Seq(LogRow)
      /\ Len(logRows) \in Nat /\ DOMAIN logRows = 1..Len(logRows)
  BY LenProperties DEF TicketTypes
<1>2. CASE c = 0
  <2>1. ofDi' \in written /\ logRows' = logRows
    BY <1>2 DEF WriteData, Place
  <2>2. QED
    BY <1>1, <1>2, <2>1 DEF DataOf
<1>3. CASE c # 0
  <2> PICK put : put = CHOOSE new \in written : TRUE
    OBVIOUS
  <2>1. /\ logRows' = [i \in 1..Len(logRows) |-> IF i \in RowOf(logRows, c)
                          THEN [logRows[i] EXCEPT !.data = put] ELSE logRows[i]]
        /\ ofDi' = ofDi
    BY <1>1, <1>3 DEF WriteData, Place
  <2>2. RowOf(logRows, c) # {} => put \in written /\ put \in CycleData
    <3>1. RowOf(logRows, c) # {} => DataOf(ofDi, logRows, c) # {}
      BY <1>3 DEF DataOf
    <3>2. QED
      BY <3>1
  <2>3. \A i \in 1..Len(logRows) : logRows[i] \in LogRow
    BY <1>1, ElementOfSeq
  <2>4. /\ logRows' \in [1..Len(logRows) -> LogRow] /\ DOMAIN logRows' = 1..Len(logRows)
        /\ \A i \in 1..Len(logRows) :
              /\ logRows'[i].cycle = logRows[i].cycle
              /\ i \notin RowOf(logRows, c) => logRows'[i] = logRows[i]
              /\ i \in RowOf(logRows, c) => logRows'[i].data = put
    BY <2>1, <2>2, <2>3 DEF LogRow
  <2>5. logRows' \in Seq(LogRow)
    BY <1>1, <2>4
  <2>6. \A d : RowOf(logRows', d) = RowOf(logRows, d)
    BY <1>1, <2>4 DEF RowOf, RowsOf
  <2>7. ASSUME NEW d \in 0..MaxIgnore, d # c
        PROVE  DataOf(ofDi', logRows', d) = DataOf(ofDi, logRows, d)
    <3>1. CASE d = 0
      BY <2>1, <3>1 DEF DataOf
    <3>2. CASE d # 0
      <4>1. \A i \in RowOf(logRows, d) : logRows'[i].data = logRows[i].data
        BY <1>1, <2>4, <2>7 DEF RowOf, RowsOf
      <4>2. /\ DataOf(ofDi, logRows, d) = {logRows[i].data : i \in RowOf(logRows, d)}
            /\ DataOf(ofDi', logRows', d) = {logRows'[i].data : i \in RowOf(logRows, d)}
        BY <2>6, <3>2 DEF DataOf
      <4>3. QED
        BY <4>1, <4>2
    <3>3. QED
      BY <3>1, <3>2
  <2>8. /\ DataOf(ofDi, logRows, c) = {logRows[i].data : i \in RowOf(logRows, c)}
        /\ DataOf(ofDi', logRows', c) = {logRows'[i].data : i \in RowOf(logRows, c)}
    BY <1>3, <2>6 DEF DataOf
  <2>9. \A i \in RowOf(logRows, c) : i \in 1..Len(logRows)
    BY <1>1 DEF RowOf, RowsOf
  <2>10. /\ DataOf(ofDi', logRows', c) \subseteq written
         /\ DataOf(ofDi, logRows, c) # {} => DataOf(ofDi', logRows', c) # {}
    BY <2>2, <2>4, <2>8, <2>9
  <2>11. QED
    BY <1>1, <1>3, <2>1, <2>5, <2>7, <2>10
<1>4. QED
  BY <1>2, <1>3

----------------------------------------------------------------------------
(* The requests.                                                           *)

LEMMA AskTyped ==
    ASSUME TicketTypes, NEW q \in Asks
    PROVE  /\ ask[q] \in AskState /\ ask[q].cycle \in 0..MaxIgnore /\ ask[q].price \in 0..1
           /\ ask[q].final \in 0..1 /\ ask[q].lines \in Seq(TicketLine) /\ ask[q].payant \in BOOLEAN
           /\ ask[q].part \in SUBSET TicketNames
<1>1. ask[q] \in AskState
  BY DEF TicketTypes
<1>2. QED
  BY <1>1 DEF AskState

LEMMA NoAskTyped == NoAsk \in AskState /\ NoAsk.op = "none"
<1>1. <<>> \in Seq(TicketLine) /\ 0 \in 0..MaxIgnore
  BY EmptySeq DEF MaxIgnore
<1>2. QED
  BY <1>1 DEF NoAsk, AskState

\* A request that ends.
LEMMA AskOver ==
    ASSUME TicketTypes, NEW q \in Asks, NEW op, op # "none", Over(q, op)
    PROVE  /\ ask' \in [Asks -> AskState] /\ ask[q].op = op /\ ask'[q].op = "none"
           /\ \A r \in Asks : r # q => ask'[r] = ask[r]
           /\ UNCHANGED <<sold, asked, together>>
  BY NoAskTyped DEF TicketTypes, Over

LEMMA LonelyAsk ==
    ASSUME TicketIInv, NEW q \in Asks, ask[q].op # "none", ~together
    PROVE  /\ Stands(ask[q]) /\ \A r \in Asks : r # q => ask[r].op = "none"
  BY DEF TicketIInv, LoneAsk

\* A request is read: it is the only one in flight, or two have run at once.
LEMMA ReadInv ==
    ASSUME TicketIInv, NEW q \in Asks, NEW request \in AskState,
           Read(q, request),
           request.op = "row" => ignoreCount > 0,
           request.op = "price" => (payant <=> request.price > 0),
           request.op = "payant" => ofDi.price = 0,
           request.op = "ticket" => LinesSold(request.lines, sold)
    PROVE  TicketIInv'
<1>1. TicketTypes /\ ignoreCount \in 0..MaxIgnore
  BY DEF TicketIInv, TicketTypes
<1>2. PICK req \in AskState : /\ req = [request EXCEPT !.cycle = ignoreCount]
                              /\ req.cycle = ignoreCount /\ req.op = request.op
                              /\ req.price = request.price /\ req.lines = request.lines
  <2> DEFINE req == [request EXCEPT !.cycle = ignoreCount]
  <2>1. /\ req \in AskState /\ req.cycle = ignoreCount /\ req.op = request.op
        /\ req.price = request.price /\ req.lines = request.lines
    BY <1>1 DEF AskState
  <2>2. QED
    BY <2>1
<1>3. /\ ask' = [ask EXCEPT ![q] = req] /\ asked < MaxAsks /\ asked' = asked + 1
      /\ together' = (together \/ \E r \in Asks : ask[r].op # "none")
      /\ UNCHANGED <<ignoreCount, payant, ofDi, logRows, sold, dealt>>
  BY <1>2 DEF Read
<1>4. /\ ask' \in [Asks -> AskState] /\ ask'[q] = req
      /\ \A r \in Asks : r # q => ask'[r] = ask[r]
  BY <1>1, <1>3 DEF TicketTypes
<1>5. TicketTypes'
  <2>1. asked' \in 0..MaxAsks
    BY <1>1, <1>3, TicketBounds DEF TicketTypes
  <2>2. QED
    BY <1>1, <1>2, <1>3, <1>4, <2>1 DEF TicketTypes
<1>6. ~together' => ~together /\ \A r \in Asks : ask[r].op = "none"
  BY <1>3
<1>7. LoneAsk'
  <2>1. Stands(req)
    BY <1>2 DEF Stands
  <2>2. ASSUME ~together', NEW r \in Asks, ask'[r].op # "none" PROVE r = q /\ Stands(ask[r])'
    <3>1. r = q
      BY <1>4, <1>6, <2>2
    <3>2. QED
      BY <1>3, <1>4, <2>1, <3>1 DEF Stands
  <2>3. QED
    BY <2>2 DEF LoneAsk
<1>8. LinesFollow' /\ NonPayantNotPriced'
  BY <1>3, <1>6 DEF TicketIInv, LinesFollow, NonPayantNotPriced
<1>9. QED
  BY <1>5, <1>7, <1>8 DEF TicketIInv

LEMMA ReadPriceInv ==
    ASSUME TicketIInv, NEW q \in Asks, NEW v \in 0..1, affectinitialPrice(q, v)
    PROVE  TicketIInv'
<1> PICK request \in AskState : /\ request = [NoAsk EXCEPT !.op = "price", !.price = v]
                                /\ request.op = "price" /\ request.price = v
  <2> DEFINE request == [NoAsk EXCEPT !.op = "price", !.price = v]
  <2>1. request \in AskState /\ request.op = "price" /\ request.price = v
    BY NoAskTyped DEF AskState
  <2>2. QED
    BY <2>1
<1>1. Read(q, request) /\ (payant <=> request.price > 0)
  BY DEF affectinitialPrice
<1>2. QED
  BY <1>1, ReadInv

LEMMA ReadNegoInv ==
    ASSUME TicketIInv, NEW q \in Asks, NEW v \in 0..1, NEW f \in 0..1,
           managerAdminManager_InMagasin(q, v, f)
    PROVE  TicketIInv'
<1> PICK request \in AskState :
       /\ request = [NoAsk EXCEPT !.op = "nego", !.price = v, !.final = f] /\ request.op = "nego"
  <2> DEFINE request == [NoAsk EXCEPT !.op = "nego", !.price = v, !.final = f]
  <2>1. request \in AskState /\ request.op = "nego"
    BY NoAskTyped DEF AskState
  <2>2. QED
    BY <2>1
<1>1. Read(q, request)
  BY DEF managerAdminManager_InMagasin
<1>2. QED
  BY <1>1, ReadInv

LEMMA ReadPayantInv ==
    ASSUME TicketIInv, NEW q \in Asks, NEW flag \in BOOLEAN, setDiagnosticPayant(q, flag)
    PROVE  TicketIInv'
<1> PICK request \in AskState : /\ request = [NoAsk EXCEPT !.op = "payant", !.payant = flag]
                                /\ request.op = "payant"
  <2> DEFINE request == [NoAsk EXCEPT !.op = "payant", !.payant = flag]
  <2>1. request \in AskState /\ request.op = "payant"
    BY NoAskTyped DEF AskState
  <2>2. QED
    BY <2>1
<1>1. Read(q, request) /\ ofDi.price = 0
  <2>1. ofDi.price \in 0..1
    BY DEF TicketIInv, TicketTypes, CycleData
  <2>2. QED
    BY <2>1 DEF setDiagnosticPayant, PayantLocked
<1>2. QED
  BY <1>1, ReadInv

LEMMA ReadTicketInv ==
    ASSUME TicketIInv, NEW q \in Asks, NEW names \in Tickets, tech_startDiagnostic(q, names)
    PROVE  TicketIInv'
<1> PICK list : list = [i \in DOMAIN names |-> [part |-> names[i], done |-> FALSE]]
  OBVIOUS
<1>1. /\ Len(names) \in Nat /\ DOMAIN names = 1..Len(names)
      /\ \A i \in 1..Len(names) : names[i] \in TicketNames /\ names[i] \in sold
  <2>1. names \in Seq(TicketNames)
    BY TicketBounds
  <2>2. QED
    BY <2>1, LenProperties, ElementOfSeq DEF tech_startDiagnostic
<1>2. list \in Seq(TicketLine) /\ LinesSold(list, sold)
  <2>1. list \in [1..Len(names) -> TicketLine]
    BY <1>1 DEF TicketLine
  <2>2. list \in Seq(TicketLine)
    BY <1>1, <2>1
  <2>3. QED
    BY <1>1, <2>2 DEF LinesSold
<1> PICK request \in AskState : /\ request = [NoAsk EXCEPT !.op = "ticket", !.lines = list]
                                /\ request.op = "ticket" /\ request.lines = list
  <2> DEFINE request == [NoAsk EXCEPT !.op = "ticket", !.lines = list]
  <2>1. request \in AskState /\ request.op = "ticket" /\ request.lines = list
    BY <1>2, NoAskTyped DEF AskState
  <2>2. QED
    BY <2>1
<1>3. Read(q, request)
  BY DEF tech_startDiagnostic
<1>4. QED
  BY <1>2, <1>3, ReadInv

LEMMA ReadDoneInv ==
    ASSUME TicketIInv, NEW q \in Asks, NEW n \in TicketNames, setSelectedComponentAsDone(q, n)
    PROVE  TicketIInv'
<1> PICK request \in AskState : /\ request = [NoAsk EXCEPT !.op = "done", !.part = {n}]
                                /\ request.op = "done"
  <2> DEFINE request == [NoAsk EXCEPT !.op = "done", !.part = {n}]
  <2>1. request \in AskState /\ request.op = "done"
    BY NoAskTyped DEF AskState
  <2>2. QED
    BY <2>1
<1>1. Read(q, request)
  BY DEF setSelectedComponentAsDone
<1>2. QED
  BY <1>1, ReadInv

LEMMA ReadRetourInv ==
    ASSUME TicketIInv, NEW q \in Asks, countIgnore(q) \/ createStat(q)
    PROVE  TicketIInv'
<1> PICK op \in {"retour", "row"} :
       /\ Read(q, [NoAsk EXCEPT !.op = op])
       /\ op = "row" => ignoreCount > 0
  BY DEF countIgnore, createStat
<1> PICK request \in AskState : request = [NoAsk EXCEPT !.op = op] /\ request.op = op
  <2> DEFINE request == [NoAsk EXCEPT !.op = op]
  <2>1. request \in AskState /\ request.op = op
    BY NoAskTyped DEF AskState
  <2>2. QED
    BY <2>1
<1>1. QED
  BY ReadInv

----------------------------------------------------------------------------
(* What the requests write.                                                *)

\* A request writes its cycle.  Written alone, it leaves the DI as the open cycle allows.
LEMMA SavedInv ==
    ASSUME TicketIInv, NEW q \in Asks, NEW op, op # "none", Over(q, op),
           NEW written \in SUBSET CycleData,
           DataOf(ofDi, logRows, ask[q].cycle) # {} => written # {},
           WriteData(ask[q].cycle, written),
           UNCHANGED <<ignoreCount, payant>>, ~dealt' => ~dealt,
           ~together /\ ~dealt' /\ ~payant /\ ask[q].cycle = 0 => \A x \in written : x.price = 0,
           ~together /\ ask[q].cycle = 0 => \A x \in written : LinesSold(x.lines, sold)
    PROVE  TicketIInv'
<1> PICK c \in 0..MaxIgnore : c = ask[q].cycle
  BY AskTyped DEF TicketIInv
<1>1. /\ ask' \in [Asks -> AskState] /\ ask[q].op = op /\ ask'[q].op = "none"
      /\ \A r \in Asks : r # q => ask'[r] = ask[r]
      /\ UNCHANGED <<sold, asked, together>>
  BY AskOver DEF TicketIInv
<1>2. /\ ofDi' \in CycleData /\ logRows' \in Seq(LogRow)
      /\ c # 0 => ofDi' = ofDi
      /\ c = 0 => ofDi' \in written
  BY WrittenThere DEF TicketIInv
<1>3. TicketTypes'
  BY <1>1, <1>2 DEF TicketIInv, TicketTypes
<1>4. LoneAsk'
  <2>1. ~together => \A r \in Asks : ask'[r].op = "none"
    BY <1>1, LonelyAsk
  <2>2. QED
    BY <1>1, <2>1 DEF LoneAsk
<1>5. LinesFollow'
  BY <1>1, <1>2 DEF TicketIInv, LinesFollow
<1>6. NonPayantNotPriced'
  BY <1>1, <1>2 DEF TicketIInv, NonPayantNotPriced
<1>7. QED
  BY <1>3, <1>4, <1>5, <1>6 DEF TicketIInv

\* What stands where a request writes.
LEMMA CurrentData ==
    ASSUME TicketTypes, NEW q \in Asks
    PROVE  /\ Current(ask[q].cycle) = DataOf(ofDi, logRows, ask[q].cycle)
           /\ Current(ask[q].cycle) \subseteq CycleData
           /\ ask[q].cycle = 0 => Current(ask[q].cycle) = {ofDi}
  BY DataTyped DEF Current, Place, DataOf

LEMMA SavePriceInv ==
    ASSUME TicketIInv, NEW q \in Asks, SavePrice(q) PROVE TicketIInv'
<1> PICK price \in 0..1 : price = ask[q].price
  BY AskTyped DEF TicketIInv
<1> DEFINE Priced(data) == [data EXCEPT !.price = price]
<1> PICK written : written = {Priced(data) : data \in Current(ask[q].cycle)}
  OBVIOUS
<1>1. /\ Over(q, "price") /\ WriteData(ask[q].cycle, written)
      /\ UNCHANGED <<ignoreCount, payant, dealt>>
  BY DEF SavePrice
<1>2. /\ written \in SUBSET CycleData /\ \A x \in written : x.price = price
      /\ DataOf(ofDi, logRows, ask[q].cycle) # {} => written # {}
      /\ ask[q].cycle = 0 => \A x \in written : x.lines = ofDi.lines
  <2>1. \A data \in CycleData : /\ Priced(data) \in CycleData /\ Priced(data).price = price
                                /\ Priced(data).lines = data.lines
    BY DEF CycleData
  <2> HIDE DEF Priced
  <2>2. QED
    BY <2>1, CurrentData DEF TicketIInv
<1>3. ~together /\ ~payant => price = 0
  <2>1. ask[q].op = "price" /\ price \in 0..1
    BY <1>1 DEF Over
  <2>2. QED
    BY <2>1, LonelyAsk DEF Stands
<1>4. ~together => LinesSold(ofDi.lines, sold)
  BY DEF TicketIInv, LinesFollow
<1>5. QED
  BY <1>1, <1>2, <1>3, <1>4, SavedInv

LEMMA SaveNegoInv ==
    ASSUME TicketIInv, NEW q \in Asks, SaveNego(q) PROVE TicketIInv'
<1> PICK price \in 0..1, final \in 0..1 : price = ask[q].price /\ final = ask[q].final
  BY AskTyped DEF TicketIInv
<1> PICK keeps \in BOOLEAN : keeps = (ask[q].cycle > 0 /\ ask[q].final = 0)
  OBVIOUS
<1> DEFINE Nego(data) == [data EXCEPT !.price = price,
                                      !.final = IF keeps THEN data.final ELSE final]
<1> PICK written : written = {Nego(data) : data \in Current(ask[q].cycle)}
  OBVIOUS
<1>1. /\ Over(q, "nego") /\ WriteData(ask[q].cycle, written)
      /\ UNCHANGED <<ignoreCount, payant>> /\ dealt' = TRUE
  BY DEF SaveNego
<1>2. /\ written \in SUBSET CycleData
      /\ DataOf(ofDi, logRows, ask[q].cycle) # {} => written # {}
      /\ ask[q].cycle = 0 => \A x \in written : x.lines = ofDi.lines
  <2>1. \A data \in CycleData : Nego(data) \in CycleData /\ Nego(data).lines = data.lines
    BY DEF CycleData
  <2> HIDE DEF Nego
  <2>2. QED
    BY <2>1, CurrentData DEF TicketIInv
<1>3. ~together => LinesSold(ofDi.lines, sold)
  BY DEF TicketIInv, LinesFollow
<1>4. QED
  BY <1>1, <1>2, <1>3, SavedInv

LEMMA SaveTicketInv ==
    ASSUME TicketIInv, NEW q \in Asks, SaveTicket(q) PROVE TicketIInv'
<1> PICK list \in Seq(TicketLine) : list = ask[q].lines
  BY AskTyped DEF TicketIInv
<1> DEFINE Filled(data) == [data EXCEPT !.lines = list]
<1> PICK written : written = {Filled(data) : data \in Current(ask[q].cycle)}
  OBVIOUS
<1>1. /\ Over(q, "ticket") /\ WriteData(ask[q].cycle, written)
      /\ UNCHANGED <<ignoreCount, payant, dealt>>
  BY DEF SaveTicket
<1>2. /\ written \in SUBSET CycleData /\ \A x \in written : x.lines = list
      /\ DataOf(ofDi, logRows, ask[q].cycle) # {} => written # {}
      /\ ask[q].cycle = 0 => \A x \in written : x.price = ofDi.price
  <2>1. \A data \in CycleData : /\ Filled(data) \in CycleData /\ Filled(data).price = data.price
                                /\ Filled(data).lines = list
    BY DEF CycleData, TicketLine
  <2> HIDE DEF Filled
  <2>2. /\ Current(ask[q].cycle) = DataOf(ofDi, logRows, ask[q].cycle)
        /\ Current(ask[q].cycle) \subseteq CycleData
        /\ ask[q].cycle = 0 => Current(ask[q].cycle) = {ofDi}
    BY CurrentData DEF TicketIInv
  <2>3. written \subseteq CycleData /\ \A x \in written : x.lines = list
    BY <2>1, <2>2
  <2>4. DataOf(ofDi, logRows, ask[q].cycle) # {} => written # {}
    BY <2>2
  <2>5. ask[q].cycle = 0 => \A x \in written : x.price = ofDi.price
    BY <2>1, <2>2
  <2>6. QED
    BY <2>3, <2>4, <2>5
<1>3. ~together => LinesSold(list, sold)
  <2>1. ask[q].op = "ticket"
    BY <1>1 DEF Over
  <2>2. QED
    BY <2>1, LonelyAsk DEF Stands
<1>4. ~together /\ ~dealt' /\ ~payant => ofDi.price = 0
  BY <1>1 DEF TicketIInv, NonPayantNotPriced
<1>5. QED
  BY <1>1, <1>2, <1>3, <1>4, SavedInv

\* The first line of a name is marked.
Marks(list, names) ==
    [i \in DOMAIN list |->
        IF list[i].part \in names /\ \A j \in 1..(i - 1) : ~(list[j].part \in names)
        THEN [list[i] EXCEPT !.done = TRUE] ELSE list[i]]

LEMMA MarksTyped ==
    ASSUME NEW list \in Seq(TicketLine), NEW names
    PROVE  /\ Marks(list, names) \in Seq(TicketLine) /\ DOMAIN Marks(list, names) = DOMAIN list
           /\ \A i \in DOMAIN list : Marks(list, names)[i].part = list[i].part
<1>1. /\ Len(list) \in Nat /\ DOMAIN list = 1..Len(list)
      /\ \A i \in 1..Len(list) : list[i] \in TicketLine
  BY LenProperties, ElementOfSeq
<1>2. /\ Marks(list, names) \in [1..Len(list) -> TicketLine]
      /\ \A i \in 1..Len(list) : Marks(list, names)[i].part = list[i].part
  BY <1>1 DEF Marks, TicketLine
<1>3. QED
  BY <1>1, <1>2

LEMMA SaveDoneWrites ==
    ASSUME TicketTypes, NEW q \in Asks, SaveDone(q)
    PROVE  /\ Over(q, "done") /\ UNCHANGED <<ignoreCount, payant, dealt>>
           /\ WriteData(ask[q].cycle, {[data EXCEPT !.lines = Marks(data.lines, ask[q].part)] :
                                       data \in Current(ask[q].cycle)})
           /\ \A data \in CycleData :
                 /\ [data EXCEPT !.lines = Marks(data.lines, ask[q].part)] \in CycleData
                 /\ [data EXCEPT !.lines = Marks(data.lines, ask[q].part)].price = data.price
                 /\ [data EXCEPT !.lines = Marks(data.lines, ask[q].part)].lines
                       = Marks(data.lines, ask[q].part)
<1>1. \A data \in CycleData : Marks(data.lines, ask[q].part) \in Seq(TicketLine)
  BY MarksTyped DEF CycleData, TicketLine
<1>2. QED
  BY <1>1 DEF SaveDone, Marks, CycleData, TicketLine

LEMMA SaveDoneInv ==
    ASSUME TicketIInv, NEW q \in Asks, SaveDone(q) PROVE TicketIInv'
<1> DEFINE Ticked(data) == [data EXCEPT !.lines = Marks(data.lines, ask[q].part)]
<1> PICK written : written = {Ticked(data) : data \in Current(ask[q].cycle)}
  OBVIOUS
<1>1. /\ Over(q, "done") /\ WriteData(ask[q].cycle, written)
      /\ UNCHANGED <<ignoreCount, payant, dealt>>
      /\ \A data \in CycleData : /\ Ticked(data) \in CycleData /\ Ticked(data).price = data.price
                                 /\ Ticked(data).lines = Marks(data.lines, ask[q].part)
  BY SaveDoneWrites DEF TicketIInv
<1> HIDE DEF Ticked
<1>2. /\ written \in SUBSET CycleData
      /\ DataOf(ofDi, logRows, ask[q].cycle) # {} => written # {}
      /\ ask[q].cycle = 0 => \A x \in written :
            x.price = ofDi.price /\ x.lines = Marks(ofDi.lines, ask[q].part)
  BY <1>1, CurrentData DEF TicketIInv
<1>3. ~together => LinesSold(Marks(ofDi.lines, ask[q].part), sold)
  <2>1. ofDi.lines \in Seq(TicketLine)
    BY DEF TicketIInv, TicketTypes, CycleData, TicketLine
  <2>2. QED
    BY <2>1, MarksTyped DEF TicketIInv, LinesFollow, LinesSold
<1>4. ~together /\ ~dealt' /\ ~payant => ofDi.price = 0
  BY <1>1 DEF TicketIInv, NonPayantNotPriced
<1>5. QED
  BY <1>1, <1>2, <1>3, <1>4, SavedInv

\* The flag is set as the request has found it free.
LEMMA SavePayantInv ==
    ASSUME TicketIInv, NEW q \in Asks, SavePayant(q) PROVE TicketIInv'
<1>1. /\ Over(q, "payant") /\ payant' = ask[q].payant
      /\ UNCHANGED <<ignoreCount, ofDi, logRows, dealt>>
  BY DEF SavePayant
<1>2. /\ ask' \in [Asks -> AskState] /\ ask[q].op = "payant" /\ ask'[q].op = "none"
      /\ \A r \in Asks : r # q => ask'[r] = ask[r]
      /\ UNCHANGED <<sold, asked, together>>
  BY <1>1, AskOver DEF TicketIInv
<1>3. TicketTypes'
  <2>1. payant' \in BOOLEAN
    BY <1>1, AskTyped DEF TicketIInv
  <2>2. QED
    BY <1>1, <1>2, <2>1 DEF TicketIInv, TicketTypes
<1>4. LoneAsk'
  <2>1. ~together => \A r \in Asks : ask'[r].op = "none"
    BY <1>2, LonelyAsk
  <2>2. QED
    BY <1>2, <2>1 DEF LoneAsk
<1>5. ~together => ofDi.price = 0
  BY <1>2, LonelyAsk DEF Stands
<1>6. LinesFollow' /\ NonPayantNotPriced'
  BY <1>1, <1>2, <1>5 DEF TicketIInv, LinesFollow, NonPayantNotPriced
<1>7. QED
  BY <1>3, <1>4, <1>6 DEF TicketIInv

LEMMA SaveRetourInv ==
    ASSUME TicketIInv, NEW q \in Asks, SaveRetour(q) PROVE TicketIInv'
<1>1. /\ Over(q, "retour") /\ UNCHANGED <<payant, ofDi, logRows, dealt>>
      /\ ignoreCount' = IF ask[q].cycle < MaxIgnore THEN ask[q].cycle + 1 ELSE ask[q].cycle
  BY DEF SaveRetour
<1>2. /\ ask' \in [Asks -> AskState] /\ ask[q].op = "retour" /\ ask'[q].op = "none"
      /\ \A r \in Asks : r # q => ask'[r] = ask[r]
      /\ UNCHANGED <<sold, asked, together>>
  BY <1>1, AskOver DEF TicketIInv
<1>3. TicketTypes'
  <2>1. ignoreCount' \in 0..MaxIgnore
    BY <1>1, AskTyped DEF TicketIInv, MaxIgnore
  <2>2. QED
    BY <1>1, <1>2, <2>1 DEF TicketIInv, TicketTypes
<1>4. LoneAsk'
  <2>1. ~together => \A r \in Asks : ask'[r].op = "none"
    BY <1>2, LonelyAsk
  <2>2. QED
    BY <1>2, <2>1 DEF LoneAsk
<1>5. LinesFollow' /\ NonPayantNotPriced'
  BY <1>1, <1>2 DEF TicketIInv, LinesFollow, NonPayantNotPriced
<1>6. QED
  BY <1>3, <1>4, <1>5 DEF TicketIInv

LEMMA CreateLogRowInv ==
    ASSUME TicketIInv, NEW q \in Asks, CreateLogRow(q) PROVE TicketIInv'
<1>1. /\ Over(q, "row") /\ UNCHANGED <<ignoreCount, payant, ofDi, dealt>>
      /\ logRows' = Append(logRows, [cycle |-> ask[q].cycle, data |-> Unpriced])
  BY DEF CreateLogRow
<1>2. /\ ask' \in [Asks -> AskState] /\ ask[q].op = "row" /\ ask'[q].op = "none"
      /\ \A r \in Asks : r # q => ask'[r] = ask[r]
      /\ UNCHANGED <<sold, asked, together>>
  BY <1>1, AskOver DEF TicketIInv
<1>3. TicketTypes'
  <2>1. ask[q].cycle \in 1..MaxIgnore
    BY <1>2, AskTyped DEF TicketIInv, TicketTypes, MaxIgnore
  <2>2. Unpriced \in CycleData
    BY EmptySeq DEF Unpriced, CycleData
  <2>3. [cycle |-> ask[q].cycle, data |-> Unpriced] \in LogRow
    BY <2>1, <2>2 DEF LogRow
  <2>4. logRows' \in Seq(LogRow)
    BY <1>1, <2>3, AppendProperties DEF TicketIInv, TicketTypes
  <2>5. QED
    BY <1>1, <1>2, <2>4 DEF TicketIInv, TicketTypes
<1>4. LoneAsk'
  <2>1. ~together => \A r \in Asks : ask'[r].op = "none"
    BY <1>2, LonelyAsk
  <2>2. QED
    BY <1>2, <2>1 DEF LoneAsk
<1>5. LinesFollow' /\ NonPayantNotPriced'
  BY <1>1, <1>2 DEF TicketIInv, LinesFollow, NonPayantNotPriced
<1>6. QED
  BY <1>3, <1>4, <1>5 DEF TicketIInv

LEMMA RenamedTyped ==
    ASSUME NEW list \in Seq(TicketLine), NEW old \in TicketNames, NEW new \in TicketNames
    PROVE  /\ RenamedLines(list, old, new) \in Seq(TicketLine)
           /\ DOMAIN RenamedLines(list, old, new) = DOMAIN list
           /\ \A i \in DOMAIN list : RenamedLines(list, old, new)[i].part =
                 IF list[i].part = old THEN new ELSE list[i].part
<1>1. /\ Len(list) \in Nat /\ DOMAIN list = 1..Len(list)
      /\ \A i \in 1..Len(list) : list[i] \in TicketLine
  BY LenProperties, ElementOfSeq
<1>2. /\ RenamedLines(list, old, new) \in [1..Len(list) -> TicketLine]
      /\ \A i \in 1..Len(list) : RenamedLines(list, old, new)[i].part =
            IF list[i].part = old THEN new ELSE list[i].part
  BY <1>1 DEF RenamedLines, TicketLine
<1>3. QED
  BY <1>1, <1>2

LEMMA RenamePartWrites ==
    ASSUME TicketTypes, NEW old \in TicketNames, NEW new \in TicketNames, RenamePart(old, new)
    PROVE  /\ ofDi' \in CycleData /\ ofDi'.price = ofDi.price
           /\ ofDi'.lines = RenamedLines(ofDi.lines, old, new)
           /\ ofDi.lines \in Seq(TicketLine)
<1>1. ofDi.lines \in Seq(TicketLine)
  BY DEF TicketTypes, CycleData, TicketLine
<1>2. PICK list \in Seq(TicketLine) : list = RenamedLines(ofDi.lines, old, new)
  BY <1>1, RenamedTyped
<1>3. ofDi' = [ofDi EXCEPT !.lines = list]
  BY <1>2 DEF RenamePart
<1>4. QED
  BY <1>1, <1>2, <1>3 DEF TicketTypes, CycleData, TicketLine

LEMMA RenamePartInv ==
    ASSUME TicketIInv, NEW old \in TicketNames, NEW new \in TicketNames, RenamePart(old, new)
    PROVE  TicketIInv'
<1>1. /\ old \in sold /\ asked < MaxAsks /\ asked' = asked + 1
      /\ sold' = (sold \ {old}) \cup {new}
      /\ together' = (together \/ \E r \in Asks : ask[r].op # "none")
      /\ UNCHANGED <<ignoreCount, payant, logRows, ask, dealt>>
  BY DEF RenamePart
<1>2. /\ ofDi' \in CycleData /\ ofDi'.price = ofDi.price
      /\ ofDi'.lines = RenamedLines(ofDi.lines, old, new)
      /\ ofDi.lines \in Seq(TicketLine)
  BY RenamePartWrites DEF TicketIInv
<1>3. TicketTypes'
  <2>1. asked' \in 0..MaxAsks
    BY <1>1, TicketBounds DEF TicketIInv, TicketTypes
  <2>2. QED
    BY <1>1, <1>2, <2>1 DEF TicketIInv, TicketTypes
<1>4. LoneAsk'
  <2>1. ~together' => \A r \in Asks : ask'[r].op = "none"
    BY <1>1
  <2>2. QED
    BY <2>1 DEF LoneAsk
<1>5. LinesFollow'
  <2>1. ASSUME ~together', NEW i \in DOMAIN ofDi.lines
        PROVE  RenamedLines(ofDi.lines, old, new)[i].part \in sold'
    <3>1. ofDi.lines[i].part \in sold
      BY <1>1, <2>1 DEF TicketIInv, LinesFollow, LinesSold
    <3>2. RenamedLines(ofDi.lines, old, new)[i].part =
             IF ofDi.lines[i].part = old THEN new ELSE ofDi.lines[i].part
      BY <1>2, RenamedTyped
    <3>3. QED
      BY <1>1, <3>1, <3>2
  <2>2. DOMAIN RenamedLines(ofDi.lines, old, new) = DOMAIN ofDi.lines
    BY <1>2, RenamedTyped
  <2>3. QED
    BY <1>2, <2>1, <2>2 DEF LinesFollow, LinesSold
<1>6. NonPayantNotPriced'
  BY <1>1, <1>2 DEF TicketIInv, NonPayantNotPriced
<1>7. QED
  BY <1>3, <1>4, <1>5, <1>6 DEF TicketIInv

LEMMA TicketInitInv == CycleTicketsInit => TicketIInv
<1> SUFFICES ASSUME CycleTicketsInit PROVE TicketIInv
  OBVIOUS
<1>1. Unpriced \in CycleData /\ Unpriced.price = 0 /\ Unpriced.lines = <<>>
  BY EmptySeq DEF Unpriced, CycleData
<1>2. /\ ofDi = Unpriced /\ logRows = <<>> /\ ignoreCount = 0 /\ payant = TRUE /\ asked = 0
      /\ ask = [q \in Asks |-> NoAsk]
  BY DEF CycleTicketsInit
<1>3. \A q \in Asks : ask[q].op = "none"
  BY <1>2, NoAskTyped
<1>4. TicketTypes
  <2>1. ask \in [Asks -> AskState]
    BY <1>2, NoAskTyped
  <2>2. logRows \in Seq(LogRow)
    BY <1>2, EmptySeq
  <2>3. QED
    BY <1>1, <1>2, <1>3, <2>1, <2>2, TicketBounds DEF TicketTypes, MaxIgnore
<1>5. LoneAsk /\ LinesFollow /\ NonPayantNotPriced
  BY <1>1, <1>2, <1>3 DEF LoneAsk, LinesFollow, LinesSold, NonPayantNotPriced
<1>6. QED
  BY <1>4, <1>5 DEF TicketIInv

LEMMA TicketStepInv ==
    ASSUME TicketIInv, [CycleTicketsNext]_ticketVars PROVE TicketIInv'
<1>1. ASSUME NEW q \in Asks, NEW v \in 0..1, affectinitialPrice(q, v) PROVE TicketIInv'
  BY <1>1, ReadPriceInv
<1>2. ASSUME NEW q \in Asks, NEW v \in 0..1, NEW f \in 0..1, managerAdminManager_InMagasin(q, v, f)
      PROVE  TicketIInv'
  BY <1>2, ReadNegoInv
<1>3. ASSUME NEW q \in Asks, NEW flag \in BOOLEAN, setDiagnosticPayant(q, flag) PROVE TicketIInv'
  BY <1>3, ReadPayantInv
<1>4. ASSUME NEW q \in Asks, NEW names \in Tickets, tech_startDiagnostic(q, names)
      PROVE  TicketIInv'
  BY <1>4, ReadTicketInv
<1>5. ASSUME NEW q \in Asks, NEW n \in TicketNames, setSelectedComponentAsDone(q, n)
      PROVE  TicketIInv'
  BY <1>5, ReadDoneInv
<1>6. ASSUME NEW q \in Asks,
             \/ countIgnore(q) \/ createStat(q) \/ SavePrice(q) \/ SaveNego(q) \/ SavePayant(q)
             \/ SaveTicket(q) \/ SaveDone(q) \/ SaveRetour(q) \/ CreateLogRow(q)
      PROVE  TicketIInv'
  BY <1>6, ReadRetourInv, SavePriceInv, SaveNegoInv, SavePayantInv, SaveTicketInv, SaveDoneInv,
     SaveRetourInv, CreateLogRowInv
<1>7. ASSUME NEW old \in TicketNames, NEW new \in TicketNames, RenamePart(old, new)
      PROVE  TicketIInv'
  BY <1>7, RenamePartInv
<1>8. CASE UNCHANGED ticketVars
  BY <1>8 DEF TicketIInv, TicketTypes, LoneAsk, Stands, LinesFollow, NonPayantNotPriced, ticketVars
<1>9. QED
  BY <1>1, <1>2, <1>3, <1>4, <1>5, <1>6, <1>7, <1>8 DEF CycleTicketsNext

\* A diagnostic that is not billed has no price on its DI, when the requests came one at a
\* time and the negotiation wrote none; the tickets of the cycles keep their types
\* (affectinitialPrice, setDiagnosticPayant and the writes of di.service.ts).
THEOREM TicketsInvariant == CycleTicketsSpec => []TicketsInv
<1>1. TicketIInv => TicketsInv
  <2> SUFFICES ASSUME TicketIInv PROVE TicketsInv
    OBVIOUS
  <2>1. \A i \in DOMAIN logRows : logRows[i].cycle \in 1..MaxIgnore /\ logRows[i].data \in CycleData
    <3>1. \A i \in DOMAIN logRows : logRows[i] \in LogRow
      BY LenProperties, ElementOfSeq DEF TicketIInv, TicketTypes
    <3>2. QED
      BY <3>1 DEF LogRow
  <2>2. \A q \in Asks : ask[q].cycle \in 0..MaxIgnore
    BY AskTyped DEF TicketIInv
  <2>3. QED
    BY <2>1, <2>2 DEF TicketIInv, TicketTypes, TicketsInv, TicketTypeOK
<1>2. CycleTicketsInit => TicketIInv
  BY TicketInitInv
<1>3. TicketIInv /\ [CycleTicketsNext]_ticketVars => TicketIInv'
  BY TicketStepInv
<1>4. QED
  BY <1>1, <1>2, <1>3, PTL DEF CycleTicketsSpec

----------------------------------------------------------------------------
(* What a step leaves of the cycles.                                       *)

SameParts(x, y) ==
    /\ DOMAIN x.lines = DOMAIN y.lines
    /\ \A i \in DOMAIN x.lines : x.lines[i].part = y.lines[i].part

\* The four requests that write a ticket or a price write it where its cycle is kept, and
\* only the ticket changes the parts.
LEMMA RequestWrites ==
    ASSUME TicketTypes, NEW q \in Asks,
           SavePrice(q) \/ SaveNego(q) \/ SaveTicket(q) \/ SaveDone(q)
    PROVE  \E written \in SUBSET CycleData :
              /\ WriteData(ask[q].cycle, written)
              /\ DataOf(ofDi, logRows, ask[q].cycle) # {} => written # {}
              /\ ask[q].op = "ticket" \/ \A x \in written :
                    \E y \in DataOf(ofDi, logRows, ask[q].cycle) : SameParts(x, y)
<1> PICK price \in 0..1, final \in 0..1, list \in Seq(TicketLine) :
       price = ask[q].price /\ final = ask[q].final /\ list = ask[q].lines
  BY AskTyped
<1> PICK there \in SUBSET CycleData : /\ there = Current(ask[q].cycle)
                                      /\ there = DataOf(ofDi, logRows, ask[q].cycle)
  BY CurrentData
<1>1. CASE SavePrice(q)
  <2> DEFINE Priced(data) == [data EXCEPT !.price = price]
  <2>1. WriteData(ask[q].cycle, {Priced(data) : data \in there})
    BY <1>1 DEF SavePrice
  <2>2. \A data \in CycleData : Priced(data) \in CycleData /\ SameParts(Priced(data), data)
    BY DEF CycleData, SameParts
  <2> HIDE DEF Priced
  <2> PICK written : written = {Priced(data) : data \in there}
    OBVIOUS
  <2>3. /\ written \in SUBSET CycleData /\ (there # {} => written # {})
        /\ \A x \in written : \E y \in there : SameParts(x, y)
    BY <2>1, <2>2
  <2>4. WriteData(ask[q].cycle, written)
    BY <2>1
  <2>5. QED
    BY <2>1, <2>3, <2>4
<1>2. CASE SaveNego(q)
  <2> PICK keeps \in BOOLEAN : keeps = (ask[q].cycle > 0 /\ ask[q].final = 0)
    OBVIOUS
  <2> DEFINE Nego(data) == [data EXCEPT !.price = price,
                                        !.final = IF keeps THEN data.final ELSE final]
  <2>1. WriteData(ask[q].cycle, {Nego(data) : data \in there})
    BY <1>2 DEF SaveNego
  <2>2. \A data \in CycleData : Nego(data) \in CycleData /\ SameParts(Nego(data), data)
    BY DEF CycleData, SameParts
  <2> HIDE DEF Nego
  <2> PICK written : written = {Nego(data) : data \in there}
    OBVIOUS
  <2>3. /\ written \in SUBSET CycleData /\ (there # {} => written # {})
        /\ \A x \in written : \E y \in there : SameParts(x, y)
    BY <2>1, <2>2
  <2>4. WriteData(ask[q].cycle, written)
    BY <2>1
  <2>5. QED
    BY <2>1, <2>3, <2>4
<1>3. CASE SaveTicket(q)
  <2> DEFINE Filled(data) == [data EXCEPT !.lines = list]
  <2>1. WriteData(ask[q].cycle, {Filled(data) : data \in there}) /\ ask[q].op = "ticket"
    BY <1>3 DEF SaveTicket, Over
  <2>2. \A data \in CycleData : Filled(data) \in CycleData
    BY DEF CycleData, TicketLine
  <2> HIDE DEF Filled
  <2> PICK written : written = {Filled(data) : data \in there}
    OBVIOUS
  <2>3. /\ written \in SUBSET CycleData /\ (there # {} => written # {})
    BY <2>1, <2>2
  <2>4. WriteData(ask[q].cycle, written)
    BY <2>1
  <2>5. QED
    BY <2>1, <2>3, <2>4
<1>4. CASE SaveDone(q)
  <2> DEFINE Ticked(data) == [data EXCEPT !.lines = Marks(data.lines, ask[q].part)]
  <2>1. /\ WriteData(ask[q].cycle, {Ticked(data) : data \in there})
        /\ \A data \in CycleData : /\ Ticked(data) \in CycleData
                                   /\ Ticked(data).lines = Marks(data.lines, ask[q].part)
    BY <1>4, SaveDoneWrites
  <2>2. \A data \in CycleData : SameParts(Ticked(data), data)
    <3> HIDE DEF Ticked
    <3>1. \A data \in CycleData : data.lines \in Seq(TicketLine)
      BY DEF CycleData, TicketLine
    <3>2. QED
      BY <2>1, <3>1, MarksTyped DEF SameParts
  <2> HIDE DEF Ticked
  <2> PICK written : written = {Ticked(data) : data \in there}
    OBVIOUS
  <2>3. /\ written \in SUBSET CycleData /\ (there # {} => written # {})
        /\ \A x \in written : \E y \in there : SameParts(x, y)
    BY <2>1, <2>2
  <2>4. WriteData(ask[q].cycle, written)
    BY <2>1
  <2>5. QED
    BY <2>1, <2>3, <2>4
<1>5. QED
  BY <1>1, <1>2, <1>3, <1>4

LEMMA FirstRow ==
    ASSUME NEW S \in SUBSET Nat, S # {} PROVE \E k \in S : \A j \in S : k <= j
<1>1. PICK k \in S : \A j \in S : ~(<<j, k>> \in OpToRel(<, Nat))
  BY NatLessThanWellFounded, WFMin, Zenon
<1>2. \A j \in S : j < k => <<j, k>> \in OpToRel(<, Nat)
  BY Zenon DEF OpToRel
<1>3. \A j \in S : ~(j < k)
  BY <1>1, <1>2, Zenon
<1>4. QED
  BY <1>3

\* A new row is reached only when its cycle had none.
LEMMA RowAdded ==
    ASSUME NEW di, NEW rows \in Seq(LogRow), NEW row \in LogRow, NEW c \in 0..MaxIgnore,
           c = row.cycle => RowOf(rows, c) # {}
    PROVE  DataOf(di, Append(rows, row), c) = DataOf(di, rows, c)
<1>1. /\ Len(rows) \in Nat /\ DOMAIN rows = 1..Len(rows) /\ rows \in Seq(LogRow)
  BY LenProperties
<1>2. /\ Append(rows, row) \in Seq(LogRow) /\ Len(Append(rows, row)) = Len(rows) + 1
      /\ \A i \in 1..Len(rows) : Append(rows, row)[i] = rows[i]
      /\ Append(rows, row)[Len(rows) + 1] = row
  BY AppendProperties
<1> PICK more : more = Append(rows, row)
  OBVIOUS
<1>3. DOMAIN more = 1..(Len(rows) + 1) /\ \A i \in 1..Len(rows) : more[i] = rows[i]
      /\ more[Len(rows) + 1] = row
  BY <1>1, <1>2, LenProperties
<1>4. RowOf(more, c) = RowOf(rows, c)
  <2>1. CASE c # row.cycle
    <3>1. RowsOf(more, c) = RowsOf(rows, c)
      BY <1>1, <1>3, <2>1 DEF RowsOf
    <3>2. QED
      BY <3>1 DEF RowOf
  <2>2. CASE c = row.cycle
    <3>1. RowsOf(more, c) = RowsOf(rows, c) \cup {Len(rows) + 1}
      BY <1>1, <1>3, <2>2 DEF RowsOf
    <3>2. PICK i \in RowOf(rows, c) : TRUE
      BY <2>2
    <3>3. i \in RowsOf(rows, c) /\ \A k \in RowsOf(rows, c) : k \in 1..Len(rows)
      BY <1>1 DEF RowOf, RowsOf
    <3>4. QED
      BY <1>1, <3>1, <3>3 DEF RowOf
  <2>3. QED
    BY <2>1, <2>2
<1>5. \A i \in RowOf(rows, c) : i \in 1..Len(rows)
  BY <1>1 DEF RowOf, RowsOf
<1>6. QED
  BY <1>3, <1>4, <1>5 DEF DataOf

\* The steps that write no ticket and no price.
QuietRequest(q) ==
    \/ \E v \in 0..1 : affectinitialPrice(q, v)
    \/ \E v, f \in 0..1 : managerAdminManager_InMagasin(q, v, f)
    \/ \E flag \in BOOLEAN : setDiagnosticPayant(q, flag)
    \/ \E names \in Tickets : tech_startDiagnostic(q, names)
    \/ \E n \in TicketNames : setSelectedComponentAsDone(q, n)
    \/ countIgnore(q) \/ createStat(q) \/ SavePayant(q) \/ SaveRetour(q)

LEMMA QuietKeeps ==
    ASSUME NEW q \in Asks, QuietRequest(q) PROVE UNCHANGED <<ofDi, logRows, sold>>
  BY DEF QuietRequest, affectinitialPrice, managerAdminManager_InMagasin, setDiagnosticPayant,
         tech_startDiagnostic, setSelectedComponentAsDone, countIgnore, createStat, SavePayant,
         SaveRetour, Read, Over

LEMMA TicketSteps ==
    ASSUME [CycleTicketsNext]_ticketVars
    PROVE  \/ UNCHANGED <<ofDi, logRows, sold>>
           \/ \E q \in Asks : SavePrice(q) \/ SaveNego(q) \/ SaveTicket(q) \/ SaveDone(q)
           \/ \E q \in Asks : CreateLogRow(q)
           \/ \E old, new \in TicketNames : RenamePart(old, new)
<1>1. CASE UNCHANGED ticketVars
  BY <1>1 DEF ticketVars
<1>2. ASSUME NEW q \in Asks, QuietRequest(q) PROVE UNCHANGED <<ofDi, logRows, sold>>
  BY <1>2, QuietKeeps
<1>3. CASE CycleTicketsNext
  <2>1. \/ \E q \in Asks : QuietRequest(q)
        \/ \E q \in Asks : SavePrice(q) \/ SaveNego(q) \/ SaveTicket(q) \/ SaveDone(q)
        \/ \E q \in Asks : CreateLogRow(q)
        \/ \E old, new \in TicketNames : RenamePart(old, new)
    BY <1>3, Zenon DEF CycleTicketsNext, QuietRequest
  <2>2. QED
    BY <1>2, <2>1
<1>4. QED
  BY <1>1, <1>3

LEMMA NewRow ==
    ASSUME TicketIInv, NEW q \in Asks, CreateLogRow(q), ~together'
    PROVE  \E row \in LogRow :
              /\ row.cycle = ignoreCount /\ row.data = Unpriced /\ ignoreCount > 0
              /\ logRows' = Append(logRows, row) /\ UNCHANGED <<ofDi, sold>>
<1>1. /\ Over(q, "row") /\ UNCHANGED ofDi
      /\ logRows' = Append(logRows, [cycle |-> ask[q].cycle, data |-> Unpriced])
  BY DEF CreateLogRow
<1>2. ask[q].op = "row" /\ UNCHANGED <<sold, together>>
  BY <1>1 DEF Over
<1>3. ask[q].cycle = ignoreCount /\ ask[q].cycle > 0 /\ ignoreCount \in 0..MaxIgnore
  BY <1>2, LonelyAsk DEF Stands, TicketIInv, TicketTypes
<1>4. Unpriced \in CycleData
  BY EmptySeq DEF Unpriced, CycleData
<1> DEFINE row == [cycle |-> ask[q].cycle, data |-> Unpriced]
<1>5. row \in LogRow
  BY <1>3, <1>4 DEF LogRow, MaxIgnore
<1>6. QED
  BY <1>1, <1>2, <1>3, <1>5

LEMMA LoneWriter ==
    ASSUME TicketIInv, NEW q \in Asks, ~together',
           SavePrice(q) \/ SaveNego(q) \/ SaveTicket(q) \/ SaveDone(q)
    PROVE  /\ ask[q].cycle = ignoreCount /\ ignoreCount \in 0..MaxIgnore
           /\ UNCHANGED <<sold, ignoreCount>>
           /\ ask[q].op = "ticket" => ask'[q] # ask[q]
<1>1. /\ UNCHANGED <<sold, ignoreCount, together>> /\ ask[q].op # "none"
      /\ ask' = [ask EXCEPT ![q] = NoAsk]
  BY DEF SavePrice, SaveNego, SaveTicket, SaveDone, Over
<1>2. ask[q].cycle = ignoreCount /\ ignoreCount \in 0..MaxIgnore
  BY <1>1, LonelyAsk DEF Stands, TicketIInv, TicketTypes
<1>3. ask'[q].op = "none"
  BY <1>1, NoAskTyped DEF TicketIInv, TicketTypes
<1>4. QED
  BY <1>1, <1>2, <1>3

LEMMA ClosedCyclesKeptInStep ==
    ASSUME TicketIInv, [CycleTicketsNext]_ticketVars PROVE ClosedCyclesKept
<1> SUFFICES ASSUME ~together', sold' = sold, NEW c \in 0..(ignoreCount - 1)
             PROVE  DataOf(ofDi', logRows', c) = DataOf(ofDi, logRows, c)
  BY DEF ClosedCyclesKept
<1>1. /\ TicketTypes /\ logRows \in Seq(LogRow) /\ ignoreCount \in 0..MaxIgnore
      /\ c \in 0..MaxIgnore /\ c # ignoreCount
  BY DEF TicketIInv, TicketTypes, MaxIgnore
<1>2. CASE UNCHANGED <<ofDi, logRows, sold>>
  BY <1>2
<1>3. ASSUME NEW q \in Asks, SavePrice(q) \/ SaveNego(q) \/ SaveTicket(q) \/ SaveDone(q)
      PROVE  DataOf(ofDi', logRows', c) = DataOf(ofDi, logRows, c)
  <2>1. PICK written \in SUBSET CycleData :
           /\ WriteData(ask[q].cycle, written)
           /\ DataOf(ofDi, logRows, ask[q].cycle) # {} => written # {}
    BY <1>1, <1>3, RequestWrites
  <2>2. ask[q].cycle \in 0..MaxIgnore /\ c # ask[q].cycle
    BY <1>1, <1>3, LoneWriter
  <2>3. QED
    BY <1>1, <2>1, <2>2, WrittenThere
<1>4. ASSUME NEW q \in Asks, CreateLogRow(q)
      PROVE  DataOf(ofDi', logRows', c) = DataOf(ofDi, logRows, c)
  BY <1>1, <1>4, NewRow, RowAdded
<1>5. ASSUME NEW old \in TicketNames, NEW new \in TicketNames, RenamePart(old, new)
      PROVE  DataOf(ofDi', logRows', c) = DataOf(ofDi, logRows, c)
  BY <1>5 DEF RenamePart
<1>6. QED
  BY <1>2, <1>3, <1>4, <1>5, TicketSteps

\* The lines an estimate counts.
Counted(data, names) == {i \in DOMAIN data.lines : data.lines[i].part \in names}

LEMMA SameEstimate ==
    ASSUME NEW di, NEW rows, NEW names, NEW di2, NEW rows2, NEW names2, NEW c,
           \A x \in DataOf(di, rows, c) : \A i \in Counted(x, names) :
              \E y \in DataOf(di2, rows2, c) : i \in Counted(y, names2),
           \A y \in DataOf(di2, rows2, c) : \A i \in Counted(y, names2) :
              \E x \in DataOf(di, rows, c) : i \in Counted(x, names)
    PROVE  Estimate(di2, rows2, c, names2) = Estimate(di, rows, c, names)
<1>1. UNION {Counted(x, names) : x \in DataOf(di, rows, c)}
         = UNION {Counted(y, names2) : y \in DataOf(di2, rows2, c)}
  OBVIOUS
<1>2. QED
  BY <1>1 DEF Estimate, Counted

LEMMA EstimateSteadyInStep ==
    ASSUME TicketIInv, [CycleTicketsNext]_ticketVars PROVE EstimateSteady
<1> SUFFICES ASSUME ~together', ignoreCount' = ignoreCount, ignoreCount = 0 \/ sold' = sold,
                    \A q \in Asks : ask[q].op = "ticket" => ask'[q] = ask[q]
             PROVE  Estimate(ofDi', logRows', ignoreCount, sold')
                      = Estimate(ofDi, logRows, ignoreCount, sold)
  BY DEF EstimateSteady
<1>1. TicketTypes /\ logRows \in Seq(LogRow) /\ ignoreCount \in 0..MaxIgnore
  BY DEF TicketIInv, TicketTypes
<1>2. CASE UNCHANGED <<ofDi, logRows, sold>>
  BY <1>2
<1>3. ASSUME NEW q \in Asks, SavePrice(q) \/ SaveNego(q) \/ SaveTicket(q) \/ SaveDone(q)
      PROVE  Estimate(ofDi', logRows', ignoreCount, sold')
               = Estimate(ofDi, logRows, ignoreCount, sold)
  <2>1. ask[q].cycle = ignoreCount /\ ask[q].op # "ticket" /\ sold' = sold
    BY <1>3, LoneWriter
  <2>2. PICK written \in SUBSET CycleData :
           /\ WriteData(ignoreCount, written)
           /\ DataOf(ofDi, logRows, ignoreCount) # {} => written # {}
           /\ \A x \in written :
                 \E y \in DataOf(ofDi, logRows, ignoreCount) : SameParts(x, y)
    BY <1>1, <1>3, <2>1, RequestWrites
  <2>3. /\ DataOf(ofDi', logRows', ignoreCount) \subseteq written
        /\ DataOf(ofDi, logRows, ignoreCount) # {} => DataOf(ofDi', logRows', ignoreCount) # {}
    BY <1>1, <2>2, WrittenThere
  <2>4. \A x, y \in DataOf(ofDi, logRows, ignoreCount) : x = y
    BY <1>1, DataTyped
  <2>5. \A x, y : SameParts(x, y) => Counted(x, sold) = Counted(y, sold)
    BY DEF SameParts, Counted
  <2>6. \A x \in DataOf(ofDi', logRows', ignoreCount) :
           \E y \in DataOf(ofDi, logRows, ignoreCount) : Counted(x, sold) = Counted(y, sold)
    BY <2>2, <2>3, <2>5
  <2>7. \A y \in DataOf(ofDi, logRows, ignoreCount) :
           \E x \in DataOf(ofDi', logRows', ignoreCount) : Counted(x, sold) = Counted(y, sold)
    BY <2>3, <2>4, <2>6
  <2>8. QED
    BY <2>1, <2>6, <2>7, SameEstimate
<1>4. ASSUME NEW q \in Asks, CreateLogRow(q)
      PROVE  Estimate(ofDi', logRows', ignoreCount, sold')
               = Estimate(ofDi, logRows, ignoreCount, sold)
  <2>1. PICK row \in LogRow :
           /\ row.cycle = ignoreCount /\ row.data = Unpriced /\ ignoreCount > 0
           /\ logRows' = Append(logRows, row) /\ UNCHANGED <<ofDi, sold>>
    BY <1>4, NewRow
  <2>2. CASE RowOf(logRows, ignoreCount) # {}
    <3>1. DataOf(ofDi, logRows', ignoreCount) = DataOf(ofDi, logRows, ignoreCount)
      BY <1>1, <2>1, <2>2, RowAdded
    <3>2. QED
      BY <2>1, <3>1 DEF Estimate
  <2>3. CASE RowOf(logRows, ignoreCount) = {}
    <3>1. DataOf(ofDi, logRows, ignoreCount) = {}
      BY <1>1, <2>1, <2>3 DEF DataOf
    <3>2. \A x \in DataOf(ofDi', logRows', ignoreCount) : x = Unpriced
      <4>1. /\ Len(logRows) \in Nat /\ DOMAIN logRows = 1..Len(logRows)
        BY <1>1, LenProperties
      <4>2. /\ logRows' \in Seq(LogRow) /\ Len(logRows') = Len(logRows) + 1
            /\ \A i \in 1..Len(logRows) : logRows'[i] = logRows[i]
            /\ logRows'[Len(logRows) + 1] = row
        BY <1>1, <2>1, AppendProperties
      <4>3. DOMAIN logRows' = 1..(Len(logRows) + 1)
        BY <4>2, LenProperties
      <4>4. RowsOf(logRows, ignoreCount) = {}
        <5>1. ASSUME NEW i \in RowsOf(logRows, ignoreCount) PROVE FALSE
          <6>1. \E k \in RowsOf(logRows, ignoreCount) :
                   \A j \in RowsOf(logRows, ignoreCount) : k <= j
            <7>1. RowsOf(logRows, ignoreCount) \subseteq Nat
              BY <4>1 DEF RowsOf
            <7>2. QED
              BY <5>1, <7>1, FirstRow
          <6>2. QED
            BY <2>3, <6>1 DEF RowOf
        <5>2. QED
          BY <5>1
      <4>5. \A i \in RowOf(logRows', ignoreCount) : i = Len(logRows) + 1
        BY <4>1, <4>2, <4>3, <4>4 DEF RowOf, RowsOf
      <4>6. QED
        BY <1>1, <2>1, <4>2, <4>5 DEF DataOf
    <3>3. Counted(Unpriced, sold) = {}
      BY DEF Counted, Unpriced
    <3>4. QED
      BY <2>1, <3>1, <3>2, <3>3, SameEstimate
  <2>4. QED
    BY <2>2, <2>3
<1>5. ASSUME NEW old \in TicketNames, NEW new \in TicketNames, RenamePart(old, new)
      PROVE  Estimate(ofDi', logRows', ignoreCount, sold')
               = Estimate(ofDi, logRows, ignoreCount, sold)
  <2>1. /\ old \in sold /\ new \notin sold /\ sold' = (sold \ {old}) \cup {new}
        /\ UNCHANGED logRows /\ ~together
    BY <1>5 DEF RenamePart
  <2>2. ignoreCount = 0
    BY <2>1
  <2>3. /\ DataOf(ofDi, logRows, ignoreCount) = {ofDi}
        /\ DataOf(ofDi', logRows', ignoreCount) = {ofDi'}
    BY <2>2 DEF DataOf
  <2>4. /\ ofDi'.lines = RenamedLines(ofDi.lines, old, new) /\ ofDi.lines \in Seq(TicketLine)
    BY <1>1, <1>5, RenamePartWrites
  <2>5. /\ DOMAIN ofDi'.lines = DOMAIN ofDi.lines
        /\ \A i \in DOMAIN ofDi.lines : ofDi'.lines[i].part =
              IF ofDi.lines[i].part = old THEN new ELSE ofDi.lines[i].part
    BY <2>4, RenamedTyped
  <2>6. \A i \in DOMAIN ofDi.lines : ofDi.lines[i].part \in sold
    BY <2>1 DEF TicketIInv, LinesFollow, LinesSold
  <2>7. Counted(ofDi', sold') = Counted(ofDi, sold)
    BY <2>1, <2>5, <2>6 DEF Counted
  <2>8. QED
    BY <2>3, <2>7, SameEstimate
<1>6. QED
  BY <1>2, <1>3, <1>4, <1>5, TicketSteps

\* When the requests came one at a time, no step changes the ticket or the prices of a cycle
\* that is over: each request writes where the cycle it has read is kept (countIgnore and
\* the writes of di.service.ts and logs-di.service.ts).
THEOREM ClosedCyclesStay == CycleTicketsSpec => [][ClosedCyclesKept]_ticketVars
<1>1. CycleTicketsInit => TicketIInv
  BY TicketInitInv
<1>2. TicketIInv /\ [CycleTicketsNext]_ticketVars => TicketIInv'
  BY TicketStepInv
<1>3. TicketIInv /\ [CycleTicketsNext]_ticketVars => ClosedCyclesKept
  BY ClosedCyclesKeptInStep
<1>4. QED
  BY <1>1, <1>2, <1>3, PTL DEF CycleTicketsSpec

\* Nor does the estimate of the open cycle move but for a saved ticket, or a part renamed in
\* a retour: a second assignment, a price, a line marked done and, in the first cycle, a
\* rename leave it (CreateLogRow, addComposantInfo).
THEOREM EstimateStaysSteady == CycleTicketsSpec => [][EstimateSteady]_ticketVars
<1>1. CycleTicketsInit => TicketIInv
  BY TicketInitInv
<1>2. TicketIInv /\ [CycleTicketsNext]_ticketVars => TicketIInv'
  BY TicketStepInv
<1>3. TicketIInv /\ [CycleTicketsNext]_ticketVars => EstimateSteady
  BY EstimateSteadyInStep
<1>4. QED
  BY <1>1, <1>2, <1>3, PTL DEF CycleTicketsSpec

(***************************************************************************)
(* The import of DIs, and the counter of references.                       *)
(***************************************************************************)

RowSteps == {"row", "client", "free", "bump", "save", "sync"}
Client == [name: Names, deleted: BOOLEAN]
JobDocument == [status: JobStatus, total: Nat, done: Nat]
Seen == [refs: SUBSET Refs, deletedRefs: SUBSET Refs, client: [Names -> Nat],
         companies: SUBSET Names, clientIds: SUBSET Nat, alias: [Names -> Tiers]]
RunState == [at: RunSteps, sync: BOOLEAN, file: Seq(ParsedRow), todo: SUBSET Nat,
             pos: Nat \ {0}, tier: Tiers, number: Nat, revived: BOOLEAN, snap: Seen,
             decision: Decisions, count: [Outcomes -> Nat]]

ImportTypes ==
    /\ base \in [Refs -> {"none", "active", "deleted"}]
    /\ owner \in [Refs -> Tiers]
    /\ counter \in 0..MaxRef /\ drawn \in 0..MaxRef
    /\ clients \in Seq(Client) /\ Len(clients) <= MaxClients
    /\ companies \subseteq Names
    /\ aliases \in [Names -> Tiers]
    /\ job \in [Jobs -> JobDocument]
    /\ runner \in [Jobs -> RunState]
    /\ userOps \in 0..MaxUserOps
    /\ entered \subseteq Refs
    /\ cut \in [Jobs -> BOOLEAN]

NextLine(s) == CHOOSE k \in s.todo : \A m \in s.todo : k <= m
RowAt(s) == s.file[NextLine(s)]

\* What a run holds, n clients and the counter at c: lines of its file that have a reference,
\* a snapshot of tiers that exist or have existed, a tier of its row that the snapshot knows.
Known(tier, n, snap) == \/ tier[1] = "client" /\ tier[2] \in 1..n
                        \/ tier[1] = "company" /\ tier[2] \in snap.companies
RunHolds(s, n, c) ==
    /\ \A k \in s.todo : k \in 1..Len(s.file) /\ s.file[k].ref \in Refs
    /\ s.at \in RowSteps => s.todo # {}
    /\ \A name \in Names : s.snap.client[name] \in 0..n
    /\ s.snap.clientIds \subseteq 1..n
    /\ s.at \in {"free", "bump", "save", "sync"} => Known(s.tier, n, s.snap)
    /\ s.at = "save" => RowAt(s).ref <= c

\* What a run has counted, and what its document tells of it.
Counts(s) == s.count["dis"] + s.count["ignorees"] + s.count["erreurs"]
Tally(s, doc) == Counts(s) = s.pos - 1 /\ doc.total = s.pos - 1 + Cardinality(s.todo)
InProgress(s, doc) ==
    /\ s.at \in RowSteps \cup {"start", "progress", "end"} => Tally(s, doc)
    /\ s.at = "start" => s.pos = 1 /\ doc.done = 0
    /\ s.at \in RowSteps => doc.done = (s.pos - 1) - ((s.pos - 1) % BatchSize)
    /\ s.at = "progress" => /\ s.pos > 1 /\ doc.done = (s.pos - 2) - ((s.pos - 2) % BatchSize)
                            /\ s.todo = {} \/ (s.pos - 1) % BatchSize = 0
    /\ s.at = "end" => s.todo = {} /\ doc.done = s.pos - 1
JobHolds(s, doc, lost) ==
    /\ s.at = "idle" \/ s.sync => doc.status = "none"
    /\ s.sync => s.at \in RowSteps \cup {"over"}
    /\ doc.status = "COMPLETED" => s.at = "over" /\ doc.done = doc.total /\ Counts(s) = doc.total
    /\ s.at = "over" /\ ~s.sync => lost \/ doc.status \in {"COMPLETED", "FAILED"}
    /\ ~s.sync => InProgress(s, doc)

\* The number drawn is counted, until the process that drew it stops.
CounterInv == CounterAhead /\ (drawn # 0 => seeded /\ drawn <= counter)

RunsInv ==
    /\ \A j \in Jobs : RunHolds(runner[j], Len(clients), counter)
    /\ \A j \in Jobs : JobHolds(runner[j], job[j], cut[j])

ImportIInv == ImportTypes /\ RunsInv /\ CounterInv

----------------------------------------------------------------------------
(* Numbers.                                                                *)

LEMMA NextRemainder ==
    ASSUME NEW n \in Nat, NEW b \in Nat \ {0}
    PROVE  /\ n % b \in 0..(b - 1)
           /\ (n + 1) % b = IF n % b = b - 1 THEN 0 ELSE (n % b) + 1
<1>1. PICK q \in Int, r \in 0..(b - 1) : n = b * q + r /\ r = n % b
  OBVIOUS
<1>2. PICK p \in Int, s \in 0..(b - 1) : n + 1 = b * p + s /\ s = (n + 1) % b
  OBVIOUS
<1>3. b * (p - q) = r + 1 - s
  BY <1>1, <1>2
<1>4. p - q <= 1
  BY <1>3
<1>5. p - q >= 0
  BY <1>3
<1>6. p = q \/ p = q + 1
  BY <1>4, <1>5
<1>7. s = IF r = b - 1 THEN 0 ELSE r + 1
  <2>1. CASE p = q
    <3>1. b * (p - q) = 0
      BY <2>1
    <3>2. QED
      BY <1>3, <3>1
  <2>2. CASE p = q + 1
    <3>1. b * (p - q) = b
      BY <2>2
    <3>2. QED
      BY <1>3, <3>1
  <2>3. QED
    BY <1>6, <2>1, <2>2
<1>8. QED
  BY <1>1, <1>2, <1>7

LEMMA StepFrom ==
    ASSUME NEW k \in Nat, NEW b \in Nat \ {0}, NEW r \in 0..(b - 1), NEW q,
           q = IF r = b - 1 THEN 0 ELSE r + 1, q # 0
    PROVE  k - r = (k + 1) - q
  OBVIOUS

LEMMA BatchGoesOn ==
    ASSUME NEW k \in Nat, NEW b \in Nat \ {0}, (k + 1) % b # 0
    PROVE  k - (k % b) = (k + 1) - ((k + 1) % b)
<1>1. PICK r \in 0..(b - 1) : r = k % b
  BY NextRemainder
<1>2. PICK q : q = (k + 1) % b
  OBVIOUS
<1>3. q = IF r = b - 1 THEN 0 ELSE r + 1
  BY <1>1, <1>2, NextRemainder
<1>4. q # 0
  BY <1>2
<1>5. k - r = (k + 1) - q
  BY <1>3, <1>4, StepFrom
<1>6. QED
  BY <1>1, <1>2, <1>5, Zenon

LEMMA StepTo ==
    ASSUME NEW k \in Nat, NEW b \in Nat \ {0}, NEW r \in 0..(b - 1), NEW q,
           q = IF r = b - 1 THEN 0 ELSE r + 1
    PROVE  (k - r) + (IF q = 0 THEN b ELSE q) = k + 1 /\ (IF q = 0 THEN b ELSE q) \in Nat
<1>1. CASE r = b - 1
  BY <1>1
<1>2. CASE r # b - 1
  BY <1>2
<1>3. QED
  BY <1>1, <1>2

LEMMA BatchClosed ==
    ASSUME NEW k \in Nat, NEW b \in Nat \ {0}, NEW batch,
           batch = IF (k + 1) % b = 0 THEN b ELSE (k + 1) % b
    PROVE  batch \in Nat /\ (k - (k % b)) + batch = k + 1
<1>1. PICK r \in 0..(b - 1) : r = k % b
  BY NextRemainder
<1>2. PICK q : q = (k + 1) % b
  OBVIOUS
<1>3. q = IF r = b - 1 THEN 0 ELSE r + 1
  BY <1>1, <1>2, NextRemainder
<1>4. (k - r) + (IF q = 0 THEN b ELSE q) = k + 1 /\ (IF q = 0 THEN b ELSE q) \in Nat
  BY <1>3, StepTo
<1>5. batch = IF q = 0 THEN b ELSE q
  BY <1>2, Zenon
<1>6. QED
  BY <1>1, <1>4, <1>5, Zenon

LEMMA LastNumber ==
    ASSUME NEW n \in Nat, NEW S \in SUBSET (1..n)
    PROVE  MaxOf(S) \in 0..n /\ \A m \in S : m <= MaxOf(S)
<1> DEFINE Above == {m \in 0..n : \A k \in S : k <= m}
<1>1. Above \in SUBSET Nat /\ n \in Above
  OBVIOUS
<1>2. PICK m \in Above : \A k \in Above : m <= k
  BY <1>1, FirstRow, Zenon
<1>3. m \in S \cup {0}
  <2>1. CASE m = 0
    BY <2>1
  <2>2. CASE m # 0
    <3>1. m - 1 \in 0..n /\ m - 1 \notin Above
      BY <1>2, <2>2
    <3>2. PICK k \in S : ~(k <= m - 1)
      BY <3>1
    <3>3. k = m
      BY <1>2, <3>2
    <3>4. QED
      BY <3>3
  <2>3. QED
    BY <2>1, <2>2
<1>4. \E k \in S \cup {0} : \A i \in S : i <= k
  BY <1>2, <1>3
<1>5. MaxOf(S) \in S \cup {0} /\ \A i \in S : i <= MaxOf(S)
  BY <1>4, Zenon DEF MaxOf
<1>6. S \cup {0} \subseteq 0..n
  OBVIOUS
<1>7. QED
  BY <1>5, <1>6, Zenon

----------------------------------------------------------------------------
(* Runs.                                                                   *)

LEMMA LineReached ==
    ASSUME NEW s \in RunState, s.todo # {}
    PROVE  NextLine(s) \in s.todo
<1>1. s.todo \in SUBSET Nat
  BY DEF RunState
<1>2. \E k \in s.todo : \A m \in s.todo : k <= m
  BY <1>1, FirstRow
<1>3. QED
  BY <1>2 DEF NextLine

LEMMA RowReachedBy ==
    ASSUME NEW s \in RunState, NEW n, NEW c, RunHolds(s, n, c), s.at \in RowSteps
    PROVE  /\ NextLine(s) \in s.todo /\ RowAt(s).ref \in Refs /\ RowAt(s).name \in Names
<1>1. NextLine(s) \in s.todo
  BY LineReached DEF RunHolds
<1>2. NextLine(s) \in 1..Len(s.file) /\ RowAt(s).ref \in Refs
  BY <1>1 DEF RunHolds, RowAt
<1>3. s.file \in Seq(ParsedRow)
  BY DEF RunState
<1>4. RowAt(s) \in ParsedRow
  BY <1>2, <1>3, ElementOfSeq DEF RowAt
<1>5. QED
  BY <1>1, <1>2, <1>4 DEF ParsedRow

LEMMA TodoFinite ==
    ASSUME NEW s \in RunState, NEW n, NEW c, RunHolds(s, n, c)
    PROVE  IsFiniteSet(s.todo) /\ Cardinality(s.todo) \in Nat
<1>1. s.todo \subseteq 1..Len(s.file) /\ Len(s.file) \in Nat
  <2>1. s.file \in Seq(ParsedRow)
    BY DEF RunState
  <2>2. QED
    BY <2>1, LenProperties DEF RunHolds
<1>2. IsFiniteSet(1..Len(s.file))
  BY <1>1, FS_Interval
<1>3. IsFiniteSet(s.todo)
  BY <1>1, <1>2, FS_Subset
<1>4. QED
  BY <1>3, FS_CardinalityType

LEMMA RunInHand ==
    ASSUME ImportIInv, NEW j \in Jobs
    PROVE  /\ runner[j] \in RunState /\ RunHolds(runner[j], Len(clients), counter)
           /\ JobHolds(runner[j], job[j], cut[j]) /\ job[j] \in JobDocument /\ cut[j] \in BOOLEAN
           /\ Len(clients) \in Nat /\ DOMAIN clients = 1..Len(clients) /\ counter \in Nat
           /\ LineNo(j) = NextLine(runner[j]) /\ Row(j) = RowAt(runner[j])
  BY LenProperties DEF ImportIInv, ImportTypes, RunsInv, LineNo, Row, NextLine, RowAt

LEMMA RunMoved ==
    ASSUME ImportTypes, NEW j \in Jobs, NEW s \in RunState, Run(j, s)
    PROVE  /\ runner' \in [Jobs -> RunState] /\ runner'[j] = s
           /\ \A i \in Jobs : i # j => runner'[i] = runner[i]
  BY DEF ImportTypes, Run

LEMMA HoldsOn ==
    ASSUME NEW s \in RunState, NEW n \in Nat, NEW p \in Nat, NEW c \in Nat, NEW d \in Nat,
           n <= p, c <= d, RunHolds(s, n, c)
    PROVE  RunHolds(s, p, d)
<1>1. s.at = "save" => RowAt(s).ref \in Nat
  BY RowReachedBy DEF RowSteps, Refs
<1>2. QED
  BY <1>1 DEF RunHolds, Known

\* A run steps: what it must leave of itself; the others have lost nothing.
LEMMA RunGoesOn ==
    ASSUME ImportIInv, NEW j \in Jobs, NEW s \in RunState, Run(j, s),
           clients' \in Seq(Client), Len(clients) <= Len(clients'), Len(clients') <= MaxClients,
           counter' \in 0..MaxRef, counter <= counter',
           RunHolds(s, Len(clients'), counter'),
           job' \in [Jobs -> JobDocument], \A i \in Jobs : i # j => job'[i] = job[i],
           cut' \in [Jobs -> BOOLEAN], \A i \in Jobs : i # j => cut'[i] = cut[i],
           JobHolds(s, job'[j], cut'[j]),
           base' \in [Refs -> {"none", "active", "deleted"}], owner' \in [Refs -> Tiers],
           aliases' \in [Names -> Tiers], entered' \subseteq Refs,
           UNCHANGED <<companies, userOps, drawn, seeded>>,
           seeded => \A r \in Refs : base'[r] # "none" => base[r] # "none" \/ r <= counter'
    PROVE  ImportIInv'
<1>1. /\ runner' \in [Jobs -> RunState] /\ runner'[j] = s
      /\ \A i \in Jobs : i # j => runner'[i] = runner[i]
  BY RunMoved DEF ImportIInv
<1>2. ImportTypes'
  BY <1>1 DEF ImportIInv, ImportTypes
<1>3. /\ Len(clients) \in Nat /\ Len(clients') \in Nat /\ counter \in Nat /\ counter' \in Nat
      /\ \A r \in Refs : r \in Nat
  BY LenProperties DEF ImportIInv, ImportTypes, Refs
<1>4. \A i \in Jobs : RunHolds(runner'[i], Len(clients'), counter')
  <2>1. ASSUME NEW i \in Jobs, i # j PROVE RunHolds(runner[i], Len(clients'), counter')
    <3>1. runner[i] \in RunState /\ RunHolds(runner[i], Len(clients), counter)
      BY RunInHand
    <3>2. QED
      BY <1>3, <3>1, HoldsOn
  <2>2. QED
    BY <1>1, <2>1
<1>5. \A i \in Jobs : JobHolds(runner'[i], job'[i], cut'[i])
  BY <1>1, RunInHand
<1>6. CounterInv'
  BY <1>3 DEF ImportIInv, CounterInv, CounterAhead, InBase, ImportTypes
<1>7. QED
  BY <1>2, <1>4, <1>5, <1>6 DEF ImportIInv, RunsInv

----------------------------------------------------------------------------
(* The end of a row.                                                       *)

OutcomeSets == {{"erreurs"}, {"ignorees"}, {"dis"}, {"dis", "reactivees"}}
DoneState(s, outcomes) ==
    [s EXCEPT
        !.at = IF s.sync THEN (IF s.todo = {NextLine(s)} THEN "over" ELSE "row")
               ELSE IF s.todo = {NextLine(s)} \/ s.pos % BatchSize = 0 THEN "progress" ELSE "row",
        !.todo = s.todo \ {NextLine(s)}, !.pos = s.pos + 1, !.tier = NoTier, !.number = 0,
        !.revived = FALSE,
        !.count = [o \in Outcomes |-> IF o \in outcomes THEN s.count[o] + 1 ELSE s.count[o]]]

LEMMA NoTierTyped == NoTier \in Tiers
  BY DEF Tiers

LEMMA DoneFields ==
    ASSUME NEW s \in RunState, NEW outcomes \in OutcomeSets
    PROVE  \E state \in RunState :
              /\ state = DoneState(s, outcomes)
              /\ state.at = (IF s.sync THEN (IF s.todo = {NextLine(s)} THEN "over" ELSE "row")
                             ELSE IF s.todo = {NextLine(s)} \/ s.pos % BatchSize = 0
                                  THEN "progress" ELSE "row")
              /\ state.todo = s.todo \ {NextLine(s)} /\ state.pos = s.pos + 1
              /\ state.file = s.file /\ state.snap = s.snap /\ state.sync = s.sync
              /\ Counts(state) = Counts(s) + 1
              /\ Counts(s) \in Nat /\ s.pos \in Nat \ {0}
<1>1. /\ s.count \in [Outcomes -> Nat] /\ s.todo \in SUBSET Nat /\ s.pos \in Nat \ {0}
  BY DEF RunState
<1> PICK at \in {"over", "row", "progress"} :
       at = IF s.sync THEN (IF s.todo = {NextLine(s)} THEN "over" ELSE "row")
            ELSE IF s.todo = {NextLine(s)} \/ s.pos % BatchSize = 0 THEN "progress" ELSE "row"
  OBVIOUS
<1> PICK todo \in SUBSET Nat : todo = s.todo \ {NextLine(s)}
  BY <1>1
<1> PICK pos \in Nat \ {0} : pos = s.pos + 1
  BY <1>1
<1> PICK count \in [Outcomes -> Nat] :
       count = [o \in Outcomes |-> IF o \in outcomes THEN s.count[o] + 1 ELSE s.count[o]]
  <2> DEFINE count == [o \in Outcomes |-> IF o \in outcomes THEN s.count[o] + 1 ELSE s.count[o]]
  <2>1. count \in [Outcomes -> Nat]
    BY <1>1
  <2>2. QED
    BY <2>1
<1> DEFINE state == [s EXCEPT !.at = at, !.todo = todo, !.pos = pos, !.tier = NoTier, !.number = 0,
                              !.revived = FALSE, !.count = count]
<1>2. /\ state \in RunState /\ state.at = at /\ state.todo = todo /\ state.pos = pos
      /\ state.file = s.file /\ state.snap = s.snap /\ state.sync = s.sync /\ state.count = count
  BY NoTierTyped DEF RunState, RunSteps
<1>3. state = DoneState(s, outcomes)
  BY DEF DoneState
<1> HIDE DEF state
<1>4. Counts(state) = Counts(s) + 1 /\ Counts(s) \in Nat
  BY <1>1, <1>2 DEF Counts, Outcomes, OutcomeSets
<1>5. QED
  BY <1>1, <1>2, <1>3, <1>4

LEMMA DoneHolds ==
    ASSUME NEW s \in RunState, NEW n \in Nat, NEW c \in Nat, NEW doc \in JobDocument, NEW lost,
           NEW outcomes \in OutcomeSets,
           RunHolds(s, n, c), JobHolds(s, doc, lost), s.at \in RowSteps
    PROVE  /\ DoneState(s, outcomes) \in RunState
           /\ RunHolds(DoneState(s, outcomes), n, c)
           /\ JobHolds(DoneState(s, outcomes), doc, lost)
<1> PICK state \in RunState :
       /\ state = DoneState(s, outcomes)
       /\ state.at = (IF s.sync THEN (IF s.todo = {NextLine(s)} THEN "over" ELSE "row")
                      ELSE IF s.todo = {NextLine(s)} \/ s.pos % BatchSize = 0
                           THEN "progress" ELSE "row")
       /\ state.todo = s.todo \ {NextLine(s)} /\ state.pos = s.pos + 1
       /\ state.file = s.file /\ state.snap = s.snap /\ state.sync = s.sync
       /\ Counts(state) = Counts(s) + 1
       /\ Counts(s) \in Nat /\ s.pos \in Nat \ {0}
  BY DoneFields
<1>1. NextLine(s) \in s.todo /\ s.at # "over" /\ s.at # "idle"
  BY LineReached DEF RunHolds, RowSteps
<1>2. RunHolds(state, n, c)
  <2>1. state.at \in {"over", "row", "progress"}
    OBVIOUS
  <2>2. state.at \in RowSteps => state.todo # {}
    BY <1>1 DEF RowSteps
  <2>3. QED
    BY <2>1, <2>2 DEF RunHolds
<1>3. JobHolds(state, doc, lost)
  <2>1. CASE s.sync
    BY <1>1, <2>1 DEF JobHolds, RowSteps
  <2>2. CASE ~s.sync
    <3>1. /\ Tally(s, doc) /\ doc.done = (s.pos - 1) - ((s.pos - 1) % BatchSize)
          /\ doc.status # "COMPLETED"
      BY <1>1, <2>2 DEF JobHolds, InProgress, RowSteps
    <3>2. /\ Cardinality(s.todo) \in Nat /\ Cardinality(state.todo) = Cardinality(s.todo) - 1
      BY <1>1, TodoFinite, FS_RemoveElement
    <3>3. Tally(state, doc)
      BY <3>1, <3>2 DEF Tally
    <3>4. /\ state.at = "row" => doc.done = (state.pos - 1) - ((state.pos - 1) % BatchSize)
          /\ state.at = "progress" =>
                /\ state.pos > 1 /\ doc.done = (state.pos - 2) - ((state.pos - 2) % BatchSize)
                /\ state.todo = {} \/ (state.pos - 1) % BatchSize = 0
      <4> DEFINE k == s.pos - 1
      <4>1. k \in Nat /\ s.pos = k + 1 /\ state.pos - 1 = k + 1 /\ state.pos - 2 = k /\ state.pos > 1
        OBVIOUS
      <4>2. s.pos % BatchSize = (k + 1) % BatchSize
        BY <4>1
      <4> HIDE DEF k
      <4>3. /\ k % BatchSize \in 0..(BatchSize - 1) /\ BatchSize \in Nat \ {0}
            /\ (k + 1) % BatchSize = IF k % BatchSize = BatchSize - 1 THEN 0 ELSE (k % BatchSize) + 1
        BY <4>1, ImportBounds, NextRemainder
      <4>4. (k + 1) % BatchSize # 0 => k - (k % BatchSize) = (k + 1) - ((k + 1) % BatchSize)
        BY <4>1, <4>3, BatchGoesOn
      <4>5. doc.done = k - (k % BatchSize)
        BY <3>1 DEF k
      <4>6. state.at = "row" => (k + 1) % BatchSize # 0
        BY <2>2, <4>2, Zenon
      <4>7. state.at = "progress" => state.todo = {} \/ (k + 1) % BatchSize = 0
        BY <2>2, <4>2, Zenon
      <4>8. QED
        BY <4>1, <4>4, <4>5, <4>6, <4>7, Zenon
    <3>5. InProgress(state, doc)
      BY <2>2, <3>3, <3>4 DEF InProgress, RowSteps
    <3>6. QED
      BY <1>1, <2>2, <3>1, <3>5 DEF JobHolds, RowSteps
  <2>3. QED
    BY <2>1, <2>2
<1>4. QED
  BY <1>2, <1>3

\* A row is over, and nothing else moves.
LEMMA DoneInv ==
    ASSUME ImportIInv, NEW j \in Jobs, NEW outcomes \in OutcomeSets, runner[j].at \in RowSteps,
           Done(j, outcomes),
           UNCHANGED <<base, owner, counter, seeded, clients, companies, aliases, job, userOps,
                       drawn, entered, cut>>
    PROVE  ImportIInv'
<1> PICK s : s = DoneState(runner[j], outcomes)
  OBVIOUS
<1>1. /\ runner[j] \in RunState /\ RunHolds(runner[j], Len(clients), counter)
      /\ JobHolds(runner[j], job[j], cut[j]) /\ job[j] \in JobDocument
      /\ Len(clients) \in Nat /\ counter \in Nat /\ LineNo(j) = NextLine(runner[j])
  BY RunInHand
<1>2. Run(j, s)
  BY <1>1 DEF Done, DoneState
<1>3. s \in RunState /\ RunHolds(s, Len(clients), counter) /\ JobHolds(s, job[j], cut[j])
  BY <1>1, DoneHolds
<1>4. /\ clients \in Seq(Client) /\ Len(clients) <= MaxClients /\ counter \in 0..MaxRef
      /\ job \in [Jobs -> JobDocument] /\ cut \in [Jobs -> BOOLEAN]
      /\ base \in [Refs -> {"none", "active", "deleted"}] /\ owner \in [Refs -> Tiers]
      /\ aliases \in [Names -> Tiers] /\ entered \subseteq Refs
  BY DEF ImportIInv, ImportTypes
<1>5. QED
  BY <1>1, <1>2, <1>3, <1>4, RunGoesOn

----------------------------------------------------------------------------
(* The steps of the users.                                                 *)

LEMMA ImportFacts ==
    ASSUME ImportIInv
    PROVE  /\ base \in [Refs -> {"none", "active", "deleted"}] /\ owner \in [Refs -> Tiers]
           /\ counter \in 0..MaxRef /\ drawn \in 0..MaxRef /\ clients \in Seq(Client)
           /\ Len(clients) \in Nat /\ DOMAIN clients = 1..Len(clients) /\ Len(clients) <= MaxClients
           /\ companies \subseteq Names /\ aliases \in [Names -> Tiers]
           /\ job \in [Jobs -> JobDocument] /\ runner \in [Jobs -> RunState]
           /\ userOps \in 0..MaxUserOps /\ entered \subseteq Refs /\ cut \in [Jobs -> BOOLEAN]
           /\ MaxRef \in Nat \ {0} /\ MaxClients \in Nat \ {0} /\ MaxUserOps \in Nat
           /\ BatchSize \in Nat \ {0} /\ Refs = 1..MaxRef
  BY ImportBounds, LenProperties DEF ImportIInv, ImportTypes, Refs

LEMMA RunsStay ==
    ASSUME ImportIInv, UNCHANGED <<runner, job, cut>>, Len(clients') \in Nat, counter' \in Nat,
           Len(clients) <= Len(clients'), counter <= counter'
    PROVE  RunsInv'
<1>1. /\ Len(clients) \in Nat /\ counter \in Nat
  BY ImportFacts
<1>2. ASSUME NEW i \in Jobs PROVE RunHolds(runner'[i], Len(clients'), counter')
  <2>1. runner'[i] \in RunState /\ RunHolds(runner'[i], Len(clients), counter)
    BY RunInHand
  <2>2. QED
    BY <1>1, <2>1, HoldsOn
<1>3. ASSUME NEW i \in Jobs PROVE JobHolds(runner'[i], job'[i], cut'[i])
  BY RunInHand
<1>4. QED
  BY <1>2, <1>3 DEF RunsInv

LEMMA UserOpTyped == ASSUME ImportIInv, UserOp PROVE userOps' \in 0..MaxUserOps
  BY ImportFacts DEF UserOp

\* No reference of the base is beyond the number drawn first.
LEMMA SeedAhead ==
    ASSUME ImportIInv
    PROVE  Seed \in 0..MaxRef /\ counter <= Seed /\ \A r \in InBase : r <= Seed
<1>1. /\ counter \in 0..MaxRef /\ MaxRef \in Nat /\ InBase \in SUBSET (1..MaxRef)
  BY ImportFacts DEF InBase
<1>2. PICK top \in 0..MaxRef : top = MaxOf(InBase) /\ \A m \in InBase : m <= top
  BY <1>1, LastNumber
<1>3. Upto(counter, top) \in 0..MaxRef /\ counter <= Upto(counter, top) /\ top <= Upto(counter, top)
  BY <1>1 DEF Upto
<1>4. \A m \in InBase : m <= Upto(counter, top)
  BY <1>1, <1>2, <1>3
<1>5. CASE seeded
  BY <1>1, <1>5 DEF Seed, ImportIInv, CounterInv, CounterAhead
<1>6. CASE ~seeded
  BY <1>2, <1>3, <1>4, <1>6 DEF Seed
<1>7. QED
  BY <1>5, <1>6

LEMMA DrawRefInv == ASSUME ImportIInv, DrawRef PROVE ImportIInv'
<1>1. /\ Seed \in 0..MaxRef /\ counter <= Seed /\ \A r \in InBase : r <= Seed
  BY SeedAhead
<1>2. /\ Seed < MaxRef /\ counter' = Seed + 1 /\ drawn' = Seed + 1 /\ UserOp /\ seeded' = TRUE
      /\ UNCHANGED <<base, owner, clients, companies, aliases, job, runner, entered, cut>>
  BY DEF DrawRef
<1>3. /\ counter' \in 0..MaxRef /\ drawn' \in 0..MaxRef /\ counter <= counter' /\ counter' \in Nat
  BY <1>1, <1>2, ImportFacts
<1>4. ImportTypes'
  BY <1>2, <1>3, UserOpTyped, ImportFacts DEF ImportTypes
<1>5. RunsInv'
  BY <1>2, <1>3, ImportFacts, RunsStay
<1>6. CounterInv'
  <2>1. \A r \in InBase : r \in Nat
    BY ImportFacts DEF InBase
  <2>2. \A r \in InBase' : r <= counter'
    BY <1>1, <1>2, <2>1 DEF InBase
  <2>3. QED
    BY <1>2, <1>3, <2>2 DEF CounterInv, CounterAhead
<1>7. QED
  BY <1>4, <1>5, <1>6 DEF ImportIInv

LEMMA SaveDrawnInv == ASSUME ImportIInv, SaveDrawn PROVE ImportIInv'
<1>1. /\ drawn \in Refs /\ seeded /\ drawn <= counter /\ drawn' = 0
      /\ UNCHANGED <<counter, seeded, clients, companies, aliases, job, runner, userOps, cut>>
  BY ImportFacts DEF SaveDrawn, ImportIInv, CounterInv
<1>2. /\ base' \in [Refs -> {"none", "active", "deleted"}] /\ owner' \in [Refs -> Tiers]
      /\ entered' \subseteq Refs
      /\ \A r \in Refs : base'[r] # "none" => base[r] # "none" \/ r = drawn
  BY <1>1, NoTierTyped, ImportFacts DEF SaveDrawn, InBaseNow
<1>3. ImportTypes'
  BY <1>1, <1>2, ImportFacts DEF ImportTypes
<1>4. RunsInv'
  BY <1>1, ImportFacts, RunsStay
<1>5. CounterInv'
  <2>1. \A r \in InBase' : r \in InBase \/ r = drawn
    BY <1>2 DEF InBase
  <2>2. QED
    BY <1>1, <2>1 DEF ImportIInv, CounterInv, CounterAhead
<1>6. QED
  BY <1>3, <1>4, <1>5 DEF ImportIInv

LEMMA DeleteDiInv ==
    ASSUME ImportIInv, NEW ref \in Refs, DeleteDi(ref) PROVE ImportIInv'
<1>1. /\ base' = [base EXCEPT ![ref] = "deleted"] /\ base[ref] = "active" /\ UserOp
      /\ UNCHANGED <<owner, counter, seeded, clients, companies, aliases, job, runner, drawn,
                     entered, cut>>
  BY DEF DeleteDi
<1>2. base' \in [Refs -> {"none", "active", "deleted"}] /\ InBase' = InBase
  BY <1>1, ImportFacts DEF InBase
<1>3. ImportTypes'
  BY <1>1, <1>2, UserOpTyped, ImportFacts DEF ImportTypes
<1>4. RunsInv'
  BY <1>1, ImportFacts, RunsStay
<1>5. CounterInv'
  BY <1>1, <1>2 DEF ImportIInv, CounterInv, CounterAhead
<1>6. QED
  BY <1>3, <1>4, <1>5 DEF ImportIInv

LEMMA ClientRemoved ==
    ASSUME NEW all \in Seq(Client), NEW i \in DOMAIN all
    PROVE  /\ [all EXCEPT ![i].deleted = TRUE] \in Seq(Client)
           /\ Len([all EXCEPT ![i].deleted = TRUE]) = Len(all)
<1>1. all[i] \in Client
  BY ElementOfSeq, LenProperties
<1>2. PICK gone \in Client : gone = [all[i] EXCEPT !.deleted = TRUE]
  BY <1>1 DEF Client
<1>3. /\ [all EXCEPT ![i] = gone] \in Seq(Client) /\ Len([all EXCEPT ![i] = gone]) = Len(all)
  BY ExceptSeq, LenProperties
<1>4. QED
  BY <1>2, <1>3

LEMMA RemoveTierInv == ASSUME ImportIInv, RemoveTier PROVE ImportIInv'
<1>1. /\ UserOp /\ UNCHANGED <<base, owner, counter, seeded, aliases, job, runner, drawn,
                               entered, cut>>
  BY DEF RemoveTier
<1>2. clients' \in Seq(Client) /\ Len(clients') = Len(clients) /\ companies' \subseteq Names
  <2>1. CASE \E i \in DOMAIN clients :
                clients' = [clients EXCEPT ![i].deleted = TRUE] /\ UNCHANGED companies
    <3>1. PICK i \in DOMAIN clients : clients' = [clients EXCEPT ![i].deleted = TRUE]
      BY <2>1
    <3>2. clients \in Seq(Client)
      BY ImportFacts
    <3>3. /\ [clients EXCEPT ![i].deleted = TRUE] \in Seq(Client)
          /\ Len([clients EXCEPT ![i].deleted = TRUE]) = Len(clients)
      BY <3>2, ClientRemoved
    <3>4. QED
      BY <2>1, <3>1, <3>3, ImportFacts
  <2>2. CASE \E name \in companies : companies' = companies \ {name} /\ UNCHANGED clients
    BY <2>2, ImportFacts
  <2>3. QED
    BY <2>1, <2>2 DEF RemoveTier
<1>3. ImportTypes'
  BY <1>1, <1>2, UserOpTyped, ImportFacts DEF ImportTypes
<1>4. RunsInv'
  BY <1>1, <1>2, ImportFacts, RunsStay
<1>5. CounterInv'
  BY <1>1 DEF ImportIInv, CounterInv, CounterAhead, InBase
<1>6. QED
  BY <1>3, <1>4, <1>5 DEF ImportIInv

LEMMA RunAt ==
    ASSUME NEW s \in RunState, NEW at \in RunSteps
    PROVE  \E state \in RunState :
              /\ state = [s EXCEPT !.at = at] /\ state.at = at
              /\ state.sync = s.sync /\ state.file = s.file /\ state.todo = s.todo
              /\ state.pos = s.pos /\ state.tier = s.tier /\ state.number = s.number
              /\ state.revived = s.revived /\ state.snap = s.snap
              /\ state.decision = s.decision /\ state.count = s.count
              /\ NextLine(state) = NextLine(s) /\ RowAt(state) = RowAt(s)
              /\ Counts(state) = Counts(s)
<1> DEFINE state == [s EXCEPT !.at = at]
<1>1. state \in RunState /\ state.at = at
  BY DEF RunState
<1>2. /\ state.sync = s.sync /\ state.file = s.file /\ state.todo = s.todo
      /\ state.pos = s.pos /\ state.tier = s.tier /\ state.number = s.number
      /\ state.revived = s.revived /\ state.snap = s.snap
      /\ state.decision = s.decision /\ state.count = s.count
  BY DEF RunState
<1> HIDE DEF state
<1>3. /\ NextLine(state) = NextLine(s) /\ RowAt(state) = RowAt(s) /\ Counts(state) = Counts(s)
  BY <1>2 DEF NextLine, RowAt, Counts
<1>4. QED
  BY <1>1, <1>2, <1>3 DEF state

LEMMA RestartInv == ASSUME ImportIInv, Restart PROVE ImportIInv'
<1>1. /\ runner' = [j \in Jobs |-> IF runner[j].at = "idle" THEN runner[j]
                                   ELSE [runner[j] EXCEPT !.at = "over"]]
      /\ cut' = [j \in Jobs |-> cut[j] \/ runner[j].at \notin {"idle", "over"}]
      /\ seeded' = FALSE /\ drawn' = 0
      /\ UNCHANGED <<base, owner, counter, clients, companies, aliases, job, userOps, entered>>
  BY DEF Restart
<1>2. ASSUME NEW j \in Jobs
      PROVE  /\ runner'[j] \in RunState /\ RunHolds(runner'[j], Len(clients), counter)
             /\ JobHolds(runner'[j], job[j], cut'[j]) /\ cut'[j] \in BOOLEAN
  <2>1. /\ runner[j] \in RunState /\ RunHolds(runner[j], Len(clients), counter)
        /\ JobHolds(runner[j], job[j], cut[j]) /\ cut[j] \in BOOLEAN
    BY RunInHand
  <2>2. CASE runner[j].at = "idle"
    <3>1. runner'[j] = runner[j] /\ (cut'[j] <=> cut[j])
      BY <1>1, <2>2
    <3>2. cut'[j] \in BOOLEAN
      BY <1>1
    <3>3. QED
      BY <2>1, <2>2, <3>1, <3>2 DEF JobHolds, RowSteps
  <2>3. CASE runner[j].at # "idle"
    <3>1. PICK s \in RunState :
             /\ s = [runner[j] EXCEPT !.at = "over"] /\ s.at = "over"
             /\ s.sync = runner[j].sync /\ s.file = runner[j].file /\ s.todo = runner[j].todo
             /\ s.snap = runner[j].snap /\ Counts(s) = Counts(runner[j])
      <4>1. "over" \in RunSteps
        BY DEF RunSteps
      <4>2. QED
        BY <2>1, <4>1, RunAt
    <3>2. runner'[j] = s /\ (cut'[j] <=> cut[j] \/ runner[j].at # "over") /\ cut'[j] \in BOOLEAN
      BY <1>1, <2>3, <3>1
    <3>3. RunHolds(s, Len(clients), counter)
      BY <2>1, <3>1 DEF RunHolds, RowSteps
    <3>4. JobHolds(s, job[j], cut'[j])
      BY <2>1, <2>3, <3>1, <3>2 DEF JobHolds, InProgress, RowSteps
    <3>5. QED
      BY <3>1, <3>2, <3>3, <3>4
  <2>4. QED
    BY <2>2, <2>3
<1>3. runner' \in [Jobs -> RunState] /\ cut' \in [Jobs -> BOOLEAN]
  BY <1>1, <1>2
<1>4. ImportTypes'
  BY <1>1, <1>3, ImportFacts DEF ImportTypes
<1>5. RunsInv'
  BY <1>1, <1>2 DEF RunsInv
<1>6. CounterInv'
  BY <1>1 DEF CounterInv, CounterAhead
<1>7. QED
  BY <1>4, <1>5, <1>6 DEF ImportIInv

----------------------------------------------------------------------------
(* The document of a job.                                                  *)

LEMMA OnlyRun ==
    ASSUME ImportIInv, NEW j \in Jobs, NEW s \in RunState, Run(j, s),
           RunHolds(s, Len(clients), counter),
           job' \in [Jobs -> JobDocument], \A i \in Jobs : i # j => job'[i] = job[i],
           cut' \in [Jobs -> BOOLEAN], \A i \in Jobs : i # j => cut'[i] = cut[i],
           JobHolds(s, job'[j], cut'[j]),
           UNCHANGED <<base, owner, counter, seeded, clients, companies, aliases, userOps,
                       drawn, entered>>
    PROVE  ImportIInv'
<1>1. /\ clients' \in Seq(Client) /\ Len(clients) <= Len(clients') /\ Len(clients') <= MaxClients
      /\ counter' \in 0..MaxRef /\ counter <= counter'
      /\ base' \in [Refs -> {"none", "active", "deleted"}] /\ owner' \in [Refs -> Tiers]
      /\ aliases' \in [Names -> Tiers] /\ entered' \subseteq Refs
      /\ UNCHANGED <<companies, userOps, drawn, seeded>>
  BY ImportFacts
<1>2. RunHolds(s, Len(clients'), counter')
  OBVIOUS
<1>3. seeded => \A r \in Refs : base'[r] # "none" => base[r] # "none" \/ r <= counter'
  OBVIOUS
<1>4. QED
  BY <1>1, <1>2, <1>3, RunGoesOn

\* A run that goes to its failure, and one that is over.
LEMMA RunFails ==
    ASSUME ImportIInv, NEW j \in Jobs, runner[j].at \in {"start", "progress", "end"},
           Run(j, [runner[j] EXCEPT !.at = "fail"]),
           UNCHANGED <<base, owner, counter, seeded, clients, companies, aliases, job, userOps,
                       drawn, entered, cut>>
    PROVE  ImportIInv'
<1>1. /\ runner[j] \in RunState /\ RunHolds(runner[j], Len(clients), counter)
      /\ JobHolds(runner[j], job[j], cut[j])
  BY RunInHand
<1>2. PICK s \in RunState :
         /\ s = [runner[j] EXCEPT !.at = "fail"] /\ s.at = "fail"
         /\ s.sync = runner[j].sync /\ s.file = runner[j].file /\ s.todo = runner[j].todo
         /\ s.snap = runner[j].snap /\ Counts(s) = Counts(runner[j])
  <2>1. "fail" \in RunSteps
    BY DEF RunSteps
  <2>2. QED
    BY <1>1, <2>1, RunAt
<1>3. RunHolds(s, Len(clients), counter)
  BY <1>1, <1>2 DEF RunHolds, RowSteps
<1>4. JobHolds(s, job'[j], cut'[j])
  BY <1>1, <1>2 DEF JobHolds, InProgress, RowSteps
<1>5. job' \in [Jobs -> JobDocument] /\ cut' \in [Jobs -> BOOLEAN]
  BY ImportFacts
<1>6. Run(j, s)
  BY <1>2
<1>7. QED
  BY <1>3, <1>4, <1>5, <1>6, OnlyRun

LEMMA MarkRunningInv == ASSUME ImportIInv, NEW j \in Jobs, MarkRunning(j) PROVE ImportIInv'
<1>1. /\ runner[j].at = "start"
      /\ UNCHANGED <<base, owner, counter, seeded, clients, companies, aliases, userOps, drawn,
                     entered, cut>>
      /\ Document(j, "RUNNING", IF runner[j].todo = {} THEN "end" ELSE "row")
  BY DEF MarkRunning
<1>2. CASE Run(j, [runner[j] EXCEPT !.at = "fail"]) /\ UNCHANGED job
  BY <1>1, <1>2, RunFails
<1>3. CASE /\ job' = [job EXCEPT ![j].status = "RUNNING"]
           /\ Run(j, [runner[j] EXCEPT !.at = IF runner[j].todo = {} THEN "end" ELSE "row"])
  <2>1. /\ runner[j] \in RunState /\ RunHolds(runner[j], Len(clients), counter)
        /\ JobHolds(runner[j], job[j], cut[j]) /\ job[j] \in JobDocument
    BY RunInHand
  <2>2. PICK next \in RunSteps : next = IF runner[j].todo = {} THEN "end" ELSE "row"
    BY DEF RunSteps
  <2>3. PICK s \in RunState :
           /\ s = [runner[j] EXCEPT !.at = next] /\ s.at = next
           /\ s.sync = runner[j].sync /\ s.file = runner[j].file /\ s.todo = runner[j].todo
           /\ s.pos = runner[j].pos /\ s.snap = runner[j].snap /\ Counts(s) = Counts(runner[j])
    BY <2>1, RunAt
  <2>4. RunHolds(s, Len(clients), counter)
    BY <2>1, <2>2, <2>3 DEF RunHolds, RowSteps
  <2>5. /\ job' \in [Jobs -> JobDocument] /\ \A i \in Jobs : i # j => job'[i] = job[i]
        /\ job'[j].status = "RUNNING" /\ job'[j].total = job[j].total
        /\ job'[j].done = job[j].done
    BY <1>3, ImportFacts DEF JobDocument, JobStatus
  <2>6. ~s.sync /\ Tally(s, job'[j]) /\ s.pos = 1 /\ job'[j].done = 0
    BY <1>1, <2>1, <2>3, <2>5 DEF JobHolds, InProgress, RowSteps, Tally
  <2>7. (s.pos - 1) % BatchSize = 0
    BY <2>6, ImportFacts
  <2>8. JobHolds(s, job'[j], cut'[j])
    <3>1. s.at = "row" \/ (s.at = "end" /\ s.todo = {})
      BY <2>2, <2>3
    <3>2. InProgress(s, job'[j])
      BY <2>6, <2>7, <3>1 DEF InProgress, RowSteps
    <3>3. QED
      BY <2>5, <2>6, <3>1, <3>2 DEF JobHolds, RowSteps
  <2>9. cut' \in [Jobs -> BOOLEAN] /\ Run(j, s)
    BY <1>1, <1>3, <2>2, <2>3, ImportFacts
  <2>10. QED
    BY <1>1, <2>4, <2>5, <2>8, <2>9, OnlyRun
<1>4. QED
  BY <1>1, <1>2, <1>3 DEF Document, JobUnchanged

LEMMA CompleteInv == ASSUME ImportIInv, NEW j \in Jobs, Complete(j) PROVE ImportIInv'
<1>1. /\ runner[j].at = "end"
      /\ UNCHANGED <<base, owner, counter, seeded, clients, companies, aliases, userOps, drawn,
                     entered, cut>>
      /\ Document(j, "COMPLETED", "over")
  BY DEF Complete
<1>2. CASE Run(j, [runner[j] EXCEPT !.at = "fail"]) /\ UNCHANGED job
  BY <1>1, <1>2, RunFails
<1>3. CASE /\ job' = [job EXCEPT ![j].status = "COMPLETED"]
           /\ Run(j, [runner[j] EXCEPT !.at = "over"])
  <2>1. /\ runner[j] \in RunState /\ RunHolds(runner[j], Len(clients), counter)
        /\ JobHolds(runner[j], job[j], cut[j]) /\ job[j] \in JobDocument
    BY RunInHand
  <2>2. PICK s \in RunState :
           /\ s = [runner[j] EXCEPT !.at = "over"] /\ s.at = "over"
           /\ s.sync = runner[j].sync /\ s.file = runner[j].file /\ s.todo = runner[j].todo
           /\ s.snap = runner[j].snap /\ Counts(s) = Counts(runner[j])
    <3>1. "over" \in RunSteps
      BY DEF RunSteps
    <3>2. QED
      BY <2>1, <3>1, RunAt
  <2>3. RunHolds(s, Len(clients), counter)
    BY <2>1, <2>2 DEF RunHolds, RowSteps
  <2>4. /\ job' \in [Jobs -> JobDocument] /\ \A i \in Jobs : i # j => job'[i] = job[i]
        /\ job'[j].status = "COMPLETED" /\ job'[j].total = job[j].total
        /\ job'[j].done = job[j].done
    BY <1>3, ImportFacts DEF JobDocument, JobStatus
  <2>5. /\ ~runner[j].sync /\ runner[j].todo = {} /\ job[j].done = runner[j].pos - 1
        /\ Tally(runner[j], job[j])
    BY <1>1, <2>1 DEF JobHolds, InProgress, RowSteps
  <2>6. Counts(runner[j]) = job[j].total /\ job[j].done = job[j].total
    <3>1. Cardinality(runner[j].todo) = 0 /\ runner[j].pos \in Nat
      BY <2>1, <2>5, FS_EmptySet DEF RunState
    <3>2. QED
      BY <2>5, <3>1 DEF Tally
  <2>7. JobHolds(s, job'[j], cut'[j])
    BY <2>2, <2>4, <2>5, <2>6 DEF JobHolds, InProgress, RowSteps
  <2>8. cut' \in [Jobs -> BOOLEAN] /\ Run(j, s)
    BY <1>1, <1>3, <2>2, ImportFacts
  <2>9. QED
    BY <1>1, <2>3, <2>4, <2>7, <2>8, OnlyRun
<1>4. QED
  BY <1>1, <1>2, <1>3 DEF Document, JobUnchanged

LEMMA FailJobInv == ASSUME ImportIInv, NEW j \in Jobs, FailJob(j) PROVE ImportIInv'
<1>1. /\ runner[j].at = "fail" /\ Run(j, [runner[j] EXCEPT !.at = "over"])
      /\ UNCHANGED <<base, owner, counter, seeded, clients, companies, aliases, userOps, drawn,
                     entered>>
      /\ \/ job' = [job EXCEPT ![j].status = "FAILED"] /\ UNCHANGED cut
         \/ UNCHANGED job /\ cut' = [cut EXCEPT ![j] = TRUE]
  BY DEF FailJob, Fail, JobUnchanged
<1>2. /\ runner[j] \in RunState /\ RunHolds(runner[j], Len(clients), counter)
      /\ JobHolds(runner[j], job[j], cut[j]) /\ job[j] \in JobDocument
  BY RunInHand
<1>3. PICK s \in RunState :
         /\ s = [runner[j] EXCEPT !.at = "over"] /\ s.at = "over"
         /\ s.sync = runner[j].sync /\ s.file = runner[j].file /\ s.todo = runner[j].todo
         /\ s.snap = runner[j].snap /\ Counts(s) = Counts(runner[j])
  <2>1. "over" \in RunSteps
    BY DEF RunSteps
  <2>2. QED
    BY <1>2, <2>1, RunAt
<1>4. RunHolds(s, Len(clients), counter)
  BY <1>2, <1>3 DEF RunHolds, RowSteps
<1>5. /\ job' \in [Jobs -> JobDocument] /\ \A i \in Jobs : i # j => job'[i] = job[i]
      /\ cut' \in [Jobs -> BOOLEAN] /\ \A i \in Jobs : i # j => cut'[i] = cut[i]
      /\ job'[j].status = "FAILED" \/ (job'[j] = job[j] /\ cut'[j])
  <2>1. job \in [Jobs -> JobDocument] /\ cut \in [Jobs -> BOOLEAN]
    BY ImportFacts
  <2>2. CASE job' = [job EXCEPT ![j].status = "FAILED"] /\ UNCHANGED cut
    BY <2>1, <2>2 DEF JobDocument, JobStatus
  <2>3. CASE UNCHANGED job /\ cut' = [cut EXCEPT ![j] = TRUE]
    BY <2>1, <2>3
  <2>4. QED
    BY <1>1, <2>2, <2>3
<1>6. ~s.sync /\ job[j].status # "COMPLETED"
  BY <1>1, <1>2, <1>3 DEF JobHolds, RowSteps
<1>7. JobHolds(s, job'[j], cut'[j])
  BY <1>3, <1>5, <1>6 DEF JobHolds, InProgress, RowSteps
<1>8. Run(j, s)
  BY <1>1, <1>3
<1>9. QED
  BY <1>1, <1>4, <1>5, <1>7, <1>8, OnlyRun

LEMMA IncrementProgressInv ==
    ASSUME ImportIInv, NEW j \in Jobs, IncrementProgress(j) PROVE ImportIInv'
<1>1. /\ runner[j].at = "progress"
      /\ UNCHANGED <<base, owner, counter, seeded, clients, companies, aliases, userOps, drawn,
                     entered, cut>>
      /\ \/ /\ job' = [job EXCEPT ![j].done = @ + BatchLength(j)]
            /\ Run(j, [runner[j] EXCEPT !.at = IF runner[j].todo = {} THEN "end" ELSE "row"])
         \/ Run(j, [runner[j] EXCEPT !.at = "fail"]) /\ UNCHANGED job
  BY DEF IncrementProgress, JobUnchanged
<1>2. CASE Run(j, [runner[j] EXCEPT !.at = "fail"]) /\ UNCHANGED job
  BY <1>1, <1>2, RunFails
<1>3. CASE /\ job' = [job EXCEPT ![j].done = @ + BatchLength(j)]
           /\ Run(j, [runner[j] EXCEPT !.at = IF runner[j].todo = {} THEN "end" ELSE "row"])
  <2>1. /\ runner[j] \in RunState /\ RunHolds(runner[j], Len(clients), counter)
        /\ JobHolds(runner[j], job[j], cut[j]) /\ job[j] \in JobDocument
    BY RunInHand
  <2>2. PICK next \in RunSteps : next = IF runner[j].todo = {} THEN "end" ELSE "row"
    BY DEF RunSteps
  <2>3. PICK s \in RunState :
           /\ s = [runner[j] EXCEPT !.at = next] /\ s.at = next
           /\ s.sync = runner[j].sync /\ s.file = runner[j].file /\ s.todo = runner[j].todo
           /\ s.pos = runner[j].pos /\ s.snap = runner[j].snap /\ Counts(s) = Counts(runner[j])
    BY <2>1, RunAt
  <2>4. RunHolds(s, Len(clients), counter)
    BY <2>1, <2>2, <2>3 DEF RunHolds, RowSteps
  <2>5. /\ ~s.sync /\ Tally(s, job[j]) /\ s.pos > 1 /\ job[j].status # "COMPLETED"
        /\ job[j].done = (s.pos - 2) - ((s.pos - 2) % BatchSize)
        /\ s.todo = {} \/ (s.pos - 1) % BatchSize = 0
    <3>1. ~runner[j].sync /\ InProgress(runner[j], job[j]) /\ job[j].status # "COMPLETED"
      BY <1>1, <2>1 DEF JobHolds, RowSteps
    <3>2. /\ Tally(runner[j], job[j]) /\ runner[j].pos > 1
          /\ job[j].done = (runner[j].pos - 2) - ((runner[j].pos - 2) % BatchSize)
          /\ runner[j].todo = {} \/ (runner[j].pos - 1) % BatchSize = 0
      BY <1>1, <3>1, Zenon DEF InProgress
    <3>3. Tally(s, job[j])
      BY <2>3, <3>2, Zenon DEF Tally
    <3>4. QED
      BY <2>3, <3>1, <3>2, <3>3, Zenon
  <2>6. s.pos \in Nat \ {0} /\ job[j].done \in Nat
    BY <2>1 DEF RunState, JobDocument
  <2>7. BatchLength(j) \in Nat /\ job[j].done + BatchLength(j) = s.pos - 1
    <3> DEFINE k == s.pos - 2
    <3>1. k \in Nat /\ s.pos - 1 = k + 1
      BY <2>5, <2>6
    <3>2. job[j].done = k - (k % BatchSize)
      BY <2>5
    <3>3. BatchLength(j) = IF (k + 1) % BatchSize = 0 THEN BatchSize ELSE (k + 1) % BatchSize
      BY <2>3, <3>1 DEF BatchLength
    <3> HIDE DEF k
    <3>4. /\ BatchLength(j) \in Nat
          /\ (k - (k % BatchSize)) + BatchLength(j) = k + 1
      BY <3>1, <3>3, ImportFacts, BatchClosed
    <3>5. QED
      BY <3>1, <3>2, <3>4
  <2>8. /\ job' \in [Jobs -> JobDocument] /\ \A i \in Jobs : i # j => job'[i] = job[i]
        /\ job'[j].status = job[j].status /\ job'[j].total = job[j].total
        /\ job'[j].done = s.pos - 1
    <3>1. PICK done \in Nat : done = job[j].done + BatchLength(j)
      BY <2>6, <2>7
    <3>2. job' = [job EXCEPT ![j] = [job[j] EXCEPT !.done = done]]
      BY <1>3, <3>1, ImportFacts
    <3>3. /\ [job[j] EXCEPT !.done = done] \in JobDocument
          /\ [job[j] EXCEPT !.done = done].status = job[j].status
          /\ [job[j] EXCEPT !.done = done].total = job[j].total
          /\ [job[j] EXCEPT !.done = done].done = done
      BY <2>1 DEF JobDocument
    <3>4. QED
      BY <2>7, <3>1, <3>2, <3>3, ImportFacts
  <2>9. Tally(s, job'[j])
    BY <2>5, <2>8 DEF Tally
  <2>10. s.at = "row" => job'[j].done = (s.pos - 1) - ((s.pos - 1) % BatchSize)
    <3>1. s.at = "row" => (s.pos - 1) % BatchSize = 0
      BY <2>2, <2>3, <2>5
    <3>2. (s.pos - 1) - 0 = s.pos - 1
      BY <2>6
    <3>3. QED
      BY <2>8, <3>1, <3>2
  <2>11. JobHolds(s, job'[j], cut'[j])
    <3>1. s.at = "row" \/ (s.at = "end" /\ s.todo = {})
      BY <2>2, <2>3
    <3>2. InProgress(s, job'[j])
      BY <2>8, <2>9, <2>10, <3>1, Zenon DEF InProgress, RowSteps
    <3>3. QED
      BY <2>5, <2>8, <3>1, <3>2 DEF JobHolds, RowSteps
  <2>12. cut' \in [Jobs -> BOOLEAN] /\ Run(j, s)
    BY <1>1, <1>3, <2>2, <2>3, ImportFacts
  <2>13. QED
    BY <1>1, <2>4, <2>8, <2>11, <2>12, OnlyRun
<1>4. QED
  BY <1>1, <1>2, <1>3

----------------------------------------------------------------------------
(* The start of a run.                                                     *)

LEMMA FirstClientThere ==
    ASSUME ImportIInv, NEW name \in Names
    PROVE  /\ FirstClient(name) \in 0..Len(clients)
           /\ FirstClient(name) # 0 =>
                 FirstClient(name) \in ClientIds /\ clients[FirstClient(name)].name = name
           /\ FirstClient(name) = 0 => \A i \in ClientIds : clients[i].name # name
<1> DEFINE same == {i \in ClientIds : clients[i].name = name}
<1>1. ClientIds \subseteq 1..Len(clients) /\ Len(clients) \in Nat
  BY ImportFacts DEF ClientIds
<1>2. CASE same = {}
  <2>1. FirstClient(name) = 0
    BY <1>2 DEF FirstClient
  <2>2. QED
    BY <1>1, <1>2, <2>1
<1>3. CASE same # {}
  <2>1. same \in SUBSET Nat
    <3>1. same \subseteq ClientIds /\ 1..Len(clients) \subseteq Nat
      BY <1>1
    <3>2. QED
      BY <1>1, <3>1, Zenon
  <2>2. \E i \in same : \A k \in same : i <= k
    BY <1>3, <2>1, FirstRow
  <2>3. FirstClient(name) = CHOOSE i \in same : \A k \in same : i <= k
    BY <1>3, Zenon DEF FirstClient
  <2>4. FirstClient(name) \in same
    BY <2>2, <2>3, Zenon
  <2>5. FirstClient(name) \in ClientIds /\ clients[FirstClient(name)].name = name
    BY <2>4, Zenon
  <2>6. FirstClient(name) \in 0..Len(clients) /\ FirstClient(name) # 0
    <3>1. FirstClient(name) \in 1..Len(clients)
      BY <1>1, <2>5, Zenon
    <3>2. \A n \in 1..Len(clients) : n \in 0..Len(clients) /\ n # 0
      BY <1>1
    <3>3. QED
      BY <3>1, <3>2, Zenon
  <2>7. QED
    BY <2>5, <2>6
<1>4. QED
  BY <1>2, <1>3

LEMMA SnapshotTyped ==
    ASSUME ImportIInv
    PROVE  /\ Snapshot \in Seen
           /\ \A name \in Names : Snapshot.client[name] \in 0..Len(clients)
           /\ Snapshot.clientIds \subseteq 1..Len(clients)
<1>1. ClientIds \subseteq 1..Len(clients) /\ Len(clients) \in Nat
  BY ImportFacts DEF ClientIds
<1>2. PICK first \in [Names -> 0..Len(clients)] : first = [n \in Names |-> FirstClient(n)]
  BY FirstClientThere
<1>3. companies \in SUBSET Names /\ aliases \in [Names -> Tiers]
  BY ImportFacts
<1>4. ClientIds \in SUBSET Nat /\ first \in [Names -> Nat]
  BY <1>1
<1>5. Snapshot = [refs |-> {r \in Refs : base[r] = "active"},
                  deletedRefs |-> {r \in Refs : base[r] = "deleted"},
                  client |-> first, companies |-> companies, clientIds |-> ClientIds,
                  alias |-> aliases]
  BY <1>2 DEF Snapshot
<1>6. QED
  BY <1>1, <1>2, <1>3, <1>4, <1>5 DEF Seen

LEMMA IdleRunTyped == IdleRun \in RunState /\ IdleRun.pos = 1 /\ Counts(IdleRun) = 0
<1>1. PICK count \in [Outcomes -> Nat] : count = [o \in Outcomes |-> 0]
  OBVIOUS
<1>2. PICK first \in [Names -> Nat] : first = [n \in Names |-> 0]
  OBVIOUS
<1>3. PICK alias \in [Names -> Tiers] : alias = [n \in Names |-> NoTier]
  BY NoTierTyped
<1>4. NoSnapshot \in Seen
  BY <1>2, <1>3 DEF NoSnapshot, Seen
<1>5. IdleRun = [at |-> "idle", sync |-> FALSE, file |-> <<>>, todo |-> {}, pos |-> 1,
                 tier |-> NoTier, number |-> 0, revived |-> FALSE, snap |-> NoSnapshot,
                 decision |-> "none", count |-> count]
  BY <1>1, Zenon DEF IdleRun
<1>6. <<>> \in Seq(ParsedRow) /\ "idle" \in RunSteps /\ "none" \in Decisions /\ 1 \in Nat \ {0}
  BY EmptySeq DEF RunSteps, Decisions
<1>7. IdleRun \in RunState /\ IdleRun.pos = 1 /\ IdleRun.count = count
  BY <1>4, <1>5, <1>6, NoTierTyped DEF RunState
<1>8. count["dis"] = 0 /\ count["ignorees"] = 0 /\ count["erreurs"] = 0
  BY <1>1 DEF Outcomes
<1>9. QED
  BY <1>7, <1>8 DEF Counts

Started(at, sync, file, todo, snap, decision) ==
    [IdleRun EXCEPT !.at = at, !.sync = sync, !.file = file, !.todo = todo, !.snap = snap,
                    !.decision = decision]

LEMMA RunStarts ==
    ASSUME NEW at \in RunSteps, NEW sync \in BOOLEAN, NEW file \in Seq(ParsedRow),
           NEW todo \in SUBSET Nat, NEW snap \in Seen, NEW decision \in Decisions
    PROVE  \E s \in RunState :
              /\ s = Started(at, sync, file, todo, snap, decision)
              /\ s.at = at /\ (s.sync <=> sync) /\ s.file = file /\ s.todo = todo /\ s.pos = 1
              /\ s.snap = snap /\ Counts(s) = 0
<1>1. IdleRun \in RunState /\ IdleRun.pos = 1 /\ Counts(IdleRun) = 0
  BY IdleRunTyped
<1> DEFINE s == Started(at, sync, file, todo, snap, decision)
<1>2. /\ s \in RunState /\ s.at = at /\ (s.sync <=> sync) /\ s.file = file /\ s.todo = todo
      /\ s.pos = IdleRun.pos /\ s.snap = snap /\ s.count = IdleRun.count
  BY <1>1 DEF RunState, Started
<1> HIDE DEF s
<1>3. Counts(s) = Counts(IdleRun)
  BY <1>2, Zenon DEF Counts
<1>4. QED
  BY <1>1, <1>2, <1>3 DEF s

LEMMA StartImportInv ==
    ASSUME ImportIInv, NEW j \in Jobs, NEW file \in Files, NEW decision \in Decisions,
           NEW sync \in BOOLEAN, StartImport(j, file, decision, sync)
    PROVE  ImportIInv'
<1> PICK rows : rows = RowsKept(file, Snapshot, decision)
  OBVIOUS
<1>1. /\ runner[j].at = "idle"
      /\ Run(j, [IdleRun EXCEPT !.at = IF ~sync THEN "start"
                                        ELSE IF rows = {} THEN "over" ELSE "row",
                                 !.sync = sync, !.file = file, !.todo = rows,
                                 !.snap = Snapshot, !.decision = decision])
      /\ IF sync THEN job' = job
         ELSE job' = [job EXCEPT ![j] = [status |-> "PENDING", total |-> Cardinality(rows),
                                         done |-> 0]]
      /\ UNCHANGED <<base, owner, counter, seeded, clients, companies, aliases, userOps, drawn,
                     entered, cut>>
  BY DEF StartImport, JobUnchanged
<1>2. /\ file \in Seq(ParsedRow) /\ Len(file) \in Nat /\ DOMAIN file = 1..Len(file)
  BY ImportBounds, LenProperties
<1>3. /\ rows \in SUBSET Nat /\ IsFiniteSet(rows) /\ Cardinality(rows) \in Nat
      /\ \A k \in rows : k \in 1..Len(file) /\ file[k].ref \in Refs
  <2>1. rows \subseteq 1..Len(file)
    BY <1>2 DEF RowsKept
  <2>2. IsFiniteSet(rows) /\ Cardinality(rows) \in Nat
    <3>1. IsFiniteSet(1..Len(file))
      BY <1>2, FS_Interval
    <3>2. IsFiniteSet(rows)
      BY <2>1, <3>1, FS_Subset
    <3>3. QED
      BY <3>2, FS_CardinalityType
  <2>3. ASSUME NEW k \in rows PROVE file[k].ref \in Refs
    <3>1. file[k] \in ParsedRow
      BY <1>2, <2>1, ElementOfSeq
    <3>2. file[k].ref # Missing
      BY DEF RowsKept, RowValid
    <3>3. QED
      BY <3>1, <3>2 DEF ParsedRow
  <2>4. QED
    BY <1>2, <2>1, <2>2, <2>3
<1>4. /\ Snapshot \in Seen /\ \A name \in Names : Snapshot.client[name] \in 0..Len(clients)
      /\ Snapshot.clientIds \subseteq 1..Len(clients)
  BY SnapshotTyped
<1>5. PICK at \in RunSteps :
         at = IF ~sync THEN "start" ELSE IF rows = {} THEN "over" ELSE "row"
  BY DEF RunSteps
<1>6. PICK s \in RunState :
         /\ s = Started(at, sync, file, rows, Snapshot, decision)
         /\ s.at = at /\ (s.sync <=> sync) /\ s.file = file /\ s.todo = rows /\ s.pos = 1
         /\ s.snap = Snapshot /\ Counts(s) = 0
  <2>1. file \in Seq(ParsedRow)
    BY <1>2
  <2>2. rows \in SUBSET Nat
    BY <1>3
  <2>3. Snapshot \in Seen
    BY <1>4
  <2>4. QED
    BY <1>5, <2>1, <2>2, <2>3, RunStarts
<1>7. Run(j, s)
  BY <1>1, <1>5, <1>6 DEF Started
<1>8. RunHolds(s, Len(clients), counter)
  BY <1>3, <1>4, <1>5, <1>6 DEF RunHolds, RowSteps
<1>9. JobHolds(runner[j], job[j], cut[j]) /\ job[j] \in JobDocument
  BY RunInHand
<1>10. job[j].status = "none"
  BY <1>1, <1>9 DEF JobHolds
<1>11. /\ job' \in [Jobs -> JobDocument] /\ \A i \in Jobs : i # j => job'[i] = job[i]
       /\ sync => job'[j] = job[j]
       /\ ~sync => job'[j].status = "PENDING" /\ job'[j].total = Cardinality(rows)
                   /\ job'[j].done = 0
  <2>1. [status |-> "PENDING", total |-> Cardinality(rows), done |-> 0] \in JobDocument
    BY <1>3 DEF JobDocument, JobStatus
  <2>2. CASE sync
    BY <1>1, <2>2, ImportFacts
  <2>3. CASE ~sync
    <3>1. job' = [job EXCEPT ![j] = [status |-> "PENDING", total |-> Cardinality(rows),
                                     done |-> 0]]
      BY <1>1, <2>3
    <3>2. job \in [Jobs -> JobDocument]
      BY ImportFacts
    <3>3. QED
      BY <2>1, <2>3, <3>1, <3>2
  <2>4. QED
    BY <2>2, <2>3
<1>12. JobHolds(s, job'[j], cut'[j])
  <2>1. CASE sync
    BY <1>5, <1>6, <1>10, <1>11, <2>1 DEF JobHolds, RowSteps
  <2>2. CASE ~sync
    <3>1. Tally(s, job'[j])
      BY <1>3, <1>6, <1>11, <2>2 DEF Tally
    <3>2. InProgress(s, job'[j])
      BY <1>5, <1>6, <1>11, <2>2, <3>1 DEF InProgress, RowSteps
    <3>3. QED
      BY <1>5, <1>6, <1>11, <2>2, <3>2 DEF JobHolds, RowSteps
  <2>3. QED
    BY <2>1, <2>2
<1>13. cut' \in [Jobs -> BOOLEAN]
  BY <1>1, ImportFacts
<1>14. QED
  BY <1>1, <1>7, <1>8, <1>11, <1>12, <1>13, OnlyRun

----------------------------------------------------------------------------
(* One row.                                                                *)

LEMMA SameRow ==
    ASSUME NEW s \in RunState, NEW state \in RunState, NEW doc, NEW lost,
           s.at \in RowSteps, state.at \in RowSteps, state.sync = s.sync,
           state.pos = s.pos, state.todo = s.todo, state.count = s.count, JobHolds(s, doc, lost)
    PROVE  JobHolds(state, doc, lost)
<1>1. Counts(state) = Counts(s) /\ (Tally(state, doc) <=> Tally(s, doc))
  BY Zenon DEF Counts, Tally
<1>2. s.at \notin {"idle", "over", "start", "progress", "end"}
      /\ state.at \notin {"idle", "over", "start", "progress", "end"}
  BY DEF RowSteps
<1>3. InProgress(s, doc) => InProgress(state, doc)
  BY <1>1, <1>2 DEF InProgress
<1>4. QED
  BY <1>1, <1>2, <1>3 DEF JobHolds

\* The tier of a row is one its snapshot knows; with none, no client of its name is known.
LEMMA AttachedKnown ==
    ASSUME ImportIInv, NEW j \in Jobs, runner[j].at \in RowSteps
    PROVE  /\ Attached(j) \in Tiers
           /\ Attached(j) = NoTier => runner[j].snap.client[Row(j).name] = 0
           /\ Attached(j) # NoTier => Known(Attached(j), Len(clients), runner[j].snap)
<1>1. /\ runner[j] \in RunState /\ RunHolds(runner[j], Len(clients), counter)
      /\ Row(j).name \in Names /\ Len(clients) \in Nat
  BY RunInHand, RowReachedBy
<1> PICK snap \in Seen : snap = runner[j].snap
  BY <1>1 DEF RunState
<1> PICK name \in Names : name = Row(j).name
  BY <1>1
<1> PICK n \in Nat : n = Len(clients) /\ n <= MaxClients
  BY ImportFacts
<1>2. /\ snap.client[name] \in 0..n /\ snap.clientIds \subseteq 1..n
      /\ snap.companies \subseteq Names /\ snap.alias[name] \in Tiers
  BY <1>1 DEF RunHolds, Seen
<1>3. \A i \in 1..n : ClientTier(i) \in Tiers /\ ClientTier(i) # NoTier /\ Known(ClientTier(i), n, snap)
  BY ImportFacts DEF Tiers, ClientTier, NoTier, Known
<1>4. ASSUME NEW c \in snap.companies
      PROVE  CompanyTier(c) \in Tiers /\ CompanyTier(c) # NoTier /\ Known(CompanyTier(c), n, snap)
  BY <1>2 DEF Tiers, CompanyTier, NoTier, Known
<1>5. \A i : ClientTier(i)[1] = "client" /\ CompanyTier(i)[1] = "company" /\ <<"both", i>>[1] = "both"
  BY DEF ClientTier, CompanyTier
<1>6. NoTier[1] = "none" /\ \A tier \in Tiers : tier[1] # "both"
  BY DEF NoTier, Tiers, ClientTier, CompanyTier
<1>7. AliasValid(snap.alias[name], snap) =>
         snap.alias[name] # NoTier /\ Known(snap.alias[name], n, snap)
  BY <1>2, <1>6 DEF AliasValid, Known
<1>8. Attached(j) =
         IF ResolveTier(name, snap)[1] # "both" THEN ResolveTier(name, snap)
         ELSE IF runner[j].decision = "company" THEN CompanyTier(name)
         ELSE ClientTier(snap.client[name])
  BY DEF Attached
<1>9. CASE MatchTier(name, snap)[1] # "both" /\ AliasValid(snap.alias[name], snap)
  <2>1. ResolveTier(name, snap) = snap.alias[name]
    BY <1>9, Zenon DEF ResolveTier
  <2>2. Attached(j) = snap.alias[name]
    BY <1>2, <1>6, <1>8, <2>1
  <2>3. QED
    BY <1>2, <1>7, <1>9, <2>2
<1>10. CASE ~(MatchTier(name, snap)[1] # "both" /\ AliasValid(snap.alias[name], snap))
  <2>1. ResolveTier(name, snap) = MatchTier(name, snap)
    BY <1>10, Zenon DEF ResolveTier
  <2>2. CASE name \in snap.companies /\ snap.client[name] # 0
    <3>1. MatchTier(name, snap)[1] = "both" /\ snap.client[name] \in 1..n
      BY <1>2, <2>2 DEF MatchTier
    <3>2. Attached(j) = CompanyTier(name) \/ Attached(j) = ClientTier(snap.client[name])
      BY <1>8, <2>1, <3>1
    <3>3. QED
      BY <1>3, <1>4, <2>2, <3>1, <3>2
  <2>3. CASE name \in snap.companies /\ snap.client[name] = 0
    <3>1. MatchTier(name, snap) = CompanyTier(name)
      BY <2>3 DEF MatchTier
    <3>2. Attached(j) = CompanyTier(name)
      BY <1>5, <1>8, <2>1, <3>1
    <3>3. QED
      BY <1>4, <2>3, <3>2
  <2>4. CASE name \notin snap.companies /\ snap.client[name] # 0
    <3>1. MatchTier(name, snap) = ClientTier(snap.client[name]) /\ snap.client[name] \in 1..n
      BY <1>2, <2>4 DEF MatchTier
    <3>2. Attached(j) = ClientTier(snap.client[name])
      BY <1>5, <1>8, <2>1, <3>1
    <3>3. QED
      BY <1>3, <3>1, <3>2
  <2>5. CASE name \notin snap.companies /\ snap.client[name] = 0
    <3>1. MatchTier(name, snap) = NoTier
      BY <2>5 DEF MatchTier
    <3>2. Attached(j) = NoTier
      BY <1>6, <1>8, <2>1, <3>1
    <3>3. QED
      BY <2>5, <3>2, NoTierTyped
  <2>6. QED
    BY <2>2, <2>3, <2>4, <2>5
<1>11. QED
  BY <1>9, <1>10

\* What the row steps write of a run.
Stepped(s, at, tier, number, revived) ==
    [s EXCEPT !.at = at, !.tier = tier, !.number = number, !.revived = revived]

LEMMA RowStepState ==
    ASSUME NEW s \in RunState, NEW at \in RowSteps, NEW tier \in Tiers, NEW number \in Nat,
           NEW revived \in BOOLEAN
    PROVE  \E state \in RunState :
              /\ state = Stepped(s, at, tier, number, revived)
              /\ state.at = at /\ state.tier = tier /\ state.number = number
              /\ state.sync = s.sync /\ state.file = s.file /\ state.todo = s.todo
              /\ state.pos = s.pos /\ state.snap = s.snap /\ state.count = s.count
              /\ RowAt(state) = RowAt(s)
<1> DEFINE state == Stepped(s, at, tier, number, revived)
<1>1. at \in RunSteps
  BY DEF RowSteps, RunSteps
<1>2. state \in RunState /\ state.at = at /\ state.tier = tier /\ state.number = number
  BY <1>1 DEF RunState, Stepped
<1>3. /\ state.sync = s.sync /\ state.file = s.file /\ state.todo = s.todo
      /\ state.pos = s.pos /\ state.snap = s.snap /\ state.count = s.count
  BY DEF RunState, Stepped
<1> HIDE DEF state
<1>4. RowAt(state) = RowAt(s)
  BY <1>3 DEF RowAt, NextLine
<1>5. QED
  BY <1>2, <1>3, <1>4 DEF state

LEMMA ResolveRowInv == ASSUME ImportIInv, NEW j \in Jobs, ResolveRow(j) PROVE ImportIInv'
<1> PICK tier \in Tiers :
       /\ tier = Attached(j)
       /\ tier # NoTier => Known(tier, Len(clients), runner[j].snap)
  BY AttachedKnown DEF ResolveRow, RowSteps
<1>1. /\ runner[j].at = "row"
      /\ aliases' = aliases \/ aliases' = [aliases EXCEPT ![Row(j).name] = tier]
      /\ Run(j, IF tier # NoTier
                 THEN [runner[j] EXCEPT !.at = "free", !.tier = tier]
                 ELSE [runner[j] EXCEPT !.at = "client", !.number = Len(clients) + 1])
      /\ UNCHANGED <<base, owner, clients, entered, counter, seeded, companies, job, userOps,
                     drawn, cut>>
  BY DEF ResolveRow, Same
<1>2. /\ runner[j] \in RunState /\ RunHolds(runner[j], Len(clients), counter)
      /\ JobHolds(runner[j], job[j], cut[j]) /\ Len(clients) \in Nat
      /\ runner[j].at \in RowSteps
  BY <1>1, RunInHand DEF RowSteps
<1>3. aliases' \in [Names -> Tiers]
  BY <1>1, ImportFacts
<1>4. PICK at \in RowSteps, hold \in Tiers, number \in Nat :
         /\ at \in {"free", "client"} /\ (at = "free" => hold = tier /\ tier # NoTier)
         /\ Run(j, Stepped(runner[j], at, hold, number, runner[j].revived))
  <2>1. runner[j].tier \in Tiers /\ runner[j].number \in Nat /\ Len(clients) + 1 \in Nat
        /\ "free" \in RowSteps /\ "client" \in RowSteps
    BY <1>2 DEF RunState, RowSteps
  <2>2. CASE tier # NoTier
    <3>1. [runner[j] EXCEPT !.at = "free", !.tier = tier] =
            Stepped(runner[j], "free", tier, runner[j].number, runner[j].revived)
      BY <1>2 DEF RunState, Stepped
    <3>2. Run(j, Stepped(runner[j], "free", tier, runner[j].number, runner[j].revived))
      BY <1>1, <2>2, <3>1
    <3>3. QED
      BY <2>1, <2>2, <3>2
  <2>3. CASE tier = NoTier
    <3>1. [runner[j] EXCEPT !.at = "client", !.number = Len(clients) + 1] =
            Stepped(runner[j], "client", runner[j].tier, Len(clients) + 1, runner[j].revived)
      BY <1>2 DEF RunState, Stepped
    <3>2. Run(j, Stepped(runner[j], "client", runner[j].tier, Len(clients) + 1, runner[j].revived))
      BY <1>1, <2>3, <3>1
    <3>3. QED
      BY <2>1, <2>3, <3>2
  <2>4. QED
    BY <2>2, <2>3
<1>5. runner[j].revived \in BOOLEAN
  BY <1>2 DEF RunState
<1>6. PICK s \in RunState :
         /\ s = Stepped(runner[j], at, hold, number, runner[j].revived)
         /\ s.at = at /\ s.tier = hold /\ s.number = number
         /\ s.sync = runner[j].sync /\ s.file = runner[j].file /\ s.todo = runner[j].todo
         /\ s.pos = runner[j].pos /\ s.snap = runner[j].snap /\ s.count = runner[j].count
         /\ RowAt(s) = RowAt(runner[j])
  BY <1>2, <1>4, <1>5, RowStepState
<1>7. RunHolds(s, Len(clients), counter)
  BY <1>1, <1>2, <1>4, <1>6 DEF RunHolds, RowSteps
<1>8. s.at \in RowSteps
  BY <1>4, <1>6
<1>9. JobHolds(s, job[j], cut[j])
  BY <1>2, <1>6, <1>8, SameRow
<1>10. Run(j, s)
  BY <1>4, <1>6
<1>11. /\ clients' \in Seq(Client) /\ Len(clients) <= Len(clients') /\ Len(clients') <= MaxClients
       /\ counter' \in 0..MaxRef /\ counter <= counter'
       /\ job' \in [Jobs -> JobDocument] /\ cut' \in [Jobs -> BOOLEAN]
       /\ base' \in [Refs -> {"none", "active", "deleted"}] /\ owner' \in [Refs -> Tiers]
       /\ entered' \subseteq Refs /\ UNCHANGED <<companies, userOps, drawn, seeded, job, cut, base>>
  BY <1>1, ImportFacts
<1>12. RunHolds(s, Len(clients'), counter') /\ JobHolds(s, job'[j], cut'[j])
  BY <1>1, <1>7, <1>9
<1>13. seeded => \A r \in Refs : base'[r] # "none" => base[r] # "none" \/ r <= counter'
  BY <1>11
<1>14. QED
  BY <1>3, <1>10, <1>11, <1>12, <1>13, RunGoesOn

LEMMA DuplicateInv ==
    ASSUME ImportIInv, NEW j \in Jobs, runner[j].at \in RowSteps,
           Duplicate(j) \/ Done(j, {"erreurs"}),
           UNCHANGED <<base, owner, counter, seeded, clients, companies, aliases, job, userOps,
                       drawn, entered, cut>>
    PROVE  ImportIInv'
<1>1. PICK outcomes \in OutcomeSets : Done(j, outcomes)
  BY DEF Duplicate, OutcomeSets
<1>2. QED
  BY <1>1, DoneInv

LEMMA SyncLocationInv == ASSUME ImportIInv, NEW j \in Jobs, SyncLocation(j) PROVE ImportIInv'
<1>1. PICK outcomes \in OutcomeSets : Done(j, outcomes)
  <2>1. {"dis"} \cup (IF runner[j].revived THEN {"reactivees"} ELSE {}) \in OutcomeSets
    <3>1. CASE runner[j].revived
      BY <3>1 DEF OutcomeSets
    <3>2. CASE ~runner[j].revived
      BY <3>2 DEF OutcomeSets
    <3>3. QED
      BY <3>1, <3>2
  <2>2. {"erreurs"} \in OutcomeSets
    BY DEF OutcomeSets
  <2>3. \/ Done(j, {"dis"} \cup (IF runner[j].revived THEN {"reactivees"} ELSE {}))
        \/ Done(j, {"erreurs"})
    BY DEF SyncLocation
  <2>4. QED
    BY <2>1, <2>2, <2>3
<1>2. /\ UNCHANGED <<base, owner, counter, seeded, clients, companies, aliases, job, userOps,
                     drawn, entered, cut>>
      /\ runner[j].at \in RowSteps
  BY DEF SyncLocation, Same, RowSteps
<1>3. QED
  BY <1>1, <1>2, DoneInv

\* The client of a row, kept for the rows that follow.
LEMMA CachedTyped ==
    ASSUME NEW snap \in Seen, NEW name \in Names, NEW i \in Nat
    PROVE  \E seen \in Seen :
              /\ seen = [snap EXCEPT !.client[name] = i]
              /\ seen.client[name] = i
              /\ \A n \in Names : n # name => seen.client[n] = snap.client[n]
              /\ seen.clientIds = snap.clientIds /\ seen.companies = snap.companies
<1>1. PICK known \in [Names -> Nat] : known = [snap.client EXCEPT ![name] = i]
  BY DEF Seen
<1>2. known[name] = i /\ \A n \in Names : n # name => known[n] = snap.client[n]
  BY <1>1 DEF Seen
<1>3. [snap EXCEPT !.client[name] = i] = [snap EXCEPT !.client = known]
  BY <1>1 DEF Seen
<1> DEFINE seen == [snap EXCEPT !.client = known]
<1>4. /\ seen \in Seen /\ seen.client = known /\ seen.clientIds = snap.clientIds
      /\ seen.companies = snap.companies
  BY DEF Seen
<1> HIDE DEF seen
<1>5. seen = [snap EXCEPT !.client[name] = i]
  BY <1>3 DEF seen
<1>6. QED
  BY <1>2, <1>4, <1>5

WithClient(s, name, i) == [Cached(s, name, i) EXCEPT !.at = "free", !.tier = ClientTier(i)]

LEMMA ClientStored ==
    ASSUME NEW s \in RunState, NEW name \in Names, NEW i \in Nat, ClientTier(i) \in Tiers
    PROVE  \E state \in RunState :
              /\ state = WithClient(s, name, i)
              /\ state.at = "free" /\ state.tier = ClientTier(i)
              /\ state.sync = s.sync /\ state.file = s.file /\ state.todo = s.todo
              /\ state.pos = s.pos /\ state.count = s.count
              /\ state.snap.client[name] = i
              /\ \A n \in Names : n # name => state.snap.client[n] = s.snap.client[n]
              /\ state.snap.clientIds = s.snap.clientIds
              /\ state.snap.companies = s.snap.companies
<1>1. PICK seen \in Seen :
         /\ seen = [s.snap EXCEPT !.client[name] = i]
         /\ seen.client[name] = i
         /\ \A n \in Names : n # name => seen.client[n] = s.snap.client[n]
         /\ seen.clientIds = s.snap.clientIds /\ seen.companies = s.snap.companies
  <2>1. s.snap \in Seen
    BY DEF RunState
  <2>2. QED
    BY <2>1, CachedTyped
<1>2. Cached(s, name, i) = [s EXCEPT !.snap = seen]
  BY <1>1 DEF Cached, RunState
<1> DEFINE state == [s EXCEPT !.snap = seen, !.at = "free", !.tier = ClientTier(i)]
<1>3. /\ state \in RunState /\ state.snap = seen /\ state.at = "free"
      /\ state.tier = ClientTier(i) /\ state.sync = s.sync /\ state.file = s.file
      /\ state.todo = s.todo /\ state.pos = s.pos /\ state.count = s.count
  BY <1>1 DEF RunState, RunSteps
<1>4. state = WithClient(s, name, i)
  BY <1>2 DEF RunState, WithClient
<1> HIDE DEF state
<1>5. QED
  BY <1>1, <1>3, <1>4

LEMMA CreateClientInv == ASSUME ImportIInv, NEW j \in Jobs, CreateClient(j) PROVE ImportIInv'
<1>1. /\ runner[j].at = "client" /\ runner[j].at \in RowSteps /\ Len(clients) < MaxClients
      /\ UNCHANGED <<base, owner, aliases, entered, counter, seeded, companies, job, userOps,
                     drawn, cut>>
  BY DEF CreateClient, Same, RowSteps
<1>2. CASE (Duplicate(j) \/ Done(j, {"erreurs"})) /\ UNCHANGED clients
  BY <1>1, <1>2, DuplicateInv
<1>3. CASE /\ runner[j].number = Len(clients) + 1
           /\ clients' = Append(clients, [name |-> Row(j).name, deleted |-> FALSE])
           /\ Run(j, [Cached(runner[j], Row(j).name, runner[j].number) EXCEPT
                        !.at = "free", !.tier = ClientTier(runner[j].number)])
  <2>1. /\ runner[j] \in RunState /\ RunHolds(runner[j], Len(clients), counter)
        /\ JobHolds(runner[j], job[j], cut[j]) /\ Len(clients) \in Nat
        /\ Row(j).name \in Names
    BY <1>1, RunInHand, RowReachedBy
  <2>2. PICK new \in Client : new = [name |-> Row(j).name, deleted |-> FALSE]
    BY <2>1 DEF Client
  <2>3. clients' \in Seq(Client) /\ Len(clients') = Len(clients) + 1
    <3>1. clients \in Seq(Client)
      BY ImportFacts
    <3>2. clients' = Append(clients, new)
      BY <1>3, <2>2
    <3>3. QED
      BY <3>1, <3>2, AppendProperties
  <2>4. PICK n \in Nat : n = runner[j].number /\ n = Len(clients) + 1 /\ n <= MaxClients
    BY <1>1, <1>3, <2>1, ImportFacts
  <2>5. ClientTier(n) \in Tiers
    BY <2>1, <2>4, ImportFacts DEF Tiers
  <2>6. PICK s \in RunState :
           /\ s = WithClient(runner[j], Row(j).name, n)
           /\ s.at = "free" /\ s.tier = ClientTier(n)
           /\ s.sync = runner[j].sync /\ s.file = runner[j].file /\ s.todo = runner[j].todo
           /\ s.pos = runner[j].pos /\ s.count = runner[j].count
           /\ s.snap.client[Row(j).name] = n
           /\ \A name \in Names : name # Row(j).name =>
                 s.snap.client[name] = runner[j].snap.client[name]
           /\ s.snap.clientIds = runner[j].snap.clientIds
           /\ s.snap.companies = runner[j].snap.companies
    BY <2>1, <2>4, <2>5, ClientStored
  <2>7. RunHolds(s, n, counter)
    <3>1. \A name \in Names : s.snap.client[name] \in 0..n
      <4>1. \A name \in Names : runner[j].snap.client[name] \in 0..Len(clients)
        BY <2>1 DEF RunHolds
      <4>2. QED
        BY <2>1, <2>4, <2>6, <4>1
    <3>2. s.snap.clientIds \subseteq 1..n
      BY <2>1, <2>4, <2>6 DEF RunHolds
    <3>3. Known(s.tier, n, s.snap)
      BY <2>1, <2>4, <2>6 DEF Known, ClientTier
    <3>4. QED
      BY <1>1, <2>1, <2>6, <3>1, <3>2, <3>3 DEF RunHolds, RowSteps
  <2>8. JobHolds(s, job[j], cut[j])
    <3>1. s.at \in RowSteps
      BY <2>6 DEF RowSteps
    <3>2. QED
      BY <1>1, <2>1, <2>6, <3>1, SameRow
  <2>9. Run(j, s)
    BY <1>3, <2>4, <2>6 DEF WithClient
  <2>10. /\ clients' \in Seq(Client) /\ Len(clients) <= Len(clients')
         /\ Len(clients') <= MaxClients /\ RunHolds(s, Len(clients'), counter')
    BY <1>1, <2>1, <2>3, <2>4, <2>7
  <2>11. /\ counter' \in 0..MaxRef /\ counter <= counter' /\ aliases' \in [Names -> Tiers]
         /\ job' \in [Jobs -> JobDocument] /\ cut' \in [Jobs -> BOOLEAN]
         /\ base' \in [Refs -> {"none", "active", "deleted"}] /\ owner' \in [Refs -> Tiers]
         /\ entered' \subseteq Refs
         /\ UNCHANGED <<companies, userOps, drawn, seeded, job, cut, base>>
    BY <1>1, ImportFacts
  <2>12. JobHolds(s, job'[j], cut'[j])
    BY <2>8, <2>11
  <2>13. seeded => \A r \in Refs : base'[r] # "none" => base[r] # "none" \/ r <= counter'
    BY <2>11
  <2>14. QED
    BY <2>9, <2>10, <2>11, <2>12, <2>13, RunGoesOn
<1>4. QED
  BY <1>2, <1>3 DEF CreateClient

\* A row step that leaves the tiers alone.
LEMMA RowGoesOn ==
    ASSUME ImportIInv, NEW j \in Jobs, runner[j].at \in {"free", "bump", "save"},
           NEW at \in {"bump", "save", "sync"}, NEW revived \in BOOLEAN,
           Run(j, Stepped(runner[j], at, runner[j].tier, runner[j].number, revived)),
           counter' \in 0..MaxRef, counter <= counter', at = "save" => Row(j).ref <= counter',
           base' \in [Refs -> {"none", "active", "deleted"}], owner' \in [Refs -> Tiers],
           entered' \subseteq Refs,
           UNCHANGED <<seeded, clients, companies, aliases, job, userOps, drawn, cut>>,
           \A r \in Refs : base'[r] # "none" => base[r] # "none" \/ r <= counter'
    PROVE  ImportIInv'
<1>1. /\ runner[j] \in RunState /\ RunHolds(runner[j], Len(clients), counter)
      /\ JobHolds(runner[j], job[j], cut[j]) /\ Row(j) = RowAt(runner[j])
      /\ Len(clients) \in Nat
  BY RunInHand
<1>2. /\ runner[j].tier \in Tiers /\ runner[j].number \in Nat /\ at \in RowSteps
      /\ runner[j].at \in RowSteps
  BY <1>1 DEF RunState, RowSteps
<1>3. PICK s \in RunState :
         /\ s = Stepped(runner[j], at, runner[j].tier, runner[j].number, revived)
         /\ s.at = at /\ s.tier = runner[j].tier /\ s.number = runner[j].number
         /\ s.sync = runner[j].sync /\ s.file = runner[j].file /\ s.todo = runner[j].todo
         /\ s.pos = runner[j].pos /\ s.snap = runner[j].snap /\ s.count = runner[j].count
         /\ RowAt(s) = RowAt(runner[j])
  BY <1>1, <1>2, RowStepState
<1>4. RunHolds(s, Len(clients'), counter')
  BY <1>1, <1>2, <1>3 DEF RunHolds
<1>5. JobHolds(s, job'[j], cut'[j])
  BY <1>1, <1>2, <1>3, SameRow
<1>6. Run(j, s)
  BY <1>3
<1>7. /\ clients' \in Seq(Client) /\ Len(clients) <= Len(clients') /\ Len(clients') <= MaxClients
      /\ aliases' \in [Names -> Tiers]
      /\ job' \in [Jobs -> JobDocument] /\ cut' \in [Jobs -> BOOLEAN]
  BY ImportFacts
<1>8. QED
  BY <1>4, <1>5, <1>6, <1>7, RunGoesOn

LEMMA RowStateIs ==
    ASSUME NEW s \in RunState, NEW at \in RowSteps, NEW revived \in BOOLEAN
    PROVE  /\ [s EXCEPT !.at = at] = Stepped(s, at, s.tier, s.number, s.revived)
           /\ [s EXCEPT !.at = at, !.revived = revived] = Stepped(s, at, s.tier, s.number, revived)
           /\ s.revived \in BOOLEAN
  BY DEF Stepped, RunState

LEMMA FreeDeletedRefInv ==
    ASSUME ImportIInv, NEW j \in Jobs, FreeDeletedRef(j) PROVE ImportIInv'
<1>1. /\ runner[j] \in RunState /\ Row(j).ref \in Refs /\ "bump" \in RowSteps
  BY RunInHand, RowReachedBy DEF FreeDeletedRef, RowSteps
<1> PICK purge \in BOOLEAN : purge = (Row(j).ref \in runner[j].snap.deletedRefs /\ Purged(Row(j).ref))
  OBVIOUS
<1>2. /\ runner[j].at = "free"
      /\ base' = IF purge THEN [base EXCEPT ![Row(j).ref] = "none"] ELSE base
      /\ owner' = IF purge THEN [owner EXCEPT ![Row(j).ref] = NoTier] ELSE owner
      /\ Run(j, [runner[j] EXCEPT !.at = "bump", !.revived = purge])
      /\ UNCHANGED <<clients, aliases, entered, counter, seeded, companies, job, userOps, drawn,
                     cut>>
  BY DEF FreeDeletedRef, Same
<1>3. Run(j, Stepped(runner[j], "bump", runner[j].tier, runner[j].number, purge))
  BY <1>1, <1>2, RowStateIs
<1>4. /\ base' \in [Refs -> {"none", "active", "deleted"}] /\ owner' \in [Refs -> Tiers]
      /\ \A r \in Refs : base'[r] # "none" => base[r] # "none"
  BY <1>1, <1>2, NoTierTyped, ImportFacts
<1>5. counter' \in 0..MaxRef /\ counter <= counter' /\ entered' \subseteq Refs
  BY <1>2, ImportFacts
<1>6. QED
  BY <1>2, <1>3, <1>4, <1>5, RowGoesOn

LEMMA BumpInv == ASSUME ImportIInv, NEW j \in Jobs, Bump(j) PROVE ImportIInv'
<1>1. /\ runner[j].at = "bump" /\ runner[j].at \in RowSteps
      /\ UNCHANGED <<base, owner, seeded, clients, companies, aliases, job, entered, userOps,
                     drawn, cut>>
      /\ \/ BumpDiRefTo(Row(j).ref) /\ Run(j, [runner[j] EXCEPT !.at = "save"])
         \/ Done(j, {"erreurs"}) /\ UNCHANGED counter
  BY DEF Bump, RowSteps
<1>2. CASE Done(j, {"erreurs"}) /\ UNCHANGED counter
  BY <1>1, <1>2, DuplicateInv
<1>3. CASE BumpDiRefTo(Row(j).ref) /\ Run(j, [runner[j] EXCEPT !.at = "save"])
  <2>1. /\ runner[j] \in RunState /\ Row(j).ref \in Refs /\ "save" \in RowSteps
        /\ runner[j].revived \in BOOLEAN
    BY <1>1, RunInHand, RowReachedBy DEF RowSteps, RunState
  <2>2. counter' \in 0..MaxRef /\ counter <= counter' /\ Row(j).ref <= counter'
    BY <1>3, <2>1, ImportFacts DEF BumpDiRefTo, Upto
  <2>3. Run(j, Stepped(runner[j], "save", runner[j].tier, runner[j].number, runner[j].revived))
    BY <1>3, <2>1, RowStateIs
  <2>4. /\ base' \in [Refs -> {"none", "active", "deleted"}] /\ owner' \in [Refs -> Tiers]
        /\ entered' \subseteq Refs /\ base' = base
    BY <1>1, ImportFacts
  <2>5. QED
    BY <1>1, <2>1, <2>2, <2>3, <2>4, RowGoesOn
<1>4. QED
  BY <1>1, <1>2, <1>3

LEMMA SaveRowInv == ASSUME ImportIInv, NEW j \in Jobs, SaveRow(j) PROVE ImportIInv'
<1>1. /\ runner[j].at = "save" /\ runner[j].at \in RowSteps
      /\ UNCHANGED <<clients, aliases, counter, seeded, companies, job, userOps, drawn, cut>>
  BY DEF SaveRow, Same, RowSteps
<1>2. CASE (Duplicate(j) \/ Done(j, {"erreurs"})) /\ UNCHANGED <<base, owner, entered>>
  BY <1>1, <1>2, DuplicateInv
<1>3. CASE InBaseNow(Row(j).ref, runner[j].tier) /\ Run(j, [runner[j] EXCEPT !.at = "sync"])
  <2>1. /\ runner[j] \in RunState /\ Row(j).ref \in Refs /\ Row(j).ref <= counter
        /\ runner[j].revived \in BOOLEAN /\ runner[j].tier \in Tiers /\ "sync" \in RowSteps
    BY <1>1, RunInHand, RowReachedBy DEF RunHolds, RowSteps, RunState
  <2>2. Run(j, Stepped(runner[j], "sync", runner[j].tier, runner[j].number, runner[j].revived))
    BY <1>3, <2>1, RowStateIs
  <2>3. /\ base' \in [Refs -> {"none", "active", "deleted"}] /\ owner' \in [Refs -> Tiers]
        /\ entered' \subseteq Refs
        /\ \A r \in Refs : base'[r] # "none" => base[r] # "none" \/ r = Row(j).ref
    BY <1>3, <2>1, ImportFacts DEF InBaseNow
  <2>4. counter' \in 0..MaxRef /\ counter <= counter'
        /\ \A r \in Refs : base'[r] # "none" => base[r] # "none" \/ r <= counter'
    BY <1>1, <2>1, <2>3, ImportFacts
  <2>5. QED
    BY <1>1, <2>1, <2>2, <2>3, <2>4, RowGoesOn
<1>4. QED
  BY <1>2, <1>3 DEF SaveRow

LEMMA ImportInitInv == ImportJobInit => ImportIInv
<1> SUFFICES ASSUME ImportJobInit PROVE ImportIInv
  OBVIOUS
<1>1. PICK start \in Starts :
         base = start.base /\ clients = start.clients /\ companies = start.companies
  BY DEF ImportJobInit
<1>2. /\ base \in [Refs -> {"none", "active", "deleted"}] /\ clients \in Seq(Client)
      /\ Len(clients) <= MaxClients /\ companies \subseteq Names
  BY <1>1, ImportBounds DEF Client, Refs
<1>3. PICK idle \in RunState : idle = IdleRun /\ idle.at = "idle" /\ idle.sync = FALSE /\ idle.todo = {}
         /\ Counts(idle) = 0 /\ (\A n \in Names : idle.snap.client[n] = 0) /\ idle.snap.clientIds = {}
  <2>1. IdleRun.at = "idle" /\ IdleRun.sync = FALSE /\ IdleRun.todo = {} /\ IdleRun.snap = NoSnapshot
    BY DEF IdleRun
  <2>2. (\A n \in Names : NoSnapshot.client[n] = 0) /\ NoSnapshot.clientIds = {}
    BY DEF NoSnapshot
  <2>3. QED
    BY <2>1, <2>2, IdleRunTyped
<1>4. PICK doc \in JobDocument : doc = [status |-> "none", total |-> 0, done |-> 0]
  BY DEF JobDocument, JobStatus
<1>5. /\ runner = [j \in Jobs |-> idle] /\ job = [j \in Jobs |-> doc]
      /\ cut = [j \in Jobs |-> FALSE] /\ counter = 0 /\ drawn = 0 /\ userOps = 0
      /\ owner = [r \in Refs |-> NoTier] /\ aliases = [n \in Names |-> NoTier]
      /\ entered \subseteq Refs /\ seeded = FALSE
  BY <1>3, <1>4 DEF ImportJobInit
<1>6. ImportTypes
  BY <1>2, <1>5, NoTierTyped, ImportBounds DEF ImportTypes
<1>7. RunHolds(idle, Len(clients), counter)
  BY <1>2, <1>3, LenProperties DEF RunHolds, RowSteps
<1>8. JobHolds(idle, doc, FALSE)
  BY <1>3, <1>4 DEF JobHolds, InProgress, RowSteps
<1>9. RunsInv
  BY <1>5, <1>7, <1>8 DEF RunsInv
<1>10. CounterInv
  BY <1>5 DEF CounterInv, CounterAhead
<1>11. QED
  BY <1>6, <1>9, <1>10 DEF ImportIInv

LEMMA ImportStepInv == ImportIInv /\ [ImportJobNext]_importVars => ImportIInv'
<1> SUFFICES ASSUME ImportIInv, [ImportJobNext]_importVars PROVE ImportIInv'
  OBVIOUS
<1>1. CASE DrawRef \/ SaveDrawn \/ RemoveTier \/ Restart
  BY <1>1, DrawRefInv, SaveDrawnInv, RemoveTierInv, RestartInv
<1>2. CASE \E ref \in Refs : DeleteDi(ref)
  BY <1>2, DeleteDiInv
<1>3. CASE \E j \in Jobs, file \in Files, decision \in Decisions, sync \in BOOLEAN :
              StartImport(j, file, decision, sync)
  BY <1>3, StartImportInv
<1>4. ASSUME NEW j \in Jobs, RunStep(j) PROVE ImportIInv'
  BY <1>4, MarkRunningInv, ResolveRowInv, CreateClientInv, FreeDeletedRefInv, BumpInv, SaveRowInv,
     SyncLocationInv, IncrementProgressInv, CompleteInv, FailJobInv DEF RunStep
<1>5. CASE UNCHANGED importVars
  <2>1. UNCHANGED <<base, owner, counter, seeded, clients, companies, aliases, job, runner,
                    userOps, drawn, entered, cut>>
    BY <1>5 DEF importVars
  <2>2. ImportTypes'
    BY <2>1 DEF ImportIInv, ImportTypes
  <2>3. RunsInv'
    BY <2>1 DEF ImportIInv, RunsInv
  <2>4. CounterInv'
    BY <2>1 DEF ImportIInv, CounterInv, CounterAhead, InBase
  <2>5. QED
    BY <2>2, <2>3, <2>4 DEF ImportIInv
<1>6. QED
  BY <1>1, <1>2, <1>3, <1>4, <1>5 DEF ImportJobNext

----------------------------------------------------------------------------
(* What a step of a run writes of it.                                      *)

LEMMA AtWrites ==
    ASSUME ImportIInv, NEW j \in Jobs, NEW at, Run(j, [runner[j] EXCEPT !.at = at])
    PROVE  /\ runner'[j].at = at /\ runner'[j].snap = runner[j].snap
           /\ RowAt(runner'[j]) = RowAt(runner[j])
           /\ \A i \in Jobs : i # j => runner'[i] = runner[i]
<1>1. runner[j] \in RunState /\ runner \in [Jobs -> RunState]
  BY ImportFacts
<1>2. /\ runner'[j] = [runner[j] EXCEPT !.at = at]
      /\ \A i \in Jobs : i # j => runner'[i] = runner[i]
  BY <1>1 DEF Run
<1>3. /\ runner'[j].at = at /\ runner'[j].snap = runner[j].snap
      /\ runner'[j].file = runner[j].file /\ runner'[j].todo = runner[j].todo
  BY <1>1, <1>2 DEF RunState
<1>4. QED
  BY <1>2, <1>3 DEF RowAt, NextLine

LEMMA DoneWrites ==
    ASSUME ImportIInv, NEW j \in Jobs, NEW outcomes \in OutcomeSets, Done(j, outcomes)
    PROVE  /\ runner'[j].at \in {"over", "row", "progress"} /\ runner'[j].snap = runner[j].snap
           /\ \A i \in Jobs : i # j => runner'[i] = runner[i]
<1>1. runner[j] \in RunState /\ LineNo(j) = NextLine(runner[j])
  BY RunInHand
<1>2. PICK s \in RunState :
         /\ s = DoneState(runner[j], outcomes)
         /\ s.at \in {"over", "row", "progress"} /\ s.snap = runner[j].snap
  BY <1>1, DoneFields
<1>3. Run(j, s)
  BY <1>1, <1>2 DEF Done, DoneState
<1>4. QED
  BY <1>2, <1>3, RunMoved DEF ImportIInv

LEMMA DuplicateWrites ==
    ASSUME ImportIInv, NEW j \in Jobs, Duplicate(j) \/ Done(j, {"erreurs"})
    PROVE  /\ runner'[j].at \in {"over", "row", "progress"} /\ runner'[j].snap = runner[j].snap
           /\ \A i \in Jobs : i # j => runner'[i] = runner[i]
<1>1. PICK outcomes \in OutcomeSets : Done(j, outcomes)
  BY DEF Duplicate, OutcomeSets
<1>2. QED
  BY <1>1, DoneWrites

\* The run of j moves: the others stay, it keeps its snapshot, and it is about to create a
\* client only for a name its snapshot has no client of.
Moves(j) ==
    /\ runner[j].at # "idle" /\ runner'[j].at # "idle"
    /\ \A i \in Jobs : i # j => runner'[i] = runner[i]
    /\ runner'[j].snap = runner[j].snap
    /\ runner'[j].at = "client" => runner'[j].snap.client[RowAt(runner'[j]).name] = 0

\* The run of j moves with nothing to purge nor to save, or a write has failed.
Light(j) ==
    \/ faulted'
    \/ /\ faulted' = faulted /\ base' = base /\ entered' = entered
       /\ runner[j].at \notin {"bump", "save"}

LEMMA DocumentMoves ==
    ASSUME ImportIInv, NEW j \in Jobs, MarkRunning(j) \/ Complete(j) \/ IncrementProgress(j) \/ FailJob(j)
    PROVE  Moves(j) /\ Light(j) /\ UNCHANGED <<base, owner, clients>>
<1>1. /\ \E at \in {"end", "row", "over", "fail"} : Run(j, [runner[j] EXCEPT !.at = at])
      /\ runner[j].at \in {"start", "end", "progress", "fail"}
      /\ UNCHANGED <<base, owner, entered, clients>>
      /\ faulted' \/ UNCHANGED faulted
  <2>1. CASE MarkRunning(j)
    BY <2>1 DEF MarkRunning, Document, Fault
  <2>2. CASE Complete(j)
    BY <2>2 DEF Complete, Document, Fault
  <2>3. CASE IncrementProgress(j)
    BY <2>3 DEF IncrementProgress, Fault
  <2>4. CASE FailJob(j)
    BY <2>4 DEF FailJob, Fail
  <2>5. QED
    BY <2>1, <2>2, <2>3, <2>4
<1>2. Moves(j)
  BY <1>1, AtWrites DEF Moves
<1>3. QED
  BY <1>1, <1>2 DEF Light

LEMMA ResolveMoves ==
    ASSUME ImportIInv, NEW j \in Jobs, ResolveRow(j)
    PROVE  Moves(j) /\ Light(j) /\ UNCHANGED <<base, owner, clients>>
<1>1. /\ runner[j].at = "row" /\ UNCHANGED <<base, owner, clients, entered, faulted>>
      /\ Run(j, IF Attached(j) # NoTier
                 THEN [runner[j] EXCEPT !.at = "free", !.tier = Attached(j)]
                 ELSE [runner[j] EXCEPT !.at = "client", !.number = Len(clients) + 1])
  BY DEF ResolveRow
<1>2. /\ runner[j] \in RunState /\ runner \in [Jobs -> RunState]
      /\ Row(j) = RowAt(runner[j])
  BY ImportFacts, RunInHand
<1>3. /\ runner'[j].snap = runner[j].snap /\ RowAt(runner'[j]) = RowAt(runner[j])
      /\ runner'[j].at = IF Attached(j) # NoTier THEN "free" ELSE "client"
      /\ \A i \in Jobs : i # j => runner'[i] = runner[i]
  <2>1. CASE Attached(j) # NoTier
    <3>1. /\ runner'[j] = [runner[j] EXCEPT !.at = "free", !.tier = Attached(j)]
          /\ \A i \in Jobs : i # j => runner'[i] = runner[i]
      BY <1>1, <1>2, <2>1 DEF Run
    <3>2. /\ runner'[j].snap = runner[j].snap /\ runner'[j].file = runner[j].file
          /\ runner'[j].todo = runner[j].todo /\ runner'[j].at = "free"
      BY <1>2, <3>1 DEF RunState
    <3>3. QED
      BY <2>1, <3>1, <3>2 DEF RowAt, NextLine
  <2>2. CASE Attached(j) = NoTier
    <3>1. /\ runner'[j] = [runner[j] EXCEPT !.at = "client", !.number = Len(clients) + 1]
          /\ \A i \in Jobs : i # j => runner'[i] = runner[i]
      BY <1>1, <1>2, <2>2 DEF Run
    <3>2. /\ runner'[j].snap = runner[j].snap /\ runner'[j].file = runner[j].file
          /\ runner'[j].todo = runner[j].todo /\ runner'[j].at = "client"
      BY <1>2, <3>1 DEF RunState
    <3>3. QED
      BY <2>2, <3>1, <3>2 DEF RowAt, NextLine
  <2>3. QED
    BY <2>1, <2>2
<1>4. Attached(j) = NoTier => runner[j].snap.client[RowAt(runner[j]).name] = 0
  BY <1>1, <1>2, AttachedKnown DEF RowSteps
<1>5. Moves(j)
  BY <1>1, <1>3, <1>4 DEF Moves
<1>6. QED
  BY <1>1, <1>5 DEF Light

LEMMA SyncMoves ==
    ASSUME ImportIInv, NEW j \in Jobs, SyncLocation(j)
    PROVE  Moves(j) /\ Light(j) /\ UNCHANGED <<base, owner, clients>>
<1>1. /\ runner[j].at = "sync" /\ UNCHANGED <<base, owner, clients, entered>>
      /\ faulted' \/ UNCHANGED faulted
  BY DEF SyncLocation, Fault
<1>2. PICK outcomes \in OutcomeSets : Done(j, outcomes)
  <2>1. {"dis"} \cup (IF runner[j].revived THEN {"reactivees"} ELSE {}) \in OutcomeSets
    <3>1. CASE runner[j].revived
      BY <3>1 DEF OutcomeSets
    <3>2. CASE ~runner[j].revived
      BY <3>2 DEF OutcomeSets
    <3>3. QED
      BY <3>1, <3>2
  <2>2. {"erreurs"} \in OutcomeSets
    BY DEF OutcomeSets
  <2>3. \/ Done(j, {"dis"} \cup (IF runner[j].revived THEN {"reactivees"} ELSE {}))
        \/ Done(j, {"erreurs"})
    BY DEF SyncLocation
  <2>4. QED
    BY <2>1, <2>2, <2>3
<1>3. Moves(j)
  BY <1>1, <1>2, DoneWrites DEF Moves
<1>4. QED
  BY <1>1, <1>3 DEF Light

\* The client of a row is created, or the row is refused.
LEMMA CreateMoves ==
    ASSUME ImportIInv, NEW j \in Jobs, CreateClient(j)
    PROVE  /\ Light(j) /\ UNCHANGED <<base, owner>> /\ runner[j].at = "client"
           /\ runner'[j].at # "idle"
           /\ \A i \in Jobs : i # j => runner'[i] = runner[i]
           /\ \/ Moves(j) /\ UNCHANGED clients
              \/ /\ clients' = Append(clients, [name |-> Row(j).name, deleted |-> FALSE])
                 /\ runner'[j].at = "free" /\ runner'[j].snap.client[Row(j).name] # 0
                 /\ \A n \in Names : n # Row(j).name =>
                       runner'[j].snap.client[n] = runner[j].snap.client[n]
                 /\ runner'[j].snap.clientIds = runner[j].snap.clientIds
<1>1. /\ runner[j].at = "client" /\ UNCHANGED <<base, owner, entered>>
      /\ faulted' \/ UNCHANGED faulted
  BY DEF CreateClient, Fault
<1>2. CASE (Duplicate(j) \/ Done(j, {"erreurs"})) /\ UNCHANGED clients
  <2>1. Moves(j)
    BY <1>1, <1>2, DuplicateWrites DEF Moves
  <2>2. QED
    BY <1>1, <1>2, <2>1 DEF Light, Moves
<1>3. CASE /\ runner[j].number = Len(clients) + 1
           /\ clients' = Append(clients, [name |-> Row(j).name, deleted |-> FALSE])
           /\ Run(j, WithClient(runner[j], Row(j).name, runner[j].number))
  <2>1. /\ runner[j] \in RunState /\ Row(j).name \in Names /\ Len(clients) \in Nat
    BY <1>1, RunInHand, RowReachedBy DEF RowSteps
  <2>2. PICK n \in Nat : n = runner[j].number /\ n # 0 /\ n <= MaxClients
    <3>1. Len(clients) < MaxClients
      BY DEF CreateClient
    <3>2. QED
      BY <1>3, <2>1, <3>1, ImportFacts
  <2>3. ClientTier(n) \in Tiers
    BY <2>2, ImportFacts DEF Tiers
  <2>4. PICK s \in RunState :
           /\ s = WithClient(runner[j], Row(j).name, n)
           /\ s.at = "free" /\ s.snap.client[Row(j).name] = n
           /\ \A name \in Names : name # Row(j).name =>
                 s.snap.client[name] = runner[j].snap.client[name]
           /\ s.snap.clientIds = runner[j].snap.clientIds
    BY <2>1, <2>3, ClientStored
  <2>5. runner'[j] = s /\ \A i \in Jobs : i # j => runner'[i] = runner[i]
    BY <1>3, <2>2, <2>4, ImportFacts DEF Run
  <2>6. QED
    BY <1>1, <1>3, <2>2, <2>4, <2>5 DEF Light
<1>4. QED
  BY <1>2, <1>3 DEF CreateClient, WithClient

\* The row keeps its reference through its purge, the counter and the save.
LEMMA RowWrites ==
    ASSUME ImportIInv, NEW j \in Jobs, FreeDeletedRef(j) \/ Bump(j) \/ SaveRow(j)
    PROVE  /\ Moves(j) /\ UNCHANGED clients
           /\ Row(j).ref \in Refs
           /\ \A r \in Refs : r # Row(j).ref => base'[r] = base[r] /\ owner'[r] = owner[r]
           /\ base[Row(j).ref] = "active" => UNCHANGED <<base, owner>>
           /\ entered' \subseteq entered \cup {Row(j).ref}
           /\ ~faulted' /\ base'[Row(j).ref] = "none" =>
                 runner'[j].at \in {"bump", "save"} /\ RowAt(runner'[j]).ref = Row(j).ref
<1>1. /\ runner[j] \in RunState /\ runner \in [Jobs -> RunState] /\ Row(j).ref \in Refs
      /\ Row(j) = RowAt(runner[j]) /\ base \in [Refs -> {"none", "active", "deleted"}]
      /\ owner \in [Refs -> Tiers]
  BY ImportFacts, RunInHand, RowReachedBy DEF FreeDeletedRef, Bump, SaveRow, RowSteps
<1>2. CASE FreeDeletedRef(j)
  <2>1. PICK purge \in BOOLEAN : purge = (Row(j).ref \in runner[j].snap.deletedRefs /\ Purged(Row(j).ref))
    OBVIOUS
  <2>2. /\ runner[j].at = "free" /\ UNCHANGED <<clients, entered>>
        /\ base' = IF purge THEN [base EXCEPT ![Row(j).ref] = "none"] ELSE base
        /\ owner' = IF purge THEN [owner EXCEPT ![Row(j).ref] = NoTier] ELSE owner
        /\ Run(j, [runner[j] EXCEPT !.at = "bump", !.revived = purge])
    BY <1>2, <2>1 DEF FreeDeletedRef
  <2>3. base[Row(j).ref] = "active" => ~purge
    BY <2>1 DEF Purged
  <2>4. /\ runner'[j] = [runner[j] EXCEPT !.at = "bump", !.revived = purge]
        /\ \A i \in Jobs : i # j => runner'[i] = runner[i]
    BY <1>1, <2>2 DEF Run
  <2>5. /\ runner'[j].snap = runner[j].snap /\ runner'[j].file = runner[j].file
        /\ runner'[j].todo = runner[j].todo /\ runner'[j].at = "bump"
    BY <1>1, <2>4 DEF RunState
  <2>6. RowAt(runner'[j]) = Row(j)
    BY <1>1, <2>5 DEF RowAt, NextLine
  <2>7. Moves(j)
    BY <2>2, <2>4, <2>5 DEF Moves
  <2>8. \A r \in Refs : r # Row(j).ref => base'[r] = base[r] /\ owner'[r] = owner[r]
    BY <1>1, <2>2
  <2>9. QED
    BY <1>1, <2>2, <2>3, <2>5, <2>6, <2>7, <2>8
<1>3. CASE Bump(j)
  <2>1. /\ runner[j].at = "bump" /\ UNCHANGED <<base, owner, clients, entered>>
        /\ \/ Run(j, [runner[j] EXCEPT !.at = "save"])
           \/ Done(j, {"erreurs"}) /\ faulted'
    BY <1>3 DEF Bump, Fault
  <2>2. CASE Run(j, [runner[j] EXCEPT !.at = "save"])
    <3>1. Moves(j) /\ runner'[j].at = "save" /\ RowAt(runner'[j]) = Row(j)
      BY <1>1, <2>1, <2>2, AtWrites DEF Moves
    <3>2. QED
      BY <1>1, <2>1, <3>1
  <2>3. CASE Done(j, {"erreurs"}) /\ faulted'
    <3>1. Moves(j)
      BY <2>1, <2>3, DuplicateWrites DEF Moves
    <3>2. QED
      BY <1>1, <2>1, <2>3, <3>1
  <2>4. QED
    BY <2>1, <2>2, <2>3
<1>4. CASE SaveRow(j)
  <2>1. /\ runner[j].at = "save" /\ UNCHANGED clients
        /\ \/ /\ base[Row(j).ref] = "none" /\ InBaseNow(Row(j).ref, runner[j].tier)
              /\ Run(j, [runner[j] EXCEPT !.at = "sync"])
           \/ /\ Duplicate(j) \/ Done(j, {"erreurs"})
              /\ UNCHANGED <<base, owner, entered>>
              /\ base[Row(j).ref] # "none" \/ faulted'
    BY <1>4 DEF SaveRow, Fault
  <2>2. CASE /\ base[Row(j).ref] = "none" /\ InBaseNow(Row(j).ref, runner[j].tier)
             /\ Run(j, [runner[j] EXCEPT !.at = "sync"])
    <3>1. Moves(j)
      BY <2>1, <2>2, AtWrites DEF Moves
    <3>2. /\ base' = [base EXCEPT ![Row(j).ref] = "active"]
          /\ owner' = [owner EXCEPT ![Row(j).ref] = runner[j].tier]
          /\ entered' = entered \cup {Row(j).ref}
      BY <2>2 DEF InBaseNow
    <3>3. base'[Row(j).ref] = "active"
      BY <1>1, <3>2
    <3>4. \A r \in Refs : r # Row(j).ref => base'[r] = base[r] /\ owner'[r] = owner[r]
      BY <1>1, <3>2
    <3>5. QED
      BY <1>1, <2>1, <2>2, <3>1, <3>2, <3>3, <3>4
  <2>3. CASE /\ Duplicate(j) \/ Done(j, {"erreurs"})
             /\ UNCHANGED <<base, owner, entered>>
             /\ base[Row(j).ref] # "none" \/ faulted'
    <3>1. Moves(j)
      BY <2>1, <2>3, DuplicateWrites DEF Moves
    <3>2. QED
      BY <1>1, <2>1, <2>3, <3>1
  <2>4. QED
    BY <2>1, <2>2, <2>3
<1>5. QED
  BY <1>2, <1>3, <1>4

----------------------------------------------------------------------------
(* References that are kept.                                               *)

LEMMA ActiveKeptInStep == ImportIInv /\ [ImportJobNext]_importVars => [ActiveKept]_importVars
<1> SUFFICES ASSUME ImportIInv, ImportJobNext PROVE ActiveKept
  OBVIOUS
<1>1. CASE UNCHANGED <<base, owner>>
  BY <1>1 DEF ActiveKept
<1>2. CASE SaveDrawn
  BY <1>2, ImportFacts DEF SaveDrawn, InBaseNow, ActiveKept
<1>3. CASE DrawRef \/ RemoveTier \/ Restart
  BY <1>1, <1>3 DEF DrawRef, RemoveTier, Restart
<1>4. CASE \E ref \in Refs : DeleteDi(ref)
  BY <1>4, ImportFacts DEF DeleteDi, ActiveKept
<1>5. CASE \E j \in Jobs, file \in Files, decision \in Decisions, sync \in BOOLEAN :
              StartImport(j, file, decision, sync)
  BY <1>1, <1>5 DEF StartImport
<1>6. ASSUME NEW j \in Jobs, RunStep(j) PROVE ActiveKept
  <2>1. CASE FreeDeletedRef(j) \/ Bump(j) \/ SaveRow(j)
    <3>1. ASSUME NEW r \in Refs, base[r] = "active" PROVE base'[r] # "none" /\ owner'[r] = owner[r]
      BY <2>1, <3>1, RowWrites
    <3>2. QED
      BY <3>1 DEF ActiveKept
  <2>2. CASE MarkRunning(j) \/ Complete(j) \/ IncrementProgress(j) \/ FailJob(j)
    BY <1>1, <2>2, DocumentMoves
  <2>3. CASE ResolveRow(j) \/ CreateClient(j) \/ SyncLocation(j)
    BY <1>1, <2>3, ResolveMoves, CreateMoves, SyncMoves
  <2>4. QED
    BY <1>6, <2>1, <2>2, <2>3 DEF RunStep
<1>7. QED
  BY <1>2, <1>3, <1>4, <1>5, <1>6 DEF ImportJobNext

\* The steps that lose no reference: what is out of the base is in the hands of a run as before.
LEMMA RefsFollow ==
    ASSUME ImportIInv, NoRefLost, NEW j \in Jobs,
           \A i \in Jobs : i # j => runner'[i] = runner[i], faulted => faulted',
           ~faulted' => \A r \in entered' : base'[r] = "none" =>
              \/ /\ r \in entered /\ base[r] = "none"
                 /\ ~(runner[j].at \in {"bump", "save"} /\ Row(j).ref = r)
              \/ runner'[j].at \in {"bump", "save"} /\ RowAt(runner'[j]).ref = r
    PROVE  NoRefLost'
<1>1. \A i \in Jobs : Row(i) = RowAt(runner[i]) /\ Row(i)' = RowAt(runner'[i])
  BY DEF Row, LineNo, RowAt, NextLine
<1>2. ASSUME ~faulted', NEW r \in entered', base'[r] = "none"
      PROVE  \E i \in Jobs : runner'[i].at \in {"bump", "save"} /\ Row(i)'.ref = r
  <2>1. CASE runner'[j].at \in {"bump", "save"} /\ RowAt(runner'[j]).ref = r
    BY <1>1, <2>1
  <2>2. CASE /\ r \in entered /\ base[r] = "none"
             /\ ~(runner[j].at \in {"bump", "save"} /\ Row(j).ref = r)
    <3>1. PICK i \in Jobs : runner[i].at \in {"bump", "save"} /\ Row(i).ref = r
      BY <1>2, <2>2 DEF NoRefLost
    <3>2. i # j
      BY <2>2, <3>1
    <3>3. runner'[i] = runner[i]
      BY <3>2
    <3>4. QED
      BY <1>1, <3>1, <3>3
  <2>3. QED
    BY <1>2, <2>1, <2>2
<1>3. QED
  BY <1>2 DEF NoRefLost

LEMMA LightKeeps ==
    ASSUME ImportIInv, NoRefLost, NEW j \in Jobs, \A i \in Jobs : i # j => runner'[i] = runner[i],
           Light(j)
    PROVE  NoRefLost'
<1>1. CASE faulted'
  BY <1>1 DEF NoRefLost
<1>2. CASE /\ faulted' = faulted /\ base' = base /\ entered' = entered
           /\ runner[j].at \notin {"bump", "save"}
  BY <1>2, RefsFollow
<1>3. QED
  BY <1>1, <1>2 DEF Light

LEMMA NoRefLostInStep ==
    ASSUME ImportIInv, NoRefLost, [ImportJobNext]_importVars PROVE NoRefLost'
<1>1. CASE runner' = runner /\ faulted' = faulted /\ \A r \in entered' : base'[r] = "none" =>
              r \in entered /\ base[r] = "none"
  <2>1. \A i \in Jobs : Row(i)' = Row(i)
    BY <1>1 DEF Row, LineNo
  <2>2. ASSUME ~faulted', NEW r \in entered', base'[r] = "none"
        PROVE  \E i \in Jobs : runner'[i].at \in {"bump", "save"} /\ Row(i)'.ref = r
    <3>1. PICK i \in Jobs : runner[i].at \in {"bump", "save"} /\ Row(i).ref = r
      BY <1>1, <2>2 DEF NoRefLost
    <3>2. QED
      BY <1>1, <2>1, <3>1
  <2>3. QED
    BY <2>2 DEF NoRefLost
<1>2. CASE UNCHANGED importVars
  BY <1>1, <1>2 DEF importVars
<1>3. CASE DrawRef \/ RemoveTier
  BY <1>1, <1>3 DEF DrawRef, RemoveTier
<1>4. CASE SaveDrawn
  <2>1. \A r \in entered' : base'[r] = "none" => r \in entered /\ base[r] = "none"
    BY <1>4, ImportFacts DEF SaveDrawn, InBaseNow
  <2>2. runner' = runner /\ faulted' = faulted
    BY <1>4 DEF SaveDrawn
  <2>3. QED
    BY <1>1, <2>1, <2>2
<1>5. CASE Restart
  BY <1>5 DEF Restart, Fault, NoRefLost
<1>6. CASE \E ref \in Refs : DeleteDi(ref)
  <2>1. \A r \in entered' : base'[r] = "none" => r \in entered /\ base[r] = "none"
    BY <1>6, ImportFacts DEF DeleteDi
  <2>2. runner' = runner /\ faulted' = faulted
    BY <1>6 DEF DeleteDi
  <2>3. QED
    BY <1>1, <2>1, <2>2
<1>7. ASSUME NEW j \in Jobs, NEW file \in Files, NEW decision \in Decisions, NEW sync \in BOOLEAN,
             StartImport(j, file, decision, sync)
      PROVE  NoRefLost'
  <2>1. \A i \in Jobs : i # j => runner'[i] = runner[i]
    BY <1>7, ImportFacts DEF StartImport, Run
  <2>2. Light(j)
    BY <1>7 DEF StartImport, Light
  <2>3. QED
    BY <2>1, <2>2, LightKeeps
<1>8. ASSUME NEW j \in Jobs, RunStep(j) PROVE NoRefLost'
  <2>1. CASE FreeDeletedRef(j) \/ Bump(j) \/ SaveRow(j)
    <3>1. /\ \A i \in Jobs : i # j => runner'[i] = runner[i]
          /\ Row(j).ref \in Refs /\ \A r \in Refs : r # Row(j).ref => base'[r] = base[r]
          /\ entered' \subseteq entered \cup {Row(j).ref}
          /\ ~faulted' /\ base'[Row(j).ref] = "none" =>
                runner'[j].at \in {"bump", "save"} /\ RowAt(runner'[j]).ref = Row(j).ref
      BY <2>1, RowWrites DEF Moves
    <3>2. faulted => faulted'
      BY <2>1 DEF FreeDeletedRef, Bump, SaveRow, Fault
    <3>3. entered \subseteq Refs
      BY ImportFacts
    <3>4. ~faulted' => \A r \in entered' : base'[r] = "none" =>
              \/ /\ r \in entered /\ base[r] = "none"
                 /\ ~(runner[j].at \in {"bump", "save"} /\ Row(j).ref = r)
              \/ runner'[j].at \in {"bump", "save"} /\ RowAt(runner'[j]).ref = r
      BY <3>1, <3>3
    <3>5. QED
      BY <3>1, <3>2, <3>4, RefsFollow
  <2>2. CASE MarkRunning(j) \/ Complete(j) \/ IncrementProgress(j) \/ FailJob(j)
    BY <2>2, DocumentMoves, LightKeeps DEF Moves
  <2>3. CASE ResolveRow(j)
    BY <2>3, ResolveMoves, LightKeeps DEF Moves
  <2>4. CASE CreateClient(j)
    BY <2>4, CreateMoves, LightKeeps
  <2>5. CASE SyncLocation(j)
    BY <2>5, SyncMoves, LightKeeps DEF Moves
  <2>6. QED
    BY <1>8, <2>1, <2>2, <2>3, <2>4, <2>5 DEF RunStep
<1>9. QED
  BY <1>2, <1>3, <1>4, <1>5, <1>6, <1>7, <1>8 DEF ImportJobNext

----------------------------------------------------------------------------
(* One client for a name.                                                  *)

Lone(j) == runner[j].at # "idle" /\ \A i \in Jobs \ {j} : runner[i].at = "idle"

\* What a lone run knows of the clients s has seen: two of a name were there before it, a name it
\* knows no client of has none, and it creates one for such a name only.
OnePerName(s) ==
    /\ \A i, k \in DOMAIN clients : i # k /\ clients[i].name = clients[k].name =>
          \/ clients[i].deleted \/ clients[k].deleted
          \/ {i, k} \subseteq s.snap.clientIds
    /\ \A n \in Names : s.snap.client[n] = 0 =>
          \A i \in DOMAIN clients : clients[i].name = n => clients[i].deleted
    /\ s.at = "client" => s.snap.client[RowAt(s).name] = 0
NamesInv == \A j \in Jobs : Lone(j) => OnePerName(runner[j])

LEMMA NamesFollow ==
    ASSUME NamesInv, UNCHANGED clients, NEW j \in Jobs, Moves(j)
    PROVE  NamesInv'
<1>1. ASSUME NEW k \in Jobs, Lone(k)' PROVE OnePerName(runner[k])'
  <2>1. k = j
    BY <1>1 DEF Lone, Moves
  <2>2. Lone(j)
    BY <1>1, <2>1 DEF Lone, Moves
  <2>3. OnePerName(runner[j])
    BY <2>2 DEF NamesInv
  <2>4. QED
    BY <2>1, <2>3 DEF OnePerName, Moves
<1>2. QED
  BY <1>1 DEF NamesInv

\* The users only delete clients.
LEMMA NamesStay ==
    ASSUME NamesInv, UNCHANGED runner, DOMAIN clients' = DOMAIN clients,
           \A i \in DOMAIN clients : /\ clients'[i].name = clients[i].name
                                     /\ clients[i].deleted => clients'[i].deleted
    PROVE  NamesInv'
<1>1. ASSUME NEW k \in Jobs, Lone(k)' PROVE OnePerName(runner[k])'
  <2>1. Lone(k)
    BY <1>1 DEF Lone
  <2>2. OnePerName(runner[k])
    BY <2>1 DEF NamesInv
  <2>3. QED
    BY <2>2 DEF OnePerName, RowAt, NextLine
<1>2. QED
  BY <1>1 DEF NamesInv

LEMMA NamesInStep ==
    ASSUME ImportIInv, NamesInv, [ImportJobNext]_importVars PROVE NamesInv'
<1>1. clients \in Seq(Client) /\ Len(clients) \in Nat /\ DOMAIN clients = 1..Len(clients)
  BY ImportFacts
<1>2. CASE UNCHANGED <<runner, clients>>
  BY <1>2, NamesStay
<1>3. CASE DrawRef \/ SaveDrawn \/ UNCHANGED importVars \/ \E ref \in Refs : DeleteDi(ref)
  BY <1>2, <1>3 DEF DrawRef, SaveDrawn, DeleteDi, importVars
<1>4. CASE RemoveTier
  <2>1. UNCHANGED runner
    BY <1>4 DEF RemoveTier
  <2>2. CASE UNCHANGED clients
    BY <1>2, <2>1, <2>2
  <2>3. ASSUME NEW i \in DOMAIN clients, clients' = [clients EXCEPT ![i].deleted = TRUE]
        PROVE  NamesInv'
    <3>1. DOMAIN clients' = DOMAIN clients
      BY <2>3
    <3>2. ASSUME NEW k \in DOMAIN clients
          PROVE  clients'[k].name = clients[k].name /\ (clients[k].deleted => clients'[k].deleted)
      <4>1. clients[k] \in Client
        BY <1>1, ElementOfSeq
      <4>2. CASE k = i
        <5>1. clients'[k] = [clients[k] EXCEPT !.deleted = TRUE]
          BY <2>3, <4>2
        <5>2. QED
          BY <4>1, <5>1 DEF Client
      <4>3. CASE k # i
        BY <2>3, <4>3
      <4>4. QED
        BY <4>2, <4>3
    <3>3. QED
      BY <2>1, <3>1, <3>2, NamesStay
  <2>4. QED
    BY <1>4, <2>2, <2>3 DEF RemoveTier
<1>5. CASE Restart
  <2>1. /\ UNCHANGED clients
        /\ runner' = [j \in Jobs |-> IF runner[j].at = "idle" THEN runner[j]
                                     ELSE [runner[j] EXCEPT !.at = "over"]]
    BY <1>5 DEF Restart
  <2>2. ASSUME NEW k \in Jobs
        PROVE  /\ runner'[k].at = "idle" <=> runner[k].at = "idle"
               /\ runner'[k].snap = runner[k].snap
               /\ runner[k].at # "idle" => runner'[k].at = "over"
    <3>1. runner[k] \in RunState
      BY ImportFacts
    <3>2. CASE runner[k].at = "idle"
      BY <2>1, <3>2
    <3>3. CASE runner[k].at # "idle"
      <4>1. runner'[k] = [runner[k] EXCEPT !.at = "over"]
        BY <2>1, <3>3
      <4>2. runner'[k].at = "over" /\ runner'[k].snap = runner[k].snap
        BY <3>1, <4>1 DEF RunState
      <4>3. QED
        BY <3>3, <4>2
    <3>4. QED
      BY <3>2, <3>3
  <2>3. ASSUME NEW k \in Jobs, Lone(k)' PROVE OnePerName(runner[k])'
    <3>1. Lone(k)
      BY <2>2, <2>3 DEF Lone
    <3>2. OnePerName(runner[k])
      BY <3>1 DEF NamesInv
    <3>3. runner'[k].at = "over" /\ runner'[k].snap = runner[k].snap
      BY <2>2, <3>1 DEF Lone
    <3>4. QED
      BY <2>1, <3>2, <3>3 DEF OnePerName
  <2>4. QED
    BY <2>3 DEF NamesInv
<1>6. ASSUME NEW j \in Jobs, NEW file \in Files, NEW decision \in Decisions, NEW sync \in BOOLEAN,
             StartImport(j, file, decision, sync)
      PROVE  NamesInv'
  <2>1. PICK at \in {"start", "over", "row"} :
           /\ Run(j, Started(at, sync, file, RowsKept(file, Snapshot, decision), Snapshot, decision))
           /\ UNCHANGED clients
    <3>1. PICK at \in {"start", "over", "row"} :
             at = IF ~sync THEN "start"
                  ELSE IF RowsKept(file, Snapshot, decision) = {} THEN "over" ELSE "row"
      OBVIOUS
    <3>2. QED
      BY <1>6, <3>1 DEF StartImport, Started
  <2>2. /\ runner'[j].at = at /\ runner'[j].snap = Snapshot
        /\ \A i \in Jobs : i # j => runner'[i] = runner[i]
    <3>1. /\ runner'[j] = Started(at, sync, file, RowsKept(file, Snapshot, decision), Snapshot, decision)
          /\ \A i \in Jobs : i # j => runner'[i] = runner[i]
      BY <2>1, ImportFacts DEF Run
    <3>2. QED
      BY <3>1, IdleRunTyped DEF Started, RunState
  <2>3. ASSUME NEW k \in Jobs, Lone(k)' PROVE OnePerName(runner[k])'
    <3>1. k = j
      BY <2>2, <2>3 DEF Lone
    <3>2. Snapshot.clientIds = ClientIds /\ \A n \in Names : Snapshot.client[n] = FirstClient(n)
      BY DEF Snapshot
    <3>3. \A i, k1 \in DOMAIN clients : clients[i].deleted \/ clients[k1].deleted
                                         \/ {i, k1} \subseteq Snapshot.clientIds
      BY <3>2 DEF ClientIds
    <3>4. \A n \in Names : Snapshot.client[n] = 0 =>
             \A i \in DOMAIN clients : clients[i].name = n => clients[i].deleted
      BY <3>2, FirstClientThere DEF ClientIds
    <3>5. runner'[k].at # "client" /\ runner'[k].snap = Snapshot /\ clients' = clients
      BY <2>1, <2>2, <3>1
    <3>6. QED
      BY <3>3, <3>4, <3>5 DEF OnePerName
  <2>4. QED
    BY <2>3 DEF NamesInv
<1>7. ASSUME NEW j \in Jobs, RunStep(j) PROVE NamesInv'
  <2>1. CASE Moves(j) /\ UNCHANGED clients
    BY <2>1, NamesFollow
  <2>2. CASE CreateClient(j)
    <3>1. CASE /\ clients' = Append(clients, [name |-> Row(j).name, deleted |-> FALSE])
               /\ runner'[j].at = "free" /\ runner'[j].snap.client[Row(j).name] # 0
               /\ \A n \in Names : n # Row(j).name =>
                     runner'[j].snap.client[n] = runner[j].snap.client[n]
               /\ runner'[j].snap.clientIds = runner[j].snap.clientIds
      <4>1. /\ runner[j].at = "client" /\ \A i \in Jobs : i # j => runner'[i] = runner[i]
            /\ Row(j) = RowAt(runner[j]) /\ Row(j).name \in Names
        BY <2>2, CreateMoves, RunInHand, RowReachedBy DEF RowSteps
      <4>2. PICK new \in Client : new = [name |-> Row(j).name, deleted |-> FALSE]
        BY <4>1 DEF Client
      <4>3. /\ DOMAIN clients' = 1..(Len(clients) + 1)
            /\ \A i \in 1..Len(clients) : clients'[i] = clients[i]
            /\ clients'[Len(clients) + 1] = new
        <5>1. clients' = Append(clients, new)
          BY <3>1, <4>2
        <5>2. /\ clients' \in Seq(Client) /\ Len(clients') = Len(clients) + 1
              /\ \A i \in 1..Len(clients) : clients'[i] = clients[i]
              /\ clients'[Len(clients) + 1] = new
          BY <1>1, <5>1, AppendProperties
        <5>3. QED
          BY <5>2, LenProperties
      <4>4. ASSUME NEW k \in Jobs, Lone(k)' PROVE OnePerName(runner[k])'
        <5>1. k = j
          BY <3>1, <4>1, <4>4 DEF Lone
        <5>2. Lone(j)
          BY <4>1, <4>4, <5>1 DEF Lone
        <5>3. OnePerName(runner[j])
          BY <5>2 DEF NamesInv
        <5>4. \A i \in 1..Len(clients) : clients[i].name = new.name => clients[i].deleted
          BY <1>1, <4>1, <4>2, <5>3 DEF OnePerName
        <5>5. \A i \in DOMAIN clients' :
                 \/ i \in 1..Len(clients) /\ clients'[i] = clients[i]
                 \/ i = Len(clients) + 1 /\ clients'[i] = new
          BY <1>1, <4>3
        <5>6. \A i, m \in DOMAIN clients' : i # m /\ clients'[i].name = clients'[m].name =>
                 \/ clients'[i].deleted \/ clients'[m].deleted
                 \/ {i, m} \subseteq runner'[j].snap.clientIds
          BY <1>1, <3>1, <5>3, <5>4, <5>5 DEF OnePerName
        <5>7. \A n \in Names : runner'[j].snap.client[n] = 0 =>
                 \A i \in DOMAIN clients' : clients'[i].name = n => clients'[i].deleted
          <6>1. ASSUME NEW n \in Names, runner'[j].snap.client[n] = 0, NEW i \in DOMAIN clients',
                       clients'[i].name = n
                PROVE  clients'[i].deleted
            <7>1. n # Row(j).name /\ runner[j].snap.client[n] = 0
              BY <3>1, <6>1
            <7>2. new.name = Row(j).name
              BY <4>2
            <7>3. i \in 1..Len(clients) /\ clients'[i] = clients[i]
              BY <5>5, <6>1, <7>1, <7>2
            <7>4. QED
              BY <1>1, <5>3, <6>1, <7>1, <7>3 DEF OnePerName
          <6>2. QED
            BY <6>1
        <5>8. QED
          BY <3>1, <5>1, <5>6, <5>7 DEF OnePerName
      <4>5. QED
        BY <4>4 DEF NamesInv
    <3>2. QED
      BY <2>1, <2>2, <3>1, CreateMoves
  <2>3. CASE FreeDeletedRef(j) \/ Bump(j) \/ SaveRow(j)
    BY <2>1, <2>3, RowWrites
  <2>4. CASE MarkRunning(j) \/ Complete(j) \/ IncrementProgress(j) \/ FailJob(j)
    BY <2>1, <2>4, DocumentMoves
  <2>5. CASE ResolveRow(j)
    BY <2>1, <2>5, ResolveMoves
  <2>6. CASE SyncLocation(j)
    BY <2>1, <2>6, SyncMoves
  <2>7. QED
    BY <1>7, <2>2, <2>3, <2>4, <2>5, <2>6 DEF RunStep
<1>8. QED
  BY <1>3, <1>4, <1>5, <1>6, <1>7 DEF ImportJobNext

LEMMA ImportHolds == ImportIInv /\ NoRefLost /\ NamesInv => ImportInv
<1> SUFFICES ASSUME ImportIInv, NoRefLost, NamesInv PROVE ImportInv
  OBVIOUS
<1>1. ImportJobTypeOK
  <2>1. \A j \in Jobs : runner[j].at \in RunSteps
    BY ImportFacts DEF RunState
  <2>2. /\ clients \in Seq([name: Names, deleted: BOOLEAN])
        /\ job \in [Jobs -> [status: JobStatus, total: Nat, done: Nat]]
    BY ImportFacts DEF Client, JobDocument
  <2>3. QED
    BY <2>1, <2>2, ImportFacts DEF ImportJobTypeOK
<1>2. CounterAhead
  BY DEF ImportIInv, CounterInv
<1>3. AttachedToKnown
  BY RunInHand DEF AttachedToKnown, RunHolds, Known
<1>4. OneClientPerName
  BY DEF NamesInv, Lone, OnePerName, OneClientPerName
<1>5. CompletedIsWhole
  BY RunInHand DEF CompletedIsWhole, JobHolds, Counts
<1>6. NoJobStranded
  BY RunInHand DEF NoJobStranded, JobHolds, RowSteps
<1>7. QED
  BY <1>1, <1>2, <1>3, <1>4, <1>5, <1>6 DEF ImportInv

\* What the imports owe the base they work beside: the counter of references ahead of the base
\* whoever draws or imports, no reference lost unless a write fails, tiers that are known, one
\* client for a name however many rows carry it, a completed job that counted every row, and no
\* job left unsettled.
THEOREM ImportInvariant == ImportJobSpec => []ImportInv
<1>1. ImportJobInit => ImportIInv /\ NoRefLost /\ NamesInv
  BY ImportInitInv DEF ImportJobInit, NoRefLost, NamesInv, Lone, IdleRun
<1>2. ImportIInv /\ NoRefLost /\ NamesInv /\ [ImportJobNext]_importVars
         => (ImportIInv /\ NoRefLost /\ NamesInv)'
  BY ImportStepInv, NoRefLostInStep, NamesInStep
<1>3. QED
  BY <1>1, <1>2, ImportHolds, PTL DEF ImportJobSpec

\* No step, of an import or of a user, takes an active DI out of the base or changes its tier.
THEOREM ActiveDisStay == ImportJobSpec => [][ActiveKept]_importVars
<1>1. ImportJobInit => ImportIInv
  BY ImportInitInv
<1>2. ImportIInv /\ [ImportJobNext]_importVars => ImportIInv'
  BY ImportStepInv
<1>3. ImportIInv /\ [ImportJobNext]_importVars => [ActiveKept]_importVars
  BY ActiveKeptInStep
<1>4. QED
  BY <1>1, <1>2, <1>3, PTL DEF ImportJobSpec

=============================================================================
