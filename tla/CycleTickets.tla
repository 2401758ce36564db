---------------------------- MODULE CycleTickets ---------------------------
(***************************************************************************)
(* The ticket of parts and the price of a DI, cycle by cycle.  The first   *)
(* cycle keeps them on the DI, a retour on the LogsDi row of its number    *)
(* (src/src/di/di.service.ts, src/src/logs-di/logs-di.service.ts).  Every  *)
(* request reads the DI, then writes the place that reading pointed at.    *)
(***************************************************************************)
EXTENDS Integers, Sequences, FiniteSets

CONSTANTS
    Asks,        \* the requests in flight at once
    TicketNames, \* names a part of the catalogue may have
    Tickets,     \* the tickets a technician may save: sequences of names
    MaxAsks,     \* bound on the requests
    MaxLogRows   \* bound on the LogsDi rows

ASSUME TicketBounds ==
    /\ Tickets \subseteq Seq(TicketNames)
    /\ MaxAsks \in Nat /\ MaxLogRows \in Nat

VARIABLES
    ignoreCount, \* the open cycle: 0, or the number of the retour
    payant,      \* diagnosticPayant
    ofDi,        \* the ticket and prices kept on the DI
    logRows,     \* the LogsDi rows, oldest first
    sold,        \* the names of the catalogue, each part sold at 1
    ask,         \* ask[q]: the request in flight
    asked,       \* the requests so far
    together,    \* history: two requests were in flight at once
    dealt        \* history: managerAdminManager_InMagasin wrote a price

ticketVars == <<ignoreCount, payant, ofDi, logRows, sold, ask, asked, together, dealt>>

MaxIgnore == 3
Unpriced == [lines |-> <<>>, price |-> 0, final |-> 0]
NoAsk == [op |-> "none", cycle |-> 0, lines |-> <<>>, price |-> 0, final |-> 0,
          part |-> {}, payant |-> TRUE]

CycleData == [lines : Seq([part : TicketNames, done : BOOLEAN]), price : 0..1, final : 0..1]

TicketTypeOK ==
    /\ ignoreCount \in 0..MaxIgnore /\ payant \in BOOLEAN
    /\ ofDi \in CycleData
    /\ \A i \in DOMAIN logRows : logRows[i].cycle \in 1..MaxIgnore /\ logRows[i].data \in CycleData
    /\ \A q \in Asks : ask[q].cycle \in 0..MaxIgnore
    /\ asked \in 0..MaxAsks

CycleTicketsInit ==
    /\ ignoreCount = 0 /\ payant = TRUE
    /\ ofDi = Unpriced /\ logRows = <<>>
    /\ sold \in SUBSET TicketNames \ {{}}
    /\ ask = [q \in Asks |-> NoAsk]
    /\ asked = 0 /\ together = FALSE /\ dealt = FALSE

----------------------------------------------------------------------------
(* Where a cycle is kept, and what it is worth.                            *)

\* findOne({_idDi, idIgnore}): a later row of the same cycle is never reached.
\* Mutant of RowOf: the latest row of the cycle.
RowsOf(rows, c) == {i \in DOMAIN rows : rows[i].cycle = c}
RowOfLast(rows, c) == {i \in RowsOf(rows, c) : \A j \in RowsOf(rows, c) : j <= i}
RowOf(rows, c) == {i \in RowsOf(rows, c) : \A j \in RowsOf(rows, c) : i <= j}

DataOf(di, rows, c) == IF c = 0 THEN {di} ELSE {rows[i].data : i \in RowOf(rows, c)}

\* A line whose name is not in the catalogue counts for nothing, and no row is worth 0.
Estimate(di, rows, c, names) ==
    Cardinality(UNION {{i \in DOMAIN data.lines : data.lines[i].part \in names} :
                       data \in DataOf(di, rows, c)})

\* Mutant of Place: the retour is written on the DI.
PlaceDi(c) == 0
Place(c) == c

\* What stands where the cycle c is kept: nothing when its row is not there.
Current(c) == DataOf(ofDi, logRows, Place(c))

\* Without a row the price is lost with no error; the other writes are refused.
WriteData(c, written) ==
    IF Place(c) = 0 THEN ofDi' \in written /\ UNCHANGED logRows
    ELSE /\ logRows' = [i \in DOMAIN logRows |-> IF i \in RowOf(logRows, c)
                           THEN [logRows[i] EXCEPT !.data = CHOOSE new \in written : TRUE]
                           ELSE logRows[i]]
         /\ UNCHANGED ofDi

----------------------------------------------------------------------------
(* The first half of a request: the DI is read, the guards are tried.      *)

Read(q, request) ==
    /\ ask[q].op = "none" /\ asked < MaxAsks
    /\ ask' = [ask EXCEPT ![q] = [request EXCEPT !.cycle = ignoreCount]]
    /\ asked' = asked + 1
    /\ together' = (together \/ \E r \in Asks : ask[r].op # "none")
    /\ UNCHANGED <<ignoreCount, payant, ofDi, logRows, sold, dealt>>

\* A diagnostic that is not billed takes no positive price, a billed one takes no other.
affectinitialPrice(q, price) ==
    /\ payant <=> price > 0
    /\ Read(q, [NoAsk EXCEPT !.op = "price", !.price = price])

managerAdminManager_InMagasin(q, price, final) ==
    Read(q, [NoAsk EXCEPT !.op = "nego", !.price = price, !.final = final])

\* Mutant of PayantLocked: the price of the first cycle does not lock the flag.
PayantLockedNever == FALSE
PayantLocked == ofDi.price > 0

setDiagnosticPayant(q, flag) ==
    /\ ~PayantLocked
    /\ Read(q, [NoAsk EXCEPT !.op = "payant", !.payant = flag])

\* The form offers the names of the catalogue.
tech_startDiagnostic(q, names) ==
    /\ \A i \in DOMAIN names : names[i] \in sold
    /\ Read(q, [NoAsk EXCEPT !.op = "ticket",
                !.lines = [i \in DOMAIN names |-> [part |-> names[i], done |-> FALSE]]])

setSelectedComponentAsDone(q, n) == Read(q, [NoAsk EXCEPT !.op = "done", !.part = {n}])

countIgnore(q) == Read(q, [NoAsk EXCEPT !.op = "retour"])

\* createStat in a retour makes a row, on a second assignment and a refused one too.
createStat(q) ==
    /\ ignoreCount > 0
    /\ Read(q, [NoAsk EXCEPT !.op = "row"])

----------------------------------------------------------------------------
(* The second half: the write.                                             *)

Over(q, op) ==
    /\ ask[q].op = op
    /\ ask' = [ask EXCEPT ![q] = NoAsk]
    /\ UNCHANGED <<sold, asked, together>>

SavePrice(q) ==
    /\ Over(q, "price")
    /\ LET c == ask[q].cycle IN
       WriteData(c, {[data EXCEPT !.price = ask[q].price] : data \in Current(c)})
    /\ UNCHANGED <<ignoreCount, payant, dealt>>

\* savePricing keeps the last final price of a retour when the new one is 0.
SaveNego(q) ==
    /\ Over(q, "nego")
    /\ LET c == ask[q].cycle
           keeps == c > 0 /\ ask[q].final = 0
       IN WriteData(c, {[data EXCEPT !.price = ask[q].price,
                                     !.final = IF keeps THEN @ ELSE ask[q].final] :
                        data \in Current(c)})
    /\ dealt' = TRUE
    /\ UNCHANGED <<ignoreCount, payant>>

SavePayant(q) ==
    /\ Over(q, "payant")
    /\ payant' = ask[q].payant
    /\ UNCHANGED <<ignoreCount, ofDi, logRows, dealt>>

SaveTicket(q) ==
    /\ Over(q, "ticket")
    /\ LET c == ask[q].cycle IN
       WriteData(c, {[data EXCEPT !.lines = ask[q].lines] : data \in Current(c)})
    /\ UNCHANGED <<ignoreCount, payant, dealt>>

\* The positional operator marks the first line of that name.
SaveDone(q) ==
    /\ Over(q, "done")
    /\ LET Named(lines, i) == lines[i].part \in ask[q].part
           First(lines, i) == Named(lines, i) /\ \A j \in 1..(i - 1) : ~Named(lines, j)
           Marked(lines) == [i \in DOMAIN lines |->
               IF First(lines, i) THEN [lines[i] EXCEPT !.done = TRUE] ELSE lines[i]]
           c == ask[q].cycle
       IN WriteData(c, {[data EXCEPT !.lines = Marked(@)] : data \in Current(c)})
    /\ UNCHANGED <<ignoreCount, payant, dealt>>

SaveRetour(q) ==
    /\ Over(q, "retour")
    /\ ignoreCount' = IF ask[q].cycle < MaxIgnore THEN ask[q].cycle + 1 ELSE ask[q].cycle
    /\ UNCHANGED <<payant, ofDi, logRows, dealt>>

CreateLogRow(q) ==
    /\ Over(q, "row")
    /\ Len(logRows) < MaxLogRows
    /\ logRows' = Append(logRows, [cycle |-> ask[q].cycle, data |-> Unpriced])
    /\ UNCHANGED <<ignoreCount, payant, ofDi, dealt>>

\* addComposantInfo renames the lines of the DIs, not those of the LogsDi rows.
\* Mutant of RenamedLines: the lines of the DI keep the old name.
RenamedLinesNot(lines, old, new) == lines
RenamedLines(lines, old, new) ==
    [i \in DOMAIN lines |-> IF lines[i].part = old THEN [lines[i] EXCEPT !.part = new] ELSE lines[i]]

RenamePart(old, new) ==
    /\ old \in sold /\ new \notin sold
    /\ asked < MaxAsks /\ asked' = asked + 1
    /\ sold' = (sold \ {old}) \cup {new}
    /\ ofDi' = [ofDi EXCEPT !.lines = RenamedLines(@, old, new)]
    /\ together' = (together \/ \E r \in Asks : ask[r].op # "none")
    /\ UNCHANGED <<ignoreCount, payant, logRows, ask, dealt>>

CycleTicketsNext ==
    \/ \E q \in Asks :
          \/ \E v \in 0..1 : affectinitialPrice(q, v)
          \/ \E v, f \in 0..1 : managerAdminManager_InMagasin(q, v, f)
          \/ \E flag \in BOOLEAN : setDiagnosticPayant(q, flag)
          \/ \E names \in Tickets : tech_startDiagnostic(q, names)
          \/ \E n \in TicketNames : setSelectedComponentAsDone(q, n)
          \/ countIgnore(q) \/ createStat(q)
          \/ SavePrice(q) \/ SaveNego(q) \/ SavePayant(q) \/ SaveTicket(q)
          \/ SaveDone(q) \/ SaveRetour(q) \/ CreateLogRow(q)
    \/ \E old, new \in TicketNames : RenamePart(old, new)

CycleTicketsSpec == CycleTicketsInit /\ [][CycleTicketsNext]_ticketVars

----------------------------------------------------------------------------
(* What the cycles promise.                                                *)

\* When the requests came one at a time, no step changes the ticket or the prices of a
\* cycle that is over: a rename only gives its lines their new name.
ClosedCyclesKept ==
    ~together' /\ sold' = sold =>
        \A c \in 0..(ignoreCount - 1) :
            DataOf(ofDi', logRows', c) = DataOf(ofDi, logRows, c)

\* When the requests came one at a time, the estimate of the open cycle changes only when a ticket is saved, or, in a retour,
\* when a part is renamed: neither a second assignment nor a price touches it.
EstimateSteady ==
    /\ ~together' /\ ignoreCount' = ignoreCount
    /\ ignoreCount = 0 \/ sold' = sold
    /\ \A q \in Asks : ask[q].op = "ticket" => ask'[q] = ask[q]
    => Estimate(ofDi', logRows', ignoreCount, sold')
         = Estimate(ofDi, logRows, ignoreCount, sold)

\* A diagnostic that is not billed has no price on its DI, when the requests came one at
\* a time and the negotiation, which has no such guard, wrote none.
NonPayantNotPriced == ~together /\ ~dealt /\ ~payant => ofDi.price = 0

\* The prices of the cycles: their types, and none on a diagnostic that is not billed.
TicketsInv == TicketTypeOK /\ NonPayantNotPriced
=============================================================================
