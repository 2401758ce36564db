-------------------------- MODULE DiagTime_proofs --------------------------
(***************************************************************************)
(* Theorems about the billed time and the assignments of a diagnostic      *)
(* (DiagTime), for any number of requests, technicians, rows and ticks.    *)
(***************************************************************************)
EXTENDS DiagTime, Integers, SequenceTheorems, WellFoundedInduction, TLAPS

\* The types, with the bounds that keep the billed time within the clock.
TimeTypes ==
    /\ diStatus \in CycleStatus
    /\ now \in Times
    /\ statRows \in Seq(StatDoc) /\ Len(statRows) <= MaxRows
    /\ worked \in [1..MaxRows -> Times]
    /\ \A i \in 1..MaxRows : worked[i] <= now
    /\ request \in [Requests -> RequestState]
    /\ overlapped \in BOOLEAN

SharesIn(history, time) ==
    \A j \in DOMAIN history : history[j].start + history[j].time <= time

\* A row bills, open leg included, no more than what was worked on it.
RowOK(row, clock, work) ==
    /\ row.anchor # NoDate => row.anchor <= clock /\ row.time + (clock - row.anchor) <= work
    /\ row.time <= work
    /\ SharesIn(row.history, row.time)

\* A leg read to be closed: at most the work done; and as long as the leg of the row is
\* that one, or was closed and could be opened again at that very time, the time read is
\* the time of the row.
LegHeld(q, row, clock, work) ==
    q.at = "closed" /\ q.anchor # NoDate =>
        /\ q.anchor <= q.stop /\ q.stop <= clock /\ q.anchor <= row.anchor
        /\ q.time + (q.stop - q.anchor) <= work
        /\ row.anchor = q.anchor \/ (row.anchor = NoDate /\ clock = q.anchor)
              => row.time = q.time

\* A document read to be saved: the row only grows, and its history is the one read if its
\* version is.
DocHeld(q, row) ==
    q.at \in {"assign", "abandon"} =>
        /\ q.time <= row.time /\ SharesIn(q.history, row.time)
        /\ q.version <= row.version
        /\ q.version = row.version => q.history = row.history

\* The request works on the oldest row.
UsesRow(q) ==
    \/ q.at \in {"start", "open", "close", "closed", "settle", "abandon"}
    \/ q.at = "assign" /\ q.seen # 0

Held(q, row, clock, work) == LegHeld(q, row, clock, work) /\ DocHeld(q, row)

RowsInv == \A i \in 1..Len(statRows) : RowOK(statRows[i], now, worked[i])
HeldInv == \A r \in Requests : UsesRow(request[r]) =>
    statRows # <<>> /\ Held(request[r], statRows[1], now, worked[1])

\* A request that creates a row has found no time to count from.
SeenInv == \A r \in Requests :
    /\ request[r].seen \in {0, 1}
    /\ request[r].at = "assign" =>
          request[r].tech \in Techs /\ (request[r].seen = 0 => request[r].time = 0)

\* Without an overlap one request at most is in flight, and one that found no row still
\* finds none.
SerialInv == ~overlapped =>
    /\ Len(statRows) <= 1
    /\ \A r, q \in Requests : request[r].at # "idle" /\ request[q].at # "idle" => r = q
    /\ \A r \in Requests : request[r].at = "assign" /\ request[r].seen = 0 => statRows = <<>>

TimeIInv == TimeTypes /\ RowsInv /\ HeldInv /\ SeenInv /\ SerialInv

----------------------------------------------------------------------------
(* Sequences and sets of numbers.                                          *)

\* A non-empty set of numbers has a least one, and a greatest one below a bound.
LEMMA HasMin ==
    ASSUME NEW T, T \subseteq Nat, T # {}
    PROVE  \E x \in T : \A y \in T : x <= y
<1>1. PICK x \in T : \A y \in T : ~(<<y, x>> \in OpToRel(<, Nat))
  BY NatLessThanWellFounded, WFMin, Zenon
<1>2. \A y \in T : y < x => <<y, x>> \in OpToRel(<, Nat)
  BY Zenon DEF OpToRel
<1>3. \A y \in T : ~(y < x)
  BY <1>1, <1>2, Zenon
<1>4. QED
  BY <1>3

LEMMA HasMax ==
    ASSUME NEW n \in Nat, NEW T, T \subseteq 1..n, T # {}
    PROVE  \E x \in T : \A y \in T : y <= x
<1> DEFINE mirror == {n - y : y \in T}
<1>1. mirror \subseteq Nat /\ mirror # {}
  <2>1. \A y \in T : n - y \in Nat
    OBVIOUS
  <2>2. QED
    BY <2>1
<1>2. PICK m \in mirror : \A k \in mirror : m <= k
  <2> HIDE DEF mirror
  <2>1. QED
    BY <1>1, HasMin
<1>3. PICK x \in T : m = n - x
  OBVIOUS
<1>4. ASSUME NEW y \in T PROVE y <= x
  <2>1. n - x <= n - y
    BY <1>2, <1>3
  <2>2. x \in Int /\ y \in Int
    OBVIOUS
  <2>3. QED
    BY <2>1, <2>2
<1>5. QED
  BY <1>4

FirstWritten(rows, row) == [rows EXCEPT ![1] = row]

\* The oldest row is written: the others stay.
LEMMA FirstRowWritten ==
    ASSUME NEW rows \in Seq(StatDoc), rows # <<>>, NEW row \in StatDoc
    PROVE  /\ FirstWritten(rows, row) \in Seq(StatDoc)
           /\ Len(FirstWritten(rows, row)) = Len(rows)
           /\ FirstWritten(rows, row) # <<>>
           /\ FirstWritten(rows, row)[1] = row
           /\ \A i \in 1..Len(rows) : i # 1 => FirstWritten(rows, row)[i] = rows[i]
<1>1. Len(rows) \in Nat \ {0}
  BY EmptySeq
<1>2. 1 \in 1..Len(rows)
  BY <1>1
<1>3. QED
  BY <1>1, <1>2, ExceptSeq, EmptySeq DEF FirstWritten

\* The rows exist: the oldest is one of them.
LEMMA OldestRow ==
    ASSUME TimeTypes, statRows # <<>>
    PROVE  /\ 1 \in 1..Len(statRows) /\ Len(statRows) \in Nat /\ MaxRows \in Nat \ {0}
           /\ 1 \in 1..MaxRows
           /\ statRows[1] \in StatDoc
<1>1. Len(statRows) \in Nat \ {0}
  BY EmptySeq DEF TimeTypes
<1>2. 1 \in 1..Len(statRows) /\ 1 \in 1..MaxRows
  BY <1>1, DiagTimeBounds
<1>3. QED
  BY <1>1, <1>2, ElementOfSeq, DiagTimeBounds DEF TimeTypes

\* The numbers of a document and of a request.
LEMMA NatTimes == Times \subseteq Nat /\ 0..NoDate \subseteq Nat /\ NoDate \in Nat
                  /\ NoDate \notin Times
  BY DiagTimeBounds DEF Times, NoDate

LEMMA RowFields ==
    ASSUME NEW row \in StatDoc
    PROVE  /\ row.time \in Nat /\ row.time \in Times
           /\ row.anchor \in Nat /\ row.anchor \in 0..NoDate
           /\ row.version \in Nat /\ row.history \in Seq(Assignment) /\ row.tech \in Techs
<1>1. /\ row.time \in Times /\ row.anchor \in 0..NoDate
      /\ row.version \in Nat /\ row.history \in Seq(Assignment) /\ row.tech \in Techs
  BY DEF StatDoc
<1>2. row.time \in Nat /\ row.anchor \in Nat
  BY <1>1, NatTimes
<1>3. QED
  BY <1>1, <1>2

LEMMA HeldFields ==
    ASSUME NEW q \in RequestState
    PROVE  /\ q.time \in Nat /\ q.time \in Times /\ q.stop \in Nat
           /\ q.anchor \in Nat /\ q.anchor \in 0..NoDate
           /\ q.version \in Nat /\ q.history \in Seq(Assignment)
<1>1. /\ q.time \in Times /\ q.stop \in Times /\ q.anchor \in 0..NoDate
      /\ q.version \in Nat /\ q.history \in Seq(Assignment)
  BY DEF RequestState
<1>2. q.time \in Nat /\ q.stop \in Nat /\ q.anchor \in Nat
  BY <1>1, NatTimes
<1>3. QED
  BY <1>1, <1>2

LEMMA EntryFields ==
    ASSUME NEW history \in Seq(Assignment), NEW j \in DOMAIN history
    PROVE  /\ history[j] \in Assignment
           /\ history[j].start \in Nat /\ history[j].time \in Nat
<1>1. history[j] \in Assignment
  BY ElementOfSeq, LenProperties
<1>2. history[j].start \in Times /\ history[j].time \in Times
  BY <1>1 DEF Assignment
<1>3. QED
  BY <1>1, <1>2, NatTimes

\* Shares within a time are within a later one.
LEMMA SharesGrow ==
    ASSUME NEW history \in Seq(Assignment), NEW s \in Nat, NEW t \in Nat,
           SharesIn(history, s), s <= t
    PROVE  SharesIn(history, t)
<1> SUFFICES ASSUME NEW j \in DOMAIN history
             PROVE  history[j].start + history[j].time <= t
  BY DEF SharesIn
<1>1. history[j].start + history[j].time <= s
  BY DEF SharesIn
<1>2. history[j].start \in Nat /\ history[j].time \in Nat
  BY EntryFields
<1>3. QED
  BY <1>1, <1>2

\* A document read remains a past of the row when the row grows.
LEMMA DocHeldKept ==
    ASSUME NEW q \in RequestState, NEW old \in StatDoc, NEW row \in StatDoc,
           DocHeld(q, old), old.time <= row.time, old.version <= row.version,
           row.version = old.version => row.history = old.history
    PROVE  DocHeld(q, row)
<1> SUFFICES ASSUME q.at \in {"assign", "abandon"}
             PROVE  /\ q.time <= row.time /\ SharesIn(q.history, row.time)
                    /\ q.version <= row.version
                    /\ q.version = row.version => q.history = row.history
  BY DEF DocHeld
<1>1. /\ q.time <= old.time /\ SharesIn(q.history, old.time)
      /\ q.version <= old.version
      /\ q.version = old.version => q.history = old.history
  BY DEF DocHeld
<1>2. /\ q.time \in Nat /\ q.version \in Nat /\ q.history \in Seq(Assignment)
      /\ old.time \in Nat /\ old.version \in Nat /\ row.time \in Nat /\ row.version \in Nat
  BY HeldFields, RowFields
<1>3. SharesIn(q.history, row.time)
  BY <1>1, <1>2, SharesGrow
<1>4. q.time <= row.time /\ q.version <= row.version
  BY <1>1, <1>2
<1>5. q.version = row.version => q.version = old.version /\ row.version = old.version
  BY <1>1, <1>2
<1>6. QED
  BY <1>1, <1>3, <1>4, <1>5

----------------------------------------------------------------------------
(* The history of a row.                                                   *)

\* A technician stays where he is, and an abandoned assignment as it is.
HistoryGrows(old, new) ==
    \A j \in DOMAIN old :
        /\ j \in DOMAIN new
        /\ new[j].tech = old[j].tech
        /\ old[j].abandoned => new[j] = old[j]

\* A new assignment, for which nothing is counted yet beyond its snapshot.
LEMMA AppendedHistory ==
    ASSUME NEW history \in Seq(Assignment), NEW entry \in Assignment, NEW bound \in Nat,
           SharesIn(history, bound), entry.start + entry.time <= bound
    PROVE  /\ Append(history, entry) \in Seq(Assignment)
           /\ SharesIn(Append(history, entry), bound)
           /\ HistoryGrows(history, Append(history, entry))
<1>1. /\ Append(history, entry) \in Seq(Assignment)
      /\ DOMAIN history = 1..Len(history) /\ Len(history) \in Nat
      /\ DOMAIN Append(history, entry) = 1..Len(history) + 1
      /\ \A j \in 1..Len(history) : Append(history, entry)[j] = history[j]
      /\ Append(history, entry)[Len(history) + 1] = entry
  BY AppendProperties, LenProperties
<1>2. SharesIn(Append(history, entry), bound)
  <2> SUFFICES ASSUME NEW j \in 1..Len(history) + 1
               PROVE  Append(history, entry)[j].start + Append(history, entry)[j].time <= bound
    BY <1>1 DEF SharesIn
  <2>1. CASE j = Len(history) + 1
    BY <1>1, <2>1
  <2>2. CASE j \in 1..Len(history)
    BY <1>1, <2>2 DEF SharesIn
  <2>3. QED
    BY <1>1, <2>1, <2>2
<1>3. HistoryGrows(history, Append(history, entry))
  <2>1. \A j \in 1..Len(history) : j \in 1..Len(history) + 1
    BY <1>1
  <2>2. QED
    BY <1>1, <2>1 DEF HistoryGrows
<1>4. QED
  BY <1>1, <1>2, <1>3

\* recordDiagAbandon: the last open assignment is closed with what was added to the time
\* since its snapshot, and nothing else is touched.
LEMMA SettledHistory ==
    ASSUME NEW history \in Seq(Assignment), NEW tech \in Techs, NEW time \in Times,
           NEW bound \in Nat, SharesIn(history, bound), time <= bound
    PROVE  /\ Settled(history, tech, time) \in Seq(Assignment)
           /\ SharesIn(Settled(history, tech, time), bound)
           /\ HistoryGrows(history, Settled(history, tech, time))
<1> DEFINE open == {i \in DOMAIN history : ~history[i].abandoned}
           last == CHOOSE i \in open : \A j \in open : j <= i
           ended == [tech |-> tech, start |-> 0, abandoned |-> TRUE, time |-> time]
           share == IF time > history[last].start THEN time - history[last].start ELSE 0
           entry == [history[last] EXCEPT !.abandoned = TRUE, !.time = share]
           settled == [history EXCEPT ![last] = entry]
<1>1. /\ DOMAIN history = 1..Len(history) /\ Len(history) \in Nat
      /\ time \in Nat /\ 0 \in Times
  BY LenProperties, NatTimes, DiagTimeBounds DEF Times
<1>2. CASE open = {}
  <2>1. Settled(history, tech, time) = Append(history, ended)
    BY <1>2 DEF Settled
  <2>2. ended \in Assignment /\ ended.start + ended.time = time
    BY <1>1 DEF Assignment
  <2> HIDE DEF ended
  <2>3. ended.start + ended.time <= bound
    BY <2>2
  <2>4. QED
    BY <2>1, <2>2, <2>3, AppendedHistory
<1>3. CASE open # {}
  <2>1. Settled(history, tech, time) = settled
    BY <1>3 DEF Settled
  <2>2. last \in 1..Len(history) /\ ~history[last].abandoned
    <3>1. open \subseteq 1..Len(history)
      BY <1>1
    <3>2. \E i \in open : \A j \in open : j <= i
      <4> HIDE DEF open
      <4>1. QED
        BY <1>1, <1>3, <3>1, HasMax
    <3>3. last \in open
      <4> HIDE DEF open
      <4>1. QED
        BY <3>2
    <3>4. QED
      BY <3>1, <3>3
  <2> HIDE DEF last, open
  <2>3. /\ history[last] \in Assignment
        /\ history[last].start \in Nat /\ history[last].time \in Nat
    BY <1>1, <2>2, EntryFields
  <2>4. history[last].start + history[last].time <= bound
    BY <1>1, <2>2 DEF SharesIn
  <2>5. /\ share \in Nat /\ history[last].start + share <= bound /\ share <= time
    BY <1>1, <2>3, <2>4
  <2>6. share \in Times
    BY <2>5, DiagTimeBounds DEF Times
  <2> HIDE DEF share
  <2>7. /\ entry \in Assignment /\ entry.tech = history[last].tech
        /\ entry.start = history[last].start /\ entry.time = share
    BY <2>3, <2>6 DEF Assignment
  <2> HIDE DEF entry
  <2>8. /\ settled \in Seq(Assignment) /\ DOMAIN settled = 1..Len(history)
        /\ \A j \in 1..Len(history) : settled[j] = IF j = last THEN entry ELSE history[j]
    BY <1>1, <2>2, <2>7, ExceptSeq
  <2> HIDE DEF settled
  <2>9. SharesIn(settled, bound)
    <3> SUFFICES ASSUME NEW j \in 1..Len(history)
                 PROVE  settled[j].start + settled[j].time <= bound
      BY <2>8 DEF SharesIn
    <3>1. CASE j = last
      BY <2>5, <2>7, <2>8, <3>1
    <3>2. CASE j # last
      BY <1>1, <2>8, <3>2 DEF SharesIn
    <3>3. QED
      BY <3>1, <3>2
  <2>10. HistoryGrows(history, settled)
    BY <1>1, <2>2, <2>7, <2>8 DEF HistoryGrows
  <2>11. QED
    BY <2>1, <2>8, <2>9, <2>10
<1>4. QED
  BY <1>2, <1>3

----------------------------------------------------------------------------
(* Each step keeps the invariant.                                          *)

IdleAt(step) == [Idle EXCEPT !.at = step]

\* A request that is idle, or goes on with nothing read.
LEMMA IdleState ==
    /\ Idle \in RequestState
    /\ \A step \in {"idle", "send", "settle", "give back"} :
          IdleAt(step) \in RequestState /\ IdleAt(step).at = step /\ IdleAt(step).seen = 0
<1>1. Idle \in RequestState
  BY EmptySeq, DiagTimeBounds DEF Idle, RequestState, Steps, NoDate, Times
<1>2. Idle.seen = 0
  BY DEF Idle
<1>3. QED
  BY <1>1, <1>2 DEF RequestState, Steps, IdleAt

\* The first state satisfies the invariant.
LEMMA TimeInitInv == DiagTimeInit => TimeIInv
<1> SUFFICES ASSUME DiagTimeInit PROVE TimeIInv
  OBVIOUS
<1>1. \A r \in Requests : request[r] = Idle
  BY DEF DiagTimeInit
<1>2. statRows \in Seq(StatDoc) /\ Len(statRows) = 0
  BY EmptySeq DEF DiagTimeInit
<1>3. TimeTypes
  <2>1. 0 \in Times /\ 0 <= 0
    BY DiagTimeBounds DEF Times
  <2>2. worked \in [1..MaxRows -> Times] /\ \A i \in 1..MaxRows : worked[i] <= now
    BY <2>1 DEF DiagTimeInit
  <2>3. request \in [Requests -> RequestState]
    BY IdleState DEF DiagTimeInit
  <2>4. Len(statRows) <= MaxRows
    BY <1>2, DiagTimeBounds
  <2>5. QED
    BY <1>2, <2>1, <2>2, <2>3, <2>4 DEF DiagTimeInit, TimeTypes, CycleStatus
<1>4. Idle.at = "idle" /\ Idle.seen = 0
  BY DEF Idle
<1>5. RowsInv
  BY <1>2 DEF RowsInv
<1>6. HeldInv /\ SeenInv /\ SerialInv
  BY <1>1, <1>2, <1>4 DEF HeldInv, UsesRow, SeenInv, SerialInv
<1>7. QED
  BY <1>3, <1>5, <1>6 DEF TimeIInv

\* A step of one request that leaves the rows as they are.
LEMMA RequestStep ==
    ASSUME TimeIInv, NEW r \in Requests, NEW state \in RequestState, Moves(r, state),
           diStatus' \in CycleStatus, UNCHANGED <<now, statRows, worked>>,
           state.seen \in {0, 1},
           state.at = "assign" =>
               state.tech \in Techs /\ (state.seen = 0 => state.time = 0 /\ statRows = <<>>),
           UsesRow(state) => statRows # <<>> /\ Held(state, statRows[1], now, worked[1]),
           \/ overlapped' = overlapped /\ (state.at = "idle" \/ ~At(r, "idle"))
           \/ Begins(r)
    PROVE  TimeIInv'
<1>1. /\ request' \in [Requests -> RequestState]
      /\ request'[r] = state
      /\ \A q \in Requests \ {r} : request'[q] = request[q]
  BY DEF TimeIInv, TimeTypes, Moves
<1>2. TimeTypes'
  BY <1>1 DEF TimeIInv, TimeTypes, Begins
<1>3. RowsInv'
  BY DEF TimeIInv, RowsInv
<1>4. HeldInv'
  BY <1>1 DEF TimeIInv, HeldInv
<1>5. SeenInv'
  BY <1>1 DEF TimeIInv, SeenInv
<1>6. SerialInv'
  <2> SUFFICES ASSUME ~overlapped'
               PROVE  /\ Len(statRows) <= 1
                      /\ \A p, q \in Requests :
                            request'[p].at # "idle" /\ request'[q].at # "idle" => p = q
                      /\ \A p \in Requests : request'[p].at = "assign" /\ request'[p].seen = 0
                                               => statRows = <<>>
    BY DEF SerialInv
  <2>1. ~overlapped
    BY DEF Begins
  <2>2. \A q \in Requests \ {r} : request'[q].at # "idle" => request'[r].at = "idle"
    BY <1>1, <2>1 DEF Begins, At, TimeIInv, SerialInv
  <2>3. QED
    BY <1>1, <2>1, <2>2 DEF TimeIInv, SerialInv
<1>7. QED
  BY <1>2, <1>3, <1>4, <1>5, <1>6 DEF TimeIInv

\* A request that ends, or that goes on with nothing read.
LEMMA PlainStep ==
    ASSUME TimeIInv, NEW r \in Requests, NEW step \in {"idle", "send", "settle", "give back"},
           Moves(r, IdleAt(step)), diStatus' \in CycleStatus,
           UNCHANGED <<now, statRows, worked, overlapped>>,
           ~At(r, "idle"), step = "settle" => statRows # <<>>
    PROVE  TimeIInv'
<1> DEFINE state == IdleAt(step)
<1>1. state \in RequestState /\ state.at = step /\ state.seen = 0
  BY IdleState
<1> HIDE DEF state
<1>2. UsesRow(state) => statRows # <<>> /\ Held(state, statRows[1], now, worked[1])
  BY <1>1 DEF UsesRow, Held, LegHeld, DocHeld
<1>3. Moves(r, state)
  BY DEF state
<1>4. QED
  BY <1>1, <1>2, <1>3, RequestStep

\* A write of the oldest row by a request that then has nothing more in hand.
LEMMA RowStep ==
    ASSUME TimeIInv, statRows # <<>>, NEW r \in Requests, NEW row \in StatDoc,
           NEW step \in {"idle", "send", "settle", "give back"},
           statRows' = FirstWritten(statRows, row),
           Moves(r, IdleAt(step)),
           UNCHANGED <<diStatus, now, worked, overlapped>>, ~At(r, "idle"),
           RowOK(row, now, worked[1]),
           statRows[1].time <= row.time, statRows[1].version <= row.version,
           row.version = statRows[1].version => row.history = statRows[1].history,
           \A q \in Requests \ {r} : LegHeld(request[q], statRows[1], now, worked[1])
                                       => LegHeld(request[q], row, now, worked[1])
    PROVE  TimeIInv'
<1> DEFINE state == IdleAt(step)
<1>1. state \in RequestState /\ state.at = step /\ state.seen = 0
  BY IdleState
<1>2. Moves(r, state)
  OBVIOUS
<1> HIDE DEF state
<1>3. /\ request' \in [Requests -> RequestState]
      /\ request'[r] = state
      /\ \A q \in Requests \ {r} : request'[q] = request[q]
  BY <1>1, <1>2 DEF TimeIInv, TimeTypes, Moves
<1>4. /\ statRows' \in Seq(StatDoc) /\ Len(statRows') = Len(statRows) /\ statRows' # <<>>
      /\ statRows'[1] = row
      /\ \A i \in 1..Len(statRows) : i # 1 => statRows'[i] = statRows[i]
  <2>1. statRows \in Seq(StatDoc)
    BY DEF TimeIInv, TimeTypes
  <2>2. /\ FirstWritten(statRows, row) \in Seq(StatDoc)
        /\ Len(FirstWritten(statRows, row)) = Len(statRows)
        /\ FirstWritten(statRows, row) # <<>>
        /\ FirstWritten(statRows, row)[1] = row
        /\ \A i \in 1..Len(statRows) : i # 1 => FirstWritten(statRows, row)[i] = statRows[i]
    BY <2>1, FirstRowWritten, Zenon
  <2>3. QED
    BY <2>2, Zenon
<1>5. TimeTypes'
  BY <1>3, <1>4 DEF TimeIInv, TimeTypes
<1>6. RowsInv'
  <2> SUFFICES ASSUME NEW i \in 1..Len(statRows) PROVE RowOK(statRows'[i], now, worked[i])
    BY <1>4 DEF RowsInv
  <2>1. CASE i = 1
    BY <1>4, <2>1
  <2>2. CASE i # 1
    BY <1>4, <2>2 DEF TimeIInv, RowsInv
  <2>3. QED
    BY <2>1, <2>2
<1>7. HeldInv'
  <2> SUFFICES ASSUME NEW q \in Requests, UsesRow(request'[q])
               PROVE  Held(request'[q], row, now, worked[1])
    BY <1>4 DEF HeldInv
  <2>1. CASE q = r
    BY <1>1, <1>3, <2>1 DEF Held, LegHeld, DocHeld
  <2>2. CASE q # r
    <3>1. /\ request'[q] = request[q]
          /\ LegHeld(request[q], statRows[1], now, worked[1])
          /\ DocHeld(request[q], statRows[1])
      BY <1>3, <2>2 DEF TimeIInv, HeldInv, Held
    <3>2. LegHeld(request[q], row, now, worked[1])
      BY <2>2, <3>1
    <3>3. DocHeld(request[q], row)
      <4>1. statRows[1] \in StatDoc /\ request[q] \in RequestState
        BY OldestRow DEF TimeIInv, TimeTypes
      <4>2. QED
        BY <3>1, <4>1, DocHeldKept
    <3>4. QED
      BY <3>1, <3>2, <3>3 DEF Held
  <2>3. QED
    BY <2>1, <2>2
<1>8. SeenInv'
  BY <1>1, <1>3 DEF TimeIInv, SeenInv
<1>9. SerialInv'
  <2> SUFFICES ASSUME ~overlapped
               PROVE  /\ Len(statRows') <= 1
                      /\ \A p, q \in Requests :
                            request'[p].at # "idle" /\ request'[q].at # "idle" => p = q
                      /\ \A p \in Requests : request'[p].at # "assign"
    BY DEF SerialInv
  <2>1. \A q \in Requests \ {r} : request'[q].at = "idle"
    BY <1>3 DEF At, TimeIInv, SerialInv
  <2>2. request'[r].at # "assign"
    BY <1>1, <1>3
  <2>3. Len(statRows') <= 1
    BY <1>4 DEF TimeIInv, SerialInv
  <2>4. QED
    BY <2>1, <2>2, <2>3
<1>10. QED
  BY <1>5, <1>6, <1>7, <1>8, <1>9 DEF TimeIInv

\* A request that ends.
LEMMA IdleIsIdle == Idle = IdleAt("idle")
<1>1. Idle.at = "idle"
  BY DEF Idle
<1>2. Idle \in RequestState
  BY IdleState
<1>3. QED
  BY <1>1, <1>2 DEF IdleAt, RequestState

\* The oldest row, with the numbers the proofs below compare.
LEMMA OldestFacts ==
    ASSUME TimeIInv, statRows # <<>>
    PROVE  /\ statRows[1] \in StatDoc /\ RowOK(statRows[1], now, worked[1])
           /\ now \in Nat /\ now \in Times
           /\ worked[1] \in Nat /\ worked[1] \in Times /\ worked[1] <= now
<1>1. 1 \in 1..Len(statRows) /\ 1 \in 1..MaxRows /\ statRows[1] \in StatDoc
  BY OldestRow DEF TimeIInv
<1>2. worked[1] \in Times /\ worked[1] <= now /\ now \in Times
  BY <1>1 DEF TimeIInv, TimeTypes
<1>3. RowOK(statRows[1], now, worked[1])
  BY <1>1 DEF TimeIInv, RowsInv
<1>4. QED
  BY <1>1, <1>2, <1>3, NatTimes

\* openDiagLeg: the leg opens now, unless one is open.
LEMMA OpenLegStep ==
    ASSUME TimeIInv, NEW r \in Requests, OpenLeg(r)
    PROVE  TimeIInv'
<1> DEFINE old == statRows[1]
           row == WithAnchor(old)
<1>1. statRows # <<>>
  BY DEF OpenLeg, At, UsesRow, TimeIInv, HeldInv
<1>2. /\ old \in StatDoc /\ RowOK(old, now, worked[1]) /\ now \in Nat /\ now \in Times
      /\ worked[1] \in Nat
  BY <1>1, OldestFacts
<1>3. /\ statRows' = FirstWritten(statRows, row) /\ Moves(r, IdleAt("idle"))
      /\ UNCHANGED <<diStatus, now, worked, overlapped>> /\ ~At(r, "idle")
  <2>1. statRows' = FirstWritten(statRows, row)
    BY DEF OpenLeg, FirstWritten
  <2>2. QED
    BY <2>1, IdleIsIdle DEF OpenLeg, At
<1> HIDE DEF old
<1>4. now \in 0..NoDate
  BY <1>2, DiagTimeBounds DEF Times, NoDate
<1>5. /\ row \in StatDoc /\ row.time = old.time /\ row.version = old.version
      /\ row.history = old.history
      /\ row.anchor = IF old.anchor = NoDate THEN now ELSE old.anchor
  BY <1>2, <1>4 DEF WithAnchor, StatDoc
<1> HIDE DEF row
<1>6. old.time \in Nat /\ row.time \in Nat /\ old.version \in Nat /\ old.anchor \in Nat
  BY <1>2, <1>5, RowFields
<1>7. RowOK(row, now, worked[1])
  BY <1>2, <1>5, <1>6 DEF RowOK
<1>8. ASSUME NEW q \in Requests \ {r}, LegHeld(request[q], old, now, worked[1])
      PROVE  LegHeld(request[q], row, now, worked[1])
  <2>1. request[q] \in RequestState
    BY DEF TimeIInv, TimeTypes
  <2> DEFINE p == request[q]
  <2>2. p.anchor \in Nat /\ p.stop \in Nat /\ p.time \in Nat
    BY <2>1, HeldFields
  <2>3. LegHeld(p, old, now, worked[1])
    BY <1>8
  <2> HIDE DEF p
  <2>4. LegHeld(p, row, now, worked[1])
    BY <1>2, <1>5, <1>6, <2>2, <2>3 DEF LegHeld
  <2>5. QED
    BY <2>4 DEF p
<1>9. old.time <= row.time /\ old.version <= row.version
  BY <1>5, <1>6
<1>10. QED
  BY <1>1, <1>3, <1>5, <1>7, <1>8, <1>9, RowStep DEF old

\* closeDiagLeg reads the row.
LEMMA CloseReadStep ==
    ASSUME TimeIInv, NEW r \in Requests, CloseRead(r)
    PROVE  TimeIInv'
<1> DEFINE row == statRows[1]
           q == request[r]
           state == [q EXCEPT !.at = "closed", !.anchor = row.anchor,
                              !.time = row.time, !.stop = now]
<1>1. statRows # <<>>
  BY DEF CloseRead, At, UsesRow, TimeIInv, HeldInv
<1>2. /\ row \in StatDoc /\ RowOK(row, now, worked[1]) /\ now \in Nat /\ now \in Times
      /\ worked[1] \in Nat
  BY <1>1, OldestFacts
<1>3. /\ Moves(r, state) /\ ~At(r, "idle")
      /\ UNCHANGED <<diStatus, now, statRows, worked, overlapped>>
  BY DEF CloseRead, At
<1>4. q \in RequestState /\ q.seen \in {0, 1}
  BY DEF TimeIInv, TimeTypes, SeenInv
<1> HIDE DEF row, q
<1>5. row.time \in Times /\ row.anchor \in 0..NoDate /\ row.time \in Nat /\ row.anchor \in Nat
  BY <1>2, RowFields
<1>6. /\ state \in RequestState /\ state.at = "closed" /\ state.seen = q.seen
      /\ state.anchor = row.anchor /\ state.time = row.time /\ state.stop = now
  BY <1>2, <1>4, <1>5 DEF RequestState, Steps
<1> HIDE DEF state
<1>7. Held(state, row, now, worked[1])
  BY <1>2, <1>5, <1>6 DEF Held, LegHeld, DocHeld, RowOK
<1>8. diStatus' \in CycleStatus
  BY <1>3 DEF TimeIInv, TimeTypes
<1>9. QED
  BY <1>1, <1>3, <1>4, <1>6, <1>7, <1>8, RequestStep DEF row

\* closeDiagLeg writes the time of the leg it has read, if it still is the leg of the row:
\* the time read is then the time of the row.
LEMMA CloseWriteRow ==
    ASSUME TimeIInv, NEW r \in Requests, CloseWrite(r), SameLeg(request[r].anchor)
    PROVE  TimeIInv'
<1> DEFINE old == statRows[1]
           q == request[r]
           time == q.time + (q.stop - q.anchor)
           row == Closed(old, time)
           step == IF q.abandoning THEN "settle" ELSE "idle"
<1>1. /\ statRows # <<>> /\ Held(q, old, now, worked[1]) /\ q.at = "closed"
      /\ q.anchor # NoDate /\ old.anchor = q.anchor
  BY DEF CloseWrite, At, SameLeg, UsesRow, TimeIInv, HeldInv
<1>2. /\ old \in StatDoc /\ RowOK(old, now, worked[1]) /\ now \in Nat /\ worked[1] \in Nat
      /\ worked[1] \in Times
  BY <1>1, OldestFacts
<1>3. q \in RequestState
  BY DEF TimeIInv, TimeTypes
<1>4. /\ statRows' = FirstWritten(statRows, row) /\ Moves(r, IdleAt(step))
      /\ UNCHANGED <<diStatus, now, worked, overlapped>> /\ ~At(r, "idle")
  BY IdleIsIdle DEF CloseWrite, FirstWritten, At, IdleAt
<1>5. step \in {"idle", "send", "settle", "give back"}
  OBVIOUS
<1> HIDE DEF old, q, step
<1>6. /\ q.time \in Nat /\ q.stop \in Nat /\ q.anchor \in Nat
      /\ old.time \in Nat /\ old.version \in Nat /\ old.history \in Seq(Assignment)
  BY <1>2, <1>3, HeldFields, RowFields
<1>7. /\ q.anchor <= q.stop /\ q.stop <= now /\ time <= worked[1] /\ old.time = q.time
  BY <1>1 DEF Held, LegHeld
<1>8. time \in Nat /\ time \in Times /\ old.time <= time
  <2>1. time \in Nat /\ old.time <= time
    BY <1>6, <1>7
  <2>2. time \in Times
    BY <1>2, <1>7, <2>1, DiagTimeBounds DEF Times
  <2>3. QED
    BY <2>1, <2>2
<1>9. time = q.time + (q.stop - q.anchor)
  OBVIOUS
<1> HIDE DEF time
<1>10. /\ row \in StatDoc /\ row.time = time /\ row.version = old.version
       /\ row.history = old.history /\ row.anchor = NoDate
  <2>1. NoDate \in 0..NoDate
    BY NatTimes
  <2>2. QED
    BY <1>2, <1>8, <2>1 DEF Closed, StatDoc
<1> HIDE DEF row
<1>11. RowOK(row, now, worked[1])
  <2>1. SharesIn(row.history, row.time)
    BY <1>2, <1>6, <1>8, <1>10, SharesGrow DEF RowOK
  <2>2. QED
    BY <1>7, <1>10, <2>1 DEF RowOK
<1>12. ASSUME NEW x \in Requests \ {r}, LegHeld(request[x], old, now, worked[1])
       PROVE  LegHeld(request[x], row, now, worked[1])
  <2> DEFINE p == request[x]
  <2>1. p \in RequestState
    BY DEF TimeIInv, TimeTypes
  <2>2. p.anchor \in Nat /\ p.stop \in Nat /\ p.time \in Nat /\ p.anchor \in 0..NoDate
    BY <2>1, HeldFields
  <2>3. LegHeld(p, old, now, worked[1])
    BY <1>12
  <2> HIDE DEF p
  <2> SUFFICES ASSUME p.at = "closed" /\ p.anchor # NoDate
               PROVE  LegHeld(p, row, now, worked[1])
    BY DEF LegHeld, p
  <2>4. /\ p.anchor <= p.stop /\ p.stop <= now /\ p.anchor <= q.anchor
        /\ p.time + (p.stop - p.anchor) <= worked[1]
        /\ p.anchor = q.anchor => old.time = p.time
    BY <1>1, <2>3 DEF LegHeld
  <2>5. p.anchor <= NoDate
    BY <2>2, NatTimes
  <2>6. ASSUME now = p.anchor PROVE time = p.time
    <3>1. p.anchor = q.anchor /\ q.stop = q.anchor
      BY <1>2, <1>6, <1>7, <2>2, <2>4, <2>6
    <3>2. QED
      BY <1>6, <1>7, <1>9, <2>2, <2>4, <3>1
  <2>7. QED
    BY <1>10, <2>4, <2>5, <2>6 DEF LegHeld
<1>13. old.time <= row.time /\ old.version <= row.version
  BY <1>6, <1>8, <1>10
<1>14. QED
  BY <1>1, <1>4, <1>5, <1>10, <1>11, <1>12, <1>13, RowStep DEF old

LEMMA CloseWriteStep ==
    ASSUME TimeIInv, NEW r \in Requests, CloseWrite(r)
    PROVE  TimeIInv'
<1>1. CASE SameLeg(request[r].anchor)
  BY <1>1, CloseWriteRow
<1>2. CASE ~SameLeg(request[r].anchor)
  <2> DEFINE step == IF request[r].abandoning THEN "settle" ELSE "idle"
  <2>1. statRows # <<>>
    BY DEF CloseWrite, At, UsesRow, TimeIInv, HeldInv
  <2>2. /\ Moves(r, IdleAt(step)) /\ ~At(r, "idle")
        /\ UNCHANGED <<diStatus, now, statRows, worked, overlapped>>
    BY <1>2, IdleIsIdle DEF CloseWrite, At, IdleAt
  <2>3. step \in {"idle", "send", "settle", "give back"}
    OBVIOUS
  <2>4. diStatus' \in CycleStatus
    BY <2>2 DEF TimeIInv, TimeTypes
  <2> HIDE DEF step
  <2>5. QED
    BY <2>1, <2>2, <2>3, <2>4, PlainStep
<1>3. QED
  BY <1>1, <1>2

\* createStat reads the row of the cycle, or finds none.
LEMMA AssignBeginStep ==
    ASSUME TimeIInv, NEW r \in Requests, NEW t \in Techs, AssignBegin(r, t)
    PROVE  TimeIInv'
<1>1. diStatus' \in CycleStatus /\ UNCHANGED <<now, statRows, worked>> /\ Begins(r)
  BY DEF AssignBegin, TimeIInv, TimeTypes
<1>2. CASE statRows = <<>>
  <2> DEFINE state == [Idle EXCEPT !.at = "assign", !.tech = t]
  <2>1. Moves(r, state)
    BY <1>2 DEF AssignBegin, ReadForAssign
  <2>2. Idle \in RequestState /\ Idle.seen = 0 /\ Idle.time = 0
    BY IdleState DEF Idle
  <2>3. /\ state \in RequestState /\ state.at = "assign" /\ state.tech = t
        /\ state.seen = 0 /\ state.time = 0
    BY <2>2 DEF RequestState, Steps
  <2> HIDE DEF state
  <2>4. ~UsesRow(state)
    BY <2>3 DEF UsesRow
  <2>5. QED
    BY <1>1, <1>2, <2>1, <2>3, <2>4, RequestStep
<1>3. CASE statRows # <<>>
  <2> DEFINE row == statRows[1]
             state == [Idle EXCEPT !.at = "assign", !.tech = t, !.seen = 1, !.time = row.time,
                                   !.history = row.history, !.version = row.version]
  <2>1. Moves(r, state)
    BY <1>3 DEF AssignBegin, ReadForAssign
  <2>2. row \in StatDoc /\ RowOK(row, now, worked[1])
    BY <1>3, OldestFacts
  <2> HIDE DEF row
  <2>3. /\ row.time \in Times /\ row.time \in Nat /\ row.version \in Nat
        /\ row.history \in Seq(Assignment)
    BY <2>2, RowFields
  <2>4. Idle \in RequestState
    BY IdleState
  <2>5. /\ state \in RequestState /\ state.at = "assign" /\ state.tech = t
        /\ state.seen = 1 /\ state.time = row.time /\ state.history = row.history
        /\ state.version = row.version
    BY <2>3, <2>4 DEF RequestState, Steps
  <2> HIDE DEF state
  <2>6. Held(state, row, now, worked[1])
    BY <2>2, <2>3, <2>5 DEF Held, LegHeld, DocHeld, RowOK
  <2>7. QED
    BY <1>1, <1>3, <2>1, <2>5, <2>6, RequestStep DEF row
<1>4. QED
  BY <1>2, <1>3

\* createStat creates the row of the cycle.
LEMMA RowCreated ==
    ASSUME TimeIInv, NEW r \in Requests, NEW row \in StatDoc, At(r, "assign"),
           request[r].seen = 0, Len(statRows) < MaxRows, statRows' = Append(statRows, row),
           row.anchor = NoDate, row.time = 0, SharesIn(row.history, 0),
           Moves(r, IdleAt("send")), UNCHANGED <<diStatus, now, worked, overlapped>>
    PROVE  TimeIInv'
<1> DEFINE state == IdleAt("send")
           n == Len(statRows)
<1>1. state \in RequestState /\ state.at = "send" /\ state.seen = 0
  BY IdleState
<1>2. Moves(r, state)
  OBVIOUS
<1> HIDE DEF state
<1>3. /\ request' \in [Requests -> RequestState]
      /\ request'[r] = state
      /\ \A q \in Requests \ {r} : request'[q] = request[q]
  BY <1>1, <1>2 DEF TimeIInv, TimeTypes, Moves
<1>4. /\ statRows' \in Seq(StatDoc) /\ n \in Nat /\ Len(statRows') = n + 1
      /\ statRows'[n + 1] = row
      /\ \A i \in 1..n : statRows'[i] = statRows[i]
  <2>1. statRows \in Seq(StatDoc)
    BY DEF TimeIInv, TimeTypes
  <2>2. QED
    BY <2>1, AppendProperties, LenProperties
<1>5. TimeTypes'
  <2>1. n + 1 <= MaxRows
    BY <1>4, DiagTimeBounds
  <2>2. QED
    BY <1>3, <1>4, <2>1 DEF TimeIInv, TimeTypes
<1>6. RowsInv'
  <2> SUFFICES ASSUME NEW i \in 1..n + 1 PROVE RowOK(statRows'[i], now, worked[i])
    BY <1>4 DEF RowsInv
  <2>1. CASE i = n + 1
    <3>1. worked[i] \in Nat
      <4>1. i \in 1..MaxRows
        BY <1>4, <2>1, DiagTimeBounds
      <4>2. QED
        BY <4>1, NatTimes DEF TimeIInv, TimeTypes
    <3>2. QED
      BY <1>4, <2>1, <3>1 DEF RowOK
  <2>2. CASE i \in 1..n
    BY <1>4, <2>2 DEF TimeIInv, RowsInv
  <2>3. QED
    BY <1>4, <2>1, <2>2
<1>7. HeldInv'
  <2> SUFFICES ASSUME NEW q \in Requests, UsesRow(request'[q])
               PROVE  statRows' # <<>> /\ Held(request'[q], statRows'[1], now, worked[1])
    BY DEF HeldInv
  <2>1. q # r /\ request'[q] = request[q]
    BY <1>1, <1>3 DEF UsesRow
  <2>2. statRows # <<>> /\ Held(request[q], statRows[1], now, worked[1])
    BY <2>1 DEF TimeIInv, HeldInv
  <2>3. 1 \in 1..n
    BY <2>2, OldestRow DEF TimeIInv
  <2>4. statRows' # <<>>
    BY <1>4, EmptySeq
  <2>5. QED
    BY <1>4, <2>1, <2>2, <2>3, <2>4
<1>8. SeenInv'
  BY <1>1, <1>3 DEF TimeIInv, SeenInv
<1>9. SerialInv'
  <2> SUFFICES ASSUME ~overlapped
               PROVE  /\ Len(statRows') <= 1
                      /\ \A p, q \in Requests :
                            request'[p].at # "idle" /\ request'[q].at # "idle" => p = q
                      /\ \A p \in Requests : request'[p].at # "assign"
    BY DEF SerialInv
  <2>1. \A q \in Requests \ {r} : request'[q].at = "idle"
    BY <1>3 DEF At, TimeIInv, SerialInv
  <2>2. request'[r].at # "assign"
    BY <1>1, <1>3
  <2>3. statRows = <<>>
    BY DEF At, TimeIInv, SerialInv
  <2>4. Len(statRows') <= 1
    BY <1>4, <2>3, EmptySeq
  <2>5. QED
    BY <2>1, <2>2, <2>4
<1>10. QED
  BY <1>5, <1>6, <1>7, <1>8, <1>9 DEF TimeIInv

\* createStat saves the row: a new one, or the one it has read with one more assignment.
LEMMA AssignSaveStep ==
    ASSUME TimeIInv, NEW r \in Requests, AssignSave(r)
    PROVE  TimeIInv'
<1> DEFINE q == request[r]
           entry == Opened(q.tech, q.time)
<1>1. /\ q.at = "assign" /\ At(r, "assign") /\ ~At(r, "idle")
      /\ UNCHANGED <<diStatus, now, worked, overlapped>>
  BY DEF AssignSave, At
<1>2. diStatus' \in CycleStatus
  BY <1>1 DEF TimeIInv, TimeTypes
<1>3. /\ q \in RequestState /\ q.tech \in Techs /\ q.seen \in {0, 1}
      /\ q.seen = 0 => q.time = 0
  BY <1>1 DEF TimeIInv, TimeTypes, SeenInv
<1>4. q.time \in Times /\ q.time \in Nat /\ q.history \in Seq(Assignment) /\ 0 \in Times
  BY <1>3, HeldFields, DiagTimeBounds DEF Times
<1>5. entry \in Assignment /\ entry.start = q.time /\ entry.time = 0
  BY <1>3, <1>4 DEF Opened, Assignment
<1>6. CASE q.seen = 0
  <2> DEFINE row == [tech |-> q.tech, anchor |-> NoDate, time |-> 0,
                     history |-> <<entry>>, version |-> 0]
  <2>1. /\ statRows' = Append(statRows, row) /\ Len(statRows) < MaxRows
        /\ Moves(r, IdleAt("send"))
    BY <1>6 DEF AssignSave, IdleAt
  <2> HIDE DEF entry
  <2>2. /\ <<entry>> \in Seq(Assignment) /\ DOMAIN <<entry>> = 1..1 /\ <<entry>>[1] = entry
    BY <1>5
  <2>3. SharesIn(<<entry>>, 0)
    BY <1>3, <1>5, <1>6, <2>2 DEF SharesIn
  <2>4. row \in StatDoc /\ row.anchor = NoDate /\ row.time = 0 /\ row.history = <<entry>>
    BY <1>3, <1>4, <2>2, NatTimes DEF StatDoc
  <2> HIDE DEF row
  <2>5. QED
    BY <1>1, <1>6, <2>1, <2>3, <2>4, RowCreated
<1>7. CASE q.seen = 1 /\ Unchanged(1, q.version)
  <2> DEFINE old == statRows[1]
             history == Append(q.history, entry)
             row == [old EXCEPT !.tech = q.tech, !.history = history, !.version = @ + 1]
  <2>1. /\ statRows' = FirstWritten(statRows, row) /\ Moves(r, IdleAt("send"))
    BY <1>7 DEF AssignSave, FirstWritten, IdleAt
  <2>2. statRows # <<>> /\ DocHeld(q, old)
    BY <1>1, <1>7 DEF UsesRow, TimeIInv, HeldInv, Held
  <2>3. old \in StatDoc /\ RowOK(old, now, worked[1])
    BY <2>2, OldestFacts
  <2> HIDE DEF old
  <2>4. q.time <= old.time /\ SharesIn(q.history, old.time)
    BY <1>1, <2>2 DEF DocHeld
  <2>5. old.time \in Nat /\ old.version \in Nat
    BY <2>3, RowFields
  <2>6. history \in Seq(Assignment) /\ SharesIn(history, old.time)
    <3>1. entry.start + entry.time <= old.time
      BY <1>4, <1>5, <2>4
    <3> HIDE DEF entry, q
    <3>2. QED
      BY <1>4, <1>5, <2>4, <2>5, <3>1, AppendedHistory
  <2> HIDE DEF history, q
  <2>7. /\ row \in StatDoc /\ row.time = old.time /\ row.anchor = old.anchor
        /\ row.version = old.version + 1 /\ row.history = history
    <3>1. old.version + 1 \in Nat
      BY <2>5
    <3>2. row = [old EXCEPT !.tech = q.tech, !.history = history, !.version = old.version + 1]
      OBVIOUS
    <3> HIDE DEF row
    <3>3. QED
      BY <1>3, <2>3, <2>6, <3>1, <3>2 DEF StatDoc
  <2> HIDE DEF row
  <2>8. RowOK(row, now, worked[1])
    BY <2>3, <2>6, <2>7 DEF RowOK
  <2>9. ASSUME NEW x \in Requests \ {r}, LegHeld(request[x], old, now, worked[1])
        PROVE  LegHeld(request[x], row, now, worked[1])
    BY <2>7, <2>9 DEF LegHeld
  <2>10. old.time <= row.time /\ old.version <= row.version /\ row.version # old.version
    BY <2>5, <2>7
  <2>11. QED
    BY <1>1, <2>1, <2>2, <2>7, <2>8, <2>9, <2>10, RowStep DEF old
<1>8. CASE q.seen = 1 /\ ~Unchanged(1, q.version)
  <2>1. Moves(r, IdleAt("idle")) /\ UNCHANGED statRows
    BY <1>8, IdleIsIdle DEF AssignSave
  <2>2. QED
    BY <1>1, <1>2, <2>1, PlainStep
<1>9. QED
  BY <1>3, <1>6, <1>7, <1>8

\* The abandon of a technician reads the row, then saves its history.
LEMMA AbandonReadStep ==
    ASSUME TimeIInv, NEW r \in Requests, AbandonRead(r)
    PROVE  TimeIInv'
<1> DEFINE row == statRows[1]
           state == [Idle EXCEPT !.at = "abandon", !.time = row.time,
                                 !.history = row.history, !.version = row.version]
<1>1. /\ statRows # <<>> /\ Moves(r, state) /\ ~At(r, "idle")
      /\ UNCHANGED <<diStatus, now, statRows, worked, overlapped>>
  BY DEF AbandonRead, At, UsesRow, TimeIInv, HeldInv
<1>2. row \in StatDoc /\ RowOK(row, now, worked[1])
  BY <1>1, OldestFacts
<1> HIDE DEF row
<1>3. /\ row.time \in Times /\ row.time \in Nat /\ row.version \in Nat
      /\ row.history \in Seq(Assignment)
  BY <1>2, RowFields
<1>4. Idle \in RequestState /\ Idle.seen = 0
  BY IdleState DEF Idle
<1>5. /\ state \in RequestState /\ state.at = "abandon" /\ state.seen = 0
      /\ state.time = row.time /\ state.history = row.history /\ state.version = row.version
  BY <1>3, <1>4 DEF RequestState, Steps
<1> HIDE DEF state
<1>6. Held(state, row, now, worked[1])
  BY <1>2, <1>3, <1>5 DEF Held, LegHeld, DocHeld, RowOK
<1>7. diStatus' \in CycleStatus
  BY <1>1 DEF TimeIInv, TimeTypes
<1>8. QED
  BY <1>1, <1>5, <1>6, <1>7, RequestStep DEF row

LEMMA AbandonSaveStep ==
    ASSUME TimeIInv, NEW r \in Requests, AbandonSave(r)
    PROVE  TimeIInv'
<1> DEFINE q == request[r]
           old == statRows[1]
           history == Settled(q.history, old.tech, q.time)
           row == [old EXCEPT !.history = history, !.version = old.version + 1]
<1>1. /\ q.at = "abandon" /\ ~At(r, "idle") /\ statRows # <<>> /\ DocHeld(q, old)
      /\ UNCHANGED <<diStatus, now, worked, overlapped>>
  BY DEF AbandonSave, At, UsesRow, TimeIInv, HeldInv, Held
<1>2. q \in RequestState /\ diStatus' \in CycleStatus
  BY <1>1 DEF TimeIInv, TimeTypes
<1>3. CASE Unchanged(1, q.version)
  <2>1. statRows' = FirstWritten(statRows, row) /\ Moves(r, IdleAt("give back"))
    BY <1>3 DEF AbandonSave, FirstWritten, IdleAt
  <2>2. old \in StatDoc /\ RowOK(old, now, worked[1])
    BY <1>1, OldestFacts
  <2> HIDE DEF old, q
  <2>3. q.time <= old.time /\ SharesIn(q.history, old.time)
    BY <1>1 DEF DocHeld
  <2>4. /\ old.time \in Nat /\ old.version \in Nat /\ old.tech \in Techs
        /\ q.time \in Times /\ q.history \in Seq(Assignment)
    BY <1>2, <2>2, RowFields, HeldFields
  <2>5. history \in Seq(Assignment) /\ SharesIn(history, old.time)
    BY <2>3, <2>4, SettledHistory
  <2> HIDE DEF history
  <2>6. old.version + 1 \in Nat
    BY <2>4
  <2>7. /\ row \in StatDoc /\ row.time = old.time /\ row.anchor = old.anchor
        /\ row.version = old.version + 1 /\ row.history = history
    BY <2>2, <2>5, <2>6 DEF StatDoc
  <2> HIDE DEF row
  <2>8. RowOK(row, now, worked[1])
    BY <2>2, <2>5, <2>7 DEF RowOK
  <2>9. ASSUME NEW x \in Requests \ {r}, LegHeld(request[x], old, now, worked[1])
        PROVE  LegHeld(request[x], row, now, worked[1])
    BY <2>7, <2>9 DEF LegHeld
  <2>10. old.time <= row.time /\ old.version <= row.version /\ row.version # old.version
    BY <2>4, <2>7
  <2>11. QED
    BY <1>1, <2>1, <2>7, <2>8, <2>9, <2>10, RowStep DEF old
<1>4. CASE ~Unchanged(1, q.version)
  <2>1. Moves(r, IdleAt("idle")) /\ UNCHANGED statRows
    BY <1>4, IdleIsIdle DEF AbandonSave
  <2>2. QED
    BY <1>1, <1>2, <2>1, PlainStep
<1>5. QED
  BY <1>3, <1>4

\* A handler that begins, or goes on, with nothing read but that there is a row.
LEMMA BegunStep ==
    ASSUME TimeIInv, NEW r \in Requests, NEW state \in RequestState, Moves(r, state),
           state.at \in {"start", "open", "close"}, state.seen = 0, statRows # <<>>,
           diStatus' \in CycleStatus, UNCHANGED <<now, statRows, worked>>,
           \/ overlapped' = overlapped /\ ~At(r, "idle")
           \/ Begins(r)
    PROVE  TimeIInv'
<1>1. Held(state, statRows[1], now, worked[1])
  BY DEF Held, LegHeld, DocHeld
<1>2. QED
  BY <1>1, RequestStep

LEMMA StatusStep ==
    ASSUME TimeIInv, NEW r \in Requests,
           \/ ToDiag(r) \/ Cut(r) \/ GiveBack(r) \/ StartWrite(r) \/ AbandonBegin(r)
           \/ \E t \in Techs : \/ StartBegin(r, t)
                              \/ \E target \in CycleStatus : Leave(r, t, target)
    PROVE  TimeIInv'
<1>1. diStatus \in CycleStatus
  BY DEF TimeIInv, TimeTypes
<1>2. Idle \in RequestState /\ Idle.seen = 0
  BY IdleState DEF Idle
<1>3. CASE ToDiag(r) \/ Cut(r) \/ GiveBack(r)
  <2>1. /\ Moves(r, IdleAt("idle")) /\ ~At(r, "idle")
        /\ UNCHANGED <<now, statRows, worked, overlapped>>
    BY <1>3, IdleIsIdle DEF ToDiag, Cut, GiveBack, At
  <2>2. diStatus' \in CycleStatus
    BY <1>1, <1>3 DEF ToDiag, Cut, GiveBack, CycleStatus, DiagStatus
  <2>3. QED
    BY <2>1, <2>2, PlainStep
<1>4. ASSUME NEW t \in Techs, StartBegin(r, t) PROVE TimeIInv'
  <2> DEFINE state == [Idle EXCEPT !.at = "start", !.reopened = (diStatus = "INDIAGNOSTIC")]
  <2>1. Moves(r, state) /\ Begins(r) /\ statRows # <<>>
        /\ UNCHANGED <<diStatus, now, statRows, worked>>
    BY <1>4 DEF StartBegin, Owns
  <2>2. state \in RequestState /\ state.at = "start" /\ state.seen = 0
    BY <1>2 DEF RequestState, Steps
  <2> HIDE DEF state
  <2>3. QED
    BY <1>1, <2>1, <2>2, BegunStep
<1>5. CASE StartWrite(r)
  <2>1. /\ ~At(r, "idle") /\ statRows # <<>> /\ diStatus' \in CycleStatus
        /\ UNCHANGED <<now, statRows, worked, overlapped>>
    BY <1>5 DEF StartWrite, At, UsesRow, TimeIInv, HeldInv, CycleStatus, DiagStatus
  <2>2. CASE request[r].reopened
    <3>1. Moves(r, IdleAt("idle"))
      BY <1>5, <2>2, IdleIsIdle DEF StartWrite
    <3>2. QED
      BY <2>1, <3>1, PlainStep
  <2>3. CASE ~request[r].reopened
    <3> DEFINE state == [Idle EXCEPT !.at = "open"]
    <3>1. Moves(r, state)
      BY <1>5, <2>3 DEF StartWrite
    <3>2. state \in RequestState /\ state.at = "open" /\ state.seen = 0
      BY <1>2 DEF RequestState, Steps
    <3> HIDE DEF state
    <3>3. QED
      BY <2>1, <3>1, <3>2, BegunStep
  <2>4. QED
    BY <2>2, <2>3
<1>6. ASSUME NEW t \in Techs, NEW target \in CycleStatus, Leave(r, t, target) PROVE TimeIInv'
  <2> DEFINE state == [Idle EXCEPT !.at = "close"]
  <2>1. /\ Moves(r, state) /\ Begins(r) /\ statRows # <<>> /\ diStatus' \in CycleStatus
        /\ UNCHANGED <<now, statRows, worked>>
    BY <1>6 DEF Leave, Owns
  <2>2. state \in RequestState /\ state.at = "close" /\ state.seen = 0
    BY <1>2 DEF RequestState, Steps
  <2> HIDE DEF state
  <2>3. QED
    BY <2>1, <2>2, BegunStep
<1>7. CASE AbandonBegin(r)
  <2> DEFINE state == [Idle EXCEPT !.at = "close", !.abandoning = TRUE]
  <2>1. /\ Moves(r, state) /\ Begins(r) /\ statRows # <<>>
        /\ UNCHANGED <<diStatus, now, statRows, worked>>
    BY <1>7 DEF AbandonBegin
  <2>2. state \in RequestState /\ state.at = "close" /\ state.seen = 0
    BY <1>2 DEF RequestState, Steps
  <2> HIDE DEF state
  <2>3. QED
    BY <1>1, <2>1, <2>2, BegunStep
<1>8. QED
  BY <1>3, <1>4, <1>5, <1>6, <1>7

\* The clock: a leg that is open is worked on, and no leg in hand can be confused with
\* one that would open now, since it opened before.
LEMMA TickStep ==
    ASSUME TimeIInv, Tick
    PROVE  TimeIInv'
<1> DEFINE open(i) == i <= Len(statRows) /\ statRows[i].anchor # NoDate
<1>1. /\ now \in Nat /\ now' = now + 1 /\ now' \in Times
      /\ worked' = [i \in 1..MaxRows |-> IF open(i) THEN worked[i] + 1 ELSE worked[i]]
      /\ UNCHANGED <<diStatus, statRows, request, overlapped>>
  <2>1. now \in Nat
    BY NatTimes DEF TimeIInv, TimeTypes
  <2>2. now' \in Times
    BY <2>1, DiagTimeBounds DEF Tick, Times
  <2>3. QED
    BY <2>1, <2>2 DEF Tick
<1>2. \A i \in 1..MaxRows : worked[i] \in Nat /\ worked[i] <= now
  BY NatTimes DEF TimeIInv, TimeTypes
<1>3. ASSUME NEW i \in 1..MaxRows
      PROVE  /\ worked'[i] = IF open(i) THEN worked[i] + 1 ELSE worked[i]
             /\ worked'[i] \in Times /\ worked'[i] <= now + 1
  <2> HIDE DEF open
  <2>1. worked'[i] = IF open(i) THEN worked[i] + 1 ELSE worked[i]
    BY <1>1
  <2>2. worked'[i] \in Nat /\ worked'[i] <= now + 1
    BY <1>1, <1>2, <2>1
  <2>3. worked'[i] \in Times
    BY <1>1, <2>2, DiagTimeBounds DEF Times
  <2>4. QED
    BY <2>1, <2>2, <2>3 DEF open
<1>4. TimeTypes'
  <2>1. worked' \in [1..MaxRows -> Times]
    BY <1>1, <1>3
  <2>2. QED
    BY <1>1, <1>3, <2>1 DEF TimeIInv, TimeTypes
<1>5. RowsInv'
  <2> SUFFICES ASSUME NEW i \in 1..Len(statRows) PROVE RowOK(statRows[i], now', worked'[i])
    BY <1>1 DEF RowsInv
  <2> DEFINE row == statRows[i]
             work == worked[i]
             later == worked'[i]
  <2>1. row \in StatDoc /\ RowOK(row, now, work)
    BY ElementOfSeq DEF TimeIInv, TimeTypes, RowsInv
  <2>2. i \in 1..MaxRows
    BY LenProperties, DiagTimeBounds DEF TimeIInv, TimeTypes
  <2>3. /\ later = IF row.anchor # NoDate THEN work + 1 ELSE work
        /\ work \in Nat
    BY <1>2, <1>3, <2>2
  <2> HIDE DEF row, work, later
  <2>4. row.time \in Nat /\ row.anchor \in Nat
    BY <2>1, RowFields
  <2>5. RowOK(row, now + 1, later)
    BY <1>1, <2>1, <2>3, <2>4 DEF RowOK
  <2>6. QED
    BY <1>1, <2>5 DEF row, later
<1>6. HeldInv'
  <2> SUFFICES ASSUME NEW r \in Requests, UsesRow(request[r])
               PROVE  statRows # <<>> /\ Held(request[r], statRows[1], now', worked'[1])
    BY <1>1 DEF HeldInv
  <2> DEFINE q == request[r]
             row == statRows[1]
             work == worked[1]
             later == worked'[1]
  <2>1. statRows # <<>> /\ Held(q, row, now, work) /\ q \in RequestState
    BY DEF TimeIInv, TimeTypes, HeldInv
  <2>2. row \in StatDoc /\ RowOK(row, now, work)
    BY <2>1, OldestFacts
  <2>3. work \in Nat /\ later \in Nat /\ work <= later
    <3>1. 1 \in 1..MaxRows
      BY <2>1, OldestRow DEF TimeIInv
    <3>2. QED
      BY <1>2, <1>3, <3>1
  <2> HIDE DEF q, row, work, later
  <2>4. /\ q.time \in Nat /\ q.anchor \in Nat /\ q.stop \in Nat
        /\ row.time \in Nat /\ row.anchor \in Nat
    BY <2>1, <2>2, RowFields, HeldFields
  <2>5. LegHeld(q, row, now + 1, later)
    BY <1>1, <2>1, <2>3, <2>4 DEF Held, LegHeld
  <2>6. QED
    BY <1>1, <2>1, <2>5 DEF Held, q, row, later
<1>7. SeenInv' /\ SerialInv'
  BY <1>1 DEF TimeIInv, SeenInv, SerialInv
<1>8. QED
  BY <1>4, <1>5, <1>6, <1>7 DEF TimeIInv

LEMMA TimeStepInv == TimeIInv /\ [DiagTimeNext]_diagVars => TimeIInv'
<1> SUFFICES ASSUME TimeIInv, [DiagTimeNext]_diagVars PROVE TimeIInv'
  OBVIOUS
<1>1. CASE UNCHANGED diagVars
  BY <1>1 DEF diagVars, TimeIInv, TimeTypes, RowsInv, HeldInv, SeenInv, SerialInv
<1>2. CASE Tick
  BY <1>2, TickStep
<1>3. ASSUME NEW r \in Requests, NEW t \in Techs,
             \/ AssignBegin(r, t) \/ StartBegin(r, t)
             \/ \E target \in CycleStatus : Leave(r, t, target)
      PROVE  TimeIInv'
  BY <1>3, AssignBeginStep, StatusStep
<1>4. ASSUME NEW r \in Requests, AssignSave(r) \/ OpenLeg(r) \/ CloseRead(r) \/ CloseWrite(r)
                                  \/ AbandonRead(r) \/ AbandonSave(r)
      PROVE  TimeIInv'
  BY <1>4, AssignSaveStep, OpenLegStep, CloseReadStep, CloseWriteStep, AbandonReadStep,
     AbandonSaveStep
<1>5. ASSUME NEW r \in Requests, ToDiag(r) \/ Cut(r) \/ StartWrite(r) \/ AbandonBegin(r)
                                  \/ GiveBack(r)
      PROVE  TimeIInv'
  BY <1>5, StatusStep
<1>6. QED
  BY <1>1, <1>2, <1>3, <1>4, <1>5 DEF DiagTimeNext

\* A step keeps the history of every row: the document saved is the one that was read.
LEMMA HistoryKeptStep == TimeIInv /\ [DiagTimeNext]_diagVars => HistoryKept
<1> SUFFICES ASSUME TimeIInv, [DiagTimeNext]_diagVars PROVE HistoryKept
  OBVIOUS
<1>1. statRows \in Seq(StatDoc) /\ DOMAIN statRows = 1..Len(statRows)
  BY LenProperties DEF TimeIInv, TimeTypes
<1>2. CASE UNCHANGED statRows
  BY <1>2 DEF HistoryKept
<1>3. ASSUME NEW row \in StatDoc, statRows # <<>>, statRows' = FirstWritten(statRows, row),
             HistoryGrows(statRows[1].history, row.history)
      PROVE  HistoryKept
  <2>1. /\ statRows'[1] = row
        /\ \A i \in 1..Len(statRows) : i # 1 => statRows'[i] = statRows[i]
    BY <1>1, <1>3, FirstRowWritten
  <2>2. QED
    BY <1>1, <1>3, <2>1 DEF HistoryKept, HistoryGrows
<1>4. ASSUME NEW r \in Requests, OpenLeg(r) \/ CloseWrite(r), ~UNCHANGED statRows
      PROVE  HistoryKept
  <2> DEFINE q == request[r]
             row == IF At(r, "open") THEN WithAnchor(statRows[1])
                    ELSE Closed(statRows[1], q.time + (q.stop - q.anchor))
  <2>1. statRows # <<>>
    BY <1>4 DEF OpenLeg, CloseWrite, At, UsesRow, TimeIInv, HeldInv
  <2>2. statRows' = FirstWritten(statRows, row)
    BY <1>4 DEF OpenLeg, CloseWrite, At, FirstWritten
  <2>3. statRows[1] \in StatDoc
    BY <2>1, OldestFacts
  <2>4. row.history = statRows[1].history
    BY <2>3 DEF WithAnchor, Closed, StatDoc
  <2> HIDE DEF row
  <2>5. /\ statRows'[1].history = statRows[1].history
        /\ \A i \in 1..Len(statRows) : i # 1 => statRows'[i] = statRows[i]
    <3>1. 1 \in 1..Len(statRows)
      BY <2>1, OldestRow DEF TimeIInv
    <3>2. QED
      BY <1>1, <2>2, <2>4, <3>1 DEF FirstWritten
  <2>6. QED
    BY <1>1, <2>5 DEF HistoryKept
<1>5. ASSUME NEW r \in Requests, AssignSave(r), ~UNCHANGED statRows
      PROVE  HistoryKept
  <2> DEFINE q == request[r]
             entry == Opened(q.tech, q.time)
  <2>1. /\ q.at = "assign" /\ q \in RequestState /\ q.tech \in Techs
        /\ q.time \in Times /\ q.time \in Nat
        /\ q.history \in Seq(Assignment) /\ 0 \in Times
    BY <1>5, HeldFields, DiagTimeBounds DEF AssignSave, At, TimeIInv, TimeTypes, SeenInv, Times
  <2>2. entry \in Assignment /\ entry.start = q.time /\ entry.time = 0
    BY <2>1 DEF Opened, Assignment
  <2>3. CASE q.seen = 0
    <3> DEFINE row == [tech |-> q.tech, anchor |-> NoDate, time |-> 0,
                       history |-> <<entry>>, version |-> 0]
    <3>1. statRows' = Append(statRows, row)
      BY <1>5, <2>3 DEF AssignSave
    <3> HIDE DEF entry
    <3>2. row \in StatDoc
      BY <2>1, <2>2, NatTimes DEF StatDoc
    <3> HIDE DEF row
    <3>3. \A i \in 1..Len(statRows) : statRows'[i] = statRows[i]
      BY <1>1, <3>1, <3>2, AppendProperties
    <3>4. QED
      BY <1>1, <3>3 DEF HistoryKept
  <2>4. CASE q.seen # 0
    <3> DEFINE old == statRows[1]
               history == Append(q.history, entry)
               row == [old EXCEPT !.tech = q.tech, !.history = history, !.version = @ + 1]
    <3>1. statRows' = FirstWritten(statRows, row) /\ q.version = old.version
      BY <1>5, <2>4 DEF AssignSave, FirstWritten, Unchanged
    <3>2. statRows # <<>> /\ DocHeld(q, old)
      BY <2>1, <2>4 DEF UsesRow, TimeIInv, HeldInv, Held
    <3>3. old \in StatDoc
      BY <3>2, OldestFacts
    <3> HIDE DEF old
    <3>4. q.history = old.history /\ q.time <= old.time /\ SharesIn(q.history, old.time)
      BY <2>1, <3>1, <3>2 DEF DocHeld
    <3>5. HistoryGrows(old.history, history)
      <4> HIDE DEF entry
      <4>1. old.time \in Nat
        BY <3>3, RowFields
      <4>2. entry.start + entry.time <= old.time
        BY <2>1, <2>2, <3>4, <4>1
      <4>3. QED
        BY <2>1, <2>2, <3>4, <4>1, <4>2, AppendedHistory
    <3>6. history \in Seq(Assignment)
      BY <2>1, <2>2, AppendProperties
    <3> HIDE DEF history
    <3>7. row \in StatDoc /\ row.history = history
      <4>1. old.version + 1 \in Nat
        BY <3>3, RowFields
      <4>2. row = [old EXCEPT !.tech = q.tech, !.history = history, !.version = old.version + 1]
        OBVIOUS
      <4> HIDE DEF row
      <4>3. QED
        BY <2>1, <3>3, <3>6, <4>1, <4>2 DEF StatDoc
    <3> HIDE DEF row
    <3>8. QED
      BY <1>3, <3>1, <3>2, <3>5, <3>7 DEF old
  <2>5. QED
    BY <2>3, <2>4
<1>6. ASSUME NEW r \in Requests, AbandonSave(r), ~UNCHANGED statRows
      PROVE  HistoryKept
  <2> DEFINE q == request[r]
             old == statRows[1]
             history == Settled(q.history, old.tech, q.time)
             row == [old EXCEPT !.history = history, !.version = old.version + 1]
  <2>1. /\ q.at = "abandon" /\ statRows # <<>> /\ DocHeld(q, old) /\ q.version = old.version
        /\ statRows' = FirstWritten(statRows, row) /\ q \in RequestState
    BY <1>6 DEF AbandonSave, At, Unchanged, FirstWritten, UsesRow, TimeIInv, TimeTypes, HeldInv,
                Held
  <2>2. old \in StatDoc
    BY <2>1, OldestFacts
  <2> HIDE DEF old, q
  <2>3. q.history = old.history /\ q.time <= old.time /\ SharesIn(q.history, old.time)
    BY <2>1 DEF DocHeld
  <2>4. /\ old.time \in Nat /\ old.version \in Nat /\ old.tech \in Techs
        /\ q.time \in Times /\ q.history \in Seq(Assignment)
    BY <2>1, <2>2, RowFields, HeldFields
  <2>5. history \in Seq(Assignment) /\ HistoryGrows(old.history, history)
    BY <2>3, <2>4, SettledHistory
  <2> HIDE DEF history
  <2>6. old.version + 1 \in Nat
    BY <2>4
  <2>7. row \in StatDoc /\ row.history = history
    BY <2>2, <2>5, <2>6 DEF StatDoc
  <2> HIDE DEF row
  <2>8. QED
    BY <1>3, <2>1, <2>5, <2>7 DEF old
<1>7. QED
  BY <1>2, <1>4, <1>5, <1>6 DEF DiagTimeNext, diagVars, Tick, AssignBegin, StartBegin, Leave,
     ToDiag, Cut, StartWrite, CloseRead, AbandonBegin, AbandonRead, GiveBack

----------------------------------------------------------------------------
(* Theorems.                                                               *)

LEMMA TimeIInvInvariant == DiagTimeSpec => []TimeIInv
<1>1. DiagTimeInit => TimeIInv
  BY TimeInitInv
<1>2. TimeIInv /\ [DiagTimeNext]_diagVars => TimeIInv'
  BY TimeStepInv
<1>3. QED
  BY <1>1, <1>2, PTL DEF DiagTimeSpec

\* Whatever requests overlap on one diagnostic, the time billed never exceeds the time
\* during which a leg was open, the shares of the technicians stay within the time billed,
\* and requests that do not overlap leave one row (closeDiagLeg, recordDiagAbandon,
\* createStat).
THEOREM DiagTimeInvariant == DiagTimeSpec => []DiagTimeInv
<1>1. TimeIInv => DiagTimeInv
  <2> SUFFICES ASSUME TimeIInv PROVE DiagTimeInv
    OBVIOUS
  <2>1. DOMAIN statRows = 1..Len(statRows) /\ Len(statRows) \in Nat
    BY LenProperties DEF TimeIInv, TimeTypes
  <2>2. DiagTimeTypeOK
    BY DEF TimeIInv, TimeTypes, DiagTimeTypeOK
  <2>3. BilledWithinWorked
    <3> SUFFICES ASSUME NEW i \in 1..Len(statRows)
                 PROVE  statRows[i].time + (IF statRows[i].anchor = NoDate THEN 0
                                            ELSE now - statRows[i].anchor) <= worked[i]
      BY <2>1 DEF BilledWithinWorked
    <3> DEFINE row == statRows[i]
    <3>1. row \in StatDoc /\ RowOK(row, now, worked[i])
      BY ElementOfSeq DEF TimeIInv, TimeTypes, RowsInv
    <3> HIDE DEF row
    <3>2. row.time \in Nat
      BY <3>1, RowFields
    <3>3. row.time + (IF row.anchor = NoDate THEN 0 ELSE now - row.anchor) <= worked[i]
      BY <3>1, <3>2 DEF RowOK
    <3>4. QED
      BY <3>3 DEF row
  <2>4. SharesWithinBilled
    BY <2>1 DEF SharesWithinBilled, TimeIInv, RowsInv, RowOK, SharesIn
  <2>5. OneRowIfSerial
    BY DEF OneRowIfSerial, TimeIInv, SerialInv
  <2>6. QED
    BY <2>2, <2>3, <2>4, <2>5 DEF DiagTimeInv
<1>2. QED
  BY <1>1, TimeIInvInvariant, PTL

\* No save of a request that overlaps another loses a technician of the history, moves him,
\* or changes the share of an assignment that was abandoned (the save of createStat and of
\* recordDiagAbandon).
THEOREM HistoryIsKept == DiagTimeSpec => [][HistoryKept]_diagVars
<1>1. TimeIInv /\ [DiagTimeNext]_diagVars => [HistoryKept]_diagVars
  BY HistoryKeptStep
<1>2. QED
  BY <1>1, TimeIInvInvariant, PTL DEF DiagTimeSpec
=============================================================================
