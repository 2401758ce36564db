------------------------------ MODULE DiagTime ------------------------------
(***************************************************************************)
(* The billed time and the assignments of one diagnostic cycle, under      *)
(* concurrent requests (src/src/stat/stat.service.ts, and the callers in   *)
(* src/src/di/di.service.ts).  DiFlow takes each mutation as one step; here*)
(* a request is cut at every await of its handler, so that two requests on *)
(* the same DI interleave.                                                 *)
(***************************************************************************)
EXTENDS Naturals, Sequences, DiTransitionGuard

CONSTANTS
    Requests,      \* the requests in flight at once
    Techs,         \* the technicians
    MaxTime,       \* bound on the clock
    MaxRows,       \* bound on the Stat rows of the cycle
    MaxHistory     \* bound on the assignments of a row, so on the requests made

ASSUME DiagTimeBounds ==
    /\ MaxTime \in Nat
    /\ MaxRows \in Nat \ {0}
    /\ MaxHistory \in Nat
    /\ "none" \notin Techs

VARIABLES
    diStatus,   \* the status of the DI
    now,        \* the clock of the server
    statRows,   \* the Stat rows of the cycle, oldest first
    worked,     \* history: worked[i], the time during which a leg of row i was open
    request,    \* request[r]: where the handler of r is, and what it has read
    overlapped  \* history: two requests have been in flight together

diagVars == <<diStatus, now, statRows, worked, request, overlapped>>

Times == 0..MaxTime
NoDate == MaxTime + 1       \* a null date
CycleStatus == DiagStatus \cup {"PENDING1", "MagasinEstimation"}

\* An entry of diagAssignments; worked is the contribution shown for the tech.
Assignment == [tech: Techs, start: Times, abandoned: BOOLEAN, time: Times]

\* version is the __v of the document: mongoose checks it when an array of the
\* document is saved as a whole.
StatDoc == [tech: Techs, anchor: 0..NoDate, time: Times,
            history: Seq(Assignment), version: Nat]

Steps == {"idle", "start", "open", "close", "closed", "abandon", "settle",
          "give back", "assign", "send"}

RequestState == [at: Steps, tech: Techs \cup {"none"}, abandoning: BOOLEAN,
                 reopened: BOOLEAN, seen: Nat, anchor: 0..NoDate,
                 time: Times, stop: Times, history: Seq(Assignment), version: Nat]

Idle == [at |-> "idle", tech |-> "none", abandoning |-> FALSE, reopened |-> FALSE,
         seen |-> 0, anchor |-> NoDate, time |-> 0, stop |-> 0,
         history |-> <<>>, version |-> 0]

\* The types of the documents and of what a request holds of them.
DiagTimeTypeOK ==
    /\ diStatus \in CycleStatus
    /\ now \in Times
    /\ statRows \in Seq(StatDoc)
    /\ worked \in [1..MaxRows -> Times]
    /\ request \in [Requests -> RequestState]
    /\ overlapped \in BOOLEAN

DiagTimeInit ==
    /\ diStatus = "PENDING1"
    /\ now = 0
    /\ statRows = <<>>
    /\ worked = [i \in 1..MaxRows |-> 0]
    /\ request = [r \in Requests |-> Idle]
    /\ overlapped = FALSE

----------------------------------------------------------------------------

\* findOne of the cycle returns the oldest row, the authorization the newest.
Newest == statRows[Len(statRows)]
Owns(t) == statRows # <<>> /\ Newest.tech = t

\* Of the requests in flight, only r moves; begin is its first step.
Moves(r, state) == request' = [request EXCEPT ![r] = state]
At(r, step) == request[r].at = step
Begins(r) ==
    /\ At(r, "idle")
    /\ overlapped' = (overlapped \/ \E q \in Requests \ {r} : ~At(q, "idle"))

\* The clock; an open leg is work.
Tick ==
    /\ now < MaxTime
    /\ now' = now + 1
    /\ worked' = [i \in 1..MaxRows |->
                     IF i <= Len(statRows) /\ statRows[i].anchor # NoDate
                     THEN worked[i] + 1 ELSE worked[i]]
    /\ UNCHANGED <<diStatus, statRows, request, overlapped>>

----------------------------------------------------------------------------
(* createStat: the assignment of the diagnostic, and coordinator_ToDiag.   *)

\* The row of the cycle is looked for; a technician already in its history is
\* refused.
\* Mutant of ReadForAssign: the row of the cycle is not looked for.
ReadNoRow(r, t) ==
    /\ Len(statRows) < MaxRows
    /\ Moves(r, [Idle EXCEPT !.at = "assign", !.tech = t])

ReadForAssign(r, t) ==
    \/ /\ statRows = <<>>
       /\ Moves(r, [Idle EXCEPT !.at = "assign", !.tech = t])
    \/ /\ statRows # <<>>
       /\ \A j \in DOMAIN statRows[1].history : statRows[1].history[j].tech # t
       /\ Len(statRows[1].history) < MaxHistory
       /\ Moves(r, [Idle EXCEPT !.at = "assign", !.tech = t, !.seen = 1,
                               !.time = statRows[1].time,
                               !.history = statRows[1].history,
                               !.version = statRows[1].version])

AssignBegin(r, t) ==
    /\ diStatus = "PENDING1"
    /\ Begins(r)
    /\ ReadForAssign(r, t)
    /\ UNCHANGED <<diStatus, now, statRows, worked>>

\* The diag_time read is the snapshot from which the contribution is counted.
Opened(t, time) == [tech |-> t, start |-> time, abandoned |-> FALSE, time |-> 0]

\* Mutant of Unchanged: save() does not check the version of the document.
NotChecked(i, version) == i \in 1..MaxRows /\ version \in Nat

\* A save of a whole array throws when the document was saved in between.
Unchanged(i, version) == i <= Len(statRows) /\ statRows[i].version = version

AssignSave(r) ==
    LET q == request[r]
        row == statRows[1]
        entry == Opened(q.tech, q.time)
        sent == [Idle EXCEPT !.at = "send"]
    IN /\ At(r, "assign")
       /\ \/ /\ q.seen = 0
             /\ Len(statRows) < MaxRows
             /\ statRows' = Append(statRows,
                   [tech |-> q.tech, anchor |-> NoDate, time |-> 0,
                    history |-> <<entry>>, version |-> 0])
             /\ Moves(r, sent)
          \/ /\ q.seen = 1
             /\ Unchanged(1, q.version)
             /\ statRows' = [statRows EXCEPT ![1] =
                   [row EXCEPT !.tech = q.tech, !.history = Append(q.history, entry),
                               !.version = @ + 1]]
             /\ Moves(r, sent)
          \/ /\ q.seen = 1 /\ ~Unchanged(1, q.version)
             /\ UNCHANGED statRows
             /\ Moves(r, Idle)
       /\ UNCHANGED <<diStatus, now, worked, overlapped>>

\* The screen of the coordinator sends the DI once createStat has answered.
ToDiag(r) ==
    /\ At(r, "send")
    /\ diStatus' = IF MayEnter(diStatus, "DIAGNOSTIC") THEN "DIAGNOSTIC" ELSE diStatus
    /\ Moves(r, Idle)
    /\ UNCHANGED <<now, statRows, worked, overlapped>>

\* A request stops between two of its steps: a restart, an error of the
\* database, a client that is gone before the second mutation.
Cut(r) ==
    /\ ~At(r, "idle")
    /\ Moves(r, Idle)
    /\ UNCHANGED <<diStatus, now, statRows, worked, overlapped>>

----------------------------------------------------------------------------
(* The leg: changeStatusInDiagnostic opens it.                             *)

StartBegin(r, t) ==
    /\ Owns(t)
    /\ MayEnter(diStatus, "INDIAGNOSTIC")
    /\ Begins(r)
    /\ Moves(r, [Idle EXCEPT !.at = "start", !.reopened = (diStatus = "INDIAGNOSTIC")])
    /\ UNCHANGED <<diStatus, now, statRows, worked>>

\* The status read before the write decides whether the leg is opened.
StartWrite(r) ==
    /\ At(r, "start")
    /\ diStatus' = "INDIAGNOSTIC"
    /\ IF request[r].reopened THEN Moves(r, Idle)
       ELSE Moves(r, [Idle EXCEPT !.at = "open"])
    /\ UNCHANGED <<now, statRows, worked, overlapped>>

WithAnchor(row) == IF row.anchor = NoDate THEN [row EXCEPT !.anchor = now] ELSE row

\* openDiagLeg: one filtered updateOne.
OpenLeg(r) ==
    /\ At(r, "open")
    /\ statRows' = [statRows EXCEPT ![1] = WithAnchor(@)]
    /\ Moves(r, Idle)
    /\ UNCHANGED <<diStatus, now, worked, overlapped>>

----------------------------------------------------------------------------
(* closeDiagLeg, and the requests that call it.                            *)

\* The pause is not guarded on the status, the exit to the store is.
Leave(r, t, target) ==
    /\ Owns(t)
    /\ target \in {"DIAGNOSTIC_Pause", "MagasinEstimation"}
    /\ target = "MagasinEstimation" => MayEnter(diStatus, target)
    /\ Begins(r)
    /\ diStatus' = target
    /\ Moves(r, [Idle EXCEPT !.at = "close"])
    /\ UNCHANGED <<now, statRows, worked>>

\* The row is read, then the time of the stop is taken.
CloseRead(r) ==
    LET row == statRows[1]
    IN /\ At(r, "close")
       /\ Moves(r, [request[r] EXCEPT !.at = "closed", !.anchor = row.anchor,
                                      !.time = row.time, !.stop = now])
       /\ UNCHANGED <<diStatus, now, statRows, worked, overlapped>>

\* Mutant of SameLeg: the update is not filtered on the anchor read.
SameLegAlways(anchor) == anchor \in Times

\* The update matches the leg that was read, and no other.
SameLeg(anchor) == anchor # NoDate /\ statRows[1].anchor = anchor

\* Mutant of Closed: the anchor is not cleared.
ClosedAnchorKept(row, time) == [row EXCEPT !.time = time]

Closed(row, time) == [row EXCEPT !.time = time, !.anchor = NoDate]

\* The time is written as a value computed from what was read.
CloseWrite(r) ==
    LET q == request[r]
        next == IF q.abandoning THEN [Idle EXCEPT !.at = "settle"] ELSE Idle
    IN /\ At(r, "closed")
       /\ IF SameLeg(q.anchor)
          THEN statRows' = [statRows EXCEPT ![1] = Closed(@, q.time + (q.stop - q.anchor))]
          ELSE UNCHANGED statRows
       /\ Moves(r, next)
       /\ UNCHANGED <<diStatus, now, worked, overlapped>>

----------------------------------------------------------------------------
(* abandonDi: recordDiagAbandon, then the transition back to PENDING1.     *)

AbandonBegin(r) ==
    /\ statRows # <<>>
    /\ diStatus \in DiagStatus
    /\ Len(statRows[1].history) < MaxHistory
    /\ Begins(r)
    /\ Moves(r, [Idle EXCEPT !.at = "close", !.abandoning = TRUE])
    /\ UNCHANGED <<diStatus, now, statRows, worked>>

AbandonRead(r) ==
    LET row == statRows[1]
    IN /\ At(r, "settle")
       /\ Moves(r, [Idle EXCEPT !.at = "abandon", !.time = row.time,
                               !.history = row.history, !.version = row.version])
       /\ UNCHANGED <<diStatus, now, statRows, worked, overlapped>>

\* Mutant of Settled: the snapshot is not subtracted.
SettledFromZero(history, tech, time) ==
    [history EXCEPT ![Len(history)] =
        [@ EXCEPT !.abandoned = TRUE, !.tech = IF history = <<>> THEN tech ELSE @,
                  !.time = time]]

\* The last open assignment is closed with the time since its snapshot; with
\* none open, a closed entry is added for the technician of the row.
Settled(history, tech, time) ==
    LET open == {i \in DOMAIN history : ~history[i].abandoned}
        last == CHOOSE i \in open : \A j \in open : j <= i
    IN IF open = {}
       THEN Append(history, [tech |-> tech, start |-> 0, abandoned |-> TRUE,
                             time |-> time])
       ELSE [history EXCEPT ![last] =
                [@ EXCEPT !.abandoned = TRUE,
                          !.time = IF time > history[last].start
                                   THEN time - history[last].start ELSE 0]]

AbandonSave(r) ==
    LET q == request[r]
        row == statRows[1]
    IN /\ At(r, "abandon")
       /\ IF Unchanged(1, q.version)
          THEN /\ statRows' = [statRows EXCEPT ![1] =
                     [row EXCEPT !.history = Settled(q.history, row.tech, q.time),
                                 !.version = @ + 1]]
               /\ Moves(r, [Idle EXCEPT !.at = "give back"])
          ELSE Moves(r, Idle) /\ UNCHANGED statRows
       /\ UNCHANGED <<diStatus, now, worked, overlapped>>

\* TECH_ABANDON_TO_PENDING1 is strict: it throws when the DI has left the
\* diagnostic in between, after the abandon was recorded.
GiveBack(r) ==
    /\ At(r, "give back")
    /\ diStatus' = IF diStatus \in DiagStatus THEN "PENDING1" ELSE diStatus
    /\ Moves(r, Idle)
    /\ UNCHANGED <<now, statRows, worked, overlapped>>

DiagTimeNext ==
    \/ Tick
    \/ \E r \in Requests :
          \/ \E t \in Techs : \/ AssignBegin(r, t)
                              \/ StartBegin(r, t)
                              \/ \E target \in CycleStatus : Leave(r, t, target)
          \/ AssignSave(r) \/ ToDiag(r) \/ Cut(r) \/ StartWrite(r) \/ OpenLeg(r)
          \/ CloseRead(r) \/ CloseWrite(r)
          \/ AbandonBegin(r) \/ AbandonRead(r) \/ AbandonSave(r) \/ GiveBack(r)

DiagTimeSpec == DiagTimeInit /\ [][DiagTimeNext]_diagVars

----------------------------------------------------------------------------
(* Properties.                                                             *)

\* The diagnostic is billed on diag_time: whatever requests overlap, it never
\* exceeds, open leg included, the time during which a leg was open.
BilledWithinWorked ==
    \A i \in DOMAIN statRows :
        LET row == statRows[i]
            open == IF row.anchor = NoDate THEN 0 ELSE now - row.anchor
        IN row.time + open <= worked[i]

\* An abandoned or replaced technician stays in the history of the row: it is
\* what keeps the DI from being given back to him.
HistoryKept ==
    \A i \in DOMAIN statRows : \A j \in DOMAIN statRows[i].history :
        /\ j \in DOMAIN statRows'[i].history
        /\ statRows'[i].history[j].tech = statRows[i].history[j].tech
        /\ statRows[i].history[j].abandoned
              => statRows'[i].history[j] = statRows[i].history[j]

\* The share shown for a technician is a part of the time billed, counted from
\* the time that stood when the DI was given to him.
SharesWithinBilled ==
    \A i \in DOMAIN statRows : \A j \in DOMAIN statRows[i].history :
        statRows[i].history[j].start + statRows[i].history[j].time
            <= statRows[i].time

\* The Stat row of a cycle is looked for, then created: requests that do not
\* overlap leave one row, however often the DI is given back and assigned.
OneRowIfSerial == ~overlapped => Len(statRows) <= 1

\* The time billed, the shares and the rows of a diagnostic, together: what concurrent requests
\* on one leg, one history and one row must leave right.
DiagTimeInv ==
    /\ DiagTimeTypeOK /\ BilledWithinWorked /\ SharesWithinBilled
    /\ OneRowIfSerial
============================================================================
