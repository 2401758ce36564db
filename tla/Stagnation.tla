----------------------------- MODULE Stagnation ----------------------------
(***************************************************************************)
(* The morning job on stagnant DIs (triggerStagnationDetection of          *)
(* src/src/cron/cron.service.ts): the alerts of the 48-hour monitor        *)
(* (src/src/stagnation, src/src/alerts), then the daily report, which      *)
(* reserves each DI, writes a line in the tab of the day and notifies.     *)
(* The scheduler and the ACTION runtime can run it at the same time.       *)
(***************************************************************************)
EXTENDS Integers, Sequences, FiniteSets

CONSTANTS
    WatchedDis,    \* the DIs
    OpenStatuses,  \* statuses that are not terminal
    JobRuns,       \* the runs of the job, each once
    LastMorning,   \* bound on the days
    MaxMoves,      \* bound on the changes of status
    MaxJobFaults   \* bound on errors, lost answers and crashes

ASSUME StagnationBounds ==
    LastMorning \in Nat /\ MaxMoves \in Nat /\ MaxJobFaults \in Nat

\* In days: THRESHOLD_HOURS of the report, lowerMs of the monitor; the age counts to 2.
ReportAge == 1
AlertAge == 2
AppendAttempts == 3

VARIABLES
    morning,    \* the day
    watched,    \* watched[d]: [status, age], its status and the days spent in it
    moves,      \* the changes of status so far
    jobRun,     \* jobRun[r]: a run
    alerts,     \* alerts[d]: the open 48-hour alerts
    lower,      \* the DIs with an alert of an older tier still open
    dispatched, \* the reservations <<date, DI, status>>
    tabs,       \* tabs[day]: "none", "bare" (no header yet) or "ready"
    firstRow,   \* firstRow[day]: the reservations whose lines begin a bare tab
    tabLines,   \* tabLines[k]: the lines of the reservation in the tab of its day
    jobFaults,  \* the faults so far
    spoiled,    \* history: the reservations an error, a crash or a lost answer hit
    retried,    \* history: those whose lines were sent again after a lost answer
    together,   \* history: two runs were under way at once
    alertFault  \* history: an error or a crash in the monitor

stagnationVars == <<morning, watched, moves, jobRun, alerts, lower, dispatched, tabs,
    firstRow, tabLines, jobFaults, spoiled, retried, together, alertFault>>
reportVars == <<dispatched, tabs, firstRow, tabLines, spoiled, retried>>
alertVars == <<alerts, lower, alertFault>>

Mornings == 0..LastMorning
Reservations == Mornings \X WatchedDis \X OpenStatuses
NewRun == [at |-> "waiting", date |-> 0, todo |-> {}, on |-> {}, fresh |-> {}, seen |-> FALSE,
           tries |-> 0]
Active(r) == jobRun[r].at \notin {"waiting", "done"}

StagnationTypeOK ==
    /\ morning \in Mornings
    /\ watched \in [WatchedDis -> [status: OpenStatuses \cup {"closed"}, age: 0..AlertAge]]
    /\ \A r \in JobRuns :
          /\ jobRun[r].at \in {"waiting", "check", "alert", "escalate", "list", "reserve",
                "append", "meta", "create", "header", "again", "bell", "discord", "done"}
          /\ jobRun[r].fresh \subseteq dispatched
          /\ jobRun[r].tries \in 0..(AppendAttempts - 1)
    /\ alerts \in [WatchedDis -> Nat] /\ lower \subseteq WatchedDis
    /\ dispatched \subseteq Reservations
    /\ tabs \in [Mornings -> {"none", "bare", "ready"}]
    /\ tabLines \in [Reservations -> Nat]
    /\ jobFaults \in 0..MaxJobFaults

StagnationInit ==
    /\ morning = 0
    /\ watched \in [WatchedDis -> [status: OpenStatuses, age: {0, AlertAge}]]
    /\ moves = 0
    /\ jobRun = [r \in JobRuns |-> NewRun]
    /\ alerts = [d \in WatchedDis |-> 0]
    /\ lower \in SUBSET WatchedDis
    /\ dispatched = {}
    /\ tabs = [day \in Mornings |-> "none"]
    /\ firstRow = [day \in Mornings |-> {}]
    /\ tabLines = [k \in Reservations |-> 0]
    /\ jobFaults = 0
    /\ spoiled = {} /\ retried = {}
    /\ together = FALSE /\ alertFault = FALSE

JobFault == jobFaults < MaxJobFaults /\ jobFaults' = jobFaults + 1
Goes(r, at) == jobRun' = [jobRun EXCEPT ![r].at = at]

\* The open DIs that have been in their status for that long.
Stagnant(age) ==
    {d \in WatchedDis : watched[d].status # "closed" /\ watched[d].age >= age}

----------------------------------------------------------------------------
(* The monitor (detectStagnantDi).                                         *)

StartJob(r) ==
    /\ jobRun[r].at = "waiting"
    /\ jobRun' = [jobRun EXCEPT ![r].at = "check", ![r].todo = Stagnant(AlertAge)]
    /\ together' = (together \/ \E q \in JobRuns : Active(q))
    /\ UNCHANGED <<morning, watched, moves, jobFaults, reportVars, alertVars>>

\* createAlertIfMissing: an open alert of the type is looked for, then one is created.
\* Mutant of Existing: it is not looked for.
ExistingNever(d) == FALSE
Existing(d) == alerts[d] > 0

CheckAlert(r, d) ==
    /\ jobRun[r].at = "check" /\ d \in jobRun[r].todo
    /\ jobRun' = [jobRun EXCEPT ![r].at = "alert", ![r].todo = @ \ {d},
                                ![r].on = {d}, ![r].seen = Existing(d)]
    /\ UNCHANGED <<morning, watched, moves, together, jobFaults, reportVars, alertVars>>

CreateAlert(r, d) ==
    /\ jobRun[r].at = "alert" /\ d \in jobRun[r].on
    /\ alerts' = [alerts EXCEPT ![d] = IF jobRun[r].seen THEN @ ELSE @ + 1]
    /\ Goes(r, "escalate")
    /\ UNCHANGED <<morning, watched, moves, together, jobFaults, lower, alertFault, reportVars>>

\* resolveOpenAlertsForDi: the open alerts of the older tiers are closed.
\* Mutant of Escalated: they stay open.
EscalatedNever(d) == lower
Escalated(d) == lower \ {d}

ResolveLower(r, d) ==
    /\ jobRun[r].at = "escalate" /\ d \in jobRun[r].on
    /\ lower' = Escalated(d)
    /\ jobRun' = [jobRun EXCEPT ![r].at = "check", ![r].on = {}]
    /\ UNCHANGED <<morning, watched, moves, together, jobFaults, alerts, alertFault, reportVars>>

\* The monitor ends, its digest being best-effort, or fails; the report follows anyway.
EndMonitor(r) ==
    /\ jobRun[r].at = "check" /\ jobRun[r].todo = {}
    /\ Goes(r, "list")
    /\ UNCHANGED <<morning, watched, moves, together, jobFaults, reportVars, alertVars>>

MonitorFails(r) ==
    /\ jobRun[r].at \in {"check", "alert", "escalate"} /\ JobFault
    /\ Goes(r, "list")
    /\ alertFault' = TRUE
    /\ UNCHANGED <<morning, watched, moves, together, alerts, lower, reportVars>>

----------------------------------------------------------------------------
(* The report (StagnationDailyReportService.run).                          *)

ListStagnant(r) ==
    /\ jobRun[r].at = "list"
    /\ jobRun' = [jobRun EXCEPT ![r] = [NewRun EXCEPT !.at = "reserve", !.date = morning,
           !.todo = {<<morning, d, watched[d].status>> : d \in Stagnant(ReportAge)}]]
    /\ UNCHANGED <<morning, watched, moves, together, jobFaults, reportVars, alertVars>>

\* The unique index {date, idNum, status} takes the reservation, or the DI is skipped.
\* Mutant of Reservable: there is no index.
ReservableAlways(k) == TRUE
Reservable(k) == k \notin dispatched

Reserve(r, k) ==
    /\ jobRun[r].at = "reserve" /\ k \in jobRun[r].todo
    /\ dispatched' = dispatched \cup {k}
    /\ jobRun' = [jobRun EXCEPT ![r].todo = @ \ {k},
                     ![r].fresh = IF Reservable(k) THEN @ \cup {k} ELSE @]
    /\ UNCHANGED <<morning, watched, moves, together, jobFaults, tabs, firstRow, tabLines,
                   spoiled, retried, alertVars>>

EndReserve(r) ==
    /\ jobRun[r].at = "reserve" /\ jobRun[r].todo = {}
    /\ Goes(r, IF jobRun[r].fresh = {} THEN "done" ELSE "append")
    /\ UNCHANGED <<morning, watched, moves, together, jobFaults, reportVars, alertVars>>

\* The lines reach the tab; those that begin it stay where the header goes.
Written(r) ==
    LET fresh == jobRun[r].fresh  day == jobRun[r].date IN
    /\ tabLines' = [k \in Reservations |-> tabLines[k] + (IF k \in fresh THEN 1 ELSE 0)]
    /\ firstRow' = IF tabs[day] = "bare" /\ firstRow[day] = {}
                   THEN [firstRow EXCEPT ![day] = fresh] ELSE firstRow

\* appendRows: the tab is there and takes the lines, or it is missing.
Append1(r) ==
    /\ jobRun[r].at = "append"
    /\ IF tabs[jobRun[r].date] = "none"
       THEN Goes(r, "meta") /\ UNCHANGED <<tabLines, firstRow>>
       ELSE Written(r) /\ Goes(r, "bell")
    /\ UNCHANGED <<morning, watched, moves, together, jobFaults, dispatched, tabs, spoiled,
                   retried, alertVars>>

\* 429 or 5xx, the lines written or not: sent again, three attempts in all.
AppendTransient(r, written) ==
    /\ jobRun[r].at = "append" /\ JobFault
    /\ written => tabs[jobRun[r].date] # "none" /\ Written(r)
    /\ ~written => UNCHANGED <<tabLines, firstRow>>
    /\ retried' = IF written THEN retried \cup jobRun[r].fresh ELSE retried
    /\ IF jobRun[r].tries + 1 < AppendAttempts
       THEN jobRun' = [jobRun EXCEPT ![r].tries = @ + 1] /\ UNCHANGED spoiled
       ELSE Goes(r, "bell") /\ spoiled' = spoiled \cup jobRun[r].fresh
    /\ UNCHANGED <<morning, watched, moves, together, dispatched, tabs, alertVars>>

\* Any other error of Sheets, in appendRows or ensureTab: logged, the report goes on.
SheetFails(r) ==
    /\ jobRun[r].at \in {"append", "meta", "create", "header", "again"} /\ JobFault
    /\ Goes(r, "bell")
    /\ spoiled' = spoiled \cup jobRun[r].fresh
    /\ UNCHANGED <<morning, watched, moves, together, dispatched, tabs, firstRow, tabLines,
                   retried, alertVars>>

\* ensureTab: the titles are read, the tab added, then its first row written.
ReadMeta(r) ==
    /\ jobRun[r].at = "meta"
    /\ Goes(r, IF tabs[jobRun[r].date] = "none" THEN "create" ELSE "again")
    /\ UNCHANGED <<morning, watched, moves, together, jobFaults, reportVars, alertVars>>

\* Sheets refuses a second tab of that name, and the run gives its lines up.
AddTab(r) ==
    LET day == jobRun[r].date IN
    /\ jobRun[r].at = "create"
    /\ IF tabs[day] = "none"
       THEN tabs' = [tabs EXCEPT ![day] = "bare"] /\ Goes(r, "header") /\ UNCHANGED spoiled
       ELSE /\ spoiled' = spoiled \cup jobRun[r].fresh
            /\ Goes(r, "bell") /\ UNCHANGED tabs
    /\ UNCHANGED <<morning, watched, moves, together, jobFaults, dispatched, firstRow, tabLines,
                   retried, alertVars>>

\* Mutant of AfterHeader: the lines are not sent again.
AfterHeaderBell(r) == Goes(r, "bell")
AfterHeader(r) == Goes(r, "again")

\* values.update writes the header in A1, over what is there.
SeedHeader(r) ==
    LET day == jobRun[r].date IN
    /\ jobRun[r].at = "header"
    /\ tabs' = [tabs EXCEPT ![day] = "ready"]
    /\ tabLines' = [k \in Reservations |->
          IF k \in firstRow[day] /\ k = CHOOSE f \in firstRow[day] : TRUE
          THEN tabLines[k] - 1 ELSE tabLines[k]]
    /\ firstRow' = [firstRow EXCEPT ![day] = {}]
    /\ AfterHeader(r)
    /\ UNCHANGED <<morning, watched, moves, together, jobFaults, dispatched, spoiled, retried,
                   alertVars>>

AppendAgain(r) ==
    /\ jobRun[r].at = "again"
    /\ Written(r) /\ Goes(r, "bell")
    /\ UNCHANGED <<morning, watched, moves, together, jobFaults, dispatched, tabs, spoiled,
                   retried, alertVars>>

\* The bell and the Discord line, each best-effort.
Bell(r) ==
    /\ jobRun[r].at = "bell" /\ Goes(r, "discord")
    /\ UNCHANGED <<morning, watched, moves, together, jobFaults, reportVars, alertVars>>

DiscordLine(r) ==
    /\ jobRun[r].at = "discord"
    /\ jobRun' = [jobRun EXCEPT ![r] = [NewRun EXCEPT !.at = "done"]]
    /\ UNCHANGED <<morning, watched, moves, together, jobFaults, reportVars, alertVars>>

\* The process stops, or the base fails while lines are reserved: those go no further.
LoseJob(r) ==
    /\ Active(r) /\ JobFault
    /\ spoiled' = spoiled \cup jobRun[r].fresh
    /\ alertFault' = (alertFault \/ jobRun[r].at \in {"check", "alert", "escalate"})
    /\ jobRun' = [jobRun EXCEPT ![r] = [NewRun EXCEPT !.at = "done"]]
    /\ UNCHANGED <<morning, watched, moves, together, dispatched, tabs, firstRow, tabLines,
                   retried, alerts, lower>>

----------------------------------------------------------------------------
(* The DIs, the users and the days.                                        *)

MoveDi(d, status) ==
    /\ moves < MaxMoves /\ moves' = moves + 1
    /\ status # watched[d].status
    /\ watched' = [watched EXCEPT ![d] = [status |-> status, age |-> 0]]
    /\ UNCHANGED <<morning, jobRun, together, jobFaults, reportVars, alertVars>>

\* resolveAlert: a user closes one alert.
ResolveAlert(d) ==
    /\ alerts[d] > 0
    /\ alerts' = [alerts EXCEPT ![d] = @ - 1]
    /\ UNCHANGED <<morning, watched, moves, jobRun, together, jobFaults, lower, alertFault,
                   reportVars>>

NextMorning ==
    /\ morning < LastMorning
    /\ morning' = morning + 1
    /\ watched' = [d \in WatchedDis |->
          [watched[d] EXCEPT !.age = IF @ < AlertAge THEN @ + 1 ELSE @]]
    /\ UNCHANGED <<moves, jobRun, together, jobFaults, reportVars, alertVars>>

MonitorStep(r) ==
    \/ \E d \in WatchedDis : CheckAlert(r, d) \/ CreateAlert(r, d) \/ ResolveLower(r, d)
    \/ EndMonitor(r) \/ MonitorFails(r)

ReportStep(r) ==
    \/ ListStagnant(r) \/ (\E k \in jobRun[r].todo : Reserve(r, k)) \/ EndReserve(r)
    \/ Append1(r) \/ (\E written \in BOOLEAN : AppendTransient(r, written)) \/ SheetFails(r)
    \/ ReadMeta(r) \/ AddTab(r) \/ SeedHeader(r) \/ AppendAgain(r)
    \/ Bell(r) \/ DiscordLine(r)

StagnationNext ==
    \/ \E r \in JobRuns : StartJob(r) \/ MonitorStep(r) \/ ReportStep(r) \/ LoseJob(r)
    \/ \E d \in WatchedDis, status \in OpenStatuses \cup {"closed"} : MoveDi(d, status)
    \/ \E d \in WatchedDis : ResolveAlert(d)
    \/ NextMorning

StagnationSpec == StagnationInit /\ [][StagnationNext]_stagnationVars

----------------------------------------------------------------------------
(* What the job promises.                                                  *)

Held(k) == \E r \in JobRuns : k \in jobRun[r].fresh

\* A reservation is not written twice in its tab, overlapping runs and runs repeated the
\* same day included, but for lines sent again after a lost answer.
NoDoubleLine == \A k \in Reservations \ retried : tabLines[k] <= 1

\* When the runs came one at a time, each reservation that no run holds has its line,
\* unless an error or a crash hit the run: the first line of the day included, for which
\* the tab is made.
ReservedIsWritten ==
    ~together => \A k \in dispatched \ (spoiled \cup retried) : Held(k) \/ tabLines[k] = 1

\* When the runs came one at a time and the monitor did not fail, a DI has one open alert
\* at most between the runs, the older tiers included once it has that of 48 hours.
OneOpenAlert ==
    ~together /\ ~alertFault /\ (\A r \in JobRuns : ~Active(r)) =>
        \A d \in WatchedDis : alerts[d] <= 1 /\ (alerts[d] = 1 => d \notin lower)

\* The morning job: each stagnant DI reported once, none dropped, one alert each.
StagnationInv ==
    /\ StagnationTypeOK /\ NoDoubleLine /\ ReservedIsWritten
    /\ OneOpenAlert
=============================================================================
