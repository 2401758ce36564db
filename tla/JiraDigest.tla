----------------------------- MODULE JiraDigest -----------------------------
(***************************************************************************)
(* The two crons of jira_cron_notifications, each a process of its own     *)
(* started by the system crontab.  syncTaches inserts one PENDING row per  *)
(* open issue and day; envoyerNotifications claims the PENDING rows one by *)
(* one, posts one digest of them on Discord and settles them.  Processes   *)
(* overlap, and are cut at every await on the database or on Discord.      *)
(***************************************************************************)
EXTENDS Naturals, FiniteSets

CONSTANTS
    Issues,      \* the Jira issues
    Owner,       \* Owner[i]: the responsable of issue i
    DueOn,       \* DueOn[d]: the open issues in the due window on day d
    Syncs,       \* the processes that run syncTaches
    Runs,        \* the processes that run envoyerNotifications
    Webhooks,    \* the Discord channels that have a URL
    MaxAttempts, \* JIRA_NOTIF_MAX_ATTEMPTS
    MaxSections, \* the sections a Discord embed may have
    SectionCap,  \* the tasks that fit in the text of a section
    MaxDay,      \* bound: the days observed
    MaxCuts      \* bound: the processes stopped and the final writes failed

ASSUME AttemptsAssumption == MaxAttempts \in Nat \ {0}
ASSUME BoundAssumption == MaxDay \in Nat \ {0} /\ MaxCuts \in Nat
ASSUME WindowAssumption == DueOn \in [1..MaxDay -> SUBSET Issues]
ASSUME EmbedAssumption == MaxSections \in Nat /\ SectionCap \in Nat

VARIABLES
    day,      \* today in Africa/Tunis
    fetched,  \* fetched[s]: the issues sync s has yet to upsert
    syncDay,  \* syncDay[s]: the day sync s keys them with
    status,   \* status[k]: the status of row k, "none" when it does not exist
    attempts, \* attempts[k]: the failed deliveries the row counts
    shown,    \* shown[k]: history, the posted digests that display row k
    pc,       \* pc[r]: the await digest run r is at
    pendings, \* pendings[r]: the rows run r has read PENDING and not yet tried
    claimed,  \* claimed[r]: the rows run r has claimed and not yet released
    tries,    \* tries[r][k]: attempts in run r's copy of a claimed row
    cuts      \* history: how many cuts there were

rowVars == <<status, attempts, shown>>
syncVars == <<day, fetched, syncDay>>
runVars == <<pc, pendings, claimed, tries>>
vars == <<syncVars, rowVars, runVars, cuts>>

Keys == Issues \X (1..MaxDay)    \* dedupeKey: the issue and the day
RowStatus == {"none", "PENDING", "PROCESSING", "PROCESSED", "FAILED"}
PcValue == {"idle", "claim", "settle", "revert", "giveup"}

\* The type invariant.
TypeOK ==
    /\ day \in 1..MaxDay
    /\ fetched \in [Syncs -> SUBSET Issues]
    /\ syncDay \in [Syncs -> 1..MaxDay]
    /\ status \in [Keys -> RowStatus]
    /\ attempts \in [Keys -> 0..MaxAttempts]
    /\ shown \in [Keys -> Nat]
    /\ pc \in [Runs -> PcValue]
    /\ pendings \in [Runs -> SUBSET Keys]
    /\ claimed \in [Runs -> SUBSET Keys]
    /\ tries \in [Runs -> [Keys -> 0..MaxAttempts]]
    /\ cuts \in 0..MaxCuts

Init ==
    /\ day = 1
    /\ fetched = [s \in Syncs |-> {}]
    /\ syncDay = [s \in Syncs |-> 1]
    /\ status = [k \in Keys |-> "none"]
    /\ attempts = [k \in Keys |-> 0]
    /\ shown = [k \in Keys |-> 0]
    /\ pc = [r \in Runs |-> "idle"]
    /\ pendings = [r \in Runs |-> {}]
    /\ claimed = [r \in Runs |-> {}]
    /\ tries = [r \in Runs |-> [k \in Keys |-> 0]]
    /\ cuts = 0

----------------------------------------------------------------------------
(* SYNC_JIRA_TASKS.                                                        *)

\* Midnight.
NextDay ==
    /\ day < MaxDay
    /\ day' = day + 1
    /\ UNCHANGED <<fetched, syncDay, rowVars, runVars, cuts>>

\* run: Jira answers with the open issues (a failed or an empty search ends the
\* process and changes nothing), and the day is read.
FetchIssues(s) ==
    /\ fetched[s] = {}
    /\ \E found \in SUBSET DueOn[day] \ {{}} : fetched' = [fetched EXCEPT ![s] = found]
    /\ syncDay' = [syncDay EXCEPT ![s] = day]
    /\ UNCHANGED <<day, rowVars, runVars, cuts>>

\* Mutant of UpsertIssue: the upsert has $set instead of $setOnInsert.
UpsertResets(s, i) ==
    LET k == <<i, syncDay[s]>> IN
    /\ i \in fetched[s]
    /\ fetched' = [fetched EXCEPT ![s] = @ \ {i}]
    /\ status' = [status EXCEPT ![k] = "PENDING"]
    /\ attempts' = [attempts EXCEPT ![k] = 0]
    /\ UNCHANGED <<day, syncDay, shown, runVars, cuts>>

\* upsertIssuesAsPending, one issue: $setOnInsert writes nothing on an existing row.
UpsertIssue(s, i) ==
    LET k == <<i, syncDay[s]>> IN
    /\ i \in fetched[s]
    /\ fetched' = [fetched EXCEPT ![s] = @ \ {i}]
    /\ status' = IF status[k] = "none" THEN [status EXCEPT ![k] = "PENDING"] ELSE status
    /\ UNCHANGED <<day, syncDay, attempts, shown, runVars, cuts>>

\* The write of one issue fails, which the loop only logs; or the process stops,
\* which is the same for each issue left.
UpsertFails(s, i) ==
    /\ i \in fetched[s]
    /\ fetched' = [fetched EXCEPT ![s] = @ \ {i}]
    /\ UNCHANGED <<day, syncDay, rowVars, runVars, cuts>>

----------------------------------------------------------------------------
(* SYNC_JIRA_DUE_SOON.                                                     *)

PendingRows == {k \in Keys : status[k] = "PENDING"}
Goto(r, label) == pc' = [pc EXCEPT ![r] = label]

\* The process is over: its local variables are gone.
Over(r) ==
    /\ Goto(r, "idle")
    /\ pendings' = [pendings EXCEPT ![r] = {}]
    /\ claimed' = [claimed EXCEPT ![r] = {}]
    /\ tries' = [tries EXCEPT ![r] = [k \in Keys |-> 0]]

\* isPvConfigured tests SERVICE_TECHNIQUE; sendJiraTasksDigest posts on APP_ALERT.
isPvConfigured == "SERVICE_TECHNIQUE" \in Webhooks
Deliverable == "APP_ALERT" \in Webhooks

\* The list of the PENDING rows; the process ends at once when it is empty.
ReadPending(r) ==
    /\ pc[r] = "idle"
    /\ isPvConfigured
    /\ PendingRows # {}
    /\ pendings' = [pendings EXCEPT ![r] = PendingRows]
    /\ Goto(r, "claim")
    /\ UNCHANGED <<claimed, tries, syncVars, rowVars, cuts>>

\* Mutant of ClaimRow: the claim is not filtered on the status.
ClaimUnfiltered(r, k) ==
    /\ pc[r] = "claim"
    /\ k \in pendings[r]
    /\ pendings' = [pendings EXCEPT ![r] = @ \ {k}]
    /\ status' = [status EXCEPT ![k] = "PROCESSING"]
    /\ claimed' = [claimed EXCEPT ![r] = @ \cup {k}]
    /\ tries' = [tries EXCEPT ![r][k] = attempts[k]]
    /\ UNCHANGED <<pc, attempts, shown, syncVars, cuts>>

\* The atomic claim of one row; a row another run has claimed is skipped.
ClaimRow(r, k) ==
    /\ pc[r] = "claim"
    /\ k \in pendings[r]
    /\ pendings' = [pendings EXCEPT ![r] = @ \ {k}]
    /\ IF status[k] = "PENDING"
         THEN /\ status' = [status EXCEPT ![k] = "PROCESSING"]
              /\ claimed' = [claimed EXCEPT ![r] = @ \cup {k}]
              /\ tries' = [tries EXCEPT ![r][k] = attempts[k]]
         ELSE UNCHANGED <<status, claimed, tries>>
    /\ UNCHANGED <<pc, attempts, shown, syncVars, cuts>>

\* Every row was claimed by another run.
NothingClaimed(r) ==
    /\ pc[r] = "claim" /\ pendings[r] = {} /\ claimed[r] = {}
    /\ Over(r)
    /\ UNCHANGED <<syncVars, rowVars, cuts>>

\* The rows an embed of the claimed rows displays: one section per responsable,
\* of which the first MaxSections are kept, and the tasks that fit in each.
Section(r, o) == {k \in claimed[r] : Owner[k[1]] = o}
Smaller(m, n) == IF m < n THEN m ELSE n
Displays(r, rows) ==
    LET owners == {Owner[k[1]] : k \in claimed[r]} IN
    /\ rows \subseteq claimed[r]
    /\ Cardinality({Owner[k[1]] : k \in rows}) = Smaller(MaxSections, Cardinality(owners))
    /\ \A o \in {Owner[k[1]] : k \in rows} :
         Cardinality(rows \cap Section(r, o)) = Smaller(SectionCap, Cardinality(Section(r, o)))
Posted(r) ==
    \E rows \in SUBSET claimed[r] :
        /\ Displays(r, rows)
        /\ shown' = [k \in Keys |-> IF k \in rows THEN shown[k] + 1 ELSE shown[k]]

\* sendJiraTasksDigest returns.
SendDigest(r) ==
    /\ pc[r] = "claim" /\ pendings[r] = {} /\ claimed[r] # {}
    /\ Deliverable
    /\ Posted(r)
    /\ Goto(r, "settle")
    /\ UNCHANGED <<pendings, claimed, tries, status, attempts, syncVars, cuts>>

\* sendJiraTasksDigest throws: no URL, or a failed request, whose embed Discord
\* has posted or not.
SendFails(r) ==
    /\ pc[r] = "claim" /\ pendings[r] = {} /\ claimed[r] # {}
    /\ shown' = shown \/ (Deliverable /\ Posted(r))
    /\ Goto(r, "revert")
    /\ UNCHANGED <<pendings, claimed, tries, status, attempts, syncVars, cuts>>

WithStatus(rows, s) == [k \in Keys |-> IF k \in rows THEN s ELSE status[k]]
OneMore(rows) == [k \in Keys |-> IF k \in rows THEN attempts[k] + 1 ELSE attempts[k]]

\* The claimed rows go PROCESSED.
MarkProcessed(r) ==
    /\ pc[r] = "settle"
    /\ status' = WithStatus(claimed[r], "PROCESSED")
    /\ Over(r)
    /\ UNCHANGED <<attempts, shown, syncVars, cuts>>

\* That write fails, applied by the database or not: the same catch as a failed
\* send takes the rows back.
MarkFails(r) ==
    /\ pc[r] = "settle" /\ cuts < MaxCuts
    /\ cuts' = cuts + 1
    /\ status' = status \/ status' = WithStatus(claimed[r], "PROCESSED")
    /\ Goto(r, "revert")
    /\ UNCHANGED <<pendings, claimed, tries, attempts, shown, syncVars>>

\* Mutants of ToRetry: no limit; one attempt too many.
ToRetryAll(r) == claimed[r]
ToRetryOnceMore(r) == {k \in claimed[r] : tries[r][k] + 1 <= MaxAttempts}

\* The rows to deliver again and the rows to give up, from the run's own copies.
ToFail(r) == {k \in claimed[r] : tries[r][k] + 1 >= MaxAttempts}
ToRetry(r) == {k \in claimed[r] : tries[r][k] + 1 < MaxAttempts}

\* The run forgets the rows it has sent back, and ends when no other is left.
Released(r) ==
    IF ToFail(r) = {} THEN Over(r)
    ELSE /\ claimed' = [claimed EXCEPT ![r] = @ \ ToRetry(r)]
         /\ Goto(r, "giveup")
         /\ UNCHANGED <<pendings, tries>>

\* Mutants of RetryRows: the attempt is not counted; the write is forgotten.
RetryUncounted(r) ==
    /\ pc[r] = "revert"
    /\ status' = WithStatus(ToRetry(r), "PENDING")
    /\ Released(r)
    /\ UNCHANGED <<attempts, shown, syncVars, cuts>>
RetryForgotten(r) ==
    /\ pc[r] = "revert"
    /\ Released(r)
    /\ UNCHANGED <<rowVars, syncVars, cuts>>

\* The catch, first write: back to PENDING, with one attempt more.
RetryRows(r) ==
    /\ pc[r] = "revert"
    /\ status' = WithStatus(ToRetry(r), "PENDING")
    /\ attempts' = OneMore(ToRetry(r))
    /\ Released(r)
    /\ UNCHANGED <<shown, syncVars, cuts>>

\* Second write: the rows out of attempts go FAILED, and the process ends.
GiveUpRows(r) ==
    /\ pc[r] = "giveup"
    /\ status' = WithStatus(ToFail(r), "FAILED")
    /\ attempts' = OneMore(ToFail(r))
    /\ Over(r)
    /\ UNCHANGED <<shown, syncVars, cuts>>

\* The process stops, or the database fails a claim or a write of the catch,
\* which nothing handles: the rows it held stay PROCESSING.
Cut(r) ==
    /\ pc[r] # "idle" /\ cuts < MaxCuts
    /\ cuts' = cuts + 1
    /\ Over(r)
    /\ UNCHANGED <<syncVars, rowVars>>

\* The steps a run makes by itself.
Advance(r) ==
    \/ ReadPending(r)
    \/ \E k \in Keys : ClaimRow(r, k)
    \/ NothingClaimed(r)
    \/ SendDigest(r) \/ SendFails(r)
    \/ MarkProcessed(r) \/ RetryRows(r) \/ GiveUpRows(r)

Next ==
    \/ NextDay
    \/ \E s \in Syncs : FetchIssues(s)
    \/ \E s \in Syncs, i \in Issues : UpsertIssue(s, i) \/ UpsertFails(s, i)
    \/ \E r \in Runs : Advance(r) \/ MarkFails(r) \/ Cut(r)

Spec == Init /\ [][Next]_vars

\* The crontab starts the digest again and again, and Node resumes its awaits.
FairSpec == Spec /\ \A r \in Runs : WF_vars(Advance(r))

----------------------------------------------------------------------------
(* Properties.                                                             *)

Settled(k) == status[k] \in {"PROCESSED", "FAILED"}

\* "a row already claimed by a parallel run returns null => skipped": no row is
\* in the digests of two runs at once, although the settling writes are not
\* filtered on the status.
ClaimExclusive ==
    \A r1, r2 \in Runs : r1 # r2 => claimed[r1] \cap claimed[r2] = {}

\* A row is displayed again only after a counted failure, and never more than
\* MaxAttempts times, whatever fails: the attempts count every digest but the
\* one in progress.
DeliveriesBounded ==
    \A k \in Keys :
        /\ shown[k] <= MaxAttempts
        /\ status[k] = "PENDING" => shown[k] <= attempts[k]

\* A row is given up when its attempts reach the maximum, then and only then
\* ("FAILED instead, to stop looping forever").
GaveUpAtMax == \A k \in Keys : status[k] = "FAILED" <=> attempts[k] = MaxAttempts

\* What the attempts of a row are worth: they bound its digests, and their
\* maximum is the end of it (DeliveriesBounded and GaveUpAtMax).
AttemptsBound == DeliveriesBounded /\ GaveUpAtMax

\* A row stays PROCESSING without a process to settle it only after a cut.
Orphan(k) == status[k] = "PROCESSING" /\ \A r \in Runs : k \notin claimed[r]
StuckOnlyAfterCut == (\E k \in Keys : Orphan(k)) => cuts > 0

\* "never resurrects PROCESSED/FAILED": a settled row is taken back only by the
\* run that holds it, when the answer to its own write was lost.
SettledStays ==
    [][\A k \in Keys : Settled(k) /\ status'[k] # status[k] =>
          \E r \in Runs : pc[r] \in {"revert", "giveup"} /\ k \in claimed[r]]_vars

\* Where the delivery of a row stands: the await of the run that holds it.
HeldAt(k, labels) == \E r \in Runs : pc[r] \in labels /\ k \in claimed[r]
RowPhase(k) ==
    IF HeldAt(k, {"claim"}) THEN "claimed"
    ELSE IF HeldAt(k, {"settle"}) THEN "sent"
    ELSE IF HeldAt(k, {"revert", "giveup"}) THEN "failed"
    ELSE "free"

\* The processes that overlap implement the rows of JiraDigestSpec: one delivery
\* of a row at a time, each failure counted once, whatever the awaits cut.
Digest == INSTANCE JiraDigestSpec WITH
    Rows <- Keys,
    phase <- [k \in Keys |-> RowPhase(k)]
ImplementsDigest == Digest!Spec

\* A PENDING row ends PROCESSED or FAILED, or is orphaned by a cut: neither the
\* retries nor the runs that overlap postpone it for ever.
EachRowSettled ==
    \A k \in Keys : status[k] = "PENDING" ~> (Settled(k) \/ Orphan(k))

============================================================================
