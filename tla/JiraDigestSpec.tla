--------------------------- MODULE JiraDigestSpec ---------------------------
(***************************************************************************)
(* What the Jira digest promises of its rows                               *)
(* (jira-cron-notification.service.ts, the header comment and that of      *)
(* envoyerNotifications), with no process in sight: a row is inserted once,*)
(* claimed while PENDING, tried in one digest at a time, and then settled, *)
(* sent back with one attempt more, given up when the attempts are spent,  *)
(* or lost with the process that held it.                                  *)
(***************************************************************************)
EXTENDS Naturals

CONSTANTS
    Rows,       \* the rows of jira_cron_notifications
    MaxAttempts \* JIRA_NOTIF_MAX_ATTEMPTS

VARIABLES
    status,   \* status[k]: the status of row k, "none" when it does not exist
    attempts, \* attempts[k]: its failed deliveries
    shown,    \* shown[k]: the digests that displayed it
    phase     \* phase[k]: where its delivery stands, "free" when nobody holds it

vars == <<status, attempts, shown, phase>>

Init ==
    /\ status = [k \in Rows |-> "none"]
    /\ attempts = [k \in Rows |-> 0]
    /\ shown = [k \in Rows |-> 0]
    /\ phase = [k \in Rows |-> "free"]

\* Value v for the rows of a set, f for the others.
Set(f, rows, v) == [k \in Rows |-> IF k \in rows THEN v ELSE f[k]]
Count(f, rows) == [k \in Rows |-> IF k \in rows THEN f[k] + 1 ELSE f[k]]

\* The producer inserts a row.
Insert(k) ==
    /\ status[k] = "none"
    /\ status' = Set(status, {k}, "PENDING")
    /\ UNCHANGED <<attempts, shown, phase>>

\* A PENDING row that nobody holds is taken.
Claim(k) ==
    /\ status[k] = "PENDING" /\ phase[k] = "free"
    /\ status' = Set(status, {k}, "PROCESSING")
    /\ phase' = Set(phase, {k}, "claimed")
    /\ UNCHANGED <<attempts, shown>>

\* Claimed rows are sent together; some of them are displayed, and the answer is
\* a success or a failure.
Deliver(rows) ==
    /\ \A k \in rows : phase[k] = "claimed"
    /\ \E displayed \in SUBSET rows : shown' = Count(shown, displayed)
    /\ \E outcome \in {"sent", "failed"} : phase' = Set(phase, rows, outcome)
    /\ UNCHANGED <<status, attempts>>

\* The rows sent are PROCESSED; or it is not known whether they are.
Settle(rows) ==
    /\ \A k \in rows : phase[k] = "sent"
    /\ \/ /\ status' = Set(status, rows, "PROCESSED")
          /\ phase' = Set(phase, rows, "free")
       \/ /\ status' \in {status, Set(status, rows, "PROCESSED")}
          /\ phase' = Set(phase, rows, "failed")
    /\ UNCHANGED <<attempts, shown>>

\* The rows whose delivery failed count the attempt: those with attempts left go
\* back to PENDING, the others FAILED.
Revert(rows, last) ==
    /\ \A k \in rows : phase[k] = "failed" /\ (attempts[k] + 1 >= MaxAttempts <=> last)
    /\ status' = Set(status, rows, IF last THEN "FAILED" ELSE "PENDING")
    /\ attempts' = Count(attempts, rows)
    /\ phase' = Set(phase, rows, "free")
    /\ UNCHANGED shown

\* The holder of some rows is gone.
Lose(rows) ==
    /\ \A k \in rows : phase[k] # "free"
    /\ phase' = Set(phase, rows, "free")
    /\ UNCHANGED <<status, attempts, shown>>

Next ==
    \/ \E k \in Rows : Insert(k) \/ Claim(k)
    \/ \E rows \in SUBSET Rows :
          \/ Deliver(rows) \/ Settle(rows)
          \/ Revert(rows, FALSE) \/ Revert(rows, TRUE)
          \/ Lose(rows)

Spec == Init /\ [][Next]_vars

============================================================================
