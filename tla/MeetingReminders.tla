-------------------------- MODULE MeetingReminders -------------------------
(***************************************************************************)
(* The reminders of the meetings about to start: sendDueReminders of       *)
(* src/src/reunion-pv/reunion-pv.service.ts, a cron job run every minute   *)
(* or two, and the Discord post it makes through                           *)
(* src/src/discord-hook/discord-hook.service.ts.                           *)
(***************************************************************************)
EXTENDS Integers, FiniteSets

CONSTANTS
    PlannedMeetings, \* the meetings
    ReminderRuns,    \* the runs of the job, each once; they can overlap
    DiscordDisabled, \* DISCORD_NOTIFS_DISABLED, TRUE in the source
    LastMinute,      \* bound on the clock
    MaxRunFaults     \* bound on the errors, the failed posts and the lost runs

ASSUME ReminderBounds ==
    DiscordDisabled \in BOOLEAN /\ LastMinute \in Nat /\ MaxRunFaults \in Nat

\* REUNION_REMINDER_WINDOW_MIN, 5 minutes: one unit of the clock.
WindowMin == 1

VARIABLES
    minute,     \* the clock
    date,       \* date[p]: the start of the meeting
    reminded,   \* reminderSent, the meetings marked
    remRun,     \* remRun[r]: a run [at, due, on]
    posts,      \* posts[p]: the reminders that Discord received
    failedPosts,\* history: the meetings whose post failed at the webhook
    runFaults,  \* the faults so far
    stuck       \* history: the meetings marked by a run lost, or whose revert was

reminderVars ==
    <<minute, date, reminded, remRun, posts, failedPosts, runFaults, stuck>>

Waiting == [at |-> "waiting", due |-> {}, on |-> {}]

ReminderTypeOK ==
    /\ minute \in 0..LastMinute
    /\ date \in [PlannedMeetings -> 0..LastMinute]
    /\ reminded \subseteq PlannedMeetings
    /\ \A r \in ReminderRuns :
          /\ remRun[r].at \in {"waiting", "next", "post", "revert", "done"}
          /\ remRun[r].on \subseteq PlannedMeetings /\ Cardinality(remRun[r].on) <= 1
          /\ remRun[r].at \in {"post", "revert"} => remRun[r].on \subseteq reminded
    /\ posts \in [PlannedMeetings -> Nat]
    /\ runFaults \in 0..MaxRunFaults

ReminderInit ==
    /\ minute = 0
    /\ date \in [PlannedMeetings -> 0..LastMinute]
    /\ reminded = {}
    /\ remRun = [r \in ReminderRuns |-> Waiting]
    /\ posts = [p \in PlannedMeetings |-> 0]
    /\ failedPosts = {}
    /\ runFaults = 0
    /\ stuck = {}

RunFault == runFaults < MaxRunFaults /\ runFaults' = runFaults + 1

\* A run reads the meetings not yet marked that start within the window.
Due(p) == p \notin reminded /\ minute <= date[p] /\ date[p] <= minute + WindowMin

ReadCandidates(r) ==
    /\ remRun[r].at = "waiting"
    /\ remRun' = [remRun EXCEPT ![r] = [Waiting EXCEPT !.at = "next",
                                        !.due = {p \in PlannedMeetings : Due(p)}]]
    /\ UNCHANGED <<minute, date, reminded, posts, failedPosts, runFaults, stuck>>

\* findOneAndUpdate false -> true: one run gets the document, the others null.
\* Mutant of Claimable: the claim does not look at the flag.
ClaimableAlways(p) == TRUE
Claimable(p) == p \notin reminded

ClaimReminder(r, p) ==
    /\ remRun[r].at = "next" /\ p \in remRun[r].due
    /\ remRun' = [remRun EXCEPT ![r].due = @ \ {p},
                      ![r].on = IF Claimable(p) THEN {p} ELSE {},
                      ![r].at = IF Claimable(p) THEN "post" ELSE "next"]
    /\ reminded' = reminded \cup {p}
    /\ UNCHANGED <<minute, date, posts, failedPosts, runFaults, stuck>>

\* postEmbed: nothing when the gate is closed, else the webhook; it never throws.
PostEmbed(r) ==
    /\ remRun[r].at = "post"
    /\ posts' = IF DiscordDisabled THEN posts
                ELSE [p \in PlannedMeetings |-> posts[p] + (IF p \in remRun[r].on THEN 1 ELSE 0)]
    /\ remRun' = [remRun EXCEPT ![r].at = "next", ![r].on = {}]
    /\ UNCHANGED <<minute, date, reminded, failedPosts, runFaults, stuck>>

\* The webhook fails, or is not configured: a warning, and the reminder counts as sent.
PostSwallowed(r) ==
    /\ remRun[r].at = "post" /\ ~DiscordDisabled /\ RunFault
    /\ failedPosts' = failedPosts \cup remRun[r].on
    /\ remRun' = [remRun EXCEPT ![r].at = "next", ![r].on = {}]
    /\ UNCHANGED <<minute, date, reminded, posts, stuck>>

\* The names of the participants cannot be read: the one error that is thrown.
SendThrows(r) ==
    /\ remRun[r].at = "post" /\ RunFault
    /\ remRun' = [remRun EXCEPT ![r].at = "revert"]
    /\ UNCHANGED <<minute, date, reminded, posts, failedPosts, stuck>>

\* Mutant of Reverted: the flag stays.
RevertedNot(r) == reminded
Reverted(r) == reminded \ remRun[r].on

\* The flag goes back, unless the base is away for that write too.
Revert(r) ==
    /\ remRun[r].at = "revert"
    /\ \/ reminded' = Reverted(r) /\ UNCHANGED <<runFaults, stuck>>
       \/ RunFault /\ stuck' = stuck \cup remRun[r].on /\ UNCHANGED reminded
    /\ remRun' = [remRun EXCEPT ![r].at = "next", ![r].on = {}]
    /\ UNCHANGED <<minute, date, posts, failedPosts>>

EndRun(r) ==
    /\ remRun[r].at = "next" /\ remRun[r].due = {}
    /\ remRun' = [remRun EXCEPT ![r] = [Waiting EXCEPT !.at = "done"]]
    /\ UNCHANGED <<minute, date, reminded, posts, failedPosts, runFaults, stuck>>

\* The process stops, or the base is away for a claim: what the run held stays marked.
LoseRun(r) ==
    /\ remRun[r].at \in {"next", "post", "revert"} /\ RunFault
    /\ stuck' = stuck \cup remRun[r].on
    /\ remRun' = [remRun EXCEPT ![r] = [Waiting EXCEPT !.at = "done"]]
    /\ UNCHANGED <<minute, date, reminded, posts, failedPosts>>

Minute ==
    /\ minute < LastMinute
    /\ minute' = minute + 1
    /\ UNCHANGED <<date, reminded, remRun, posts, failedPosts, runFaults, stuck>>

ReminderStep(r) ==
    \/ \E p \in PlannedMeetings : ClaimReminder(r, p)
    \/ PostEmbed(r) \/ PostSwallowed(r) \/ SendThrows(r) \/ Revert(r) \/ EndRun(r)

ReminderNext ==
    \/ \E r \in ReminderRuns : ReadCandidates(r) \/ ReminderStep(r) \/ LoseRun(r)
    \/ Minute

ReminderSpec == ReminderInit /\ [][ReminderNext]_reminderVars

----------------------------------------------------------------------------
(* What the reminders promise.                                             *)

\* reunion-pv.service.ts:437-439: one reminder each, overlapping runs included, also when
\* a failed send gave a meeting back to the next run.
OneReminder == \A p \in PlannedMeetings : posts[p] <= 1

\* A meeting marked that no run holds was posted, but for a post that the webhook
\* refused and a run or a revert lost: a thrown error always gives the meeting back.
MarkedWasPosted ==
    \A p \in reminded : (\A r \in ReminderRuns : p \notin remRun[r].on) =>
        posts[p] = 1 \/ p \in failedPosts \cup stuck

\* The reminders: one for a meeting, and none marked and forgotten.
RemindersInv ==
    /\ ReminderTypeOK /\ OneReminder /\ MarkedWasPosted
=============================================================================
