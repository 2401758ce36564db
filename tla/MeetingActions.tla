--------------------------- MODULE MeetingActions --------------------------
(***************************************************************************)
(* The minutes of the meetings (src/src/reunion-pv/reunion-pv.service.ts): *)
(* the reference of a new one, the lock of a FINALISE one, and the mirror  *)
(* of its actions as Jira issues (src/src/jira/jira.service.ts), which is  *)
(* written back after the save, without its version check.                 *)
(***************************************************************************)
EXTENDS Integers, Sequences, FiniteSets

CONSTANTS
    Writers,      \* the requests in flight at once
    Actions,      \* the actions a meeting can have
    MaxMeetings,  \* bound on the meetings
    MaxMeetingOps \* bound on the requests

ASSUME MeetingBounds == MaxMeetings \in Nat /\ MaxMeetingOps \in Nat

CreateAttempts == 3

VARIABLES
    meetings,   \* by reference number: [actions, keyed, final, version]
    issues,     \* issues[m][a]: the Jira issues made for the action a of m
    writer,     \* writer[w]: a request and its copy of the meeting
    overlapped, \* history: the meetings two requests have worked on at once
    unlinked,   \* history: the meetings that lost an answer of Jira or a back-link
    meetingOps  \* the requests so far

meetingVars == <<meetings, issues, writer, overlapped, unlinked, meetingOps>>

\* What the properties see of a meeting: its actions, those with an issueKey, its
\* statut, and __v.
Meeting == [actions: SUBSET Actions, keyed: SUBSET Actions, final: BOOLEAN, version: Nat]
NoMeeting == [actions |-> {}, keyed |-> {}, final |-> FALSE, version |-> 0]
IdleWriter == [at |-> "idle", on |-> 0, copy |-> NoMeeting, todo |-> {}, changed |-> FALSE,
               tries |-> 0, from |-> 0]

MeetingTypeOK ==
    /\ meetings \in Seq(Meeting) /\ Len(meetings) <= MaxMeetings
    /\ \A m \in DOMAIN meetings : meetings[m].keyed \subseteq meetings[m].actions
    /\ \A w \in Writers :
          /\ writer[w].at \in {"idle", "number", "insert", "refused", "save", "sync"}
          /\ writer[w].copy \in Meeting
          /\ writer[w].tries \in 0..CreateAttempts
          /\ writer[w].at = "save" => writer[w].on \in DOMAIN meetings
    /\ meetingOps \in 0..MaxMeetingOps

MeetingInit ==
    /\ meetings = <<>>
    /\ issues = [m \in 1..MaxMeetings |-> [a \in Actions |-> 0]]
    /\ writer = [w \in Writers |-> IdleWriter]
    /\ overlapped = {}
    /\ unlinked = {}
    /\ meetingOps = 0

Untouched(m) == \A w \in Writers : writer[w].on # m
Request(w) ==
    writer[w].at = "idle" /\ meetingOps < MaxMeetingOps /\ meetingOps' = meetingOps + 1
Syncing(w, m, copy) ==
    writer' = [writer EXCEPT ![w] = [IdleWriter EXCEPT !.at = "sync", !.on = m,
                                     !.copy = copy, !.todo = copy.actions]]

----------------------------------------------------------------------------
(* create.                                                                 *)

StartCreate(w) ==
    /\ Request(w)
    /\ writer' = [writer EXCEPT ![w].at = "number", ![w].from = Len(meetings)]
    /\ UNCHANGED <<meetings, issues, overlapped, unlinked>>

\* nextReference: the largest number in the base, plus one.
\* Mutant of NextReference: the number is read before the attempts, once for all.
NextReferenceOnce(w) == writer[w].from + 1
NextReference(w) == Len(meetings) + 1

ReadNumber(w) ==
    /\ writer[w].at = "number"
    /\ writer' = [writer EXCEPT ![w].at = "insert", ![w].on = NextReference(w)]
    /\ UNCHANGED <<meetings, issues, overlapped, unlinked, meetingOps>>

\* The unique index takes the number or refuses it; three attempts in all.
Insert(w, actions, final) ==
    LET new == [NoMeeting EXCEPT !.actions = actions, !.final = final] IN
    /\ writer[w].at = "insert"
    /\ Len(meetings) < MaxMeetings \/ writer[w].on <= Len(meetings)
    /\ IF writer[w].on > Len(meetings)
       THEN meetings' = Append(meetings, new) /\ Syncing(w, writer[w].on, new)
       ELSE /\ writer' = [writer EXCEPT ![w].tries = @ + 1, ![w].on = 0,
                 ![w].at = IF writer[w].tries + 1 < CreateAttempts THEN "number"
                           ELSE "refused"]
            /\ UNCHANGED meetings
    /\ UNCHANGED <<issues, overlapped, unlinked, meetingOps>>

----------------------------------------------------------------------------
(* updateReunionDetails.                                                   *)

\* Mutant of Editable: a FINALISE meeting can be opened.
EditableAlways(m) == TRUE
Editable(m) == ~meetings[m].final

Load(w, m) ==
    /\ Request(w)
    /\ Editable(m)
    /\ writer' = [writer EXCEPT ![w] = [IdleWriter EXCEPT !.at = "save", !.on = m,
                                        !.copy = meetings[m]]]
    /\ overlapped' = IF Untouched(m) THEN overlapped ELSE overlapped \cup {m}
    /\ UNCHANGED <<meetings, issues, unlinked>>

\* The jira sub-document of an action goes over, by its _id.
\* Mutants of Carried: every action is given a blank one; those taken off keep theirs.
CarriedNone(copy, actions) == {}
CarriedAll(copy, actions) == copy.keyed
Carried(copy, actions) == copy.keyed \cap actions

\* The list of actions is replaced under a version check; without one the statut alone
\* is written.  An action taken off and entered again is another action.
Save(w, edits, actions, final) ==
    LET m == writer[w].on
        copy == writer[w].copy
        new == [actions |-> IF edits THEN actions ELSE copy.actions,
                keyed |-> IF edits THEN Carried(copy, actions) ELSE copy.keyed,
                final |-> copy.final \/ final,
                version |-> IF edits THEN copy.version + 1 ELSE copy.version]
    IN
    /\ writer[w].at = "save"
    /\ edits => meetings[m].version = copy.version
    /\ meetings' = [meetings EXCEPT ![m] = [(IF edits THEN new ELSE meetings[m])
                                                EXCEPT !.final = meetings[m].final \/ new.final]]
    /\ issues' = [issues EXCEPT ![m] = [a \in Actions |->
                     IF edits /\ (a \notin actions \/ a \notin meetings[m].actions)
                     THEN 0 ELSE @[a]]]
    /\ Syncing(w, m, new)
    /\ UNCHANGED <<overlapped, unlinked, meetingOps>>

\* Another request has replaced a list since: VersionError.
SaveStale(w) ==
    /\ writer[w].at = "save"
    /\ meetings[writer[w].on].version # writer[w].copy.version
    /\ writer' = [writer EXCEPT ![w] = IdleWriter]
    /\ UNCHANGED <<meetings, issues, overlapped, unlinked, meetingOps>>

----------------------------------------------------------------------------
(* syncActionsToJira.                                                      *)

\* Jira makes the issue, or refuses or is off, or makes it and its answer is lost.
Answers == {"ok", "failed", "lost"}

\* An action with a key: its issue is updated; without: one is created.
SyncAction(w, a) ==
    LET m == writer[w].on  known == a \in writer[w].copy.keyed IN
    /\ writer[w].at = "sync" /\ a \in writer[w].todo
    /\ \E answer \in Answers :
          /\ issues' = IF known \/ answer = "failed" THEN issues
                       ELSE [issues EXCEPT ![m][a] = @ + 1]
          /\ unlinked' = IF answer = "lost" /\ ~known THEN unlinked \cup {m} ELSE unlinked
          /\ writer' = [writer EXCEPT ![w].todo = @ \ {a},
                ![w].copy.keyed = IF answer = "ok" THEN @ \cup {a} ELSE @,
                ![w].changed = @ \/ answer = "ok"]
    /\ UNCHANGED <<meetings, overlapped, meetingOps>>

\* The actions are written back from the copy of the request, in full, without a version
\* check; a failure is swallowed.  The request ends.
LinkBack(w, written) ==
    LET m == writer[w].on IN
    /\ writer[w].at = "sync" /\ writer[w].todo = {}
    /\ written => writer[w].changed
    /\ meetings' = IF written
                   THEN [meetings EXCEPT ![m].actions = writer[w].copy.actions,
                                         ![m].keyed = writer[w].copy.keyed]
                   ELSE meetings
    /\ unlinked' = IF writer[w].changed /\ ~written THEN unlinked \cup {m} ELSE unlinked
    /\ writer' = [writer EXCEPT ![w] = IdleWriter]
    /\ UNCHANGED <<issues, overlapped, meetingOps>>

MeetingNext == \E w \in Writers :
    \/ StartCreate(w) \/ ReadNumber(w)
    \/ \E actions \in SUBSET Actions, final \in BOOLEAN : Insert(w, actions, final)
    \/ \E m \in DOMAIN meetings : Load(w, m)
    \/ \E final \in BOOLEAN : Save(w, FALSE, {}, final)
    \/ \E final \in BOOLEAN, actions \in SUBSET Actions : Save(w, TRUE, actions, final)
    \/ SaveStale(w)
    \/ \E a \in Actions : SyncAction(w, a)
    \/ \E written \in BOOLEAN : LinkBack(w, written)

MeetingSpec == MeetingInit /\ [][MeetingNext]_meetingVars

----------------------------------------------------------------------------
(* What the minutes promise.                                               *)

\* However often a meeting is edited, each of its actions has at most one Jira issue, and
\* the key of the one it has, unless two requests worked on the meeting at once or an
\* answer was lost (the idempotence of syncActionsToJira).
OneIssuePerAction ==
    \A m \in DOMAIN meetings : Untouched(m) /\ m \notin overlapped \cup unlinked =>
        \A a \in meetings[m].actions :
            issues[m][a] = IF a \in meetings[m].keyed THEN 1 ELSE 0

\* Three attempts are enough: a creation is refused only when three other meetings at
\* least were created while it ran.
RefusedOnlyByRaces ==
    \A w \in Writers : writer[w].at = "refused" =>
        Len(meetings) - writer[w].from >= CreateAttempts

\* Once FINALISE, the actions of a meeting stay, when its requests came one at a time.
FinalisedStaysIfSerial == \A m \in DOMAIN meetings :
    meetings[m].final /\ m \notin overlapped' => meetings'[m].actions = meetings[m].actions

\* The minutes: one issue for an action, and references that races alone can exhaust.
MeetingsInv ==
    /\ MeetingTypeOK /\ OneIssuePerAction /\ RefusedOnlyByRaces
=============================================================================
