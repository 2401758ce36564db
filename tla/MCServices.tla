----------------------------- MODULE MCServices -----------------------------
(***************************************************************************)
(* GoogleGrant, DriveFolders, Backup and MeetingReminders for TLC.  They   *)
(* share no variable: `service` chooses the one that runs, the others stay *)
(* at their initial state, so one run checks the four of them separately.  *)
(***************************************************************************)
EXTENDS GoogleGrant, DriveFolders, Backup, MeetingReminders

VARIABLE service

servicesVars == <<service, grantVars, folderVars, backupVars, reminderVars>>

ServicesInit ==
    /\ service \in {"grant", "folders", "backup", "reminders"}
    /\ GrantInit /\ FoldersInit /\ BackupInit /\ ReminderInit
    /\ service # "reminders" => \A p \in PlannedMeetings : date[p] = 0

ServicesNext ==
    /\ UNCHANGED service
    /\ \/ service = "grant" /\ GrantNext /\ UNCHANGED <<folderVars, backupVars, reminderVars>>
       \/ service = "folders" /\ FoldersNext /\ UNCHANGED <<grantVars, backupVars, reminderVars>>
       \/ service = "backup" /\ BackupNext /\ UNCHANGED <<grantVars, folderVars, reminderVars>>
       \/ service = "reminders" /\ ReminderNext /\ UNCHANGED <<grantVars, folderVars, backupVars>>

\* The fairness of GoogleGrant, for the behaviours in which it runs.
ServicesSpec ==
    /\ ServicesInit
    /\ [][ServicesNext]_servicesVars
    /\ service = "grant" => GrantFairness

MCGrantCalls == {<<"drive", 1>>, <<"sheets", 1>>}
=============================================================================
