------------------------------- MODULE Backup ------------------------------
(***************************************************************************)
(* The backup of the base to Google Drive (run of                          *)
(* src/src/db-backup/db-backup.service.ts): a dump in a temporary file,    *)
(* its upload, and the purge of the older backups.  Each night is a        *)
(* process of its own; one started by hand can run beside it.              *)
(***************************************************************************)
EXTENDS Integers, Sequences, FiniteSets

CONSTANTS
    BackupRuns,     \* the runs, each once
    Retention,      \* resolveRetention; 0 keeps everything
    MaxBackupFaults \* bound on errors, lost answers and crashes

ASSUME BackupBounds == Retention \in Nat /\ MaxBackupFaults \in Nat

UploadAttempts == 3

VARIABLES
    uploads,      \* the backups ever received by Drive, oldest first: the run of each
    onDrive,      \* those still there, by position in uploads
    bkRun,        \* bkRun[r]: a run [at, obsolete, tries, own]
    tempFiles,    \* the runs whose temporary file exists
    told,         \* told[r]: the Discord lines of the run
    backupFaults, \* the faults so far
    purgers,      \* history: the runs that have deleted a backup
    crashed       \* history: the runs killed, or whose file could not be removed

backupVars ==
    <<uploads, onDrive, bkRun, tempFiles, told, backupFaults, purgers, crashed>>

BackupSteps == {"config", "dump", "folder", "upload", "list", "purge", "success", "alert",
          "cleanup", "done"}
FirstStep == [at |-> "config", obsolete |-> {}, tries |-> 0, own |-> FALSE]

BackupTypeOK ==
    /\ uploads \in Seq(BackupRuns)
    /\ onDrive \subseteq DOMAIN uploads
    /\ \A r \in BackupRuns :
          /\ bkRun[r].at \in BackupSteps
          /\ bkRun[r].obsolete \subseteq DOMAIN uploads
          /\ bkRun[r].tries \in 0..(UploadAttempts - 1)
          /\ told[r] \subseteq {"success", "failure", "public"}
    /\ tempFiles \subseteq BackupRuns
    /\ backupFaults \in 0..MaxBackupFaults

BackupInit ==
    /\ uploads = <<>>
    /\ onDrive = {}
    /\ bkRun = [r \in BackupRuns |-> FirstStep]
    /\ tempFiles = {}
    /\ told = [r \in BackupRuns |-> {}]
    /\ backupFaults = 0
    /\ purgers = {} /\ crashed = {}

BackupFault == backupFaults < MaxBackupFaults /\ backupFaults' = backupFaults + 1
Turns(r, from, to) == bkRun[r].at = from /\ bkRun' = [bkRun EXCEPT ![r].at = to]

----------------------------------------------------------------------------
(* One action per step of run.                                             *)

\* The connection string, its base name and the Google grant are there.
Config(r) ==
    /\ Turns(r, "config", "dump")
    /\ UNCHANGED <<uploads, onDrive, tempFiles, told, backupFaults, purgers, crashed>>

\* mongodump ends well and the archive is neither missing nor empty.
Dump(r) ==
    /\ Turns(r, "dump", "folder")
    /\ tempFiles' = tempFiles \cup {r}
    /\ UNCHANGED <<uploads, onDrive, told, backupFaults, purgers, crashed>>

\* mongodump fails, is killed at its timeout, or leaves an empty archive.
DumpFails(r, leaves) ==
    /\ Turns(r, "dump", "alert") /\ BackupFault
    /\ tempFiles' = IF leaves THEN tempFiles \cup {r} ELSE tempFiles
    /\ UNCHANGED <<uploads, onDrive, told, purgers, crashed>>

\* The folder, found or made; a public one is told, and the backup goes on.
Folder(r, isPublic) ==
    /\ Turns(r, "folder", "upload")
    /\ told' = IF isPublic THEN [told EXCEPT ![r] = @ \cup {"public"}] ELSE told
    /\ UNCHANGED <<uploads, onDrive, tempFiles, backupFaults, purgers, crashed>>

Arrives(r) == uploads' = Append(uploads, r) /\ onDrive' = onDrive \cup {Len(uploads) + 1}

\* Drive takes the file and answers with its id.
Upload(r) ==
    /\ bkRun[r].at = "upload"
    /\ Arrives(r)
    /\ bkRun' = [bkRun EXCEPT ![r].at = "list", ![r].own = TRUE]
    /\ UNCHANGED <<tempFiles, told, backupFaults, purgers, crashed>>

\* Mutant of Unconfirmed: an upload without an id goes on as a good one.
UnconfirmedGoesOn == "list"
Unconfirmed == "alert"

\* The file is in, or not, and there is no answer: sent again on a transient error, three
\* times in all; on any other error, or an answer without an id, the run fails.
UploadUnanswered(r, arrived, transient) ==
    /\ bkRun[r].at = "upload" /\ BackupFault
    /\ IF arrived THEN Arrives(r) ELSE UNCHANGED <<uploads, onDrive>>
    /\ bkRun' = [bkRun EXCEPT
          ![r].at = IF transient /\ bkRun[r].tries + 1 < UploadAttempts THEN "upload"
                    ELSE Unconfirmed,
          ![r].tries = IF transient /\ @ + 1 < UploadAttempts THEN @ + 1 ELSE @]
    /\ UNCHANGED <<tempFiles, told, purgers, crashed>>

\* What is past the newest Retention, files listed by createdTime, newest first.
\* Mutant of Obsolete: the list is taken oldest first.
ObsoleteNewest(present) ==
    {k \in present : Retention > 0 /\ Cardinality({n \in present : n < k}) >= Retention}
Obsolete(present) ==
    {k \in present : Retention > 0 /\ Cardinality({n \in present : n > k}) >= Retention}

ListBackups(r) ==
    /\ bkRun[r].at = "list"
    /\ bkRun' = [bkRun EXCEPT ![r].at = "purge", ![r].obsolete = Obsolete(onDrive)]
    /\ UNCHANGED <<uploads, onDrive, tempFiles, told, backupFaults, purgers, crashed>>

\* Each in turn, newest first; a failed deletion is logged and counted.
PurgeOne(r, k, deletes) ==
    /\ bkRun[r].at = "purge"
    /\ k \in bkRun[r].obsolete /\ \A n \in bkRun[r].obsolete : n <= k
    /\ IF deletes
       THEN onDrive' = onDrive \ {k} /\ purgers' = purgers \cup {r} /\ UNCHANGED backupFaults
       ELSE BackupFault /\ UNCHANGED <<onDrive, purgers>>
    /\ bkRun' = [bkRun EXCEPT ![r].obsolete = @ \ {k}]
    /\ UNCHANGED <<uploads, tempFiles, told, crashed>>

EndPurge(r) ==
    /\ bkRun[r].obsolete = {}
    /\ Turns(r, "purge", "success")
    /\ UNCHANGED <<uploads, onDrive, tempFiles, told, backupFaults, purgers, crashed>>

\* Any await of those steps throws: the alert of the catch.
StepFails(r) ==
    /\ bkRun[r].at \in {"config", "folder", "list"} /\ BackupFault
    /\ bkRun' = [bkRun EXCEPT ![r].at = "alert"]
    /\ UNCHANGED <<uploads, onDrive, tempFiles, told, purgers, crashed>>

\* deliverEmbed swallows what the webhook refuses, and the run ends as it would have.
Tell(r, line, delivered) ==
    /\ Turns(r, IF line = "success" THEN "success" ELSE "alert", "cleanup")
    /\ IF delivered THEN told' = [told EXCEPT ![r] = @ \cup {line}] /\ UNCHANGED <<backupFaults, crashed>>
       ELSE BackupFault /\ crashed' = crashed \cup {r} /\ UNCHANGED told
    /\ UNCHANGED <<uploads, onDrive, tempFiles, purgers>>

\* Mutant of Cleaned: the file is removed after a success only.
CleanedOnSuccess(r) == IF bkRun[r].own THEN tempFiles \ {r} ELSE tempFiles
Cleaned(r) == tempFiles \ {r}

\* The finally.
Cleanup(r) ==
    /\ Turns(r, "cleanup", "done")
    /\ \/ tempFiles' = Cleaned(r) /\ UNCHANGED <<backupFaults, crashed>>
       \/ BackupFault /\ crashed' = crashed \cup {r} /\ UNCHANGED tempFiles
    /\ UNCHANGED <<uploads, onDrive, told, purgers>>

Kill(r) ==
    /\ bkRun[r].at # "done" /\ BackupFault
    /\ bkRun' = [bkRun EXCEPT ![r].at = "done"]
    /\ crashed' = crashed \cup {r}
    /\ UNCHANGED <<uploads, onDrive, tempFiles, told, purgers>>

BackupNext == \E r \in BackupRuns :
    \/ Config(r) \/ Dump(r) \/ Upload(r) \/ ListBackups(r) \/ EndPurge(r) \/ Cleanup(r)
    \/ StepFails(r) \/ Kill(r)
    \/ \E leaves \in BOOLEAN : DumpFails(r, leaves)
    \/ \E isPublic \in BOOLEAN : Folder(r, isPublic)
    \/ \E arrived, transient \in BOOLEAN : UploadUnanswered(r, arrived, transient)
    \/ \E k \in bkRun[r].obsolete, deletes \in BOOLEAN : PurgeOne(r, k, deletes)
    \/ \E line \in {"success", "failure"}, delivered \in BOOLEAN : Tell(r, line, delivered)

BackupSpec == BackupInit /\ [][BackupNext]_backupVars

----------------------------------------------------------------------------
(* What the backup promises.                                               *)

\* The newest Retention backups are never deleted, whatever runs purge at once and
\* whatever each had listed.
NewestKept ==
    \A k \in DOMAIN uploads :
        Retention = 0 \/ Len(uploads) - k < Retention => k \in onDrive

\* A run that deletes has had its own upload confirmed: one that fails before that never
\* shrinks the history.
DeletesAfterUpload == \A r \in purgers : bkRun[r].own

\* A run that ended left no temporary file, and told how it ended, success when its
\* backup is confirmed and purged, unless it was killed or the line refused.
EndsClean ==
    \A r \in BackupRuns \ crashed : bkRun[r].at = "done" =>
        /\ r \notin tempFiles
        /\ "success" \in told[r] \/ "failure" \in told[r]
        /\ "success" \in told[r] => bkRun[r].own

\* The backups: the newest kept, none deleted by a run that failed, and a run that ends clean.
BackupInv ==
    /\ BackupTypeOK /\ NewestKept /\ DeletesAfterUpload
    /\ EndsClean
=============================================================================
