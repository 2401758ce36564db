---------------------------- MODULE DriveFolders ---------------------------
(***************************************************************************)
(* The Drive folder of a company or of a client: found or created by the   *)
(* uploads of its DIs (resolveDiDriveTarget and uploadDiDocToDrive in      *)
(* src/src/di/di.service.ts) and by its own record (attachDriveFolder,     *)
(* ensureClientFolder, resetDriveFolder of src/src/company and             *)
(* src/src/clients), through src/src/google-drive.  Each call to Drive and *)
(* to the database is a step.                                              *)
(***************************************************************************)
EXTENDS Integers, Sequences, FiniteSets, FiniteSetsExt

CONSTANTS
    Uploads,         \* the uploads in flight at once, in one process
    Attaches,        \* the attachments of the record in flight at once
    MaxFolders,      \* bound on the folders created
    MaxDriveFaults   \* bound on the answers lost and the folders removed

ASSUME FolderBounds == MaxFolders \in Nat \ {0} /\ MaxDriveFaults \in Nat

VARIABLES
    folders,      \* the folders of the entity, by creation: TRUE if reachable
    link,         \* driveFolderId of the record, 0 for none
    inFlight,     \* _driveTargetInFlight: an upload is resolving for the others
    upload,       \* upload[k]: [at, target, repair]
    attach,       \* attach[a]: [at, target]
    filed,        \* history: the folders in which documents were stored
    driveFaults,  \* the faults so far
    duplicated,   \* history: the answer of a creation was lost, and it was done again
    removed,      \* history: a folder was removed, or made unreachable
    attachCrossed,  \* history: an attachment ran along with something else
    resetDone     \* history: the link was cleared

folderVars == <<folders, link, inFlight, upload, attach, filed, driveFaults, duplicated,
                removed, attachCrossed, resetDone>>

Folders == 1..MaxFolders
IdleUpload == [at |-> "idle", target |-> 0, repair |-> FALSE]
IdleAttach == [at |-> "idle", target |-> 0]

FoldersTypeOK ==
    /\ folders \in Seq(BOOLEAN) /\ Len(folders) <= MaxFolders
    /\ link \in 0..Len(folders)
    /\ inFlight \in BOOLEAN
    /\ upload \in [Uploads -> [at: {"idle", "wait", "read", "search", "create", "write",
                                    "reread", "send"},
                               target: 0..MaxFolders, repair: BOOLEAN]]
    /\ attach \in [Attaches -> [at: {"idle", "search", "create", "save"},
                                target: 0..MaxFolders]]
    /\ filed \subseteq Folders

FoldersInit ==
    /\ folders = <<>>
    /\ link = 0
    /\ inFlight = FALSE
    /\ upload = [k \in Uploads |-> IdleUpload]
    /\ attach = [a \in Attaches |-> IdleAttach]
    /\ filed = {}
    /\ driveFaults = 0
    /\ duplicated = FALSE
    /\ removed = FALSE
    /\ attachCrossed = FALSE
    /\ resetDone = FALSE

----------------------------------------------------------------------------
(* Drive.                                                                  *)

Reachable == {n \in DOMAIN folders : folders[n]}

\* Mutant of Existing: the search finds nothing, as with a name matched to the second.
ExistingNone == 0
\* findFoldersByNamePrefix: the oldest one, 0 when there is none.
Existing == IF Reachable = {} THEN 0 ELSE Min(Reachable)

\* createSubFolder: a transient failure is retried, and when it was the answer that
\* was lost there are two folders, the last one being returned.
Creates(created) ==
    \/ folders' = Append(folders, TRUE) /\ created = Len(folders) + 1
       /\ UNCHANGED <<driveFaults, duplicated>>
    \/ folders' = folders \o <<TRUE, TRUE>> /\ created = Len(folders) + 2
       /\ driveFaults < MaxDriveFaults /\ driveFaults' = driveFaults + 1
       /\ duplicated' = TRUE

\* The folder is deleted, or out of reach of the account now in use.
RemoveFolder(n) ==
    /\ n \in Reachable
    /\ driveFaults < MaxDriveFaults
    /\ driveFaults' = driveFaults + 1
    /\ folders' = [folders EXCEPT ![n] = FALSE]
    /\ removed' = TRUE
    /\ UNCHANGED <<link, inFlight, upload, attach, filed, duplicated, attachCrossed, resetDone>>

----------------------------------------------------------------------------
(* An upload.                                                              *)

UploadsIdle == \A k \in Uploads : upload[k].at = "idle"
AttachesIdle == \A a \in Attaches : attach[a].at = "idle"

\* Mutant of Joins: each upload resolves the target for itself.
JoinsNone == FALSE
\* resolveDiDriveTarget: an upload joins the resolution in flight.
Joins == inFlight

StartUpload(k) ==
    /\ upload[k].at = "idle"
    /\ upload' = [upload EXCEPT ![k].at = IF Joins THEN "wait" ELSE "read"]
    /\ inFlight' = TRUE
    /\ attachCrossed' = (attachCrossed \/ ~AttachesIdle)
    /\ UNCHANGED <<folders, link, attach, filed, driveFaults, duplicated, removed, resetDone>>

\* The resolution ends: those that joined it take its target.
Resolved(k, target) ==
    /\ inFlight' = FALSE
    /\ upload' = [j \in Uploads |->
                     IF j = k \/ upload[j].at = "wait"
                     THEN [upload[j] EXCEPT !.at = "send", !.target = target]
                     ELSE upload[j]]

ReadLink(k) ==
    /\ upload[k].at = "read"
    /\ IF link # 0 THEN Resolved(k, link)
       ELSE upload' = [upload EXCEPT ![k].at = "search"] /\ UNCHANGED inFlight
    /\ UNCHANGED <<folders, link, attach, filed, driveFaults, duplicated, removed,
                   attachCrossed, resetDone>>

Search(k) ==
    /\ upload[k].at = "search"
    /\ upload' = [upload EXCEPT ![k].at = IF Existing = 0 THEN "create" ELSE "write",
                                ![k].target = Existing]
    /\ UNCHANGED <<folders, link, inFlight, attach, filed, driveFaults, duplicated, removed,
                   attachCrossed, resetDone>>

CreateFolder(k) ==
    /\ upload[k].at = "create"
    /\ \E created \in Folders :
          /\ Creates(created)
          /\ upload' = [upload EXCEPT ![k].at = "write", ![k].target = created]
    /\ UNCHANGED <<link, inFlight, attach, filed, removed, attachCrossed, resetDone>>

\* Mutant of MayWrite: the link is written whatever it is.
MayWriteAlways(k) == TRUE
\* The write matches an empty link only, but for the repair.
MayWrite(k) == upload[k].repair \/ link = 0

WriteLink(k) ==
    /\ upload[k].at = "write"
    /\ IF MayWrite(k)
       THEN /\ link' = upload[k].target
            /\ IF upload[k].repair
               THEN upload' = [upload EXCEPT ![k].at = "send"] /\ UNCHANGED inFlight
               ELSE Resolved(k, upload[k].target)
       ELSE upload' = [upload EXCEPT ![k].at = "reread"] /\ UNCHANGED <<link, inFlight>>
    /\ UNCHANGED <<folders, attach, filed, driveFaults, duplicated, removed, attachCrossed,
                   resetDone>>

\* Another writer won: its folder is taken.
RereadLink(k) ==
    /\ upload[k].at = "reread"
    /\ Resolved(k, IF link # 0 THEN link ELSE upload[k].target)
    /\ UNCHANGED <<folders, link, attach, filed, driveFaults, duplicated, removed,
                   attachCrossed, resetDone>>

\* Drive refuses: the upload fails, with those that joined its resolution.
UploadFails(k) ==
    /\ upload[k].at \in {"search", "create"}
    /\ upload' = [j \in Uploads |->
                     IF j = k \/ (~upload[k].repair /\ upload[j].at = "wait")
                     THEN IdleUpload ELSE upload[j]]
    /\ inFlight' = (inFlight /\ upload[k].repair)
    /\ UNCHANGED <<folders, link, attach, filed, driveFaults, duplicated, removed,
                   attachCrossed, resetDone>>

\* uploadFile: a 404 has the folder recreated, once.
SendFile(k) ==
    /\ upload[k].at = "send"
    /\ IF folders[upload[k].target]
       THEN /\ filed' = filed \cup {upload[k].target}
            /\ upload' = [upload EXCEPT ![k] = IdleUpload]
       ELSE /\ upload' = [upload EXCEPT ![k] =
                             IF @.repair THEN IdleUpload
                             ELSE [@ EXCEPT !.at = "search", !.repair = TRUE]]
            /\ UNCHANGED filed
    /\ UNCHANGED <<folders, link, inFlight, attach, driveFaults, duplicated, removed,
                   attachCrossed, resetDone>>

----------------------------------------------------------------------------
(* The record attaches its folder.                                         *)

\* createcompany, createClient and the ensure mutations: nothing to do with a link.
\* The reset mutations clear it first.
StartAttach(a, reset) ==
    /\ attach[a].at = "idle"
    /\ reset \/ link = 0
    /\ link' = 0
    /\ attach' = [attach EXCEPT ![a].at = "search"]
    /\ attachCrossed' = (attachCrossed \/ ~UploadsIdle \/ ~AttachesIdle)
    /\ resetDone' = (resetDone \/ reset)
    /\ UNCHANGED <<folders, inFlight, upload, filed, driveFaults, duplicated, removed>>

AttachSearch(a) ==
    /\ attach[a].at = "search"
    /\ attach' = [attach EXCEPT ![a].at = IF Existing = 0 THEN "create" ELSE "save",
                                ![a].target = Existing]
    /\ UNCHANGED <<folders, link, inFlight, upload, filed, driveFaults, duplicated, removed,
                   attachCrossed, resetDone>>

AttachCreate(a) ==
    /\ attach[a].at = "create"
    /\ \E created \in Folders :
          /\ Creates(created)
          /\ attach' = [attach EXCEPT ![a].at = "save", ![a].target = created]
    /\ UNCHANGED <<link, inFlight, upload, filed, removed, attachCrossed, resetDone>>

\* The document saved, whatever its link has become meanwhile.
AttachSave(a) ==
    /\ attach[a].at = "save"
    /\ link' = attach[a].target
    /\ attach' = [attach EXCEPT ![a] = IdleAttach]
    /\ UNCHANGED <<folders, inFlight, upload, filed, driveFaults, duplicated, removed,
                   attachCrossed, resetDone>>

\* A failure is captured, and the record left as it is.
AttachFails(a) ==
    /\ attach[a].at \in {"search", "create"}
    /\ attach' = [attach EXCEPT ![a] = IdleAttach]
    /\ UNCHANGED <<folders, link, inFlight, upload, filed, driveFaults, duplicated, removed,
                   attachCrossed, resetDone>>

UploadStep(k) ==
    \/ ReadLink(k) \/ Search(k) \/ CreateFolder(k) \/ WriteLink(k) \/ RereadLink(k) \/ SendFile(k)
    \/ UploadFails(k)

FoldersNext ==
    \/ \E k \in Uploads : StartUpload(k) \/ UploadStep(k)
    \/ \E a \in Attaches, reset \in BOOLEAN : StartAttach(a, reset)
    \/ \E a \in Attaches :
          AttachSearch(a) \/ AttachCreate(a) \/ AttachSave(a) \/ AttachFails(a)
    \/ \E n \in Folders : RemoveFolder(n)

FoldersSpec == FoldersInit /\ [][FoldersNext]_folderVars

----------------------------------------------------------------------------
(* What the folders promise.                                               *)

\* The documents of an entity are in one folder, however many uploads run at once,
\* while the folder is not removed, the record is not attached meanwhile, and no
\* doubled creation is followed by a reset.
DocsTogether ==
    ~attachCrossed /\ ~removed /\ ~(duplicated /\ resetDone) => Cardinality(filed) <= 1

\* At rest, an entity has one folder when no answer was lost, resets and repairs
\* included: they find the folder that is there.
OneFolder ==
    ~attachCrossed /\ ~duplicated /\ ~removed => Len(folders) <= 1

\* A link changes from one folder to another only by the repair of a folder gone or by
\* an attachment: an upload that finished resolving after another writer leaves its link.
LinkKept ==
    [][link # 0 /\ link' \notin {0, link}
         => removed \/ \E a \in Attaches : attach[a].at = "save"]_folderVars

\* One folder for an entity, with all its documents.
FoldersInv ==
    /\ FoldersTypeOK /\ DocsTogether /\ OneFolder
=============================================================================
