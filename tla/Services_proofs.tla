-------------------------- MODULE Services_proofs --------------------------
(***************************************************************************)
(* Theorems about the services that work through Google and Discord: the   *)
(* folders of the clients (DriveFolders), the backup (Backup), the         *)
(* reminders of the meetings (MeetingReminders) and the grant that Drive   *)
(* and Sheets share (GoogleGrant), for any number of requests, calls or    *)
(* runs and any number of faults.                                          *)
(***************************************************************************)
EXTENDS DriveFolders, Backup, MeetingReminders, GoogleGrant, FiniteSetTheorems,
        WellFoundedInduction, TLAPS

(***************************************************************************)
(* The backup.                                                             *)
(***************************************************************************)

BackupRunState == [at: BackupSteps, obsolete: SUBSET Nat, tries: 0..(UploadAttempts - 1),
             own: BOOLEAN]

\* The types in the form the proofs use.
BackupTypes ==
    /\ uploads \in Seq(BackupRuns)
    /\ onDrive \subseteq 1..Len(uploads)
    /\ bkRun \in [BackupRuns -> BackupRunState]
    /\ tempFiles \subseteq BackupRuns
    /\ told \in [BackupRuns -> SUBSET {"success", "failure", "public"}]
    /\ backupFaults \in 0..MaxBackupFaults
    /\ purgers \subseteq BackupRuns

\* What a run has found obsolete is old for good: uploads are only added.
OldInv == \A r \in BackupRuns : \A k \in bkRun[r].obsolete :
    k \in 1..Len(uploads) /\ Retention > 0 /\ k + Retention <= Len(uploads)

\* A run lists, deletes and tells its success only with its own upload confirmed.
OwnInv == \A r \in BackupRuns :
    /\ bkRun[r].at \in {"list", "purge", "success"} => bkRun[r].own
    /\ "success" \in told[r] => bkRun[r].own

\* A run comes to its cleanup with its end told, unless that line was refused.
ToldInv == \A r \in BackupRuns \ crashed :
    bkRun[r].at = "cleanup" => "success" \in told[r] \/ "failure" \in told[r]

BackupIInv == BackupTypes /\ OldInv /\ OwnInv /\ ToldInv /\ NewestKept /\ DeletesAfterUpload /\ EndsClean

----------------------------------------------------------------------------
(* What the purge takes.                                                   *)

\* Of files 1..n, what has Retention newer ones among those present is not one of the
\* newest Retention.
LEMMA ObsoleteIsOld ==
    ASSUME NEW n \in Nat, NEW present \in SUBSET (1..n), NEW k \in Obsolete(present)
    PROVE  k \in 1..n /\ Retention > 0 /\ k + Retention <= n
<1> DEFINE newer == {m \in present : m > k}
<1>1. k \in 1..n /\ Retention > 0 /\ Cardinality(newer) >= Retention
  BY DEF Obsolete
<1>2. newer \in SUBSET ((k + 1)..n)
  <2>1. ASSUME NEW m \in newer PROVE m \in (k + 1)..n
    BY <1>1, <2>1
  <2>2. QED
    BY <2>1
<1>3. IsFiniteSet((k + 1)..n) /\ Cardinality((k + 1)..n) = n - k
  <2>1. /\ k + 1 \in Int /\ n \in Int
        /\ (IF k + 1 > n THEN 0 ELSE n - (k + 1) + 1) = n - k
    BY <1>1
  <2>2. QED
    BY <2>1, FS_Interval
<1>4. Cardinality(newer) <= n - k
  BY <1>2, <1>3, FS_Subset
<1>5. IsFiniteSet(newer)
  BY <1>2, <1>3, FS_Subset
<1>6. Cardinality(newer) \in Nat
  BY <1>5, FS_CardinalityType
<1> HIDE DEF newer
<1>7. QED
  BY <1>1, <1>3, <1>4, <1>6, BackupBounds

----------------------------------------------------------------------------
(* Each step keeps the invariant.                                          *)

\* The first state satisfies the invariant.
LEMMA BackupInitInv == BackupInit => BackupIInv
  BY BackupBounds
  DEF BackupInit, FirstStep, BackupIInv, BackupTypes, BackupRunState, BackupSteps, UploadAttempts, OldInv,
      OwnInv, ToldInv, NewestKept, DeletesAfterUpload, EndsClean

\* A step of a run that neither receives, nor deletes, nor lists: it goes on, or ends.
LEMMA BackupQuietStep ==
    ASSUME BackupIInv, NEW r \in BackupRuns, NEW state \in BackupRunState,
           bkRun' = [bkRun EXCEPT ![r] = state],
           state.obsolete \subseteq bkRun[r].obsolete,
           bkRun[r].own => state.own,
           state.at \in {"list", "purge", "success"} => state.own,
           state.at = "cleanup" /\ r \notin crashed' =>
               "success" \in told'[r] \/ "failure" \in told'[r],
           state.at = "done" /\ r \notin crashed' =>
               /\ r \notin tempFiles'
               /\ "success" \in told[r] \/ "failure" \in told[r],
           "success" \in told'[r] => state.own,
           UNCHANGED <<uploads, onDrive, purgers>>,
           told' \in [BackupRuns -> SUBSET {"success", "failure", "public"}],
           \A q \in BackupRuns \ {r} : told'[q] = told[q],
           told[r] \subseteq told'[r],
           tempFiles' \subseteq tempFiles \cup {r},
           crashed \subseteq crashed', crashed' \subseteq crashed \cup {r},
           backupFaults' \in 0..MaxBackupFaults
    PROVE  BackupIInv'
<1> USE DEF BackupIInv
<1>1. /\ bkRun' \in [BackupRuns -> BackupRunState]
      /\ bkRun'[r] = state
      /\ \A q \in BackupRuns \ {r} : bkRun'[q] = bkRun[q]
  BY DEF BackupTypes
<1>2. BackupTypes'
  BY <1>1 DEF BackupTypes
<1>3. OldInv'
  BY <1>1 DEF OldInv
<1>4. OwnInv'
  BY <1>1 DEF OwnInv
<1>5. ToldInv'
  BY <1>1 DEF ToldInv
<1>6. NewestKept'
  BY DEF NewestKept
<1>7. DeletesAfterUpload'
  BY <1>1 DEF DeletesAfterUpload, BackupTypes
<1>8. EndsClean'
  <2> SUFFICES ASSUME NEW q \in BackupRuns \ crashed', bkRun'[q].at = "done"
               PROVE  /\ q \notin tempFiles'
                      /\ "success" \in told'[q] \/ "failure" \in told'[q]
                      /\ "success" \in told'[q] => bkRun'[q].own
    BY DEF EndsClean
  <2>1. CASE q = r
    BY <2>1, <1>1
  <2>2. CASE q # r
    <3>1. q \in BackupRuns \ crashed /\ bkRun[q].at = "done" /\ bkRun'[q] = bkRun[q]
      BY <2>2, <1>1
    <3>2. q \notin tempFiles' /\ told'[q] = told[q]
      BY <2>2, <3>1 DEF EndsClean
    <3>3. QED
      BY <3>1, <3>2 DEF EndsClean
  <2>3. QED
    BY <2>1, <2>2
<1>9. QED
  BY <1>2, <1>3, <1>4, <1>5, <1>6, <1>7, <1>8

\* A step that only takes the run elsewhere: none of its documents, files or lines moves.
LEMMA TurnStep ==
    ASSUME BackupIInv, NEW r \in BackupRuns, NEW to \in BackupSteps \ {"cleanup", "done"},
           bkRun' = [bkRun EXCEPT ![r].at = to],
           to \in {"list", "purge", "success"} => bkRun[r].own,
           tempFiles' \subseteq tempFiles \cup {r},
           told' = told \/ told' = [told EXCEPT ![r] = @ \cup {"public"}],
           UNCHANGED <<uploads, onDrive, purgers, crashed>>,
           backupFaults' \in 0..MaxBackupFaults
    PROVE  BackupIInv'
<1> DEFINE state == [bkRun[r] EXCEPT !.at = to]
<1>1. /\ state \in BackupRunState
      /\ state.at = to /\ state.obsolete = bkRun[r].obsolete /\ state.own = bkRun[r].own
  BY DEF BackupIInv, BackupTypes, BackupRunState
<1>2. bkRun' = [bkRun EXCEPT ![r] = state]
  BY DEF BackupIInv, BackupTypes, BackupRunState
<1>3. /\ told' \in [BackupRuns -> SUBSET {"success", "failure", "public"}]
      /\ \A q \in BackupRuns \ {r} : told'[q] = told[q]
      /\ told[r] \subseteq told'[r]
      /\ "success" \in told'[r] => "success" \in told[r]
  BY DEF BackupIInv, BackupTypes
<1>4. "success" \in told'[r] => state.own
  BY <1>1, <1>3 DEF BackupIInv, OwnInv
<1> HIDE DEF state
<1>5. QED
  BY <1>1, <1>2, <1>3, <1>4, BackupQuietStep

\* The fault counter stays within its bound.
LEMMA FaultBound ==
    ASSUME BackupIInv, BackupFault \/ UNCHANGED backupFaults PROVE backupFaults' \in 0..MaxBackupFaults
  BY BackupBounds DEF BackupIInv, BackupTypes, BackupFault

\* An upload, answered or not, only adds a file.
LEMMA ArrivalStep ==
    ASSUME BackupIInv, NEW r \in BackupRuns, NEW state \in BackupRunState,
           bkRun' = [bkRun EXCEPT ![r] = state],
           bkRun[r].at = "upload", state.obsolete = bkRun[r].obsolete,
           state.at \in {"upload", "list", "alert"},
           bkRun[r].own => state.own,
           state.at = "list" => state.own,
           Arrives(r), UNCHANGED <<tempFiles, told, purgers, crashed>>,
           backupFaults' \in 0..MaxBackupFaults
    PROVE  BackupIInv'
<1> USE DEF BackupIInv
<1>1. /\ bkRun' \in [BackupRuns -> BackupRunState]
      /\ bkRun'[r] = state
      /\ \A q \in BackupRuns \ {r} : bkRun'[q] = bkRun[q]
  BY DEF BackupTypes
<1>2. /\ uploads' \in Seq(BackupRuns)
      /\ Len(uploads) \in Nat /\ Len(uploads') = Len(uploads) + 1
      /\ onDrive' = onDrive \cup {Len(uploads) + 1}
  BY DEF Arrives, BackupTypes
<1>3. BackupTypes'
  <2>1. ASSUME NEW n \in onDrive' PROVE n \in 1..Len(uploads')
    <3>1. n \in onDrive \/ n = Len(uploads) + 1
      BY <1>2, <2>1
    <3>2. n \in onDrive => n \in 1..Len(uploads)
      BY DEF BackupTypes
    <3>3. QED
      BY <1>2, <3>1, <3>2
  <2>2. onDrive' \subseteq 1..Len(uploads')
    BY <2>1
  <2>3. QED
    BY <1>1, <1>2, <2>2 DEF BackupTypes
<1>4. OldInv'
  <2> SUFFICES ASSUME NEW q \in BackupRuns, NEW k \in bkRun'[q].obsolete
               PROVE  k \in 1..Len(uploads') /\ Retention > 0 /\ k + Retention <= Len(uploads')
    BY DEF OldInv
  <2>1. k \in bkRun[q].obsolete
    BY <1>1
  <2>2. QED
    BY <2>1, <1>2, BackupBounds DEF OldInv
<1>5. OwnInv'
  BY <1>1 DEF OwnInv
<1>6. ToldInv'
  BY <1>1 DEF ToldInv
<1>7. NewestKept'
  <2> SUFFICES ASSUME NEW k \in 1..Len(uploads'),
                      Retention = 0 \/ Len(uploads') - k < Retention
               PROVE  k \in onDrive'
    BY <1>2 DEF NewestKept
  <2>1. CASE k = Len(uploads) + 1
    BY <2>1, <1>2
  <2>2. CASE k # Len(uploads) + 1
    BY <2>2, <1>2, BackupBounds DEF NewestKept, BackupTypes
  <2>3. QED
    BY <2>1, <2>2
<1>8. DeletesAfterUpload'
  BY <1>1 DEF DeletesAfterUpload, BackupTypes
<1>9. EndsClean'
  BY <1>1 DEF EndsClean
<1>10. QED
  BY <1>3, <1>4, <1>5, <1>6, <1>7, <1>8, <1>9

\* A deletion takes what is old for good, by a run whose upload is confirmed.
LEMMA PurgeStep ==
    ASSUME BackupIInv, NEW r \in BackupRuns, NEW k \in bkRun[r].obsolete, NEW deletes \in BOOLEAN,
           PurgeOne(r, k, deletes)
    PROVE  BackupIInv'
<1> USE DEF BackupIInv, PurgeOne
<1> DEFINE state == [bkRun[r] EXCEPT !.obsolete = @ \ {k}]
<1>1. /\ state \in BackupRunState
      /\ state.obsolete \subseteq bkRun[r].obsolete
      /\ state.at = "purge" /\ bkRun[r].own /\ state.own
  BY DEF BackupTypes, BackupRunState, OwnInv
<1>2. bkRun' = [bkRun EXCEPT ![r] = state]
  BY DEF BackupTypes, BackupRunState
<1> HIDE DEF state
<1>3. /\ bkRun' \in [BackupRuns -> BackupRunState]
      /\ bkRun'[r] = state
      /\ \A q \in BackupRuns \ {r} : bkRun'[q] = bkRun[q]
  BY <1>1, <1>2 DEF BackupTypes
<1>4. /\ onDrive' \in {onDrive, onDrive \ {k}}
      /\ purgers' \in {purgers, purgers \cup {r}}
      /\ backupFaults' \in 0..MaxBackupFaults
  BY FaultBound
<1>5. BackupTypes'
  BY <1>3, <1>4 DEF BackupTypes
<1>6. OldInv'
  BY <1>1, <1>3 DEF OldInv
<1>7. OwnInv' /\ ToldInv' /\ EndsClean'
  BY <1>1, <1>3 DEF OwnInv, ToldInv, EndsClean
<1>8. NewestKept'
  <2> SUFFICES ASSUME NEW n \in DOMAIN uploads, Retention = 0 \/ Len(uploads) - n < Retention
               PROVE  n \in onDrive'
    BY DEF NewestKept
  <2>1. n \in onDrive
    BY DEF NewestKept
  <2>2. Len(uploads) \in Nat /\ DOMAIN uploads = 1..Len(uploads)
    BY DEF BackupTypes
  <2>3. n # k
    BY <2>2, BackupBounds DEF OldInv
  <2>4. QED
    BY <2>1, <2>3, <1>4
<1>9. DeletesAfterUpload'
  BY <1>1, <1>3, <1>4 DEF DeletesAfterUpload, BackupTypes
<1>10. QED
  BY <1>5, <1>6, <1>7, <1>8, <1>9

\* The listing: what it finds past the retention is old for good.
LEMMA ListStep ==
    ASSUME BackupIInv, NEW r \in BackupRuns, ListBackups(r)
    PROVE  BackupIInv'
<1> USE DEF BackupIInv, ListBackups
<1> DEFINE state == [bkRun[r] EXCEPT !.at = "purge", !.obsolete = Obsolete(onDrive)]
<1>1. Len(uploads) \in Nat /\ onDrive \in SUBSET (1..Len(uploads))
  BY DEF BackupTypes
<1>2. \A k \in Obsolete(onDrive) :
         k \in 1..Len(uploads) /\ Retention > 0 /\ k + Retention <= Len(uploads)
  BY <1>1, ObsoleteIsOld
<1>3. /\ state \in BackupRunState
      /\ state.at = "purge" /\ state.own /\ bkRun[r].own /\ state.obsolete = Obsolete(onDrive)
  <2>1. Obsolete(onDrive) \in SUBSET Nat
    BY <1>2
  <2>2. bkRun[r] \in BackupRunState /\ bkRun[r].own
    BY DEF BackupTypes, OwnInv
  <2> HIDE DEF BackupIInv, ListBackups
  <2>3. QED
    BY <2>1, <2>2 DEF BackupRunState, BackupSteps
<1>4. bkRun' = [bkRun EXCEPT ![r] = state]
  BY DEF BackupTypes, BackupRunState
<1> HIDE DEF state
<1>5. /\ bkRun' \in [BackupRuns -> BackupRunState]
      /\ bkRun'[r] = state
      /\ \A q \in BackupRuns \ {r} : bkRun'[q] = bkRun[q]
  BY <1>3, <1>4 DEF BackupTypes
<1>6. BackupTypes'
  BY <1>5 DEF BackupTypes
<1>7. OldInv'
  BY <1>2, <1>3, <1>5 DEF OldInv
<1>8. OwnInv' /\ ToldInv' /\ EndsClean'
  BY <1>3, <1>5 DEF OwnInv, ToldInv, EndsClean
<1>9. NewestKept'
  BY DEF NewestKept
<1>10. DeletesAfterUpload'
  <2>1. purgers' = purgers /\ \A q \in BackupRuns : bkRun'[q].own = bkRun[q].own
    BY <1>3, <1>5
  <2>2. QED
    BY <2>1 DEF DeletesAfterUpload, BackupTypes
<1>11. QED
  BY <1>6, <1>7, <1>8, <1>9, <1>10

\* The two outcomes of an upload.
LEMMA UploadSteps ==
    ASSUME BackupIInv, NEW r \in BackupRuns,
           \/ Upload(r)
           \/ \E arrived, transient \in BOOLEAN : UploadUnanswered(r, arrived, transient)
    PROVE  BackupIInv'
<1>1. bkRun[r] \in BackupRunState /\ (backupFaults' \in 0..MaxBackupFaults)
  BY FaultBound DEF BackupIInv, BackupTypes, Upload, UploadUnanswered
<1>2. CASE Upload(r)
  <2> DEFINE state == [bkRun[r] EXCEPT !.at = "list", !.own = TRUE]
  <2>1. /\ state \in BackupRunState /\ state.obsolete = bkRun[r].obsolete
        /\ state.at = "list" /\ state.own
    BY <1>1 DEF BackupRunState, BackupSteps
  <2>2. bkRun' = [bkRun EXCEPT ![r] = state]
    BY <1>2 DEF Upload, BackupIInv, BackupTypes, BackupRunState
  <2> HIDE DEF state
  <2>3. QED
    BY <1>1, <1>2, <2>1, <2>2, ArrivalStep DEF Upload
<1>3. ASSUME NEW arrived \in BOOLEAN, NEW transient \in BOOLEAN,
             UploadUnanswered(r, arrived, transient)
      PROVE  BackupIInv'
  <2> DEFINE again == transient /\ bkRun[r].tries + 1 < UploadAttempts
             state == [bkRun[r] EXCEPT !.at = IF again THEN "upload" ELSE "alert",
                                       !.tries = IF again THEN @ + 1 ELSE @]
  <2>1. /\ state \in BackupRunState /\ state.obsolete = bkRun[r].obsolete
        /\ state.at \in {"upload", "alert"} /\ state.own = bkRun[r].own
    <3>1. bkRun[r].tries \in Nat /\ (again => bkRun[r].tries + 1 \in 0..(UploadAttempts - 1))
      BY <1>1 DEF BackupRunState, UploadAttempts
    <3> HIDE DEF again
    <3>2. CASE again
      BY <1>1, <3>1, <3>2 DEF BackupRunState, BackupSteps
    <3>3. CASE ~again
      BY <1>1, <3>3 DEF BackupRunState, BackupSteps
    <3>4. QED
      BY <3>2, <3>3
  <2>2. bkRun' = [bkRun EXCEPT ![r] = state]
    BY <1>3 DEF UploadUnanswered, Unconfirmed, BackupIInv, BackupTypes, BackupRunState
  <2> HIDE DEF state
  <2>3. "success" \in told'[r] => state.own
    BY <1>3, <2>1 DEF UploadUnanswered, BackupIInv, OwnInv
  <2>4. CASE arrived
    <3>1. /\ bkRun[r].at = "upload" /\ Arrives(r)
          /\ UNCHANGED <<tempFiles, told, purgers, crashed>>
      BY <1>3, <2>4 DEF UploadUnanswered
    <3>2. /\ state.at \in {"upload", "list", "alert"}
          /\ state.at = "list" => state.own
          /\ bkRun[r].own => state.own
      BY <2>1
    <3>3. QED
      BY <1>1, <2>1, <2>2, <3>1, <3>2, ArrivalStep
  <2>5. CASE ~arrived
    <3>1. /\ UNCHANGED <<uploads, onDrive, tempFiles, told, purgers, crashed>>
          /\ told \in [BackupRuns -> SUBSET {"success", "failure", "public"}]
      BY <1>3, <2>5 DEF UploadUnanswered, BackupIInv, BackupTypes
    <3>2. /\ state.at \notin {"list", "purge", "success", "cleanup", "done"}
          /\ bkRun[r].own => state.own
      BY <2>1
    <3>3. QED
      BY <1>1, <2>1, <2>2, <2>3, <3>1, <3>2, BackupQuietStep
  <2>6. QED
    BY <2>4, <2>5
<1>4. QED
  BY <1>2, <1>3

\* The line of the end, delivered or not, the cleanup, and the end of a run that is killed.
LEMMA EndSteps ==
    ASSUME BackupIInv, NEW r \in BackupRuns,
           \/ \E line \in {"success", "failure"}, delivered \in BOOLEAN : Tell(r, line, delivered)
           \/ Cleanup(r) \/ Kill(r)
    PROVE  BackupIInv'
<1>1. /\ bkRun[r] \in BackupRunState
      /\ backupFaults' \in 0..MaxBackupFaults
  BY FaultBound DEF BackupIInv, BackupTypes, Tell, Cleanup, Kill
<1>2. ASSUME NEW line \in {"success", "failure"}, NEW delivered \in BOOLEAN,
             Tell(r, line, delivered)
      PROVE  BackupIInv'
  <2> DEFINE state == [bkRun[r] EXCEPT !.at = "cleanup"]
  <2>1. /\ state \in BackupRunState /\ state.obsolete = bkRun[r].obsolete
        /\ state.at = "cleanup" /\ state.own = bkRun[r].own
    BY <1>1 DEF BackupRunState, BackupSteps
  <2>2. bkRun' = [bkRun EXCEPT ![r] = state]
    BY <1>2 DEF Tell, Turns, BackupIInv, BackupTypes, BackupRunState
  <2>3. line = "success" => bkRun[r].own
    BY <1>2 DEF Tell, Turns, BackupIInv, OwnInv
  <2>4. /\ told' \in [BackupRuns -> SUBSET {"success", "failure", "public"}]
        /\ \A q \in BackupRuns \ {r} : told'[q] = told[q]
        /\ told[r] \subseteq told'[r] /\ told'[r] \subseteq told[r] \cup {line}
        /\ r \notin crashed' => line \in told'[r]
        /\ crashed \subseteq crashed' /\ crashed' \subseteq crashed \cup {r}
    BY <1>2 DEF Tell, BackupIInv, BackupTypes
  <2>5. "success" \in told'[r] => state.own
    BY <2>1, <2>3, <2>4 DEF BackupIInv, OwnInv
  <2> HIDE DEF state
  <2>6. QED
    BY <1>1, <1>2, <2>1, <2>2, <2>4, <2>5, BackupQuietStep DEF Tell
<1>3. CASE Cleanup(r) \/ Kill(r)
  <2> DEFINE state == [bkRun[r] EXCEPT !.at = "done"]
  <2>1. /\ state \in BackupRunState /\ state.obsolete = bkRun[r].obsolete
        /\ state.at = "done" /\ state.own = bkRun[r].own
    BY <1>1 DEF BackupRunState, BackupSteps
  <2>2. bkRun' = [bkRun EXCEPT ![r] = state]
    BY <1>3 DEF Cleanup, Kill, Turns, BackupIInv, BackupTypes, BackupRunState
  <2>3. /\ told' = told /\ told \in [BackupRuns -> SUBSET {"success", "failure", "public"}]
        /\ tempFiles' \subseteq tempFiles
        /\ crashed \subseteq crashed' /\ crashed' \subseteq crashed \cup {r}
        /\ UNCHANGED <<uploads, onDrive, purgers>>
    BY <1>3 DEF Cleanup, Cleaned, Kill, BackupIInv, BackupTypes
  <2>4. r \notin crashed' =>
           r \notin tempFiles' /\ ("success" \in told[r] \/ "failure" \in told[r])
    BY <1>3 DEF Cleanup, Cleaned, Kill, Turns, BackupIInv, ToldInv
  <2>5. "success" \in told'[r] => state.own
    BY <2>1, <2>3 DEF BackupIInv, OwnInv
  <2> HIDE DEF state
  <2>6. QED
    BY <1>1, <2>1, <2>2, <2>3, <2>4, <2>5, BackupQuietStep
<1>4. QED
  BY <1>2, <1>3

\* Every step keeps the invariant.
LEMMA BackupStepInv == BackupIInv /\ [BackupNext]_backupVars => BackupIInv'
<1> SUFFICES ASSUME BackupIInv, [BackupNext]_backupVars PROVE BackupIInv'
  OBVIOUS
<1>1. ASSUME NEW r \in BackupRuns, Config(r) \/ Dump(r) \/ StepFails(r) PROVE BackupIInv'
  <2>1. backupFaults' \in 0..MaxBackupFaults
    BY <1>1, FaultBound DEF Config, Dump, StepFails
  <2>2. PICK to \in {"dump", "folder", "alert"} : bkRun' = [bkRun EXCEPT ![r].at = to]
    BY <1>1 DEF Config, Dump, StepFails, Turns
  <2>3. to \in BackupSteps \ {"cleanup", "done"}
    BY DEF BackupSteps
  <2>4. QED
    BY <1>1, <2>1, <2>2, <2>3, TurnStep DEF Config, Dump, StepFails
<1>2. ASSUME NEW r \in BackupRuns, NEW leaves \in BOOLEAN, DumpFails(r, leaves) PROVE BackupIInv'
  <2>1. backupFaults' \in 0..MaxBackupFaults
    BY <1>2, FaultBound DEF DumpFails
  <2>2. QED
    BY <1>2, <2>1, TurnStep DEF DumpFails, Turns, BackupSteps
<1>3. ASSUME NEW r \in BackupRuns, NEW isPublic \in BOOLEAN, Folder(r, isPublic) PROVE BackupIInv'
  <2>1. backupFaults' \in 0..MaxBackupFaults
    BY <1>3, FaultBound DEF Folder
  <2>2. QED
    BY <1>3, <2>1, TurnStep DEF Folder, Turns, BackupSteps
<1>4. ASSUME NEW r \in BackupRuns,
             \/ Upload(r)
             \/ \E arrived, transient \in BOOLEAN : UploadUnanswered(r, arrived, transient)
      PROVE  BackupIInv'
  BY <1>4, UploadSteps
<1>5. ASSUME NEW r \in BackupRuns, ListBackups(r) PROVE BackupIInv'
  BY <1>5, ListStep
<1>6. ASSUME NEW r \in BackupRuns, NEW k \in bkRun[r].obsolete, NEW deletes \in BOOLEAN,
             PurgeOne(r, k, deletes)
      PROVE  BackupIInv'
  BY <1>6, PurgeStep
<1>7. ASSUME NEW r \in BackupRuns, EndPurge(r) PROVE BackupIInv'
  <2>1. backupFaults' \in 0..MaxBackupFaults
    BY <1>7, FaultBound DEF EndPurge
  <2>2. bkRun[r].own
    BY <1>7 DEF EndPurge, Turns, BackupIInv, OwnInv
  <2>3. QED
    BY <1>7, <2>1, <2>2, TurnStep DEF EndPurge, Turns, BackupSteps
<1>8. ASSUME NEW r \in BackupRuns,
             \/ \E line \in {"success", "failure"}, delivered \in BOOLEAN : Tell(r, line, delivered)
             \/ Cleanup(r) \/ Kill(r)
      PROVE  BackupIInv'
  BY <1>8, EndSteps
<1>9. CASE UNCHANGED backupVars
  BY <1>9 DEF backupVars, BackupIInv, BackupTypes, OldInv, OwnInv, ToldInv, NewestKept,
              DeletesAfterUpload, EndsClean
<1>10. QED
  BY <1>1, <1>2, <1>3, <1>4, <1>5, <1>6, <1>7, <1>8, <1>9 DEF BackupNext

----------------------------------------------------------------------------
(* The theorem.                                                            *)

\* However many runs overlap and whatever fails, the newest Retention backups are kept,
\* no run deletes before its own upload is confirmed, and a run not killed ends clean
\* and told: the purge and the finally of db-backup.service.ts.
THEOREM BackupsKept == BackupSpec => []BackupInv
<1>1. BackupIInv => BackupTypeOK
  <2> SUFFICES ASSUME BackupIInv PROVE BackupTypeOK
    OBVIOUS
  <2>1. DOMAIN uploads = 1..Len(uploads)
    BY DEF BackupIInv, BackupTypes
  <2>2. \A r \in BackupRuns : bkRun[r].obsolete \subseteq 1..Len(uploads)
    BY DEF BackupIInv, OldInv
  <2>3. QED
    BY <2>1, <2>2 DEF BackupIInv, BackupTypes, BackupRunState, BackupTypeOK
<1>2. BackupIInv => BackupInv
  BY <1>1 DEF BackupIInv, BackupInv
<1>3. QED
  BY <1>2, BackupInitInv, BackupStepInv, PTL DEF BackupSpec

----------------------------------------------------------------------------
(***************************************************************************)
(* The reminders.                                                          *)
(***************************************************************************)

\* A run, with the meeting it holds as a set of one or none.
ReminderRunState == [at: {"waiting", "next", "post", "revert", "done"},
             due: SUBSET PlannedMeetings,
             on: {{}} \cup {{p} : p \in PlannedMeetings}]

\* The types in the form the proofs use.
ReminderTypes ==
    /\ minute \in 0..LastMinute
    /\ date \in [PlannedMeetings -> 0..LastMinute]
    /\ reminded \subseteq PlannedMeetings
    /\ remRun \in [ReminderRuns -> ReminderRunState]
    /\ posts \in [PlannedMeetings -> Nat]
    /\ runFaults \in 0..MaxRunFaults

\* A run holds a meeting between its claim and the end of its post or of its revert only.
PhaseInv == \A r \in ReminderRuns : remRun[r].on # {} => remRun[r].at \in {"post", "revert"}

\* A meeting held is marked and not posted, and held by one run.
HoldInv == \A r \in ReminderRuns : \A p \in remRun[r].on :
    /\ p \in reminded /\ posts[p] = 0
    /\ \A q \in ReminderRuns \ {r} : p \notin remRun[q].on

\* A meeting that can be claimed was not posted, and none was posted twice.
FreshInv ==
    /\ \A p \in PlannedMeetings \ reminded : posts[p] = 0
    /\ OneReminder

ReminderIInv == ReminderTypes /\ PhaseInv /\ HoldInv /\ FreshInv

----------------------------------------------------------------------------
(* Each step keeps the invariant.                                          *)

\* The first states satisfy the invariant.
LEMMA ReminderInitInv == ReminderInit => ReminderIInv
  BY ReminderBounds
  DEF ReminderInit, ReminderIInv, ReminderTypes, ReminderRunState, Waiting, PhaseInv, HoldInv, FreshInv, OneReminder

\* A run takes its list, ends, or lets go of its meeting: what the others hold is untouched.
LEMMA ReminderQuietStep ==
    ASSUME ReminderIInv, NEW r \in ReminderRuns, NEW state \in ReminderRunState,
           remRun' = [remRun EXCEPT ![r] = state],
           state.on \in {{}, remRun[r].on},
           state.on # {} => state.at \in {"post", "revert"},
           UNCHANGED <<minute, date, reminded, posts>>,
           runFaults' \in 0..MaxRunFaults
    PROVE  ReminderIInv'
<1>1. ReminderTypes'
  BY DEF ReminderIInv, ReminderTypes
<1>2. /\ remRun'[r] = state
      /\ \A q \in ReminderRuns : remRun'[q].on \subseteq remRun[q].on
      /\ \A q \in ReminderRuns \ {r} : remRun'[q] = remRun[q]
  BY DEF ReminderIInv, ReminderTypes
<1>3. PhaseInv'
  BY <1>2 DEF ReminderIInv, PhaseInv
<1>4. HoldInv'
  BY <1>2 DEF ReminderIInv, HoldInv
<1>5. FreshInv'
  BY DEF ReminderIInv, FreshInv, OneReminder
<1>6. QED
  BY <1>1, <1>3, <1>4, <1>5 DEF ReminderIInv

\* The claim: the filter on the flag gives a meeting to one run.
LEMMA ClaimStep ==
    ASSUME ReminderIInv, NEW r \in ReminderRuns, NEW p \in PlannedMeetings, ClaimReminder(r, p)
    PROVE  ReminderIInv'
<1> USE DEF ReminderIInv, ClaimReminder, Claimable
<1>1. PICK state \in ReminderRunState :
         /\ remRun' = [remRun EXCEPT ![r] = state]
         /\ state.on = IF p \notin reminded THEN {p} ELSE {}
         /\ state.at = IF p \notin reminded THEN "post" ELSE "next"
  <2> DEFINE state == [remRun[r] EXCEPT !.due = @ \ {p},
                           !.on = IF p \notin reminded THEN {p} ELSE {},
                           !.at = IF p \notin reminded THEN "post" ELSE "next"]
  <2>1. remRun[r] \in ReminderRunState
    BY DEF ReminderTypes
  <2>2. state \in ReminderRunState
    BY <2>1 DEF ReminderRunState
  <2>3. remRun' = [remRun EXCEPT ![r] = state]
    BY DEF ReminderTypes, ReminderRunState
  <2>4. QED
    BY <2>1, <2>2, <2>3 DEF ReminderRunState
<1>2. ReminderTypes'
  BY <1>1 DEF ReminderTypes
<1>3. /\ remRun'[r] = state
      /\ \A q \in ReminderRuns \ {r} : remRun'[q] = remRun[q]
  BY <1>1 DEF ReminderTypes
<1>4. PhaseInv'
  BY <1>1, <1>3 DEF PhaseInv
<1>5. HoldInv'
  <2> SUFFICES ASSUME NEW s \in ReminderRuns, NEW m \in remRun'[s].on
               PROVE  /\ m \in reminded' /\ posts'[m] = 0
                      /\ \A q \in ReminderRuns \ {s} : m \notin remRun'[q].on
    BY DEF HoldInv
  <2> USE DEF HoldInv
  <2>1. CASE s = r
    <3>1. p \notin reminded /\ m = p
      BY <2>1, <1>1, <1>3
    <3>2. posts[p] = 0 /\ p \in reminded' /\ posts' = posts
      BY <3>1 DEF FreshInv
    <3>3. \A q \in ReminderRuns \ {r} : p \notin remRun'[q].on
      BY <3>1, <1>3
    <3>4. QED
      BY <2>1, <3>1, <3>2, <3>3
  <2>2. CASE s # r
    <3>1. m \in remRun[s].on
      BY <2>2, <1>3
    <3>2. m \in reminded /\ posts[m] = 0 /\ \A q \in ReminderRuns \ {s} : m \notin remRun[q].on
      BY <3>1
    <3>3. m \notin remRun'[r].on
      BY <3>2, <1>1, <1>3
    <3>4. QED
      BY <2>2, <3>2, <3>3, <1>3
  <2>3. QED
    BY <2>1, <2>2
<1>6. FreshInv'
  BY DEF FreshInv, OneReminder
<1>7. QED
  BY <1>2, <1>4, <1>5, <1>6

\* The post: the meeting held had none before.
LEMMA PostStep ==
    ASSUME ReminderIInv, NEW r \in ReminderRuns, PostEmbed(r)
    PROVE  ReminderIInv'
<1> USE DEF ReminderIInv, PostEmbed
<1>1. /\ remRun'[r].on = {}
      /\ remRun' \in [ReminderRuns -> ReminderRunState]
      /\ \A q \in ReminderRuns \ {r} : remRun'[q] = remRun[q]
  BY DEF ReminderTypes, ReminderRunState
<1>2. /\ posts' \in [PlannedMeetings -> Nat]
      /\ \A p \in PlannedMeetings : posts'[p] = posts[p] \/ (p \in remRun[r].on /\ posts'[p] = 1)
  BY DEF ReminderTypes, HoldInv
<1>3. ReminderTypes'
  BY <1>1, <1>2 DEF ReminderTypes
<1>4. PhaseInv'
  BY <1>1 DEF PhaseInv
<1>5. HoldInv'
  <2> SUFFICES ASSUME NEW s \in ReminderRuns, NEW m \in remRun'[s].on
               PROVE  /\ m \in reminded' /\ posts'[m] = 0
                      /\ \A q \in ReminderRuns \ {s} : m \notin remRun'[q].on
    BY DEF HoldInv
  <2>1. s # r /\ m \in remRun[s].on /\ m \notin remRun[r].on
    BY <1>1 DEF HoldInv
  <2>2. m \in PlannedMeetings
    BY <2>1 DEF ReminderTypes, ReminderRunState
  <2>3. QED
    BY <2>1, <2>2, <1>1, <1>2 DEF HoldInv
<1>6. FreshInv'
  BY <1>2 DEF FreshInv, OneReminder, HoldInv
<1>7. QED
  BY <1>3, <1>4, <1>5, <1>6

\* A failed post gives the meeting back, to be posted by another run.
LEMMA RevertStep ==
    ASSUME ReminderIInv, NEW r \in ReminderRuns, Revert(r)
    PROVE  ReminderIInv'
<1> USE DEF ReminderIInv, Revert, Reverted, RunFault
<1>1. /\ remRun'[r].on = {}
      /\ remRun' \in [ReminderRuns -> ReminderRunState]
      /\ \A q \in ReminderRuns \ {r} : remRun'[q] = remRun[q]
  BY DEF ReminderTypes, ReminderRunState
<1>2. reminded' \in {reminded, reminded \ remRun[r].on}
  OBVIOUS
<1>3. ReminderTypes'
  BY <1>1, <1>2, ReminderBounds DEF ReminderTypes
<1>4. PhaseInv'
  BY <1>1 DEF PhaseInv
<1>5. HoldInv'
  BY <1>1, <1>2 DEF HoldInv
<1>6. FreshInv'
  BY <1>2 DEF FreshInv, OneReminder, HoldInv
<1>7. QED
  BY <1>3, <1>4, <1>5, <1>6

\* Every step keeps the invariant.
LEMMA ReminderStepInv == ReminderIInv /\ [ReminderNext]_reminderVars => ReminderIInv'
<1> SUFFICES ASSUME ReminderIInv, [ReminderNext]_reminderVars PROVE ReminderIInv'
  OBVIOUS
<1>1. ASSUME NEW r \in ReminderRuns, ReadCandidates(r) PROVE ReminderIInv'
  <2> DEFINE state == [Waiting EXCEPT !.at = "next", !.due = {p \in PlannedMeetings : Due(p)}]
  <2>1. state \in ReminderRunState /\ state.on = {}
    BY DEF ReminderRunState, Waiting
  <2> HIDE DEF state
  <2>2. remRun' = [remRun EXCEPT ![r] = state]
    BY <1>1 DEF ReadCandidates, state
  <2>3. QED
    BY <1>1, <2>1, <2>2, ReminderQuietStep DEF ReadCandidates, ReminderIInv, ReminderTypes
<1>2. ASSUME NEW r \in ReminderRuns, NEW p \in PlannedMeetings, ClaimReminder(r, p) PROVE ReminderIInv'
  BY <1>2, ClaimStep
<1>3. ASSUME NEW r \in ReminderRuns, PostEmbed(r) PROVE ReminderIInv'
  BY <1>3, PostStep
<1>4. ASSUME NEW r \in ReminderRuns, PostSwallowed(r) PROVE ReminderIInv'
  <2> DEFINE state == [remRun[r] EXCEPT !.at = "next", !.on = {}]
  <2>1. state \in ReminderRunState /\ state.on = {}
    BY DEF ReminderIInv, ReminderTypes, ReminderRunState
  <2>2. remRun' = [remRun EXCEPT ![r] = state]
    BY <1>4 DEF PostSwallowed, ReminderIInv, ReminderTypes, ReminderRunState
  <2>3. runFaults' \in 0..MaxRunFaults
    BY <1>4, ReminderBounds DEF PostSwallowed, RunFault, ReminderIInv, ReminderTypes
  <2> HIDE DEF state
  <2>4. QED
    BY <1>4, <2>1, <2>2, <2>3, ReminderQuietStep DEF PostSwallowed
<1>5. ASSUME NEW r \in ReminderRuns, SendThrows(r) PROVE ReminderIInv'
  <2> DEFINE state == [remRun[r] EXCEPT !.at = "revert"]
  <2>1. state \in ReminderRunState /\ state.on = remRun[r].on /\ state.at = "revert"
    BY DEF ReminderIInv, ReminderTypes, ReminderRunState
  <2>2. remRun' = [remRun EXCEPT ![r] = state]
    BY <1>5 DEF SendThrows, ReminderIInv, ReminderTypes, ReminderRunState
  <2>3. runFaults' \in 0..MaxRunFaults
    BY <1>5, ReminderBounds DEF SendThrows, RunFault, ReminderIInv, ReminderTypes
  <2> HIDE DEF state
  <2>4. QED
    BY <1>5, <2>1, <2>2, <2>3, ReminderQuietStep DEF SendThrows
<1>6. ASSUME NEW r \in ReminderRuns, Revert(r) PROVE ReminderIInv'
  BY <1>6, RevertStep
<1>7. ASSUME NEW r \in ReminderRuns, EndRun(r) PROVE ReminderIInv'
  <2> DEFINE state == [Waiting EXCEPT !.at = "done"]
  <2>1. state \in ReminderRunState /\ state.on = {}
    BY DEF ReminderRunState, Waiting
  <2> HIDE DEF state
  <2>2. remRun' = [remRun EXCEPT ![r] = state]
    BY <1>7 DEF EndRun, state
  <2>3. QED
    BY <1>7, <2>1, <2>2, ReminderQuietStep DEF EndRun, ReminderIInv, ReminderTypes
<1>8. ASSUME NEW r \in ReminderRuns, LoseRun(r) PROVE ReminderIInv'
  <2> DEFINE state == [Waiting EXCEPT !.at = "done"]
  <2>1. state \in ReminderRunState /\ state.on = {}
    BY DEF ReminderRunState, Waiting
  <2> HIDE DEF state
  <2>2. remRun' = [remRun EXCEPT ![r] = state]
    BY <1>8 DEF LoseRun, state
  <2>3. runFaults' \in 0..MaxRunFaults
    BY <1>8, ReminderBounds DEF LoseRun, RunFault, ReminderIInv, ReminderTypes
  <2>4. QED
    BY <1>8, <2>1, <2>2, <2>3, ReminderQuietStep DEF LoseRun
<1>9. CASE Minute
  <2>1. minute' \in 0..LastMinute
    BY <1>9, ReminderBounds DEF Minute, ReminderIInv, ReminderTypes
  <2>2. QED
    BY <1>9, <2>1 DEF Minute, ReminderIInv, ReminderTypes, PhaseInv, HoldInv, FreshInv, OneReminder
<1>10. CASE UNCHANGED reminderVars
  BY <1>10 DEF reminderVars, ReminderIInv, ReminderTypes, PhaseInv, HoldInv, FreshInv, OneReminder
<1>11. QED
  BY <1>1, <1>2, <1>3, <1>4, <1>5, <1>6, <1>7, <1>8, <1>9, <1>10
  DEF ReminderNext, ReminderStep

----------------------------------------------------------------------------
(* The theorems.                                                           *)

\* The types of the component follow from the invariant.
LEMMA ReminderTypesFollow == ReminderIInv => ReminderTypeOK
<1> SUFFICES ASSUME ReminderIInv, NEW r \in ReminderRuns
             PROVE  /\ remRun[r].at \in {"waiting", "next", "post", "revert", "done"}
                    /\ remRun[r].on \subseteq PlannedMeetings /\ Cardinality(remRun[r].on) <= 1
                    /\ remRun[r].at \in {"post", "revert"} => remRun[r].on \subseteq reminded
  BY DEF ReminderIInv, ReminderTypes, ReminderTypeOK
<1>1. remRun[r] \in ReminderRunState
  BY DEF ReminderIInv, ReminderTypes
<1>2. Cardinality(remRun[r].on) <= 1
  <2>1. CASE remRun[r].on = {}
    BY <2>1, FS_EmptySet
  <2>2. ASSUME NEW p \in PlannedMeetings, remRun[r].on = {p} PROVE Cardinality(remRun[r].on) = 1
    BY <2>2, FS_Singleton
  <2>3. QED
    BY <1>1, <2>1, <2>2 DEF ReminderRunState
<1>3. QED
  BY <1>1, <1>2 DEF ReminderRunState, ReminderIInv, HoldInv

\* A meeting has one reminder at most, however many runs of the job overlap and whatever
\* fails: the claim of reunion-pv.service.ts:437-439.
THEOREM OneReminderEach == ReminderSpec => []OneReminder
<1>1. ReminderIInv => OneReminder
  BY DEF ReminderIInv, FreshInv
<1>2. QED
  BY <1>1, ReminderInitInv, ReminderStepInv, PTL DEF ReminderSpec

\* What marked a meeting that no run holds, when reminders are really sent.
MarkInv == ~DiscordDisabled /\ MarkedWasPosted

\* A step lets go of a meeting only when it is posted, given back, refused by the webhook
\* or lost.
LEMMA StepMark == ReminderIInv /\ MarkInv /\ [ReminderNext]_reminderVars => MarkInv'
<1> SUFFICES ASSUME ReminderIInv, ~DiscordDisabled, MarkedWasPosted, [ReminderNext]_reminderVars
             PROVE  MarkedWasPosted'
  BY DEF MarkInv
<1> SUFFICES ASSUME NEW p \in reminded', \A r \in ReminderRuns : p \notin remRun'[r].on
             PROVE  posts'[p] = 1 \/ p \in failedPosts' \cup stuck'
  BY DEF MarkedWasPosted
<1> USE DEF MarkedWasPosted, ReminderIInv
<1>1. ASSUME NEW r \in ReminderRuns, ReadCandidates(r) \/ EndRun(r)
      PROVE  posts'[p] = 1 \/ p \in failedPosts' \cup stuck'
  <2>1. remRun[r].on = {}
    BY <1>1 DEF ReadCandidates, EndRun, PhaseInv
  <2>2. \A q \in ReminderRuns \ {r} : remRun'[q] = remRun[q]
    BY <1>1 DEF ReadCandidates, EndRun, ReminderTypes
  <2>3. QED
    BY <1>1, <2>1, <2>2 DEF ReadCandidates, EndRun
<1>2. ASSUME NEW r \in ReminderRuns, NEW m \in PlannedMeetings, ClaimReminder(r, m)
      PROVE  posts'[p] = 1 \/ p \in failedPosts' \cup stuck'
  <2>1. remRun[r].on = {}
    BY <1>2 DEF ClaimReminder, PhaseInv
  <2>2. /\ \A q \in ReminderRuns \ {r} : remRun'[q] = remRun[q]
        /\ remRun'[r].on = IF m \notin reminded THEN {m} ELSE {}
    BY <1>2 DEF ClaimReminder, Claimable, ReminderTypes, ReminderRunState
  <2>3. p \in reminded
    BY <1>2, <2>2 DEF ClaimReminder
  <2>4. \A q \in ReminderRuns : p \notin remRun[q].on
    BY <2>1, <2>2
  <2>5. QED
    BY <1>2, <2>3, <2>4 DEF ClaimReminder
<1>3. ASSUME NEW r \in ReminderRuns, PostEmbed(r)
      PROVE  posts'[p] = 1 \/ p \in failedPosts' \cup stuck'
  <2>1. \A q \in ReminderRuns \ {r} : remRun'[q] = remRun[q]
    BY <1>3 DEF PostEmbed, ReminderTypes
  <2>2. p \in PlannedMeetings
    BY <1>3 DEF PostEmbed, ReminderTypes
  <2>3. CASE p \in remRun[r].on
    BY <1>3, <2>2, <2>3 DEF PostEmbed, HoldInv
  <2>4. CASE p \notin remRun[r].on
    BY <1>3, <2>1, <2>2, <2>4 DEF PostEmbed, ReminderTypes
  <2>5. QED
    BY <2>3, <2>4
<1>4. ASSUME NEW r \in ReminderRuns, PostSwallowed(r) \/ Revert(r) \/ LoseRun(r)
      PROVE  posts'[p] = 1 \/ p \in failedPosts' \cup stuck'
  <2>1. \A q \in ReminderRuns \ {r} : remRun'[q] = remRun[q]
    BY <1>4 DEF PostSwallowed, Revert, LoseRun, ReminderTypes
  <2>2. p \in remRun[r].on => p \in failedPosts' \cup stuck'
    BY <1>4 DEF PostSwallowed, Revert, Reverted, LoseRun
  <2>3. p \in reminded /\ posts' = posts /\ failedPosts \cup stuck \subseteq failedPosts' \cup stuck'
    BY <1>4 DEF PostSwallowed, Revert, Reverted, LoseRun
  <2>4. QED
    BY <2>1, <2>2, <2>3
<1>5. ASSUME NEW r \in ReminderRuns, SendThrows(r)
      PROVE  posts'[p] = 1 \/ p \in failedPosts' \cup stuck'
  <2>1. \A q \in ReminderRuns : remRun'[q].on = remRun[q].on
    BY <1>5 DEF SendThrows, ReminderTypes, ReminderRunState
  <2>2. QED
    BY <1>5, <2>1 DEF SendThrows
<1>6. CASE Minute \/ UNCHANGED reminderVars
  BY <1>6 DEF Minute, reminderVars
<1>7. QED
  BY <1>1, <1>2, <1>3, <1>4, <1>5, <1>6 DEF ReminderNext, ReminderStep

\* When Discord is not disabled, a meeting has one reminder at most, and one marked was
\* posted unless the webhook refused it or a run was lost, for any number of runs.
THEOREM RemindersKept == ~DiscordDisabled => (ReminderSpec => []RemindersInv)
<1>1. ReminderInit /\ ~DiscordDisabled => ReminderIInv /\ MarkInv
  BY ReminderInitInv DEF ReminderInit, MarkInv, MarkedWasPosted
<1>2. ReminderIInv /\ MarkInv => RemindersInv
  BY ReminderTypesFollow DEF RemindersInv, ReminderIInv, FreshInv, MarkInv
<1>3. QED
  BY <1>1, <1>2, ReminderStepInv, StepMark, PTL DEF ReminderSpec

----------------------------------------------------------------------------
(***************************************************************************)
(* The folders of the clients.                                             *)
(***************************************************************************)

\* The steps in which an upload resolves the folder, for itself and those that wait.
Resolving == {"read", "search", "create", "write", "reread"}
Resolvers == {k \in Uploads : upload[k].at \in Resolving /\ ~upload[k].repair}

\* The types, with what a step of an upload or of an attachment has in hand.
FoldersTypes ==
    /\ FoldersTypeOK
    /\ \A k \in Uploads : upload[k].at \in {"write", "reread", "send"} =>
          upload[k].target \in 1..Len(folders)
    /\ \A a \in Attaches : attach[a].at = "save" => attach[a].target \in 1..Len(folders)
    /\ filed \subseteq 1..Len(folders)
    /\ driveFaults \in Nat
    /\ duplicated \in BOOLEAN /\ removed \in BOOLEAN
    /\ attachCrossed \in BOOLEAN /\ resetDone \in BOOLEAN

\* One upload resolves at a time, the others having joined it; and a folder is out of
\* reach, or an upload repairs one, only once a folder was removed.
ResolveInv ==
    /\ Resolvers # {} => inFlight
    /\ \A j, k \in Resolvers : j = k
    /\ \A k \in Uploads : upload[k].repair =>
          removed /\ upload[k].at \in {"search", "create", "write", "send"}
    /\ removed \/ \A n \in 1..Len(folders) : folders[n]

\* While attachments keep clear, one of them runs and no upload does, or none runs.
AloneInv ==
    ~attachCrossed =>
        \A a \in Attaches : attach[a].at # "idle" =>
            UploadsIdle /\ \A b \in Attaches \ {a} : attach[b].at = "idle"

\* Who is about to create a folder has searched, and nobody has created one since.
CreateInv ==
    ~attachCrossed /\ ~duplicated /\ ~removed =>
        /\ Len(folders) <= 1
        /\ (\E k \in Uploads : upload[k].at = "create") => Len(folders) = 0
        /\ (\E a \in Attaches : attach[a].at = "create") => Len(folders) = 0

\* While no link is cleared, the documents go to the linked folder.
LinkInv ==
    ~attachCrossed /\ ~removed /\ ~resetDone =>
        /\ \A k \in Uploads : upload[k].at \in {"send", "reread"} => link # 0
        /\ \A k \in Uploads : upload[k].at = "send" => upload[k].target = link
        /\ \A a \in Attaches : attach[a].at # "idle" => link = 0
        /\ filed \subseteq {link} \ {0}

FoldersIInv == FoldersTypes /\ ResolveInv /\ AloneInv /\ CreateInv /\ LinkInv

----------------------------------------------------------------------------
(* The steps of an upload.                                                 *)

UploadState == [at: {"idle", "wait", "read", "search", "create", "write", "reread", "send"},
                target: 0..MaxFolders, repair: BOOLEAN]
AttachState == [at: {"idle", "search", "create", "save"}, target: 0..MaxFolders]

\* A non-empty set of numbers has a least one.
LEMMA HasLeast ==
    ASSUME NEW T, T \subseteq Nat, T # {}
    PROVE  \E x \in T : \A y \in T : x <= y
<1>1. PICK x \in T : \A y \in T : ~(<<y, x>> \in OpToRel(<, Nat))
  BY NatLessThanWellFounded, WFMin, Zenon
<1>2. \A y \in T : y < x => <<y, x>> \in OpToRel(<, Nat)
  BY Zenon DEF OpToRel
<1>3. \A y \in T : ~(y < x)
  BY <1>1, <1>2, Zenon
<1>4. QED
  BY <1>3

\* The search returns a folder within reach when there is one.
LEMMA ExistingIsReachable ==
    ASSUME FoldersTypes
    PROVE  /\ Existing \in 0..Len(folders)
           /\ Existing = 0 <=> Reachable = {}
<1>1. Len(folders) \in Nat /\ Reachable \subseteq 1..Len(folders)
  BY DEF FoldersTypes, FoldersTypeOK, Reachable
<1> HIDE DEF FoldersTypes
<1>2. CASE Reachable = {}
  BY <1>1, <1>2 DEF Existing
<1>3. CASE Reachable # {}
  <2>1. \E x \in Reachable : \A y \in Reachable : x <= y
    <3>1. Reachable \subseteq Nat
      BY <1>1
    <3>2. QED
      BY <1>3, <3>1, HasLeast, Zenon
  <2>2. Min(Reachable) \in Reachable
    BY <2>1 DEF Min
  <2>3. Existing = Min(Reachable)
    BY <1>3 DEF Existing
  <2>4. Existing \in 1..Len(folders)
    BY <1>1, <2>2, <2>3
  <2>5. Existing \in 0..Len(folders) /\ Existing # 0
    BY <1>1, <2>4
  <2>6. QED
    BY <1>3, <2>5, Zenon
<1>4. QED
  BY <1>2, <1>3

\* A creation adds one folder within reach, or two with a fault, and returns the last.
LEMMA CreatesOne ==
    ASSUME FoldersTypes, NEW created \in Folders, Creates(created)
    PROVE  /\ folders' \in Seq(BOOLEAN) /\ created = Len(folders')
           /\ Len(folders) < Len(folders') /\ Len(folders') <= MaxFolders
           /\ \A n \in 1..Len(folders) : folders'[n] = folders[n]
           /\ \A n \in 1..Len(folders') \ 1..Len(folders) : folders'[n]
           /\ ~duplicated' => ~duplicated /\ Len(folders') = Len(folders) + 1
           /\ driveFaults' \in Nat /\ duplicated' \in BOOLEAN
<1>1. folders \in Seq(BOOLEAN) /\ driveFaults \in Nat /\ duplicated \in BOOLEAN
  BY DEF FoldersTypes, FoldersTypeOK
<1>2. CASE folders' = Append(folders, TRUE) /\ created = Len(folders) + 1
           /\ UNCHANGED <<driveFaults, duplicated>>
  BY <1>1, <1>2, FolderBounds DEF Folders
<1>3. CASE folders' = folders \o <<TRUE, TRUE>> /\ created = Len(folders) + 2
           /\ driveFaults' = driveFaults + 1 /\ duplicated'
  <2>1. <<TRUE, TRUE>> \in Seq(BOOLEAN) /\ Len(<<TRUE, TRUE>>) = 2
        /\ <<TRUE, TRUE>>[1] /\ <<TRUE, TRUE>>[2]
    OBVIOUS
  <2>2. folders' \in Seq(BOOLEAN) /\ Len(folders') = Len(folders) + 2
    BY <1>1, <1>3, <2>1
  <2>3. \A n \in 1..Len(folders) : folders'[n] = folders[n]
    BY <1>1, <1>3, <2>1
  <2>4. folders'[Len(folders) + 1] /\ folders'[Len(folders) + 2]
    BY <1>1, <1>3, <2>1
  <2>5. Len(folders) \in Nat
    BY <1>1
  <2>6. \A n \in 1..Len(folders') \ 1..Len(folders) : n = Len(folders) + 1 \/ n = Len(folders) + 2
    BY <2>2, <2>5
  <2>7. \A n \in 1..Len(folders') \ 1..Len(folders) : folders'[n]
    BY <2>4, <2>6
  <2>8. QED
    BY <1>1, <1>3, <2>2, <2>3, <2>5, <2>7, FolderBounds DEF Folders
<1>4. QED
  BY <1>2, <1>3 DEF Creates

\* What a step that moves one upload does to the others.
LEMMA UploadMoved ==
    ASSUME FoldersTypes, NEW k \in Uploads, NEW state \in UploadState,
           upload' = [upload EXCEPT ![k] = state]
    PROVE  /\ upload' \in [Uploads -> UploadState]
           /\ upload'[k] = state
           /\ \A j \in Uploads \ {k} : upload'[j] = upload[j]
  BY DEF FoldersTypes, FoldersTypeOK, UploadState

\* An upload begins: it joins the resolution in flight, or is the one that resolves.
LEMMA StartUploadInv ==
    ASSUME FoldersIInv, NEW k \in Uploads, StartUpload(k)
    PROVE  FoldersIInv'
<1> USE DEF FoldersIInv
<1> DEFINE at == IF inFlight THEN "wait" ELSE "read"
           state == [upload[k] EXCEPT !.at = at]
<1>1. upload[k] \in UploadState /\ upload[k].at = "idle" /\ inFlight \in BOOLEAN
  BY DEF FoldersTypes, FoldersTypeOK, UploadState, StartUpload
<1>2. ~upload[k].repair
  BY <1>1 DEF ResolveInv
<1>3. upload' = [upload EXCEPT ![k] = state] /\ state \in UploadState
  BY <1>1 DEF StartUpload, Joins, UploadState
<1>4. /\ upload' \in [Uploads -> UploadState]
      /\ upload'[k] = state
      /\ \A j \in Uploads \ {k} : upload'[j] = upload[j]
  BY <1>3, UploadMoved
<1>5. upload'[k].at = at /\ ~upload'[k].repair
  BY <1>1, <1>2, <1>4 DEF UploadState
<1> HIDE DEF state
<1>6. /\ inFlight' = TRUE
      /\ attachCrossed' = (attachCrossed \/ ~AttachesIdle)
      /\ UNCHANGED <<folders, link, attach, filed, driveFaults, duplicated, removed, resetDone>>
  BY DEF StartUpload
<1>7. FoldersTypes'
  <2>1. FoldersTypeOK'
    BY <1>4, <1>6 DEF FoldersTypes, FoldersTypeOK, UploadState
  <2>2. \A j \in Uploads : upload'[j].at \in {"write", "reread", "send"} =>
            upload'[j].target \in 1..Len(folders')
    BY <1>4, <1>5, <1>6 DEF FoldersTypes
  <2>3. QED
    BY <1>6, <2>1, <2>2 DEF FoldersTypes
<1>8. ResolveInv'
  BY <1>4, <1>5, <1>6 DEF ResolveInv, Resolvers, Resolving
<1>9. AloneInv'
  BY <1>6 DEF AloneInv, AttachesIdle
<1>10. CreateInv'
  BY <1>4, <1>5, <1>6 DEF CreateInv
<1>11. LinkInv'
  BY <1>4, <1>5, <1>6 DEF LinkInv
<1>12. QED
  BY <1>7, <1>8, <1>9, <1>10, <1>11

\* The resolution ends: the upload and those that waited send to the same folder.
LEMMA ResolvedInv ==
    ASSUME FoldersIInv, NEW k \in Uploads, NEW target \in 1..Len(folders),
           upload[k].at \in {"read", "write", "reread"}, ~upload[k].repair,
           Resolved(k, target),
           UNCHANGED <<folders, attach, filed, driveFaults, duplicated, removed, attachCrossed,
                       resetDone>>,
           link' = target \/ (upload[k].at = "reread" /\ link = 0 /\ link' = 0),
           link # 0 => link' = link
    PROVE  FoldersIInv'
<1> USE DEF FoldersIInv
<1> DEFINE Sends(j) == j = k \/ upload[j].at = "wait"
<1>1. Len(folders) \in Nat /\ Len(folders) <= MaxFolders /\ link \in 0..Len(folders)
  BY DEF FoldersTypes, FoldersTypeOK
<1>2. \A j \in Uploads : Sends(j) =>
        upload'[j].at = "send" /\ upload'[j].target = target /\ upload'[j].repair = upload[j].repair
        /\ upload'[j] \in UploadState
  <2> SUFFICES ASSUME NEW j \in Uploads, Sends(j)
               PROVE  /\ upload'[j].at = "send" /\ upload'[j].target = target
                      /\ upload'[j].repair = upload[j].repair /\ upload'[j] \in UploadState
    OBVIOUS
  <2>1. upload'[j] = [upload[j] EXCEPT !.at = "send", !.target = target]
    BY DEF Resolved
  <2>2. upload[j] \in UploadState
    BY DEF FoldersTypes, FoldersTypeOK, UploadState
  <2>3. target \in 0..MaxFolders
    BY <1>1, FolderBounds
  <2>4. QED
    BY <2>1, <2>2, <2>3 DEF UploadState
<1>3. \A j \in Uploads : ~Sends(j) => upload'[j] = upload[j] /\ upload'[j] \in UploadState
  BY DEF Resolved, FoldersTypes, FoldersTypeOK, UploadState
<1>4. upload' \in [Uploads -> UploadState]
  <2>1. upload' = [j \in Uploads |-> upload'[j]]
    BY DEF Resolved
  <2>2. \A j \in Uploads : upload'[j] \in UploadState
    BY <1>2, <1>3
  <2>3. QED
    BY <2>1, <2>2
<1>5. inFlight' = FALSE /\ link' \in 0..Len(folders)
  <2>1. inFlight' = FALSE
    BY DEF Resolved
  <2>2. link' \in 0..Len(folders)
    BY <1>1
  <2>3. QED
    BY <2>1, <2>2
<1>6. \A j \in Uploads : upload[j].at = "wait" => ~upload[j].repair
  BY DEF ResolveInv
<1>7. \A j \in Uploads : Sends(j) => upload[j].at # "idle" /\ ~upload[j].repair
  BY <1>6
<1>8. \A j \in Uploads : upload'[j].at = "create" => upload[j].at = "create"
  BY <1>2, <1>3
<1> HIDE DEF Sends
<1>9. FoldersTypes'
  <2>1. FoldersTypeOK'
    BY <1>4, <1>5 DEF FoldersTypes, FoldersTypeOK, UploadState
  <2>2. \A j \in Uploads : upload'[j].at \in {"write", "reread", "send"} =>
            upload'[j].target \in 1..Len(folders')
    BY <1>2, <1>3 DEF FoldersTypes
  <2>3. QED
    BY <2>1, <2>2 DEF FoldersTypes
<1>10. ResolveInv'
  <2>1. k \in Resolvers
    BY DEF Resolvers, Resolving
  <2>2. \A j \in Uploads : ~(upload'[j].at \in Resolving /\ ~upload'[j].repair)
    <3> SUFFICES ASSUME NEW j \in Uploads, upload'[j].at \in Resolving, ~upload'[j].repair
                 PROVE  FALSE
      OBVIOUS
    <3>1. ~Sends(j)
      BY <1>2 DEF Resolving
    <3>2. j \in Resolvers
      BY <1>3, <3>1 DEF Resolvers
    <3>3. QED
      BY <2>1, <3>1, <3>2 DEF ResolveInv, Sends
  <2>3. Resolvers' = {}
    BY <2>2 DEF Resolvers
  <2>4. \A j \in Uploads : upload'[j].repair =>
            removed' /\ upload'[j].at \in {"search", "create", "write", "send"}
    BY <1>2, <1>3, <1>7 DEF ResolveInv
  <2>5. QED
    BY <2>3, <2>4 DEF ResolveInv
<1>11. AloneInv'
  BY DEF AloneInv, UploadsIdle
<1>12. CreateInv'
  BY <1>8 DEF CreateInv
<1>13. LinkInv'
  <2> SUFFICES ASSUME ~attachCrossed, ~removed, ~resetDone
               PROVE  /\ \A j \in Uploads : upload'[j].at \in {"send", "reread"} => link' # 0
                      /\ \A j \in Uploads : upload'[j].at = "send" => upload'[j].target = link'
                      /\ \A a \in Attaches : attach[a].at # "idle" => link' = 0
                      /\ filed \subseteq {link'} \ {0}
    BY DEF LinkInv
  <2>1. link' = target /\ link' # 0
    BY <1>1 DEF LinkInv
  <2>2. \A j \in Uploads : upload'[j].at = "send" => upload'[j].target = link'
    BY <1>2, <1>3, <2>1 DEF LinkInv
  <2>3. \A a \in Attaches : attach[a].at = "idle"
    BY DEF AloneInv, UploadsIdle
  <2>4. filed \subseteq {link'} \ {0}
    BY <2>1 DEF LinkInv
  <2>5. QED
    BY <2>1, <2>2, <2>3, <2>4
<1>14. QED
  BY <1>9, <1>10, <1>11, <1>12, <1>13

\* An upload that goes on by itself to its search or to its second reading of the link.
LEMMA OnwardInv ==
    ASSUME FoldersIInv, NEW k \in Uploads, NEW state \in UploadState,
           upload[k].at \in Resolving, state.repair = upload[k].repair,
           state.at \in Resolving,
           state.at = "reread" => link # 0 /\ ~state.repair,
           state.at = "read" => ~state.repair,
           state.at = "create" => Reachable = {},
           state.at \in {"write", "reread"} => state.target \in 1..Len(folders),
           upload' = [upload EXCEPT ![k] = state],
           UNCHANGED <<folders, link, inFlight, attach, filed, driveFaults, duplicated, removed,
                       attachCrossed, resetDone>>
    PROVE  FoldersIInv'
<1> USE DEF FoldersIInv
<1>1. /\ upload' \in [Uploads -> UploadState]
      /\ upload'[k] = state
      /\ \A j \in Uploads \ {k} : upload'[j] = upload[j]
  BY UploadMoved
<1>2. FoldersTypes'
  <2>1. FoldersTypeOK'
    BY <1>1 DEF FoldersTypes, FoldersTypeOK, UploadState
  <2>2. \A j \in Uploads : upload'[j].at \in {"write", "reread", "send"} =>
            upload'[j].target \in 1..Len(folders')
    BY <1>1 DEF FoldersTypes, Resolving
  <2>3. QED
    BY <2>1, <2>2 DEF FoldersTypes
<1>3. ResolveInv'
  <2>1. Resolvers' = Resolvers
    BY <1>1 DEF Resolvers
  <2>2. \A j \in Uploads : upload'[j].repair =>
            removed' /\ upload'[j].at \in {"search", "create", "write", "send"}
    BY <1>1 DEF ResolveInv, Resolving
  <2>3. QED
    BY <2>1, <2>2 DEF ResolveInv
<1>4. upload[k].at # "idle" /\ state.at # "send"
  BY DEF Resolving
<1>5. AloneInv'
  BY <1>4 DEF AloneInv, UploadsIdle
<1>6. CreateInv'
  <2> SUFFICES ASSUME ~attachCrossed, ~duplicated, ~removed, upload'[k].at = "create"
               PROVE  Len(folders) = 0
    BY <1>1 DEF CreateInv
  <2>1. Reachable = {} /\ \A n \in 1..Len(folders) : folders[n]
    BY <1>1 DEF ResolveInv
  <2>2. folders \in Seq(BOOLEAN) /\ Len(folders) \in Nat
    BY DEF FoldersTypes, FoldersTypeOK
  <2>3. 1 \notin 1..Len(folders)
    BY <2>1, <2>2 DEF Reachable
  <2>4. QED
    BY <2>2, <2>3
<1>7. LinkInv'
  BY <1>1, <1>4 DEF LinkInv
<1>8. QED
  BY <1>2, <1>3, <1>5, <1>6, <1>7

\* The upload reads the link, and stops there when it has one.
LEMMA ReadLinkInv ==
    ASSUME FoldersIInv, NEW k \in Uploads, ReadLink(k)
    PROVE  FoldersIInv'
<1>1. upload[k].at = "read" /\ upload[k] \in UploadState /\ link \in 0..Len(folders)
      /\ Len(folders) \in Nat
  BY DEF ReadLink, FoldersIInv, FoldersTypes, FoldersTypeOK, UploadState
<1>2. ~upload[k].repair
  BY <1>1 DEF FoldersIInv, ResolveInv
<1>3. CASE link # 0
  <2>1. link \in 1..Len(folders) /\ Resolved(k, link)
    BY <1>1, <1>3 DEF ReadLink
  <2>2. UNCHANGED <<folders, attach, filed, driveFaults, duplicated, removed,
                    attachCrossed, resetDone>>
    BY <1>3 DEF ReadLink
  <2>3. /\ upload[k].at \in {"read", "write", "reread"}
        /\ link' = link \/ (upload[k].at = "reread" /\ link = 0 /\ link' = 0)
        /\ link # 0 => link' = link
    BY <1>1 DEF ReadLink
  <2>4. QED
    BY <1>2, <2>1, <2>2, <2>3, ResolvedInv, Zenon
<1>4. CASE link = 0
  <2> DEFINE state == [upload[k] EXCEPT !.at = "search"]
  <2>1. /\ state \in UploadState /\ state.repair = upload[k].repair /\ state.at = "search"
        /\ upload' = [upload EXCEPT ![k] = state]
    BY <1>1, <1>4 DEF ReadLink, UploadState
  <2>2. UNCHANGED <<folders, link, inFlight, attach, filed, driveFaults, duplicated, removed,
                    attachCrossed, resetDone>>
    BY <1>4 DEF ReadLink
  <2> HIDE DEF state
  <2>3. QED
    BY <1>1, <2>1, <2>2, OnwardInv DEF Resolving
<1>5. QED
  BY <1>3, <1>4

\* The search finds the folder, or there is none within reach.
LEMMA SearchInv ==
    ASSUME FoldersIInv, NEW k \in Uploads, Search(k)
    PROVE  FoldersIInv'
<1> DEFINE at == IF Existing = 0 THEN "create" ELSE "write"
           state == [upload[k] EXCEPT !.at = at, !.target = Existing]
<1>1. /\ Len(folders) \in Nat /\ Len(folders) <= MaxFolders
      /\ upload[k].at = "search" /\ upload[k] \in UploadState
  BY DEF Search, FoldersIInv, FoldersTypes, FoldersTypeOK, UploadState
<1>2. Existing \in 0..Len(folders) /\ (Existing = 0 <=> Reachable = {})
  BY ExistingIsReachable DEF FoldersIInv
<1>3. Existing \in 0..MaxFolders
  BY <1>1, <1>2, FolderBounds
<1>4. /\ state \in UploadState /\ state.repair = upload[k].repair
      /\ state.at = at /\ state.target = Existing
  BY <1>1, <1>3 DEF UploadState
<1>5. upload' = [upload EXCEPT ![k] = state]
  BY DEF Search
<1>6. UNCHANGED <<folders, link, inFlight, attach, filed, driveFaults, duplicated, removed,
                  attachCrossed, resetDone>>
  BY DEF Search
<1>7. state.at = "write" => state.target \in 1..Len(folders)
  BY <1>1, <1>2, <1>4
<1>8. state.at = "create" => Reachable = {}
  BY <1>2, <1>4
<1>9. state.at \in {"create", "write"}
  BY <1>4
<1> HIDE DEF state
<1>10. QED
  BY <1>1, <1>4, <1>5, <1>6, <1>7, <1>8, <1>9, OnwardInv DEF Resolving

\* The folder is created: nobody has created one since the search, if attachments keep clear.
LEMMA CreateFolderInv ==
    ASSUME FoldersIInv, NEW k \in Uploads, CreateFolder(k)
    PROVE  FoldersIInv'
<1> USE DEF FoldersIInv
<1>1. PICK created \in Folders :
          /\ Creates(created)
          /\ upload' = [upload EXCEPT ![k].at = "write", ![k].target = created]
  BY DEF CreateFolder
<1> DEFINE state == [upload[k] EXCEPT !.at = "write", !.target = created]
<1>2. /\ upload[k].at = "create" /\ upload[k] \in UploadState
      /\ UNCHANGED <<link, inFlight, attach, filed, removed, attachCrossed, resetDone>>
  BY DEF CreateFolder, FoldersTypes, FoldersTypeOK, UploadState
<1>3. /\ folders' \in Seq(BOOLEAN) /\ created = Len(folders')
      /\ Len(folders) < Len(folders') /\ Len(folders') <= MaxFolders
      /\ \A n \in 1..Len(folders) : folders'[n] = folders[n]
      /\ \A n \in 1..Len(folders') \ 1..Len(folders) : folders'[n]
      /\ ~duplicated' => ~duplicated /\ Len(folders') = Len(folders) + 1
      /\ driveFaults' \in Nat /\ duplicated' \in BOOLEAN
  BY <1>1, CreatesOne
<1>4. Len(folders) \in Nat /\ Len(folders') \in Nat
  BY <1>3 DEF FoldersTypes, FoldersTypeOK
<1>5. created \in 1..Len(folders') /\ created \in 0..MaxFolders
  BY <1>3, <1>4, FolderBounds
<1>6. /\ state \in UploadState /\ state.repair = upload[k].repair
      /\ state.at = "write" /\ state.target = created
      /\ upload' = [upload EXCEPT ![k] = state]
  BY <1>1, <1>2, <1>5 DEF UploadState
<1> HIDE DEF state
<1>7. /\ upload' \in [Uploads -> UploadState]
      /\ upload'[k] = state
      /\ \A j \in Uploads \ {k} : upload'[j] = upload[j]
  BY <1>6, UploadMoved
<1>8. 1..Len(folders) \subseteq 1..Len(folders') /\ 0..Len(folders) \subseteq 0..Len(folders')
  BY <1>3, <1>4
<1>9. FoldersTypes'
  <2>1. link' \in 0..Len(folders') /\ filed' \subseteq 1..Len(folders')
    BY <1>2, <1>8 DEF FoldersTypes, FoldersTypeOK
  <2>2. FoldersTypeOK'
    BY <1>2, <1>3, <1>7, <2>1 DEF FoldersTypes, FoldersTypeOK, UploadState
  <2>3. \A j \in Uploads : upload'[j].at \in {"write", "reread", "send"} =>
            upload'[j].target \in 1..Len(folders')
    BY <1>5, <1>6, <1>7, <1>8 DEF FoldersTypes
  <2>4. \A a \in Attaches : attach'[a].at = "save" => attach'[a].target \in 1..Len(folders')
    BY <1>2, <1>8 DEF FoldersTypes
  <2>5. QED
    BY <1>2, <1>3, <2>1, <2>2, <2>3, <2>4 DEF FoldersTypes
<1>10. ResolveInv'
  <2>1. Resolvers' = Resolvers
    BY <1>2, <1>6, <1>7 DEF Resolvers, Resolving
  <2>2. \A j \in Uploads : upload'[j].repair =>
            removed' /\ upload'[j].at \in {"search", "create", "write", "send"}
    BY <1>2, <1>6, <1>7 DEF ResolveInv
  <2>3. removed' \/ \A n \in 1..Len(folders') : folders'[n]
    BY <1>2, <1>3 DEF ResolveInv
  <2>4. QED
    BY <1>2, <2>1, <2>2, <2>3 DEF ResolveInv
<1>11. AloneInv'
  BY <1>2 DEF AloneInv, UploadsIdle
<1>12. CreateInv'
  <2> SUFFICES ASSUME ~attachCrossed, ~duplicated', ~removed
               PROVE  /\ Len(folders') <= 1
                      /\ \A j \in Uploads : upload'[j].at # "create"
                      /\ \A a \in Attaches : attach[a].at # "create"
    BY <1>2 DEF CreateInv
  <2>1. Len(folders) = 0
    BY <1>2, <1>3 DEF CreateInv
  <2>2. \A j \in Uploads : upload[j].at = "create" => j = k
    BY <1>2 DEF ResolveInv, Resolvers, Resolving
  <2>3. \A a \in Attaches : attach[a].at = "idle"
    BY <1>2 DEF AloneInv, UploadsIdle
  <2>4. QED
    BY <1>3, <1>6, <1>7, <2>1, <2>2, <2>3
<1>13. LinkInv'
  BY <1>2, <1>6, <1>7 DEF LinkInv
<1>14. QED
  BY <1>9, <1>10, <1>11, <1>12, <1>13

\* The upload writes the link, if it has stayed empty or is to be repaired.
LEMMA WriteLinkInv ==
    ASSUME FoldersIInv, NEW k \in Uploads, WriteLink(k)
    PROVE  FoldersIInv'
<1>1. /\ upload[k].at = "write" /\ upload[k] \in UploadState
      /\ upload[k].target \in 1..Len(folders) /\ upload[k].target \in 0..MaxFolders
      /\ Len(folders) \in Nat
  BY DEF WriteLink, FoldersIInv, FoldersTypes, FoldersTypeOK, UploadState
<1>2. UNCHANGED <<folders, attach, filed, driveFaults, duplicated, removed, attachCrossed,
                  resetDone>>
  BY DEF WriteLink
<1>3. CASE link = 0 /\ ~upload[k].repair
  <2>1. link' = upload[k].target /\ Resolved(k, upload[k].target)
    BY <1>3 DEF WriteLink, MayWrite
  <2>2. /\ upload[k].at \in {"read", "write", "reread"}
        /\ link' = upload[k].target \/ (upload[k].at = "reread" /\ link = 0 /\ link' = 0)
        /\ link # 0 => link' = link
    BY <1>1, <1>3, <2>1
  <2>3. QED
    BY <1>1, <1>2, <1>3, <2>1, <2>2, ResolvedInv, Zenon
<1>4. CASE upload[k].repair
  <2> USE DEF FoldersIInv
  <2> DEFINE state == [upload[k] EXCEPT !.at = "send"]
  <2>1. link' = upload[k].target /\ UNCHANGED inFlight /\ removed
    BY <1>4 DEF WriteLink, MayWrite, ResolveInv
  <2>2. /\ state \in UploadState /\ state.repair = upload[k].repair
        /\ state.at = "send" /\ state.target = upload[k].target
        /\ upload' = [upload EXCEPT ![k] = state]
    BY <1>1, <1>4 DEF WriteLink, MayWrite, UploadState
  <2> HIDE DEF state
  <2>3. /\ upload' \in [Uploads -> UploadState]
        /\ upload'[k] = state
        /\ \A j \in Uploads \ {k} : upload'[j] = upload[j]
    BY <2>2, UploadMoved
  <2>4. FoldersTypes'
    <3>1. link' \in 0..Len(folders')
      BY <1>1, <1>2, <2>1
    <3>2. FoldersTypeOK'
      BY <1>2, <2>1, <2>3, <3>1 DEF FoldersTypes, FoldersTypeOK, UploadState
    <3>3. \A j \in Uploads : upload'[j].at \in {"write", "reread", "send"} =>
              upload'[j].target \in 1..Len(folders')
      BY <1>1, <1>2, <2>2, <2>3 DEF FoldersTypes
    <3>4. QED
      BY <1>2, <3>2, <3>3 DEF FoldersTypes
  <2>5. ResolveInv'
    <3>1. Resolvers' = Resolvers
      BY <1>4, <2>2, <2>3 DEF Resolvers
    <3>2. \A j \in Uploads : upload'[j].repair =>
              removed' /\ upload'[j].at \in {"search", "create", "write", "send"}
      BY <1>2, <2>1, <2>2, <2>3 DEF ResolveInv
    <3>3. QED
      BY <1>2, <2>1, <3>1, <3>2 DEF ResolveInv
  <2>6. AloneInv'
    BY <1>1, <1>2 DEF AloneInv, UploadsIdle
  <2>7. CreateInv' /\ LinkInv'
    BY <1>2, <2>1 DEF CreateInv, LinkInv
  <2>8. QED
    BY <2>4, <2>5, <2>6, <2>7
<1>5. CASE link # 0 /\ ~upload[k].repair
  <2> DEFINE state == [upload[k] EXCEPT !.at = "reread"]
  <2>1. /\ state \in UploadState /\ state.repair = upload[k].repair
        /\ state.at = "reread" /\ state.target = upload[k].target
        /\ upload' = [upload EXCEPT ![k] = state]
    BY <1>1, <1>5 DEF WriteLink, MayWrite, UploadState
  <2>2. UNCHANGED <<link, inFlight>>
    BY <1>5 DEF WriteLink, MayWrite
  <2> HIDE DEF state
  <2>3. QED
    BY <1>1, <1>2, <1>5, <2>1, <2>2, OnwardInv DEF Resolving
<1>6. QED
  BY <1>3, <1>4, <1>5

\* Another writer won, and the upload takes the folder it finds.
LEMMA RereadLinkInv ==
    ASSUME FoldersIInv, NEW k \in Uploads, RereadLink(k)
    PROVE  FoldersIInv'
<1> DEFINE target == IF link # 0 THEN link ELSE upload[k].target
<1>1. /\ upload[k].at = "reread" /\ link \in 0..Len(folders)
      /\ upload[k].target \in 1..Len(folders) /\ Len(folders) \in Nat
  BY DEF RereadLink, FoldersIInv, FoldersTypes, FoldersTypeOK
<1>2. ~upload[k].repair
  BY <1>1 DEF FoldersIInv, ResolveInv
<1>3. target \in 1..Len(folders) /\ (link # 0 => target = link)
  BY <1>1
<1>4. /\ Resolved(k, target)
      /\ UNCHANGED <<folders, attach, filed, driveFaults, duplicated, removed,
                     attachCrossed, resetDone>>
      /\ UNCHANGED link
  BY DEF RereadLink
<1> HIDE DEF target
<1>5. /\ upload[k].at \in {"read", "write", "reread"}
      /\ link' = target \/ (upload[k].at = "reread" /\ link = 0 /\ link' = 0)
      /\ link # 0 => link' = link
  BY <1>1, <1>3, <1>4
<1>6. QED
  BY <1>2, <1>3, <1>4, <1>5, ResolvedInv, Zenon

\* Drive refuses: the upload ends, with those that joined its resolution.
LEMMA UploadFailsInv ==
    ASSUME FoldersIInv, NEW k \in Uploads, UploadFails(k)
    PROVE  FoldersIInv'
<1> USE DEF FoldersIInv
<1> DEFINE Ends(j) == j = k \/ (~upload[k].repair /\ upload[j].at = "wait")
<1>1. /\ upload[k].at \in {"search", "create"}
      /\ inFlight' = (inFlight /\ upload[k].repair)
      /\ UNCHANGED <<folders, link, attach, filed, driveFaults, duplicated, removed,
                     attachCrossed, resetDone>>
  BY DEF UploadFails
<1>2. \A j \in Uploads : upload'[j] = (IF Ends(j) THEN IdleUpload ELSE upload[j])
  BY DEF UploadFails
<1>3. \A j \in Uploads : upload[j] \in UploadState
  BY DEF FoldersTypes, FoldersTypeOK, UploadState
<1>4. IdleUpload \in UploadState /\ IdleUpload.at = "idle" /\ ~IdleUpload.repair
  BY FolderBounds DEF IdleUpload, UploadState
<1>5. \A j \in Uploads : /\ upload'[j] \in UploadState
                         /\ Ends(j) => upload'[j].at = "idle" /\ ~upload'[j].repair
                         /\ ~Ends(j) => upload'[j] = upload[j]
  BY <1>2, <1>3, <1>4
<1>6. upload' \in [Uploads -> UploadState]
  <2>1. upload' = [j \in Uploads |-> upload'[j]]
    BY DEF UploadFails
  <2>2. QED
    BY <1>5, <2>1
<1>7. inFlight' \in BOOLEAN
  BY <1>1
<1>8. FoldersTypes'
  <2>1. FoldersTypeOK'
    BY <1>1, <1>6, <1>7 DEF FoldersTypes, FoldersTypeOK, UploadState
  <2>2. \A j \in Uploads : upload'[j].at \in {"write", "reread", "send"} =>
            upload'[j].target \in 1..Len(folders')
    BY <1>1, <1>5 DEF FoldersTypes
  <2>3. QED
    BY <1>1, <2>1, <2>2 DEF FoldersTypes
<1>9. ResolveInv'
  <2>1. Resolvers' \subseteq Resolvers \ {k}
    BY <1>5 DEF Resolvers, Resolving
  <2>2. Resolvers' # {} => inFlight'
    <3>1. ~upload[k].repair => k \in Resolvers
      BY <1>1 DEF Resolvers, Resolving
    <3>2. ~upload[k].repair => Resolvers' = {}
      BY <2>1, <3>1 DEF ResolveInv
    <3>3. QED
      BY <1>1, <2>1, <3>2 DEF ResolveInv
  <2>3. \A j \in Uploads : upload'[j].repair =>
            removed' /\ upload'[j].at \in {"search", "create", "write", "send"}
    BY <1>1, <1>5 DEF ResolveInv
  <2>4. QED
    BY <1>1, <2>1, <2>2, <2>3 DEF ResolveInv
<1>10. AloneInv'
  BY <1>1 DEF AloneInv, UploadsIdle
<1>11. CreateInv'
  BY <1>1, <1>5 DEF CreateInv
<1>12. LinkInv'
  BY <1>1, <1>5 DEF LinkInv
<1>13. QED
  BY <1>8, <1>9, <1>10, <1>11, <1>12

\* The file is stored in the folder, or the folder is gone and the upload repairs it once.
LEMMA SendFileInv ==
    ASSUME FoldersIInv, NEW k \in Uploads, SendFile(k)
    PROVE  FoldersIInv'
<1> USE DEF FoldersIInv
<1>1. /\ upload[k].at = "send" /\ upload[k] \in UploadState
      /\ upload[k].target \in 1..Len(folders)
      /\ UNCHANGED <<folders, link, inFlight, attach, driveFaults, duplicated, removed,
                     attachCrossed, resetDone>>
  BY DEF SendFile, FoldersTypes, FoldersTypeOK, UploadState
<1>2. IdleUpload \in UploadState /\ IdleUpload.at = "idle" /\ ~IdleUpload.repair
  BY FolderBounds DEF IdleUpload, UploadState
<1>3. PICK state \in UploadState :
          /\ upload' = [upload EXCEPT ![k] = state]
          /\ \/ state.at = "idle" /\ ~state.repair
             \/ state.at = "search" /\ state.repair /\ ~folders[upload[k].target]
          /\ \/ filed' = filed
             \/ filed' = filed \cup {upload[k].target}
  <2>1. CASE folders[upload[k].target]
    BY <1>2, <2>1 DEF SendFile
  <2>2. CASE ~folders[upload[k].target] /\ upload[k].repair
    BY <1>2, <2>2 DEF SendFile
  <2>3. CASE ~folders[upload[k].target] /\ ~upload[k].repair
    <3> DEFINE state == [upload[k] EXCEPT !.at = "search", !.repair = TRUE]
    <3>1. state \in UploadState /\ state.at = "search" /\ state.repair
      BY <1>1 DEF UploadState
    <3>2. upload' = [upload EXCEPT ![k] = state] /\ filed' = filed
      BY <2>3 DEF SendFile
    <3>3. QED
      BY <2>3, <3>1, <3>2
  <2>4. QED
    BY <2>1, <2>2, <2>3
<1>4. /\ upload' \in [Uploads -> UploadState]
      /\ upload'[k] = state
      /\ \A j \in Uploads \ {k} : upload'[j] = upload[j]
  BY <1>3, UploadMoved
<1>5. FoldersTypes'
  <2>1. filed' \subseteq 1..Len(folders') /\ filed' \subseteq Folders
    <3>1. Len(folders) \in Nat /\ Len(folders) <= MaxFolders /\ filed \subseteq 1..Len(folders)
      BY DEF FoldersTypes, FoldersTypeOK
    <3>2. 1..Len(folders) \subseteq Folders
      BY <3>1, FolderBounds DEF Folders
    <3>3. filed' \subseteq 1..Len(folders)
      BY <1>1, <1>3, <3>1
    <3>4. QED
      BY <1>1, <3>2, <3>3
  <2>2. FoldersTypeOK'
    BY <1>1, <1>4, <2>1 DEF FoldersTypes, FoldersTypeOK, UploadState
  <2>3. \A j \in Uploads : upload'[j].at \in {"write", "reread", "send"} =>
            upload'[j].target \in 1..Len(folders')
    BY <1>1, <1>3, <1>4 DEF FoldersTypes
  <2>4. QED
    BY <1>1, <2>1, <2>2, <2>3 DEF FoldersTypes
<1>6. ResolveInv'
  <2>1. Resolvers' = Resolvers
    BY <1>1, <1>3, <1>4 DEF Resolvers, Resolving
  <2>2. state.repair => removed
    BY <1>1, <1>3 DEF ResolveInv
  <2>3. \A j \in Uploads : upload'[j].repair =>
            removed' /\ upload'[j].at \in {"search", "create", "write", "send"}
    BY <1>1, <1>3, <1>4, <2>2 DEF ResolveInv
  <2>4. QED
    BY <1>1, <2>1, <2>3 DEF ResolveInv
<1>7. AloneInv'
  BY <1>1 DEF AloneInv, UploadsIdle
<1>8. CreateInv'
  BY <1>1, <1>3, <1>4 DEF CreateInv
<1>9. LinkInv'
  <2> SUFFICES ASSUME ~attachCrossed, ~removed, ~resetDone
               PROVE  LinkInv'
    BY <1>1 DEF LinkInv
  <2>1. link # 0 /\ upload[k].target = link
    BY <1>1 DEF LinkInv
  <2>2. filed' \subseteq {link} \ {0}
    BY <1>3, <2>1 DEF LinkInv
  <2>3. QED
    BY <1>1, <1>3, <1>4, <2>2 DEF LinkInv
<1>10. QED
  BY <1>5, <1>6, <1>7, <1>8, <1>9

----------------------------------------------------------------------------
(* The steps of an attachment, and the folder that goes.                   *)

\* What a step that moves one attachment does to the others.
LEMMA AttachMoved ==
    ASSUME FoldersTypes, NEW a \in Attaches, NEW state \in AttachState,
           attach' = [attach EXCEPT ![a] = state]
    PROVE  /\ attach' \in [Attaches -> AttachState]
           /\ attach'[a] = state
           /\ \A b \in Attaches \ {a} : attach'[b] = attach[b]
  BY DEF FoldersTypes, FoldersTypeOK, AttachState

\* A record begins to attach its folder; the reset mutations clear its link.
LEMMA StartAttachInv ==
    ASSUME FoldersIInv, NEW a \in Attaches, NEW reset \in BOOLEAN, StartAttach(a, reset)
    PROVE  FoldersIInv'
<1> USE DEF FoldersIInv
<1> DEFINE state == [attach[a] EXCEPT !.at = "search"]
<1>1. attach[a] \in AttachState /\ attach[a].at = "idle" /\ Len(folders) \in Nat
  BY DEF FoldersTypes, FoldersTypeOK, AttachState, StartAttach
<1>2. attach' = [attach EXCEPT ![a] = state] /\ state \in AttachState /\ state.at = "search"
  BY <1>1 DEF StartAttach, AttachState
<1> HIDE DEF state
<1>3. /\ attach' \in [Attaches -> AttachState]
      /\ attach'[a] = state
      /\ \A b \in Attaches \ {a} : attach'[b] = attach[b]
  BY <1>2, AttachMoved
<1>4. /\ link' = 0 /\ (reset \/ link = 0)
      /\ attachCrossed' = (attachCrossed \/ ~UploadsIdle \/ ~AttachesIdle)
      /\ resetDone' = (resetDone \/ reset)
      /\ UNCHANGED <<folders, inFlight, upload, filed, driveFaults, duplicated, removed>>
  BY DEF StartAttach
<1>5. FoldersTypes'
  <2>1. link' \in 0..Len(folders')
    BY <1>1, <1>4
  <2>2. FoldersTypeOK'
    BY <1>3, <1>4, <2>1 DEF FoldersTypes, FoldersTypeOK, AttachState
  <2>3. \A b \in Attaches : attach'[b].at = "save" => attach'[b].target \in 1..Len(folders')
    BY <1>2, <1>3, <1>4 DEF FoldersTypes
  <2>4. QED
    BY <1>4, <2>2, <2>3 DEF FoldersTypes
<1>6. ResolveInv'
  BY <1>4 DEF ResolveInv, Resolvers
<1>7. AloneInv'
  BY <1>3, <1>4 DEF AloneInv, UploadsIdle, AttachesIdle
<1>8. CreateInv'
  BY <1>2, <1>3, <1>4 DEF CreateInv
<1>9. LinkInv'
  BY <1>3, <1>4 DEF LinkInv, UploadsIdle
<1>10. QED
  BY <1>5, <1>6, <1>7, <1>8, <1>9

\* An attachment that goes on by itself, or ends without its folder.
LEMMA AttachOnwardInv ==
    ASSUME FoldersIInv, NEW a \in Attaches, NEW state \in AttachState,
           attach[a].at # "idle",
           attach' = [attach EXCEPT ![a] = state],
           state.at = "save" => state.target \in 1..Len(folders),
           state.at = "create" => Reachable = {},
           UNCHANGED <<folders, link, inFlight, upload, filed, driveFaults, duplicated, removed,
                       attachCrossed, resetDone>>
    PROVE  FoldersIInv'
<1> USE DEF FoldersIInv
<1>1. /\ attach' \in [Attaches -> AttachState]
      /\ attach'[a] = state
      /\ \A b \in Attaches \ {a} : attach'[b] = attach[b]
  BY AttachMoved
<1>2. FoldersTypes'
  <2>1. FoldersTypeOK'
    BY <1>1 DEF FoldersTypes, FoldersTypeOK, AttachState
  <2>2. \A b \in Attaches : attach'[b].at = "save" => attach'[b].target \in 1..Len(folders')
    BY <1>1 DEF FoldersTypes
  <2>3. QED
    BY <2>1, <2>2 DEF FoldersTypes
<1>3. ResolveInv'
  BY DEF ResolveInv, Resolvers
<1>4. AloneInv'
  BY <1>1 DEF AloneInv, UploadsIdle
<1>5. CreateInv'
  <2> SUFFICES ASSUME ~attachCrossed, ~duplicated, ~removed, attach'[a].at = "create"
               PROVE  Len(folders) = 0
    BY <1>1 DEF CreateInv
  <2>1. Reachable = {} /\ \A n \in 1..Len(folders) : folders[n]
    BY <1>1 DEF ResolveInv
  <2>2. folders \in Seq(BOOLEAN) /\ Len(folders) \in Nat
    BY DEF FoldersTypes, FoldersTypeOK
  <2>3. 1 \notin 1..Len(folders)
    BY <2>1, <2>2 DEF Reachable
  <2>4. QED
    BY <2>2, <2>3
<1>6. LinkInv'
  BY <1>1 DEF LinkInv
<1>7. QED
  BY <1>2, <1>3, <1>4, <1>5, <1>6

\* The record searches for its folder.
LEMMA AttachSearchInv ==
    ASSUME FoldersIInv, NEW a \in Attaches, AttachSearch(a)
    PROVE  FoldersIInv'
<1> DEFINE at == IF Existing = 0 THEN "create" ELSE "save"
           state == [attach[a] EXCEPT !.at = at, !.target = Existing]
<1>1. /\ Len(folders) \in Nat /\ Len(folders) <= MaxFolders
      /\ attach[a].at = "search" /\ attach[a] \in AttachState
  BY DEF AttachSearch, FoldersIInv, FoldersTypes, FoldersTypeOK, AttachState
<1>2. Existing \in 0..Len(folders) /\ (Existing = 0 <=> Reachable = {})
  BY ExistingIsReachable DEF FoldersIInv
<1>3. Existing \in 0..MaxFolders
  BY <1>1, <1>2, FolderBounds
<1>4. state \in AttachState /\ state.at = at /\ state.target = Existing
  BY <1>1, <1>3 DEF AttachState
<1>5. attach' = [attach EXCEPT ![a] = state]
  BY DEF AttachSearch
<1>6. UNCHANGED <<folders, link, inFlight, upload, filed, driveFaults, duplicated, removed,
                  attachCrossed, resetDone>>
  BY DEF AttachSearch
<1>7. state.at = "save" => state.target \in 1..Len(folders)
  BY <1>1, <1>2, <1>4
<1>8. state.at = "create" => Reachable = {}
  BY <1>2, <1>4
<1>9. attach[a].at # "idle"
  BY <1>1
<1> HIDE DEF state
<1>10. QED
  BY <1>4, <1>5, <1>6, <1>7, <1>8, <1>9, AttachOnwardInv

\* A failure is captured.
LEMMA AttachFailsInv ==
    ASSUME FoldersIInv, NEW a \in Attaches, AttachFails(a)
    PROVE  FoldersIInv'
<1>1. IdleAttach \in AttachState /\ IdleAttach.at = "idle"
  BY FolderBounds DEF IdleAttach, AttachState
<1>2. /\ attach[a].at # "idle" /\ attach' = [attach EXCEPT ![a] = IdleAttach]
      /\ UNCHANGED <<folders, link, inFlight, upload, filed, driveFaults, duplicated, removed,
                     attachCrossed, resetDone>>
  BY DEF AttachFails
<1>3. QED
  BY <1>1, <1>2, AttachOnwardInv

\* The record creates its folder: it is alone, if attachments keep clear.
LEMMA AttachCreateInv ==
    ASSUME FoldersIInv, NEW a \in Attaches, AttachCreate(a)
    PROVE  FoldersIInv'
<1> USE DEF FoldersIInv
<1>1. PICK created \in Folders :
          /\ Creates(created)
          /\ attach' = [attach EXCEPT ![a].at = "save", ![a].target = created]
  BY DEF AttachCreate
<1> DEFINE state == [attach[a] EXCEPT !.at = "save", !.target = created]
<1>2. /\ attach[a].at = "create" /\ attach[a] \in AttachState
      /\ UNCHANGED <<link, inFlight, upload, filed, removed, attachCrossed, resetDone>>
  BY DEF AttachCreate, FoldersTypes, FoldersTypeOK, AttachState
<1>3. /\ folders' \in Seq(BOOLEAN) /\ created = Len(folders')
      /\ Len(folders) < Len(folders') /\ Len(folders') <= MaxFolders
      /\ \A n \in 1..Len(folders) : folders'[n] = folders[n]
      /\ \A n \in 1..Len(folders') \ 1..Len(folders) : folders'[n]
      /\ ~duplicated' => ~duplicated /\ Len(folders') = Len(folders) + 1
      /\ driveFaults' \in Nat /\ duplicated' \in BOOLEAN
  BY <1>1, CreatesOne
<1>4. Len(folders) \in Nat /\ Len(folders') \in Nat
  BY <1>3 DEF FoldersTypes, FoldersTypeOK
<1>5. created \in 1..Len(folders') /\ created \in 0..MaxFolders
  BY <1>3, <1>4, FolderBounds
<1>6. /\ state \in AttachState /\ state.at = "save" /\ state.target = created
      /\ attach' = [attach EXCEPT ![a] = state]
  BY <1>1, <1>2, <1>5 DEF AttachState
<1> HIDE DEF state
<1>7. /\ attach' \in [Attaches -> AttachState]
      /\ attach'[a] = state
      /\ \A b \in Attaches \ {a} : attach'[b] = attach[b]
  BY <1>6, AttachMoved
<1>8. 1..Len(folders) \subseteq 1..Len(folders') /\ 0..Len(folders) \subseteq 0..Len(folders')
  BY <1>3, <1>4
<1>9. FoldersTypes'
  <2>1. link' \in 0..Len(folders') /\ filed' \subseteq 1..Len(folders')
    BY <1>2, <1>8 DEF FoldersTypes, FoldersTypeOK
  <2>2. FoldersTypeOK'
    BY <1>2, <1>3, <1>7, <2>1 DEF FoldersTypes, FoldersTypeOK, AttachState
  <2>3. \A j \in Uploads : upload'[j].at \in {"write", "reread", "send"} =>
            upload'[j].target \in 1..Len(folders')
    BY <1>2, <1>8 DEF FoldersTypes
  <2>4. \A b \in Attaches : attach'[b].at = "save" => attach'[b].target \in 1..Len(folders')
    BY <1>5, <1>6, <1>7, <1>8 DEF FoldersTypes
  <2>5. QED
    BY <1>2, <1>3, <2>1, <2>2, <2>3, <2>4 DEF FoldersTypes
<1>10. ResolveInv'
  <2>1. removed' \/ \A n \in 1..Len(folders') : folders'[n]
    BY <1>2, <1>3 DEF ResolveInv
  <2>2. QED
    BY <1>2, <2>1 DEF ResolveInv, Resolvers
<1>11. AloneInv'
  BY <1>2, <1>6, <1>7 DEF AloneInv, UploadsIdle
<1>12. CreateInv'
  <2> SUFFICES ASSUME ~attachCrossed, ~duplicated', ~removed
               PROVE  /\ Len(folders') <= 1
                      /\ \A j \in Uploads : upload[j].at # "create"
                      /\ \A b \in Attaches : attach'[b].at # "create"
    BY <1>2 DEF CreateInv
  <2>1. Len(folders) = 0
    BY <1>2, <1>3 DEF CreateInv
  <2>2. UploadsIdle /\ \A b \in Attaches \ {a} : attach[b].at = "idle"
    BY <1>2 DEF AloneInv
  <2>3. QED
    BY <1>3, <1>6, <1>7, <2>1, <2>2 DEF UploadsIdle
<1>13. LinkInv'
  BY <1>2, <1>6, <1>7 DEF LinkInv
<1>14. QED
  BY <1>9, <1>10, <1>11, <1>12, <1>13

\* The record is saved with its folder.
LEMMA AttachSaveInv ==
    ASSUME FoldersIInv, NEW a \in Attaches, AttachSave(a)
    PROVE  FoldersIInv'
<1> USE DEF FoldersIInv
<1>1. IdleAttach \in AttachState /\ IdleAttach.at = "idle"
  BY FolderBounds DEF IdleAttach, AttachState
<1>2. /\ attach[a].at = "save" /\ link' = attach[a].target
      /\ attach' = [attach EXCEPT ![a] = IdleAttach]
      /\ UNCHANGED <<folders, inFlight, upload, filed, driveFaults, duplicated, removed,
                     attachCrossed, resetDone>>
  BY DEF AttachSave
<1>3. /\ attach' \in [Attaches -> AttachState]
      /\ attach'[a] = IdleAttach
      /\ \A b \in Attaches \ {a} : attach'[b] = attach[b]
  BY <1>1, <1>2, AttachMoved
<1>4. link' \in 1..Len(folders) /\ Len(folders) \in Nat
  BY <1>2 DEF FoldersTypes, FoldersTypeOK
<1>5. link' \in 0..Len(folders) /\ link' # 0
  BY <1>4
<1>6. FoldersTypes'
  <2>1. FoldersTypeOK'
    BY <1>2, <1>3, <1>5 DEF FoldersTypes, FoldersTypeOK, AttachState
  <2>2. \A b \in Attaches : attach'[b].at = "save" => attach'[b].target \in 1..Len(folders')
    BY <1>1, <1>2, <1>3 DEF FoldersTypes
  <2>3. QED
    BY <1>2, <2>1, <2>2 DEF FoldersTypes
<1>7. ResolveInv'
  BY <1>2 DEF ResolveInv, Resolvers
<1>8. AloneInv'
  BY <1>1, <1>2, <1>3 DEF AloneInv, UploadsIdle
<1>9. CreateInv'
  BY <1>1, <1>2, <1>3 DEF CreateInv
<1>10. LinkInv'
  <2> SUFFICES ASSUME ~attachCrossed, ~removed, ~resetDone
               PROVE  LinkInv'
    BY <1>2 DEF LinkInv
  <2>1. UploadsIdle /\ \A b \in Attaches \ {a} : attach[b].at = "idle"
    BY <1>2 DEF AloneInv
  <2>2. link = 0 /\ filed = {}
    BY <1>2 DEF LinkInv
  <2>3. QED
    BY <1>1, <1>2, <1>3, <2>1, <2>2 DEF LinkInv, UploadsIdle
<1>11. QED
  BY <1>6, <1>7, <1>8, <1>9, <1>10

\* A folder is removed: from there on it is known.
LEMMA RemoveFolderInv ==
    ASSUME FoldersIInv, NEW n \in Folders, RemoveFolder(n)
    PROVE  FoldersIInv'
<1> USE DEF FoldersIInv
<1>1. /\ folders' = [folders EXCEPT ![n] = FALSE] /\ removed' /\ driveFaults' = driveFaults + 1
      /\ removed' = TRUE
      /\ UNCHANGED <<link, inFlight, upload, attach, filed, duplicated, attachCrossed, resetDone>>
  BY DEF RemoveFolder
<1>2. folders \in Seq(BOOLEAN) /\ n \in 1..Len(folders) /\ driveFaults \in Nat
  BY DEF RemoveFolder, Reachable, FoldersTypes, FoldersTypeOK
<1>3. folders' \in Seq(BOOLEAN) /\ Len(folders') = Len(folders)
  BY <1>1, <1>2
<1>4. FoldersTypes'
  <2>1. FoldersTypeOK'
    BY <1>1, <1>3 DEF FoldersTypes, FoldersTypeOK
  <2>2. QED
    BY <1>1, <1>2, <1>3, <2>1 DEF FoldersTypes
<1>5. ResolveInv'
  BY <1>1 DEF ResolveInv, Resolvers
<1>6. AloneInv'
  BY <1>1 DEF AloneInv, UploadsIdle
<1>7. CreateInv' /\ LinkInv'
  BY <1>1 DEF CreateInv, LinkInv
<1>8. QED
  BY <1>4, <1>5, <1>6, <1>7

----------------------------------------------------------------------------
(* Theorems.                                                               *)

\* The first state satisfies the invariant.
LEMMA FoldersInitInv == FoldersInit => FoldersIInv
<1> SUFFICES ASSUME FoldersInit PROVE FoldersIInv
  OBVIOUS
<1>1. IdleUpload \in UploadState /\ IdleUpload.at = "idle" /\ ~IdleUpload.repair
  BY FolderBounds DEF IdleUpload, UploadState
<1>2. IdleAttach \in AttachState /\ IdleAttach.at = "idle"
  BY FolderBounds DEF IdleAttach, AttachState
<1>3. /\ upload \in [Uploads -> UploadState] /\ \A k \in Uploads : upload[k] = IdleUpload
      /\ attach \in [Attaches -> AttachState] /\ \A a \in Attaches : attach[a] = IdleAttach
  BY <1>1, <1>2 DEF FoldersInit
<1>4. /\ folders \in Seq(BOOLEAN) /\ Len(folders) = 0
      /\ link = 0 /\ filed = {} /\ inFlight = FALSE /\ driveFaults = 0
      /\ duplicated = FALSE /\ removed = FALSE /\ attachCrossed = FALSE /\ resetDone = FALSE
  <2>1. folders = <<>>
    BY DEF FoldersInit
  <2>2. folders \in Seq(BOOLEAN) /\ Len(folders) = 0
    BY <2>1
  <2>3. QED
    BY <2>2 DEF FoldersInit
<1>5. FoldersTypeOK
  <2>1. link \in 0..Len(folders) /\ Len(folders) <= MaxFolders
    BY <1>4, FolderBounds
  <2>2. filed \subseteq Folders /\ inFlight \in BOOLEAN
    BY <1>4
  <2>3. QED
    BY <1>3, <1>4, <2>1, <2>2 DEF FoldersTypeOK, UploadState, AttachState
<1>6. FoldersTypes
  BY <1>1, <1>2, <1>3, <1>4, <1>5 DEF FoldersTypes
<1>7. Resolvers = {}
  BY <1>1, <1>3 DEF Resolvers, Resolving
<1>8. ResolveInv
  BY <1>1, <1>3, <1>4, <1>7 DEF ResolveInv
<1>9. AloneInv /\ CreateInv /\ LinkInv
  BY <1>1, <1>2, <1>3, <1>4 DEF AloneInv, CreateInv, LinkInv
<1>10. QED
  BY <1>6, <1>8, <1>9 DEF FoldersIInv

\* Every step keeps it.
LEMMA FoldersStepInv == FoldersIInv /\ [FoldersNext]_folderVars => FoldersIInv'
<1> SUFFICES ASSUME FoldersIInv, [FoldersNext]_folderVars PROVE FoldersIInv'
  OBVIOUS
<1>1. ASSUME NEW k \in Uploads, StartUpload(k) \/ UploadStep(k) PROVE FoldersIInv'
  BY <1>1, StartUploadInv, ReadLinkInv, SearchInv, CreateFolderInv, WriteLinkInv, RereadLinkInv,
     SendFileInv, UploadFailsInv, Zenon DEF UploadStep
<1>2. ASSUME NEW a \in Attaches, NEW reset \in BOOLEAN, StartAttach(a, reset) PROVE FoldersIInv'
  BY <1>2, StartAttachInv
<1>3. ASSUME NEW a \in Attaches,
             AttachSearch(a) \/ AttachCreate(a) \/ AttachSave(a) \/ AttachFails(a)
      PROVE  FoldersIInv'
  BY <1>3, AttachSearchInv, AttachCreateInv, AttachSaveInv, AttachFailsInv, Zenon
<1>4. ASSUME NEW n \in Folders, RemoveFolder(n) PROVE FoldersIInv'
  BY <1>4, RemoveFolderInv
<1>5. CASE UNCHANGED folderVars
  BY <1>5 DEF folderVars, FoldersIInv, FoldersTypes, FoldersTypeOK, ResolveInv, Resolvers,
      AloneInv, CreateInv, LinkInv, UploadsIdle
<1>6. QED
  BY <1>1, <1>2, <1>3, <1>4, <1>5, Zenon DEF FoldersNext

\* However many uploads and attachments run at once and whatever Drive answers: the
\* documents of an entity are in one folder, and there is one at all, as long as no
\* attachment overlaps anything, no folder goes and no answer is lost (resolveDiDriveTarget,
\* uploadDiDocToDrive).
THEOREM OneFolderKept == FoldersSpec => []FoldersInv
<1>1. FoldersIInv => FoldersInv
  <2> SUFFICES ASSUME FoldersIInv PROVE FoldersInv
    OBVIOUS
  <2>1. FoldersTypeOK /\ Len(folders) \in Nat /\ filed \subseteq 1..Len(folders)
    BY DEF FoldersIInv, FoldersTypes, FoldersTypeOK
  <2>2. OneFolder
    BY DEF FoldersIInv, CreateInv, OneFolder
  <2>3. ASSUME NEW n, filed \subseteq {n} PROVE Cardinality(filed) <= 1
    <3>1. IsFiniteSet({n}) /\ Cardinality({n}) = 1
      BY FS_Singleton
    <3>2. QED
      BY <2>3, <3>1, FS_Subset
  <2>4. DocsTogether
    <3> SUFFICES ASSUME ~attachCrossed, ~removed, ~(duplicated /\ resetDone)
                 PROVE  Cardinality(filed) <= 1
      BY DEF DocsTogether
    <3>1. CASE ~duplicated
      <4>1. Len(folders) <= 1
        BY <3>1, <2>2 DEF OneFolder
      <4>2. filed \subseteq {1}
        BY <2>1, <4>1
      <4>3. QED
        BY <2>3, <4>2
    <3>2. CASE ~resetDone
      <4>1. filed \subseteq {link}
        BY <3>2 DEF FoldersIInv, LinkInv
      <4>2. QED
        BY <2>3, <4>1
    <3>3. QED
      BY <3>1, <3>2
  <2>5. QED
    BY <2>1, <2>2, <2>4 DEF FoldersInv
<1>2. QED
  BY <1>1, FoldersInitInv, FoldersStepInv, PTL DEF FoldersSpec

\* An upload that finished resolving after another writer leaves its link: a link goes
\* from one folder to another only once a folder was removed, or by an attachment
\* (the write of resolveDiDriveTarget, filtered on an empty link).
THEOREM LinkIsKept == FoldersSpec => LinkKept
<1> DEFINE Kept == link # 0 /\ link' \notin {0, link} =>
                       removed \/ \E a \in Attaches : attach[a].at = "save"
<1>1. FoldersIInv /\ [FoldersNext]_folderVars => Kept
  <2> SUFFICES ASSUME FoldersIInv, [FoldersNext]_folderVars, link # 0, link' \notin {0, link},
                      ~removed
               PROVE  \E a \in Attaches : attach[a].at = "save"
    OBVIOUS
  <2>1. ASSUME NEW k \in Uploads, StartUpload(k) \/ UploadStep(k) PROVE FALSE
    <3>1. ~upload[k].repair
      BY DEF FoldersIInv, ResolveInv
    <3>2. ~WriteLink(k)
      BY <3>1 DEF WriteLink, MayWrite
    <3>3. QED
      BY <2>1, <3>2 DEF UploadStep, StartUpload, ReadLink, Search, CreateFolder, RereadLink,
        SendFile, UploadFails
  <2>2. ASSUME NEW a \in Attaches, NEW reset \in BOOLEAN, StartAttach(a, reset) PROVE FALSE
    BY <2>2 DEF StartAttach
  <2>3. ASSUME NEW a \in Attaches,
               AttachSearch(a) \/ AttachCreate(a) \/ AttachSave(a) \/ AttachFails(a)
        PROVE  attach[a].at = "save"
    BY <2>3 DEF AttachSearch, AttachCreate, AttachSave, AttachFails
  <2>4. ASSUME NEW n \in Folders, RemoveFolder(n) PROVE FALSE
    BY <2>4 DEF RemoveFolder
  <2>5. FoldersNext
    BY DEF folderVars
  <2>6. QED
    BY <2>1, <2>2, <2>3, <2>4, <2>5, Zenon DEF FoldersNext
<1>2. QED
  BY <1>1, FoldersInitInv, FoldersStepInv, PTL DEF FoldersSpec, LinkKept

(***************************************************************************)
(* The grant.                                                              *)
(***************************************************************************)

Holders == {0} \cup Clients
CallState == [at: {"idle", "read", "build", "send"}, token: 0..MaxTokens, client: Holders,
              tries: 0..(MaxAttempts - 1)]
FlowState == [at: {"idle", "url", "save", "reset"}, token: 0..MaxTokens]

\* The types, with the tokens and the clients that are in hand.
GrantTypes ==
    /\ issued \in 0..MaxTokens /\ valid \subseteq 1..issued
    /\ stored \in [token: 0..issued, status: {"NONE", "CONNECTED", "REAUTH_REQUIRED"}]
    /\ stored.token = 0 <=> stored.status = "NONE"
    /\ credential \in [Clients -> 0..MaxTokens]
    /\ cached \in [client: Holders, key: 0..MaxTokens]
    /\ held \in [Users -> Holders] /\ held["health"] = 0
    /\ gcall \in [GrantCalls -> CallState]
    /\ \A k \in GrantCalls : gcall[k].at = "send" => gcall[k].client \in Clients
    /\ pending \subseteq Effects /\ \A e \in pending : e.token <= issued
    /\ consent \in [GrantFlows -> FlowState]
    /\ \A f \in GrantFlows : consent[f].at = "save" => consent[f].token \in 1..issued
    /\ grantFaults \in 0..MaxGrantFaults

Saving(e) == e.do \in {"save", "repoint"}

\* A token on its way to the database is the one its client holds, and no other client
\* holds it.
SavingInv ==
    /\ \A e \in pending : Saving(e) => credential[e.client] = e.token
    /\ \A e, f \in pending : Saving(e) /\ Saving(f) /\ e.token = f.token => e.client = f.client

\* The key of the shared client is its token, or is about to be.
KeyInv == ~lost /\ cached.client # 0 =>
    \/ credential[cached.client] = cached.key
    \/ \E e \in pending : Saving(e) /\ e.client = cached.client

GrantIInv == GrantTypes /\ SavingInv /\ KeyInv

----------------------------------------------------------------------------
(* There is always a client free.                                          *)

\* The values of a function on a finite set.
LEMMA ValuesBounded ==
    ASSUME NEW S, IsFiniteSet(S), NEW f
    PROVE  /\ IsFiniteSet({f[x] : x \in S})
           /\ Cardinality({f[x] : x \in S}) <= Cardinality(S)
<1> DEFINE g == [x \in S |-> f[x]]
           T == {f[x] : x \in S}
<1>1. g \in Surjection(S, T)
  BY DEF Surjection
<1>2. QED
  BY <1>1, FS_Surjection

LEMMA UnionBounded ==
    ASSUME NEW S, IsFiniteSet(S), NEW T, IsFiniteSet(T)
    PROVE  /\ IsFiniteSet(S \cup T)
           /\ Cardinality(S \cup T) <= Cardinality(S) + Cardinality(T)
<1>1. IsFiniteSet(S \cup T) /\ Cardinality(S \cup T) =
          Cardinality(S) + Cardinality(T) - Cardinality(S \cap T)
  BY FS_Union
<1>2. IsFiniteSet(S \cap T)
  BY FS_Intersection
<1>3. Cardinality(S \cap T) \in Nat /\ Cardinality(S) \in Nat /\ Cardinality(T) \in Nat
  BY <1>2, FS_CardinalityType
<1>4. QED
  BY <1>1, <1>3

LEMMA UsersFinite == IsFiniteSet(Users) /\ Cardinality(Users) \in Nat
<1>1. IsFiniteSet({"drive"} \cup {"sheets"} \cup {"health"})
  BY FS_Singleton, FS_Union
<1>2. Users = {"drive"} \cup {"sheets"} \cup {"health"}
  BY DEF Users
<1>3. QED
  BY <1>1, <1>2, FS_CardinalityType

\* The clients whose token is being saved are no more than the tokens.
LEMMA SavingBounded ==
    ASSUME GrantTypes, SavingInv
    PROVE  LET T == {e.client : e \in {p \in pending : Saving(p)}}
           IN  IsFiniteSet(T) /\ Cardinality(T) <= MaxTokens
<1> DEFINE saved == {p \in pending : Saving(p)}
           tokens == {e.token : e \in saved}
           T == {e.client : e \in saved}
           f == [t \in tokens |-> CHOOSE c : \E e \in saved : e.token = t /\ e.client = c]
<1>1. \A e \in saved : e.token \in 1..MaxTokens
  BY DEF GrantTypes, Effects, Tokens, Saving
<1>2. IsFiniteSet(1..MaxTokens) /\ Cardinality(1..MaxTokens) = MaxTokens
  <2>1. /\ 1 \in Int /\ MaxTokens \in Int
        /\ (IF 1 > MaxTokens THEN 0 ELSE MaxTokens - 1 + 1) = MaxTokens
    BY GrantBounds
  <2>2. QED
    BY <2>1, FS_Interval
<1>3. IsFiniteSet(tokens) /\ Cardinality(tokens) <= MaxTokens
  <2>1. tokens \in SUBSET (1..MaxTokens)
    BY <1>1
  <2>2. QED
    BY <1>2, <2>1, FS_Subset
<1>4. \A e \in saved : f[e.token] = e.client
  <2> SUFFICES ASSUME NEW e \in saved PROVE f[e.token] = e.client
    OBVIOUS
  <2>1. \A c : (\E g \in saved : g.token = e.token /\ g.client = c) <=> c = e.client
    BY DEF SavingInv
  <2> HIDE DEF saved
  <2>2. (CHOOSE c : \E g \in saved : g.token = e.token /\ g.client = c) = e.client
    BY <2>1
  <2>3. e.token \in tokens
    OBVIOUS
  <2>4. QED
    BY <2>2, <2>3
<1>5. f \in Surjection(tokens, T)
  <2> HIDE DEF saved
  <2>1. \A t \in tokens : f[t] \in T
    <3> SUFFICES ASSUME NEW e \in saved PROVE f[e.token] \in T
      OBVIOUS
    <3>1. QED
      BY <1>4
  <2>2. \A c \in T : \E t \in tokens : f[t] = c
    <3> SUFFICES ASSUME NEW c \in T PROVE \E t \in tokens : f[t] = c
      OBVIOUS
    <3>1. PICK e \in saved : c = e.client
      OBVIOUS
    <3>2. e.token \in tokens /\ f[e.token] = c
      BY <1>4, <3>1
    <3> HIDE DEF tokens, f
    <3>3. QED
      BY <3>2
  <2>3. f = [t \in tokens |-> f[t]]
    OBVIOUS
  <2> HIDE DEF f
  <2>4. QED
    BY <2>1, <2>2, <2>3 DEF Surjection
<1> HIDE DEF f
<1>6. IsFiniteSet(T) /\ Cardinality(T) <= Cardinality(tokens)
  BY <1>3, <1>5, FS_Surjection
<1>7. Cardinality(T) \in Nat /\ Cardinality(tokens) \in Nat
  BY <1>3, <1>6, FS_CardinalityType
<1> HIDE DEF tokens
<1>8. IsFiniteSet(T) /\ Cardinality(T) <= MaxTokens
  BY <1>3, <1>6, <1>7, GrantBounds
<1>9. QED
  BY <1>8

LEMMA ClientFree ==
    ASSUME GrantTypes, SavingInv
    PROVE  \E c \in Clients : c \notin InUse
<1> DEFINE users == {held[u] : u \in Users}
           calls == {gcall[k].client : k \in GrantCalls}
           saving == {e.client : e \in {p \in pending : Saving(p)}}
           U == (users \cup calls) \cup saving
           W == U \cup {cached.client}
           N == 1 + Cardinality(Users) + Cardinality(GrantCalls) + MaxTokens
<1>1. IsFiniteSet(users) /\ Cardinality(users) <= Cardinality(Users)
  BY UsersFinite, ValuesBounded
<1>2. IsFiniteSet(calls) /\ Cardinality(calls) <= Cardinality(GrantCalls)
  <2> DEFINE g == [k \in GrantCalls |-> gcall[k].client]
  <2>1. calls = {g[k] : k \in GrantCalls}
    OBVIOUS
  <2> HIDE DEF g, calls
  <2>2. IsFiniteSet(GrantCalls)
    BY GrantBounds
  <2>3. IsFiniteSet({g[k] : k \in GrantCalls})
        /\ Cardinality({g[k] : k \in GrantCalls}) <= Cardinality(GrantCalls)
    BY <2>2, ValuesBounded
  <2>4. QED
    BY <2>1, <2>3
<1>3. IsFiniteSet(saving) /\ Cardinality(saving) <= MaxTokens
  BY SavingBounded
<1>4. 0 \in users
  BY DEF GrantTypes, Users
<1>5. InUse \subseteq W
  <2>1. \A e \in pending : ~Saving(e) => e.client = 0
    BY DEF GrantTypes, Effects, Saving
  <2>2. \A e \in pending : Saving(e) => e.client \in saving
    OBVIOUS
  <2> HIDE DEF saving, users, calls
  <2>3. \A e \in pending : e.client \in W
    BY <1>4, <2>1, <2>2
  <2>4. users \subseteq W /\ calls \subseteq W /\ cached.client \in W
    OBVIOUS
  <2> HIDE DEF W
  <2>5. QED
    BY <2>3, <2>4 DEF InUse, users, calls
<1> HIDE DEF users, calls, saving
<1>6. /\ IsFiniteSet(users \cup calls)
      /\ Cardinality(users \cup calls) <= Cardinality(users) + Cardinality(calls)
  BY <1>1, <1>2, UnionBounded
<1>7. IsFiniteSet(U) /\ Cardinality(U) <= Cardinality(users \cup calls) + Cardinality(saving)
  BY <1>3, <1>6, UnionBounded
<1>8. IsFiniteSet(W) /\ Cardinality(W) <= Cardinality(U) + 1
  <2>1. IsFiniteSet({cached.client}) /\ Cardinality({cached.client}) = 1
    BY FS_Singleton
  <2> HIDE DEF U
  <2>2. QED
    BY <1>7, <2>1, UnionBounded
<1>9. /\ Cardinality(users) \in Nat /\ Cardinality(calls) \in Nat /\ Cardinality(saving) \in Nat
      /\ Cardinality(users \cup calls) \in Nat /\ Cardinality(U) \in Nat /\ Cardinality(W) \in Nat
      /\ Cardinality(Users) \in Nat /\ Cardinality(GrantCalls) \in Nat
  BY <1>1, <1>2, <1>3, <1>6, <1>7, <1>8, UsersFinite, GrantBounds, FS_CardinalityType
<1>10. 0 \in W
  BY <1>4
<1> HIDE DEF U, W
<1>11. N \in Nat /\ Cardinality(W) <= N
  BY <1>1, <1>2, <1>3, <1>6, <1>7, <1>8, <1>9, GrantBounds
<1>12. Clients = 1..N
  BY DEF Clients
<1> HIDE DEF N
<1>13. SUFFICES ASSUME \A c \in Clients : c \in InUse PROVE FALSE
  OBVIOUS
<1>14. Clients \cup {0} \in SUBSET W
  BY <1>5, <1>10, <1>13
<1>15. IsFiniteSet(Clients) /\ Cardinality(Clients) = N
  <2>1. 1 \in Int /\ N \in Int /\ (IF 1 > N THEN 0 ELSE N - 1 + 1) = N
    BY <1>11
  <2>2. QED
    BY <1>12, <2>1, FS_Interval
<1>16. Cardinality(Clients \cup {0}) = N + 1
  <2>1. 0 \notin Clients
    BY <1>12
  <2>2. QED
    BY <1>15, <2>1, FS_AddElement
<1>17. Cardinality(Clients \cup {0}) <= Cardinality(W)
  BY <1>8, <1>14, FS_Subset
<1>18. QED
  BY <1>9, <1>11, <1>16, <1>17

----------------------------------------------------------------------------
(* The first state, and the steps.                                         *)

LEMMA GrantInitInv == GrantInit => GrantIInv
<1> SUFFICES ASSUME GrantInit PROVE GrantIInv
  OBVIOUS
<1>1. 0 \in 0..MaxTokens /\ 0 \in 0..MaxGrantFaults /\ 0 \in 0..0 /\ 0 \in 0..(MaxAttempts - 1)
  BY GrantBounds DEF MaxAttempts
<1>2. NoClient \in [client: Holders, key: 0..MaxTokens] /\ NoClient.client = 0
  BY <1>1 DEF NoClient, Holders
<1>3. IdleCall \in CallState /\ IdleCall.at # "send"
  BY <1>1 DEF IdleCall, CallState, Holders
<1>4. GrantTypes
  BY <1>1, <1>2, <1>3, GrantBounds DEF GrantInit, GrantTypes, Holders, FlowState, Users
<1>5. SavingInv /\ KeyInv
  BY <1>2 DEF GrantInit, SavingInv, KeyInv
<1>6. QED
  BY <1>4, <1>5 DEF GrantIInv

\* The key and the tokens being saved, when no client and no saving changes.
LEMMA KeyKept ==
    ASSUME SavingInv, KeyInv, UNCHANGED credential, cached' \in {cached, NoClient},
           \A e \in pending' : Saving(e) => e \in pending,
           ~lost' => ~lost /\ \A e \in pending : Saving(e) => e \in pending'
    PROVE  SavingInv' /\ KeyInv'
<1>1. SavingInv'
  BY DEF SavingInv, Saving
<1>2. KeyInv'
  <2>1. SUFFICES ASSUME ~lost', cached'.client # 0
                 PROVE  \/ credential'[cached'.client] = cached'.key
                        \/ \E e \in pending' : Saving(e) /\ e.client = cached'.client
    BY DEF KeyInv, Saving
  <2>2. cached' = cached
    BY <2>1 DEF NoClient
  <2>3. \/ credential[cached.client] = cached.key
        \/ \E e \in pending : Saving(e) /\ e.client = cached.client
    BY <2>1, <2>2 DEF KeyInv
  <2>4. QED
    BY <2>1, <2>2, <2>3
<1>3. QED
  BY <1>1, <1>2

LEMMA GrantFaultTyped ==
    ASSUME GrantTypes, GrantFault PROVE grantFaults' \in 0..MaxGrantFaults
  BY GrantBounds DEF GrantTypes, GrantFault

LEMMA EffectTyped ==
    \A d \in {"mark", "reset", "touch"} :
        Effect(d) \in Effects /\ Effect(d).token = 0 /\ ~Saving(Effect(d))
  BY DEF Effect, Effects, Saving

\* A call moves on, and starts at most a write of the row that saves no token.
LEMMA CallMoves ==
    ASSUME GrantIInv, NEW k \in GrantCalls, NEW state \in CallState,
           gcall' = [gcall EXCEPT ![k] = state], state.at = "send" => state.client \in Clients,
           held' \in {held, Dropped(UserOf(k))},
           NEW extra, extra \subseteq {"touch", "mark"},
           pending' = pending \cup {Effect(d) : d \in extra},
           grantFaults' \in 0..MaxGrantFaults,
           UNCHANGED <<issued, valid, stored, credential, cached, consent, lost>>
    PROVE  GrantIInv'
<1> USE DEF GrantIInv
<1>1. \A d \in extra : Effect(d) \in Effects /\ Effect(d).token = 0 /\ ~Saving(Effect(d))
  BY EffectTyped
<1>2. /\ \A e \in pending' : e \in pending \/ (e \in Effects /\ e.token = 0 /\ ~Saving(e))
      /\ \A e \in pending : e \in pending'
  BY <1>1
<1>3. held' \in [Users -> Holders] /\ held'["health"] = 0
  BY DEF GrantTypes, Dropped, Holders, Users
<1>4. /\ gcall' \in [GrantCalls -> CallState]
      /\ \A j \in GrantCalls : gcall'[j].at = "send" => gcall'[j].client \in Clients
  BY DEF GrantTypes
<1>5. GrantTypes'
  <2>1. pending' \subseteq Effects /\ \A e \in pending' : e.token <= issued'
    BY <1>2 DEF GrantTypes
  <2>2. QED
    BY <1>3, <1>4, <2>1 DEF GrantTypes
<1>6. SavingInv' /\ KeyInv'
  BY <1>2, KeyKept
<1>7. QED
  BY <1>5, <1>6

LEMMA CallTyped ==
    ASSUME GrantTypes, NEW k \in GrantCalls
    PROVE  /\ gcall[k] \in CallState /\ UserOf(k) \in Users
           /\ IdleCall \in CallState /\ IdleCall.at = "idle" /\ IdleCall.client = 0
           /\ gcall[k].at = "send" => gcall[k].client \in Clients
<1>1. 0 \in 0..(MaxAttempts - 1) /\ 0 \in 0..MaxTokens
  BY GrantBounds DEF MaxAttempts
<1>2. QED
  BY <1>1, GrantBounds DEF GrantTypes, IdleCall, CallState, Holders, UserOf, Users

LEMMA CallStepsInv ==
    ASSUME GrantIInv, NEW k \in GrantCalls,
           StartCall(k) \/ ReadToken(k) \/ Accepted(k) \/ Rejected(k) \/ Outage(k)
    PROVE  GrantIInv'
<1>1. /\ GrantTypes /\ gcall[k] \in CallState /\ UserOf(k) \in Users
      /\ IdleCall \in CallState /\ IdleCall.at = "idle" /\ IdleCall.client = 0
      /\ gcall[k].at = "send" => gcall[k].client \in Clients
  BY CallTyped DEF GrantIInv
<1>2. grantFaults \in 0..MaxGrantFaults /\ {Effect(d) : d \in {}} = {}
      /\ \A d : {Effect(c) : c \in {d}} = {Effect(d)}
  BY <1>1 DEF GrantTypes
<1>3. CASE StartCall(k)
  <2> DEFINE state == IF held[UserOf(k)] = 0 THEN [IdleCall EXCEPT !.at = "read"]
                      ELSE [IdleCall EXCEPT !.at = "send", !.client = held[UserOf(k)]]
  <2>1. held[UserOf(k)] \in Holders
    BY <1>1 DEF GrantTypes
  <2>2. state \in CallState /\ (state.at = "send" => state.client \in Clients)
    BY <1>1, <2>1 DEF CallState, Holders, IdleCall
  <2>3. /\ gcall' = [gcall EXCEPT ![k] = state] /\ held' = held /\ pending' = pending
        /\ UNCHANGED <<issued, valid, stored, credential, cached, consent, lost, grantFaults>>
    BY <1>3 DEF StartCall
  <2> HIDE DEF state
  <2>4. QED
    BY <1>2, <2>2, <2>3, CallMoves
<1>4. CASE ReadToken(k)
  <2> DEFINE state == IF stored.token = 0 THEN IdleCall
                      ELSE [gcall[k] EXCEPT !.at = "build", !.token = stored.token]
  <2>1. stored.token \in 0..MaxTokens
    BY <1>1, GrantBounds DEF GrantTypes
  <2>2. state \in CallState /\ state.at # "send"
    BY <1>1, <2>1 DEF CallState
  <2>3. /\ gcall' = [gcall EXCEPT ![k] = state] /\ held' = held /\ pending' = pending
        /\ UNCHANGED <<issued, valid, stored, credential, cached, consent, lost, grantFaults>>
    BY <1>4 DEF ReadToken
  <2> HIDE DEF state
  <2>4. QED
    BY <1>2, <2>2, <2>3, CallMoves
<1>5. CASE Accepted(k)
  <2>1. /\ gcall' = [gcall EXCEPT ![k] = IdleCall] /\ held' = held
        /\ pending' = pending \cup {Effect(d) : d \in {"touch"}}
        /\ UNCHANGED <<issued, valid, stored, credential, cached, consent, lost, grantFaults>>
    BY <1>2, <1>5 DEF Accepted
  <2>2. QED
    BY <1>1, <1>2, <2>1, CallMoves
<1>6. CASE Rejected(k)
  <2> DEFINE extra == IF Marks(UserOf(k)) THEN {"mark"} ELSE {}
  <2>1. /\ gcall' = [gcall EXCEPT ![k] = IdleCall] /\ held' = Dropped(UserOf(k))
        /\ pending' = pending \cup {Effect(d) : d \in extra}
        /\ UNCHANGED <<issued, valid, stored, credential, cached, consent, lost, grantFaults>>
    BY <1>2, <1>6 DEF Rejected
  <2>2. extra \subseteq {"touch", "mark"}
    OBVIOUS
  <2> HIDE DEF extra
  <2>3. QED
    BY <1>1, <1>2, <2>1, <2>2, CallMoves
<1>7. CASE Outage(k)
  <2> DEFINE state == IF gcall[k].tries + 1 < MaxAttempts /\ UserOf(k) # "health"
                      THEN [gcall[k] EXCEPT !.tries = @ + 1] ELSE IdleCall
  <2>1. state \in CallState /\ (state.at = "send" => state.client \in Clients)
    BY <1>1 DEF CallState, MaxAttempts
  <2>2. /\ gcall' = [gcall EXCEPT ![k] = state] /\ held' = held /\ pending' = pending
        /\ UNCHANGED <<issued, valid, stored, credential, cached, consent, lost>>
    BY <1>7 DEF Outage
  <2>3. grantFaults' \in 0..MaxGrantFaults
    BY <1>1, <1>7, GrantFaultTyped DEF Outage
  <2> HIDE DEF state
  <2>4. QED
    BY <1>2, <2>1, <2>2, <2>3, CallMoves
<1>8. QED
  BY <1>3, <1>4, <1>5, <1>6, <1>7

\* A client is built for the token read, or the shared one is taken again.
LEMMA BuildClientInv ==
    ASSUME GrantIInv, NEW k \in GrantCalls, BuildClient(k)
    PROVE  GrantIInv'
<1> USE DEF GrantIInv
<1> DEFINE token == gcall[k].token
           reuse == cached.client # 0 /\ cached.key = token
           client == IF reuse THEN cached.client ELSE CHOOSE c \in Clients : c \notin InUse
<1>1. /\ GrantTypes /\ gcall[k] \in CallState /\ UserOf(k) \in Users
  BY CallTyped
<1>2. token \in 0..MaxTokens /\ client \in Clients /\ (~reuse => client \notin InUse)
  <2>1. \E c \in Clients : c \notin InUse
    BY ClientFree
  <2>2. ~reuse => client \in Clients /\ client \notin InUse
    BY <2>1
  <2>3. reuse => client \in Clients
    BY DEF GrantTypes, Holders
  <2>4. QED
    BY <1>1, <2>2, <2>3 DEF CallState
<1>3. /\ credential' = [c \in Clients |-> IF c = client /\ ~reuse THEN token
                                          ELSE IF c \in InUse THEN credential[c] ELSE 0]
      /\ cached' = IF reuse THEN cached ELSE [client |-> client, key |-> token]
      /\ held' = IF UserOf(k) = "health" THEN held ELSE [held EXCEPT ![UserOf(k)] = client]
      /\ gcall' = [gcall EXCEPT ![k].at = "send", ![k].client = client]
      /\ UNCHANGED <<issued, valid, stored, pending, consent, grantFaults, lost>>
  BY DEF BuildClient
<1>4. /\ cached.client \in InUse
      /\ \A e \in pending : e.client \in InUse
  BY DEF InUse
<1>5. reuse => cached.client # 0 /\ client = cached.client
  OBVIOUS
<1> HIDE DEF token, client, reuse
<1>6. /\ \A c \in InUse : c \in Clients => credential'[c] = credential[c]
      /\ ~reuse => credential'[client] = token
  BY <1>2, <1>3
<1>7. GrantTypes'
  <2>1. credential' \in [Clients -> 0..MaxTokens]
    <3>1. \A c \in Clients : credential[c] \in 0..MaxTokens /\ 0 \in 0..MaxTokens
      BY GrantBounds DEF GrantTypes
    <3>2. QED
      BY <1>2, <1>3, <3>1
  <2>2. cached' \in [client: Holders, key: 0..MaxTokens]
    BY <1>2, <1>3 DEF GrantTypes, Holders
  <2>3. held' \in [Users -> Holders] /\ held'["health"] = 0
    BY <1>1, <1>2, <1>3 DEF GrantTypes, Holders, Users
  <2>4. /\ gcall' \in [GrantCalls -> CallState]
        /\ \A j \in GrantCalls : gcall'[j].at = "send" => gcall'[j].client \in Clients
    <3>1. gcall' = [gcall EXCEPT ![k] = [gcall[k] EXCEPT !.at = "send", !.client = client]]
      BY <1>1, <1>3 DEF GrantTypes
    <3>2. [gcall[k] EXCEPT !.at = "send", !.client = client] \in CallState
          /\ [gcall[k] EXCEPT !.at = "send", !.client = client].client = client
      BY <1>1, <1>2 DEF CallState, Holders
    <3>3. QED
      BY <1>2, <3>1, <3>2 DEF GrantTypes
  <2>5. QED
    BY <1>3, <2>1, <2>2, <2>3, <2>4 DEF GrantTypes
<1>8. SavingInv'
  <2>1. \A e \in pending : Saving(e) => e.client \in Clients
    BY DEF GrantTypes, Effects, Saving
  <2>2. QED
    BY <1>3, <1>4, <1>6, <2>1 DEF SavingInv, Saving
<1>9. KeyInv'
  <2>1. SUFFICES ASSUME ~lost', cached'.client # 0
                 PROVE  \/ credential'[cached'.client] = cached'.key
                        \/ \E e \in pending' : Saving(e) /\ e.client = cached'.client
    BY DEF KeyInv, Saving
  <2>2. CASE reuse
    <3>1. cached' = cached /\ cached.client \in Clients
      BY <1>2, <1>3, <1>5, <2>2
    <3>2. credential'[cached.client] = credential[cached.client]
      BY <1>4, <1>6, <3>1
    <3>3. QED
      BY <1>3, <2>1, <3>1, <3>2 DEF KeyInv
  <2>3. CASE ~reuse
    BY <1>3, <1>6, <2>3
  <2>4. QED
    BY <2>2, <2>3
<1>10. QED
  BY <1>7, <1>8, <1>9

\* Google gives the client another token: its save is started.
LEMMA RotatedInv ==
    ASSUME GrantIInv, NEW k \in GrantCalls, Rotated(k)
    PROVE  GrantIInv'
<1> USE DEF GrantIInv
<1> DEFINE client == gcall[k].client
           save == [do |-> "save", client |-> client, token |-> issued + 1]
<1>1. /\ GrantTypes /\ gcall[k] \in CallState /\ client \in Clients
      /\ IdleCall \in CallState /\ IdleCall.at = "idle"
  BY CallTyped DEF Rotated
<1>2. /\ issued < MaxTokens /\ issued' = issued + 1
      /\ \A e \in pending : e.client # client
      /\ valid' \subseteq valid \cup {issued + 1}
      /\ credential' = [credential EXCEPT ![client] = issued + 1]
      /\ pending' = pending \cup {Effect("touch"), save}
      /\ gcall' = [gcall EXCEPT ![k] = IdleCall]
      /\ UNCHANGED <<stored, cached, held, consent, grantFaults, lost>>
  BY DEF Rotated
<1>3. issued \in Nat /\ issued + 1 \in 1..MaxTokens /\ MaxTokens \in Nat
  BY <1>1, <1>2, GrantBounds DEF GrantTypes
<1>4. /\ save \in Effects /\ Saving(save) /\ save.client = client /\ save.token = issued + 1
      /\ Effect("touch") \in Effects /\ Effect("touch").token = 0 /\ ~Saving(Effect("touch"))
  <2>1. save \in Effects
    BY <1>1, <1>3 DEF Effects, Tokens
  <2>2. QED
    BY <2>1, EffectTyped DEF Saving
<1> HIDE DEF client, save
<1>5. GrantTypes'
  <2>1. /\ issued' \in 0..MaxTokens /\ valid' \subseteq 1..issued'
        /\ stored' \in [token: 0..issued', status: {"NONE", "CONNECTED", "REAUTH_REQUIRED"}]
        /\ stored'.token = 0 <=> stored'.status = "NONE"
    BY <1>1, <1>2, <1>3 DEF GrantTypes
  <2>2. credential' \in [Clients -> 0..MaxTokens]
    BY <1>1, <1>2, <1>3 DEF GrantTypes
  <2>3. /\ gcall' \in [GrantCalls -> CallState]
        /\ \A j \in GrantCalls : gcall'[j].at = "send" => gcall'[j].client \in Clients
    BY <1>1, <1>2 DEF GrantTypes
  <2>4. pending' \subseteq Effects /\ \A e \in pending' : e.token <= issued'
    <3>1. \A e \in pending : e.token \in Int /\ e.token <= issued
      BY <1>1 DEF GrantTypes, Effects, Tokens
    <3>2. QED
      BY <1>1, <1>2, <1>3, <1>4, <3>1 DEF GrantTypes
  <2>5. \A f \in GrantFlows : consent'[f].at = "save" => consent'[f].token \in 1..issued'
    BY <1>1, <1>2, <1>3 DEF GrantTypes
  <2>6. QED
    BY <1>1, <1>2, <2>1, <2>2, <2>3, <2>4, <2>5 DEF GrantTypes
<1>6. /\ \A e \in pending' : Saving(e) => e \in pending \/ e = save
      /\ \A e \in pending : e \in pending' /\ e.token # issued + 1
  <2>1. \A e \in pending : e.token \in Int /\ e.token <= issued
    BY <1>1 DEF GrantTypes, Effects, Tokens
  <2>2. QED
    BY <1>2, <1>3, <1>4, <2>1
<1>7. /\ credential'[client] = issued + 1
      /\ \A c : c # client => credential'[c] = credential[c]
  BY <1>1, <1>2 DEF GrantTypes
<1>8. SavingInv'
  <2>1. \A e \in pending' : Saving(e) => credential'[e.client] = e.token
    BY <1>2, <1>4, <1>6, <1>7 DEF SavingInv
  <2>2. \A e, f \in pending' : Saving(e) /\ Saving(f) /\ e.token = f.token => e.client = f.client
    BY <1>4, <1>6 DEF SavingInv
  <2>3. QED
    BY <2>1, <2>2 DEF SavingInv, Saving
<1>9. KeyInv'
  <2>1. SUFFICES ASSUME ~lost', cached'.client # 0
                 PROVE  \/ credential'[cached'.client] = cached'.key
                        \/ \E e \in pending' : Saving(e) /\ e.client = cached'.client
    BY DEF KeyInv, Saving
  <2>2. CASE cached.client = client
    BY <1>2, <1>4, <2>2
  <2>3. CASE cached.client # client
    BY <1>2, <1>6, <1>7, <2>1, <2>3 DEF KeyInv
  <2>4. QED
    BY <2>2, <2>3
<1>10. QED
  BY <1>5, <1>8, <1>9

\* A step of the database, of Google or of the operator: no call moves.
LEMMA GrantMoves ==
    ASSUME GrantIInv, issued' \in issued..MaxTokens, valid' \subseteq 1..issued',
           stored' \in [token: 0..issued', status: {"NONE", "CONNECTED", "REAUTH_REQUIRED"}],
           stored'.token = 0 <=> stored'.status = "NONE",
           cached' \in {cached, NoClient},
           pending' \subseteq Effects, \A e \in pending' : e.token <= issued',
           \A e \in pending' : Saving(e) => e \in pending,
           ~lost' => ~lost /\ \A e \in pending : Saving(e) => e \in pending',
           consent' \in [GrantFlows -> FlowState],
           \A f \in GrantFlows : consent'[f].at = "save" => consent'[f].token \in 1..issued',
           grantFaults' \in 0..MaxGrantFaults,
           UNCHANGED <<credential, held, gcall>>
    PROVE  GrantIInv'
<1> USE DEF GrantIInv
<1>1. issued' \in 0..MaxTokens
  BY GrantBounds DEF GrantTypes
<1>2. cached' \in [client: Holders, key: 0..MaxTokens]
  BY GrantBounds DEF GrantTypes, NoClient, Holders
<1>3. GrantTypes'
  BY <1>1, <1>2 DEF GrantTypes
<1>4. SavingInv' /\ KeyInv'
  BY KeyKept
<1>5. QED
  BY <1>3, <1>4

\* The types that a step leaving the tokens of Google alone keeps.
LEMMA GrantStays ==
    ASSUME GrantTypes
    PROVE  /\ issued \in Nat /\ issued \in issued..MaxTokens /\ MaxTokens \in Nat
           /\ valid \subseteq 1..issued
           /\ stored \in [token: 0..issued, status: {"NONE", "CONNECTED", "REAUTH_REQUIRED"}]
           /\ stored.token = 0 <=> stored.status = "NONE"
           /\ pending \subseteq Effects /\ (\A e \in pending : e.token <= issued)
           /\ consent \in [GrantFlows -> FlowState]
           /\ \A f \in GrantFlows : consent[f].at = "save" => consent[f].token \in 1..issued
           /\ grantFaults \in 0..MaxGrantFaults
  BY GrantBounds DEF GrantTypes

\* A write of the database, and what follows it.
LEMMA SettleInv ==
    ASSUME GrantIInv, NEW e \in pending, Settle(e)
    PROVE  GrantIInv'
<1> USE DEF GrantIInv
<1>1. GrantTypes /\ e \in Effects /\ e.token <= issued
  BY DEF GrantTypes
<1>2. UNCHANGED <<issued, valid, credential, held, gcall, consent, grantFaults, lost>>
  BY DEF Settle
<1>3. CASE e.do = "save"
  <2> DEFINE next == [e EXCEPT !.do = "repoint"]
  <2>1. /\ next \in Effects /\ next.token = e.token /\ next.client = e.client /\ Saving(next)
        /\ Saving(e) /\ e.token \in 1..MaxTokens
    BY <1>1, <1>3 DEF Effects, Saving, Tokens
  <2>2. /\ stored' = [token |-> e.token, status |-> "CONNECTED"]
        /\ pending' = (pending \ {e}) \cup {next}
        /\ cached' = cached
    BY <1>3 DEF Settle, AfterSave
  <2> HIDE DEF next
  <2>3. e.token \in 1..issued /\ issued \in Nat
    BY <1>1, <2>1, GrantBounds DEF GrantTypes
  <2>4. GrantTypes'
    <3>1. /\ stored' \in [token: 0..issued, status: {"NONE", "CONNECTED", "REAUTH_REQUIRED"}]
          /\ stored'.token = 0 <=> stored'.status = "NONE"
      BY <2>2, <2>3
    <3>2. pending' \subseteq Effects /\ \A f \in pending' : f.token <= issued
      BY <1>1, <2>1, <2>2 DEF GrantTypes
    <3>3. QED
      BY <1>2, <2>2, <3>1, <3>2 DEF GrantTypes
  <2>5. SavingInv'
    <3>1. \A f \in pending' : f \in pending \/ f = next
      BY <2>2
    <3>2. \A f \in pending' : Saving(f) => credential[f.client] = f.token
      BY <2>1, <3>1 DEF SavingInv
    <3>3. \A f, g \in pending' : Saving(f) /\ Saving(g) /\ f.token = g.token => f.client = g.client
      BY <2>1, <3>1 DEF SavingInv
    <3>4. QED
      BY <1>2, <3>2, <3>3 DEF SavingInv, Saving
  <2>6. KeyInv'
    <3>1. ASSUME NEW f \in pending, Saving(f)
          PROVE  \E g \in pending' : Saving(g) /\ g.client = f.client
      BY <2>1, <2>2, <3>1
    <3>2. QED
      BY <1>2, <2>2, <3>1 DEF KeyInv, Saving
  <2>7. QED
    BY <2>4, <2>5, <2>6
<1>4. CASE e.do = "repoint"
  <2>1. /\ cached' = [client |-> e.client, key |-> e.token] /\ pending' = pending \ {e}
        /\ stored' = stored
    BY <1>4 DEF Settle
  <2>2. Saving(e) /\ e.client \in Clients /\ e.token \in 1..MaxTokens
    BY <1>1, <1>4 DEF Saving, Effects, Tokens
  <2>3. GrantTypes'
    <3>1. cached' \in [client: Holders, key: 0..MaxTokens]
      BY <2>1, <2>2 DEF Holders
    <3>2. QED
      BY <1>2, <2>1, <3>1 DEF GrantTypes
  <2>4. SavingInv'
    BY <1>2, <2>1 DEF SavingInv, Saving
  <2>5. KeyInv'
    BY <1>2, <2>1, <2>2 DEF KeyInv, SavingInv
  <2>6. QED
    BY <2>3, <2>4, <2>5
<1>5. CASE e.do \in {"touch", "mark", "reset"}
  <2>1. /\ stored' = stored \/ \E status \in {"CONNECTED", "REAUTH_REQUIRED"} :
               stored.token # 0 /\ stored' = [stored EXCEPT !.status = status]
        /\ cached' \in {cached, NoClient}
        /\ pending' \in {pending \ {e}, (pending \ {e}) \cup {Effect("reset")}}
    <3>1. CASE e.do = "touch"
      BY <3>1 DEF Settle
    <3>2. CASE e.do = "mark"
      BY <3>2 DEF Settle
    <3>3. CASE e.do = "reset"
      BY <3>3 DEF Settle
    <3>4. QED
      BY <1>5, <3>1, <3>2, <3>3
  <2>2. Effect("reset") \in Effects /\ Effect("reset").token = 0 /\ ~Saving(Effect("reset"))
        /\ ~Saving(e)
    BY <1>5, EffectTyped DEF Saving
  <2>3. /\ \A f \in pending' : f \in Effects /\ f.token <= issued
        /\ \A f \in pending' : Saving(f) => f \in pending
        /\ \A f \in pending : Saving(f) => f \in pending'
    BY <1>1, <2>1, <2>2, GrantStays
  <2>4. /\ stored' \in [token: 0..issued, status: {"NONE", "CONNECTED", "REAUTH_REQUIRED"}]
        /\ stored'.token = 0 <=> stored'.status = "NONE"
    BY <1>1, <2>1, GrantStays
  <2>5. QED
    BY <1>1, <1>2, <2>1, <2>3, <2>4, GrantMoves, GrantStays
<1>6. QED
  BY <1>1, <1>3, <1>4, <1>5 DEF Effects

LEMMA WriteLostInv ==
    ASSUME GrantIInv, NEW e \in pending, WriteLost(e)
    PROVE  GrantIInv'
<1> USE DEF GrantIInv
<1>1. /\ UNCHANGED <<issued, valid, stored, credential, cached, held, gcall, consent>>
      /\ pending' \in {pending \ {e}, (pending \ {e}) \cup {Effect("reset")}}
      /\ lost' = (lost \/ e.do = "save") /\ e.do \in {"save", "touch", "mark"}
  BY DEF WriteLost
<1>2. grantFaults' \in 0..MaxGrantFaults
  BY GrantFaultTyped DEF WriteLost
<1>3. Effect("reset") \in Effects /\ Effect("reset").token = 0 /\ ~Saving(Effect("reset"))
  BY EffectTyped
<1>4. /\ \A f \in pending' : f \in Effects /\ f.token <= issued
      /\ \A f \in pending' : Saving(f) => f \in pending
  BY <1>1, <1>3, GrantStays
<1>5. ~lost' => ~lost /\ \A f \in pending : Saving(f) => f \in pending'
  BY <1>1 DEF Saving
<1>6. QED
  BY <1>1, <1>2, <1>4, <1>5, GrantMoves, GrantStays

LEMMA ConsentInv ==
    ASSUME GrantIInv, NEW f \in GrantFlows,
           MintState(f) \/ ExpireState(f) \/ Callback(f) \/ SaveConsent(f) \/ ResetClient(f)
    PROVE  GrantIInv'
<1> USE DEF GrantIInv
<1>1. /\ UNCHANGED <<credential, held, gcall, pending, grantFaults, lost>>
  BY DEF MintState, ExpireState, Callback, SaveConsent, ResetClient
<1>2. consent[f] \in FlowState /\ 0 \in 0..MaxTokens /\ issued \in Nat /\ MaxTokens \in Nat
  BY GrantBounds DEF GrantTypes
<1>3. CASE MintState(f) \/ ExpireState(f)
  <2>1. /\ UNCHANGED <<issued, valid, stored, cached>>
        /\ \E at \in {"url", "idle"} : consent' = [consent EXCEPT ![f].at = at]
    BY <1>3 DEF MintState, ExpireState
  <2>2. /\ consent' \in [GrantFlows -> FlowState]
        /\ \A g \in GrantFlows : consent'[g].at = "save" => consent'[g].token \in 1..issued
    BY <1>2, <2>1, GrantStays DEF FlowState
  <2>3. QED
    BY <1>1, <2>1, <2>2, GrantMoves, GrantStays
<1>4. CASE Callback(f)
  <2>1. CASE issued < MaxTokens
    <3>1. /\ issued' = issued + 1 /\ valid' = valid \cup {issued + 1}
          /\ consent' = [consent EXCEPT ![f] = [at |-> "save", token |-> issued + 1]]
          /\ UNCHANGED <<stored, cached>>
      BY <1>4, <2>1 DEF Callback
    <3>2. issued' \in issued..MaxTokens /\ issued + 1 \in 1..issued' /\ issued + 1 \in 0..MaxTokens
      BY <1>2, <2>1, <3>1
    <3>3. /\ consent' \in [GrantFlows -> FlowState]
          /\ \A g \in GrantFlows : consent'[g].at = "save" => consent'[g].token \in 1..issued'
      BY <1>2, <3>1, <3>2, GrantStays DEF FlowState
    <3>4. /\ valid' \subseteq 1..issued'
          /\ stored' \in [token: 0..issued', status: {"NONE", "CONNECTED", "REAUTH_REQUIRED"}]
          /\ stored'.token = 0 <=> stored'.status = "NONE"
      BY <1>2, <3>1, <3>2, GrantStays
    <3>5. \A e \in pending' : e.token <= issued'
      <4>1. \A e \in pending : e.token \in Int /\ e.token <= issued
        BY <1>2 DEF GrantTypes, Effects, Tokens
      <4>2. QED
        BY <1>1, <1>2, <3>1, <4>1
    <3>6. QED
      BY <1>1, <3>1, <3>2, <3>3, <3>4, <3>5, GrantMoves, GrantStays
  <2>2. CASE ~(issued < MaxTokens)
    <3>1. /\ UNCHANGED <<issued, valid, stored, cached>>
          /\ consent' = [consent EXCEPT ![f].at = "idle"]
      BY <1>4, <2>2 DEF Callback
    <3>2. /\ consent' \in [GrantFlows -> FlowState]
          /\ \A g \in GrantFlows : consent'[g].at = "save" => consent'[g].token \in 1..issued
      BY <1>2, <3>1, GrantStays DEF FlowState
    <3>3. QED
      BY <1>1, <3>1, <3>2, GrantMoves, GrantStays
  <2>3. QED
    BY <2>1, <2>2
<1>5. CASE SaveConsent(f)
  <2>1. /\ UNCHANGED <<issued, valid, cached>> /\ consent[f].at = "save"
        /\ stored' = [token |-> consent[f].token, status |-> "CONNECTED"]
        /\ consent' = [consent EXCEPT ![f].at = "reset"]
    BY <1>5 DEF SaveConsent
  <2>2. consent[f].token \in 1..issued
    BY <2>1, GrantStays
  <2>3. /\ consent' \in [GrantFlows -> FlowState]
        /\ \A g \in GrantFlows : consent'[g].at = "save" => consent'[g].token \in 1..issued
    BY <1>2, <2>1, GrantStays DEF FlowState
  <2>4. /\ stored' \in [token: 0..issued, status: {"NONE", "CONNECTED", "REAUTH_REQUIRED"}]
        /\ stored'.token = 0 <=> stored'.status = "NONE"
    BY <1>2, <2>1, <2>2
  <2>5. QED
    BY <1>1, <2>1, <2>3, <2>4, GrantMoves, GrantStays
<1>6. CASE ResetClient(f)
  <2>1. /\ UNCHANGED <<issued, valid, stored>> /\ cached' = NoClient
        /\ consent' = [consent EXCEPT ![f] = [at |-> "idle", token |-> 0]]
    BY <1>6 DEF ResetClient
  <2>2. /\ consent' \in [GrantFlows -> FlowState]
        /\ \A g \in GrantFlows : consent'[g].at = "save" => consent'[g].token \in 1..issued
    BY <1>2, <2>1, GrantStays DEF FlowState
  <2>3. QED
    BY <1>1, <2>1, <2>2, GrantMoves, GrantStays
<1>7. QED
  BY <1>3, <1>4, <1>5, <1>6

\* Google revokes a token, or the process starts again.
LEMMA OutsideInv ==
    ASSUME GrantIInv, RestartServer \/ \E t \in valid : Revoke(t)
    PROVE  GrantIInv'
<1> USE DEF GrantIInv
<1>1. ASSUME NEW t \in valid, Revoke(t) PROVE GrantIInv'
  <2>1. /\ UNCHANGED <<issued, stored, credential, cached, held, gcall, pending, consent, lost>>
        /\ valid' \subseteq valid
    BY <1>1 DEF Revoke
  <2>2. grantFaults' \in 0..MaxGrantFaults
    BY <1>1, GrantFaultTyped DEF Revoke
  <2>3. QED
    BY <2>1, <2>2, GrantMoves, GrantStays
<1>2. CASE RestartServer
  <2>1. grantFaults' \in 0..MaxGrantFaults
    BY <1>2, GrantFaultTyped DEF RestartServer
  <2>2. 0 \in 0..MaxTokens /\ 0 \in 0..(MaxAttempts - 1)
    BY GrantBounds DEF MaxAttempts
  <2>3. IdleCall \in CallState /\ IdleCall.at = "idle"
    BY <2>2 DEF IdleCall, CallState, Holders
  <2>4. GrantTypes'
    BY <1>2, <2>1, <2>2, <2>3 DEF RestartServer, GrantTypes, Holders, FlowState, NoClient, Users
  <2>5. SavingInv' /\ KeyInv'
    BY <1>2 DEF RestartServer, SavingInv, KeyInv
  <2>6. QED
    BY <2>4, <2>5
<1>3. QED
  BY <1>1, <1>2

LEMMA GrantStepInv == GrantIInv /\ [GrantNext]_grantVars => GrantIInv'
<1> SUFFICES ASSUME GrantIInv, [GrantNext]_grantVars PROVE GrantIInv'
  OBVIOUS
<1>1. CASE GrantNext
  <2>1. ASSUME NEW k \in GrantCalls,
               StartCall(k) \/ CallStep(k) \/ Rotated(k) \/ Outage(k)
        PROVE  GrantIInv'
    BY <2>1, CallStepsInv, BuildClientInv, RotatedInv DEF CallStep
  <2>2. ASSUME NEW e \in pending, Settle(e) \/ WriteLost(e) PROVE GrantIInv'
    BY <2>2, SettleInv, WriteLostInv
  <2>3. ASSUME NEW f \in GrantFlows,
               MintState(f) \/ ExpireState(f) \/ Callback(f) \/ ConsentStep(f)
        PROVE  GrantIInv'
    BY <2>3, ConsentInv DEF ConsentStep
  <2>4. QED
    BY <1>1, <2>1, <2>2, <2>3, OutsideInv DEF GrantNext
<1>2. CASE UNCHANGED grantVars
  BY <1>2 DEF grantVars, GrantIInv, GrantTypes, SavingInv, KeyInv
<1>3. QED
  BY <1>1, <1>2

\* However calls, rotations, consents and revocations overlap: with no write under way
\* and none lost, the key of the shared client is the token that the client holds
\* (buildClientWithRefreshToken, persistRotatedToken, resetClient), and the row has a
\* status exactly when it has a token.
THEOREM GrantInvariant == GrantSpec => []GrantInv
<1>1. GrantIInv => GrantInv
  <2> SUFFICES ASSUME GrantIInv PROVE GrantInv
    OBVIOUS
  <2>1. GrantTypeOK
    BY DEF GrantIInv, GrantTypes, GrantTypeOK, Holders, CallState, FlowState
  <2>2. SharedClientKeyed
    BY DEF GrantIInv, KeyInv, SharedClientKeyed
  <2>3. QED
    BY <2>1, <2>2 DEF GrantInv
<1>2. QED
  BY <1>1, GrantInitInv, GrantStepInv, PTL DEF GrantSpec

=============================================================================
