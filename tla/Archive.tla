------------------------------ MODULE Archive ------------------------------
(***************************************************************************)
(* The archived DIs (src/src/di-archive): their four documents and the     *)
(* completeness derived from them, the migration from a file, and the      *)
(* daily digest.  A request is cut between its reads and its writes.       *)
(***************************************************************************)
EXTENDS Naturals, Sequences, FiniteSets

CONSTANTS
    Editors,       \* the requests on archives in flight at once
    Migrations,    \* the imports of archives in flight at once
    DocTypes,      \* BC, BL, DEVIS, FACTURE in the code
    Origins,       \* the numbers of the register (refOrigine)
    MaxArchives,   \* bound on the archives
    MaxEdits,      \* bound on the requests of editors and the digests
    MigrationFiles,\* the files: sequences of rows [origin, ref]
    LastDay        \* bound on the days of the digest

ASSUME ArchiveBounds ==
    MaxArchives \in Nat /\ MaxEdits \in Nat /\ LastDay \in Nat /\ DocTypes # {}

VARIABLES
    archives,   \* the archives, oldest first
    editor,     \* editor[e]: a request on an archive
    migration,  \* migration[m]: an import of archives
    edits,      \* the requests and digests begun so far
    crossed,    \* history: crossed[i], two requests on archive i have overlapped
    day,        \* the day in Tunis
    snapshots,  \* snapshots[d]: the incomplete archives counted on day d, or NoCount
    digest,     \* a digest posted, whose snapshot is not written yet
    trends      \* history: what the digests have posted, [day, count, base]

archiveVars == <<archives, editor, migration, edits, crossed, day, snapshots,
                 digest, trends>>

Completeness == {"INCOMPLET", "COMPLET", "CLOTURE"}
RefValue == {"none", "dash", "text"}     \* dash: `_`, or `Sans`
NoOrigin == "none"
NoCount == MaxArchives + 1
Days == 0..LastDay

ArchiveDoc == [upload: SUBSET DocTypes, ref: [DocTypes -> RefValue],
               status: Completeness, origin: Origins \cup {NoOrigin}]
IdleEditor == [at |-> "idle", on |-> 0, fresh |-> "INCOMPLET"]
IdleMigration == [at |-> "idle", file |-> <<>>, todo |-> {}]

RegisterRow == [origin: Origins \cup {NoOrigin}, ref: [DocTypes -> RefValue]]
ASSUME MigrationRows == \A file \in MigrationFiles : file \in Seq(RegisterRow)

ArchiveTypeOK ==
    /\ archives \in Seq(ArchiveDoc)
    /\ editor \in [Editors -> [at: {"idle", "drive", "derive", "close"},
                               on: 0..MaxArchives, fresh: Completeness]]
    /\ \A m \in Migrations : migration[m].at \in {"idle", "rows", "over"}
    /\ edits \in 0..MaxEdits
    /\ snapshots \in [Days -> 0..NoCount]
    /\ digest \in 0..NoCount

ArchiveInit ==
    /\ archives = <<>>
    /\ editor = [e \in Editors |-> IdleEditor]
    /\ migration = [m \in Migrations |-> IdleMigration]
    /\ edits = 0
    /\ crossed = [i \in 1..MaxArchives |-> FALSE]
    /\ day = 0
    /\ snapshots = [d \in Days |-> NoCount]
    /\ digest = NoCount
    /\ trends = {}

----------------------------------------------------------------------------
(* Completeness.                                                           *)

\* docPresent: a file on Drive, or any text that is not blank.
\* Mutant of DocPresent: only the files count.
FilePresent(upload, ref, doc) == doc \in upload
DocPresent(upload, ref, doc) == doc \in upload \/ ref[doc] # "none"

ComputeCompletude(upload, ref) ==
    IF \A doc \in DocTypes : DocPresent(upload, ref, doc) THEN "COMPLET" ELSE "INCOMPLET"

\* isDocMissing, the rule of the digest: the text of the register alone, and a
\* dash is no reference.
DocMissing(archive, doc) == archive.ref[doc] # "text"

----------------------------------------------------------------------------
(* The requests on an archive.                                             *)

EditorMoves(e, state) == editor' = [editor EXCEPT ![e] = state]
ArchiveOnly == UNCHANGED <<migration, day, snapshots, digest, trends>>

EditBegins(e, i) ==
    /\ editor[e].at = "idle"
    /\ edits < MaxEdits
    /\ edits' = edits + 1
    /\ crossed' = [crossed EXCEPT ![i] =
                      @ \/ \E f \in Editors \ {e} : editor[f].at # "idle" /\ editor[f].on = i]

CreateArchive(origin, ref, status) ==
    archives' = Append(archives, [upload |-> {}, ref |-> ref, status |-> status,
                                  origin |-> origin])

\* createDiArchive, by hand: no reference of the register, INCOMPLET by default.
CreateManual ==
    /\ edits < MaxEdits
    /\ edits' = edits + 1
    /\ Len(archives) < MaxArchives
    /\ CreateArchive(NoOrigin, [d \in DocTypes |-> "none"], "INCOMPLET")
    /\ UNCHANGED <<editor, crossed>> /\ ArchiveOnly

\* uploadDoc: Drive first, and nothing is written when it fails.
UploadBegin(e, i) ==
    /\ EditBegins(e, i)
    /\ EditorMoves(e, [at |-> "drive", on |-> i, fresh |-> "INCOMPLET"])
    /\ UNCHANGED archives /\ ArchiveOnly

DriveFails(e) ==
    /\ editor[e].at = "drive"
    /\ EditorMoves(e, IdleEditor)
    /\ UNCHANGED <<archives, edits, crossed>> /\ ArchiveOnly

\* The document is set or cleared; the completeness is computed on the document
\* this write returns.
SetUpload(e, i, upload) ==
    /\ archives' = [archives EXCEPT ![i].upload = upload]
    /\ EditorMoves(e, [at |-> "derive", on |-> i,
                       fresh |-> ComputeCompletude(upload, archives[i].ref)])

UploadWrite(e, doc) ==
    /\ editor[e].at = "drive"
    /\ SetUpload(e, editor[e].on, archives[editor[e].on].upload \cup {doc})
    /\ UNCHANGED <<edits, crossed>> /\ ArchiveOnly

RemoveDoc(e, i, doc) ==
    /\ EditBegins(e, i)
    /\ SetUpload(e, i, archives[i].upload \ {doc})
    /\ ArchiveOnly

\* applyDerivedCompletude: filtered on a status that is not CLOTURE.
\* Mutant of Derivable: the filter is not there.
DerivableAlways(i) == TRUE
Derivable(i) == archives[i].status # "CLOTURE"

ApplyDerivedCompletude(e) ==
    /\ editor[e].at = "derive"
    /\ LET i == editor[e].on IN
       archives' = IF Derivable(i)
                   THEN [archives EXCEPT ![i].status = editor[e].fresh] ELSE archives
    /\ EditorMoves(e, IdleEditor)
    /\ UNCHANGED <<edits, crossed>> /\ ArchiveOnly

\* cloture: the status is read, then CLOTURE is written by id alone.
\* Mutant of Closable: any archive that is not closed.
ClosableAny(i) == archives[i].status # "CLOTURE"
Closable(i) == archives[i].status = "COMPLET"

ClotureRead(e, i) ==
    /\ EditBegins(e, i)
    /\ Closable(i)
    /\ EditorMoves(e, [at |-> "close", on |-> i, fresh |-> "COMPLET"])
    /\ UNCHANGED archives /\ ArchiveOnly

ClotureWrite(e) ==
    /\ editor[e].at = "close"
    /\ archives' = [archives EXCEPT ![editor[e].on].status = "CLOTURE"]
    /\ EditorMoves(e, IdleEditor)
    /\ UNCHANGED <<edits, crossed>> /\ ArchiveOnly

----------------------------------------------------------------------------
(* The migration from a file.                                              *)

KnownOrigins == {archives[i].origin : i \in DOMAIN archives}

\* A row whose number is twice in the file is an error, a known one is skipped.
RowsOnce(file) == {k \in DOMAIN file :
    \/ file[k].origin = NoOrigin
    \/ \A j \in DOMAIN file \ {k} : file[j].origin # file[k].origin}
RowsToCreate(file) == {k \in RowsOnce(file) : file[k].origin \notin KnownOrigins \ {NoOrigin}}

MigrateBegin(m, file) ==
    /\ migration[m].at = "idle"
    /\ migration' = [migration EXCEPT ![m] =
                         [at |-> "rows", file |-> file, todo |-> RowsToCreate(file)]]
    /\ UNCHANGED <<archives, editor, edits, crossed, day, snapshots, digest, trends>>

\* The partial unique index on refOrigine: a row taken meanwhile is an error of its
\* own, and the others go on.
\* Mutant of Indexed: there is no index.
NotIndexed(origin) == TRUE
Indexed(origin) == origin = NoOrigin \/ origin \notin KnownOrigins

\* The rows, one after another.
MigrateRow(m) ==
    /\ migration[m].at = "rows"
    /\ \E k \in migration[m].todo :
          /\ \A j \in migration[m].todo : k <= j
          /\ LET row == migration[m].file[k] IN
             \/ /\ Indexed(row.origin)
                /\ Len(archives) < MaxArchives
                /\ CreateArchive(row.origin, row.ref, ComputeCompletude({}, row.ref))
             \/ ~Indexed(row.origin) /\ UNCHANGED archives
          /\ migration' = [migration EXCEPT ![m].todo = @ \ {k}]
    /\ UNCHANGED <<editor, edits, crossed, day, snapshots, digest, trends>>

MigrateEnd(m) ==
    /\ migration[m].at = "rows"
    /\ migration[m].todo = {}
    /\ migration' = [migration EXCEPT ![m] = [at |-> "over", file |-> <<>>, todo |-> {}]]
    /\ UNCHANGED <<archives, editor, edits, crossed, day, snapshots, digest, trends>>

----------------------------------------------------------------------------
(* The digest of the day.                                                  *)

Incomplete == Cardinality({i \in DOMAIN archives :
                              \E doc \in DocTypes : DocMissing(archives[i], doc)})

\* The most recent snapshot before today.
\* Mutant of EarlierDays: the one of today counts too.
DaysSoFar == {d \in Days : d <= day /\ snapshots[d] # NoCount}
EarlierDays == {d \in Days : d < day /\ snapshots[d] # NoCount}
Latest(days) == IF days = {} THEN NoCount
                ELSE snapshots[CHOOSE d \in days : \A c \in days : c <= d]

DigestPost ==
    /\ digest = NoCount
    /\ edits < MaxEdits
    /\ edits' = edits + 1
    /\ digest' = Incomplete
    /\ trends' = trends \cup {[day |-> day, count |-> Incomplete, base |-> Latest(EarlierDays)]}
    /\ UNCHANGED <<archives, editor, migration, crossed, day, snapshots>>

DigestSave ==
    /\ digest # NoCount
    /\ snapshots' = [snapshots EXCEPT ![day] = digest]
    /\ digest' = NoCount
    /\ UNCHANGED <<archives, editor, migration, edits, crossed, day, trends>>

\* The digest runs well before midnight; the write may fail.
NewDay ==
    /\ day < LastDay
    /\ day' = day + 1
    /\ digest' = NoCount
    /\ UNCHANGED <<archives, editor, migration, edits, crossed, snapshots, trends>>

ArchiveEdit(e) ==
    \/ \E i \in DOMAIN archives :
          UploadBegin(e, i) \/ ClotureRead(e, i) \/ \E doc \in DocTypes : RemoveDoc(e, i, doc)
    \/ DriveFails(e) \/ ApplyDerivedCompletude(e) \/ ClotureWrite(e)
    \/ \E doc \in DocTypes : UploadWrite(e, doc)

ArchiveNext ==
    \/ CreateManual \/ DigestPost \/ DigestSave \/ NewDay
    \/ \E e \in Editors : ArchiveEdit(e)
    \/ \E m \in Migrations :
          MigrateRow(m) \/ MigrateEnd(m) \/ \E file \in MigrationFiles : MigrateBegin(m, file)

ArchiveSpec == ArchiveInit /\ [][ArchiveNext]_archiveVars

----------------------------------------------------------------------------
(* What the archives promise.                                              *)

\* The comment of applyDerivedCompletude: CLOTURE is terminal, a document added or
\* removed meanwhile never reopens an archive.
ClosedStays ==
    \A i \in DOMAIN archives : archives[i].status = "CLOTURE" =>
        archives'[i].status = "CLOTURE"

AllDocsThere(archive) ==
    \A doc \in DocTypes : doc \in archive.upload \/ archive.ref[doc] # "none"
AtRest(i) == \A e \in Editors : editor[e].at # "idle" => editor[e].on # i

\* As long as no two requests on an archive have overlapped, its status at rest is
\* the one its documents give: COMPLET exactly when all are there, and an archive
\* made by hand is never COMPLET without its documents.
StatusFollowsDocs ==
    \A i \in DOMAIN archives : ~crossed[i] /\ AtRest(i) /\ archives[i].status # "CLOTURE" =>
        (archives[i].status = "COMPLET") <=> AllDocsThere(archives[i])

\* Nor is one closed without its documents, unless requests have overlapped or a
\* document is removed once it is closed.
ClosedOnlyComplete ==
    \A i \in DOMAIN archives :
        ~crossed[i] /\ archives[i].status # "CLOTURE" /\ archives'[i].status = "CLOTURE" =>
            AllDocsThere(archives[i])

\* However many migrations overlap or are played again, a number of the register
\* has one archive.
OneArchivePerOrigin ==
    \A i, k \in DOMAIN archives :
        i # k /\ archives[i].origin = archives[k].origin => archives[i].origin = NoOrigin

\* A digest played again the same day compares with the same earlier day: the
\* trend it posts only moves with the count.
TrendAgainstEarlierDay ==
    \A p, q \in trends : p.day = q.day => p.base = q.base

\* The archives: a status that follows the documents, one archive for a number, one trend a day.
ArchiveInv ==
    /\ ArchiveTypeOK /\ StatusFollowsDocs /\ OneArchivePerOrigin
    /\ TrendAgainstEarlierDay
=============================================================================
