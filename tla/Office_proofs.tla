--------------------------- MODULE Office_proofs ---------------------------
(***************************************************************************)
(* Theorems about the components of the office: the archives of paper DIs  *)
(* (Archive), the morning job on stagnant DIs (Stagnation), the companies  *)
(* and their import (Companies) and the minutes with their Jira actions    *)
(* (MeetingActions), for any number of documents, requests and runs.       *)
(***************************************************************************)
EXTENDS Companies, Archive, MeetingActions, Stagnation, FiniteSetTheorems, SequenceTheorems,
        WellFoundedInduction, TLAPS

(***************************************************************************)
(* The archives.                                                           *)
(***************************************************************************)

EditorState == [at: {"idle", "drive", "derive", "close"}, on: 0..MaxArchives,
                fresh: {"INCOMPLET", "COMPLET"}]

\* The types, with what a request or a migration has in hand.
ArchiveTypes ==
    /\ ArchiveTypeOK
    /\ editor \in [Editors -> EditorState]
    /\ Len(archives) <= MaxArchives
    /\ \A e \in Editors : editor[e].at # "idle" => editor[e].on \in 1..Len(archives)
    /\ crossed \in [1..MaxArchives -> BOOLEAN]
    /\ migration \in [Migrations -> [at: {"idle", "rows", "over"}, file: Seq(RegisterRow),
                                     todo: SUBSET Nat]]
    /\ \A m \in Migrations : migration[m].todo \subseteq DOMAIN migration[m].file
    /\ day \in Days

\* A request on an archive nobody else works on.
Sole(i) == \A e, f \in Editors :
    editor[e].at # "idle" /\ editor[f].at # "idle" /\ editor[e].on = i /\ editor[f].on = i => e = f
Deriving(i) == \E e \in Editors : editor[e].at = "derive" /\ editor[e].on = i

\* Requests on an archive that has not been crossed are alone on it; its status is the
\* one of its documents, or the one of the request that is about to write it is; and it
\* is about to be closed with its documents.
DerivedAt(i) == ~crossed[i] =>
    /\ Sole(i)
    /\ ~Deriving(i) /\ archives[i].status # "CLOTURE" =>
          (archives[i].status = "COMPLET" <=> AllDocsThere(archives[i]))
    /\ \A e \in Editors : editor[e].at = "derive" /\ editor[e].on = i =>
          (editor[e].fresh = "COMPLET" <=> AllDocsThere(archives[i]))
    /\ \A e \in Editors : editor[e].at = "close" /\ editor[e].on = i =>
          AllDocsThere(archives[i])
DerivedInv == \A i \in DOMAIN archives : DerivedAt(i)

\* The trends of today were taken against the last snapshot before today.
TrendInv ==
    /\ \A p \in trends : p.day \in Days /\ p.day <= day
    /\ \A p \in trends : p.day = day => p.base = Latest(EarlierDays)
    /\ TrendAgainstEarlierDay

ArchiveIInv == ArchiveTypes /\ DerivedInv /\ OneArchivePerOrigin /\ TrendInv

----------------------------------------------------------------------------
(* Helpers.                                                                *)

\* A non-empty set of days has a last one.
LEMMA HasLast ==
    ASSUME NEW n \in Nat, NEW T, T \subseteq 0..n, T # {}
    PROVE  \E x \in T : \A y \in T : y <= x
<1> DEFINE mirror == {n - y : y \in T}
<1>1. mirror \subseteq Nat /\ mirror # {}
  <2>1. \A y \in T : n - y \in Nat
    OBVIOUS
  <2>2. QED
    BY <2>1
<1>2. PICK low \in mirror : \A y \in mirror : ~(<<y, low>> \in OpToRel(<, Nat))
  BY <1>1, NatLessThanWellFounded, WFMin, Zenon
<1>3. \A y \in mirror : y < low => <<y, low>> \in OpToRel(<, Nat)
  BY <1>1, Zenon DEF OpToRel
<1>4. \A y \in mirror : ~(y < low)
  BY <1>2, <1>3, Zenon
<1>5. PICK x \in T : low = n - x
  BY DEF mirror
<1>6. ASSUME NEW y \in T PROVE y <= x
  <2>1. n - y \in mirror
    OBVIOUS
  <2>2. ~(n - y < n - x)
    BY <1>4, <1>5, <2>1
  <2>3. x \in Int /\ y \in Int /\ n \in Int
    OBVIOUS
  <2>4. QED
    BY <2>2, <2>3
<1>7. QED
  BY <1>6

\* The digest counts archives.
LEMMA IncompleteCounts ==
    ASSUME ArchiveTypes
    PROVE  Incomplete \in 0..MaxArchives
<1> DEFINE missing == {i \in DOMAIN archives : \E doc \in DocTypes : DocMissing(archives[i], doc)}
<1>1. Len(archives) \in Nat /\ Len(archives) <= MaxArchives /\ DOMAIN archives = 1..Len(archives)
  BY DEF ArchiveTypes, ArchiveTypeOK
<1>2. IsFiniteSet(1..Len(archives)) /\ Cardinality(1..Len(archives)) = Len(archives)
  <2>1. /\ 1 \in Int /\ Len(archives) \in Int
        /\ (IF 1 > Len(archives) THEN 0 ELSE Len(archives) - 1 + 1) = Len(archives)
    BY <1>1
  <2>2. QED
    BY <2>1, FS_Interval
<1>3. missing \in SUBSET (1..Len(archives))
  BY <1>1
<1>4. IsFiniteSet(missing) /\ Cardinality(missing) <= Len(archives)
  BY <1>2, <1>3, FS_Subset
<1>5. Cardinality(missing) \in Nat
  BY <1>4, FS_CardinalityType
<1> HIDE DEF missing
<1>6. Cardinality(missing) \in 0..MaxArchives
  BY <1>1, <1>4, <1>5, ArchiveBounds
<1>7. QED
  BY <1>6 DEF missing, Incomplete

\* The completeness computed is COMPLET when all the documents are there.
LEMMA CompletudeOfDocs ==
    ASSUME NEW archive, NEW upload, NEW ref, archive.upload = upload, archive.ref = ref
    PROVE  /\ ComputeCompletude(upload, ref) \in Completeness \ {"CLOTURE"}
           /\ ComputeCompletude(upload, ref) = "COMPLET" <=> AllDocsThere(archive)
  BY DEF ComputeCompletude, DocPresent, AllDocsThere, Completeness

\* What a request has computed is one of the completenesses.
LEMMA EditorsTyped ==
    ASSUME NEW editors \in [Editors -> EditorState]
    PROVE  editors \in [Editors -> [at: {"idle", "drive", "derive", "close"},
                                   on: 0..MaxArchives, fresh: Completeness]]
<1>1. EditorState \subseteq [at: {"idle", "drive", "derive", "close"},
                             on: 0..MaxArchives, fresh: Completeness]
  BY DEF EditorState, Completeness
<1>2. QED
  BY <1>1

\* What a step that moves one request does to the others.
LEMMA EditorMoved ==
    ASSUME ArchiveTypes, NEW e \in Editors, NEW state \in EditorState, EditorMoves(e, state)
    PROVE  /\ editor' \in [Editors -> EditorState]
           /\ editor'[e] = state
           /\ \A f \in Editors \ {e} : editor'[f] = editor[f]
  BY DEF EditorMoves, ArchiveTypes, ArchiveTypeOK, EditorState

\* An archive that a step and its request leave alone.
LEMMA OtherArchive ==
    ASSUME NEW j, DerivedAt(j), archives'[j] = archives[j], crossed'[j] = crossed[j],
           \A f \in Editors : \/ editor'[f] = editor[f]
                              \/ /\ editor[f].at = "idle" \/ editor[f].on # j
                                 /\ editor'[f].at = "idle" \/ editor'[f].on # j
    PROVE  DerivedAt(j)'
<1>1. Sole(j) => Sole(j)'
  BY DEF Sole
<1>2. Deriving(j)' <=> Deriving(j)
  BY DEF Deriving
<1>3. QED
  BY <1>1, <1>2 DEF DerivedAt, AllDocsThere

\* The trends only depend on the digest.
LEMMA TrendUntouched ==
    ASSUME TrendInv, UNCHANGED <<day, snapshots, trends>>
    PROVE  TrendInv'
  BY DEF TrendInv, TrendAgainstEarlierDay, EarlierDays, Latest

\* The first state satisfies the invariant.
LEMMA ArchiveInitInv == ArchiveInit => ArchiveIInv
<1> SUFFICES ASSUME ArchiveInit PROVE ArchiveIInv
  OBVIOUS
<1>1. /\ archives = <<>> /\ archives \in Seq(ArchiveDoc)
      /\ Len(archives) = 0 /\ DOMAIN archives = {}
  BY DEF ArchiveInit
<1>2. IdleEditor \in EditorState /\ IdleEditor.at = "idle"
  BY ArchiveBounds DEF IdleEditor, EditorState, Completeness
<1>3. NoCount \in 0..NoCount /\ 0 \in Days
  BY ArchiveBounds DEF NoCount, Days
<1>4. ArchiveTypeOK
  <2>1. editor \in [Editors -> EditorState]
    BY <1>2 DEF ArchiveInit
  <2>2. QED
    BY <1>1, <1>3, <2>1, EditorsTyped, ArchiveBounds DEF ArchiveInit, ArchiveTypeOK, IdleMigration
<1>5. <<>> \in Seq(RegisterRow) /\ DOMAIN <<>> = {}
  OBVIOUS
<1>6. IdleMigration \in [at: {"idle", "rows", "over"}, file: Seq(RegisterRow), todo: SUBSET Nat]
      /\ IdleMigration.todo = {}
  BY <1>5 DEF IdleMigration
<1>7. ArchiveTypes
  <2>1. editor \in [Editors -> EditorState]
    BY <1>2 DEF ArchiveInit
  <2>2. QED
    BY <1>1, <1>2, <1>3, <1>4, <1>6, <2>1, ArchiveBounds DEF ArchiveInit, ArchiveTypes
<1>8. DerivedInv /\ OneArchivePerOrigin /\ TrendInv
  BY <1>1 DEF ArchiveInit, DerivedInv, OneArchivePerOrigin, TrendInv, TrendAgainstEarlierDay
<1>9. QED
  BY <1>7, <1>8 DEF ArchiveIInv

----------------------------------------------------------------------------
(* The steps of a request.                                                 *)

ArchiveKept == UNCHANGED <<migration, day, snapshots, digest, trends>>

\* The types, after a step of a request that leaves the number of archives.
LEMMA RequestTypes ==
    ASSUME ArchiveTypes, NEW e \in Editors, NEW state \in EditorState,
           EditorMoves(e, state), ArchiveKept,
           state.at # "idle" => state.on \in 1..Len(archives),
           archives' \in Seq(ArchiveDoc), Len(archives') = Len(archives),
           edits' \in 0..MaxEdits, crossed' \in [1..MaxArchives -> BOOLEAN]
    PROVE  ArchiveTypes'
<1>1. /\ editor' \in [Editors -> EditorState]
      /\ editor'[e] = state
      /\ \A f \in Editors \ {e} : editor'[f] = editor[f]
  BY EditorMoved
<1>2. ArchiveTypeOK'
  <2>1. editor' \in [Editors -> [at: {"idle", "drive", "derive", "close"},
                                on: 0..MaxArchives, fresh: Completeness]]
    BY <1>1, EditorsTyped
  <2>2. QED
    BY <2>1 DEF ArchiveTypes, ArchiveTypeOK, ArchiveKept
<1>3. \A f \in Editors : editor'[f].at # "idle" => editor'[f].on \in 1..Len(archives')
  BY <1>1 DEF ArchiveTypes
<1>4. QED
  BY <1>1, <1>2, <1>3 DEF ArchiveTypes, ArchiveKept

\* A request begins on an archive: the archive is crossed if another is on it.
LEMMA RequestBegins ==
    ASSUME ArchiveIInv, NEW e \in Editors, NEW i \in DOMAIN archives, NEW state \in EditorState,
           EditBegins(e, i), EditorMoves(e, state), ArchiveKept, state.on = i, state.at # "idle",
           archives' \in Seq(ArchiveDoc), Len(archives') = Len(archives),
           \A j \in DOMAIN archives \ {i} : archives'[j] = archives[j],
           archives'[i].status = archives[i].status,
           \A j \in DOMAIN archives : archives'[j].origin = archives[j].origin,
           state.at = "derive" => (state.fresh = "COMPLET" <=> AllDocsThere(archives'[i])),
           state.at # "derive" => archives'[i] = archives[i],
           state.at = "close" => archives[i].status = "COMPLET"
    PROVE  ArchiveIInv'
<1> USE DEF ArchiveIInv
<1>1. /\ editor' \in [Editors -> EditorState]
      /\ editor'[e] = state
      /\ \A f \in Editors \ {e} : editor'[f] = editor[f]
  BY EditorMoved
<1>2. /\ Len(archives) \in Nat /\ DOMAIN archives = 1..Len(archives)
      /\ DOMAIN archives' = 1..Len(archives) /\ Len(archives) <= MaxArchives
  BY DEF ArchiveTypes, ArchiveTypeOK
<1>3. i \in 1..MaxArchives /\ \A j \in DOMAIN archives : j \in 1..MaxArchives
  BY <1>2, ArchiveBounds
<1>4. /\ editor[e].at = "idle" /\ edits' = edits + 1 /\ edits < MaxEdits
      /\ crossed' \in [1..MaxArchives -> BOOLEAN]
      /\ \A j \in 1..MaxArchives \ {i} : crossed'[j] = crossed[j]
      /\ ~crossed'[i] => /\ ~crossed[i]
                         /\ \A f \in Editors \ {e} : editor[f].at = "idle" \/ editor[f].on # i
  BY <1>3 DEF EditBegins, ArchiveTypes
<1>5. edits' \in 0..MaxEdits
  BY <1>4, ArchiveBounds DEF ArchiveTypes, ArchiveTypeOK
<1>6. ArchiveTypes'
  BY <1>2, <1>4, <1>5, RequestTypes
<1>7. DerivedInv'
  <2>1. ASSUME NEW j \in DOMAIN archives, j # i PROVE DerivedAt(j)'
    <3>1. DerivedAt(j) /\ archives'[j] = archives[j] /\ crossed'[j] = crossed[j]
      BY <1>3, <1>4, <2>1 DEF DerivedInv
    <3>2. \A f \in Editors : \/ editor'[f] = editor[f]
                             \/ /\ editor[f].at = "idle" \/ editor[f].on # j
                                /\ editor'[f].at = "idle" \/ editor'[f].on # j
      BY <1>1, <1>4, <2>1
    <3>3. QED
      BY <3>1, <3>2, OtherArchive
  <2>2. DerivedAt(i)'
    <3> SUFFICES ASSUME ~crossed'[i] PROVE DerivedAt(i)'
      BY DEF DerivedAt
    <3>1. /\ ~crossed[i]
          /\ \A f \in Editors : editor'[f].at # "idle" /\ editor'[f].on = i => f = e
      BY <1>1, <1>4
    <3>2. Sole(i)'
      BY <3>1 DEF Sole
    <3>3. ~Deriving(i)
      BY <1>4 DEF Deriving
    <3>4. archives[i].status # "CLOTURE" =>
              (archives[i].status = "COMPLET" <=> AllDocsThere(archives[i]))
      BY <3>1, <3>3 DEF DerivedInv, DerivedAt
    <3>5. Deriving(i)' <=> state.at = "derive"
      BY <1>1, <3>1 DEF Deriving
    <3>6. ~Deriving(i)' /\ archives'[i].status # "CLOTURE" =>
              (archives'[i].status = "COMPLET" <=> AllDocsThere(archives'[i]))
      BY <3>4, <3>5
    <3>7. \A f \in Editors : editor'[f].at = "derive" /\ editor'[f].on = i =>
              (editor'[f].fresh = "COMPLET" <=> AllDocsThere(archives'[i]))
      BY <1>1, <3>1
    <3>8. \A f \in Editors : editor'[f].at = "close" /\ editor'[f].on = i =>
              AllDocsThere(archives'[i])
      BY <1>1, <3>1, <3>4
    <3>9. QED
      BY <3>2, <3>6, <3>7, <3>8 DEF DerivedAt
  <2>3. QED
    BY <1>2, <2>1, <2>2 DEF DerivedInv
<1>8. OneArchivePerOrigin'
  BY <1>2 DEF OneArchivePerOrigin
<1>9. TrendInv'
  BY TrendUntouched DEF ArchiveKept
<1>10. QED
  BY <1>6, <1>7, <1>8, <1>9

\* A request goes on or ends: those on an archive not crossed are alone on it.
LEMMA RequestGoesOn ==
    ASSUME ArchiveIInv, NEW e \in Editors, NEW i, editor[e].at # "idle", i = editor[e].on,
           NEW state \in EditorState, EditorMoves(e, state), ArchiveKept,
           UNCHANGED <<edits, crossed>>,
           (state.at = "derive" /\ state.on = i) \/ state.at = "idle",
           archives' \in Seq(ArchiveDoc), Len(archives') = Len(archives),
           \A j \in DOMAIN archives \ {i} : archives'[j] = archives[j],
           archives'[i].origin = archives[i].origin,
           ~crossed[i] /\ state.at = "derive" =>
               (state.fresh = "COMPLET" <=> AllDocsThere(archives'[i])),
           ~crossed[i] /\ state.at = "idle" /\ archives'[i].status # "CLOTURE" =>
               (archives'[i].status = "COMPLET" <=> AllDocsThere(archives'[i]))
    PROVE  ArchiveIInv'
<1> USE DEF ArchiveIInv
<1>1. /\ editor' \in [Editors -> EditorState]
      /\ editor'[e] = state
      /\ \A f \in Editors \ {e} : editor'[f] = editor[f]
  BY EditorMoved
<1>2. /\ Len(archives) \in Nat /\ DOMAIN archives = 1..Len(archives)
      /\ DOMAIN archives' = 1..Len(archives) /\ i \in 1..Len(archives)
  BY DEF ArchiveTypes, ArchiveTypeOK
<1>3. ArchiveTypes'
  <2>1. edits' \in 0..MaxEdits /\ crossed' \in [1..MaxArchives -> BOOLEAN]
    BY DEF ArchiveTypes, ArchiveTypeOK
  <2>2. QED
    BY <1>2, <2>1, RequestTypes
<1>4. DerivedInv'
  <2>1. ASSUME NEW j \in DOMAIN archives, j # i PROVE DerivedAt(j)'
    <3>1. DerivedAt(j) /\ archives'[j] = archives[j] /\ crossed'[j] = crossed[j]
      BY <2>1 DEF DerivedInv
    <3>2. \A f \in Editors : \/ editor'[f] = editor[f]
                             \/ /\ editor[f].at = "idle" \/ editor[f].on # j
                                /\ editor'[f].at = "idle" \/ editor'[f].on # j
      BY <1>1, <2>1
    <3>3. QED
      BY <3>1, <3>2, OtherArchive
  <2>2. DerivedAt(i)'
    <3> SUFFICES ASSUME ~crossed'[i] PROVE DerivedAt(i)'
      BY DEF DerivedAt
    <3>1. ~crossed[i] /\ Sole(i)
      BY <1>2 DEF DerivedInv, DerivedAt
    <3>2. \A f \in Editors : editor'[f].at # "idle" /\ editor'[f].on = i => f = e
      BY <1>1, <3>1 DEF Sole
    <3>3. Sole(i)'
      BY <3>2 DEF Sole
    <3>4. Deriving(i)' <=> state.at = "derive"
      BY <1>1, <3>2 DEF Deriving
    <3>5. ~Deriving(i)' /\ archives'[i].status # "CLOTURE" =>
              (archives'[i].status = "COMPLET" <=> AllDocsThere(archives'[i]))
      BY <3>1, <3>4
    <3>6. \A f \in Editors : editor'[f].at = "derive" /\ editor'[f].on = i =>
              (editor'[f].fresh = "COMPLET" <=> AllDocsThere(archives'[i]))
      BY <1>1, <3>1, <3>2
    <3>7. \A f \in Editors : ~(editor'[f].at = "close" /\ editor'[f].on = i)
      BY <1>1, <3>2
    <3>8. QED
      BY <3>3, <3>5, <3>6, <3>7 DEF DerivedAt
  <2>3. QED
    BY <1>2, <2>1, <2>2 DEF DerivedInv
<1>5. OneArchivePerOrigin'
  BY <1>2 DEF OneArchivePerOrigin
<1>6. TrendInv'
  BY TrendUntouched DEF ArchiveKept
<1>7. QED
  BY <1>3, <1>4, <1>5, <1>6

\* An archive with one of its fields written, and the others as they were.
LEMMA DocWritten ==
    ASSUME ArchiveTypes, NEW i \in DOMAIN archives, NEW doc \in ArchiveDoc
    PROVE  /\ [archives EXCEPT ![i] = doc] \in Seq(ArchiveDoc)
           /\ Len([archives EXCEPT ![i] = doc]) = Len(archives)
           /\ [archives EXCEPT ![i] = doc][i] = doc
           /\ \A j \in DOMAIN archives \ {i} : [archives EXCEPT ![i] = doc][j] = archives[j]
           /\ archives[i] \in ArchiveDoc
  BY DEF ArchiveTypes, ArchiveTypeOK

\* An upload or a closing begins, and writes nothing yet.
LEMMA UploadBeginInv ==
    ASSUME ArchiveIInv, NEW e \in Editors, NEW i \in DOMAIN archives,
           UploadBegin(e, i) \/ ClotureRead(e, i)
    PROVE  ArchiveIInv'
<1>1. /\ Len(archives) \in Nat /\ Len(archives) <= MaxArchives /\ i \in 1..Len(archives)
      /\ archives \in Seq(ArchiveDoc)
  BY DEF ArchiveIInv, ArchiveTypes, ArchiveTypeOK
<1>2. i \in 0..MaxArchives
  BY <1>1, ArchiveBounds
<1>3. PICK state \in EditorState :
          /\ EditorMoves(e, state) /\ state.on = i /\ state.at \in {"drive", "close"}
          /\ state.at = "close" => archives[i].status = "COMPLET"
  <2>1. CASE UploadBegin(e, i)
    <3>1. [at |-> "drive", on |-> i, fresh |-> "INCOMPLET"] \in EditorState
      BY <1>2 DEF EditorState, Completeness
    <3>2. QED
      BY <2>1, <3>1 DEF UploadBegin
  <2>2. CASE ClotureRead(e, i)
    <3>1. [at |-> "close", on |-> i, fresh |-> "COMPLET"] \in EditorState
      BY <1>2 DEF EditorState, Completeness
    <3>2. QED
      BY <2>2, <3>1 DEF ClotureRead, Closable
  <2>3. QED
    BY <2>1, <2>2
<1>4. EditBegins(e, i) /\ ArchiveKept /\ archives' = archives
  BY DEF UploadBegin, ClotureRead, ArchiveOnly, ArchiveKept
<1>5. QED
  BY <1>1, <1>3, <1>4, RequestBegins

\* The write of a document, and the completeness computed on what it returns.
LEMMA SetUploadWrites ==
    ASSUME ArchiveTypes, NEW e \in Editors, NEW i \in DOMAIN archives,
           NEW upload \in SUBSET DocTypes, SetUpload(e, i, upload)
    PROVE  \E state \in EditorState :
              /\ EditorMoves(e, state) /\ state.at = "derive" /\ state.on = i
              /\ archives' \in Seq(ArchiveDoc) /\ Len(archives') = Len(archives)
              /\ \A j \in DOMAIN archives \ {i} : archives'[j] = archives[j]
              /\ archives'[i].status = archives[i].status
              /\ archives'[i].origin = archives[i].origin
              /\ state.fresh = "COMPLET" <=> AllDocsThere(archives'[i])
<1> DEFINE doc == [archives[i] EXCEPT !.upload = upload]
           state == [at |-> "derive", on |-> i,
                     fresh |-> ComputeCompletude(upload, archives[i].ref)]
<1>1. archives[i] \in ArchiveDoc
  BY DocWritten DEF ArchiveTypes, ArchiveTypeOK
<1>2. /\ doc \in ArchiveDoc /\ doc.upload = upload /\ doc.ref = archives[i].ref
      /\ doc.status = archives[i].status /\ doc.origin = archives[i].origin
  BY <1>1 DEF ArchiveDoc
<1>3. archives' = [archives EXCEPT ![i] = doc] /\ EditorMoves(e, state)
  BY DEF SetUpload
<1>4. /\ state.fresh \in {"INCOMPLET", "COMPLET"}
      /\ state.fresh = "COMPLET" <=> AllDocsThere(doc)
  BY <1>2, CompletudeOfDocs DEF Completeness
<1>5. i \in 0..MaxArchives
  BY ArchiveBounds DEF ArchiveTypes, ArchiveTypeOK
<1>6. state \in EditorState
  BY <1>4, <1>5 DEF EditorState
<1> HIDE DEF doc
<1>7. /\ archives' \in Seq(ArchiveDoc) /\ Len(archives') = Len(archives)
      /\ archives'[i] = doc
      /\ \A j \in DOMAIN archives \ {i} : archives'[j] = archives[j]
  BY <1>2, <1>3, DocWritten
<1>8. state.at = "derive" /\ state.on = i
  OBVIOUS
<1> HIDE DEF state
<1>9. QED
  BY <1>2, <1>3, <1>4, <1>6, <1>7, <1>8

\* A document is removed.
LEMMA RemoveDocInv ==
    ASSUME ArchiveIInv, NEW e \in Editors, NEW i \in DOMAIN archives, NEW doc \in DocTypes,
           RemoveDoc(e, i, doc)
    PROVE  ArchiveIInv'
<1>1. archives[i] \in ArchiveDoc
  BY DEF ArchiveIInv, ArchiveTypes, ArchiveTypeOK
<1>2. archives[i].upload \ {doc} \in SUBSET DocTypes
  BY <1>1 DEF ArchiveDoc
<1>3. SetUpload(e, i, archives[i].upload \ {doc}) /\ EditBegins(e, i) /\ ArchiveKept
  BY DEF RemoveDoc, ArchiveOnly, ArchiveKept
<1>4. PICK state \in EditorState :
          /\ EditorMoves(e, state) /\ state.at = "derive" /\ state.on = i
          /\ archives' \in Seq(ArchiveDoc) /\ Len(archives') = Len(archives)
          /\ \A j \in DOMAIN archives \ {i} : archives'[j] = archives[j]
          /\ archives'[i].status = archives[i].status
          /\ archives'[i].origin = archives[i].origin
          /\ state.fresh = "COMPLET" <=> AllDocsThere(archives'[i])
  BY <1>2, <1>3, SetUploadWrites DEF ArchiveIInv
<1>5. \A j \in DOMAIN archives : archives'[j].origin = archives[j].origin
  BY <1>4
<1>6. QED
  BY <1>3, <1>4, <1>5, RequestBegins

\* The document uploaded is written.
LEMMA UploadWriteInv ==
    ASSUME ArchiveIInv, NEW e \in Editors, NEW doc \in DocTypes, UploadWrite(e, doc)
    PROVE  ArchiveIInv'
<1> DEFINE i == editor[e].on
<1>1. editor[e].at = "drive" /\ i \in DOMAIN archives /\ archives[i] \in ArchiveDoc
  <2>1. editor[e].at = "drive"
    BY DEF UploadWrite
  <2>2. i \in 1..Len(archives) /\ archives \in Seq(ArchiveDoc)
    BY <2>1 DEF ArchiveIInv, ArchiveTypes, ArchiveTypeOK
  <2>3. QED
    BY <2>1, <2>2
<1>2. archives[i].upload \cup {doc} \in SUBSET DocTypes
  BY <1>1 DEF ArchiveDoc
<1>3. /\ SetUpload(e, i, archives[i].upload \cup {doc}) /\ ArchiveKept
      /\ UNCHANGED <<edits, crossed>>
  BY DEF UploadWrite, ArchiveOnly, ArchiveKept
<1> HIDE DEF i
<1>4. PICK state \in EditorState :
          /\ EditorMoves(e, state) /\ state.at = "derive" /\ state.on = i
          /\ archives' \in Seq(ArchiveDoc) /\ Len(archives') = Len(archives)
          /\ \A j \in DOMAIN archives \ {i} : archives'[j] = archives[j]
          /\ archives'[i].status = archives[i].status
          /\ archives'[i].origin = archives[i].origin
          /\ state.fresh = "COMPLET" <=> AllDocsThere(archives'[i])
  BY <1>1, <1>2, <1>3, SetUploadWrites DEF ArchiveIInv
<1>5. i = editor[e].on /\ editor[e].at # "idle" /\ state.at # "idle"
  BY <1>1, <1>4 DEF i
<1>6. QED
  BY <1>3, <1>4, <1>5, RequestGoesOn

\* The status an archive has, written again, changes nothing.
LEMMA SameStatus ==
    ASSUME archives \in Seq(ArchiveDoc), NEW i \in DOMAIN archives
    PROVE  archives = [archives EXCEPT ![i].status = archives[i].status]
<1>1. archives[i] \in ArchiveDoc
  OBVIOUS
<1>2. [archives[i] EXCEPT !.status = archives[i].status] = archives[i]
  BY <1>1 DEF ArchiveDoc
<1>3. archives = [archives EXCEPT ![i] = archives[i]]
  OBVIOUS
<1>4. [archives EXCEPT ![i].status = archives[i].status]
        = [archives EXCEPT ![i] = [archives[i] EXCEPT !.status = archives[i].status]]
  OBVIOUS
<1>5. QED
  BY <1>2, <1>3, <1>4

\* The request ends: Drive refused, or the status is written, derived or closed.
LEMMA RequestEndInv ==
    ASSUME ArchiveIInv, NEW e \in Editors,
           DriveFails(e) \/ ApplyDerivedCompletude(e) \/ ClotureWrite(e)
    PROVE  ArchiveIInv'
<1> DEFINE i == editor[e].on
<1>1. /\ editor[e].at # "idle" /\ i \in DOMAIN archives /\ archives[i] \in ArchiveDoc
      /\ editor[e].fresh \in Completeness /\ archives \in Seq(ArchiveDoc)
  BY DEF DriveFails, ApplyDerivedCompletude, ClotureWrite, ArchiveIInv, ArchiveTypes,
      ArchiveTypeOK
<1>2. IdleEditor \in EditorState /\ IdleEditor.at = "idle"
  BY ArchiveBounds DEF IdleEditor, EditorState, Completeness
<1>3. EditorMoves(e, IdleEditor) /\ ArchiveKept /\ UNCHANGED <<edits, crossed>>
  BY DEF DriveFails, ApplyDerivedCompletude, ClotureWrite, ArchiveOnly, ArchiveKept
<1>4. DerivedAt(i)
  BY <1>1 DEF ArchiveIInv, DerivedInv
<1>5. PICK status \in Completeness :
          /\ archives' = [archives EXCEPT ![i].status = status]
          /\ ~crossed[i] /\ status # "CLOTURE" =>
                (status = "COMPLET" <=> AllDocsThere(archives[i]))
  <2>1. CASE DriveFails(e)
    <3>1. archives' = [archives EXCEPT ![i].status = archives[i].status]
      BY <1>1, <2>1, SameStatus DEF DriveFails
    <3>2. ~crossed[i] => ~Deriving(i)
      BY <1>1, <1>4, <2>1 DEF DerivedAt, Sole, Deriving, DriveFails
    <3>3. archives[i].status \in Completeness
      BY <1>1 DEF ArchiveDoc
    <3>4. QED
      BY <1>4, <3>1, <3>2, <3>3 DEF DerivedAt
  <2>2. CASE ApplyDerivedCompletude(e) /\ Derivable(i)
    BY <1>1, <1>4, <2>2 DEF ApplyDerivedCompletude, DerivedAt
  <2>3. CASE ApplyDerivedCompletude(e) /\ ~Derivable(i)
    <3>1. archives[i].status = "CLOTURE"
      BY <2>3 DEF Derivable
    <3>2. archives' = [archives EXCEPT ![i].status = "CLOTURE"]
      BY <1>1, <2>3, <3>1, SameStatus DEF ApplyDerivedCompletude
    <3>3. QED
      BY <3>2 DEF Completeness
  <2>4. CASE ClotureWrite(e)
    BY <2>4 DEF ClotureWrite, Completeness
  <2>5. QED
    BY <2>1, <2>2, <2>3, <2>4
<1> DEFINE doc == [archives[i] EXCEPT !.status = status]
<1>6. /\ doc \in ArchiveDoc /\ doc.upload = archives[i].upload /\ doc.ref = archives[i].ref
      /\ doc.status = status /\ doc.origin = archives[i].origin
  BY <1>1 DEF ArchiveDoc
<1>7. archives' = [archives EXCEPT ![i] = doc]
  BY <1>5
<1> HIDE DEF doc, i
<1>8. /\ archives' \in Seq(ArchiveDoc) /\ Len(archives') = Len(archives)
      /\ archives'[i] = doc
      /\ \A j \in DOMAIN archives \ {i} : archives'[j] = archives[j]
  BY <1>1, <1>6, <1>7, DocWritten DEF ArchiveIInv
<1>9. AllDocsThere(archives'[i]) <=> AllDocsThere(archives[i])
  BY <1>6, <1>8 DEF AllDocsThere
<1>10. ~crossed[i] /\ archives'[i].status # "CLOTURE" =>
           (archives'[i].status = "COMPLET" <=> AllDocsThere(archives'[i]))
  BY <1>5, <1>6, <1>8, <1>9
<1>11. i = editor[e].on /\ archives'[i].origin = archives[i].origin
  BY <1>6, <1>8 DEF i
<1>12. QED
  BY <1>1, <1>2, <1>3, <1>8, <1>10, <1>11, RequestGoesOn

----------------------------------------------------------------------------
(* The creations, the migrations and the digest.                           *)

MigrationState == [at: {"idle", "rows", "over"}, file: Seq(RegisterRow), todo: SUBSET Nat]
MigrationTypes ==
    /\ migration \in [Migrations -> MigrationState]
    /\ \A m \in Migrations : migration[m].todo \subseteq DOMAIN migration[m].file

\* An archive is created, with the status of its documents and a number nobody has.
LEMMA CreationInv ==
    ASSUME ArchiveIInv, NEW doc \in ArchiveDoc, archives' = Append(archives, doc),
           Len(archives) < MaxArchives,
           UNCHANGED <<editor, crossed, day, snapshots, digest, trends>>,
           edits' \in 0..MaxEdits, MigrationTypes',
           doc.status # "CLOTURE" => (doc.status = "COMPLET" <=> AllDocsThere(doc)),
           doc.origin = NoOrigin \/ doc.origin \notin KnownOrigins
    PROVE  ArchiveIInv'
<1> USE DEF ArchiveIInv
<1>1. archives \in Seq(ArchiveDoc) /\ Len(archives) \in Nat /\ DOMAIN archives = 1..Len(archives)
  BY DEF ArchiveTypes, ArchiveTypeOK
<1> PICK n \in Nat : n = Len(archives) + 1
  BY <1>1
<1>2. /\ archives' \in Seq(ArchiveDoc) /\ Len(archives') = n /\ DOMAIN archives' = 1..n
      /\ archives'[n] = doc
      /\ \A j \in 1..Len(archives) : archives'[j] = archives[j]
      /\ 1..n = 1..Len(archives) \cup {n}
      /\ n \notin 1..Len(archives)
  BY <1>1
<1>3. n <= MaxArchives
  BY <1>1, ArchiveBounds
<1>4. ArchiveTypes'
  <2>1. ArchiveTypeOK'
    BY <1>2 DEF ArchiveTypes, ArchiveTypeOK, MigrationTypes, MigrationState
  <2>2. \A e \in Editors : editor'[e].at # "idle" => editor'[e].on \in 1..Len(archives')
    BY <1>2 DEF ArchiveTypes
  <2>3. QED
    BY <1>2, <1>3, <2>1, <2>2 DEF ArchiveTypes, MigrationTypes, MigrationState
<1>5. DerivedInv'
  <2>1. ASSUME NEW j \in 1..Len(archives) PROVE DerivedAt(j)'
    BY <1>1, <1>2, OtherArchive DEF DerivedInv
  <2>2. DerivedAt(n)'
    <3>1. \A e \in Editors : editor[e].at # "idle" => editor[e].on # n
      BY <1>2 DEF ArchiveTypes
    <3>2. Sole(n)' /\ ~Deriving(n)'
      BY <3>1 DEF Sole, Deriving
    <3>3. QED
      BY <1>2, <3>1, <3>2 DEF DerivedAt
  <2>3. QED
    BY <1>2, <2>1, <2>2 DEF DerivedInv
<1>6. OneArchivePerOrigin'
  <2> SUFFICES ASSUME NEW i \in 1..n, NEW k \in 1..n, i # k,
                      archives'[i].origin = archives'[k].origin
               PROVE  archives'[i].origin = NoOrigin
    BY <1>2 DEF OneArchivePerOrigin
  <2>1. \A j \in 1..Len(archives) : archives[j].origin \in KnownOrigins
    BY <1>1 DEF KnownOrigins
  <2>2. CASE i # n /\ k # n
    BY <1>1, <1>2, <2>2 DEF OneArchivePerOrigin
  <2>3. CASE i = n \/ k = n
    BY <1>2, <2>1, <2>3
  <2>4. QED
    BY <2>2, <2>3
<1>7. TrendInv'
  BY TrendUntouched
<1>8. QED
  BY <1>4, <1>5, <1>6, <1>7

\* An archive made by hand has no document, and is INCOMPLET.
LEMMA CreateManualInv ==
    ASSUME ArchiveIInv, CreateManual
    PROVE  ArchiveIInv'
<1> DEFINE doc == [upload |-> {}, ref |-> [d \in DocTypes |-> "none"],
                   status |-> "INCOMPLET", origin |-> NoOrigin]
<1>1. doc \in ArchiveDoc /\ ~AllDocsThere(doc)
  BY ArchiveBounds DEF ArchiveDoc, RefValue, Completeness, AllDocsThere
<1>2. doc.status = "INCOMPLET" /\ doc.origin = NoOrigin
  OBVIOUS
<1>3. /\ archives' = Append(archives, doc) /\ Len(archives) < MaxArchives
      /\ UNCHANGED <<editor, crossed, migration, day, snapshots, digest, trends>>
      /\ edits' = edits + 1 /\ edits < MaxEdits
  BY DEF CreateManual, CreateArchive, ArchiveOnly
<1>4. edits' \in 0..MaxEdits
  BY <1>3, ArchiveBounds DEF ArchiveIInv, ArchiveTypes, ArchiveTypeOK
<1>5. MigrationTypes'
  BY <1>3 DEF ArchiveIInv, ArchiveTypes, MigrationTypes, MigrationState
<1> HIDE DEF doc
<1>6. QED
  BY <1>1, <1>2, <1>3, <1>4, <1>5, CreationInv

\* A step of a migration that creates nothing.
LEMMA MigrationGoesOn ==
    ASSUME ArchiveIInv, MigrationTypes',
           UNCHANGED <<archives, editor, edits, crossed, day, snapshots, digest, trends>>
    PROVE  ArchiveIInv'
<1> USE DEF ArchiveIInv
<1>1. ArchiveTypes'
  BY DEF ArchiveTypes, ArchiveTypeOK, MigrationTypes, MigrationState
<1>2. DerivedInv' /\ OneArchivePerOrigin'
  BY DEF DerivedInv, DerivedAt, Sole, Deriving, OneArchivePerOrigin, AllDocsThere
<1>3. QED
  BY <1>1, <1>2, TrendUntouched

\* What a step that moves one migration does to the others.
LEMMA MigrationMoved ==
    ASSUME ArchiveIInv, NEW m \in Migrations, NEW state \in MigrationState,
           state.todo \subseteq DOMAIN state.file,
           migration' = [migration EXCEPT ![m] = state]
    PROVE  MigrationTypes'
  BY DEF ArchiveIInv, ArchiveTypes, MigrationTypes, MigrationState

\* The rows of a file, one after another.
LEMMA MigrationInv ==
    ASSUME ArchiveIInv, NEW m \in Migrations,
           MigrateRow(m) \/ MigrateEnd(m) \/ \E file \in MigrationFiles : MigrateBegin(m, file)
    PROVE  ArchiveIInv'
<1>1. migration[m] \in MigrationState /\ migration[m].todo \subseteq DOMAIN migration[m].file
  BY DEF ArchiveIInv, ArchiveTypes, MigrationState
<1>2. ASSUME NEW file \in MigrationFiles, MigrateBegin(m, file) PROVE ArchiveIInv'
  <2> DEFINE state == [at |-> "rows", file |-> file, todo |-> RowsToCreate(file)]
  <2>1. file \in Seq(RegisterRow) /\ RowsToCreate(file) \subseteq DOMAIN file
    BY MigrationRows DEF RowsToCreate, RowsOnce
  <2>2. state \in MigrationState /\ state.todo \subseteq DOMAIN state.file
    BY <2>1 DEF MigrationState
  <2>3. migration' = [migration EXCEPT ![m] = state]
    BY <1>2 DEF MigrateBegin
  <2> HIDE DEF state
  <2>4. MigrationTypes'
    BY <2>2, <2>3, MigrationMoved
  <2>5. QED
    BY <1>2, <2>4, MigrationGoesOn DEF MigrateBegin
<1>3. CASE MigrateEnd(m)
  <2> DEFINE state == [at |-> "over", file |-> <<>>, todo |-> {}]
  <2>1. state \in MigrationState /\ state.todo \subseteq DOMAIN state.file
    BY DEF MigrationState
  <2>2. migration' = [migration EXCEPT ![m] = state]
    BY <1>3 DEF MigrateEnd
  <2> HIDE DEF state
  <2>3. MigrationTypes'
    BY <2>1, <2>2, MigrationMoved
  <2>4. QED
    BY <1>3, <2>3, MigrationGoesOn DEF MigrateEnd
<1>4. CASE MigrateRow(m)
  <2>1. PICK k \in migration[m].todo :
           /\ LET row == migration[m].file[k] IN
              \/ /\ Indexed(row.origin)
                 /\ Len(archives) < MaxArchives
                 /\ CreateArchive(row.origin, row.ref, ComputeCompletude({}, row.ref))
              \/ ~Indexed(row.origin) /\ UNCHANGED archives
           /\ migration' = [migration EXCEPT ![m].todo = @ \ {k}]
    BY <1>4 DEF MigrateRow
  <2> DEFINE state == [migration[m] EXCEPT !.todo = @ \ {k}]
             row == migration[m].file[k]
             doc == [upload |-> {}, ref |-> row.ref, status |-> ComputeCompletude({}, row.ref),
                     origin |-> row.origin]
  <2>2. state \in MigrationState /\ state.todo \subseteq DOMAIN state.file
    BY <1>1 DEF MigrationState
  <2>3. migration' = [migration EXCEPT ![m] = state]
    BY <2>1
  <2>4. row \in RegisterRow
    BY <1>1 DEF MigrationState
  <2>5. UNCHANGED <<editor, edits, crossed, day, snapshots, digest, trends>>
    BY <1>4 DEF MigrateRow
  <2> HIDE DEF state
  <2>6. MigrationTypes'
    BY <2>2, <2>3, MigrationMoved
  <2>7. CASE Indexed(row.origin) /\ Len(archives) < MaxArchives /\ archives' = Append(archives, doc)
    <3>1. /\ ComputeCompletude({}, row.ref) \in Completeness
          /\ ComputeCompletude({}, row.ref) = "COMPLET" <=> AllDocsThere(doc)
      BY CompletudeOfDocs
    <3>2. /\ doc \in ArchiveDoc
          /\ doc.status = ComputeCompletude({}, row.ref) /\ doc.origin = row.origin
      BY <2>4, <3>1 DEF ArchiveDoc, RegisterRow
    <3>3. edits' \in 0..MaxEdits
      BY <2>5 DEF ArchiveIInv, ArchiveTypes, ArchiveTypeOK
    <3> HIDE DEF doc, row
    <3>4. QED
      BY <2>5, <2>6, <2>7, <3>1, <3>2, <3>3, CreationInv DEF Indexed
  <2>8. CASE UNCHANGED archives
    BY <2>5, <2>6, <2>8, MigrationGoesOn
  <2>9. QED
    BY <2>1, <2>7, <2>8 DEF CreateArchive
<1>5. QED
  BY <1>2, <1>3, <1>4

\* The digest of a day, the write of its snapshot, and the next day.
LEMMA DigestInv ==
    ASSUME ArchiveIInv, DigestPost \/ DigestSave \/ NewDay
    PROVE  ArchiveIInv'
<1> USE DEF ArchiveIInv
<1>1. UNCHANGED <<archives, editor, migration, crossed>>
  BY DEF DigestPost, DigestSave, NewDay
<1>2. DerivedInv' /\ OneArchivePerOrigin'
  BY <1>1 DEF DerivedInv, DerivedAt, Sole, Deriving, OneArchivePerOrigin, AllDocsThere
<1>3. /\ LastDay \in Nat /\ day \in 0..LastDay /\ NoCount \in Nat /\ MaxArchives <= NoCount
      /\ digest \in 0..NoCount /\ edits \in 0..MaxEdits
      /\ snapshots \in [Days -> 0..NoCount]
  BY ArchiveBounds DEF ArchiveTypes, ArchiveTypeOK, Days, NoCount
<1>4. day' \in Days /\ digest' \in 0..NoCount /\ edits' \in 0..MaxEdits
      /\ snapshots' \in [Days -> 0..NoCount]
  <2>1. CASE DigestPost
    <3>1. Incomplete \in 0..MaxArchives
      BY IncompleteCounts
    <3>2. Incomplete \in 0..NoCount /\ edits + 1 \in 0..MaxEdits
      BY <1>3, <2>1, <3>1, ArchiveBounds DEF DigestPost
    <3>3. QED
      BY <1>3, <2>1, <3>2 DEF DigestPost, Days
  <2>2. CASE DigestSave
    BY <1>3, <2>2 DEF DigestSave, Days
  <2>3. CASE NewDay
    <3>1. day + 1 \in Days
      BY <1>3, <2>3 DEF NewDay, Days
    <3>2. NoCount \in 0..NoCount
      BY <1>3
    <3>3. QED
      BY <1>3, <2>3, <3>1, <3>2 DEF NewDay
  <2>4. QED
    BY <2>1, <2>2, <2>3
<1>5. ArchiveTypes'
  BY <1>1, <1>4 DEF ArchiveTypes, ArchiveTypeOK
<1>6. TrendInv'
  <2>1. CASE DigestPost
    <3> DEFINE posted == [day |-> day, count |-> Incomplete, base |-> Latest(EarlierDays)]
    <3>1. trends' = trends \cup {posted} /\ UNCHANGED <<day, snapshots>>
      BY <2>1 DEF DigestPost
    <3>2. posted.day = day /\ posted.base = Latest(EarlierDays)
      OBVIOUS
    <3> HIDE DEF posted
    <3>3. Latest(EarlierDays)' = Latest(EarlierDays)
      BY <3>1 DEF Latest, EarlierDays
    <3>4. day \in Days /\ day <= day
      BY <1>3 DEF Days
    <3>5. \A p \in trends' : p.day \in Days /\ p.day <= day /\ (p.day = day => p.base = Latest(EarlierDays))
      BY <3>1, <3>2, <3>4 DEF TrendInv
    <3>6. TrendAgainstEarlierDay'
      BY <3>1, <3>2 DEF TrendInv, TrendAgainstEarlierDay
    <3>7. QED
      BY <3>1, <3>3, <3>5, <3>6 DEF TrendInv
  <2>2. CASE DigestSave
    <3>1. UNCHANGED <<day, trends>> /\ \A d \in Days : d # day => snapshots'[d] = snapshots[d]
      BY <1>3, <2>2 DEF DigestSave, Days
    <3>2. EarlierDays' = EarlierDays /\ EarlierDays \subseteq {d \in Days : d < day}
      BY <1>3, <3>1 DEF EarlierDays, Days
    <3>3. Latest(EarlierDays)' = Latest(EarlierDays)
      <4>1. CASE EarlierDays = {}
        BY <3>2, <4>1 DEF Latest
      <4>2. CASE EarlierDays # {}
        <5> DEFINE last == CHOOSE d \in EarlierDays : \A c \in EarlierDays : c <= d
        <5>1. EarlierDays \subseteq 0..LastDay
          BY <3>2 DEF Days
        <5>2. last \in EarlierDays
          BY <1>3, <4>2, <5>1, HasLast
        <5>3. last \in Days /\ last # day
          <6> HIDE DEF last
          <6>1. last \in Days /\ last < day
            BY <3>2, <5>2
          <6>2. QED
            BY <1>3, <6>1 DEF Days
        <5>4. snapshots'[last] = snapshots[last]
          <6> DEFINE x == last
          <6> HIDE DEF x, last
          <6>1. QED
            BY <3>1, <5>3
        <5>5. Latest(EarlierDays) = snapshots[last] /\ Latest(EarlierDays)' = snapshots'[last]
          BY <3>2, <4>2 DEF Latest
        <5>6. QED
          BY <5>4, <5>5
      <4>3. QED
        BY <4>1, <4>2
    <3>4. QED
      BY <3>1, <3>3 DEF TrendInv, TrendAgainstEarlierDay
  <2>3. CASE NewDay
    <3>1. day' = day + 1 /\ UNCHANGED <<snapshots, trends>>
      BY <2>3 DEF NewDay
    <3>2. \A p \in trends' : p.day \in Days /\ p.day <= day' /\ p.day # day'
      BY <1>3, <3>1 DEF TrendInv, Days
    <3>3. QED
      BY <3>1, <3>2 DEF TrendInv, TrendAgainstEarlierDay
  <2>4. QED
    BY <2>1, <2>2, <2>3
<1>7. QED
  BY <1>2, <1>5, <1>6

----------------------------------------------------------------------------
(* Theorems on the archives.                                               *)

LEMMA ArchiveStepInv == ArchiveIInv /\ [ArchiveNext]_archiveVars => ArchiveIInv'
<1> SUFFICES ASSUME ArchiveIInv, [ArchiveNext]_archiveVars PROVE ArchiveIInv'
  OBVIOUS
<1>1. ASSUME NEW e \in Editors, ArchiveEdit(e) PROVE ArchiveIInv'
  BY <1>1, UploadBeginInv, RemoveDocInv, UploadWriteInv, RequestEndInv, Zenon DEF ArchiveEdit
<1>2. ASSUME NEW m \in Migrations,
             MigrateRow(m) \/ MigrateEnd(m) \/ \E file \in MigrationFiles : MigrateBegin(m, file)
      PROVE  ArchiveIInv'
  BY <1>2, MigrationInv
<1>3. CASE CreateManual
  BY <1>3, CreateManualInv
<1>4. CASE DigestPost \/ DigestSave \/ NewDay
  BY <1>4, DigestInv
<1>5. CASE UNCHANGED archiveVars
  <2>1. MigrationTypes'
    BY <1>5 DEF archiveVars, ArchiveIInv, ArchiveTypes, MigrationTypes, MigrationState
  <2>2. QED
    BY <1>5, <2>1, MigrationGoesOn DEF archiveVars
<1>6. QED
  BY <1>1, <1>2, <1>3, <1>4, <1>5, Zenon DEF ArchiveNext

\* However requests and migrations overlap: the status of an archive at rest is the one
\* of its documents unless two requests have overlapped on it, a number of the register
\* has one archive, and the digests of a day compare with the same day
\* (applyDerivedCompletude, the index of DiArchiveSchema, buildAndSend).
THEOREM ArchiveInvariant == ArchiveSpec => []ArchiveInv
<1>1. ArchiveIInv => ArchiveInv
  <2> SUFFICES ASSUME ArchiveIInv PROVE ArchiveInv
    OBVIOUS
  <2>1. ArchiveTypeOK /\ OneArchivePerOrigin /\ TrendAgainstEarlierDay
    BY DEF ArchiveIInv, ArchiveTypes, TrendInv
  <2>2. ASSUME NEW i \in DOMAIN archives, ~crossed[i], AtRest(i), archives[i].status # "CLOTURE"
        PROVE  archives[i].status = "COMPLET" <=> AllDocsThere(archives[i])
    <3>1. DerivedAt(i)
      BY DEF ArchiveIInv, DerivedInv
    <3>2. ~Deriving(i)
      BY <2>2 DEF AtRest, Deriving
    <3>3. QED
      BY <2>2, <3>1, <3>2 DEF DerivedAt
  <2>3. StatusFollowsDocs
    BY <2>2 DEF StatusFollowsDocs
  <2>4. QED
    BY <2>1, <2>3 DEF ArchiveInv
<1>2. QED
  BY <1>1, ArchiveInitInv, ArchiveStepInv, PTL DEF ArchiveSpec

\* No step reopens a closed archive, and none closes one whose documents are not all
\* there unless two requests have overlapped on it (the filter of applyDerivedCompletude,
\* the check of cloture).
THEOREM ArchivesStayClosed == ArchiveSpec => [][ClosedStays /\ ClosedOnlyComplete]_archiveVars
<1>1. ASSUME ArchiveIInv, ArchiveNext, NEW i \in DOMAIN archives
      PROVE  /\ archives[i].status = "CLOTURE" => archives'[i].status = "CLOTURE"
             /\ ~crossed[i] /\ archives[i].status # "CLOTURE" /\ archives'[i].status = "CLOTURE" =>
                    AllDocsThere(archives[i])
  <2> USE <1>1
  <2>1. /\ archives \in Seq(ArchiveDoc) /\ DOMAIN archives = 1..Len(archives) /\ Len(archives) \in Nat
        /\ archives[i] \in ArchiveDoc
        /\ editor \in [Editors -> EditorState]
    BY DEF ArchiveIInv, ArchiveTypes, ArchiveTypeOK
  <2>2. ASSUME NEW doc, archives' = Append(archives, doc) PROVE archives'[i] = archives[i]
    BY <2>1, <2>2
  <2>3. ASSUME NEW e \in Editors, NEW k, NEW upload, SetUpload(e, k, upload)
        PROVE  archives'[i].status = archives[i].status
    BY <2>1, <2>3 DEF SetUpload, ArchiveDoc
  <2>4. CASE CreateManual \/ \E m \in Migrations : MigrateRow(m)
    <3>1. CASE CreateManual
      BY <2>2, <3>1 DEF CreateManual, CreateArchive
    <3>2. ASSUME NEW m \in Migrations, MigrateRow(m)
          PROVE  archives'[i] = archives[i]
      BY <2>2, <3>2 DEF MigrateRow, CreateArchive
    <3>3. QED
      BY <2>4, <3>1, <3>2
  <2>5. ASSUME NEW e \in Editors,
               (\E doc \in DocTypes : UploadWrite(e, doc))
               \/ (\E k \in DOMAIN archives, doc \in DocTypes : RemoveDoc(e, k, doc))
        PROVE  archives'[i].status = archives[i].status
    BY <2>3, <2>5 DEF UploadWrite, RemoveDoc
  <2>6. ASSUME NEW e \in Editors, ApplyDerivedCompletude(e)
        PROVE  /\ archives[i].status = "CLOTURE" => archives'[i].status = "CLOTURE"
               /\ archives'[i].status = "CLOTURE" => archives[i].status = "CLOTURE"
    <3>1. editor[e].fresh # "CLOTURE"
      BY <2>1 DEF EditorState
    <3>2. CASE Derivable(editor[e].on)
      <4>1. archives' = [archives EXCEPT ![editor[e].on].status = editor[e].fresh]
        BY <2>6, <3>2 DEF ApplyDerivedCompletude
      <4>2. CASE i = editor[e].on
        BY <2>1, <3>1, <3>2, <4>1, <4>2 DEF Derivable, ArchiveDoc
      <4>3. CASE i # editor[e].on
        BY <2>1, <4>1, <4>3
      <4>4. QED
        BY <4>2, <4>3
    <3>3. CASE ~Derivable(editor[e].on)
      BY <2>6, <3>3 DEF ApplyDerivedCompletude
    <3>4. QED
      BY <3>2, <3>3
  <2>7. ASSUME NEW e \in Editors, ClotureWrite(e)
        PROVE  /\ archives[i].status = "CLOTURE" => archives'[i].status = "CLOTURE"
               /\ ~crossed[i] /\ archives[i].status # "CLOTURE" /\ archives'[i].status = "CLOTURE" =>
                      AllDocsThere(archives[i])
    <3>1. editor[e].at = "close" /\ archives' = [archives EXCEPT ![editor[e].on].status = "CLOTURE"]
      BY <2>7 DEF ClotureWrite
    <3>2. CASE i = editor[e].on
      <4>1. ~crossed[i] => AllDocsThere(archives[i])
        BY <3>1, <3>2 DEF ArchiveIInv, DerivedInv, DerivedAt
      <4>2. archives'[i].status = "CLOTURE"
        BY <2>1, <3>1, <3>2 DEF ArchiveDoc
      <4>3. QED
        BY <4>1, <4>2
    <3>3. CASE i # editor[e].on
      BY <2>1, <3>1, <3>3
    <3>4. QED
      BY <3>2, <3>3
  <2>8. CASE UNCHANGED archives
    BY <2>8
  <2>9. ASSUME NEW e \in Editors, ArchiveEdit(e)
        PROVE  \/ ApplyDerivedCompletude(e) \/ ClotureWrite(e) \/ UNCHANGED archives
               \/ \E doc \in DocTypes : UploadWrite(e, doc)
               \/ \E k \in DOMAIN archives, doc \in DocTypes : RemoveDoc(e, k, doc)
    BY <2>9 DEF ArchiveEdit, UploadBegin, ClotureRead, DriveFails
  <2>10. ASSUME NEW e \in Editors, ArchiveEdit(e)
         PROVE  /\ archives[i].status = "CLOTURE" => archives'[i].status = "CLOTURE"
                /\ ~crossed[i] /\ archives[i].status # "CLOTURE" /\ archives'[i].status = "CLOTURE" =>
                       AllDocsThere(archives[i])
    BY <2>5, <2>6, <2>7, <2>8, <2>9, <2>10
  <2>11. QED
    BY <2>4, <2>8, <2>10
       DEF ArchiveNext, DigestPost, DigestSave, NewDay, MigrateBegin, MigrateEnd
<1>2. ArchiveIInv /\ [ArchiveNext]_archiveVars => [ClosedStays /\ ClosedOnlyComplete]_archiveVars
  BY <1>1 DEF ClosedStays, ClosedOnlyComplete
<1>3. QED
  BY <1>2, ArchiveInitInv, ArchiveStepInv, PTL DEF ArchiveSpec

(***************************************************************************)
(* The morning job.                                                        *)
(***************************************************************************)

Steps == {"waiting", "check", "alert", "escalate", "list", "reserve", "append", "meta",
          "create", "header", "again", "bell", "discord", "done"}
Early == {"waiting", "check", "alert", "escalate", "list", "done"}
Unsent == {"reserve", "append", "meta", "create", "header", "again"}
RunState == [at: Steps, date: Mornings, todo: SUBSET (WatchedDis \cup Reservations),
             on: SUBSET WatchedDis, fresh: SUBSET Reservations, seen: BOOLEAN,
             tries: 0..(AppendAttempts - 1)]

StagnationTypes ==
    /\ morning \in Mornings
    /\ watched \in [WatchedDis -> [status: OpenStatuses \cup {"closed"}, age: 0..AlertAge]]
    /\ jobRun \in [JobRuns -> RunState]
    /\ alerts \in [WatchedDis -> Nat] /\ lower \subseteq WatchedDis
    /\ dispatched \subseteq Reservations
    /\ tabs \in [Mornings -> {"none", "bare", "ready"}]
    /\ firstRow \in [Mornings -> SUBSET Reservations]
    /\ tabLines \in [Reservations -> Nat]
    /\ jobFaults \in 0..MaxJobFaults

\* What a run has in hand, at each of its steps.
RunHolds(run) ==
    /\ run.at = "reserve" => run.todo \subseteq Reservations /\ \A k \in run.todo : k[1] = run.date
    /\ run.fresh \subseteq dispatched /\ \A k \in run.fresh : k[1] = run.date
    /\ run.at \in Early => run.fresh = {}
    /\ run.at \in {"alert", "escalate"} => \E d \in WatchedDis : run.on = {d}
    /\ run.at \in {"header", "again"} => tabs[run.date] # "none"
HandInv == \A r \in JobRuns : RunHolds(jobRun[r])

\* A reservation is held by one run, and has no line before that run sends it.
LinesInv ==
    /\ \A r, q \in JobRuns : jobRun[r].fresh \cap jobRun[q].fresh # {} => r = q
    /\ \A k \in Reservations \ dispatched : tabLines[k] = 0
    /\ \A k \in Reservations \ retried : tabLines[k] <= 1
    /\ \A r \in JobRuns : jobRun[r].at \in Unsent =>
          \A k \in jobRun[r].fresh \ retried : tabLines[k] = 0
    /\ \A date \in Mornings : \A k \in firstRow[date] : k[1] = date /\ tabLines[k] >= 1
    /\ \A date \in Mornings : tabs[date] = "none" => firstRow[date] = {}

\* A run alone writes its header over no line, and a reservation whose run is past the
\* sending has its line.
ToSend(k) == \E r \in JobRuns : jobRun[r].at \in Unsent /\ k \in jobRun[r].fresh
AloneInv == ~together =>
    /\ \A r, q \in JobRuns : Active(r) /\ Active(q) => r = q
    /\ \A r \in JobRuns : jobRun[r].at = "header" => firstRow[jobRun[r].date] = {}
    /\ \A k \in dispatched \ (spoiled \cup retried) : tabLines[k] = 1 \/ ToSend(k)

\* A run alone creates an alert for a DI that has none, and goes on to its older tiers.
AlertsInv == ~together =>
    /\ \A d \in WatchedDis : alerts[d] <= 1
    /\ \A r \in JobRuns : jobRun[r].at = "alert" /\ ~jobRun[r].seen =>
          \A d \in jobRun[r].on : alerts[d] = 0
    /\ ~alertFault => \A d \in WatchedDis : alerts[d] = 1 /\ d \in lower =>
          \E r \in JobRuns : jobRun[r].at = "escalate" /\ d \in jobRun[r].on

StagnationIInv == StagnationTypes /\ HandInv /\ LinesInv /\ AloneInv /\ AlertsInv

----------------------------------------------------------------------------
(* Helpers.                                                                *)

LEMMA JobFaultTyped ==
    ASSUME StagnationTypes, JobFault PROVE jobFaults' \in 0..MaxJobFaults
  BY StagnationBounds DEF StagnationTypes, JobFault

LEMMA NewRunTyped ==
    NewRun \in RunState /\ NewRun.at = "waiting" /\ NewRun.fresh = {}
  BY StagnationBounds DEF NewRun, RunState, Steps, Mornings, AppendAttempts

\* What a step that moves one run does to the others.
LEMMA RunMoved ==
    ASSUME StagnationTypes, NEW r \in JobRuns, NEW state \in RunState,
           jobRun' = [jobRun EXCEPT ![r] = state]
    PROVE  /\ jobRun' \in [JobRuns -> RunState]
           /\ jobRun'[r] = state
           /\ \A q \in JobRuns \ {r} : jobRun'[q] = jobRun[q]
  BY DEF StagnationTypes

\* A run that goes to another step keeps what it has in hand.
LEMMA RunGoes ==
    ASSUME StagnationTypes, NEW r \in JobRuns, NEW at \in Steps, Goes(r, at)
    PROVE  \E state \in RunState :
              /\ jobRun' = [jobRun EXCEPT ![r] = state]
              /\ state.at = at /\ state.date = jobRun[r].date /\ state.todo = jobRun[r].todo
              /\ state.on = jobRun[r].on /\ state.fresh = jobRun[r].fresh
              /\ state.seen = jobRun[r].seen
<1> DEFINE state == [jobRun[r] EXCEPT !.at = at]
<1>1. jobRun[r] \in RunState
  BY DEF StagnationTypes
<1>2. /\ state \in RunState
      /\ state.at = at /\ state.date = jobRun[r].date /\ state.todo = jobRun[r].todo
      /\ state.on = jobRun[r].on /\ state.fresh = jobRun[r].fresh
      /\ state.seen = jobRun[r].seen
  BY <1>1 DEF RunState
<1>3. jobRun' = [jobRun EXCEPT ![r] = state]
  BY DEF Goes
<1> HIDE DEF state
<1>4. QED
  BY <1>2, <1>3

\* A run moves and sends nothing.
LEMMA MoveReport ==
    ASSUME StagnationIInv, NEW r \in JobRuns, NEW state \in RunState,
           jobRun' = [jobRun EXCEPT ![r] = state],
           UNCHANGED <<dispatched, tabs, firstRow, tabLines, retried>>,
           RunHolds(state), state.fresh \subseteq jobRun[r].fresh, state.at # "header",
           state.at \in Unsent => jobRun[r].at \in Unsent \/ state.fresh = {},
           ~together' => ~together /\ (\/ state.at \in {"waiting", "done"}
                                      \/ Active(r) \/ \A q \in JobRuns : ~Active(q)),
           spoiled \subseteq spoiled',
           jobRun[r].at \in Unsent => \/ state.at \in Unsent /\ state.fresh = jobRun[r].fresh
                                      \/ jobRun[r].fresh \subseteq spoiled'
    PROVE  HandInv' /\ LinesInv' /\ AloneInv'
<1> USE DEF StagnationIInv
<1>1. /\ jobRun' \in [JobRuns -> RunState]
      /\ jobRun'[r] = state
      /\ \A q \in JobRuns \ {r} : jobRun'[q] = jobRun[q]
  BY RunMoved
<1>2. HandInv'
  BY <1>1 DEF HandInv, RunHolds
<1>3. LinesInv'
  <2>1. \A q \in JobRuns : jobRun'[q].fresh \subseteq jobRun[q].fresh
    BY <1>1
  <2>2. \A q \in JobRuns : jobRun'[q].at \in Unsent =>
           jobRun[q].at \in Unsent \/ jobRun'[q].fresh = {}
    BY <1>1
  <2>3. QED
    BY <2>1, <2>2 DEF LinesInv
<1>4. ASSUME ~together'
      PROVE  /\ \A p, q \in JobRuns : Active(p)' /\ Active(q)' => p = q
             /\ \A q \in JobRuns : jobRun'[q].at = "header" => firstRow'[jobRun'[q].date] = {}
             /\ \A k \in dispatched' \ (spoiled' \cup retried') : tabLines'[k] = 1 \/ ToSend(k)'
  <2>1. /\ \A p, q \in JobRuns : Active(p) /\ Active(q) => p = q
        /\ \A q \in JobRuns : jobRun[q].at = "header" => firstRow[jobRun[q].date] = {}
        /\ \A k \in dispatched \ (spoiled \cup retried) : tabLines[k] = 1 \/ ToSend(k)
    BY <1>4 DEF AloneInv
  <2>2. \A p, q \in JobRuns : Active(p)' /\ Active(q)' => p = q
    <3>1. \A q \in JobRuns \ {r} : Active(q)' <=> Active(q)
      BY <1>1 DEF Active
    <3>2. Active(r)' => Active(r) \/ \A q \in JobRuns : ~Active(q)
      BY <1>1, <1>4 DEF Active
    <3>3. QED
      BY <2>1, <3>1, <3>2
  <2>3. \A q \in JobRuns : jobRun'[q].at = "header" => firstRow'[jobRun'[q].date] = {}
    BY <1>1, <2>1
  <2>4. ASSUME NEW k \in dispatched' \ (spoiled' \cup retried'), tabLines'[k] # 1
        PROVE  ToSend(k)'
    <3>1. PICK q \in JobRuns : jobRun[q].at \in Unsent /\ k \in jobRun[q].fresh
      BY <2>1, <2>4 DEF ToSend
    <3>2. jobRun'[q].at \in Unsent /\ k \in jobRun'[q].fresh
      BY <1>1, <2>4, <3>1
    <3>3. QED
      BY <3>2 DEF ToSend
  <2>5. QED
    BY <2>2, <2>3, <2>4
<1>5. AloneInv'
  BY <1>4 DEF AloneInv
<1>6. QED
  BY <1>2, <1>3, <1>5

\* A run moves, and nothing else but the marks of the faults.
LEMMA RunMoves ==
    ASSUME StagnationIInv, NEW r \in JobRuns, NEW state \in RunState,
           jobRun' = [jobRun EXCEPT ![r] = state],
           UNCHANGED <<morning, watched, alerts, lower, dispatched, tabs, firstRow, tabLines, retried>>,
           jobFaults' \in 0..MaxJobFaults,
           RunHolds(state), state.fresh \subseteq jobRun[r].fresh, state.at # "header",
           state.at \in Unsent => jobRun[r].at \in Unsent \/ state.fresh = {},
           ~together' => ~together /\ (\/ state.at \in {"waiting", "done"}
                                      \/ Active(r) \/ \A q \in JobRuns : ~Active(q)),
           spoiled \subseteq spoiled',
           jobRun[r].at \in Unsent => \/ state.at \in Unsent /\ state.fresh = jobRun[r].fresh
                                      \/ jobRun[r].fresh \subseteq spoiled',
           alertFault \/ jobRun[r].at = "escalate" => alertFault',
           state.at = "alert" /\ ~state.seen /\ ~together => \A d \in state.on : alerts[d] = 0
    PROVE  StagnationIInv'
<1>1. /\ jobRun' \in [JobRuns -> RunState]
      /\ jobRun'[r] = state
      /\ \A q \in JobRuns \ {r} : jobRun'[q] = jobRun[q]
  BY RunMoved DEF StagnationIInv
<1>2. StagnationTypes'
  BY <1>1 DEF StagnationIInv, StagnationTypes
<1>3. HandInv' /\ LinesInv' /\ AloneInv'
  BY MoveReport
<1>4. ASSUME ~together'
      PROVE  /\ \A d \in WatchedDis : alerts'[d] <= 1
             /\ \A q \in JobRuns : jobRun'[q].at = "alert" /\ ~jobRun'[q].seen =>
                   \A d \in jobRun'[q].on : alerts'[d] = 0
             /\ ~alertFault' => \A d \in WatchedDis : alerts'[d] = 1 /\ d \in lower' =>
                   \E q \in JobRuns : jobRun'[q].at = "escalate" /\ d \in jobRun'[q].on
  <2>1. AlertsInv /\ ~together
    BY <1>4 DEF StagnationIInv
  <2>2. \A q \in JobRuns : jobRun'[q].at = "alert" /\ ~jobRun'[q].seen =>
           \A d \in jobRun'[q].on : alerts'[d] = 0
    BY <1>1, <2>1 DEF AlertsInv
  <2>3. ASSUME ~alertFault', NEW d \in WatchedDis, alerts'[d] = 1, d \in lower'
        PROVE  \E q \in JobRuns : jobRun'[q].at = "escalate" /\ d \in jobRun'[q].on
    <3>1. PICK q \in JobRuns : jobRun[q].at = "escalate" /\ d \in jobRun[q].on
      BY <2>1, <2>3 DEF AlertsInv
    <3>2. q # r
      BY <2>3, <3>1
    <3>3. QED
      BY <1>1, <3>1, <3>2
  <2>4. QED
    BY <2>1, <2>2, <2>3 DEF AlertsInv
<1>5. AlertsInv'
  BY <1>4 DEF AlertsInv
<1>6. QED
  BY <1>2, <1>3, <1>5 DEF StagnationIInv

\* What a run holds, from the invariant.
LEMMA RunInHand ==
    ASSUME StagnationIInv, NEW r \in JobRuns
    PROVE  StagnationTypes /\ jobRun[r] \in RunState /\ RunHolds(jobRun[r])
  BY DEF StagnationIInv, StagnationTypes, HandInv

----------------------------------------------------------------------------
(* The monitor.                                                            *)

LEMMA StartJobInv ==
    ASSUME StagnationIInv, NEW r \in JobRuns, StartJob(r)
    PROVE  StagnationIInv'
<1> DEFINE state == [jobRun[r] EXCEPT !.at = "check", !.todo = Stagnant(AlertAge)]
<1>1. StagnationTypes /\ jobRun[r] \in RunState /\ RunHolds(jobRun[r]) /\ jobRun[r].at = "waiting"
  BY RunInHand DEF StartJob
<1>2. state \in RunState /\ state.at = "check" /\ state.fresh = jobRun[r].fresh
  <2>1. Stagnant(AlertAge) \subseteq WatchedDis
    BY DEF Stagnant
  <2>2. QED
    BY <1>1, <2>1 DEF RunState, Steps
<1>3. /\ jobRun' = [jobRun EXCEPT ![r] = state]
      /\ UNCHANGED <<morning, watched, moves, jobFaults, reportVars, alertVars>>
      /\ ~together' => ~together /\ \A q \in JobRuns : ~Active(q)
  BY DEF StartJob
<1>4. state.fresh = {}
  BY <1>1, <1>2 DEF RunHolds, Early
<1> HIDE DEF state
<1>5. RunHolds(state)
  BY <1>2, <1>4 DEF RunHolds
<1>6. QED
  BY <1>1, <1>2, <1>3, <1>4, <1>5, RunMoves DEF reportVars, alertVars, Unsent, StagnationTypes

LEMMA CheckAlertInv ==
    ASSUME StagnationIInv, NEW r \in JobRuns, NEW d \in WatchedDis, CheckAlert(r, d)
    PROVE  StagnationIInv'
<1>1. StagnationTypes /\ jobRun[r] \in RunState /\ RunHolds(jobRun[r]) /\ jobRun[r].at = "check"
  BY RunInHand DEF CheckAlert
<1>2. PICK seen \in BOOLEAN : seen = Existing(d) /\ (seen <=> alerts[d] > 0)
  <2>1. Existing(d) \in BOOLEAN
    BY <1>1 DEF StagnationTypes, Existing
  <2>2. QED
    BY <2>1, Zenon DEF Existing
<1> DEFINE state == [jobRun[r] EXCEPT !.at = "alert", !.todo = @ \ {d}, !.on = {d}, !.seen = seen]
<1>3. state \in RunState /\ state.at = "alert" /\ state.fresh = jobRun[r].fresh /\ state.on = {d}
      /\ state.seen = seen
  BY <1>1 DEF RunState, Steps
<1>4. /\ jobRun' = [jobRun EXCEPT ![r] = state]
      /\ UNCHANGED <<morning, watched, moves, together, jobFaults, reportVars, alertVars>>
  BY <1>2 DEF CheckAlert
<1>5. state.fresh = {}
  BY <1>1, <1>3 DEF RunHolds, Early
<1> HIDE DEF state
<1>6. RunHolds(state)
  BY <1>3, <1>5 DEF RunHolds, Early
<1>7. ~seen => alerts[d] = 0
  BY <1>1, <1>2 DEF StagnationTypes
<1>8. ~state.seen => \A c \in state.on : alerts[c] = 0
  BY <1>3, <1>7
<1>9. Active(r)
  BY <1>1 DEF Active
<1>10. QED
  BY <1>1, <1>3, <1>4, <1>5, <1>6, <1>8, <1>9, RunMoves
     DEF reportVars, alertVars, Unsent, StagnationTypes

\* The alert is created unless one was seen.
LEMMA CreateAlertInv ==
    ASSUME StagnationIInv, NEW r \in JobRuns, NEW d \in WatchedDis, CreateAlert(r, d)
    PROVE  StagnationIInv'
<1>1. StagnationTypes /\ jobRun[r] \in RunState /\ RunHolds(jobRun[r]) /\ jobRun[r].at = "alert"
      /\ jobRun[r].on = {d}
  BY RunInHand DEF CreateAlert, RunHolds
<1>2. PICK state \in RunState :
         /\ jobRun' = [jobRun EXCEPT ![r] = state]
         /\ state.at = "escalate" /\ state.date = jobRun[r].date /\ state.todo = jobRun[r].todo
         /\ state.on = jobRun[r].on /\ state.fresh = jobRun[r].fresh /\ state.seen = jobRun[r].seen
  BY <1>1, RunGoes DEF CreateAlert, Steps
<1>3. /\ alerts' = [alerts EXCEPT ![d] = IF jobRun[r].seen THEN @ ELSE @ + 1]
      /\ UNCHANGED <<morning, watched, moves, together, jobFaults, lower, alertFault, reportVars>>
  BY DEF CreateAlert
<1>4. state.fresh = {} /\ Active(r)
  BY <1>1, <1>2 DEF RunHolds, Early, Active
<1>5. RunHolds(state)
  BY <1>1, <1>2, <1>4 DEF RunHolds
<1>6. HandInv' /\ LinesInv' /\ AloneInv'
  BY <1>1, <1>2, <1>3, <1>4, <1>5, MoveReport DEF reportVars, Unsent
<1>7. /\ jobRun' \in [JobRuns -> RunState] /\ jobRun'[r] = state
      /\ \A q \in JobRuns \ {r} : jobRun'[q] = jobRun[q]
  BY <1>1, <1>2, RunMoved
<1>8. /\ alerts' \in [WatchedDis -> Nat]
      /\ \A c \in WatchedDis \ {d} : alerts'[c] = alerts[c]
      /\ alerts'[d] = IF jobRun[r].seen THEN alerts[d] ELSE alerts[d] + 1
  BY <1>1, <1>3 DEF StagnationTypes
<1>9. StagnationTypes'
  BY <1>1, <1>3, <1>7, <1>8 DEF StagnationTypes, reportVars
<1>10. ASSUME ~together'
       PROVE  /\ \A c \in WatchedDis : alerts'[c] <= 1
              /\ \A q \in JobRuns : jobRun'[q].at = "alert" /\ ~jobRun'[q].seen =>
                    \A c \in jobRun'[q].on : alerts'[c] = 0
              /\ ~alertFault' => \A c \in WatchedDis : alerts'[c] = 1 /\ c \in lower' =>
                    \E q \in JobRuns : jobRun'[q].at = "escalate" /\ c \in jobRun'[q].on
  <2>1. AlertsInv /\ AloneInv /\ ~together
    BY <1>3, <1>10 DEF StagnationIInv
  <2>2. ~jobRun[r].seen => alerts[d] = 0
    BY <1>1, <2>1 DEF AlertsInv
  <2>3. \A c \in WatchedDis : alerts'[c] <= 1
    BY <1>8, <2>1, <2>2 DEF AlertsInv
  <2>4. \A q \in JobRuns : jobRun'[q].at # "alert"
    BY <1>2, <1>4, <1>7, <2>1 DEF AloneInv, Active
  <2>5. ASSUME ~alertFault', NEW c \in WatchedDis, alerts'[c] = 1, c \in lower'
        PROVE  \E q \in JobRuns : jobRun'[q].at = "escalate" /\ c \in jobRun'[q].on
    <3>1. CASE c = d
      BY <1>1, <1>2, <1>7, <3>1
    <3>2. CASE c # d
      <4>1. PICK q \in JobRuns : jobRun[q].at = "escalate" /\ c \in jobRun[q].on
        BY <1>3, <1>8, <2>1, <2>5, <3>2 DEF AlertsInv
      <4>2. q # r
        BY <1>1, <4>1
      <4>3. QED
        BY <1>7, <4>1, <4>2
    <3>3. QED
      BY <3>1, <3>2
  <2>6. QED
    BY <2>3, <2>4, <2>5
<1>11. AlertsInv'
  BY <1>10 DEF AlertsInv
<1>12. QED
  BY <1>6, <1>9, <1>11 DEF StagnationIInv

LEMMA ResolveLowerInv ==
    ASSUME StagnationIInv, NEW r \in JobRuns, NEW d \in WatchedDis, ResolveLower(r, d)
    PROVE  StagnationIInv'
<1> DEFINE state == [jobRun[r] EXCEPT !.at = "check", !.on = {}]
<1>1. StagnationTypes /\ jobRun[r] \in RunState /\ RunHolds(jobRun[r])
      /\ jobRun[r].at = "escalate" /\ jobRun[r].on = {d}
  BY RunInHand DEF ResolveLower, RunHolds
<1>2. state \in RunState /\ state.at = "check" /\ state.fresh = jobRun[r].fresh
  BY <1>1 DEF RunState, Steps
<1>3. /\ jobRun' = [jobRun EXCEPT ![r] = state] /\ lower' = lower \ {d}
      /\ UNCHANGED <<morning, watched, moves, together, jobFaults, alerts, alertFault, reportVars>>
  BY DEF ResolveLower, Escalated
<1> HIDE DEF state
<1>4. state.fresh = {} /\ Active(r)
  BY <1>1, <1>2 DEF RunHolds, Early, Active
<1>5. RunHolds(state)
  BY <1>1, <1>2, <1>4 DEF RunHolds
<1>6. HandInv' /\ LinesInv' /\ AloneInv'
  BY <1>1, <1>2, <1>3, <1>4, <1>5, MoveReport DEF reportVars, Unsent
<1>7. /\ jobRun' \in [JobRuns -> RunState] /\ jobRun'[r] = state
      /\ \A q \in JobRuns \ {r} : jobRun'[q] = jobRun[q]
  BY <1>1, <1>2, <1>3, RunMoved
<1>8. StagnationTypes'
  BY <1>1, <1>3, <1>7 DEF StagnationTypes, reportVars
<1>9. ASSUME ~together, AlertsInv, ~alertFault, NEW c \in WatchedDis, alerts[c] = 1, c \in lower'
      PROVE  \E q \in JobRuns : jobRun'[q].at = "escalate" /\ c \in jobRun'[q].on
  <2>1. PICK q \in JobRuns : jobRun[q].at = "escalate" /\ c \in jobRun[q].on
    BY <1>3, <1>9 DEF AlertsInv
  <2>2. q # r
    BY <1>1, <1>3, <1>9, <2>1
  <2>3. QED
    BY <1>7, <2>1, <2>2
<1>10. AlertsInv'
  <2>1. \A q \in JobRuns : jobRun'[q].at = "alert" => jobRun'[q] = jobRun[q]
    BY <1>2, <1>7
  <2>2. QED
    BY <1>3, <1>9, <2>1 DEF AlertsInv, StagnationIInv
<1>11. QED
  BY <1>6, <1>8, <1>10 DEF StagnationIInv

\* The monitor ends or fails.
LEMMA MonitorEndInv ==
    ASSUME StagnationIInv, NEW r \in JobRuns, EndMonitor(r) \/ MonitorFails(r)
    PROVE  StagnationIInv'
<1>1. StagnationTypes /\ jobRun[r] \in RunState /\ RunHolds(jobRun[r])
      /\ jobRun[r].at \in {"check", "alert", "escalate"}
  BY RunInHand DEF EndMonitor, MonitorFails
<1>2. /\ Goes(r, "list")
      /\ UNCHANGED <<morning, watched, moves, together, alerts, lower, reportVars>>
      /\ alertFault \/ jobRun[r].at = "escalate" => alertFault'
  BY DEF EndMonitor, MonitorFails, alertVars
<1>3. PICK state \in RunState :
         /\ jobRun' = [jobRun EXCEPT ![r] = state]
         /\ state.at = "list" /\ state.fresh = jobRun[r].fresh
  BY <1>1, <1>2, RunGoes DEF Steps
<1>4. state.fresh = {} /\ Active(r)
  BY <1>1, <1>3 DEF RunHolds, Early, Active
<1>5. RunHolds(state)
  BY <1>3, <1>4 DEF RunHolds
<1>6. jobFaults' \in 0..MaxJobFaults
  BY <1>1, JobFaultTyped DEF EndMonitor, MonitorFails, StagnationTypes
<1>7. QED
  BY <1>1, <1>2, <1>3, <1>4, <1>5, <1>6, RunMoves DEF reportVars, Unsent

----------------------------------------------------------------------------
(* The report: the steps that write nothing.                               *)

LEMMA ListStagnantInv ==
    ASSUME StagnationIInv, NEW r \in JobRuns, ListStagnant(r)
    PROVE  StagnationIInv'
<1> DEFINE todo == {<<morning, d, watched[d].status>> : d \in Stagnant(ReportAge)}
           state == [NewRun EXCEPT !.at = "reserve", !.date = morning, !.todo = todo]
<1>1. StagnationTypes /\ jobRun[r] \in RunState /\ RunHolds(jobRun[r]) /\ jobRun[r].at = "list"
  BY RunInHand DEF ListStagnant
<1>2. todo \subseteq Reservations /\ \A k \in todo : k[1] = morning
  <2>1. \A d \in Stagnant(ReportAge) : d \in WatchedDis /\ watched[d].status \in OpenStatuses
    BY <1>1 DEF Stagnant, StagnationTypes
  <2>2. QED
    BY <1>1, <2>1 DEF Reservations, StagnationTypes
<1>3. jobRun' = [jobRun EXCEPT ![r] = state]
      /\ UNCHANGED <<morning, watched, moves, together, jobFaults, reportVars, alertVars>>
  BY DEF ListStagnant
<1> HIDE DEF todo
<1>4. state \in RunState /\ state.at = "reserve" /\ state.date = morning /\ state.todo = todo
      /\ state.fresh = {}
  <2>1. morning \in Mornings
    BY <1>1 DEF StagnationTypes
  <2>2. QED
    BY <1>2, <2>1, NewRunTyped DEF RunState, Steps
<1> HIDE DEF state
<1>5. RunHolds(state) /\ Active(r)
  BY <1>1, <1>2, <1>4 DEF RunHolds, Early, Active
<1>6. QED
  BY <1>1, <1>3, <1>4, <1>5, RunMoves DEF reportVars, alertVars, StagnationTypes, Unsent

\* A run of the report goes on with what it holds, or gives its lines up as spoiled.
LEMMA ReportGoesOn ==
    ASSUME StagnationIInv, NEW r \in JobRuns, NEW state \in RunState,
           jobRun[r].at \in Unsent \cup {"bell", "discord"},
           jobRun' = [jobRun EXCEPT ![r] = state],
           state.date = jobRun[r].date, state.fresh = jobRun[r].fresh,
           state.at \in {"append", "meta", "create", "again", "bell", "discord"},
           state.at \in Unsent => jobRun[r].at \in Unsent,
           state.at = "again" => tabs[jobRun[r].date] # "none",
           state.at \in {"bell", "discord"} =>
               jobRun[r].at \in {"bell", "discord"} \/ jobRun[r].fresh \subseteq spoiled',
           spoiled \subseteq spoiled', jobFaults' \in 0..MaxJobFaults,
           UNCHANGED <<morning, watched, together, dispatched, tabs, firstRow, tabLines, retried,
                       alertVars>>
    PROVE  StagnationIInv'
<1>1. StagnationTypes /\ jobRun[r] \in RunState /\ RunHolds(jobRun[r]) /\ Active(r)
  BY RunInHand DEF Unsent, Active
<1>2. RunHolds(state)
  BY <1>1 DEF RunHolds, Early
<1>3. jobRun[r].at \in Unsent => \/ state.at \in Unsent /\ state.fresh = jobRun[r].fresh
                                 \/ jobRun[r].fresh \subseteq spoiled'
  BY DEF Unsent
<1>4. QED
  BY <1>1, <1>2, <1>3, RunMoves DEF alertVars, Unsent

\* The reservations end, and the run has lines to send or not.
LEMMA EndReserveInv ==
    ASSUME StagnationIInv, NEW r \in JobRuns, EndReserve(r)
    PROVE  StagnationIInv'
<1>1. StagnationTypes /\ jobRun[r] \in RunState /\ RunHolds(jobRun[r]) /\ jobRun[r].at = "reserve"
  BY RunInHand DEF EndReserve
<1>2. PICK at \in {"done", "append"} : Goes(r, at) /\ (at = "done" => jobRun[r].fresh = {})
  BY DEF EndReserve
<1>3. UNCHANGED <<morning, watched, moves, together, jobFaults, reportVars, alertVars>>
  BY DEF EndReserve
<1>4. PICK state \in RunState :
         /\ jobRun' = [jobRun EXCEPT ![r] = state]
         /\ state.at = at /\ state.date = jobRun[r].date /\ state.fresh = jobRun[r].fresh
  BY <1>1, <1>2, RunGoes DEF Steps
<1>5. CASE at = "append"
  BY <1>1, <1>3, <1>4, <1>5, ReportGoesOn DEF Unsent, reportVars, StagnationTypes
<1>6. CASE at = "done"
  <2>1. RunHolds(state) /\ Active(r)
    BY <1>1, <1>2, <1>4, <1>6 DEF RunHolds, Active
  <2>2. QED
    BY <1>1, <1>2, <1>3, <1>4, <1>6, <2>1, RunMoves
       DEF Unsent, reportVars, alertVars, StagnationTypes
<1>7. QED
  BY <1>5, <1>6

\* A missing tab is noticed, its title read, a run gives its lines up, the bell rings.
LEMMA PlainStepInv ==
    ASSUME StagnationIInv, NEW r \in JobRuns,
           \/ Append1(r) /\ tabs[jobRun[r].date] = "none"
           \/ AppendTransient(r, FALSE) \/ SheetFails(r) \/ ReadMeta(r)
           \/ AddTab(r) /\ tabs[jobRun[r].date] # "none"
           \/ Bell(r)
    PROVE  StagnationIInv'
<1>1. StagnationTypes /\ jobRun[r] \in RunState /\ RunHolds(jobRun[r])
  BY RunInHand
<1>2. UNCHANGED <<morning, watched, together, dispatched, tabs, firstRow, tabLines, retried, alertVars>>
  BY DEF Append1, AppendTransient, SheetFails, ReadMeta, AddTab, Bell, reportVars
<1>3. jobFaults' \in 0..MaxJobFaults
  BY <1>1, JobFaultTyped
     DEF Append1, AppendTransient, SheetFails, ReadMeta, AddTab, Bell, StagnationTypes
<1>4. spoiled \subseteq spoiled'
  BY DEF Append1, AppendTransient, SheetFails, ReadMeta, AddTab, Bell, reportVars
<1>5. CASE Append1(r) /\ tabs[jobRun[r].date] = "none"
  <2>1. Goes(r, "meta") /\ jobRun[r].at = "append"
    BY <1>5 DEF Append1
  <2>2. PICK state \in RunState :
           /\ jobRun' = [jobRun EXCEPT ![r] = state]
           /\ state.at = "meta" /\ state.date = jobRun[r].date /\ state.fresh = jobRun[r].fresh
    BY <1>1, <2>1, RunGoes DEF Steps
  <2>3. QED
    BY <1>1, <1>2, <1>3, <1>4, <2>1, <2>2, ReportGoesOn DEF Unsent
<1>6. CASE AppendTransient(r, FALSE)
  <2>1. jobRun[r].at = "append"
    BY <1>6 DEF AppendTransient
  <2>2. CASE jobRun[r].tries + 1 < AppendAttempts
    <3> DEFINE state == [jobRun[r] EXCEPT !.tries = @ + 1]
    <3>1. jobRun' = [jobRun EXCEPT ![r] = state]
      BY <1>6, <2>2 DEF AppendTransient
    <3>2. /\ state \in RunState /\ state.at = "append"
          /\ state.date = jobRun[r].date /\ state.fresh = jobRun[r].fresh
      BY <1>1, <2>1, <2>2 DEF RunState, AppendAttempts
    <3> HIDE DEF state
    <3>3. QED
      BY <1>1, <1>2, <1>3, <1>4, <2>1, <3>1, <3>2, ReportGoesOn DEF Unsent
  <2>3. CASE ~(jobRun[r].tries + 1 < AppendAttempts)
    <3>1. Goes(r, "bell") /\ jobRun[r].fresh \subseteq spoiled'
      BY <1>6, <2>3 DEF AppendTransient
    <3>2. PICK state \in RunState :
             /\ jobRun' = [jobRun EXCEPT ![r] = state]
             /\ state.at = "bell" /\ state.date = jobRun[r].date /\ state.fresh = jobRun[r].fresh
      BY <1>1, <3>1, RunGoes DEF Steps
    <3>3. QED
      BY <1>1, <1>2, <1>3, <1>4, <2>1, <3>1, <3>2, ReportGoesOn DEF Unsent
  <2>4. QED
    BY <2>2, <2>3
<1>7. CASE SheetFails(r) \/ (AddTab(r) /\ tabs[jobRun[r].date] # "none") \/ Bell(r)
  <2>1. PICK at \in {"bell", "discord"} :
           /\ Goes(r, at)
           /\ \/ jobRun[r].at \in Unsent /\ jobRun[r].fresh \subseteq spoiled'
              \/ jobRun[r].at = "bell"
    BY <1>7 DEF SheetFails, AddTab, Bell, Unsent
  <2>2. PICK state \in RunState :
           /\ jobRun' = [jobRun EXCEPT ![r] = state]
           /\ state.at = at /\ state.date = jobRun[r].date /\ state.fresh = jobRun[r].fresh
    BY <1>1, <2>1, RunGoes DEF Steps
  <2>3. QED
    BY <1>1, <1>2, <1>3, <1>4, <2>1, <2>2, ReportGoesOn DEF Unsent
<1>8. CASE ReadMeta(r)
  <2>1. PICK at \in {"create", "again"} :
           /\ Goes(r, at) /\ (at = "again" => tabs[jobRun[r].date] # "none")
           /\ jobRun[r].at = "meta"
    BY <1>8 DEF ReadMeta
  <2>2. PICK state \in RunState :
           /\ jobRun' = [jobRun EXCEPT ![r] = state]
           /\ state.at = at /\ state.date = jobRun[r].date /\ state.fresh = jobRun[r].fresh
    BY <1>1, <2>1, RunGoes DEF Steps
  <2>3. QED
    BY <1>1, <1>2, <1>3, <1>4, <2>1, <2>2, ReportGoesOn DEF Unsent
<1>9. QED
  BY <1>5, <1>6, <1>7, <1>8

\* A run ends, or its process stops.
LEMMA RunEndInv ==
    ASSUME StagnationIInv, NEW r \in JobRuns, DiscordLine(r) \/ LoseJob(r)
    PROVE  StagnationIInv'
<1> DEFINE state == [NewRun EXCEPT !.at = "done"]
<1>1. StagnationTypes /\ jobRun[r] \in RunState /\ RunHolds(jobRun[r])
  BY RunInHand
<1>2. /\ jobRun' = [jobRun EXCEPT ![r] = state] /\ Active(r)
      /\ UNCHANGED <<morning, watched, together, alerts, lower, dispatched, tabs, firstRow,
                     tabLines, retried>>
      /\ spoiled \subseteq spoiled'
      /\ jobRun[r].at = "discord" \/ jobRun[r].fresh \subseteq spoiled'
      /\ alertFault \/ jobRun[r].at = "escalate" => alertFault'
  <2>1. CASE DiscordLine(r)
    BY <2>1 DEF DiscordLine, Active, reportVars, alertVars
  <2>2. CASE LoseJob(r)
    <3>1. alertFault \/ jobRun[r].at = "escalate" => alertFault'
      <4>1. jobRun[r].at = "escalate" => jobRun[r].at \in {"check", "alert", "escalate"}
        OBVIOUS
      <4>2. QED
        BY <2>2, <4>1, Zenon DEF LoseJob
    <3>2. QED
      BY <2>2, <3>1 DEF LoseJob
  <2>3. QED
    BY <2>1, <2>2
<1>3. jobFaults' \in 0..MaxJobFaults
  BY <1>1, JobFaultTyped DEF DiscordLine, LoseJob, StagnationTypes
<1>4. state \in RunState /\ state.at = "done" /\ state.fresh = {}
  BY NewRunTyped DEF RunState, Steps
<1> HIDE DEF state
<1>5. RunHolds(state)
  BY <1>4 DEF RunHolds
<1>6. QED
  BY <1>1, <1>2, <1>3, <1>4, <1>5, RunMoves DEF Unsent

----------------------------------------------------------------------------
(* The report: the steps that write.                                       *)

\* A run of the report moves, and the alerts are left alone.
LEMMA AlertsAside ==
    ASSUME StagnationIInv, NEW r \in JobRuns, NEW state \in RunState,
           jobRun[r].at \in Unsent, jobRun' = [jobRun EXCEPT ![r] = state], state.at # "alert",
           UNCHANGED <<together, alertVars>>
    PROVE  AlertsInv'
<1>1. /\ jobRun'[r] = state
      /\ \A q \in JobRuns \ {r} : jobRun'[q] = jobRun[q]
      /\ jobRun[r].at # "escalate"
  BY RunMoved DEF StagnationIInv, Unsent
<1>2. \A q \in JobRuns, d \in WatchedDis :
         jobRun[q].at = "escalate" /\ d \in jobRun[q].on =>
             jobRun'[q].at = "escalate" /\ d \in jobRun'[q].on
  BY <1>1
<1>3. \A q \in JobRuns : jobRun'[q].at = "alert" => jobRun'[q] = jobRun[q]
  BY <1>1
<1>4. ASSUME AlertsInv, ~together, ~alertFault, NEW d \in WatchedDis, alerts[d] = 1, d \in lower
      PROVE  \E q \in JobRuns : jobRun'[q].at = "escalate" /\ d \in jobRun'[q].on
  BY <1>2, <1>4 DEF AlertsInv
<1>5. UNCHANGED <<together, alerts, lower, alertFault>>
  BY DEF alertVars
<1>6. QED
  BY <1>3, <1>4, <1>5 DEF AlertsInv, StagnationIInv

\* The run in hand is the only one that is under way, when they come one at a time.
LEMMA OnlyRun ==
    ASSUME StagnationIInv, ~together, NEW r \in JobRuns, Active(r),
           NEW q \in JobRuns, q # r
    PROVE  ~Active(q) /\ jobRun[q].at \notin Unsent
  BY DEF StagnationIInv, AloneInv, Active, Unsent

\* A new reservation is held by the run that makes it.
LEMMA ReserveInv ==
    ASSUME StagnationIInv, NEW r \in JobRuns, NEW k \in jobRun[r].todo, Reserve(r, k)
    PROVE  StagnationIInv'
<1> DEFINE fresh == IF Reservable(k) THEN jobRun[r].fresh \cup {k} ELSE jobRun[r].fresh
           state == [jobRun[r] EXCEPT !.todo = @ \ {k}, !.fresh = fresh]
<1>1. StagnationTypes /\ jobRun[r] \in RunState /\ RunHolds(jobRun[r]) /\ jobRun[r].at = "reserve"
  BY RunInHand DEF Reserve
<1>2. k \in Reservations /\ k[1] = jobRun[r].date
  BY <1>1 DEF RunHolds
<1>3. /\ jobRun' = [jobRun EXCEPT ![r] = state] /\ dispatched' = dispatched \cup {k}
      /\ UNCHANGED <<morning, watched, moves, together, jobFaults, tabs, firstRow, tabLines,
                     spoiled, retried, alertVars>>
  BY DEF Reserve
<1>4. /\ fresh \subseteq jobRun[r].fresh \cup {k} /\ jobRun[r].fresh \subseteq fresh
      /\ k \in fresh => k \notin dispatched \/ k \in jobRun[r].fresh
      /\ k \notin dispatched => k \in fresh
  BY DEF Reservable
<1> HIDE DEF fresh
<1>5. /\ state \in RunState /\ state.at = "reserve" /\ state.date = jobRun[r].date
      /\ state.todo = jobRun[r].todo \ {k} /\ state.fresh = fresh
  <2>1. fresh \in SUBSET Reservations
    BY <1>1, <1>2, <1>4 DEF RunState
  <2>2. QED
    BY <1>1, <2>1 DEF RunState
<1> HIDE DEF state
<1>6. /\ jobRun' \in [JobRuns -> RunState] /\ jobRun'[r] = state
      /\ \A q \in JobRuns \ {r} : jobRun'[q] = jobRun[q]
  BY <1>1, <1>3, <1>5, RunMoved
<1>7. StagnationTypes'
  BY <1>1, <1>2, <1>3, <1>6 DEF StagnationTypes, alertVars
<1>8. HandInv'
  <2>1. ASSUME NEW q \in JobRuns PROVE RunHolds(jobRun[q])'
    <3>1. CASE q = r
      <4>1. jobRun'[q] = state
        BY <1>6, <3>1
      <4>2. QED
        BY <1>1, <1>2, <1>3, <1>4, <1>5, <4>1 DEF RunHolds, Early
    <3>2. CASE q # r
      BY <1>3, <1>6, <3>2 DEF RunHolds, StagnationIInv, HandInv
    <3>3. QED
      BY <3>1, <3>2
  <2>2. QED
    BY <2>1 DEF HandInv
<1>9. LinesInv'
  <2>1. LinesInv /\ \A q \in JobRuns : jobRun[q].fresh \subseteq dispatched
    BY DEF StagnationIInv, HandInv, RunHolds
  <2>2. \A p, q \in JobRuns : jobRun'[p].fresh \cap jobRun'[q].fresh # {} => p = q
    <3>1. \A q \in JobRuns \ {r} : fresh \cap jobRun[q].fresh = {}
      BY <1>4, <2>1 DEF LinesInv
    <3>2. QED
      BY <1>5, <1>6, <2>1, <3>1 DEF LinesInv
  <2>3. ASSUME NEW q \in JobRuns, jobRun'[q].at \in Unsent, NEW c \in jobRun'[q].fresh \ retried
        PROVE  tabLines[c] = 0
    <3>1. CASE q = r /\ c = k
      <4>1. k \notin dispatched \/ k \in jobRun[r].fresh
        BY <1>4, <1>5, <1>6, <2>3, <3>1
      <4>2. QED
        BY <1>1, <1>2, <2>1, <2>3, <3>1, <4>1 DEF LinesInv, Unsent
    <3>2. CASE ~(q = r /\ c = k)
      <4>1. c \in jobRun[q].fresh /\ jobRun[q].at \in Unsent
        BY <1>1, <1>4, <1>5, <1>6, <2>3, <3>2 DEF Unsent
      <4>2. QED
        BY <2>1, <2>3, <4>1 DEF LinesInv
    <3>3. QED
      BY <3>1, <3>2
  <2>4. QED
    BY <1>3, <2>1, <2>2, <2>3 DEF LinesInv
<1>10. AloneInv'
  <2>1. \A q \in JobRuns : jobRun'[q].at = jobRun[q].at
    BY <1>1, <1>5, <1>6
  <2>2. \A q \in JobRuns : (Active(q)' <=> Active(q)) /\ jobRun'[q].date = jobRun[q].date
    BY <1>1, <1>5, <1>6, <2>1 DEF Active
  <2>3. ASSUME ~together, AloneInv, NEW c \in dispatched' \ (spoiled \cup retried)
        PROVE  tabLines[c] = 1 \/ \E q \in JobRuns : jobRun'[q].at \in Unsent /\ c \in jobRun'[q].fresh
    <3>1. CASE c \in dispatched
      <4>1. \A q \in JobRuns : jobRun[q].fresh \subseteq jobRun'[q].fresh
        BY <1>4, <1>5, <1>6
      <4>2. QED
        BY <2>1, <2>3, <3>1, <4>1 DEF AloneInv, ToSend
    <3>2. CASE c \notin dispatched
      BY <1>1, <1>3, <1>4, <1>5, <1>6, <2>3, <3>2 DEF Unsent
    <3>3. QED
      BY <3>1, <3>2
  <2>4. QED
    BY <1>3, <2>1, <2>2, <2>3 DEF AloneInv, ToSend, StagnationIInv
<1>11. AlertsInv'
  BY <1>1, <1>3, <1>5, AlertsAside DEF Unsent
<1>12. QED
  BY <1>7, <1>8, <1>9, <1>10, <1>11 DEF StagnationIInv

\* The lines of a run reach its tab.
LEMMA WrittenInv ==
    ASSUME StagnationIInv, NEW r \in JobRuns, NEW state \in RunState,
           jobRun[r].at \in {"append", "again"}, tabs[jobRun[r].date] # "none",
           jobRun' = [jobRun EXCEPT ![r] = state], Written(r),
           state.date = jobRun[r].date, state.fresh = jobRun[r].fresh,
           state.at \in {"bell", "append"},
           UNCHANGED <<morning, watched, together, dispatched, tabs, alertVars>>,
           jobFaults' \in 0..MaxJobFaults,
           spoiled \subseteq spoiled', retried \subseteq retried',
           state.at = "append" => jobRun[r].fresh \subseteq retried'
    PROVE  StagnationIInv'
<1> DEFINE fresh == jobRun[r].fresh
           date == jobRun[r].date
<1>1. StagnationTypes /\ jobRun[r] \in RunState /\ RunHolds(jobRun[r])
      /\ jobRun[r].at \in Unsent /\ Active(r)
  BY RunInHand DEF Unsent, Active
<1>2. /\ jobRun' \in [JobRuns -> RunState] /\ jobRun'[r] = state
      /\ \A q \in JobRuns \ {r} : jobRun'[q] = jobRun[q]
  BY <1>1, RunMoved
<1>3. /\ \A k \in fresh : k \in Reservations /\ k[1] = date
      /\ date \in Mornings
  BY <1>1 DEF RunState, RunHolds
<1>4. /\ tabLines' \in [Reservations -> Nat]
      /\ \A k \in fresh : tabLines'[k] = tabLines[k] + 1
      /\ \A k \in Reservations \ fresh : tabLines'[k] = tabLines[k]
  BY <1>1, <1>3 DEF Written, StagnationTypes
<1>5. /\ firstRow' \in [Mornings -> SUBSET Reservations]
      /\ \A c \in Mornings : firstRow'[c] = firstRow[c] \/ (c = date /\ firstRow'[c] = fresh)
  BY <1>1, <1>3 DEF Written, StagnationTypes
<1>6. StagnationTypes'
  BY <1>1, <1>2, <1>4, <1>5 DEF StagnationTypes, alertVars
<1>7. LinesInv /\ AloneInv
      /\ \A k \in fresh \ retried : tabLines[k] = 0
  BY <1>1 DEF StagnationIInv, LinesInv
<1>8. HandInv'
  <2>1. ASSUME NEW q \in JobRuns PROVE RunHolds(jobRun[q])'
    <3>1. CASE q = r
      <4>1. jobRun'[q] = state
        BY <1>2, <3>1
      <4>2. QED
        BY <1>1, <4>1 DEF RunHolds, Early
    <3>2. CASE q # r
      BY <1>2, <3>2 DEF RunHolds, StagnationIInv, HandInv
    <3>3. QED
      BY <3>1, <3>2
  <2>2. QED
    BY <2>1 DEF HandInv
<1>9. LinesInv'
  <2>1. \A q \in JobRuns : jobRun'[q].fresh = jobRun[q].fresh
    BY <1>2
  <2>2. \A p, q \in JobRuns : jobRun'[p].fresh \cap jobRun'[q].fresh # {} => p = q
    BY <1>7, <2>1 DEF LinesInv
  <2>3. \A k \in Reservations \ dispatched : tabLines'[k] = 0
    BY <1>1, <1>4, <1>7 DEF LinesInv, RunHolds
  <2>4. \A k \in Reservations \ retried' : tabLines'[k] <= 1
    BY <1>3, <1>4, <1>7 DEF LinesInv
  <2>5. ASSUME NEW q \in JobRuns, jobRun'[q].at \in Unsent, NEW k \in jobRun'[q].fresh \ retried'
        PROVE  tabLines'[k] = 0
    <3>1. q # r
      BY <1>2, <2>5 DEF Unsent
    <3>2. k \notin fresh
      BY <1>7, <2>1, <2>5, <3>1 DEF LinesInv
    <3>3. k \in Reservations
      BY <1>2, <2>5 DEF RunState
    <3>4. QED
      BY <1>2, <1>4, <1>7, <2>5, <3>1, <3>2, <3>3 DEF LinesInv
  <2>6. ASSUME NEW c \in Mornings, NEW k \in firstRow'[c]
        PROVE  k[1] = c /\ tabLines'[k] >= 1
    <3>1. CASE k \in firstRow[c]
      <4>1. k \in Reservations /\ k[1] = c /\ tabLines[k] >= 1 /\ tabLines[k] \in Nat
        BY <1>1, <1>7, <3>1 DEF LinesInv, StagnationTypes
      <4>2. QED
        BY <1>4, <4>1
    <3>2. CASE c = date /\ k \in fresh
      <4>1. tabLines[k] \in Nat
        BY <1>1, <1>3, <3>2 DEF StagnationTypes
      <4>2. QED
        BY <1>3, <1>4, <3>2, <4>1
    <3>3. QED
      BY <1>5, <2>6, <3>1, <3>2
  <2>7. \A c \in Mornings : tabs'[c] = "none" => firstRow'[c] = {}
    BY <1>5, <1>7 DEF LinesInv
  <2>8. QED
    BY <2>2, <2>3, <2>4, <2>5, <2>6, <2>7 DEF LinesInv
<1>10. ASSUME ~together'
       PROVE  /\ \A p, q \in JobRuns : Active(p)' /\ Active(q)' => p = q
              /\ \A q \in JobRuns : jobRun'[q].at = "header" => firstRow'[jobRun'[q].date] = {}
              /\ \A k \in dispatched' \ (spoiled' \cup retried') : tabLines'[k] = 1
  <2>1. ~together /\ \A q \in JobRuns \ {r} : ~Active(q) /\ jobRun[q].at \notin Unsent
    BY <1>1, <1>10, OnlyRun
  <2>2. \A q \in JobRuns \ {r} : ~Active(q)'
    BY <1>2, <2>1 DEF Active
  <2>3. \A q \in JobRuns : jobRun'[q].at # "header"
    BY <1>2, <2>1 DEF Unsent
  <2>4. ASSUME NEW k \in dispatched' \ (spoiled' \cup retried')
        PROVE  tabLines'[k] = 1
    <3>1. k \in Reservations /\ k \in dispatched \ (spoiled \cup retried)
      BY <1>1, <2>4 DEF StagnationTypes
    <3>2. CASE k \in fresh
      BY <1>4, <1>7, <3>1, <3>2
    <3>3. CASE k \notin fresh
      <4>1. ~ToSend(k)
        BY <2>1, <3>3 DEF ToSend
      <4>2. QED
        BY <1>4, <1>7, <2>1, <3>1, <3>3, <4>1 DEF AloneInv
    <3>4. QED
      BY <3>2, <3>3
  <2>5. QED
    BY <2>2, <2>3, <2>4
<1>11. AloneInv'
  BY <1>10 DEF AloneInv
<1>12. AlertsInv'
  BY <1>1, AlertsAside
<1>13. QED
  BY <1>6, <1>8, <1>9, <1>11, <1>12 DEF StagnationIInv

\* The three ways the lines are written.
LEMMA WriteStepInv ==
    ASSUME StagnationIInv, NEW r \in JobRuns,
           \/ Append1(r) /\ tabs[jobRun[r].date] # "none"
           \/ AppendTransient(r, TRUE) \/ AppendAgain(r)
    PROVE  StagnationIInv'
<1>1. StagnationTypes /\ jobRun[r] \in RunState /\ RunHolds(jobRun[r])
  BY RunInHand
<1>2. /\ UNCHANGED <<morning, watched, together, dispatched, tabs, alertVars>>
      /\ spoiled \subseteq spoiled' /\ retried \subseteq retried'
      /\ jobRun[r].at \in {"append", "again"} /\ Written(r)
      /\ tabs[jobRun[r].date] # "none"
  BY <1>1 DEF Append1, AppendTransient, AppendAgain, RunHolds
<1>3. jobFaults' \in 0..MaxJobFaults
  BY <1>1, JobFaultTyped DEF Append1, AppendTransient, AppendAgain, StagnationTypes
<1>4. CASE Goes(r, "bell")
  <2>1. PICK state \in RunState :
           /\ jobRun' = [jobRun EXCEPT ![r] = state]
           /\ state.at = "bell" /\ state.date = jobRun[r].date /\ state.fresh = jobRun[r].fresh
    BY <1>1, <1>4, RunGoes DEF Steps
  <2>2. QED
    BY <1>2, <1>3, <2>1, WrittenInv
<1>5. CASE AppendTransient(r, TRUE) /\ jobRun[r].tries + 1 < AppendAttempts
  <2> DEFINE state == [jobRun[r] EXCEPT !.tries = @ + 1]
  <2>1. jobRun' = [jobRun EXCEPT ![r] = state] /\ jobRun[r].fresh \subseteq retried'
    BY <1>5 DEF AppendTransient
  <2>2. /\ state \in RunState /\ state.at = "append"
        /\ state.date = jobRun[r].date /\ state.fresh = jobRun[r].fresh
    BY <1>1, <1>5 DEF RunState, AppendAttempts, AppendTransient
  <2> HIDE DEF state
  <2>3. QED
    BY <1>2, <1>3, <2>1, <2>2, WrittenInv
<1>6. QED
  BY <1>4, <1>5 DEF Append1, AppendTransient, AppendAgain

\* A tab is added, and no line is in it.
LEMMA NewTabInv ==
    ASSUME StagnationIInv, NEW r \in JobRuns, AddTab(r), tabs[jobRun[r].date] = "none"
    PROVE  StagnationIInv'
<1> DEFINE date == jobRun[r].date
<1>1. StagnationTypes /\ jobRun[r] \in RunState /\ RunHolds(jobRun[r]) /\ jobRun[r].at = "create"
      /\ jobRun[r].at \in Unsent /\ Active(r) /\ date \in Mornings
  BY RunInHand DEF AddTab, Unsent, Active, RunState
<1>2. /\ tabs' = [tabs EXCEPT ![date] = "bare"] /\ Goes(r, "header")
      /\ UNCHANGED <<morning, watched, moves, together, jobFaults, dispatched, firstRow, tabLines,
                     retried, spoiled, alertVars>>
  BY DEF AddTab
<1>3. PICK state \in RunState :
         /\ jobRun' = [jobRun EXCEPT ![r] = state]
         /\ state.at = "header" /\ state.date = date /\ state.fresh = jobRun[r].fresh
  BY <1>1, <1>2, RunGoes DEF Steps
<1>4. /\ jobRun' \in [JobRuns -> RunState] /\ jobRun'[r] = state
      /\ \A q \in JobRuns \ {r} : jobRun'[q] = jobRun[q]
  BY <1>1, <1>3, RunMoved
<1>5. /\ tabs' \in [Mornings -> {"none", "bare", "ready"}] /\ tabs'[date] = "bare"
      /\ \A c \in Mornings \ {date} : tabs'[c] = tabs[c]
  BY <1>1, <1>2 DEF StagnationTypes
<1>6. StagnationTypes'
  BY <1>1, <1>2, <1>4, <1>5 DEF StagnationTypes, alertVars
<1>7. HandInv'
  <2>1. ASSUME NEW q \in JobRuns PROVE RunHolds(jobRun[q])'
    <3>1. CASE q = r
      <4>1. jobRun'[q] = state
        BY <1>4, <3>1
      <4>2. QED
        BY <1>1, <1>2, <1>3, <1>5, <4>1 DEF RunHolds, Early
    <3>2. CASE q # r
      <4>1. RunHolds(jobRun[q]) /\ jobRun'[q] = jobRun[q] /\ jobRun[q].date \in Mornings
        BY <1>1, <1>4, <3>2 DEF StagnationIInv, HandInv, StagnationTypes, RunState
      <4>2. tabs[jobRun[q].date] # "none" => tabs'[jobRun[q].date] # "none"
        BY <1>5, <4>1
      <4>3. QED
        BY <1>2, <4>1, <4>2 DEF RunHolds
    <3>3. QED
      BY <3>1, <3>2
  <2>2. QED
    BY <2>1 DEF HandInv
<1>8. LinesInv'
  <2>1. \A q \in JobRuns : jobRun'[q].fresh = jobRun[q].fresh
                           /\ (jobRun'[q].at \in Unsent => jobRun[q].at \in Unsent)
    BY <1>1, <1>3, <1>4
  <2>2. \A c \in Mornings : tabs'[c] = "none" => tabs[c] = "none"
    BY <1>5
  <2>3. QED
    BY <1>2, <2>1, <2>2 DEF StagnationIInv, LinesInv
<1>9. AloneInv'
  <2>1. \A q \in JobRuns : /\ jobRun'[q].fresh = jobRun[q].fresh
                           /\ jobRun[q].at \in Unsent => jobRun'[q].at \in Unsent
                           /\ jobRun'[q].date = jobRun[q].date
                           /\ Active(q)' <=> Active(q)
    BY <1>1, <1>3, <1>4 DEF Unsent, Active
  <2>2. firstRow[date] = {}
    BY <1>1 DEF StagnationIInv, LinesInv
  <2>3. ~together => \A q \in JobRuns : jobRun'[q].at = "header" => firstRow[jobRun[q].date] = {}
    BY <1>4, <2>2 DEF StagnationIInv, AloneInv
  <2>4. \A k : ToSend(k) => \E q \in JobRuns : jobRun'[q].at \in Unsent /\ k \in jobRun'[q].fresh
    BY <2>1 DEF ToSend
  <2>5. ASSUME ~together, AloneInv
        PROVE  \A p, q \in JobRuns : Active(p)' /\ Active(q)' => p = q
    BY <2>1, <2>5 DEF AloneInv
  <2>6. ASSUME ~together, AloneInv, NEW k \in dispatched \ (spoiled \cup retried)
        PROVE  tabLines[k] = 1 \/ \E q \in JobRuns : jobRun'[q].at \in Unsent /\ k \in jobRun'[q].fresh
    BY <2>4, <2>6 DEF AloneInv
  <2>7. QED
    BY <1>2, <2>1, <2>3, <2>5, <2>6 DEF AloneInv, ToSend, StagnationIInv
<1>10. AlertsInv'
  BY <1>1, <1>2, <1>3, AlertsAside
<1>11. QED
  BY <1>6, <1>7, <1>8, <1>9, <1>10 DEF StagnationIInv

\* The header takes the place of the first line of a bare tab: of none, for a run alone.
LEMMA SeedHeaderInv ==
    ASSUME StagnationIInv, NEW r \in JobRuns, SeedHeader(r)
    PROVE  StagnationIInv'
<1> DEFINE date == jobRun[r].date
           lost == CHOOSE f \in firstRow[date] : TRUE
<1>1. StagnationTypes /\ jobRun[r] \in RunState /\ RunHolds(jobRun[r]) /\ jobRun[r].at = "header"
      /\ jobRun[r].at \in Unsent /\ Active(r) /\ date \in Mornings
  BY RunInHand DEF SeedHeader, Unsent, Active, RunState
<1>2. /\ tabs' = [tabs EXCEPT ![date] = "ready"] /\ Goes(r, "again")
      /\ tabLines' = [k \in Reservations |->
            IF k \in firstRow[date] /\ k = lost THEN tabLines[k] - 1 ELSE tabLines[k]]
      /\ firstRow' = [firstRow EXCEPT ![date] = {}]
      /\ UNCHANGED <<morning, watched, moves, together, jobFaults, dispatched, spoiled, retried,
                     alertVars>>
  BY DEF SeedHeader, AfterHeader
<1> HIDE DEF lost
<1>3. PICK state \in RunState :
         /\ jobRun' = [jobRun EXCEPT ![r] = state]
         /\ state.at = "again" /\ state.date = date /\ state.fresh = jobRun[r].fresh
  BY <1>1, <1>2, RunGoes DEF Steps
<1>4. /\ jobRun' \in [JobRuns -> RunState] /\ jobRun'[r] = state
      /\ \A q \in JobRuns \ {r} : jobRun'[q] = jobRun[q]
  BY <1>1, <1>3, RunMoved
<1>5. /\ tabs' \in [Mornings -> {"none", "bare", "ready"}]
      /\ \A c \in Mornings : tabs'[c] = "none" => tabs[c] = "none"
      /\ tabs'[date] = "ready"
  BY <1>1, <1>2 DEF StagnationTypes
<1>6. \A k \in firstRow[date] : k \in Reservations /\ k[1] = date /\ tabLines[k] >= 1
                               /\ tabLines[k] \in Nat
  BY <1>1 DEF StagnationIInv, LinesInv, StagnationTypes
<1>7. /\ tabLines' \in [Reservations -> Nat]
      /\ \A k \in Reservations : tabLines'[k] <= tabLines[k]
      /\ \A k \in Reservations : tabLines'[k] = tabLines[k] \/ k \in firstRow[date]
  <2>1. \A k \in Reservations : tabLines[k] \in Nat
    BY <1>1 DEF StagnationTypes
  <2>2. \A k \in Reservations :
           tabLines'[k] = IF k \in firstRow[date] /\ k = lost THEN tabLines[k] - 1 ELSE tabLines[k]
    BY <1>2
  <2>3. \A k \in Reservations : tabLines'[k] \in Nat
    BY <1>6, <2>1, <2>2
  <2>4. \A k \in Reservations : tabLines'[k] <= tabLines[k]
    BY <2>1, <2>2
  <2>5. QED
    BY <1>2, <2>2, <2>3, <2>4
<1>8. /\ firstRow' \in [Mornings -> SUBSET Reservations] /\ firstRow'[date] = {}
      /\ \A c \in Mornings \ {date} : firstRow'[c] = firstRow[c]
  BY <1>1, <1>2 DEF StagnationTypes
<1>9. StagnationTypes'
  BY <1>1, <1>2, <1>4, <1>5, <1>7, <1>8 DEF StagnationTypes, alertVars
<1>10. HandInv'
  <2>1. ASSUME NEW q \in JobRuns PROVE RunHolds(jobRun[q])'
    <3>1. CASE q = r
      <4>1. jobRun'[q] = state
        BY <1>4, <3>1
      <4>2. QED
        BY <1>1, <1>2, <1>3, <1>5, <4>1 DEF RunHolds, Early
    <3>2. CASE q # r
      <4>1. RunHolds(jobRun[q]) /\ jobRun'[q] = jobRun[q] /\ jobRun[q].date \in Mornings
        BY <1>1, <1>4, <3>2 DEF StagnationIInv, HandInv, StagnationTypes, RunState
      <4>2. tabs[jobRun[q].date] # "none" => tabs'[jobRun[q].date] # "none"
        BY <1>5, <4>1
      <4>3. QED
        BY <1>2, <4>1, <4>2 DEF RunHolds
    <3>3. QED
      BY <3>1, <3>2
  <2>2. QED
    BY <2>1 DEF HandInv
<1>11. LinesInv'
  <2>1. LinesInv /\ \A q \in JobRuns : jobRun'[q].fresh = jobRun[q].fresh
                           /\ (jobRun'[q].at \in Unsent => jobRun[q].at \in Unsent)
    BY <1>1, <1>3, <1>4 DEF StagnationIInv
  <2>2. \A p, q \in JobRuns : jobRun'[p].fresh \cap jobRun'[q].fresh # {} => p = q
    BY <2>1 DEF LinesInv
  <2>3. \A k \in Reservations : tabLines[k] = 0 => tabLines'[k] = 0
    BY <1>6, <1>7
  <2>4. \A k \in Reservations \ dispatched' : tabLines'[k] = 0
    BY <1>2, <2>1, <2>3 DEF LinesInv
  <2>5. ASSUME NEW k \in Reservations \ retried' PROVE tabLines'[k] <= 1
    <3>1. tabLines[k] <= 1 /\ tabLines[k] \in Nat /\ tabLines'[k] \in Nat /\ tabLines'[k] <= tabLines[k]
      BY <1>1, <1>2, <1>7, <2>1 DEF LinesInv, StagnationTypes
    <3>2. QED
      BY <3>1
  <2>6. ASSUME NEW q \in JobRuns, jobRun'[q].at \in Unsent, NEW k \in jobRun'[q].fresh \ retried'
        PROVE  tabLines'[k] = 0
    <3>1. k \in Reservations
      BY <1>4, <2>6 DEF RunState
    <3>2. tabLines[k] = 0
      BY <1>2, <2>1, <2>6 DEF LinesInv
    <3>3. QED
      BY <2>3, <3>1, <3>2
  <2>7. ASSUME NEW c \in Mornings, NEW k \in firstRow'[c]
        PROVE  k[1] = c /\ tabLines'[k] >= 1
    <3>1. c # date /\ k \in firstRow[c] /\ k \in Reservations
      BY <1>8, <2>7
    <3>2. k[1] = c /\ tabLines[k] >= 1
      BY <2>1, <3>1 DEF LinesInv
    <3>3. tabLines'[k] = tabLines[k]
      BY <1>6, <1>7, <3>1, <3>2
    <3>4. QED
      BY <3>2, <3>3
  <2>8. \A c \in Mornings : tabs'[c] = "none" => firstRow'[c] = {}
    BY <1>5, <1>8, <2>1 DEF LinesInv
  <2>9. QED
    BY <2>2, <2>4, <2>5, <2>6, <2>7, <2>8 DEF LinesInv
<1>12. ASSUME ~together'
       PROVE  /\ \A p, q \in JobRuns : Active(p)' /\ Active(q)' => p = q
              /\ \A q \in JobRuns : jobRun'[q].at = "header" => firstRow'[jobRun'[q].date] = {}
              /\ \A k \in dispatched' \ (spoiled' \cup retried') : tabLines'[k] = 1 \/ ToSend(k)'
  <2>1. ~together /\ AloneInv /\ \A q \in JobRuns \ {r} : ~Active(q) /\ jobRun[q].at \notin Unsent
    BY <1>1, <1>2, <1>12, OnlyRun DEF StagnationIInv
  <2>2. \A q \in JobRuns \ {r} : ~Active(q)'
    BY <1>4, <2>1 DEF Active
  <2>3. \A q \in JobRuns : jobRun'[q].at # "header"
    BY <1>3, <1>4, <2>1 DEF Unsent
  <2>4. firstRow[date] = {}
    BY <1>1, <2>1 DEF AloneInv
  <2>5. ASSUME NEW k \in dispatched' \ (spoiled' \cup retried'), tabLines'[k] # 1
        PROVE  ToSend(k)'
    <3>1. k \in Reservations /\ k \in dispatched \ (spoiled \cup retried)
      BY <1>1, <1>2, <2>5 DEF StagnationTypes
    <3>2. tabLines[k] # 1
      BY <1>7, <2>4, <2>5, <3>1
    <3>3. PICK q \in JobRuns : jobRun[q].at \in Unsent /\ k \in jobRun[q].fresh
      BY <2>1, <3>1, <3>2 DEF AloneInv, ToSend
    <3>4. jobRun'[q].at \in Unsent /\ k \in jobRun'[q].fresh
      BY <1>3, <1>4, <2>1, <3>3 DEF Unsent
    <3>5. QED
      BY <3>4 DEF ToSend
  <2>6. QED
    BY <2>2, <2>3, <2>5
<1>13. AloneInv'
  BY <1>12 DEF AloneInv
<1>14. AlertsInv'
  BY <1>1, <1>2, <1>3, AlertsAside
<1>15. QED
  BY <1>9, <1>10, <1>11, <1>13, <1>14 DEF StagnationIInv

----------------------------------------------------------------------------
(* The DIs, the users, the days; the theorem.                              *)

\* The job is elsewhere: a DI moves, a user closes an alert, a night passes.
LEMMA AroundTheJobInv ==
    ASSUME StagnationIInv,
           \/ \E d \in WatchedDis, status \in OpenStatuses \cup {"closed"} : MoveDi(d, status)
           \/ \E d \in WatchedDis : ResolveAlert(d)
           \/ NextMorning
    PROVE  StagnationIInv'
<1>1. UNCHANGED <<jobRun, together, jobFaults, lower, alertFault, reportVars>>
  BY DEF MoveDi, ResolveAlert, NextMorning, alertVars
<1>2. StagnationTypes /\ HandInv /\ LinesInv /\ AloneInv /\ AlertsInv
  BY DEF StagnationIInv
<1>3. /\ alerts' \in [WatchedDis -> Nat]
      /\ \A d \in WatchedDis : alerts'[d] <= alerts[d] /\ (alerts'[d] = 1 /\ alerts[d] <= 1 => alerts[d] = 1)
  <2>1. CASE alerts' = alerts
    BY <1>2, <2>1 DEF StagnationTypes
  <2>2. ASSUME NEW d \in WatchedDis, ResolveAlert(d)
        PROVE  <1>3
    BY <1>2, <2>2 DEF ResolveAlert, StagnationTypes
  <2>3. QED
    BY <2>1, <2>2 DEF MoveDi, NextMorning, alertVars
<1>4. watched' \in [WatchedDis -> [status: OpenStatuses \cup {"closed"}, age: 0..AlertAge]]
  <2>1. CASE watched' = watched
    BY <1>2, <2>1 DEF StagnationTypes
  <2>2. ASSUME NEW d \in WatchedDis, NEW status \in OpenStatuses \cup {"closed"}, MoveDi(d, status)
        PROVE  <1>4
    BY <1>2, <2>2 DEF MoveDi, StagnationTypes, AlertAge
  <2>3. CASE NextMorning
    <3>1. ASSUME NEW d \in WatchedDis
          PROVE  [watched[d] EXCEPT !.age = IF @ < AlertAge THEN @ + 1 ELSE @]
                     \in [status: OpenStatuses \cup {"closed"}, age: 0..AlertAge]
      <4>1. watched[d] \in [status: OpenStatuses \cup {"closed"}, age: 0..AlertAge]
        BY <1>2 DEF StagnationTypes
      <4>2. (IF watched[d].age < AlertAge THEN watched[d].age + 1 ELSE watched[d].age) \in 0..AlertAge
        BY <4>1 DEF AlertAge
      <4>3. QED
        BY <4>1, <4>2
    <3>2. QED
      BY <2>3, <3>1 DEF NextMorning
  <2>4. QED
    BY <2>1, <2>2, <2>3 DEF ResolveAlert
<1>5. morning' \in Mornings
  BY <1>2, StagnationBounds DEF MoveDi, ResolveAlert, NextMorning, StagnationTypes, Mornings
<1>6. StagnationTypes'
  BY <1>1, <1>2, <1>3, <1>4, <1>5 DEF StagnationTypes, reportVars
<1>7. HandInv' /\ LinesInv' /\ AloneInv'
  BY <1>1, <1>2 DEF reportVars, HandInv, RunHolds, LinesInv, AloneInv, Active, ToSend
<1>8. ASSUME ~together
      PROVE  /\ \A d \in WatchedDis : alerts'[d] <= 1
             /\ \A r \in JobRuns : jobRun[r].at = "alert" /\ ~jobRun[r].seen =>
                   \A d \in jobRun[r].on : alerts'[d] = 0
             /\ ~alertFault => \A d \in WatchedDis : alerts'[d] = 1 /\ d \in lower =>
                   \E r \in JobRuns : jobRun[r].at = "escalate" /\ d \in jobRun[r].on
  <2>1. \A d \in WatchedDis : alerts[d] <= 1 /\ alerts[d] \in Nat /\ alerts'[d] \in Nat
    BY <1>2, <1>3, <1>8 DEF AlertsInv, StagnationTypes
  <2>2. \A d \in WatchedDis : alerts'[d] <= 1 /\ (alerts[d] = 0 => alerts'[d] = 0)
    BY <1>3, <2>1
  <2>3. \A r \in JobRuns : jobRun[r].on \subseteq WatchedDis
    BY <1>2 DEF StagnationTypes, RunState
  <2>4. QED
    BY <1>2, <1>3, <1>8, <2>1, <2>2, <2>3 DEF AlertsInv
<1>9. AlertsInv'
  BY <1>1, <1>8 DEF AlertsInv
<1>10. QED
  BY <1>6, <1>7, <1>9 DEF StagnationIInv

LEMMA StagnationInitInv == StagnationInit => StagnationIInv
<1> SUFFICES ASSUME StagnationInit PROVE StagnationIInv
  OBVIOUS
<1>1. \A r \in JobRuns : jobRun[r] = NewRun /\ ~Active(r)
  BY NewRunTyped DEF StagnationInit, Active
<1>2. StagnationTypes
  <2>1. jobRun \in [JobRuns -> RunState]
    BY NewRunTyped DEF StagnationInit
  <2>2. 0 \in Mornings
    BY StagnationBounds DEF Mornings
  <2>3. watched \in [WatchedDis -> [status: OpenStatuses \cup {"closed"}, age: 0..AlertAge]]
    BY DEF StagnationInit, AlertAge
  <2>4. QED
    BY <2>1, <2>2, <2>3, StagnationBounds DEF StagnationInit, StagnationTypes
<1>3. HandInv
  BY <1>1, NewRunTyped DEF HandInv, RunHolds
<1>4. LinesInv
  BY <1>1, NewRunTyped DEF LinesInv, StagnationInit
<1>5. AloneInv /\ AlertsInv
  BY <1>1, NewRunTyped DEF AloneInv, AlertsInv, StagnationInit
<1>6. QED
  BY <1>2, <1>3, <1>4, <1>5 DEF StagnationIInv

LEMMA StagnationStepInv ==
    ASSUME StagnationIInv, [StagnationNext]_stagnationVars
    PROVE  StagnationIInv'
<1>1. ASSUME NEW r \in JobRuns, StartJob(r) \/ LoseJob(r) PROVE StagnationIInv'
  BY <1>1, StartJobInv, RunEndInv
<1>2. ASSUME NEW r \in JobRuns, MonitorStep(r) PROVE StagnationIInv'
  BY <1>2, CheckAlertInv, CreateAlertInv, ResolveLowerInv, MonitorEndInv DEF MonitorStep
<1>3. ASSUME NEW r \in JobRuns, ReportStep(r) PROVE StagnationIInv'
  <2>1. CASE ListStagnant(r) \/ EndReserve(r) \/ DiscordLine(r)
    BY <2>1, ListStagnantInv, EndReserveInv, RunEndInv
  <2>2. CASE \E k \in jobRun[r].todo : Reserve(r, k)
    BY <2>2, ReserveInv
  <2>3. CASE Append1(r) \/ AppendAgain(r)
    BY <2>3, PlainStepInv, WriteStepInv
  <2>4. CASE \E written \in BOOLEAN : AppendTransient(r, written)
    BY <2>4, PlainStepInv, WriteStepInv
  <2>5. CASE SheetFails(r) \/ ReadMeta(r) \/ Bell(r)
    BY <2>5, PlainStepInv
  <2>6. CASE AddTab(r)
    BY <2>6, PlainStepInv, NewTabInv
  <2>7. CASE SeedHeader(r)
    BY <2>7, SeedHeaderInv
  <2>8. QED
    BY <1>3, <2>1, <2>2, <2>3, <2>4, <2>5, <2>6, <2>7 DEF ReportStep
<1>4. CASE UNCHANGED stagnationVars
  <2>1. UNCHANGED <<morning, watched, jobRun, alerts, lower, dispatched, tabs, firstRow, tabLines,
                    jobFaults, spoiled, retried, together, alertFault>>
    BY <1>4 DEF stagnationVars
  <2>2. StagnationTypes' /\ HandInv'
    BY <2>1 DEF StagnationIInv, StagnationTypes, HandInv, RunHolds
  <2>3. LinesInv' /\ AloneInv' /\ AlertsInv'
    BY <2>1 DEF StagnationIInv, LinesInv, AloneInv, AlertsInv, Active, ToSend
  <2>4. QED
    BY <2>2, <2>3 DEF StagnationIInv
<1>5. QED
  BY <1>1, <1>2, <1>3, <1>4, AroundTheJobInv DEF StagnationNext

\* What the morning job promises follows from the invariant.
LEMMA StagnationHolds == StagnationIInv => StagnationInv
<1> SUFFICES ASSUME StagnationIInv PROVE StagnationInv
  OBVIOUS
<1>1. StagnationTypeOK
  BY DEF StagnationIInv, StagnationTypes, StagnationTypeOK, HandInv, RunHolds, RunState, Steps
<1>2. NoDoubleLine
  BY DEF StagnationIInv, LinesInv, NoDoubleLine
<1>3. ReservedIsWritten
  BY DEF StagnationIInv, AloneInv, ToSend, ReservedIsWritten, Held
<1>4. OneOpenAlert
  BY DEF StagnationIInv, AlertsInv, OneOpenAlert, Active
<1>5. QED
  BY <1>1, <1>2, <1>3, <1>4 DEF StagnationInv

\* The morning job, for every set of DIs and of runs: a reservation is written once in the
\* tab of its day, and written when the runs come one at a time; a DI has one open alert.
THEOREM StagnationInvariant == StagnationSpec => []StagnationInv
<1>1. StagnationInit => StagnationIInv
  BY StagnationInitInv
<1>2. StagnationIInv /\ [StagnationNext]_stagnationVars => StagnationIInv'
  BY StagnationStepInv
<1>3. StagnationIInv => StagnationInv
  BY StagnationHolds
<1>4. QED
  BY <1>1, <1>2, <1>3, PTL DEF StagnationSpec

(***************************************************************************)
(* The companies.                                                          *)
(***************************************************************************)

FirmFormState == [at: {"idle", "checked"}, on: Nat, mf: MfCells, rs: NameCells]
PlanRow == [mf: MfCells, rs: NameCells, action: {"error", "create", "update"}, match: Nat]

FirmTypes ==
    /\ firms \in Seq(Firm) /\ Len(firms) <= MaxFirms
    /\ firmForm \in [FirmForms -> FirmFormState]
    /\ \A f \in FirmForms : firmForm[f].on \in 0..Len(firms)
    /\ firmImport \in [at: {"idle", "writing"}, plan: Seq(PlanRow), next: Nat \ {0}]
                          \cup [at: {"idle"}, plan: {<<>>}, next: {0}]
    /\ \A k \in DOMAIN firmImport.plan :
          /\ firmImport.plan[k].match \in 0..Len(firms)
          /\ firmImport.plan[k].action = "update" => firmImport.plan[k].match # 0
          /\ firmImport.plan[k].action = "create" => firmImport.plan[k].match = 0
    /\ firmOps \in 0..MaxFirmOps

\* A form between its check and its write is alone, and what it checked still holds.
Free(mf, rs, self) == \A i \in Actives : i # self =>
    (mf # None => firms[i].mf # mf) /\ (rs # None => firms[i].rs # rs)
FormsInv ==
    /\ \A f, g \in FirmForms : firmForm[f].at = "checked" /\ firmForm[g].at = "checked" => f = g
    /\ \A f \in FirmForms : firmForm[f].at = "checked" =>
          firmImport.at = "idle" /\ Free(firmForm[f].mf, firmForm[f].rs, firmForm[f].on)

\* The rows still to write have tax numbers of their own, which no other company than the
\* one they update has.
ToWrite(k) == k \in DOMAIN firmImport.plan /\ firmImport.plan[k].action # "error"
              /\ firmImport.plan[k].mf # None
PlanInv == firmImport.at = "writing" =>
    /\ \A j, k \in DOMAIN firmImport.plan : ToWrite(j) /\ ToWrite(k) =>
          (firmImport.plan[j].mf = firmImport.plan[k].mf => j = k)
    /\ \A k \in DOMAIN firmImport.plan : ToWrite(k) /\ k >= firmImport.next =>
          \A i \in Actives : firms[i].mf = firmImport.plan[k].mf => i = firmImport.plan[k].match

FirmsIInv ==
    /\ FirmTypes
    /\ ~firmsCrossed => FormsInv /\ PlanInv /\ ApartByMf
    /\ ~firmsCrossed /\ ~imported => ApartByName

----------------------------------------------------------------------------
(* Helpers.                                                                *)

LEMMA LastOfFirms ==
    ASSUME FirmTypes, NEW found, found \subseteq DOMAIN firms, found # {}
    PROVE  LastOf(found) \in found
<1>1. Len(firms) \in Nat /\ found \subseteq 0..Len(firms)
  BY DEF FirmTypes
<1>2. \E i \in found : \A j \in found : j <= i
  BY <1>1, HasLast
<1>3. QED
  BY <1>2 DEF LastOf

\* The company a row updates is in the base, and is the one of its tax number.
LEMMA MatchTyped ==
    ASSUME FirmTypes, NEW row \in FileRow
    PROVE  /\ MatchFirm(row) \in 0..Len(firms)
           /\ row.mf # None /\ ApartByMf =>
                 \A i \in Actives : firms[i].mf = row.mf => i = MatchFirm(row)
<1>1. /\ ByMf(row.mf) \subseteq DOMAIN firms /\ ByName(row.rs) \subseteq DOMAIN firms
      /\ DOMAIN firms = 1..Len(firms) /\ Len(firms) \in Nat
  BY DEF FirmTypes, ByMf, ByName, Actives
<1>2. MatchFirm(row) \in 0..Len(firms)
  <2>1. ByMf(row.mf) # {} => LastOf(ByMf(row.mf)) \in DOMAIN firms
    BY <1>1, LastOfFirms
  <2>2. ByName(row.rs) # {} => LastOf(ByName(row.rs)) \in DOMAIN firms
    BY <1>1, LastOfFirms
  <2>3. QED
    BY <1>1, <2>1, <2>2 DEF MatchFirm
<1>3. ASSUME row.mf # None, ApartByMf, NEW i \in Actives, firms[i].mf = row.mf
      PROVE  i = MatchFirm(row)
  <2>1. i \in ByMf(row.mf)
    BY <1>3 DEF ByMf
  <2>2. LastOf(ByMf(row.mf)) \in ByMf(row.mf)
    BY <1>1, <2>1, LastOfFirms
  <2>3. LastOf(ByMf(row.mf)) \in Actives /\ firms[LastOf(ByMf(row.mf))].mf = row.mf
    BY <2>2 DEF ByMf
  <2>4. LastOf(ByMf(row.mf)) = i
    BY <1>3, <2>3 DEF ApartByMf
  <2>5. QED
    BY <2>1, <2>4 DEF MatchFirm
<1>4. QED
  BY <1>2, <1>3

\* A company is added or changed, and the others stay.
Put(n, mf, rs) ==
    /\ firms' \in Seq(Firm) /\ Len(firms) <= Len(firms') /\ Len(firms') <= MaxFirms
    /\ \A i \in Actives' :
          /\ i # n => i \in Actives /\ firms'[i] = firms[i]
          /\ i = n => firms'[i].mf = mf /\ firms'[i].rs = rs

LEMMA FirmAdded ==
    ASSUME FirmTypes, NEW mf \in MfCells, NEW rs \in NameCells, Len(firms) < MaxFirms,
           firms' = Append(firms, [mf |-> mf, rs |-> rs, deleted |-> FALSE])
    PROVE  Put(Len(firms) + 1, mf, rs)
<1> DEFINE firm == [mf |-> mf, rs |-> rs, deleted |-> FALSE]
<1>1. firms \in Seq(Firm) /\ firm \in Firm
  BY DEF FirmTypes, Firm
<1>2. firm.mf = mf /\ firm.rs = rs /\ firms' = Append(firms, firm)
  OBVIOUS
<1> HIDE DEF firm
<1>3. Len(firms) \in Nat /\ DOMAIN firms = 1..Len(firms)
  BY <1>1, LenProperties
<1>4. /\ firms' \in Seq(Firm) /\ Len(firms') = Len(firms) + 1
      /\ \A i \in 1..Len(firms) : firms'[i] = firms[i]
      /\ firms'[Len(firms) + 1] = firm
  BY <1>1, <1>2, AppendProperties
<1>5. DOMAIN firms' = 1..(Len(firms) + 1)
  BY <1>4, LenProperties
<1>6. \A i \in Actives' : i \in 1..(Len(firms) + 1) /\ ~firms'[i].deleted
  BY <1>5 DEF Actives
<1>7. ASSUME NEW i \in Actives', i # Len(firms) + 1
      PROVE  i \in Actives /\ firms'[i] = firms[i]
  <2>1. i \in 1..Len(firms)
    BY <1>3, <1>6, <1>7
  <2>2. QED
    BY <1>3, <1>4, <1>6, <2>1 DEF Actives
<1>8. Len(firms') <= MaxFirms /\ Len(firms) <= Len(firms')
  BY <1>3, <1>4, FirmBounds
<1>9. QED
  BY <1>2, <1>4, <1>7, <1>8 DEF Put

LEMMA FirmChanged ==
    ASSUME FirmTypes, NEW mf \in MfCells, NEW rs \in NameCells, NEW n \in 1..Len(firms),
           firms' = [firms EXCEPT ![n].mf = mf, ![n].rs = rs]
    PROVE  Put(n, mf, rs)
<1> DEFINE firm == [firms[n] EXCEPT !.mf = mf, !.rs = rs]
<1>1. firms \in Seq(Firm) /\ Len(firms) \in Nat /\ DOMAIN firms = 1..Len(firms)
      /\ Len(firms) <= MaxFirms
  BY LenProperties DEF FirmTypes
<1>2. firms[n] \in Firm
  BY <1>1, ElementOfSeq
<1>3. /\ firm \in Firm
      /\ firm.mf = mf /\ firm.rs = rs /\ firm.deleted = firms[n].deleted
  BY <1>2 DEF Firm
<1>4. firms' = [firms EXCEPT ![n] = firm]
  BY <1>1
<1> HIDE DEF firm
<1>5. /\ firms' \in Seq(Firm) /\ Len(firms') = Len(firms)
      /\ \A i \in 1..Len(firms) : firms'[i] = IF i = n THEN firm ELSE firms[i]
  <2>1. /\ [firms EXCEPT ![n] = firm] \in Seq(Firm)
        /\ Len([firms EXCEPT ![n] = firm]) = Len(firms)
        /\ \A i \in 1..Len(firms) : [firms EXCEPT ![n] = firm][i] = IF i = n THEN firm ELSE firms[i]
    <3>1. firms \in Seq(Firm) /\ n \in 1..Len(firms) /\ firm \in Firm
      BY <1>1, <1>3
    <3>2. [firms EXCEPT ![n] = firm] \in Seq(Firm)
      BY <3>1, ExceptSeq
    <3>3. Len([firms EXCEPT ![n] = firm]) = Len(firms)
      BY <3>1, ExceptSeq
    <3>4. \A i \in 1..Len(firms) : [firms EXCEPT ![n] = firm][i] = IF i = n THEN firm ELSE firms[i]
      BY <1>1
    <3>5. QED
      BY <3>2, <3>3, <3>4
  <2>2. QED
    BY <1>4, <2>1, Zenon
<1>6. DOMAIN firms' = 1..Len(firms)
  BY <1>5, LenProperties
<1>7. ASSUME NEW i \in Actives'
      PROVE  /\ i # n => i \in Actives /\ firms'[i] = firms[i]
             /\ i = n => firms'[i].mf = mf /\ firms'[i].rs = rs
  <2>1. i \in 1..Len(firms) /\ ~firms'[i].deleted
    BY <1>6, <1>7 DEF Actives
  <2>2. QED
    BY <1>1, <1>3, <1>5, <2>1 DEF Actives
<1>8. Len(firms) <= Len(firms') /\ Len(firms') <= MaxFirms
  BY <1>1, <1>5
<1>9. QED
  BY <1>5, <1>7, <1>8, Zenon DEF Put

LEMMA PutApart ==
    ASSUME NEW n, NEW mf, NEW rs, Put(n, mf, rs)
    PROVE  /\ ApartByMf /\ (\A i \in Actives : i # n /\ mf # None => firms[i].mf # mf) => ApartByMf'
           /\ ApartByName /\ (\A i \in Actives : i # n /\ rs # None => firms[i].rs # rs) => ApartByName'
<1>1. ASSUME ApartByMf, \A i \in Actives : i # n /\ mf # None => firms[i].mf # mf,
             NEW i \in Actives', NEW j \in Actives', firms'[i].mf = firms'[j].mf, firms'[i].mf # None
      PROVE  i = j
  BY <1>1 DEF ApartByMf, Put
<1>2. ASSUME ApartByName, \A i \in Actives : i # n /\ rs # None => firms[i].rs # rs,
             NEW i \in Actives', NEW j \in Actives', firms'[i].rs = firms'[j].rs, firms'[i].rs # None
      PROVE  i = j
  BY <1>2 DEF ApartByName, Put
<1>3. QED
  BY <1>1, <1>2 DEF ApartByMf, ApartByName

\* The types, after a step that puts a company.
LEMMA PutTyped ==
    ASSUME FirmTypes, NEW n, NEW mf, NEW rs, Put(n, mf, rs),
           UNCHANGED firmOps,
           firmForm' \in [FirmForms -> FirmFormState],
           \A f \in FirmForms : firmForm'[f].on = firmForm[f].on \/ firmForm'[f].on = 0,
           firmImport' \in [at: {"idle", "writing"}, plan: Seq(PlanRow), next: Nat \ {0}]
                               \cup [at: {"idle"}, plan: {<<>>}, next: {0}],
           firmImport'.plan = firmImport.plan
    PROVE  FirmTypes'
<1>1. firms' \in Seq(Firm) /\ Len(firms') <= MaxFirms /\ Len(firms) <= Len(firms')
      /\ Len(firms) \in Nat /\ Len(firms') \in Nat
  BY LenProperties DEF Put, FirmTypes
<1>2. \A f \in FirmForms : firmForm'[f].on \in 0..Len(firms')
  BY <1>1 DEF FirmTypes
<1>3. \A k \in DOMAIN firmImport'.plan :
          /\ firmImport'.plan[k].match \in 0..Len(firms')
          /\ firmImport'.plan[k].action = "update" => firmImport'.plan[k].match # 0
          /\ firmImport'.plan[k].action = "create" => firmImport'.plan[k].match = 0
  BY <1>1 DEF FirmTypes
<1>4. QED
  BY <1>1, <1>2, <1>3 DEF FirmTypes

\* Requests that do not overlap: the next one finds none in flight.
LEMMA FirmOpAlone ==
    ASSUME FirmsIInv, FirmOp, ~firmsCrossed'
    PROVE  ~firmsCrossed /\ firmImport.at = "idle" /\ \A f \in FirmForms : firmForm[f].at = "idle"
  BY DEF FirmOp, FirmsQuiet

LEMMA FirmOpsTyped ==
    ASSUME FirmTypes, firmOps < MaxFirmOps, firmOps' = firmOps + 1 PROVE firmOps' \in 0..MaxFirmOps
  BY FirmBounds DEF FirmTypes

LEMMA IdleFirmFormTyped == IdleFirmForm \in FirmFormState /\ IdleFirmForm.on = 0
                           /\ IdleFirmForm.at = "idle"
  BY DEF IdleFirmForm, FirmFormState, MfCells, NameCells

----------------------------------------------------------------------------
(* The steps.                                                              *)

LEMMA CheckFirmInv ==
    ASSUME FirmsIInv, NEW f \in FirmForms, NEW on \in 0..Len(firms), NEW mf \in MfCells,
           NEW rs \in NameCells, CheckFirm(f, on, mf, rs)
    PROVE  FirmsIInv'
<1> DEFINE state == [at |-> "checked", on |-> on, mf |-> mf, rs |-> rs]
<1>1. /\ firmForm' = [firmForm EXCEPT ![f] = state]
      /\ Duplicates(mf, rs, on) = {} /\ FirmOp
      /\ UNCHANGED <<firms, firmImport, imported>>
  BY DEF CheckFirm
<1>2. FirmTypes /\ Len(firms) \in Nat /\ on \in Nat
  BY LenProperties DEF FirmsIInv, FirmTypes
<1>3. state \in FirmFormState /\ state.at = "checked" /\ state.on = on /\ state.mf = mf
      /\ state.rs = rs
  BY <1>2 DEF FirmFormState
<1> HIDE DEF state
<1>4. /\ firmForm' \in [FirmForms -> FirmFormState] /\ firmForm'[f] = state
      /\ \A g \in FirmForms \ {f} : firmForm'[g] = firmForm[g]
  BY <1>1, <1>2, <1>3 DEF FirmTypes
<1>5. FirmTypes'
  <2>1. \A g \in FirmForms : firmForm'[g].on \in 0..Len(firms)
    BY <1>2, <1>3, <1>4 DEF FirmTypes
  <2>2. firmOps' \in 0..MaxFirmOps
    BY <1>1, <1>2, FirmOpsTyped DEF FirmOp
  <2>3. QED
    BY <1>1, <1>2, <1>4, <2>1, <2>2 DEF FirmTypes
<1>6. Free(mf, rs, on)
  BY <1>1 DEF Duplicates, Free
<1>7. ASSUME ~firmsCrossed'
      PROVE  FormsInv' /\ PlanInv' /\ ApartByMf' /\ (~imported' => ApartByName')
  <2>1. ~firmsCrossed /\ firmImport.at = "idle" /\ \A g \in FirmForms : firmForm[g].at = "idle"
    BY <1>1, <1>7, FirmOpAlone
  <2>2. FormsInv /\ PlanInv /\ ApartByMf /\ (~imported => ApartByName)
    BY <2>1 DEF FirmsIInv
  <2>3. \A g \in FirmForms : firmForm'[g].at = "checked" => g = f
    BY <1>4, <2>1
  <2>4. Actives' = Actives
    BY <1>1 DEF Actives
  <2>5. FormsInv'
    BY <1>1, <1>3, <1>4, <1>6, <2>1, <2>3, <2>4 DEF FormsInv, Free
  <2>6. PlanInv' /\ ApartByMf' /\ (~imported' => ApartByName')
    BY <1>1, <2>1, <2>2, <2>4 DEF PlanInv, ApartByMf, ApartByName
  <2>7. QED
    BY <2>5, <2>6
<1>8. QED
  BY <1>5, <1>7 DEF FirmsIInv

LEMMA WriteFirmInv ==
    ASSUME FirmsIInv, NEW f \in FirmForms, WriteFirm(f)
    PROVE  FirmsIInv'
<1>1. FirmTypes /\ firmForm[f] \in FirmFormState /\ firmForm[f].at = "checked"
      /\ firmForm[f].on \in 0..Len(firms) /\ Len(firms) \in Nat
  BY LenProperties DEF FirmsIInv, FirmTypes, WriteFirm
<1>2. PICK n \in Nat :
         /\ Put(n, firmForm[f].mf, firmForm[f].rs)
         /\ n = firmForm[f].on \/ (firmForm[f].on = 0 /\ n = Len(firms) + 1)
  <2>1. firmForm[f].mf \in MfCells /\ firmForm[f].rs \in NameCells
    BY <1>1 DEF FirmFormState
  <2>2. CASE firmForm[f].on = 0
    BY <1>1, <2>1, <2>2, FirmAdded DEF WriteFirm
  <2>3. CASE firmForm[f].on # 0
    BY <1>1, <2>1, <2>3, FirmChanged DEF WriteFirm
  <2>4. QED
    BY <2>2, <2>3
<1>3. /\ firmForm' = [firmForm EXCEPT ![f] = IdleFirmForm]
      /\ UNCHANGED <<firmImport, firmOps, firmsCrossed, imported>>
  BY DEF WriteFirm
<1>4. /\ firmForm' \in [FirmForms -> FirmFormState] /\ firmForm'[f] = IdleFirmForm
      /\ \A g \in FirmForms \ {f} : firmForm'[g] = firmForm[g]
  BY <1>1, <1>3, IdleFirmFormTyped DEF FirmTypes
<1>5. FirmTypes'
  <2>1. \A g \in FirmForms : firmForm'[g].on = firmForm[g].on \/ firmForm'[g].on = 0
    BY <1>4, IdleFirmFormTyped
  <2>2. QED
    BY <1>1, <1>2, <1>3, <1>4, <2>1, PutTyped DEF FirmTypes
<1>6. ASSUME ~firmsCrossed'
      PROVE  FormsInv' /\ PlanInv' /\ ApartByMf' /\ (~imported' => ApartByName')
  <2>1. FormsInv /\ ApartByMf /\ (~imported => ApartByName)
    BY <1>3, <1>6 DEF FirmsIInv
  <2>2. firmImport'.at = "idle" /\ Free(firmForm[f].mf, firmForm[f].rs, firmForm[f].on)
    BY <1>1, <1>3, <2>1 DEF FormsInv
  <2>3. \A g \in FirmForms : firmForm'[g].at # "checked"
    BY <1>1, <1>4, <2>1, IdleFirmFormTyped DEF FormsInv
  <2>4. /\ \A i \in Actives : i # n /\ firmForm[f].mf # None => firms[i].mf # firmForm[f].mf
        /\ \A i \in Actives : i # n /\ firmForm[f].rs # None => firms[i].rs # firmForm[f].rs
    <3>1. \A i \in Actives : i # 0
      BY <1>1 DEF Actives, FirmTypes
    <3>2. QED
      BY <1>2, <2>2, <3>1 DEF Free
  <2>5. ApartByMf' /\ (~imported' => ApartByName')
    <3>1. Put(n, firmForm[f].mf, firmForm[f].rs)
      BY <1>2
    <3>2. (ApartByMf => ApartByMf') /\ (ApartByName => ApartByName')
      BY <2>4, <3>1, PutApart
    <3>3. QED
      BY <1>3, <2>1, <3>2
  <2>6. FormsInv' /\ PlanInv'
    BY <2>2, <2>3 DEF FormsInv, PlanInv
  <2>7. QED
    BY <2>5, <2>6
<1>7. QED
  BY <1>5, <1>6 DEF FirmsIInv

\* A company taken off clears nothing that was checked.
LEMMA RemoveFirmInv ==
    ASSUME FirmsIInv, NEW i \in DOMAIN firms, RemoveFirm(i)
    PROVE  FirmsIInv'
<1> DEFINE firm == [firms[i] EXCEPT !.deleted = TRUE]
<1>1. /\ firms \in Seq(Firm) /\ DOMAIN firms = 1..Len(firms) /\ Len(firms) \in Nat
      /\ FirmTypes
  BY LenProperties DEF FirmsIInv, FirmTypes
<1>2. firms[i] \in Firm
  BY <1>1, ElementOfSeq
<1>3. firm \in Firm /\ firm.mf = firms[i].mf /\ firm.rs = firms[i].rs /\ firm.deleted
  BY <1>2 DEF Firm
<1>4. /\ firms' = [firms EXCEPT ![i] = firm]
      /\ firmOps < MaxFirmOps /\ firmOps' = firmOps + 1
      /\ UNCHANGED <<firmForm, firmImport, firmsCrossed, imported>>
  BY DEF RemoveFirm
<1> HIDE DEF firm
<1>5. /\ firms' \in Seq(Firm) /\ Len(firms') = Len(firms) /\ DOMAIN firms' = DOMAIN firms
      /\ \A j \in DOMAIN firms : firms'[j] = IF j = i THEN firm ELSE firms[j]
  <2>1. firms' \in Seq(Firm) /\ Len(firms') = Len(firms)
    BY <1>1, <1>3, <1>4, ExceptSeq
  <2>2. QED
    BY <1>1, <1>4, <2>1
<1>6. \A j \in Actives' : j \in Actives /\ firms'[j] = firms[j]
  BY <1>3, <1>5 DEF Actives
<1>7. FirmTypes'
  <2>1. firmOps' \in 0..MaxFirmOps
    BY <1>1, <1>4, FirmOpsTyped
  <2>2. QED
    BY <1>1, <1>4, <1>5, <2>1 DEF FirmTypes
<1>8. ~firmsCrossed' => FormsInv' /\ PlanInv' /\ ApartByMf'
  <2>1. FormsInv => FormsInv'
    BY <1>4, <1>6 DEF FormsInv, Free
  <2>2. PlanInv => PlanInv'
    BY <1>4, <1>6 DEF PlanInv, ToWrite
  <2>3. ApartByMf => ApartByMf'
    BY <1>6 DEF ApartByMf
  <2>4. QED
    BY <1>4, <2>1, <2>2, <2>3 DEF FirmsIInv
<1>9. ApartByName => ApartByName'
  BY <1>6 DEF ApartByName
<1>10. QED
  BY <1>4, <1>7, <1>8, <1>9 DEF FirmsIInv

\* An import starts with rows resolved on the companies of the moment.
LEMMA PlanTyped ==
    ASSUME FirmTypes, NEW file \in Files
    PROVE  /\ Plan(file) \in Seq(PlanRow)
           /\ DOMAIN Plan(file) = DOMAIN file
           /\ \A k \in DOMAIN file :
                 /\ Plan(file)[k].mf = file[k].mf
                 /\ Plan(file)[k].match = MatchFirm(file[k]) /\ file[k] \in FileRow
                 /\ Plan(file)[k].match \in 0..Len(firms)
                 /\ Plan(file)[k].action = "update" => Plan(file)[k].match # 0
                 /\ Plan(file)[k].action = "create" => Plan(file)[k].match = 0
                 /\ Plan(file)[k].action # "error" => file[k].rs # None /\ ~SeenBefore(file, k)
<1>1. PICK n \in 1..MaxFileRows : file \in [1..n -> FileRow]
  BY DEF Files
<1>2. /\ Plan(file) = [k \in 1..n |->
            [mf |-> file[k].mf, rs |-> file[k].rs,
             action |-> IF file[k].rs = None \/ SeenBefore(file, k) THEN "error"
                        ELSE IF MatchFirm(file[k]) = 0 THEN "create" ELSE "update",
             match |-> MatchFirm(file[k])]]
      /\ DOMAIN file = 1..n
  BY <1>1 DEF Plan
<1>3. ASSUME NEW k \in 1..n
      PROVE  /\ file[k] \in FileRow /\ file[k].mf \in MfCells /\ file[k].rs \in NameCells
             /\ MatchFirm(file[k]) \in 0..Len(firms) /\ MatchFirm(file[k]) \in Nat
  <2>1. file[k] \in FileRow
    BY <1>1
  <2>2. MatchFirm(file[k]) \in 0..Len(firms)
    BY <2>1, MatchTyped
  <2>3. Len(firms) \in Nat
    BY LenProperties DEF FirmTypes
  <2>4. QED
    BY <2>1, <2>2, <2>3 DEF FileRow
<1>4. Plan(file) \in Seq(PlanRow)
  <2>1. \A k \in 1..n : Plan(file)[k] \in PlanRow
    BY <1>2, <1>3 DEF PlanRow
  <2>2. Plan(file) \in [1..n -> PlanRow] /\ n \in Nat
    BY <1>1, <1>2, <2>1
  <2>3. QED
    BY <2>2 DEF Seq
<1>5. QED
  BY <1>2, <1>3, <1>4

LEMMA ImportFirmsInv ==
    ASSUME FirmsIInv, NEW file \in Files, ImportFirms(file)
    PROVE  FirmsIInv'
<1>1. FirmTypes
  BY DEF FirmsIInv
<1>2. /\ firmImport' = [at |-> "writing", plan |-> Plan(file), next |-> 1]
      /\ FirmOp /\ UNCHANGED <<firms, firmForm, imported>>
  BY DEF ImportFirms
<1>3. FirmTypes'
  <2>1. firmOps' \in 0..MaxFirmOps
    BY <1>1, <1>2, FirmOpsTyped DEF FirmOp
  <2>2. firmImport' \in [at: {"idle", "writing"}, plan: Seq(PlanRow), next: Nat \ {0}]
    BY <1>1, <1>2, PlanTyped
  <2>3. \A k \in DOMAIN firmImport'.plan :
          /\ firmImport'.plan[k].match \in 0..Len(firms)
          /\ firmImport'.plan[k].action = "update" => firmImport'.plan[k].match # 0
          /\ firmImport'.plan[k].action = "create" => firmImport'.plan[k].match = 0
    BY <1>1, <1>2, PlanTyped
  <2>4. QED
    BY <1>1, <1>2, <2>1, <2>2, <2>3 DEF FirmTypes
<1>4. ASSUME ~firmsCrossed'
      PROVE  FormsInv' /\ PlanInv' /\ ApartByMf' /\ (~imported' => ApartByName')
  <2>1. ~firmsCrossed /\ \A g \in FirmForms : firmForm[g].at = "idle"
    BY <1>2, <1>4, FirmOpAlone
  <2>2. ApartByMf /\ (~imported => ApartByName) /\ Actives' = Actives
    BY <1>2, <2>1 DEF FirmsIInv, Actives
  <2>3. FormsInv'
    BY <1>2, <2>1 DEF FormsInv
  <2>4. ASSUME NEW j \in DOMAIN file, NEW k \in DOMAIN file, ToWrite(j)', ToWrite(k)',
               file[j].mf = file[k].mf, j < k
        PROVE  FALSE
    <3>1. /\ file[k].mf # None /\ file[j].rs # None /\ ~SeenBefore(file, k)
      BY <1>1, <1>2, <2>4, PlanTyped DEF ToWrite
    <3>2. KeyOf(file[j]) = KeyOf(file[k])
      BY <2>4, <3>1 DEF KeyOf
    <3>3. j \in 1..(k - 1)
      BY <2>4 DEF Files
    <3>4. QED
      BY <3>1, <3>2, <3>3 DEF SeenBefore
  <2>5. ASSUME NEW j \in DOMAIN firmImport'.plan, NEW k \in DOMAIN firmImport'.plan,
               ToWrite(j)', ToWrite(k)', firmImport'.plan[j].mf = firmImport'.plan[k].mf
        PROVE  j = k
    <3>1. /\ j \in DOMAIN file /\ k \in DOMAIN file /\ file[j].mf = file[k].mf
      BY <1>1, <1>2, <2>5, PlanTyped
    <3>2. j \in Nat /\ k \in Nat
      BY <3>1 DEF Files
    <3>3. ~(j < k) /\ ~(k < j)
      BY <2>4, <2>5, <3>1
    <3>4. QED
      BY <3>2, <3>3
  <2>6. ASSUME NEW k \in DOMAIN firmImport'.plan, ToWrite(k)',
               NEW i \in Actives, firms[i].mf = firmImport'.plan[k].mf
        PROVE  i = firmImport'.plan[k].match
    <3>1. k \in DOMAIN file /\ file[k] \in FileRow /\ file[k].mf = firmImport'.plan[k].mf
          /\ firmImport'.plan[k].match = MatchFirm(file[k]) /\ file[k].mf # None
      BY <1>1, <1>2, <2>6, PlanTyped DEF ToWrite
    <3>2. QED
      BY <1>1, <2>2, <2>6, <3>1, MatchTyped
  <2>7. PlanInv'
    BY <1>2, <2>2, <2>5, <2>6 DEF PlanInv
  <2>8. QED
    BY <1>2, <2>2, <2>3, <2>7 DEF ApartByMf, ApartByName
<1>5. QED
  BY <1>3, <1>4 DEF FirmsIInv

\* A row is written, or its write fails.
LEMMA WriteFileRowInv ==
    ASSUME FirmsIInv, WriteFileRow
    PROVE  FirmsIInv'
<1> DEFINE row == firmImport.plan[firmImport.next]
<1>1. FirmTypes /\ Len(firms) \in Nat
  BY LenProperties DEF FirmsIInv, FirmTypes
<1>2. /\ firmImport \in [at: {"idle", "writing"}, plan: Seq(PlanRow), next: Nat \ {0}]
      /\ firmImport.at = "writing"
      /\ firmImport.next \in Nat \ {0} /\ firmImport.next \in 1..Len(firmImport.plan)
      /\ firmImport.plan \in Seq(PlanRow)
      /\ DOMAIN firmImport.plan = 1..Len(firmImport.plan)
  <2>1. firmImport.at = "writing" /\ firmImport.next <= Len(firmImport.plan)
    BY DEF WriteFileRow
  <2>2. firmImport \in [at: {"idle", "writing"}, plan: Seq(PlanRow), next: Nat \ {0}]
    BY <1>1, <2>1 DEF FirmTypes
  <2>3. firmImport.plan \in Seq(PlanRow) /\ firmImport.next \in Nat \ {0}
    BY <2>2
  <2>4. Len(firmImport.plan) \in Nat /\ DOMAIN firmImport.plan = 1..Len(firmImport.plan)
    BY <2>3, LenProperties
  <2>5. QED
    BY <2>1, <2>2, <2>3, <2>4
<1>3. /\ row \in PlanRow /\ row.match \in 0..Len(firms)
      /\ row.action = "update" => row.match # 0
      /\ row.action = "create" => row.match = 0
  <2>1. row \in PlanRow
    BY <1>2, ElementOfSeq
  <2>2. QED
    BY <1>1, <1>2, <2>1 DEF FirmTypes
<1>4. /\ firmImport' = [firmImport EXCEPT !.next = @ + 1]
      /\ imported' = TRUE /\ UNCHANGED <<firmForm, firmOps, firmsCrossed>>
  BY DEF WriteFileRow
<1>5. /\ firmImport' \in [at: {"idle", "writing"}, plan: Seq(PlanRow), next: Nat \ {0}]
      /\ firmImport'.plan = firmImport.plan /\ firmImport'.next = firmImport.next + 1
      /\ firmImport'.at = "writing"
  BY <1>2, <1>4
<1>6. CASE UNCHANGED firms
  <2>1. FirmTypes' /\ Actives' = Actives
    BY <1>1, <1>4, <1>5, <1>6 DEF FirmTypes, Actives
  <2>2. PlanInv => PlanInv'
    BY <1>2, <1>5, <1>6, <2>1 DEF PlanInv, ToWrite
  <2>3. FormsInv => FormsInv'
    BY <1>2, <1>4, <1>5 DEF FormsInv
  <2>4. ApartByMf => ApartByMf'
    BY <1>6, <2>1 DEF ApartByMf
  <2>5. QED
    BY <1>4, <2>1, <2>2, <2>3, <2>4 DEF FirmsIInv
<1>7. ASSUME NEW n \in Nat, Put(n, row.mf, row.rs), row.action # "error",
             \A i \in Actives : i # n => i # row.match
      PROVE  FirmsIInv'
  <2>1. FirmTypes'
    BY <1>1, <1>4, <1>5, <1>7, PutTyped DEF FirmTypes
  <2>2. ASSUME ~firmsCrossed' PROVE FormsInv' /\ PlanInv' /\ ApartByMf'
    <3>1. FormsInv /\ PlanInv /\ ApartByMf
      BY <1>4, <2>2 DEF FirmsIInv
    <3>2. FormsInv'
      BY <1>2, <1>4, <1>5, <3>1 DEF FormsInv
    <3>3. \A i \in Actives : i # n /\ row.mf # None => firms[i].mf # row.mf
      <4>1. row.mf # None => ToWrite(firmImport.next)
        BY <1>2, <1>7 DEF ToWrite
      <4>2. QED
        BY <1>2, <1>7, <3>1, <4>1 DEF PlanInv
    <3>4. ApartByMf'
      BY <1>7, <3>1, <3>3, PutApart
    <3>5. ASSUME NEW k \in DOMAIN firmImport'.plan, ToWrite(k)', k >= firmImport'.next,
                 NEW i \in Actives', firms'[i].mf = firmImport'.plan[k].mf
          PROVE  i = firmImport'.plan[k].match
      <4>1. k # firmImport.next /\ k \in DOMAIN firmImport.plan /\ ToWrite(k) /\ k >= firmImport.next
        BY <1>2, <1>5, <3>5 DEF ToWrite
      <4>2. row.mf # firmImport.plan[k].mf
        <5>1. row.mf = firmImport.plan[k].mf => ToWrite(firmImport.next)
          BY <1>2, <1>7, <4>1 DEF ToWrite
        <5>2. QED
          BY <1>2, <3>1, <4>1, <5>1 DEF PlanInv
      <4>3. i # n
        BY <1>5, <1>7, <3>5, <4>2 DEF Put
      <4>4. i \in Actives /\ firms[i].mf = firmImport.plan[k].mf
        BY <1>5, <1>7, <3>5, <4>3 DEF Put
      <4>5. QED
        BY <1>2, <1>5, <3>1, <4>1, <4>4 DEF PlanInv
    <3>6. PlanInv'
      BY <1>2, <1>5, <3>1, <3>5 DEF PlanInv, ToWrite
    <3>7. QED
      BY <3>2, <3>4, <3>6
  <2>3. QED
    BY <1>4, <2>1, <2>2 DEF FirmsIInv
<1>8. CASE row.action = "create" /\ Len(firms) < MaxFirms
           /\ firms' = Append(firms, [mf |-> row.mf, rs |-> row.rs, deleted |-> FALSE])
  <2>1. row.mf \in MfCells /\ row.rs \in NameCells
    BY <1>3 DEF PlanRow
  <2>2. Put(Len(firms) + 1, row.mf, row.rs)
    BY <1>1, <1>8, <2>1, FirmAdded
  <2>3. \A i \in Actives : i # row.match
    BY <1>1, <1>3, <1>8 DEF Actives, FirmTypes
  <2>4. QED
    BY <1>1, <1>7, <1>8, <2>2, <2>3
<1>9. CASE row.action = "update"
           /\ firms' = [firms EXCEPT ![row.match].mf = row.mf, ![row.match].rs = row.rs]
  <2>1. row.mf \in MfCells /\ row.rs \in NameCells /\ row.match \in 1..Len(firms)
    BY <1>1, <1>3, <1>9 DEF PlanRow
  <2>2. Put(row.match, row.mf, row.rs)
    BY <1>1, <1>9, <2>1, FirmChanged
  <2>3. QED
    BY <1>1, <1>7, <1>9, <2>1, <2>2
<1>10. QED
  BY <1>6, <1>8, <1>9 DEF WriteFileRow

LEMMA EndFirmImportInv ==
    ASSUME FirmsIInv, EndFirmImport
    PROVE  FirmsIInv'
<1>1. /\ firmImport' = NoImport /\ firmImport.at = "writing"
      /\ UNCHANGED <<firms, firmForm, firmOps, firmsCrossed, imported>>
  BY DEF EndFirmImport
<1>2. firmImport' \in [at: {"idle"}, plan: {<<>>}, next: {0}] /\ firmImport'.at = "idle"
      /\ DOMAIN firmImport'.plan = {}
  BY <1>1 DEF NoImport
<1>3. FirmTypes'
  BY <1>1, <1>2 DEF FirmsIInv, FirmTypes
<1>4. Actives' = Actives
  BY <1>1 DEF Actives
<1>5. FormsInv => FormsInv'
  BY <1>1 DEF FormsInv
<1>6. PlanInv'
  BY <1>2 DEF PlanInv
<1>7. (ApartByMf => ApartByMf') /\ (ApartByName => ApartByName')
  BY <1>1, <1>4 DEF ApartByMf, ApartByName
<1>8. QED
  BY <1>1, <1>3, <1>5, <1>6, <1>7 DEF FirmsIInv

----------------------------------------------------------------------------
(* The theorem.                                                            *)

LEMMA CompaniesInitInv == CompaniesInit => FirmsIInv
<1> SUFFICES ASSUME CompaniesInit PROVE FirmsIInv
  OBVIOUS
<1>1. /\ firms \in Seq(Firm) /\ Len(firms) <= 2 /\ DOMAIN firms \subseteq {1, 2}
      /\ \A i, j \in DOMAIN firms : i # j => firms[i].mf # firms[j].mf /\ firms[i].rs # firms[j].rs
  <2>1. CASE firms = <<>>
    BY <2>1
  <2>2. CASE firms # <<>>
    <3>1. PICK t \in Mfs \X MfCells \X FirmNames \X FirmNames :
             /\ t[1] # t[2] /\ t[3] # t[4]
             /\ firms = <<[mf |-> t[1], rs |-> t[3], deleted |-> FALSE],
                          [mf |-> t[2], rs |-> t[4], deleted |-> FALSE]>>
      BY <2>2 DEF CompaniesInit, InitialFirms
    <3>2. PICK m, n, x, y :
             /\ m \in MfCells /\ n \in MfCells /\ x \in NameCells /\ y \in NameCells
             /\ m # n /\ x # y
             /\ firms = <<[mf |-> m, rs |-> x, deleted |-> FALSE],
                          [mf |-> n, rs |-> y, deleted |-> FALSE]>>
      BY <3>1 DEF MfCells, NameCells
    <3>3. /\ [mf |-> m, rs |-> x, deleted |-> FALSE] \in Firm
          /\ [mf |-> n, rs |-> y, deleted |-> FALSE] \in Firm
      BY <3>2 DEF Firm
    <3>4. firms \in Seq(Firm) /\ Len(firms) = 2 /\ DOMAIN firms = {1, 2}
      BY <3>2, <3>3
    <3>5. /\ firms[1].mf = m /\ firms[1].rs = x
          /\ firms[2].mf = n /\ firms[2].rs = y
      BY <3>2
    <3>6. QED
      BY <3>2, <3>4, <3>5
  <2>3. QED
    BY <2>1, <2>2
<1>2. FirmTypes
  <2>1. firmForm \in [FirmForms -> FirmFormState] /\ \A f \in FirmForms : firmForm[f].on = 0
    BY IdleFirmFormTyped DEF CompaniesInit
  <2>2. /\ firmImport \in [at: {"idle"}, plan: {<<>>}, next: {0}]
        /\ DOMAIN firmImport.plan = {}
    BY DEF CompaniesInit, NoImport
  <2>3. Len(firms) \in Nat
    BY <1>1, LenProperties
  <2>4. QED
    BY <1>1, <2>1, <2>2, <2>3, FirmBounds DEF FirmTypes, CompaniesInit
<1>3. FormsInv /\ PlanInv
  BY IdleFirmFormTyped DEF CompaniesInit, FormsInv, PlanInv, NoImport
<1>4. ApartByMf /\ ApartByName
  BY <1>1 DEF ApartByMf, ApartByName, Actives
<1>5. QED
  BY <1>2, <1>3, <1>4 DEF FirmsIInv

LEMMA CompaniesStepInv ==
    ASSUME FirmsIInv, [CompaniesNext]_firmVars
    PROVE  FirmsIInv'
<1>1. CASE UNCHANGED firmVars
  <2>1. UNCHANGED <<firms, firmForm, firmImport, firmOps, firmsCrossed, imported>>
    BY <1>1 DEF firmVars
  <2>2. FirmTypes'
    BY <2>1 DEF FirmsIInv, FirmTypes
  <2>3. Actives' = Actives
    BY <2>1 DEF Actives
  <2>4. (ApartByMf => ApartByMf') /\ (ApartByName => ApartByName')
    BY <2>1, <2>3 DEF ApartByMf, ApartByName
  <2>5. (FormsInv => FormsInv') /\ (PlanInv => PlanInv')
    BY <2>1, <2>3 DEF FormsInv, Free, PlanInv, ToWrite
  <2>6. QED
    BY <2>1, <2>2, <2>4, <2>5 DEF FirmsIInv
<1>2. QED
  BY <1>1, CheckFirmInv, WriteFirmInv, RemoveFirmInv, ImportFirmsInv, WriteFileRowInv,
     EndFirmImportInv DEF CompaniesNext

\* The export imported back finds its companies.
LEMMA RoundTripHolds == FirmTypes => RoundTrip
<1> SUFFICES ASSUME FirmTypes, NEW i \in Actives, firms[i].rs # None
             PROVE  LET back == [mf |-> firms[i].mf, rs |-> firms[i].rs] IN
                    /\ MatchFirm(back) # 0
                    /\ ApartByMf /\ ApartByName => MatchFirm(back) = i
  BY DEF RoundTrip
<1> DEFINE back == [mf |-> firms[i].mf, rs |-> firms[i].rs]
<1>1. /\ DOMAIN firms = 1..Len(firms) /\ Len(firms) \in Nat
      /\ ByMf(back.mf) \subseteq Actives /\ ByName(back.rs) \subseteq Actives
      /\ Actives \subseteq DOMAIN firms
  BY LenProperties DEF FirmTypes, ByMf, ByName, Actives
<1>2. /\ ByMf(back.mf) # {} => LastOf(ByMf(back.mf)) \in ByMf(back.mf)
      /\ ByName(back.rs) # {} => LastOf(ByName(back.rs)) \in ByName(back.rs)
  <2>1. ByMf(back.mf) \subseteq DOMAIN firms /\ ByName(back.rs) \subseteq DOMAIN firms
    BY <1>1
  <2>2. QED
    BY <2>1, LastOfFirms
<1>3. i \in ByName(back.rs) /\ (firms[i].mf # None => i \in ByMf(back.mf))
  BY DEF ByMf, ByName
<1>4. MatchFirm(back) = IF ByMf(back.mf) # {} THEN LastOf(ByMf(back.mf))
                        ELSE LastOf(ByName(back.rs))
  BY <1>3 DEF MatchFirm
<1>5. MatchFirm(back) # 0
  BY <1>1, <1>2, <1>3, <1>4
<1>6. ASSUME ApartByMf, ApartByName PROVE MatchFirm(back) = i
  <2>1. CASE ByMf(back.mf) # {}
    <3>1. LastOf(ByMf(back.mf)) \in Actives /\ firms[LastOf(ByMf(back.mf))].mf = firms[i].mf
          /\ firms[i].mf # None
      BY <1>2, <2>1 DEF ByMf
    <3>2. QED
      BY <1>4, <1>6, <2>1, <3>1 DEF ApartByMf
  <2>2. CASE ByMf(back.mf) = {}
    <3>1. LastOf(ByName(back.rs)) \in Actives /\ firms[LastOf(ByName(back.rs))].rs = firms[i].rs
      BY <1>2, <1>3 DEF ByName
    <3>2. QED
      BY <1>4, <1>6, <2>2, <3>1 DEF ApartByName
  <2>3. QED
    BY <2>1, <2>2
<1>7. QED
  BY <1>5, <1>6

\* The companies, for every set of tax numbers, names and forms: two active ones have two
\* numbers when the requests do not overlap, imports included, two names by the forms
\* alone, and the import of the export finds each again.
THEOREM CompaniesInvariant == CompaniesSpec => []CompaniesInv
<1>1. FirmsIInv => CompaniesInv
  <2> SUFFICES ASSUME FirmsIInv PROVE CompaniesInv
    OBVIOUS
  <2>1. CompaniesTypeOK
    BY DEF FirmsIInv, FirmTypes, CompaniesTypeOK, FirmFormState
  <2>2. MfDistinctIfSerial /\ NamesDistinctIfSerial
    BY DEF FirmsIInv, MfDistinctIfSerial, NamesDistinctIfSerial
  <2>3. RoundTrip
    BY RoundTripHolds DEF FirmsIInv
  <2>4. QED
    BY <2>1, <2>2, <2>3 DEF CompaniesInv
<1>2. FirmsIInv /\ [CompaniesNext]_firmVars => FirmsIInv'
  BY CompaniesStepInv
<1>3. QED
  BY <1>1, <1>2, CompaniesInitInv, PTL DEF CompaniesSpec

(***************************************************************************)
(* The minutes of the meetings.                                            *)
(***************************************************************************)

WriterState == [at: {"idle", "number", "insert", "refused", "save", "sync"}, on: Nat,
                copy: Meeting, todo: SUBSET Actions, changed: BOOLEAN,
                tries: 0..CreateAttempts, from: Nat]

MeetingTypes ==
    /\ meetings \in Seq(Meeting) /\ Len(meetings) <= MaxMeetings
    /\ \A m \in DOMAIN meetings : meetings[m].keyed \subseteq meetings[m].actions
    /\ issues \in [1..MaxMeetings -> [Actions -> Nat]]
    /\ writer \in [Writers -> WriterState]
    /\ meetingOps \in 0..MaxMeetingOps

\* What a request has in hand.  A number read is one past the meetings of that moment, so
\* that each refusal of the index counts a meeting more.
WriterHolds(req, count) ==
    /\ req.copy.keyed \subseteq req.copy.actions /\ req.todo \subseteq req.copy.actions
    /\ req.at \in {"save", "sync"} => req.on \in 1..count
    /\ req.at = "save" => ~req.copy.final
    /\ req.at = "idle" => req.tries = 0
    /\ req.at \in {"number", "insert"} => req.tries < CreateAttempts
    /\ req.at = "number" => req.from + req.tries <= count
    /\ req.at = "insert" => req.from + req.tries < req.on /\ req.on <= count + 1
    /\ req.at = "refused" => req.from + CreateAttempts <= count
WritersInv == \A w \in Writers : WriterHolds(writer[w], Len(meetings))

\* A meeting no two requests have worked on has one writer, whose copy is the meeting: up
\* to the keys it has yet to link, which are those of the issues.
WorksOn(req, m) == req.at \in {"save", "sync"} /\ req.on = m
OneWriter == \A m \in DOMAIN meetings \ overlapped : \A v, w \in Writers :
    WorksOn(writer[v], m) /\ WorksOn(writer[w], m) => v = w
Linked(actions, keyed, made) == \A a \in actions : made[a] = IF a \in keyed THEN 1 ELSE 0
InCopy(req, m) ==
    /\ req.at = "save" => req.copy = meetings[m]
    /\ req.at = "sync" =>
          /\ req.copy.actions = meetings[m].actions
          /\ ~req.changed => req.copy.keyed = meetings[m].keyed
          /\ m \notin unlinked => Linked(req.copy.actions, req.copy.keyed, issues[m])
CopyInv == \A w \in Writers, m \in DOMAIN meetings \ overlapped :
    WorksOn(writer[w], m) => InCopy(writer[w], m)
Syncs(m) == \E w \in Writers : writer[w].at = "sync" /\ writer[w].on = m
LinkedInv == \A m \in DOMAIN meetings \ (overlapped \cup unlinked) :
    Syncs(m) \/ Linked(meetings[m].actions, meetings[m].keyed, issues[m])
NoIssueYet == \A m \in 1..MaxMeetings : m > Len(meetings) => \A a \in Actions : issues[m][a] = 0

MeetingIInv == MeetingTypes /\ WritersInv /\ OneWriter /\ CopyInv /\ LinkedInv /\ NoIssueYet

----------------------------------------------------------------------------
(* Helpers.                                                                *)

LEMMA CountMeetings ==
    ASSUME MeetingTypes
    PROVE  /\ Len(meetings) \in Nat /\ DOMAIN meetings = 1..Len(meetings)
           /\ Len(meetings) <= MaxMeetings /\ MaxMeetings \in Nat
           /\ meetings \in Seq(Meeting)
           /\ \A m \in DOMAIN meetings : m \in 1..MaxMeetings /\ meetings[m] \in Meeting
<1>1. Len(meetings) \in Nat /\ DOMAIN meetings = 1..Len(meetings) /\ MaxMeetings \in Nat
      /\ Len(meetings) <= MaxMeetings /\ meetings \in Seq(Meeting)
  BY LenProperties, MeetingBounds DEF MeetingTypes
<1>2. \A m \in 1..Len(meetings) : meetings[m] \in Meeting
  BY <1>1, ElementOfSeq
<1>3. QED
  BY <1>1, <1>2

LEMMA WriterInHand ==
    ASSUME MeetingIInv, NEW w \in Writers
    PROVE  /\ MeetingTypes /\ writer[w] \in WriterState /\ WriterHolds(writer[w], Len(meetings))
           /\ writer[w].copy \in Meeting
  BY DEF MeetingIInv, MeetingTypes, WritersInv, WriterState

LEMMA WriterMoved ==
    ASSUME MeetingTypes, NEW w \in Writers, NEW state \in WriterState,
           writer' = [writer EXCEPT ![w] = state]
    PROVE  /\ writer' \in [Writers -> WriterState] /\ writer'[w] = state
           /\ \A v \in Writers \ {w} : writer'[v] = writer[v]
  BY DEF MeetingTypes

LEMMA IdleWriterTyped ==
    /\ IdleWriter \in WriterState /\ IdleWriter.at = "idle" /\ IdleWriter.tries = 0
    /\ IdleWriter.copy = NoMeeting /\ IdleWriter.todo = {} /\ IdleWriter.on = 0
    /\ IdleWriter.changed = FALSE
    /\ NoMeeting \in Meeting /\ NoMeeting.keyed = {} /\ NoMeeting.actions = {}
<1>1. NoMeeting \in Meeting /\ NoMeeting.keyed = {} /\ NoMeeting.actions = {}
  BY DEF NoMeeting, Meeting
<1>2. QED
  BY <1>1 DEF IdleWriter, WriterState, CreateAttempts

LEMMA RequestTyped ==
    ASSUME MeetingTypes, NEW w \in Writers, Request(w) PROVE meetingOps' \in 0..MaxMeetingOps
  BY MeetingBounds DEF MeetingTypes, Request

LEMMA HoldsLonger ==
    ASSUME NEW req \in WriterState, NEW n \in Nat, NEW p \in Nat, n <= p, WriterHolds(req, n)
    PROVE  WriterHolds(req, p)
  BY DEF WriterHolds, WriterState, CreateAttempts

\* A request moves, and works on no meeting after.
LEMMA WriterAside ==
    ASSUME MeetingIInv, NEW w \in Writers, NEW state \in WriterState,
           writer' = [writer EXCEPT ![w] = state],
           UNCHANGED <<meetings, issues, overlapped, unlinked>>, meetingOps' \in 0..MaxMeetingOps,
           writer[w].at # "sync", state.at \notin {"save", "sync"},
           WriterHolds(state, Len(meetings))
    PROVE  MeetingIInv'
<1>1. /\ writer' \in [Writers -> WriterState] /\ writer'[w] = state
      /\ \A v \in Writers \ {w} : writer'[v] = writer[v]
  BY WriterMoved DEF MeetingIInv
<1>2. MeetingTypes'
  BY <1>1 DEF MeetingIInv, MeetingTypes
<1>3. WritersInv'
  BY <1>1 DEF MeetingIInv, WritersInv
<1>4. \A v \in Writers, m \in DOMAIN meetings :
         WorksOn(writer'[v], m) => v # w /\ writer'[v] = writer[v] /\ WorksOn(writer[v], m)
  BY <1>1 DEF WorksOn
<1>5. OneWriter'
  BY <1>4 DEF MeetingIInv, OneWriter
<1>6. CopyInv'
  BY <1>4 DEF MeetingIInv, CopyInv, InCopy
<1>7. \A m : Syncs(m) => \E v \in Writers : writer'[v].at = "sync" /\ writer'[v].on = m
  BY <1>1 DEF Syncs
<1>8. LinkedInv'
  BY <1>7 DEF MeetingIInv, LinkedInv, Syncs
<1>9. NoIssueYet'
  BY DEF MeetingIInv, NoIssueYet
<1>10. QED
  BY <1>2, <1>3, <1>5, <1>6, <1>8, <1>9 DEF MeetingIInv

\* A request works on a meeting: what it must leave for the meeting, and for itself.
LEMMA WriterAtWork ==
    ASSUME MeetingIInv, NEW w \in Writers, NEW state \in WriterState, NEW m \in 1..MaxMeetings,
           writer' = [writer EXCEPT ![w] = state],
           meetings' \in Seq(Meeting), Len(meetings) <= Len(meetings'), Len(meetings') <= MaxMeetings,
           m \in DOMAIN meetings', \A i \in DOMAIN meetings' : i # m => i \in DOMAIN meetings,
           \A i \in DOMAIN meetings : i # m => meetings'[i] = meetings[i],
           meetings'[m].keyed \subseteq meetings'[m].actions,
           issues' \in [1..MaxMeetings -> [Actions -> Nat]],
           \A i \in 1..MaxMeetings : i # m => issues'[i] = issues[i],
           UNCHANGED <<overlapped, meetingOps>>,
           unlinked \subseteq unlinked', unlinked' \subseteq unlinked \cup {m},
           \A i : WorksOn(writer[w], i) => i = m,
           m \notin overlapped => \A v \in Writers : v # w => ~WorksOn(writer[v], m),
           WriterHolds(state, Len(meetings')), \A i : WorksOn(state, i) => i = m,
           m \notin overlapped /\ WorksOn(state, m) => InCopy(state, m)',
           m \notin overlapped \cup unlinked' =>
               \/ state.at = "sync" /\ state.on = m
               \/ Linked(meetings'[m].actions, meetings'[m].keyed, issues'[m])
    PROVE  MeetingIInv'
<1>1. /\ writer' \in [Writers -> WriterState] /\ writer'[w] = state
      /\ \A v \in Writers \ {w} : writer'[v] = writer[v]
  BY WriterMoved DEF MeetingIInv
<1>2. /\ Len(meetings) \in Nat /\ DOMAIN meetings = 1..Len(meetings)
      /\ Len(meetings') \in Nat /\ DOMAIN meetings' = 1..Len(meetings') /\ MeetingTypes
      /\ \A i \in DOMAIN meetings : i \in 1..MaxMeetings
  BY CountMeetings, LenProperties DEF MeetingIInv
<1>3. MeetingTypes'
  <2>1. \A i \in DOMAIN meetings' : meetings'[i].keyed \subseteq meetings'[i].actions
    BY <1>2 DEF MeetingTypes
  <2>2. QED
    BY <1>1, <1>2, <2>1 DEF MeetingTypes
<1>4. WritersInv'
  <2>1. ASSUME NEW v \in Writers PROVE WriterHolds(writer'[v], Len(meetings'))
    <3>1. CASE v = w
      BY <1>1, <3>1
    <3>2. CASE v # w
      <4>1. writer[v] \in WriterState /\ WriterHolds(writer[v], Len(meetings))
        BY WriterInHand
      <4>2. WriterHolds(writer[v], Len(meetings'))
        BY <1>2, <4>1, HoldsLonger
      <4>3. QED
        BY <1>1, <3>2, <4>2
    <3>3. QED
      BY <3>1, <3>2
  <2>2. QED
    BY <2>1 DEF WritersInv
<1>5. \A v \in Writers, i \in DOMAIN meetings' \ overlapped :
         WorksOn(writer'[v], i) => (v = w /\ i = m) \/ (v # w /\ i # m /\ i \in DOMAIN meetings)
  BY <1>1
<1>6. OneWriter'
  <2>1. ASSUME NEW i \in DOMAIN meetings' \ overlapped, NEW u \in Writers, NEW v \in Writers,
               WorksOn(writer'[u], i), WorksOn(writer'[v], i)
        PROVE  u = v
    <3>1. CASE i = m
      BY <1>5, <2>1, <3>1
    <3>2. CASE i # m
      BY <1>1, <1>5, <2>1, <3>2 DEF MeetingIInv, OneWriter
    <3>3. QED
      BY <3>1, <3>2
  <2>2. QED
    BY <2>1 DEF OneWriter
<1>7. CopyInv'
  <2>1. ASSUME NEW v \in Writers, NEW i \in DOMAIN meetings' \ overlapped, WorksOn(writer'[v], i)
        PROVE  InCopy(writer[v], i)'
    <3>1. CASE v = w /\ i = m
      BY <1>1, <2>1, <3>1 DEF InCopy
    <3>2. CASE v # w /\ i # m /\ i \in DOMAIN meetings
      <4>1. InCopy(writer[v], i) /\ writer'[v] = writer[v]
        BY <1>1, <2>1, <3>2 DEF MeetingIInv, CopyInv
      <4>2. meetings'[i] = meetings[i] /\ issues'[i] = issues[i]
        BY <1>2, <3>2
      <4>3. QED
        BY <1>2, <4>1, <4>2 DEF InCopy
    <3>3. QED
      BY <1>5, <2>1, <3>1, <3>2
  <2>2. QED
    BY <2>1 DEF CopyInv
<1>8. LinkedInv'
  <2>1. ASSUME NEW i \in DOMAIN meetings' \ (overlapped \cup unlinked')
        PROVE  \/ \E v \in Writers : writer'[v].at = "sync" /\ writer'[v].on = i
               \/ Linked(meetings'[i].actions, meetings'[i].keyed, issues'[i])
    <3>1. CASE i = m
      BY <1>1, <2>1, <3>1
    <3>2. CASE i # m
      <4>1. /\ i \in DOMAIN meetings \ (overlapped \cup unlinked)
            /\ meetings'[i] = meetings[i] /\ issues'[i] = issues[i]
        <5>1. i \in DOMAIN meetings /\ i \notin overlapped \cup unlinked
          BY <2>1, <3>2
        <5>2. QED
          BY <1>2, <3>2, <5>1
      <4>2. CASE Syncs(i)
        <5>1. PICK v \in Writers : writer[v].at = "sync" /\ writer[v].on = i
          BY <4>2 DEF Syncs
        <5>2. v # w
          BY <3>2, <5>1 DEF WorksOn
        <5>3. QED
          BY <1>1, <5>1, <5>2
      <4>3. CASE ~Syncs(i)
        BY <4>1, <4>3 DEF MeetingIInv, LinkedInv
      <4>4. QED
        BY <4>2, <4>3
    <3>3. QED
      BY <3>1, <3>2
  <2>2. QED
    BY <2>1 DEF LinkedInv, Syncs
<1>9. NoIssueYet'
  <2>1. ASSUME NEW i \in 1..MaxMeetings, i > Len(meetings') PROVE \A a \in Actions : issues'[i][a] = 0
    <3>1. i # m /\ i > Len(meetings)
      BY <1>2, <2>1
    <3>2. QED
      BY <3>1 DEF MeetingIInv, NoIssueYet
  <2>2. QED
    BY <2>1 DEF NoIssueYet
<1>10. QED
  BY <1>3, <1>4, <1>6, <1>7, <1>8, <1>9 DEF MeetingIInv

----------------------------------------------------------------------------
(* create.                                                                 *)

LEMMA StartCreateInv ==
    ASSUME MeetingIInv, NEW w \in Writers, StartCreate(w)
    PROVE  MeetingIInv'
<1> DEFINE state == [writer[w] EXCEPT !.at = "number", !.from = Len(meetings)]
<1>1. MeetingTypes /\ writer[w] \in WriterState /\ WriterHolds(writer[w], Len(meetings))
      /\ writer[w].at = "idle" /\ Len(meetings) \in Nat
  BY WriterInHand, CountMeetings DEF StartCreate, Request
<1>2. /\ writer' = [writer EXCEPT ![w] = state] /\ Request(w)
      /\ UNCHANGED <<meetings, issues, overlapped, unlinked>>
  BY DEF StartCreate
<1>3. /\ state \in WriterState /\ state.at = "number" /\ state.from = Len(meetings)
      /\ state.tries = writer[w].tries /\ state.copy = writer[w].copy /\ state.todo = writer[w].todo
  BY <1>1 DEF WriterState
<1> HIDE DEF state
<1>4. WriterHolds(state, Len(meetings))
  BY <1>1, <1>3 DEF WriterHolds, CreateAttempts
<1>5. meetingOps' \in 0..MaxMeetingOps
  BY <1>1, <1>2, RequestTyped
<1>6. QED
  BY <1>1, <1>2, <1>3, <1>4, <1>5, WriterAside

LEMMA ReadNumberInv ==
    ASSUME MeetingIInv, NEW w \in Writers, ReadNumber(w)
    PROVE  MeetingIInv'
<1>1. MeetingTypes /\ writer[w] \in WriterState /\ WriterHolds(writer[w], Len(meetings))
      /\ writer[w].at = "number" /\ Len(meetings) \in Nat
  BY WriterInHand, CountMeetings DEF ReadNumber
<1>2. PICK n \in Nat : n = Len(meetings) + 1
  BY <1>1
<1> DEFINE state == [writer[w] EXCEPT !.at = "insert", !.on = n]
<1>3. /\ writer' = [writer EXCEPT ![w] = state]
      /\ UNCHANGED <<meetings, issues, overlapped, unlinked, meetingOps>>
  BY <1>2 DEF ReadNumber, NextReference
<1>4. /\ state \in WriterState /\ state.at = "insert" /\ state.from = writer[w].from
      /\ state.on = n
      /\ state.tries = writer[w].tries /\ state.copy = writer[w].copy /\ state.todo = writer[w].todo
  BY <1>1 DEF WriterState
<1> HIDE DEF state
<1>5. WriterHolds(state, Len(meetings))
  BY <1>1, <1>2, <1>4 DEF WriterHolds, WriterState, CreateAttempts
<1>6. QED
  BY <1>1, <1>3, <1>4, <1>5, WriterAside DEF MeetingTypes

\* The index refuses a number, and the request has lost a race.
LEMMA InsertRefusedInv ==
    ASSUME MeetingIInv, NEW w \in Writers, NEW actions \in SUBSET Actions, NEW final \in BOOLEAN,
           Insert(w, actions, final), ~(writer[w].on > Len(meetings))
    PROVE  MeetingIInv'
<1>1. MeetingTypes /\ writer[w] \in WriterState /\ WriterHolds(writer[w], Len(meetings))
      /\ writer[w].at = "insert" /\ Len(meetings) \in Nat
  BY WriterInHand, CountMeetings DEF Insert
<1>2. /\ writer[w].tries \in Nat /\ writer[w].from \in Nat /\ writer[w].on \in Nat
      /\ writer[w].tries < CreateAttempts
      /\ writer[w].from + writer[w].tries + 1 <= Len(meetings)
  BY <1>1 DEF WriterState, WriterHolds, CreateAttempts
<1>3. PICK tries \in 0..CreateAttempts, at \in {"number", "refused"} :
         /\ tries = writer[w].tries + 1
         /\ at = IF writer[w].tries + 1 < CreateAttempts THEN "number" ELSE "refused"
  BY <1>2 DEF CreateAttempts
<1> DEFINE state == [writer[w] EXCEPT !.tries = tries, !.on = 0, !.at = at]
<1>4. /\ writer' = [writer EXCEPT ![w] = state]
      /\ UNCHANGED <<meetings, issues, overlapped, unlinked, meetingOps>>
  BY <1>3 DEF Insert
<1>5. /\ state \in WriterState /\ state.at = at /\ state.from = writer[w].from
      /\ state.tries = tries /\ state.copy = writer[w].copy /\ state.todo = writer[w].todo
  BY <1>1 DEF WriterState
<1> HIDE DEF state
<1>6. /\ at = "number" => tries < CreateAttempts
      /\ at = "refused" => tries = CreateAttempts
      /\ writer[w].from + tries <= Len(meetings)
  BY <1>1, <1>2, <1>3 DEF CreateAttempts
<1>7. WriterHolds(state, Len(meetings))
  BY <1>1, <1>3, <1>5, <1>6 DEF WriterHolds
<1>8. QED
  BY <1>1, <1>3, <1>4, <1>5, <1>7, WriterAside DEF MeetingTypes

\* What the mirror starts from.
SyncState(m, copy) ==
    [IdleWriter EXCEPT !.at = "sync", !.on = m, !.copy = copy, !.todo = copy.actions]

LEMMA SyncStateTyped ==
    ASSUME NEW m \in Nat, NEW copy \in Meeting
    PROVE  /\ SyncState(m, copy) \in WriterState
           /\ SyncState(m, copy).at = "sync" /\ SyncState(m, copy).on = m
           /\ SyncState(m, copy).copy = copy /\ SyncState(m, copy).todo = copy.actions
           /\ SyncState(m, copy).changed = FALSE
<1>1. copy.actions \in SUBSET Actions
  BY DEF Meeting
<1>2. QED
  BY <1>1, IdleWriterTyped DEF WriterState, SyncState

LEMMA InsertTakenInv ==
    ASSUME MeetingIInv, NEW w \in Writers, NEW actions \in SUBSET Actions, NEW final \in BOOLEAN,
           Insert(w, actions, final), writer[w].on > Len(meetings)
    PROVE  MeetingIInv'
<1>1. /\ MeetingTypes /\ writer[w] \in WriterState /\ WriterHolds(writer[w], Len(meetings))
      /\ writer[w].at = "insert" /\ Len(meetings) \in Nat /\ DOMAIN meetings = 1..Len(meetings)
      /\ Len(meetings) <= MaxMeetings /\ MaxMeetings \in Nat /\ meetings \in Seq(Meeting)
  BY WriterInHand, CountMeetings DEF Insert
<1> PICK m \in Nat : m = Len(meetings) + 1
  BY <1>1
<1> PICK new \in Meeting : /\ new = [NoMeeting EXCEPT !.actions = actions, !.final = final]
                           /\ new.actions = actions /\ new.keyed = {}
  <2> DEFINE blank == [NoMeeting EXCEPT !.actions = actions, !.final = final]
  <2>1. blank \in Meeting /\ blank.actions = actions /\ blank.keyed = {}
    BY IdleWriterTyped DEF Meeting
  <2>2. QED
    BY <2>1
<1>2. /\ meetings' = Append(meetings, new) /\ Syncing(w, writer[w].on, new)
      /\ Len(meetings) < MaxMeetings
      /\ UNCHANGED <<issues, overlapped, unlinked, meetingOps>>
  BY <1>1 DEF Insert, WriterState
<1>3. writer[w].on = m /\ m \in 1..MaxMeetings
  BY <1>1, <1>2 DEF WriterHolds, WriterState
<1>4. new \in Meeting /\ new.actions = actions /\ new.keyed = {}
  OBVIOUS
<1>5. /\ meetings' \in Seq(Meeting) /\ Len(meetings') = m
      /\ \A i \in 1..Len(meetings) : meetings'[i] = meetings[i]
      /\ meetings'[m] = new
  BY <1>1, <1>2, <1>4, AppendProperties
<1>6. DOMAIN meetings' = 1..m /\ m \in Nat
  BY <1>1, <1>5, LenProperties
<1>7. PICK state \in WriterState :
         /\ writer' = [writer EXCEPT ![w] = state]
         /\ state.at = "sync" /\ state.on = m /\ state.copy = new
         /\ state.todo = new.actions /\ state.changed = FALSE
  <2> DEFINE state == SyncState(m, new)
  <2>1. m \in Nat /\ new \in Meeting
    BY <1>1
  <2>2. /\ state \in WriterState /\ state.at = "sync" /\ state.on = m /\ state.copy = new
        /\ state.todo = new.actions /\ state.changed = FALSE
    BY <2>1, SyncStateTyped
  <2>3. writer' = [writer EXCEPT ![w] = state]
    BY <1>2, <1>3 DEF Syncing, SyncState
  <2> HIDE DEF state
  <2>4. QED
    BY <2>2, <2>3
<1>8. \A v \in Writers : ~WorksOn(writer[v], m)
  BY <1>1 DEF WorksOn, MeetingIInv, WritersInv, WriterHolds
<1>9. \A a \in Actions : issues[m][a] = 0
  BY <1>1, <1>3 DEF MeetingIInv, NoIssueYet
<1>10. InCopy(state, m)'
  BY <1>2, <1>4, <1>5, <1>7, <1>9 DEF InCopy, Linked
<1>11. \A i : WorksOn(writer[w], i) => i = m
  BY <1>1 DEF WorksOn
<1>12. \A i \in DOMAIN meetings' : i # m => i \in DOMAIN meetings
  BY <1>1, <1>6
<1>13. WriterHolds(state, Len(meetings'))
  BY <1>1, <1>4, <1>5, <1>6, <1>7 DEF WriterHolds
<1>14. \A i : WorksOn(state, i) => i = m
  BY <1>7 DEF WorksOn
<1>15. /\ Len(meetings) <= Len(meetings') /\ Len(meetings') <= MaxMeetings /\ m \in DOMAIN meetings'
       /\ \A i \in DOMAIN meetings : meetings'[i] = meetings[i]
       /\ meetings'[m].keyed \subseteq meetings'[m].actions
       /\ issues' \in [1..MaxMeetings -> [Actions -> Nat]]
  BY <1>1, <1>2, <1>3, <1>4, <1>5, <1>6 DEF MeetingTypes
<1>16. QED
  BY <1>2, <1>3, <1>5, <1>7, <1>8, <1>10, <1>11, <1>12, <1>13, <1>14, <1>15, WriterAtWork

----------------------------------------------------------------------------
(* updateReunionDetails and syncActionsToJira.                             *)

LEMMA LoadInv ==
    ASSUME MeetingIInv, NEW w \in Writers, NEW m \in DOMAIN meetings, Load(w, m)
    PROVE  MeetingIInv'
<1> DEFINE state == [IdleWriter EXCEPT !.at = "save", !.on = m, !.copy = meetings[m]]
<1>1. /\ MeetingTypes /\ writer[w] \in WriterState /\ writer[w].at = "idle"
      /\ Len(meetings) \in Nat /\ DOMAIN meetings = 1..Len(meetings)
      /\ meetings[m] \in Meeting /\ ~meetings[m].final
      /\ meetings[m].keyed \subseteq meetings[m].actions
  BY WriterInHand, CountMeetings DEF Load, Request, Editable, MeetingTypes
<1>2. /\ writer' = [writer EXCEPT ![w] = state] /\ Request(w)
      /\ overlapped' = IF Untouched(m) THEN overlapped ELSE overlapped \cup {m}
      /\ UNCHANGED <<meetings, issues, unlinked>>
  BY DEF Load
<1>3. /\ state \in WriterState /\ state.at = "save" /\ state.on = m /\ state.copy = meetings[m]
      /\ state.todo = {}
  <2>1. m \in Nat
    BY <1>1
  <2>2. QED
    BY <1>1, <2>1, IdleWriterTyped DEF WriterState
<1> HIDE DEF state
<1>4. /\ writer' \in [Writers -> WriterState] /\ writer'[w] = state
      /\ \A v \in Writers \ {w} : writer'[v] = writer[v]
  BY <1>1, <1>2, <1>3, WriterMoved
<1>5. MeetingTypes'
  BY <1>1, <1>2, <1>4, RequestTyped DEF MeetingTypes
<1>6. WritersInv'
  <2>1. WriterHolds(state, Len(meetings))
    BY <1>1, <1>3 DEF WriterHolds
  <2>2. QED
    BY <1>2, <1>4, <2>1 DEF WritersInv, MeetingIInv
<1>7. \A i \in DOMAIN meetings \ overlapped', v \in Writers :
         /\ i \notin overlapped
         /\ WorksOn(writer'[v], i) => (v = w /\ i = m) \/ (v # w /\ i # m /\ WorksOn(writer[v], i))
  <2>1. m \notin overlapped' => \A v \in Writers : writer[v].on # m
    BY <1>2 DEF Untouched
  <2>2. QED
    BY <1>2, <1>3, <1>4, <2>1 DEF WorksOn
<1>8. OneWriter'
  <2>1. ASSUME NEW i \in DOMAIN meetings \ overlapped', NEW u \in Writers, NEW v \in Writers,
               WorksOn(writer'[u], i), WorksOn(writer'[v], i)
        PROVE  u = v
    <3>1. CASE i = m
      BY <1>7, <2>1, <3>1
    <3>2. CASE i # m
      BY <1>7, <2>1, <3>2 DEF MeetingIInv, OneWriter
    <3>3. QED
      BY <3>1, <3>2
  <2>2. QED
    BY <1>2, <2>1 DEF OneWriter
<1>9. CopyInv'
  <2>1. ASSUME NEW v \in Writers, NEW i \in DOMAIN meetings \ overlapped', WorksOn(writer'[v], i)
        PROVE  InCopy(writer[v], i)'
    <3>1. CASE v = w /\ i = m
      BY <1>2, <1>3, <1>4, <3>1 DEF InCopy
    <3>2. CASE v # w /\ i # m /\ WorksOn(writer[v], i) /\ i \notin overlapped
      BY <1>2, <1>4, <3>2 DEF MeetingIInv, CopyInv, InCopy
    <3>3. QED
      BY <1>7, <2>1, <3>1, <3>2
  <2>2. QED
    BY <1>2, <2>1 DEF CopyInv
<1>10. LinkedInv'
  <2>1. \A i : Syncs(i) => \E v \in Writers : writer'[v].at = "sync" /\ writer'[v].on = i
    BY <1>1, <1>4 DEF Syncs
  <2>2. \A i \in DOMAIN meetings \ (overlapped' \cup unlinked) : i \notin overlapped \cup unlinked
    BY <1>7
  <2>3. QED
    BY <1>2, <2>1, <2>2 DEF LinkedInv, MeetingIInv, Syncs
<1>11. NoIssueYet'
  BY <1>2 DEF NoIssueYet, MeetingIInv
<1>12. QED
  BY <1>5, <1>6, <1>8, <1>9, <1>10, <1>11 DEF MeetingIInv

\* A meeting is replaced in the list.
LEMMA MeetingReplaced ==
    ASSUME MeetingTypes, NEW m \in DOMAIN meetings, NEW new \in Meeting,
           meetings' = [meetings EXCEPT ![m] = new]
    PROVE  /\ meetings' \in Seq(Meeting) /\ Len(meetings') = Len(meetings)
           /\ DOMAIN meetings' = DOMAIN meetings /\ meetings'[m] = new
           /\ \A i \in DOMAIN meetings : i # m => meetings'[i] = meetings[i]
<1>1. meetings \in Seq(Meeting) /\ DOMAIN meetings = 1..Len(meetings)
  BY CountMeetings
<1>2. [meetings EXCEPT ![m] = new] \in Seq(Meeting)
  BY <1>1, ExceptSeq
<1>3. Len([meetings EXCEPT ![m] = new]) = Len(meetings)
  BY <1>1, ExceptSeq
<1>4. \A i \in DOMAIN meetings : [meetings EXCEPT ![m] = new][i] = IF i = m THEN new ELSE meetings[i]
  BY <1>1
<1>5. QED
  BY <1>1, <1>2, <1>3, <1>4

\* A request at work is alone on a meeting that has not been overlapped.
LEMMA AloneAtWork ==
    ASSUME MeetingIInv, NEW w \in Writers, writer[w].at \in {"save", "sync"}
    PROVE  /\ writer[w].on \in DOMAIN meetings /\ writer[w].on \in 1..MaxMeetings
           /\ \A i : WorksOn(writer[w], i) => i = writer[w].on
           /\ writer[w].on \notin overlapped =>
                 /\ \A v \in Writers : v # w => ~WorksOn(writer[v], writer[w].on)
                 /\ InCopy(writer[w], writer[w].on)
<1>1. writer[w].on \in DOMAIN meetings /\ writer[w].on \in 1..MaxMeetings
  BY WriterInHand, CountMeetings DEF WriterHolds
<1>2. WorksOn(writer[w], writer[w].on) /\ \A i : WorksOn(writer[w], i) => i = writer[w].on
  BY DEF WorksOn
<1>3. QED
  BY <1>1, <1>2 DEF MeetingIInv, OneWriter, CopyInv

LEMMA SaveStaleInv ==
    ASSUME MeetingIInv, NEW w \in Writers, SaveStale(w)
    PROVE  MeetingIInv'
<1>1. MeetingTypes /\ writer[w].at = "save"
  BY WriterInHand DEF SaveStale
<1>2. WriterHolds(IdleWriter, Len(meetings))
  BY IdleWriterTyped DEF WriterHolds
<1>3. QED
  BY <1>1, <1>2, IdleWriterTyped, WriterAside DEF SaveStale, MeetingTypes

\* The list of actions is replaced, or the statut alone.
LEMMA SaveInv ==
    ASSUME MeetingIInv, NEW w \in Writers, NEW edited \in BOOLEAN, NEW actions \in SUBSET Actions,
           NEW final \in BOOLEAN, Save(w, edited, actions, final)
    PROVE  MeetingIInv'
<1> PICK m : m = writer[w].on
  OBVIOUS
<1> PICK copy : copy = writer[w].copy
  OBVIOUS
<1>1. /\ MeetingTypes /\ writer[w] \in WriterState /\ WriterHolds(writer[w], Len(meetings))
      /\ copy \in Meeting /\ writer[w].at = "save" /\ copy.keyed \subseteq copy.actions
      /\ m \in DOMAIN meetings /\ m \in 1..MaxMeetings /\ meetings[m] \in Meeting
      /\ meetings[m].keyed \subseteq meetings[m].actions
      /\ Len(meetings) \in Nat /\ DOMAIN meetings = 1..Len(meetings) /\ Len(meetings) <= MaxMeetings
  BY WriterInHand, CountMeetings, AloneAtWork DEF Save, WriterHolds, MeetingTypes
<1>2. PICK new \in Meeting :
         /\ new = [actions |-> IF edited THEN actions ELSE copy.actions,
                   keyed |-> IF edited THEN Carried(copy, actions) ELSE copy.keyed,
                   final |-> copy.final \/ final,
                   version |-> IF edited THEN copy.version + 1 ELSE copy.version]
         /\ new.actions = IF edited THEN actions ELSE copy.actions
         /\ new.keyed = IF edited THEN copy.keyed \cap actions ELSE copy.keyed
  <2> DEFINE sent == [actions |-> IF edited THEN actions ELSE copy.actions,
                      keyed |-> IF edited THEN Carried(copy, actions) ELSE copy.keyed,
                      final |-> copy.final \/ final,
                      version |-> IF edited THEN copy.version + 1 ELSE copy.version]
  <2>1. /\ (IF edited THEN actions ELSE copy.actions) \in SUBSET Actions
        /\ (IF edited THEN Carried(copy, actions) ELSE copy.keyed) \in SUBSET Actions
        /\ (IF edited THEN copy.version + 1 ELSE copy.version) \in Nat
    BY <1>1 DEF Meeting, Carried
  <2>2. (copy.final \/ final) \in BOOLEAN
    OBVIOUS
  <2>3. sent \in Meeting
    BY <2>1, <2>2 DEF Meeting
  <2>4. QED
    BY <2>3 DEF Carried
<1>3. /\ edited => meetings[m].version = copy.version
      /\ meetings' = [meetings EXCEPT ![m] = [(IF edited THEN new ELSE meetings[m])
                                                EXCEPT !.final = meetings[m].final \/ new.final]]
      /\ issues' = [issues EXCEPT ![m] = [a \in Actions |->
                       IF edited /\ (a \notin actions \/ a \notin meetings[m].actions)
                       THEN 0 ELSE issues[m][a]]]
      /\ Syncing(w, m, new)
      /\ UNCHANGED <<overlapped, unlinked, meetingOps>>
  BY <1>2 DEF Save
<1>4. PICK put \in Meeting :
         /\ meetings' = [meetings EXCEPT ![m] = put]
         /\ put.actions = (IF edited THEN new.actions ELSE meetings[m].actions)
         /\ put.keyed = (IF edited THEN new.keyed ELSE meetings[m].keyed)
  <2> DEFINE old == IF edited THEN new ELSE meetings[m]
             put == [old EXCEPT !.final = meetings[m].final \/ new.final]
  <2>1. old \in Meeting
    BY <1>1
  <2>2. (meetings[m].final \/ new.final) \in BOOLEAN
    OBVIOUS
  <2>3. put \in Meeting /\ put.actions = old.actions /\ put.keyed = old.keyed
    BY <2>1, <2>2 DEF Meeting
  <2>4. QED
    BY <1>3, <2>3
<1>5. /\ meetings' \in Seq(Meeting) /\ Len(meetings') = Len(meetings)
      /\ DOMAIN meetings' = DOMAIN meetings /\ meetings'[m] = put
      /\ \A i \in DOMAIN meetings : i # m => meetings'[i] = meetings[i]
  BY <1>1, <1>4, MeetingReplaced
<1>6. new.keyed \subseteq new.actions /\ put.keyed \subseteq put.actions
  BY <1>1, <1>2, <1>4
<1>7. PICK state \in WriterState :
         /\ writer' = [writer EXCEPT ![w] = state]
         /\ state.at = "sync" /\ state.on = m /\ state.copy = new
         /\ state.todo = new.actions /\ state.changed = FALSE
  <2> DEFINE state == SyncState(m, new)
  <2>1. m \in Nat /\ new \in Meeting
    BY <1>1
  <2>2. /\ state \in WriterState /\ state.at = "sync" /\ state.on = m /\ state.copy = new
        /\ state.todo = new.actions /\ state.changed = FALSE
    BY <2>1, SyncStateTyped
  <2>3. writer' = [writer EXCEPT ![w] = state]
    BY <1>2, <1>3 DEF Syncing, SyncState
  <2> HIDE DEF state
  <2>4. QED
    BY <2>2, <2>3
<1>8. /\ issues' \in [1..MaxMeetings -> [Actions -> Nat]]
      /\ \A i \in 1..MaxMeetings : i # m => issues'[i] = issues[i]
      /\ \A a \in Actions : issues'[m][a] =
            IF edited /\ (a \notin actions \/ a \notin meetings[m].actions) THEN 0 ELSE issues[m][a]
  <2> DEFINE left == [a \in Actions |->
                       IF edited /\ (a \notin actions \/ a \notin meetings[m].actions)
                       THEN 0 ELSE issues[m][a]]
  <2>1. issues \in [1..MaxMeetings -> [Actions -> Nat]] /\ issues[m] \in [Actions -> Nat]
    BY <1>1 DEF MeetingTypes
  <2>2. left \in [Actions -> Nat]
    BY <2>1
  <2>3. issues' = [issues EXCEPT ![m] = left]
    BY <1>3
  <2>4. QED
    BY <1>1, <2>1, <2>2, <2>3
<1>9. ASSUME m \notin overlapped PROVE InCopy(state, m)'
  <2>1. /\ copy = meetings[m]
        /\ m \notin unlinked => Linked(copy.actions, copy.keyed, issues[m])
    <3>1. copy = meetings[m]
      BY <1>1, <1>9, AloneAtWork DEF InCopy
    <3>2. \A v \in Writers : ~(writer[v].at = "sync" /\ writer[v].on = m)
      BY <1>1, <1>9, AloneAtWork DEF WorksOn
    <3>3. QED
      BY <1>1, <1>9, <3>1, <3>2 DEF MeetingIInv, LinkedInv, Syncs
  <2>2. put.actions = new.actions /\ put.keyed = new.keyed
    BY <1>2, <1>4, <2>1
  <2>3. ASSUME m \notin unlinked', NEW a \in new.actions
        PROVE  issues'[m][a] = IF a \in new.keyed THEN 1 ELSE 0
    <3>1. a \in Actions /\ Linked(copy.actions, copy.keyed, issues[m])
      BY <1>1, <1>2, <1>3, <2>1, <2>3 DEF Meeting
    <3>2. CASE edited
      <4>1. a \in actions /\ (a \in new.keyed <=> a \in copy.keyed)
        BY <1>2, <2>3, <3>2
      <4>2. CASE a \in copy.actions
        BY <1>8, <2>1, <3>1, <3>2, <4>1, <4>2 DEF Linked
      <4>3. CASE a \notin copy.actions
        BY <1>1, <1>8, <2>1, <3>1, <3>2, <4>1, <4>3
      <4>4. QED
        BY <4>2, <4>3
    <3>3. CASE ~edited
      BY <1>2, <1>8, <2>3, <3>1, <3>3 DEF Linked
    <3>4. QED
      BY <3>2, <3>3
  <2>4. QED
    BY <1>5, <1>7, <2>2, <2>3 DEF InCopy, Linked
<1>10. WriterHolds(state, Len(meetings')) /\ \A i : WorksOn(state, i) => i = m
  BY <1>1, <1>5, <1>6, <1>7 DEF WorksOn, WriterHolds
<1>11. /\ \A i : WorksOn(writer[w], i) => i = m
       /\ m \notin overlapped => \A v \in Writers : v # w => ~WorksOn(writer[v], m)
  BY <1>1, AloneAtWork
<1>12. /\ meetings'[m].keyed \subseteq meetings'[m].actions
       /\ Len(meetings) <= Len(meetings') /\ Len(meetings') <= MaxMeetings /\ m \in DOMAIN meetings'
       /\ \A i \in DOMAIN meetings' : i # m => i \in DOMAIN meetings
  BY <1>1, <1>5, <1>6
<1>13. /\ UNCHANGED <<overlapped, meetingOps>>
       /\ unlinked \subseteq unlinked' /\ unlinked' \subseteq unlinked \cup {m}
  BY <1>3
<1>14. m \notin overlapped /\ WorksOn(state, m) => InCopy(state, m)'
  BY <1>9
<1>15. m \notin overlapped \cup unlinked' =>
          \/ state.at = "sync" /\ state.on = m
          \/ Linked(meetings'[m].actions, meetings'[m].keyed, issues'[m])
  BY <1>7
<1>16. /\ writer' = [writer EXCEPT ![w] = state] /\ meetings' \in Seq(Meeting)
       /\ m \in 1..MaxMeetings /\ state \in WriterState
  BY <1>1, <1>5, <1>7
<1>17. \A i \in DOMAIN meetings : i # m => meetings'[i] = meetings[i]
  BY <1>5
<1>18. QED
  BY <1>8, <1>10, <1>11, <1>12, <1>13, <1>14, <1>15, <1>16, <1>17, WriterAtWork

\* An action of the copy is answered for.
LEMMA SyncActionInv ==
    ASSUME MeetingIInv, NEW w \in Writers, NEW a \in Actions, SyncAction(w, a)
    PROVE  MeetingIInv'
<1> PICK m : m = writer[w].on
  OBVIOUS
<1> PICK req : req = writer[w]
  OBVIOUS
<1>1. /\ MeetingTypes /\ req \in WriterState /\ WriterHolds(req, Len(meetings))
      /\ req.copy \in Meeting /\ req.at = "sync" /\ req.on = m /\ a \in req.todo
      /\ req.copy.keyed \subseteq req.copy.actions /\ req.todo \subseteq req.copy.actions
      /\ m \in DOMAIN meetings /\ m \in 1..MaxMeetings
      /\ meetings[m].keyed \subseteq meetings[m].actions
      /\ Len(meetings) \in Nat /\ DOMAIN meetings = 1..Len(meetings) /\ Len(meetings) <= MaxMeetings
      /\ meetings \in Seq(Meeting)
  BY WriterInHand, CountMeetings, AloneAtWork DEF SyncAction, WriterHolds, MeetingTypes
<1>2. PICK answer \in Answers :
         /\ issues' = IF a \in req.copy.keyed \/ answer = "failed" THEN issues
                      ELSE [issues EXCEPT ![m][a] = @ + 1]
         /\ unlinked' = IF answer = "lost" /\ ~(a \in req.copy.keyed) THEN unlinked \cup {m}
                        ELSE unlinked
         /\ writer' = [writer EXCEPT ![w].todo = @ \ {a},
               ![w].copy.keyed = IF answer = "ok" THEN @ \cup {a} ELSE @,
               ![w].changed = @ \/ answer = "ok"]
  BY DEF SyncAction
<1>3. PICK keyed \in SUBSET Actions :
         keyed = IF answer = "ok" THEN req.copy.keyed \cup {a} ELSE req.copy.keyed
  BY <1>1 DEF Meeting
<1>4. PICK changed \in BOOLEAN : changed = (req.changed \/ answer = "ok")
  OBVIOUS
<1>5. PICK copy \in Meeting : /\ copy = [req.copy EXCEPT !.keyed = keyed]
                              /\ copy.actions = req.copy.actions /\ copy.keyed = keyed
                              /\ copy.final = req.copy.final
  <2> DEFINE copy == [req.copy EXCEPT !.keyed = keyed]
  <2>1. /\ copy \in Meeting /\ copy.actions = req.copy.actions /\ copy.keyed = keyed
        /\ copy.final = req.copy.final
    BY <1>1, <1>3 DEF Meeting
  <2>2. QED
    BY <2>1
<1>6. PICK state \in WriterState :
         /\ writer' = [writer EXCEPT ![w] = state]
         /\ state.at = "sync" /\ state.on = m /\ state.copy = copy
         /\ state.todo = req.todo \ {a} /\ state.changed = changed
  <2> DEFINE state == [req EXCEPT !.todo = req.todo \ {a}, !.copy = copy, !.changed = changed]
  <2>1. req.todo \ {a} \in SUBSET Actions
    BY <1>1 DEF WriterState
  <2>2. /\ state \in WriterState /\ state.at = "sync" /\ state.on = m /\ state.copy = copy
        /\ state.todo = req.todo \ {a} /\ state.changed = changed
    BY <1>1, <1>4, <1>5, <2>1 DEF WriterState
  <2>3. writer' = [writer EXCEPT ![w] = state]
    <3>1. writer' = [writer EXCEPT ![w] = [req EXCEPT !.todo = req.todo \ {a},
                !.copy = [req.copy EXCEPT !.keyed =
                             IF answer = "ok" THEN req.copy.keyed \cup {a} ELSE req.copy.keyed],
                !.changed = (req.changed \/ answer = "ok")]]
      BY <1>2
    <3>2. QED
      BY <1>3, <1>4, <1>5, <3>1
  <2> HIDE DEF state
  <2>4. QED
    BY <2>2, <2>3
<1>7. /\ issues' \in [1..MaxMeetings -> [Actions -> Nat]]
      /\ \A i \in 1..MaxMeetings : i # m => issues'[i] = issues[i]
      /\ \A b \in Actions : issues'[m][b] =
            IF b = a /\ ~(a \in req.copy.keyed \/ answer = "failed") THEN issues[m][b] + 1
            ELSE issues[m][b]
  <2>1. issues \in [1..MaxMeetings -> [Actions -> Nat]] /\ issues[m] \in [Actions -> Nat]
    BY <1>1 DEF MeetingTypes
  <2>2. CASE a \in req.copy.keyed \/ answer = "failed"
    BY <1>2, <2>1, <2>2
  <2>3. CASE ~(a \in req.copy.keyed \/ answer = "failed")
    <3>1. issues' = [issues EXCEPT ![m] = [issues[m] EXCEPT ![a] = issues[m][a] + 1]]
      BY <1>2, <2>3
    <3>2. PICK made \in [Actions -> Nat] : made = [issues[m] EXCEPT ![a] = issues[m][a] + 1]
      <4> DEFINE more == [issues[m] EXCEPT ![a] = issues[m][a] + 1]
      <4>1. issues[m][a] + 1 \in Nat
        BY <2>1
      <4>2. more \in [Actions -> Nat]
        BY <2>1, <4>1
      <4>3. QED
        BY <4>2
    <3>3. \A b \in Actions : made[b] = IF b = a THEN issues[m][b] + 1 ELSE issues[m][b]
      BY <2>1, <3>2
    <3>4. QED
      BY <1>1, <2>1, <2>3, <3>1, <3>2, <3>3
  <2>4. QED
    BY <2>2, <2>3
<1>8. /\ meetings' = meetings
      /\ UNCHANGED <<overlapped, meetingOps>>
      /\ unlinked \subseteq unlinked' /\ unlinked' \subseteq unlinked \cup {m}
  BY <1>2 DEF SyncAction
<1>9. ASSUME m \notin overlapped PROVE InCopy(state, m)'
  <2>1. /\ req.copy.actions = meetings[m].actions
        /\ ~req.changed => req.copy.keyed = meetings[m].keyed
        /\ m \notin unlinked => Linked(req.copy.actions, req.copy.keyed, issues[m])
    BY <1>1, <1>9, AloneAtWork DEF InCopy
  <2>2. ~changed => keyed = meetings[m].keyed
    BY <1>3, <1>4, <2>1
  <2>3. ASSUME m \notin unlinked', NEW b \in copy.actions
        PROVE  issues'[m][b] = IF b \in keyed THEN 1 ELSE 0
    <3>1. b \in Actions /\ issues[m][b] = IF b \in req.copy.keyed THEN 1 ELSE 0
      BY <1>1, <1>5, <1>8, <2>1, <2>3 DEF Linked, Meeting
    <3>2. CASE a \in req.copy.keyed \/ answer = "failed"
      <4>1. b \in keyed <=> b \in req.copy.keyed
        BY <1>3, <3>2
      <4>2. QED
        BY <1>7, <3>1, <3>2, <4>1
    <3>3. CASE a \notin req.copy.keyed /\ answer = "ok"
      <4>1. b \in keyed <=> (b = a \/ b \in req.copy.keyed)
        BY <1>3, <3>3
      <4>2. QED
        BY <1>7, <3>1, <3>3, <4>1
    <3>4. CASE a \notin req.copy.keyed /\ answer = "lost"
      BY <1>2, <2>3, <3>4
    <3>5. QED
      BY <3>2, <3>3, <3>4 DEF Answers
  <2>4. QED
    BY <1>5, <1>6, <1>8, <2>1, <2>2, <2>3 DEF InCopy, Linked
<1>10. WriterHolds(state, Len(meetings')) /\ \A i : WorksOn(state, i) => i = m
  <2>1. copy.keyed \subseteq copy.actions /\ state.todo \subseteq copy.actions
    BY <1>1, <1>3, <1>5, <1>6
  <2>2. QED
    BY <1>1, <1>6, <1>8, <2>1 DEF WorksOn, WriterHolds
<1>11. /\ \A i : WorksOn(writer[w], i) => i = m
       /\ m \notin overlapped => \A v \in Writers : v # w => ~WorksOn(writer[v], m)
  BY <1>1, AloneAtWork
<1>12. /\ meetings'[m].keyed \subseteq meetings'[m].actions
       /\ Len(meetings) <= Len(meetings') /\ Len(meetings') <= MaxMeetings /\ m \in DOMAIN meetings'
       /\ \A i \in DOMAIN meetings' : i # m => i \in DOMAIN meetings
  BY <1>1, <1>8
<1>13. m \notin overlapped /\ WorksOn(state, m) => InCopy(state, m)'
  BY <1>9
<1>14. m \notin overlapped \cup unlinked' =>
          \/ state.at = "sync" /\ state.on = m
          \/ Linked(meetings'[m].actions, meetings'[m].keyed, issues'[m])
  BY <1>6
<1>15. /\ writer' = [writer EXCEPT ![w] = state] /\ meetings' \in Seq(Meeting)
       /\ m \in 1..MaxMeetings /\ state \in WriterState
  BY <1>1, <1>6, <1>8
<1>16. \A i \in DOMAIN meetings : i # m => meetings'[i] = meetings[i]
  BY <1>8
<1>17. QED
  BY <1>7, <1>8, <1>10, <1>11, <1>12, <1>13, <1>14, <1>15, <1>16, WriterAtWork

\* The mirror ends: the keys go back with the actions of the copy, or are lost.
LEMMA LinkBackInv ==
    ASSUME MeetingIInv, NEW w \in Writers, NEW written \in BOOLEAN, LinkBack(w, written)
    PROVE  MeetingIInv'
<1> PICK m : m = writer[w].on
  OBVIOUS
<1> PICK req : req = writer[w]
  OBVIOUS
<1>1. /\ MeetingTypes /\ req \in WriterState /\ WriterHolds(req, Len(meetings))
      /\ req.copy \in Meeting /\ req.at = "sync" /\ req.on = m
      /\ req.copy.keyed \subseteq req.copy.actions
      /\ m \in DOMAIN meetings /\ m \in 1..MaxMeetings /\ meetings[m] \in Meeting
      /\ meetings[m].keyed \subseteq meetings[m].actions
      /\ Len(meetings) \in Nat /\ DOMAIN meetings = 1..Len(meetings) /\ Len(meetings) <= MaxMeetings
      /\ meetings \in Seq(Meeting) /\ issues \in [1..MaxMeetings -> [Actions -> Nat]]
  BY WriterInHand, CountMeetings, AloneAtWork DEF LinkBack, WriterHolds, MeetingTypes
<1>2. /\ meetings' = IF written
                     THEN [meetings EXCEPT ![m].actions = req.copy.actions,
                                           ![m].keyed = req.copy.keyed]
                     ELSE meetings
      /\ unlinked' = IF req.changed /\ ~written THEN unlinked \cup {m} ELSE unlinked
      /\ writer' = [writer EXCEPT ![w] = IdleWriter]
      /\ UNCHANGED <<issues, overlapped, meetingOps>>
  BY DEF LinkBack
<1>3. PICK put \in Meeting :
         /\ meetings' = [meetings EXCEPT ![m] = put]
         /\ put.actions = (IF written THEN req.copy.actions ELSE meetings[m].actions)
         /\ put.keyed = (IF written THEN req.copy.keyed ELSE meetings[m].keyed)
  <2>1. CASE written
    <3> DEFINE put == [meetings[m] EXCEPT !.actions = req.copy.actions, !.keyed = req.copy.keyed]
    <3>1. put \in Meeting /\ put.actions = req.copy.actions /\ put.keyed = req.copy.keyed
      BY <1>1 DEF Meeting
    <3>2. meetings' = [meetings EXCEPT ![m] = put]
      BY <1>2, <2>1
    <3> HIDE DEF put
    <3>3. QED
      BY <2>1, <3>1, <3>2
  <2>2. CASE ~written
    <3>1. meetings = [i \in 1..Len(meetings) |-> meetings[i]]
      BY <1>1
    <3>2. meetings' = [meetings EXCEPT ![m] = meetings[m]]
      BY <1>1, <1>2, <2>2, <3>1
    <3>3. QED
      BY <1>1, <2>2, <3>2
  <2>3. QED
    BY <2>1, <2>2
<1>4. /\ meetings' \in Seq(Meeting) /\ Len(meetings') = Len(meetings)
      /\ DOMAIN meetings' = DOMAIN meetings /\ meetings'[m] = put
      /\ \A i \in DOMAIN meetings : i # m => meetings'[i] = meetings[i]
  BY <1>1, <1>3, MeetingReplaced
<1>5. /\ IdleWriter \in WriterState /\ WriterHolds(IdleWriter, Len(meetings'))
      /\ \A i : ~WorksOn(IdleWriter, i)
      /\ \A i : WorksOn(IdleWriter, i) => i = m
  BY IdleWriterTyped DEF WriterHolds, WorksOn
<1>6. m \notin overlapped \cup unlinked' =>
          Linked(meetings'[m].actions, meetings'[m].keyed, issues'[m])
  <2>1. ASSUME m \notin overlapped \cup unlinked'
        PROVE  Linked(meetings'[m].actions, meetings'[m].keyed, issues'[m])
    <3>1. m \notin unlinked /\ (written \/ ~req.changed)
      BY <1>2, <2>1
    <3>2. /\ ~req.changed => req.copy.keyed = meetings[m].keyed
          /\ req.copy.actions = meetings[m].actions
          /\ Linked(req.copy.actions, req.copy.keyed, issues[m])
      BY <1>1, <2>1, <3>1, AloneAtWork DEF InCopy
    <3>3. put.actions = req.copy.actions /\ put.keyed = req.copy.keyed
      BY <1>3, <3>1, <3>2
    <3>4. QED
      BY <1>2, <1>4, <3>2, <3>3
  <2>2. QED
    BY <2>1
<1>7. /\ \A i : WorksOn(writer[w], i) => i = m
      /\ m \notin overlapped => \A v \in Writers : v # w => ~WorksOn(writer[v], m)
  BY <1>1, AloneAtWork
<1>8. /\ meetings'[m].keyed \subseteq meetings'[m].actions
      /\ Len(meetings) <= Len(meetings') /\ Len(meetings') <= MaxMeetings /\ m \in DOMAIN meetings'
      /\ \A i \in DOMAIN meetings' : i # m => i \in DOMAIN meetings
  BY <1>1, <1>3, <1>4
<1>9. /\ issues' \in [1..MaxMeetings -> [Actions -> Nat]]
      /\ \A i \in 1..MaxMeetings : i # m => issues'[i] = issues[i]
      /\ UNCHANGED <<overlapped, meetingOps>>
      /\ unlinked \subseteq unlinked' /\ unlinked' \subseteq unlinked \cup {m}
  BY <1>1, <1>2
<1>10. m \notin overlapped /\ WorksOn(IdleWriter, m) => InCopy(IdleWriter, m)'
  BY <1>5
<1>11. m \notin overlapped \cup unlinked' =>
          \/ IdleWriter.at = "sync" /\ IdleWriter.on = m
          \/ Linked(meetings'[m].actions, meetings'[m].keyed, issues'[m])
  BY <1>6
<1>12. writer' = [writer EXCEPT ![w] = IdleWriter] /\ m \in 1..MaxMeetings
  BY <1>1, <1>2
<1>13. QED
  BY <1>4, <1>5, <1>7, <1>8, <1>9, <1>10, <1>11, <1>12, WriterAtWork

----------------------------------------------------------------------------
(* What the minutes promise.                                               *)

LEMMA MeetingInitInv == MeetingInit => MeetingIInv
<1> SUFFICES ASSUME MeetingInit PROVE MeetingIInv
  OBVIOUS
<1>1. meetings \in Seq(Meeting) /\ Len(meetings) = 0 /\ DOMAIN meetings = {}
  BY DEF MeetingInit
<1>2. \A w \in Writers : writer[w] = IdleWriter /\ WriterHolds(IdleWriter, Len(meetings))
  BY IdleWriterTyped DEF MeetingInit, WriterHolds
<1>3. MeetingTypes
  BY <1>1, IdleWriterTyped, MeetingBounds DEF MeetingInit, MeetingTypes
<1>4. QED
  BY <1>1, <1>2, <1>3 DEF MeetingIInv, WritersInv, OneWriter, CopyInv, LinkedInv, NoIssueYet,
                          MeetingInit

LEMMA MeetingStepInv ==
    ASSUME MeetingIInv, [MeetingNext]_meetingVars
    PROVE  MeetingIInv'
<1>1. ASSUME NEW w \in Writers, StartCreate(w) PROVE MeetingIInv'
  BY <1>1, StartCreateInv
<1>2. ASSUME NEW w \in Writers, ReadNumber(w) PROVE MeetingIInv'
  BY <1>2, ReadNumberInv
<1>3. ASSUME NEW w \in Writers, NEW actions \in SUBSET Actions, NEW final \in BOOLEAN,
             Insert(w, actions, final)
      PROVE  MeetingIInv'
  BY <1>3, InsertTakenInv, InsertRefusedInv
<1>4. ASSUME NEW w \in Writers, NEW m \in DOMAIN meetings, Load(w, m) PROVE MeetingIInv'
  BY <1>4, LoadInv
<1>5. ASSUME NEW w \in Writers, NEW final \in BOOLEAN, Save(w, FALSE, {}, final) PROVE MeetingIInv'
  <2>1. FALSE \in BOOLEAN /\ {} \in SUBSET Actions
    OBVIOUS
  <2>2. QED
    BY <1>5, <2>1, SaveInv
<1>6. ASSUME NEW w \in Writers, NEW final \in BOOLEAN, NEW actions \in SUBSET Actions,
             Save(w, TRUE, actions, final)
      PROVE  MeetingIInv'
  <2>1. TRUE \in BOOLEAN
    OBVIOUS
  <2>2. QED
    BY <1>6, <2>1, SaveInv
<1>7. ASSUME NEW w \in Writers, SaveStale(w) PROVE MeetingIInv'
  BY <1>7, SaveStaleInv
<1>8. ASSUME NEW w \in Writers, NEW a \in Actions, SyncAction(w, a) PROVE MeetingIInv'
  BY <1>8, SyncActionInv
<1>9. ASSUME NEW w \in Writers, NEW written \in BOOLEAN, LinkBack(w, written) PROVE MeetingIInv'
  BY <1>9, LinkBackInv
<1>10. CASE UNCHANGED meetingVars
  BY <1>10 DEF MeetingIInv, MeetingTypes, WritersInv, OneWriter, CopyInv, InCopy, LinkedInv,
               Syncs, NoIssueYet, meetingVars
<1>11. QED
  BY <1>1, <1>2, <1>3, <1>4, <1>5, <1>6, <1>7, <1>8, <1>9, <1>10 DEF MeetingNext

LEMMA MeetingsHold == ASSUME MeetingIInv PROVE MeetingsInv
<1>1. MeetingTypeOK
  <2>1. \A w \in Writers : /\ writer[w] \in WriterState /\ WriterHolds(writer[w], Len(meetings))
    BY WriterInHand
  <2>2. QED
    BY <2>1, CountMeetings DEF MeetingIInv, MeetingTypes, MeetingTypeOK, WriterState, WriterHolds
<1>2. OneIssuePerAction
  BY DEF MeetingIInv, LinkedInv, Syncs, Untouched, OneIssuePerAction, Linked
<1>3. RefusedOnlyByRaces
  <2>1. ASSUME NEW w \in Writers, writer[w].at = "refused"
        PROVE  Len(meetings) - writer[w].from >= CreateAttempts
    <3>1. writer[w].from \in Nat /\ writer[w].from + CreateAttempts <= Len(meetings)
          /\ Len(meetings) \in Nat
      BY <2>1, WriterInHand, CountMeetings DEF WriterHolds, WriterState
    <3>2. QED
      BY <3>1 DEF CreateAttempts
  <2>2. QED
    BY <2>1 DEF RefusedOnlyByRaces
<1>4. QED
  BY <1>1, <1>2, <1>3 DEF MeetingsInv

\* However often a meeting is edited, and whatever requests run at once, an action has at
\* most one Jira issue unless two requests worked on its meeting or an answer was lost; and
\* a creation is refused its number only after three others took theirs (create,
\* updateReunionDetails and syncActionsToJira of reunion-pv.service.ts).
THEOREM MeetingsInvariant == MeetingSpec => []MeetingsInv
<1>1. MeetingInit => MeetingIInv
  BY MeetingInitInv
<1>2. MeetingIInv /\ [MeetingNext]_meetingVars => MeetingIInv'
  BY MeetingStepInv
<1>3. MeetingIInv => MeetingsInv
  BY MeetingsHold
<1>4. QED
  BY <1>1, <1>2, <1>3, PTL DEF MeetingSpec

\* A finalised list is not written over by a request that worked alone.
LEMMA FinalisedStaysInStep ==
    ASSUME MeetingIInv, [MeetingNext]_meetingVars PROVE FinalisedStaysIfSerial
<1> SUFFICES ASSUME NEW m \in DOMAIN meetings, meetings[m].final, m \notin overlapped'
             PROVE  meetings'[m].actions = meetings[m].actions
  BY DEF FinalisedStaysIfSerial
<1>1. /\ MeetingTypes /\ meetings \in Seq(Meeting) /\ meetings[m] \in Meeting
      /\ Len(meetings) \in Nat /\ DOMAIN meetings = 1..Len(meetings)
  BY CountMeetings DEF MeetingIInv
<1>2. CASE meetings' = meetings
  BY <1>2
<1>3. ASSUME NEW w \in Writers, NEW actions \in SUBSET Actions, NEW final \in BOOLEAN,
             Insert(w, actions, final)
      PROVE  meetings'[m].actions = meetings[m].actions
  <2>1. CASE writer[w].on > Len(meetings)
    <3> DEFINE blank == [NoMeeting EXCEPT !.actions = actions, !.final = final]
    <3>1. blank \in Meeting
      BY IdleWriterTyped DEF Meeting
    <3>2. meetings' = Append(meetings, blank)
      BY <1>3, <2>1 DEF Insert
    <3> HIDE DEF blank
    <3>3. \A i \in 1..Len(meetings) : Append(meetings, blank)[i] = meetings[i]
      BY <1>1, <3>1, AppendProperties
    <3>4. QED
      BY <1>1, <3>2, <3>3
  <2>2. CASE ~(writer[w].on > Len(meetings))
    BY <1>3, <2>2 DEF Insert
  <2>3. QED
    BY <2>1, <2>2
<1>4. ASSUME NEW w \in Writers, NEW edited \in BOOLEAN, NEW actions \in SUBSET Actions,
             NEW final \in BOOLEAN, Save(w, edited, actions, final)
      PROVE  meetings'[m].actions = meetings[m].actions
  <2>1. writer[w].at = "save" /\ UNCHANGED overlapped
    BY <1>4 DEF Save
  <2>2. CASE writer[w].on = m
    <3>1. writer[w].copy = meetings[m] /\ ~writer[w].copy.final
      BY <2>1, <2>2, WriterInHand, AloneAtWork DEF InCopy, WriterHolds
    <3>2. QED
      BY <3>1
  <2>3. CASE writer[w].on # m
    <3>1. PICK put : meetings' = [meetings EXCEPT ![writer[w].on] = put]
      BY <1>4 DEF Save
    <3>2. QED
      BY <1>1, <2>3, <3>1
  <2>4. QED
    BY <2>2, <2>3
<1>5. ASSUME NEW w \in Writers, NEW written \in BOOLEAN, LinkBack(w, written)
      PROVE  meetings'[m].actions = meetings[m].actions
  <2>1. /\ writer[w].at = "sync" /\ UNCHANGED overlapped
        /\ meetings' = IF written
                       THEN [meetings EXCEPT ![writer[w].on].actions = writer[w].copy.actions,
                                             ![writer[w].on].keyed = writer[w].copy.keyed]
                       ELSE meetings
    BY <1>5 DEF LinkBack
  <2>2. CASE writer[w].on = m
    <3>1. writer[w].copy.actions = meetings[m].actions
      BY <2>1, <2>2, AloneAtWork DEF InCopy
    <3>2. QED
      BY <1>1, <2>1, <2>2, <3>1 DEF Meeting
  <2>3. CASE writer[w].on # m
    BY <1>1, <2>1, <2>3
  <2>4. QED
    BY <2>2, <2>3
<1>6. ASSUME NEW w \in Writers,
             StartCreate(w) \/ ReadNumber(w) \/ SaveStale(w) \/ (\E i \in DOMAIN meetings : Load(w, i))
                \/ (\E a \in Actions : SyncAction(w, a))
      PROVE  meetings' = meetings
  BY <1>6 DEF StartCreate, ReadNumber, SaveStale, Load, SyncAction
<1>7. ASSUME NEW w \in Writers, NEW final \in BOOLEAN, Save(w, FALSE, {}, final)
      PROVE  meetings'[m].actions = meetings[m].actions
  <2>1. FALSE \in BOOLEAN /\ {} \in SUBSET Actions
    OBVIOUS
  <2>2. QED
    BY <1>4, <1>7, <2>1
<1>8. ASSUME NEW w \in Writers, NEW final \in BOOLEAN, NEW actions \in SUBSET Actions,
             Save(w, TRUE, actions, final)
      PROVE  meetings'[m].actions = meetings[m].actions
  <2>1. TRUE \in BOOLEAN
    OBVIOUS
  <2>2. QED
    BY <1>4, <1>8, <2>1
<1>9. QED
  BY <1>2, <1>3, <1>5, <1>6, <1>7, <1>8 DEF MeetingNext, meetingVars

\* Once FINALISE, the actions of a meeting stay, whatever its requests do one after another:
\* a second save finds it locked, and the copy that is written back is the list it replaces
\* (updateReunionDetails and syncActionsToJira).
THEOREM FinalisedMinutesStay == MeetingSpec => [][FinalisedStaysIfSerial]_meetingVars
<1>1. MeetingInit => MeetingIInv
  BY MeetingInitInv
<1>2. MeetingIInv /\ [MeetingNext]_meetingVars => MeetingIInv'
  BY MeetingStepInv
<1>3. MeetingIInv /\ [MeetingNext]_meetingVars => FinalisedStaysIfSerial
  BY FinalisedStaysInStep
<1>4. QED
  BY <1>1, <1>2, <1>3, PTL DEF MeetingSpec

=============================================================================
