----------------------------- MODULE ImportJob -----------------------------
(***************************************************************************)
(* The import of DIs from a file (src/src/di/import): validation against a *)
(* snapshot of the base, resolution of the tiers, then one row after       *)
(* another as a background job or in the request, each await a step of its *)
(* own; and the counter of DI references it shares with createDi.          *)
(***************************************************************************)
EXTENDS Naturals, Sequences, FiniteSets

CONSTANTS
    Jobs,          \* the imports
    Names,         \* the names of tiers in the files
    Files,         \* the files: sequences of rows [ref, name]
    MaxRef,        \* bound on the numbers of references
    MaxClients,    \* bound on the clients
    Starts,        \* the states of the base at the start: [base, clients, companies]
    MaxUserOps,    \* bound on the operations of users beside the imports
    BatchSize      \* rows between two writes of the progress (25 in the code)

\* A line of the file once read: its reference, or Missing for an empty cell, and the
\* text of its Client/Société cell.
Refs == 1..MaxRef
Missing == 0
ParsedRow == [ref: Refs \cup {Missing}, name: Names]

ASSUME ImportBounds ==
    /\ Files \subseteq Seq(ParsedRow)
    /\ MaxRef \in Nat \ {0}
    /\ MaxClients \in Nat \ {0}
    /\ MaxUserOps \in Nat
    /\ BatchSize \in Nat \ {0}
    /\ \A start \in Starts :
          /\ start.base \in [1..MaxRef -> {"none", "active", "deleted"}]
          /\ start.clients \in Seq([name: Names, deleted: BOOLEAN])
          /\ Len(start.clients) <= MaxClients
          /\ start.companies \subseteq Names

VARIABLES
    base,      \* base[ref]: "none", "active" or "deleted" (soft-deleted, still indexed)
    owner,     \* owner[ref]: the tier of the DI
    counter,   \* the seq of the counter of DI references
    seeded,    \* diRefCounterSeeded, in the memory of the process
    clients,   \* the clients, in the order of their numbers
    companies, \* the names of the active companies
    aliases,   \* aliases[name]: the tier remembered for a name
    job,       \* job[j]: the document of di_import_jobs
    runner,    \* runner[j]: the run of the import in the process
    userOps,   \* the operations of users so far
    drawn,     \* the number drawn by a createDi in flight, 0 when none is
    entered,   \* history: the references that have ever been in the base
    faulted,   \* history: a write has failed or a process has stopped
    cut        \* history: cut[j], the process of j has stopped or its fail has failed

importVars == <<base, owner, counter, seeded, clients, companies, aliases, job,
                runner, userOps, drawn, entered, faulted, cut>>

NoTier == <<"none", 0>>
ClientTier(i) == <<"client", i>>
CompanyTier(name) == <<"company", name>>
Tiers == {NoTier} \cup {ClientTier(i) : i \in 1..MaxClients}
                  \cup {CompanyTier(name) : name \in Names}
Decisions == {"client", "company", "none"}

JobStatus == {"none", "PENDING", "RUNNING", "COMPLETED", "FAILED"}
Outcomes == {"dis", "ignorees", "erreurs", "reactivees"}
RunSteps == {"idle", "start", "row", "client", "free", "bump", "save", "sync",
             "progress", "end", "fail", "over"}

\* What a run has read of the base before its first row.
NoSnapshot == [refs |-> {}, deletedRefs |-> {}, client |-> [n \in Names |-> 0],
               companies |-> {}, clientIds |-> {}, alias |-> [n \in Names |-> NoTier]]

\* The file, the lines of it still to import, and the place of the next one among those kept.
IdleRun == [at |-> "idle", sync |-> FALSE, file |-> <<>>, todo |-> {}, pos |-> 1, tier |-> NoTier,
            number |-> 0, revived |-> FALSE, snap |-> NoSnapshot,
            decision |-> "none", count |-> [o \in Outcomes |-> 0]]

ImportJobTypeOK ==
    /\ base \in [Refs -> {"none", "active", "deleted"}]
    /\ owner \in [Refs -> Tiers]
    /\ counter \in 0..MaxRef
    /\ clients \in Seq([name: Names, deleted: BOOLEAN])
    /\ aliases \in [Names -> Tiers]
    /\ job \in [Jobs -> [status: JobStatus, total: Nat, done: Nat]]
    /\ \A j \in Jobs : runner[j].at \in RunSteps
    /\ userOps \in 0..MaxUserOps
    /\ drawn \in 0..MaxRef
    /\ entered \subseteq Refs

ImportJobInit ==
    /\ \E start \in Starts :
          base = start.base /\ clients = start.clients /\ companies = start.companies
    /\ owner = [r \in Refs |-> NoTier]
    /\ counter = 0
    /\ seeded = FALSE
    /\ aliases = [n \in Names |-> NoTier]
    /\ job = [j \in Jobs |-> [status |-> "none", total |-> 0, done |-> 0]]
    /\ runner = [j \in Jobs |-> IdleRun]
    /\ userOps = 0
    /\ drawn = 0
    /\ entered = {r \in Refs : base[r] # "none"}
    /\ faulted = FALSE
    /\ cut = [j \in Jobs |-> FALSE]

\* An operation of a user beside the imports; a write that fails, or a process that stops: one in a behaviour.
UserOp == userOps < MaxUserOps /\ userOps' = userOps + 1
Fault == ~faulted /\ faulted' = TRUE

MaxOf(numbers) == CHOOSE n \in numbers \cup {0} : \A m \in numbers : m <= n
Upto(n, m) == IF n > m THEN n ELSE m
InBase == {r \in Refs : base[r] # "none"}

----------------------------------------------------------------------------
(* The counter of references and createDi from the form.                   *)

\* The first draw of a process brings the counter up to the base.
Seed == IF seeded THEN counter ELSE Upto(counter, MaxOf(InBase))

DrawRef ==
    /\ UserOp
    /\ drawn = 0
    /\ Seed < MaxRef
    /\ seeded' = TRUE
    /\ counter' = Seed + 1
    /\ drawn' = Seed + 1
    /\ UNCHANGED <<base, owner, clients, companies, aliases, job, runner, entered,
                   faulted, cut>>

\* The unique index refuses a reference already there, deleted or not.
InBaseNow(ref, tier) ==
    /\ base' = [base EXCEPT ![ref] = "active"]
    /\ owner' = [owner EXCEPT ![ref] = tier]
    /\ entered' = entered \cup {ref}

SaveDrawn ==
    /\ drawn # 0
    /\ \/ base[drawn] = "none" /\ InBaseNow(drawn, NoTier)
       \/ base[drawn] # "none" /\ UNCHANGED <<base, owner, entered>>
    /\ drawn' = 0
    /\ UNCHANGED <<counter, seeded, clients, companies, aliases, job, runner,
                   userOps, faulted, cut>>

DeleteDi(ref) ==
    /\ UserOp
    /\ base[ref] = "active"
    /\ base' = [base EXCEPT ![ref] = "deleted"]
    /\ UNCHANGED <<owner, counter, seeded, clients, companies, aliases, job, runner,
                   drawn, entered, faulted, cut>>

RemoveTier ==
    /\ UserOp
    /\ \/ \E i \in DOMAIN clients :
             /\ ~clients[i].deleted
             /\ clients' = [clients EXCEPT ![i].deleted = TRUE]
             /\ UNCHANGED companies
       \/ \E name \in companies :
             companies' = companies \ {name} /\ UNCHANGED clients
    /\ UNCHANGED <<base, owner, counter, seeded, aliases, job, runner, drawn, entered,
                   faulted, cut>>

----------------------------------------------------------------------------
(* Resolution of a tier.                                                   *)

\* A cache keeps the first active client of a name.
ClientIds == {i \in DOMAIN clients : ~clients[i].deleted}
FirstClient(name) ==
    LET same == {i \in ClientIds : clients[i].name = name}
    IN  IF same = {} THEN 0 ELSE CHOOSE i \in same : \A k \in same : i <= k

Snapshot == [refs        |-> {r \in Refs : base[r] = "active"},
             deletedRefs |-> {r \in Refs : base[r] = "deleted"},
             client      |-> [n \in Names |-> FirstClient(n)],
             companies   |-> companies,
             clientIds   |-> ClientIds,
             alias       |-> aliases]

MatchTier(name, snap) ==
    CASE name \in snap.companies /\ snap.client[name] # 0 -> <<"both", name>>
      [] name \in snap.companies /\ snap.client[name] = 0 -> CompanyTier(name)
      [] name \notin snap.companies /\ snap.client[name] # 0 -> ClientTier(snap.client[name])
      [] OTHER -> NoTier

\* Mutant of AliasValid: the tier of the alias is not looked for.
AliasUnchecked(tier, snap) == tier # NoTier

AliasValid(tier, snap) ==
    \/ tier[1] = "client" /\ tier[2] \in snap.clientIds
    \/ tier[1] = "company" /\ tier[2] \in snap.companies

ResolveTier(name, snap) ==
    IF MatchTier(name, snap)[1] # "both" /\ AliasValid(snap.alias[name], snap)
    THEN snap.alias[name]
    ELSE MatchTier(name, snap)

----------------------------------------------------------------------------
(* Validation, and the start of a run.                                     *)

RowValid(rows, k, snap, decision) ==
    /\ rows[k].ref # Missing
    /\ rows[k].ref \notin snap.refs
    /\ \A m \in DOMAIN rows \ {k} : rows[m].ref # rows[k].ref
    /\ ResolveTier(rows[k].name, snap)[1] = "both" => decision # "none"

\* The lines to import, in the order of the file.
RowsKept(rows, snap, decision) == {k \in DOMAIN rows : RowValid(rows, k, snap, decision)}

Run(j, state) == runner' = [runner EXCEPT ![j] = state]
JobUnchanged == UNCHANGED job

\* executeAsJob: the snapshot, the job document, then the run in the background.
\* run: the same without a document nor decisions, in the request.
StartImport(j, file, decision, sync) ==
    /\ runner[j].at = "idle"
    /\ decision # "none" =>
          ~sync /\ \E k \in DOMAIN file : ResolveTier(file[k].name, Snapshot)[1] = "both"
    /\ LET rows == RowsKept(file, Snapshot, decision) IN
       /\ Run(j, [IdleRun EXCEPT !.at = IF ~sync THEN "start"
                                        ELSE IF rows = {} THEN "over" ELSE "row",
                                 !.sync = sync, !.file = file, !.todo = rows,
                                 !.snap = Snapshot, !.decision = decision])
       /\ IF sync THEN JobUnchanged
          ELSE job' = [job EXCEPT ![j] = [status |-> "PENDING", total |-> Cardinality(rows),
                                          done |-> 0]]
    /\ UNCHANGED <<base, owner, counter, seeded, clients, companies, aliases, userOps,
                   drawn, entered, faulted, cut>>

\* Every write of the document is by jobId alone, whatever its status; one that
\* throws sends the run to fail.
Document(j, status, next) ==
    \/ /\ job' = [job EXCEPT ![j].status = status]
       /\ Run(j, [runner[j] EXCEPT !.at = next])
       /\ UNCHANGED faulted
    \/ /\ Run(j, [runner[j] EXCEPT !.at = "fail"])
       /\ Fault
       /\ JobUnchanged

MarkRunning(j) ==
    /\ runner[j].at = "start"
    /\ Document(j, "RUNNING", IF runner[j].todo = {} THEN "end" ELSE "row")
    /\ UNCHANGED <<base, owner, counter, seeded, clients, companies, aliases, userOps,
                   drawn, entered, cut>>

----------------------------------------------------------------------------
(* One row.                                                                *)

LineNo(j) == CHOOSE k \in runner[j].todo : \A m \in runner[j].todo : k <= m
Row(j) == runner[j].file[LineNo(j)]
Same == UNCHANGED <<counter, seeded, companies, job, userOps, drawn, cut>>

\* The row is counted; the progress is written after each batch and at the end.
Done(j, outcomes) ==
    LET last == runner[j].todo = {LineNo(j)}
        batch == last \/ runner[j].pos % BatchSize = 0
    IN  Run(j, [runner[j] EXCEPT
               !.at = IF runner[j].sync THEN (IF last THEN "over" ELSE "row")
                      ELSE IF batch THEN "progress" ELSE "row",
               !.todo = @ \ {LineNo(j)}, !.pos = @ + 1, !.tier = NoTier, !.number = 0,
               !.revived = FALSE,
               !.count = [o \in Outcomes |-> IF o \in outcomes THEN @[o] + 1 ELSE @[o]]])

\* A duplicate key is a row to ignore for a job, an error in the request.
Duplicate(j) == Done(j, {IF runner[j].sync THEN "erreurs" ELSE "ignorees"})

\* The tier of the row: the side decided for a name known on both.
\* Mutant of Attached: the decision is not asked for.
AttachedUndecided(j) == ResolveTier(Row(j).name, runner[j].snap)

Attached(j) ==
    LET tier == ResolveTier(Row(j).name, runner[j].snap)
    IN  IF tier[1] # "both" THEN tier
        ELSE IF runner[j].decision = "company" THEN CompanyTier(Row(j).name)
        ELSE ClientTier(runner[j].snap.client[Row(j).name])

TierExists(tier) == \/ tier[1] = "client" /\ tier[2] \in ClientIds
                    \/ tier[1] = "company" /\ tier[2] \in companies

\* A decision is remembered when its tier still exists. An unknown name needs a
\* client: its number is read first.
ResolveRow(j) ==
    /\ runner[j].at = "row"
    /\ LET both == ResolveTier(Row(j).name, runner[j].snap)[1] = "both"
           tier == Attached(j)
       IN
       /\ aliases' = IF both /\ ~runner[j].sync /\ TierExists(tier)
                     THEN [aliases EXCEPT ![Row(j).name] = tier] ELSE aliases
       /\ Run(j, IF tier # NoTier
                 THEN [runner[j] EXCEPT !.at = "free", !.tier = tier]
                 ELSE [runner[j] EXCEPT !.at = "client", !.number = Len(clients) + 1])
    /\ UNCHANGED <<base, owner, clients, entered, faulted>> /\ Same

\* Mutant of Cached: the client created is not kept for the rows that follow.
NotCached(state, name, i) == state

Cached(state, name, i) == [state EXCEPT !.snap.client[name] = i]

\* createClient: the number read before may have been taken meanwhile.
CreateClient(j) ==
    /\ runner[j].at = "client"
    /\ Len(clients) < MaxClients
    /\ \/ /\ runner[j].number = Len(clients) + 1
          /\ clients' = Append(clients, [name |-> Row(j).name, deleted |-> FALSE])
          /\ Run(j, [Cached(runner[j], Row(j).name, runner[j].number) EXCEPT
                        !.at = "free", !.tier = ClientTier(runner[j].number)])
          /\ UNCHANGED faulted
       \/ /\ runner[j].number # Len(clients) + 1
          /\ Duplicate(j)
          /\ UNCHANGED <<clients, faulted>>
       \/ Done(j, {"erreurs"}) /\ Fault /\ UNCHANGED clients
    /\ UNCHANGED <<base, owner, aliases, entered>> /\ Same

\* Mutant of Purged: the purge takes the reference as the snapshot saw it.
PurgedAsSeen(ref) == base[ref] # "none"

Purged(ref) == base[ref] = "deleted"

\* Mutant of FreeDeletedRef: all that the snapshot saw deleted is purged at once.
FreeAllDeleted(j) ==
    /\ runner[j].at = "free"
    /\ base' = [r \in Refs |-> IF r \in runner[j].snap.deletedRefs /\ Purged(r)
                              THEN "none" ELSE base[r]]
    /\ Run(j, [runner[j] EXCEPT !.at = "bump"])
    /\ UNCHANGED <<owner, clients, aliases, entered, faulted>> /\ Same

FreeDeletedRef(j) ==
    /\ runner[j].at = "free"
    /\ LET ref == Row(j).ref
           purge == ref \in runner[j].snap.deletedRefs /\ Purged(ref)
       IN
       /\ base' = IF purge THEN [base EXCEPT ![ref] = "none"] ELSE base
       /\ owner' = IF purge THEN [owner EXCEPT ![ref] = NoTier] ELSE owner
       /\ Run(j, [runner[j] EXCEPT !.at = "bump", !.revived = purge])
    /\ UNCHANGED <<clients, aliases, entered, faulted>> /\ Same

\* Mutant of BumpDiRefTo: the counter is set to the reference.
BumpLast(n) == counter' = n

BumpDiRefTo(n) == counter' = Upto(counter, n)

\* createDi with a forced reference: the counter, the DI, then its location.
Bump(j) ==
    /\ runner[j].at = "bump"
    /\ \/ /\ BumpDiRefTo(Row(j).ref)
          /\ Run(j, [runner[j] EXCEPT !.at = "save"])
          /\ UNCHANGED faulted
       \/ Done(j, {"erreurs"}) /\ Fault /\ UNCHANGED counter
    /\ UNCHANGED <<base, owner, seeded, clients, companies, aliases, job,
                   userOps, drawn, entered, cut>>

SaveRow(j) ==
    /\ runner[j].at = "save"
    /\ \/ /\ base[Row(j).ref] = "none"
          /\ InBaseNow(Row(j).ref, runner[j].tier)
          /\ Run(j, [runner[j] EXCEPT !.at = "sync"])
          /\ UNCHANGED faulted
       \/ /\ base[Row(j).ref] # "none"
          /\ Duplicate(j)
          /\ UNCHANGED <<base, owner, entered, faulted>>
       \* the write fails, or DI_<nanoid(4)> is the _id of another DI
       \/ /\ Done(j, {"erreurs"}) \/ Duplicate(j)
          /\ Fault
          /\ UNCHANGED <<base, owner, entered>>
    /\ UNCHANGED <<clients, aliases>> /\ Same

\* The count of the location; its failure makes an error of a DI that exists.
SyncLocation(j) ==
    /\ runner[j].at = "sync"
    /\ \/ /\ Done(j, {"dis"} \cup (IF runner[j].revived THEN {"reactivees"} ELSE {}))
          /\ UNCHANGED faulted
       \/ Done(j, {"erreurs"}) /\ Fault
    /\ UNCHANGED <<base, owner, clients, aliases, entered>> /\ Same

----------------------------------------------------------------------------
(* The end of a batch and of the job.                                      *)

\* Mutant of BatchLength: a whole batch is counted each time.
BatchWhole(j) == BatchSize

BatchLength(j) == LET done == runner[j].pos - 1
                  IN  IF done % BatchSize = 0 THEN BatchSize ELSE done % BatchSize

IncrementProgress(j) ==
    /\ runner[j].at = "progress"
    /\ \/ /\ job' = [job EXCEPT ![j].done = @ + BatchLength(j)]
          /\ Run(j, [runner[j] EXCEPT
                        !.at = IF runner[j].todo = {} THEN "end" ELSE "row"])
          /\ UNCHANGED faulted
       \/ /\ Run(j, [runner[j] EXCEPT !.at = "fail"])
          /\ Fault
          /\ JobUnchanged
    /\ UNCHANGED <<base, owner, counter, seeded, clients, companies, aliases, userOps,
                   drawn, entered, cut>>

Complete(j) ==
    /\ runner[j].at = "end"
    /\ Document(j, "COMPLETED", "over")
    /\ UNCHANGED <<base, owner, counter, seeded, clients, companies, aliases, userOps,
                   drawn, entered, cut>>

\* Mutant of Fail: the failure is only logged.
FailLogged(j) ==
    /\ Run(j, [runner[j] EXCEPT !.at = "over"])
    /\ UNCHANGED <<job, cut>>

Fail(j) ==
    /\ Run(j, [runner[j] EXCEPT !.at = "over"])
    /\ \/ job' = [job EXCEPT ![j].status = "FAILED"] /\ UNCHANGED cut
       \/ JobUnchanged /\ cut' = [cut EXCEPT ![j] = TRUE]

FailJob(j) ==
    /\ runner[j].at = "fail"
    /\ Fail(j)
    /\ UNCHANGED <<base, owner, counter, seeded, clients, companies, aliases, userOps,
                   drawn, entered, faulted>>

\* The process stops: every run of it is lost, no one takes the jobs back.
Restart ==
    /\ \E j \in Jobs : runner[j].at \notin {"idle", "over"}
    /\ runner' = [j \in Jobs |-> IF runner[j].at = "idle" THEN runner[j]
                                 ELSE [runner[j] EXCEPT !.at = "over"]]
    /\ cut' = [j \in Jobs |-> cut[j] \/ runner[j].at \notin {"idle", "over"}]
    /\ seeded' = FALSE
    /\ drawn' = 0
    /\ Fault
    /\ UNCHANGED <<base, owner, counter, clients, companies, aliases, job,
                   userOps, entered>>

RunStep(j) ==
    \/ MarkRunning(j) \/ ResolveRow(j) \/ CreateClient(j) \/ FreeDeletedRef(j)
    \/ Bump(j) \/ SaveRow(j) \/ SyncLocation(j) \/ IncrementProgress(j)
    \/ Complete(j) \/ FailJob(j)

ImportJobNext ==
    \/ DrawRef \/ SaveDrawn \/ RemoveTier \/ Restart
    \/ \E ref \in Refs : DeleteDi(ref)
    \/ \E j \in Jobs, file \in Files, decision \in Decisions, sync \in BOOLEAN :
          StartImport(j, file, decision, sync)
    \/ \E j \in Jobs : RunStep(j)

ImportJobSpec == ImportJobInit /\ [][ImportJobNext]_importVars

----------------------------------------------------------------------------
(* What the import promises.                                               *)

\* Once the counter is seeded it is never behind a reference of the base, so a
\* number drawn by createDi is new when it is drawn, imports or not.
CounterAhead == seeded => \A r \in InBase : r <= counter

\* An import never takes the place of an active DI: it may only be deleted by its
\* user, and its tier stays, whatever was read in the snapshot.
ActiveKept ==
    \A r \in Refs : base[r] = "active" => base'[r] # "none" /\ owner'[r] = owner[r]

\* A reference that was in the base comes out only for the time of its purge
\* and recreation, as long as no write fails and no process stops.
NoRefLost ==
    ~faulted => \A r \in entered : base[r] = "none" =>
        \E j \in Jobs : runner[j].at \in {"bump", "save"} /\ Row(j).ref = r

\* A row is attached to a tier that was there when the import read the base, or
\* to a client the import has created.
AttachedToKnown ==
    \A j \in Jobs : runner[j].at \in {"free", "bump", "save", "sync"} =>
        \/ runner[j].tier[1] = "client" /\ runner[j].tier[2] \in DOMAIN clients
        \/ runner[j].tier[1] = "company" /\ runner[j].tier[2] \in runner[j].snap.companies

\* An import that has been the only one creates one client for a name, however many rows
\* carry it, and none for a name that has one: two clients of a name were there before it.
OneClientPerName ==
    \A j \in Jobs : runner[j].at # "idle" /\ (\A i \in Jobs \ {j} : runner[i].at = "idle") =>
        \A i, k \in DOMAIN clients : i # k /\ clients[i].name = clients[k].name =>
            \/ clients[i].deleted \/ clients[k].deleted
            \/ {i, k} \subseteq runner[j].snap.clientIds

\* A completed job has counted every row of the file it kept, once.
CompletedIsWhole ==
    \A j \in Jobs : job[j].status = "COMPLETED" =>
        /\ job[j].done = job[j].total
        /\ runner[j].count["dis"] + runner[j].count["ignorees"]
             + runner[j].count["erreurs"] = job[j].total

\* A job that is not settled has a run that will settle it: whatever step fails, the
\* document ends COMPLETED or FAILED, unless the process stops or its last write fails.
NoJobStranded ==
    \A j \in Jobs : job[j].status \in {"PENDING", "RUNNING"} =>
        cut[j] \/ runner[j].at \notin {"idle", "over"}

\* What imports owe the base they work beside: its references, its tiers and its counter kept,
\* and a job document that tells how the run ended.
ImportInv ==
    /\ ImportJobTypeOK /\ CounterAhead /\ NoRefLost
    /\ AttachedToKnown /\ OneClientPerName /\ CompletedIsWhole
    /\ NoJobStranded
=============================================================================
