----------------------------- MODULE Companies -----------------------------
(***************************************************************************)
(* The companies: the forms that create, change and delete them            *)
(* (src/src/company/company.service.ts) and the import of a workbook, an   *)
(* upsert by tax number, then by name (src/src/company/import).  No index  *)
(* of the database is unique: the checks of the service are all there is.  *)
(***************************************************************************)
EXTENDS Integers, Sequences, FiniteSets

CONSTANTS
    Mfs,              \* the tax numbers (mf)
    FirmNames,        \* the names (raisonSociale), up to case
    FirmForms,        \* the requests of the forms in flight at once
    MaxFirms,         \* bound on the companies
    MaxFirmOps,       \* bound on the forms sent and the imports
    MaxFileRows       \* bound on the rows of a workbook

None == "none"        \* an empty cell, or an empty field

ASSUME FirmBounds ==
    /\ None \notin Mfs \cup FirmNames
    /\ MaxFirms \in Nat /\ MaxFirmOps \in Nat /\ MaxFileRows \in Nat
    /\ MaxFirms >= 2  \* those of the initial base

VARIABLES
    firms,        \* the companies, in the order of their creation
    firmForm,     \* firmForm[f]: a request of a form, between its check and its write
    firmImport,   \* the import in flight: its rows and the next one
    firmOps,      \* the operations so far
    firmsCrossed,      \* history: two of them were in flight at once
    imported      \* history: an import has written

firmVars == <<firms, firmForm, firmImport, firmOps, firmsCrossed, imported>>

MfCells == Mfs \cup {None}
NameCells == FirmNames \cup {None}
Firm == [mf: MfCells, rs: NameCells, deleted: BOOLEAN]
FileRow == [mf: MfCells, rs: NameCells]
Files == UNION {[1..n -> FileRow] : n \in 1..MaxFileRows}

Actives == {i \in DOMAIN firms : ~firms[i].deleted}
IdleFirmForm == [at |-> "idle", on |-> 0, mf |-> None, rs |-> None]
NoImport == [at |-> "idle", plan |-> <<>>, next |-> 0]

CompaniesTypeOK ==
    /\ firms \in Seq(Firm) /\ Len(firms) <= MaxFirms
    /\ \A f \in FirmForms : firmForm[f].at \in {"idle", "checked"}
    /\ \A f \in FirmForms : firmForm[f].on \in 0..Len(firms)
    /\ \A k \in DOMAIN firmImport.plan : firmImport.plan[k].match \in 0..Len(firms)
    /\ firmOps \in 0..MaxFirmOps

\* An empty base, or two companies, the first with a tax number.
InitialFirms ==
    {<<>>} \cup {<<[mf |-> t[1], rs |-> t[3], deleted |-> FALSE],
                  [mf |-> t[2], rs |-> t[4], deleted |-> FALSE]>> :
                 t \in {u \in Mfs \X MfCells \X FirmNames \X FirmNames :
                          u[1] # u[2] /\ u[3] # u[4]}}

CompaniesInit ==
    /\ firms \in InitialFirms
    /\ firmForm = [f \in FirmForms |-> IdleFirmForm]
    /\ firmImport = NoImport
    /\ firmOps = 0
    /\ firmsCrossed = FALSE
    /\ imported = FALSE

FirmsQuiet == firmImport.at = "idle" /\ \A f \in FirmForms : firmForm[f].at = "idle"
FirmOp ==
    /\ firmOps < MaxFirmOps
    /\ firmOps' = firmOps + 1
    /\ firmsCrossed' = (firmsCrossed \/ ~FirmsQuiet)

----------------------------------------------------------------------------
(* The forms.                                                              *)

\* Mutant of Duplicates: the tax number alone is looked for when there is one.
DuplicatesByMf(mf, rs, self) ==
    {i \in Actives : i # self /\ IF mf # None THEN firms[i].mf = mf
                                ELSE rs # None /\ firms[i].rs = rs}

\* assertNoDuplicate: the active companies, but for the one being changed, of the
\* same name or of the same tax number; an empty field is not looked for.
Duplicates(mf, rs, self) ==
    {i \in Actives : i # self /\ (\/ rs # None /\ firms[i].rs = rs
                                  \/ mf # None /\ firms[i].mf = mf)}

\* createcompany (on = 0) and updateCompany: the check, in an await of its own.
CheckFirm(f, on, mf, rs) ==
    /\ firmForm[f].at = "idle"
    /\ FirmOp
    /\ Duplicates(mf, rs, on) = {}
    /\ firmForm' = [firmForm EXCEPT ![f] = [at |-> "checked", on |-> on, mf |-> mf, rs |-> rs]]
    /\ UNCHANGED <<firms, firmImport, imported>>

WriteFirm(f) ==
    LET sent == firmForm[f] IN
    /\ sent.at = "checked"
    /\ IF sent.on = 0
       THEN /\ Len(firms) < MaxFirms
            /\ firms' = Append(firms, [mf |-> sent.mf, rs |-> sent.rs, deleted |-> FALSE])
       ELSE firms' = [firms EXCEPT ![sent.on].mf = sent.mf, ![sent.on].rs = sent.rs]
    /\ firmForm' = [firmForm EXCEPT ![f] = IdleFirmForm]
    /\ UNCHANGED <<firmImport, firmOps, firmsCrossed, imported>>

\* removeCompany: a soft delete, in one write.
RemoveFirm(i) ==
    /\ i \in Actives
    /\ firmOps < MaxFirmOps
    /\ firmOps' = firmOps + 1
    /\ firms' = [firms EXCEPT ![i].deleted = TRUE]
    /\ UNCHANGED <<firmForm, firmImport, firmsCrossed, imported>>

----------------------------------------------------------------------------
(* The import.                                                             *)

\* The maps of the snapshot are filled in its order: the last company wins.
LastOf(found) == CHOOSE i \in found : \A j \in found : j <= i

\* Mutant of ByMf: the companies deleted are in the snapshot.
ByMfAll(mf) == {i \in DOMAIN firms : mf # None /\ firms[i].mf = mf}
ByMf(mf) == {i \in Actives : mf # None /\ firms[i].mf = mf}
ByName(rs) == {i \in Actives : rs # None /\ firms[i].rs = rs}

\* The company a row updates, 0 when it creates one.
MatchFirm(row) ==
    IF ByMf(row.mf) # {} THEN LastOf(ByMf(row.mf))
    ELSE IF ByName(row.rs) # {} THEN LastOf(ByName(row.rs)) ELSE 0

\* The key of the duplicates within a file: the tax number, the name without one.
KeyOf(row) == IF row.mf # None THEN <<"mf", row.mf>> ELSE <<"rs", row.rs>>

\* Mutant of SeenBefore: duplicates within the file are let through.
SeenBeforeNever(file, k) == FALSE
SeenBefore(file, k) ==
    \E j \in 1..(k - 1) : file[j].rs # None /\ KeyOf(file[j]) = KeyOf(file[k])

\* validate: a row without a name and a repeated row are errors; the others are
\* resolved on the snapshot, before anything is written.
Plan(file) ==
    [k \in DOMAIN file |->
        [mf |-> file[k].mf, rs |-> file[k].rs,
         action |-> IF file[k].rs = None \/ SeenBefore(file, k) THEN "error"
                    ELSE IF MatchFirm(file[k]) = 0 THEN "create" ELSE "update",
         match |-> MatchFirm(file[k])]]

ImportFirms(file) ==
    /\ firmImport.at = "idle"
    /\ FirmOp
    /\ firmImport' = [at |-> "writing", plan |-> Plan(file), next |-> 1]
    /\ UNCHANGED <<firms, firmForm, imported>>

\* persist: one row; a failed write is reported and the next row taken.
WriteFileRow ==
    /\ firmImport.at = "writing"
    /\ firmImport.next <= Len(firmImport.plan)
    /\ LET row == firmImport.plan[firmImport.next] IN
       \/ row.action = "create" /\ Len(firms) < MaxFirms
          /\ firms' = Append(firms, [mf |-> row.mf, rs |-> row.rs, deleted |-> FALSE])
       \/ row.action = "update"
          /\ firms' = [firms EXCEPT ![row.match].mf = row.mf, ![row.match].rs = row.rs]
       \/ UNCHANGED firms
    /\ firmImport' = [firmImport EXCEPT !.next = @ + 1]
    /\ imported' = TRUE
    /\ UNCHANGED <<firmForm, firmOps, firmsCrossed>>

EndFirmImport ==
    /\ firmImport.at = "writing"
    /\ firmImport.next > Len(firmImport.plan)
    /\ firmImport' = NoImport
    /\ UNCHANGED <<firms, firmForm, firmOps, firmsCrossed, imported>>

CompaniesNext ==
    \/ \E f \in FirmForms, on \in 0..Len(firms), mf \in MfCells, rs \in NameCells :
          CheckFirm(f, on, mf, rs)
    \/ \E f \in FirmForms : WriteFirm(f)
    \/ \E i \in DOMAIN firms : RemoveFirm(i)
    \/ \E file \in Files : ImportFirms(file)
    \/ WriteFileRow
    \/ EndFirmImport

CompaniesSpec == CompaniesInit /\ [][CompaniesNext]_firmVars

----------------------------------------------------------------------------
(* What the companies promise.                                             *)

ApartByMf == \A i, j \in Actives : firms[i].mf = firms[j].mf /\ firms[i].mf # None => i = j
ApartByName == \A i, j \in Actives : firms[i].rs = firms[j].rs /\ firms[i].rs # None => i = j

\* When the requests do not overlap, two active companies have two tax numbers,
\* imports included: the rows of a file resolved on one snapshot never write one
\* number on two companies.
MfDistinctIfSerial == ~firmsCrossed => ApartByMf

\* By the forms alone, one after the other, two active companies have two names.
NamesDistinctIfSerial == ~firmsCrossed /\ ~imported => ApartByName

\* The workbook exported from the base creates no company when it is imported back,
\* whatever was done before; and when numbers and names are distinct, each of its
\* rows updates the company it came from.
RoundTrip ==
    LET row(i) == [mf |-> firms[i].mf, rs |-> firms[i].rs] IN
    \A i \in Actives :
        /\ firms[i].rs # None => MatchFirm(row(i)) # 0
        /\ firms[i].rs # None /\ ApartByMf /\ ApartByName => MatchFirm(row(i)) = i

\* The companies kept apart by checks alone, and found again by the import of their export.
CompaniesInv ==
    /\ CompaniesTypeOK /\ MfDistinctIfSerial /\ NamesDistinctIfSerial
    /\ RoundTrip
=============================================================================
