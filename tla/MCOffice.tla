------------------------------ MODULE MCOffice ------------------------------
(***************************************************************************)
(* Companies, Archive, MeetingActions and Stagnation for TLC.  They share  *)
(* no variable: `desk` chooses the one that runs, the others stay at their *)
(* initial state, so one run checks the four of them separately.           *)
(***************************************************************************)
EXTENDS Companies, Archive, MeetingActions, Stagnation

VARIABLE desk

officeVars == <<desk, firmVars, archiveVars, meetingVars, stagnationVars>>

OfficeInit ==
    /\ desk \in {"companies", "archive", "meetings", "stagnation"}
    /\ CompaniesInit /\ ArchiveInit /\ MeetingInit /\ StagnationInit
    /\ desk # "companies" => firms = <<>>
    /\ desk # "stagnation" => lower = {} /\ \A d \in WatchedDis : watched[d].age = 0

OfficeNext ==
    /\ UNCHANGED desk
    /\ \/ desk = "companies" /\ CompaniesNext
          /\ UNCHANGED <<archiveVars, meetingVars, stagnationVars>>
       \/ desk = "archive" /\ ArchiveNext
          /\ UNCHANGED <<firmVars, meetingVars, stagnationVars>>
       \/ desk = "meetings" /\ MeetingNext
          /\ UNCHANGED <<firmVars, archiveVars, stagnationVars>>
       \/ desk = "stagnation" /\ StagnationNext
          /\ UNCHANGED <<firmVars, archiveVars, meetingVars>>

OfficeSpec == OfficeInit /\ [][OfficeNext]_officeVars

\* No step of the office reopens what is closed, or closes what is not complete: an
\* archive, or the minutes of a meeting (each named part states when).
OfficeSteps ==
    [][ClosedStays /\ ClosedOnlyComplete /\ FinalisedStaysIfSerial]_officeVars

MCMigrationFiles ==
    {<<[origin |-> "T1", ref |-> [BC |-> "text", BL |-> "dash"]],
       [origin |-> "T2", ref |-> [BC |-> "none", BL |-> "text"]]>>,
     <<[origin |-> "T1", ref |-> [BC |-> "text", BL |-> "none"]],
       [origin |-> "none", ref |-> [BC |-> "text", BL |-> "text"]]>>}
=============================================================================
