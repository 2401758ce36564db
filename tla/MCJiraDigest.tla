---------------------------- MODULE MCJiraDigest ----------------------------
(***************************************************************************)
(* Two issues of two responsables, due on two days, for an embed with room *)
(* for one section: a digest of both leaves one out.                       *)
(***************************************************************************)
EXTENDS JiraDigest

TwoIssues == {"FIX1", "FIX2"}
OneADay == <<{"FIX1"}, {"FIX2"}>>
EachItsOwner == [i \in TwoIssues |-> i]

============================================================================
