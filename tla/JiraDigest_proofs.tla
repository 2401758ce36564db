-------------------------- MODULE JiraDigest_proofs --------------------------
(***************************************************************************)
(* Theorems about JiraDigest, for any number of issues, days, processes    *)
(* and cuts, any webhooks and any limits of the embed: a row is held by    *)
(* one run at a time, its attempts count its digests, and only the run     *)
(* that holds a settled row takes it back.                                 *)
(***************************************************************************)
EXTENDS JiraDigest, TLAPS

\* A run holds a claimed row that it has not settled, or whose settling write
\* failed, and its copy of the attempts is the row's.
Held(r, k) ==
    /\ pc[r] # "idle"
    /\ \/ status[k] = "PROCESSING"
       \/ status[k] = "PROCESSED" /\ pc[r] \in {"revert", "giveup"}
    /\ tries[r][k] = attempts[k]
    /\ pc[r] = "claim" => shown[k] <= attempts[k]
    /\ pc[r] = "giveup" => k \in ToFail(r)
HoldInv == \A r \in Runs : \A k \in claimed[r] : Held(r, k)

\* The attempts of a row count every digest but the one in progress.
Counted(k) ==
    /\ shown[k] <= attempts[k] + 1
    /\ shown[k] <= MaxAttempts
    /\ status[k] \in {"none", "PENDING"} => shown[k] <= attempts[k]
    /\ status[k] = "FAILED" <=> attempts[k] = MaxAttempts
CountInv == \A k \in Keys : Counted(k)

IInv == TypeOK /\ HoldInv /\ ClaimExclusive /\ CountInv /\ StuckOnlyAfterCut

\* The initial states satisfy the invariant: there is no row and no run.
LEMMA InitInv == Init => IInv
<1> SUFFICES ASSUME Init PROVE IInv
  OBVIOUS
<1> USE AttemptsAssumption, BoundAssumption
<1>1. TypeOK
  BY DEF Init, TypeOK, RowStatus, PcValue
<1>2. HoldInv /\ ClaimExclusive
  BY DEF Init, HoldInv, ClaimExclusive
<1>3. CountInv
  BY DEF Init, CountInv, Counted
<1>4. StuckOnlyAfterCut
  BY DEF Init, StuckOnlyAfterCut, Orphan
<1>5. QED
  BY <1>1, <1>2, <1>3, <1>4 DEF IInv

\* The steps of the producer: they write no row but those they insert.
LEMMA SyncInv ==
    ASSUME IInv,
           \/ NextDay
           \/ \E s \in Syncs : FetchIssues(s)
           \/ \E s \in Syncs, i \in Issues : UpsertIssue(s, i) \/ UpsertFails(s, i)
    PROVE  IInv'
<1> USE AttemptsAssumption, BoundAssumption, WindowAssumption DEF IInv
<1>1. CASE NextDay
  BY <1>1 DEF NextDay, TypeOK, HoldInv, Held, ToFail, ClaimExclusive, CountInv, Counted,
     StuckOnlyAfterCut, Orphan, rowVars, runVars
<1>2. ASSUME NEW s \in Syncs, FetchIssues(s) PROVE IInv'
  BY <1>2 DEF FetchIssues, TypeOK, HoldInv, Held, ToFail, ClaimExclusive, CountInv, Counted,
     StuckOnlyAfterCut, Orphan, rowVars, runVars
<1>3. ASSUME NEW s \in Syncs, NEW i \in Issues, UpsertFails(s, i) PROVE IInv'
  BY <1>3 DEF UpsertFails, TypeOK, HoldInv, Held, ToFail, ClaimExclusive, CountInv, Counted,
     StuckOnlyAfterCut, Orphan, rowVars, runVars
<1>4. ASSUME NEW s \in Syncs, NEW i \in Issues, UpsertIssue(s, i) PROVE IInv'
  <2> DEFINE k == <<i, syncDay[s]>>
  <2>1. k \in Keys
    BY DEF TypeOK, Keys
  <2>2. TypeOK'
    BY <1>4, <2>1 DEF UpsertIssue, TypeOK, RowStatus, runVars
  <2>3. \A j \in Keys : status'[j] # status[j] => status[j] = "none" /\ status'[j] = "PENDING"
    BY <1>4, <2>1 DEF UpsertIssue, TypeOK
  <2>4. UNCHANGED <<attempts, shown, pc, pendings, claimed, tries, cuts>>
    BY <1>4 DEF UpsertIssue, runVars
  <2>5. \A r \in Runs : claimed[r] \subseteq Keys
    BY DEF TypeOK
  <2>6. HoldInv'
    BY <2>3, <2>4, <2>5 DEF HoldInv, Held, ToFail
  <2>7. CountInv'
    BY <2>3, <2>4 DEF CountInv, Counted, TypeOK
  <2>8. ClaimExclusive' /\ StuckOnlyAfterCut'
    BY <2>3, <2>4 DEF ClaimExclusive, StuckOnlyAfterCut, Orphan
  <2>9. QED
    BY <2>2, <2>6, <2>7, <2>8
<1>5. QED
  BY <1>1, <1>2, <1>3, <1>4

\* The end of a run that holds no row, or whose rows are settled.
LEMMA OverFacts ==
    ASSUME TypeOK, NEW r \in Runs, Over(r)
    PROVE  /\ pc' \in [Runs -> PcValue] /\ pc'[r] = "idle"
           /\ pendings' \in [Runs -> SUBSET Keys]
           /\ claimed' \in [Runs -> SUBSET Keys] /\ claimed'[r] = {}
           /\ tries' \in [Runs -> [Keys -> 0..MaxAttempts]]
           /\ \A o \in Runs : o # r =>
                pc'[o] = pc[o] /\ claimed'[o] = claimed[o] /\ tries'[o] = tries[o]
<1> USE AttemptsAssumption
<1>1. [k \in Keys |-> 0] \in [Keys -> 0..MaxAttempts]
  OBVIOUS
<1>2. QED
  BY <1>1 DEF Over, Goto, TypeOK, PcValue

\* A step of run r leaves the rows of the other runs alone when it changes only
\* rows that are PENDING or that r holds.
LEMMA OthersHeld ==
    ASSUME IInv, NEW r \in Runs,
           \A k \in Keys : status[k] = "PENDING" \/ k \in claimed[r] \/
               (status'[k] = status[k] /\ attempts'[k] = attempts[k] /\ shown'[k] = shown[k]),
           \A o \in Runs : o # r =>
               pc'[o] = pc[o] /\ claimed'[o] = claimed[o] /\ tries'[o] = tries[o]
    PROVE  \A o \in Runs : o # r => \A k \in claimed'[o] : Held(o, k)'
<1> SUFFICES ASSUME NEW o \in Runs, o # r, NEW k \in claimed[o]
             PROVE  Held(o, k)'
  OBVIOUS
<1>1. Held(o, k) /\ k \in Keys /\ k \notin claimed[r]
  BY DEF IInv, HoldInv, ClaimExclusive, TypeOK
<1>2. status[k] # "PENDING"
  BY <1>1 DEF Held
<1>3. status'[k] = status[k] /\ attempts'[k] = attempts[k] /\ shown'[k] = shown[k]
  BY <1>1, <1>2
<1>4. QED
  BY <1>1, <1>3 DEF Held, ToFail

\* So the end of run r keeps the invariants on the claimed rows.
LEMMA OverHeld ==
    ASSUME IInv, NEW r \in Runs, Over(r),
           \A k \in Keys : k \in claimed[r] \/
               (status'[k] = status[k] /\ attempts'[k] = attempts[k] /\ shown'[k] = shown[k])
    PROVE  HoldInv' /\ ClaimExclusive'
<1>1. TypeOK /\ ClaimExclusive
  BY DEF IInv
<1>2. /\ claimed'[r] = {}
      /\ \A o \in Runs : o # r =>
           pc'[o] = pc[o] /\ claimed'[o] = claimed[o] /\ tries'[o] = tries[o]
  BY <1>1, OverFacts
<1>3. \A o \in Runs : o # r => \A k \in claimed'[o] : Held(o, k)'
  BY <1>2, OthersHeld
<1>4. HoldInv'
  BY <1>2, <1>3 DEF HoldInv
<1>5. ClaimExclusive'
  BY <1>1, <1>2 DEF ClaimExclusive
<1>6. QED
  BY <1>4, <1>5

\* The reading of the list and the claims.
LEMMA ClaimInv ==
    ASSUME IInv, NEW r \in Runs,
           ReadPending(r) \/ (\E k \in Keys : ClaimRow(r, k)) \/ NothingClaimed(r)
    PROVE  IInv'
<1> USE AttemptsAssumption, BoundAssumption DEF IInv
<1>1. CASE ReadPending(r)
  <2>1. TypeOK'
    BY <1>1 DEF ReadPending, PendingRows, Goto, TypeOK, PcValue, syncVars, rowVars
  <2>2. claimed[r] = {}
    BY <1>1 DEF ReadPending, HoldInv, Held
  <2>3. HoldInv' /\ ClaimExclusive' /\ CountInv' /\ StuckOnlyAfterCut'
    BY <1>1, <2>2 DEF ReadPending, Goto, TypeOK, HoldInv, Held, ToFail, ClaimExclusive,
       CountInv, Counted, StuckOnlyAfterCut, Orphan, rowVars
  <2>4. QED
    BY <2>1, <2>3
<1>2. ASSUME NEW k \in Keys, ClaimRow(r, k) PROVE IInv'
  <2>1. CASE status[k] # "PENDING"
    BY <1>2, <2>1 DEF ClaimRow, TypeOK, HoldInv, Held, ToFail, ClaimExclusive, CountInv,
       Counted, StuckOnlyAfterCut, Orphan, syncVars
  <2>2. CASE status[k] = "PENDING"
    <3>1. /\ pc[r] = "claim"
          /\ status' = [status EXCEPT ![k] = "PROCESSING"]
          /\ claimed' = [claimed EXCEPT ![r] = @ \cup {k}]
          /\ tries' = [tries EXCEPT ![r][k] = attempts[k]]
          /\ pendings' = [pendings EXCEPT ![r] = @ \ {k}]
          /\ UNCHANGED <<pc, attempts, shown, day, fetched, syncDay, cuts>>
      BY <1>2, <2>2 DEF ClaimRow, syncVars
    <3>2. TypeOK'
      BY <3>1 DEF TypeOK, RowStatus
    <3>3. \A o \in Runs : k \notin claimed[o]
      BY <2>2 DEF HoldInv, Held
    <3>4. /\ \A j \in Keys : status[j] = "PENDING" \/ j \in claimed[r] \/
               (status'[j] = status[j] /\ attempts'[j] = attempts[j] /\ shown'[j] = shown[j])
          /\ \A o \in Runs : o # r =>
               pc'[o] = pc[o] /\ claimed'[o] = claimed[o] /\ tries'[o] = tries[o]
      BY <2>2, <3>1 DEF TypeOK
    <3>5. \A o \in Runs : o # r => \A j \in claimed'[o] : Held(o, j)'
      BY <3>4, OthersHeld
    <3>6. \A j \in claimed'[r] : Held(r, j)'
      <4>1. Held(r, k)'
        BY <2>2, <3>1 DEF Held, TypeOK, CountInv, Counted
      <4>2. ASSUME NEW j \in claimed[r] PROVE Held(r, j)'
        <5>1. Held(r, j) /\ j # k /\ j \in Keys
          BY <3>3 DEF HoldInv, TypeOK
        <5>2. QED
          BY <3>1, <5>1 DEF Held, TypeOK
      <4>3. QED
        BY <3>1, <4>1, <4>2 DEF TypeOK
    <3>7. HoldInv'
      BY <3>5, <3>6 DEF HoldInv
    <3>8. ClaimExclusive'
      BY <3>1, <3>3 DEF ClaimExclusive, TypeOK
    <3>9. CountInv'
      BY <2>2, <3>1 DEF CountInv, Counted, TypeOK
    <3>10. StuckOnlyAfterCut'
      BY <3>1 DEF StuckOnlyAfterCut, Orphan, TypeOK
    <3>11. QED
      BY <3>2, <3>7, <3>8, <3>9, <3>10
  <2>3. QED
    BY <2>1, <2>2
<1>3. CASE NothingClaimed(r)
  <2>1. claimed[r] = {} /\ Over(r) /\ UNCHANGED <<day, fetched, syncDay, status, attempts, shown, cuts>>
    BY <1>3 DEF NothingClaimed, syncVars, rowVars
  <2>2. TypeOK'
    BY <2>1, OverFacts DEF TypeOK
  <2>3. HoldInv' /\ ClaimExclusive'
    BY <2>1, OverHeld
  <2>4. CountInv'
    BY <2>1 DEF CountInv, Counted
  <2>5. StuckOnlyAfterCut'
    <3>1. \A o \in Runs : claimed'[o] = claimed[o]
      BY <2>1, OverFacts
    <3>2. QED
      BY <2>1, <3>1 DEF StuckOnlyAfterCut, Orphan
  <2>6. QED
    BY <2>2, <2>3, <2>4, <2>5
<1>4. QED
  BY <1>1, <1>2, <1>3

\* The digest is posted, or fails, and some of the claimed rows are displayed.
LEMMA SendInv ==
    ASSUME IInv, NEW r \in Runs, SendDigest(r) \/ SendFails(r)
    PROVE  IInv'
<1> USE AttemptsAssumption DEF IInv
<1>1. PICK rows \in SUBSET claimed[r] :
        shown' = [k \in Keys |-> IF k \in rows THEN shown[k] + 1 ELSE shown[k]]
  <2>1. CASE Posted(r)
    BY <2>1 DEF Posted
  <2>2. CASE shown' = shown
    <3> DEFINE rows == {}
    <3>1. shown' = [k \in Keys |-> IF k \in rows THEN shown[k] + 1 ELSE shown[k]]
      BY <2>2 DEF TypeOK
    <3>2. rows \in SUBSET claimed[r]
      OBVIOUS
    <3> HIDE DEF rows
    <3>3. QED
      BY <3>1, <3>2
  <2>3. Posted(r) \/ shown' = shown
    BY DEF SendDigest, SendFails
  <2>4. QED
    BY <2>1, <2>2, <2>3
<1>2. PICK label \in {"settle", "revert"} : pc' = [pc EXCEPT ![r] = label]
  BY DEF SendDigest, SendFails, Goto
<1>3. /\ pc[r] = "claim"
      /\ UNCHANGED <<pendings, claimed, tries, status, attempts, day, fetched, syncDay, cuts>>
  BY DEF SendDigest, SendFails, syncVars
<1>4. TypeOK'
  BY <1>1, <1>2, <1>3 DEF TypeOK, PcValue
<1>5. \A k \in Keys : shown'[k] = shown[k] \/ (k \in claimed[r] /\ shown'[k] = shown[k] + 1)
  BY <1>1 DEF TypeOK
<1>6. \A o \in Runs : o # r => \A k \in claimed'[o] : Held(o, k)'
  <2>1. /\ \A k \in Keys : status[k] = "PENDING" \/ k \in claimed[r] \/
             (status'[k] = status[k] /\ attempts'[k] = attempts[k] /\ shown'[k] = shown[k])
        /\ \A o \in Runs : o # r =>
             pc'[o] = pc[o] /\ claimed'[o] = claimed[o] /\ tries'[o] = tries[o]
    BY <1>2, <1>3, <1>5 DEF TypeOK
  <2>2. QED
    BY <2>1, OthersHeld
<1>7. \A k \in claimed'[r] : Held(r, k)'
  BY <1>2, <1>3 DEF HoldInv, Held, TypeOK
<1>8. HoldInv'
  BY <1>6, <1>7 DEF HoldInv
<1>9. CountInv'
  <2> SUFFICES ASSUME NEW k \in Keys PROVE Counted(k)'
    BY DEF CountInv
  <2>1. Counted(k)
    BY DEF CountInv
  <2>2. CASE shown'[k] = shown[k]
    BY <1>3, <2>1, <2>2 DEF Counted
  <2>3. CASE k \in claimed[r] /\ shown'[k] = shown[k] + 1
    <3>1. status[k] = "PROCESSING" /\ shown[k] <= attempts[k]
      BY <1>3, <2>3 DEF HoldInv, Held
    <3>2. attempts[k] \in 0..MaxAttempts /\ shown[k] \in Nat
      BY DEF TypeOK
    <3>3. attempts[k] # MaxAttempts
      BY <2>1, <3>1 DEF Counted
    <3>4. shown'[k] <= attempts[k] + 1 /\ attempts[k] + 1 <= MaxAttempts
      BY <2>3, <3>1, <3>2, <3>3
    <3>5. status'[k] = status[k] /\ attempts'[k] = attempts[k] /\ shown'[k] \in Nat
      BY <1>3, <2>3, <3>2
    <3>6. QED
      BY <2>1, <3>1, <3>2, <3>3, <3>4, <3>5 DEF Counted
  <2>4. QED
    BY <1>5, <2>2, <2>3
<1>10. ClaimExclusive' /\ StuckOnlyAfterCut'
  BY <1>3 DEF ClaimExclusive, StuckOnlyAfterCut, Orphan
<1>11. QED
  BY <1>4, <1>8, <1>9, <1>10

\* The settling write succeeds, or fails and is applied or not.
LEMMA MarkInv ==
    ASSUME IInv, NEW r \in Runs, MarkProcessed(r) \/ MarkFails(r)
    PROVE  IInv'
<1> USE AttemptsAssumption, BoundAssumption DEF IInv
<1> DEFINE done == [k \in Keys |-> IF k \in claimed[r] THEN "PROCESSED" ELSE status[k]]
<1>1. pc[r] = "settle" /\ UNCHANGED <<attempts, shown, day, fetched, syncDay>>
  BY DEF MarkProcessed, MarkFails, syncVars
<1>2. \A k \in claimed[r] : k \in Keys /\ status[k] = "PROCESSING"
  BY <1>1 DEF HoldInv, Held, TypeOK
<1>3. done \in [Keys -> RowStatus] /\ \A k \in Keys : k \in claimed[r] \/ done[k] = status[k]
  BY DEF TypeOK, RowStatus
<1>4. status' = done \/ status' = status
  BY DEF MarkProcessed, MarkFails, WithStatus
<1>5. CountInv'
  <2> SUFFICES ASSUME NEW k \in Keys PROVE Counted(k)'
    BY DEF CountInv
  <2>1. Counted(k)
    BY DEF CountInv
  <2>2. status'[k] = status[k] \/ (status[k] = "PROCESSING" /\ status'[k] = "PROCESSED")
    BY <1>2, <1>4
  <2>3. QED
    BY <1>1, <2>1, <2>2 DEF Counted
<1>6. CASE MarkProcessed(r)
  <2>1. Over(r) /\ status' = done /\ cuts' = cuts
    BY <1>6 DEF MarkProcessed, WithStatus
  <2>2. TypeOK'
    BY <1>1, <1>3, <2>1, OverFacts DEF TypeOK
  <2>3. HoldInv' /\ ClaimExclusive'
    <3>1. \A k \in Keys : k \in claimed[r] \/
            (status'[k] = status[k] /\ attempts'[k] = attempts[k] /\ shown'[k] = shown[k])
      BY <1>1, <1>3, <2>1
    <3>2. QED
      BY <2>1, <3>1, OverHeld
  <2>4. StuckOnlyAfterCut'
    <3>1. \A o \in Runs : o # r => claimed'[o] = claimed[o]
      BY <2>1, OverFacts
    <3>2. \A k \in Keys : Orphan(k)' => Orphan(k)
      BY <2>1, <3>1 DEF Orphan
    <3>3. QED
      BY <2>1, <3>2 DEF StuckOnlyAfterCut
  <2>5. QED
    BY <1>5, <2>2, <2>3, <2>4
<1>7. CASE MarkFails(r)
  <2>1. /\ pc' = [pc EXCEPT ![r] = "revert"] /\ cuts < MaxCuts /\ cuts' = cuts + 1
        /\ UNCHANGED <<pendings, claimed, tries>>
    BY <1>7 DEF MarkFails, Goto
  <2>2. TypeOK'
    BY <1>1, <1>3, <1>4, <2>1 DEF TypeOK, PcValue
  <2>3. \A o \in Runs : o # r => \A k \in claimed'[o] : Held(o, k)'
    <3>1. /\ \A k \in Keys : status[k] = "PENDING" \/ k \in claimed[r] \/
               (status'[k] = status[k] /\ attempts'[k] = attempts[k] /\ shown'[k] = shown[k])
          /\ \A o \in Runs : o # r =>
               pc'[o] = pc[o] /\ claimed'[o] = claimed[o] /\ tries'[o] = tries[o]
      BY <1>1, <1>3, <1>4, <2>1 DEF TypeOK
    <3>2. QED
      BY <3>1, OthersHeld
  <2>4. \A k \in claimed'[r] : Held(r, k)'
    BY <1>1, <1>2, <1>4, <2>1 DEF HoldInv, Held, TypeOK
  <2>5. HoldInv' /\ ClaimExclusive'
    BY <2>1, <2>3, <2>4 DEF HoldInv, ClaimExclusive
  <2>6. StuckOnlyAfterCut'
    BY <2>1 DEF StuckOnlyAfterCut, TypeOK
  <2>7. QED
    BY <1>5, <2>2, <2>5, <2>6
<1>8. QED
  BY <1>6, <1>7

\* A process is cut: nothing is written.
LEMMA CutInv ==
    ASSUME IInv, NEW r \in Runs, Cut(r)
    PROVE  IInv'
<1> USE BoundAssumption DEF IInv
<1>1. Over(r) /\ cuts < MaxCuts /\ cuts' = cuts + 1 /\ UNCHANGED <<syncVars, rowVars>>
  BY DEF Cut
<1>2. TypeOK'
  BY <1>1, OverFacts DEF TypeOK, syncVars, rowVars
<1>3. HoldInv' /\ ClaimExclusive'
  <2>1. \A k \in Keys : k \in claimed[r] \/
          (status'[k] = status[k] /\ attempts'[k] = attempts[k] /\ shown'[k] = shown[k])
    BY <1>1 DEF rowVars
  <2>2. QED
    BY <1>1, <2>1, OverHeld
<1>4. CountInv'
  BY <1>1 DEF CountInv, Counted, rowVars
<1>5. StuckOnlyAfterCut'
  BY <1>1 DEF StuckOnlyAfterCut, TypeOK
<1>6. QED
  BY <1>2, <1>3, <1>4, <1>5

\* The catch counts an attempt on the rows it writes, which run r holds, and
\* settles or releases them.
LEMMA Reverted ==
    ASSUME IInv, NEW r \in Runs, NEW rows \in SUBSET claimed[r], NEW s \in {"PENDING", "FAILED"},
           pc[r] \in {"revert", "giveup"},
           \A k \in rows : s = "FAILED" <=> tries[r][k] + 1 >= MaxAttempts,
           status' = WithStatus(rows, s), attempts' = OneMore(rows), shown' = shown
    PROVE  /\ status' \in [Keys -> RowStatus] /\ attempts' \in [Keys -> 0..MaxAttempts]
           /\ CountInv'
           /\ \A k \in Keys : k \in rows \/
                (status'[k] = status[k] /\ attempts'[k] = attempts[k] /\ shown'[k] = shown[k])
           /\ \A k \in rows : status'[k] = s
<1> USE AttemptsAssumption DEF IInv
<1>1. \A k \in rows :
        /\ k \in Keys
        /\ attempts[k] + 1 \in 0..MaxAttempts
        /\ s = "FAILED" <=> attempts[k] + 1 = MaxAttempts
        /\ shown[k] <= attempts[k] + 1
  <2> SUFFICES ASSUME NEW k \in rows
               PROVE  /\ k \in Keys
                      /\ attempts[k] + 1 \in 0..MaxAttempts
                      /\ s = "FAILED" <=> attempts[k] + 1 = MaxAttempts
                      /\ shown[k] <= attempts[k] + 1
    OBVIOUS
  <2>1. k \in Keys /\ k \in claimed[r] /\ Held(r, k) /\ Counted(k)
    BY DEF HoldInv, CountInv, TypeOK
  <2>2. attempts[k] \in 0..MaxAttempts /\ attempts[k] # MaxAttempts /\ tries[r][k] = attempts[k]
    BY <2>1 DEF TypeOK, Held, Counted
  <2>3. s = "FAILED" <=> attempts[k] + 1 >= MaxAttempts
    BY <2>2
  <2>4. shown[k] <= attempts[k] + 1
    BY <2>1 DEF Counted
  <2>5. QED
    BY <2>1, <2>2, <2>3, <2>4
<1>2. /\ \A k \in Keys : status'[k] = IF k \in rows THEN s ELSE status[k]
      /\ \A k \in Keys : attempts'[k] = IF k \in rows THEN attempts[k] + 1 ELSE attempts[k]
  <2>1. /\ status' = [k \in Keys |-> IF k \in rows THEN s ELSE status[k]]
        /\ attempts' = [k \in Keys |-> IF k \in rows THEN attempts[k] + 1 ELSE attempts[k]]
    BY DEF WithStatus, OneMore
  <2>2. QED
    BY <2>1
<1>3. status' \in [Keys -> RowStatus]
  BY DEF WithStatus, TypeOK, RowStatus
<1>4. attempts' \in [Keys -> 0..MaxAttempts]
  <2>1. \A k \in Keys : (IF k \in rows THEN attempts[k] + 1 ELSE attempts[k]) \in 0..MaxAttempts
    <3>1. \A k \in Keys : attempts[k] \in 0..MaxAttempts
      BY DEF TypeOK
    <3>2. \A k \in rows : attempts[k] + 1 \in 0..MaxAttempts
      BY <1>1
    <3>3. QED
      BY <3>1, <3>2, Zenon
  <2>2. QED
    BY <2>1 DEF OneMore
<1>5. CountInv'
  <2> SUFFICES ASSUME NEW k \in Keys PROVE Counted(k)'
    BY DEF CountInv
  <2>1. Counted(k) /\ shown'[k] = shown[k]
    BY DEF CountInv
  <2>2. CASE k \notin rows
    BY <1>2, <2>1, <2>2 DEF Counted
  <2>3. CASE k \in rows
    <3>1. status'[k] = s /\ attempts'[k] = attempts[k] + 1
      BY <1>2, <2>3
    <3>2. attempts[k] \in 0..MaxAttempts /\ shown[k] \in Nat /\ shown[k] <= MaxAttempts
      BY <2>1 DEF TypeOK, Counted
    <3>3. shown'[k] = shown[k] /\ shown[k] <= attempts[k] + 1
      BY <2>1 DEF Counted
    <3>4. s = "FAILED" <=> attempts[k] + 1 = MaxAttempts
      BY <1>1, <2>3
    <3>5. s # "FAILED" => s = "PENDING"
      OBVIOUS
    <3>6. QED
      BY <3>1, <3>2, <3>3, <3>4, <3>5 DEF Counted
  <2>4. QED
    BY <2>2, <2>3
<1>6. \A k \in rows : k \in Keys
  BY <1>1
<1>7. \A k \in Keys : k \in rows \/
        (status'[k] = status[k] /\ attempts'[k] = attempts[k] /\ shown'[k] = shown[k])
  BY <1>2
<1>8. \A k \in rows : status'[k] = s
  BY <1>2, <1>6
<1>9. QED
  BY <1>3, <1>4, <1>5, <1>7, <1>8

\* The first write of the catch.
LEMMA RetryInv ==
    ASSUME IInv, NEW r \in Runs, RetryRows(r)
    PROVE  IInv'
<1> USE AttemptsAssumption, BoundAssumption DEF IInv
<1>1. /\ pc[r] = "revert" /\ status' = WithStatus(ToRetry(r), "PENDING")
      /\ attempts' = OneMore(ToRetry(r)) /\ Released(r)
      /\ UNCHANGED <<shown, day, fetched, syncDay, cuts>>
  BY DEF RetryRows, syncVars
<1>2. ToRetry(r) \in SUBSET claimed[r]
  BY DEF ToRetry
<1>3. /\ status' \in [Keys -> RowStatus] /\ attempts' \in [Keys -> 0..MaxAttempts]
      /\ CountInv'
      /\ \A k \in Keys : k \in ToRetry(r) \/
           (status'[k] = status[k] /\ attempts'[k] = attempts[k] /\ shown'[k] = shown[k])
      /\ \A k \in ToRetry(r) : status'[k] = "PENDING"
  <2>1. \A k \in ToRetry(r) : "PENDING" = "FAILED" <=> tries[r][k] + 1 >= MaxAttempts
    BY DEF ToRetry, TypeOK
  <2>2. QED
    BY <1>1, <1>2, <2>1, Reverted
<1>4. claimed[r] \subseteq ToRetry(r) \cup ToFail(r) /\ ToFail(r) \subseteq claimed[r]
  BY DEF ToRetry, ToFail, TypeOK
<1>5. ToRetry(r) \cap ToFail(r) = {}
  BY DEF ToRetry, ToFail, TypeOK
<1>6. CASE ToFail(r) = {}
  <2>1. Over(r)
    BY <1>1, <1>6 DEF Released
  <2>2. TypeOK'
    BY <1>1, <1>3, <2>1, OverFacts DEF TypeOK
  <2>3. HoldInv' /\ ClaimExclusive'
    <3>1. \A k \in Keys : k \in claimed[r] \/
            (status'[k] = status[k] /\ attempts'[k] = attempts[k] /\ shown'[k] = shown[k])
      BY <1>2, <1>3
    <3>2. QED
      BY <2>1, <3>1, OverHeld
  <2>4. StuckOnlyAfterCut'
    <3>1. \A o \in Runs : o # r => claimed'[o] = claimed[o]
      BY <2>1, OverFacts
    <3>2. \A k \in Keys : Orphan(k)' => Orphan(k)
      BY <1>3, <1>4, <1>6, <3>1 DEF Orphan
    <3>3. QED
      BY <1>1, <3>2 DEF StuckOnlyAfterCut
  <2>5. QED
    BY <1>3, <2>2, <2>3, <2>4
<1>7. CASE ToFail(r) # {}
  <2>1. /\ claimed' = [claimed EXCEPT ![r] = @ \ ToRetry(r)]
        /\ pc' = [pc EXCEPT ![r] = "giveup"]
        /\ UNCHANGED <<pendings, tries>>
    BY <1>1, <1>7 DEF Released, Goto
  <2>2. TypeOK'
    BY <1>1, <1>3, <2>1 DEF TypeOK, PcValue
  <2>3. \A o \in Runs : o # r => \A k \in claimed'[o] : Held(o, k)'
    <3>1. /\ \A k \in Keys : status[k] = "PENDING" \/ k \in claimed[r] \/
               (status'[k] = status[k] /\ attempts'[k] = attempts[k] /\ shown'[k] = shown[k])
          /\ \A o \in Runs : o # r =>
               pc'[o] = pc[o] /\ claimed'[o] = claimed[o] /\ tries'[o] = tries[o]
      BY <1>2, <1>3, <2>1 DEF TypeOK
    <3>2. QED
      BY <3>1, OthersHeld
  <2>4. claimed'[r] = ToFail(r) /\ pc'[r] = "giveup"
    BY <1>4, <1>5, <2>1 DEF TypeOK
  <2>5. \A k \in claimed'[r] : Held(r, k)'
    <3> SUFFICES ASSUME NEW k \in ToFail(r) PROVE Held(r, k)'
      BY <2>4
    <3>1. k \in Keys /\ k \in claimed[r] /\ Held(r, k)
      BY <1>4 DEF HoldInv, TypeOK
    <3>2. status'[k] = status[k] /\ attempts'[k] = attempts[k] /\ shown'[k] = shown[k]
      BY <1>3, <1>5, <3>1
    <3>3. tries' = tries /\ k \in ToFail(r)'
      BY <2>1, <2>4 DEF ToFail
    <3>4. QED
      BY <1>1, <2>4, <3>1, <3>2, <3>3 DEF Held
  <2>6. HoldInv'
    BY <2>3, <2>5 DEF HoldInv
  <2>7. ClaimExclusive'
    BY <2>1 DEF ClaimExclusive, TypeOK
  <2>8. StuckOnlyAfterCut'
    <3>1. \A k \in Keys : Orphan(k)' => Orphan(k)
      BY <1>3, <1>4, <2>1 DEF Orphan, TypeOK
    <3>2. QED
      BY <1>1, <3>1 DEF StuckOnlyAfterCut
  <2>9. QED
    BY <1>3, <2>2, <2>6, <2>7, <2>8
<1>8. QED
  BY <1>6, <1>7

\* The second write of the catch.
LEMMA GiveUpInv ==
    ASSUME IInv, NEW r \in Runs, GiveUpRows(r)
    PROVE  IInv'
<1> USE AttemptsAssumption, BoundAssumption DEF IInv
<1>1. /\ pc[r] = "giveup" /\ status' = WithStatus(ToFail(r), "FAILED")
      /\ attempts' = OneMore(ToFail(r)) /\ Over(r)
      /\ UNCHANGED <<shown, day, fetched, syncDay, cuts>>
  BY DEF GiveUpRows, syncVars
<1>2. ToFail(r) \in SUBSET claimed[r]
  BY DEF ToFail
<1>3. claimed[r] \subseteq ToFail(r)
  BY <1>1 DEF HoldInv, Held
<1>4. /\ status' \in [Keys -> RowStatus] /\ attempts' \in [Keys -> 0..MaxAttempts]
      /\ CountInv'
      /\ \A k \in Keys : k \in ToFail(r) \/
           (status'[k] = status[k] /\ attempts'[k] = attempts[k] /\ shown'[k] = shown[k])
      /\ \A k \in ToFail(r) : status'[k] = "FAILED"
  <2>1. \A k \in ToFail(r) : "FAILED" = "FAILED" <=> tries[r][k] + 1 >= MaxAttempts
    BY DEF ToFail
  <2>2. QED
    BY <1>1, <1>2, <2>1, Reverted
<1>5. TypeOK'
  BY <1>1, <1>4, OverFacts DEF TypeOK
<1>6. HoldInv' /\ ClaimExclusive'
  <2>1. \A k \in Keys : k \in claimed[r] \/
          (status'[k] = status[k] /\ attempts'[k] = attempts[k] /\ shown'[k] = shown[k])
    BY <1>2, <1>4
  <2>2. QED
    BY <1>1, <2>1, OverHeld
<1>7. StuckOnlyAfterCut'
  <2>1. \A o \in Runs : o # r => claimed'[o] = claimed[o]
    BY <1>1, OverFacts
  <2>2. \A k \in Keys : Orphan(k)' => Orphan(k)
    BY <1>3, <1>4, <2>1 DEF Orphan
  <2>3. QED
    BY <1>1, <2>2 DEF StuckOnlyAfterCut
<1>8. QED
  BY <1>4, <1>5, <1>6, <1>7

----------------------------------------------------------------------------

\* Every step keeps the invariant.
LEMMA StepInv == IInv /\ [Next]_vars => IInv'
<1> SUFFICES ASSUME IInv, [Next]_vars PROVE IInv'
  OBVIOUS
<1>1. CASE \/ NextDay
           \/ \E s \in Syncs : FetchIssues(s)
           \/ \E s \in Syncs, i \in Issues : UpsertIssue(s, i) \/ UpsertFails(s, i)
  BY <1>1, SyncInv
<1>2. ASSUME NEW r \in Runs, Advance(r) PROVE IInv'
  BY <1>2, ClaimInv, SendInv, MarkInv, RetryInv, GiveUpInv DEF Advance
<1>3. ASSUME NEW r \in Runs, MarkFails(r) PROVE IInv'
  BY <1>3, MarkInv
<1>4. ASSUME NEW r \in Runs, Cut(r) PROVE IInv'
  BY <1>4, CutInv
<1>5. CASE UNCHANGED vars
  BY <1>5 DEF vars, syncVars, rowVars, runVars, IInv, TypeOK, HoldInv, Held, ToFail,
     ClaimExclusive, CountInv, Counted, StuckOnlyAfterCut, Orphan
<1>6. QED
  BY <1>1, <1>2, <1>3, <1>4, <1>5 DEF Next

\* The invariant holds in every reachable state.
LEMMA Invariance == Spec => []IInv
  BY InitInv, StepInv, PTL DEF Spec

\* The state keeps its types; the attempts of a row never pass MaxAttempts.
THEOREM TypeCorrect == Spec => []TypeOK
<1>1. IInv => TypeOK
  BY DEF IInv
<1>2. QED
  BY <1>1, Invariance, PTL

\* No row is in the digests of two runs at once, however many run.
THEOREM OneRunPerRow == Spec => []ClaimExclusive
<1>1. IInv => ClaimExclusive
  BY DEF IInv
<1>2. QED
  BY <1>1, Invariance, PTL

\* A row is displayed again only after a counted failure, at most MaxAttempts
\* times, and is FAILED when its attempts have reached the maximum, and only then.
THEOREM AttemptsCounted == Spec => []AttemptsBound
<1>1. IInv => AttemptsBound
  BY DEF IInv, CountInv, Counted, AttemptsBound, DeliveriesBounded, GaveUpAtMax
<1>2. QED
  BY <1>1, Invariance, PTL

\* Without a cut no row stays PROCESSING with no run to settle it.
THEOREM NoLostClaim == Spec => []StuckOnlyAfterCut
<1>1. IInv => StuckOnlyAfterCut
  BY DEF IInv
<1>2. QED
  BY <1>1, Invariance, PTL

\* A settled row is written again only by the run that holds it, in the catch of
\* its own settling write: never by the producer, never by another run.
THEOREM SettledByHolder == Spec => SettledStays
<1> DEFINE Back(k) == \E r \in Runs : pc[r] \in {"revert", "giveup"} /\ k \in claimed[r]
<1>1. ASSUME IInv, Next, NEW k \in Keys, Settled(k), status'[k] # status[k]
      PROVE  Back(k)
  <2>1. /\ status \in [Keys -> RowStatus]
        /\ \A r \in Runs : k \in claimed[r] => Held(r, k)
        /\ status[k] \in {"PROCESSED", "FAILED"}
    BY <1>1 DEF IInv, TypeOK, HoldInv, Settled
  <2>2. PICK r \in Runs : MarkProcessed(r) \/ MarkFails(r) \/ RetryRows(r) \/ GiveUpRows(r)
    <3>1. ~(\E s \in Syncs, i \in Issues : UpsertIssue(s, i))
      BY <1>1, <2>1 DEF UpsertIssue
    <3>2. ~(\E r \in Runs, j \in Keys : ClaimRow(r, j))
      BY <1>1, <2>1 DEF ClaimRow
    <3>3. ~(NextDay \/ (\E s \in Syncs : FetchIssues(s))
            \/ (\E s \in Syncs, i \in Issues : UpsertFails(s, i)))
      BY <1>1 DEF NextDay, FetchIssues, UpsertFails, rowVars
    <3>4. ~(\E r \in Runs : \/ ReadPending(r) \/ NothingClaimed(r)
                             \/ SendDigest(r) \/ SendFails(r) \/ Cut(r))
      BY <1>1 DEF ReadPending, NothingClaimed, SendDigest, SendFails, Cut, rowVars
    <3>5. QED
      BY <1>1, <3>1, <3>2, <3>3, <3>4 DEF Next, Advance
  <2>3. k \in claimed[r]
    BY <1>1, <2>1, <2>2 DEF MarkProcessed, MarkFails, RetryRows, GiveUpRows, WithStatus,
       ToRetry, ToFail
  <2>4. pc[r] # "settle"
    BY <2>1, <2>3 DEF Held
  <2>5. QED
    BY <2>2, <2>3, <2>4 DEF MarkProcessed, MarkFails, RetryRows, GiveUpRows
<1>2. IInv /\ [Next]_vars =>
        [\A k \in Keys : Settled(k) /\ status'[k] # status[k] => Back(k)]_vars
  BY <1>1
<1>3. QED
  BY <1>2, Invariance, PTL DEF Spec, SettledStays

----------------------------------------------------------------------------
(* The rows of JiraDigestSpec.                                             *)

\* The phase of the rows of a run, by the await the run is at.
Stage(label) ==
    IF label = "claim" THEN "claimed"
    ELSE IF label = "settle" THEN "sent"
    ELSE IF label \in {"revert", "giveup"} THEN "failed"
    ELSE "free"
PhaseOf == [k \in Keys |-> RowPhase(k)]

\* A row has the phase of the only run that holds it, and is free without one.
PhaseInv ==
    /\ \A r \in Runs : \A k \in claimed[r] : RowPhase(k) = Stage(pc[r])
    /\ \A k \in Keys : (\A r \in Runs : k \notin claimed[r]) => RowPhase(k) = "free"
LEMMA PhaseHeld == IInv => PhaseInv
<1>0. \A k \in Keys : (\A r \in Runs : k \notin claimed[r]) => RowPhase(k) = "free"
  BY DEF RowPhase, HeldAt
<1> SUFFICES ASSUME IInv, NEW r \in Runs, NEW k \in claimed[r]
             PROVE  RowPhase(k) = Stage(pc[r])
  BY <1>0 DEF PhaseInv
<1>1. \A o \in Runs : k \in claimed[o] => o = r
  BY DEF IInv, ClaimExclusive
<1>2. ASSUME NEW labels PROVE HeldAt(k, labels) <=> pc[r] \in labels
  BY <1>1 DEF HeldAt
<1>3. QED
  BY <1>2 DEF RowPhase, Stage

\* How a step of run r changes the phases: those of the rows it takes, moves or
\* releases together.
LEMMA PhaseStep ==
    ASSUME IInv, IInv', NEW r \in Runs, NEW rows \in SUBSET Keys, NEW v,
           \A o \in Runs : o # r => pc'[o] = pc[o] /\ claimed'[o] = claimed[o],
           \A k \in rows :
               IF k \in claimed'[r] THEN v = Stage(pc'[r]) ELSE v = "free" /\ k \in claimed[r],
           \A k \in Keys \ rows : k \in claimed[r] <=> k \in claimed'[r],
           \A k \in claimed[r] \ rows : Stage(pc'[r]) = Stage(pc[r])
    PROVE  PhaseOf' = Digest!Set(PhaseOf, rows, v)
<1> SUFFICES ASSUME NEW k \in Keys
             PROVE  RowPhase(k)' = IF k \in rows THEN v ELSE RowPhase(k)
  BY DEF PhaseOf, Digest!Set
<1>1. PhaseInv
  BY PhaseHeld
<1>2. PhaseInv'
  BY PhaseHeld, PTL
<1>3. CASE k \in claimed'[r]
  <2>1. RowPhase(k)' = Stage(pc'[r])
    BY <1>2, <1>3 DEF PhaseInv
  <2>2. k \notin rows => k \in claimed[r] /\ RowPhase(k) = Stage(pc[r])
    BY <1>1, <1>3 DEF PhaseInv
  <2>3. QED
    BY <1>3, <2>1, <2>2
<1>4. CASE k \notin claimed'[r] /\ k \in rows
  <2>1. \A o \in Runs : k \notin claimed'[o]
    BY <1>4 DEF IInv, ClaimExclusive
  <2>2. RowPhase(k)' = "free"
    BY <1>2, <2>1 DEF PhaseInv
  <2>3. QED
    BY <1>4, <2>2
<1>5. CASE k \notin claimed'[r] /\ k \notin rows
  <2>1. k \notin claimed[r]
    BY <1>5
  <2>2. ASSUME NEW labels PROVE HeldAt(k, labels)' <=> HeldAt(k, labels)
    BY <1>5, <2>1 DEF HeldAt
  <2>3. QED
    BY <1>5, <2>2 DEF RowPhase
<1>6. QED
  BY <1>3, <1>4, <1>5

\* A step that leaves the runs' rows where they are leaves their phases.
LEMMA PhaseKept ==
    ASSUME UNCHANGED <<pc, claimed>>
    PROVE  PhaseOf' = PhaseOf
  BY DEF PhaseOf, RowPhase, HeldAt

\* The end of run r frees the rows it held.
LEMMA PhaseOver ==
    ASSUME IInv, IInv', NEW r \in Runs, Over(r)
    PROVE  PhaseOf' = Digest!Set(PhaseOf, claimed[r], "free")
<1>1. TypeOK /\ claimed[r] \in SUBSET Keys
  BY DEF IInv, TypeOK
<1>2. /\ claimed'[r] = {}
      /\ \A o \in Runs : o # r => pc'[o] = pc[o] /\ claimed'[o] = claimed[o]
  BY <1>1, OverFacts
<1>3. QED
  BY <1>1, <1>2, PhaseStep

\* The steps of the producer insert one row, or change none.
LEMMA SyncDigest ==
    ASSUME IInv,
           \/ NextDay
           \/ \E s \in Syncs : FetchIssues(s)
           \/ \E s \in Syncs, i \in Issues : UpsertIssue(s, i) \/ UpsertFails(s, i)
    PROVE  [Digest!Next]_Digest!vars
<1>1. UNCHANGED <<pc, claimed, attempts, shown>>
  BY DEF NextDay, FetchIssues, UpsertIssue, UpsertFails, rowVars, runVars
<1>2. PhaseOf' = PhaseOf
  BY <1>1, PhaseKept
<1>3. CASE status' = status
  BY <1>1, <1>2, <1>3 DEF Digest!vars, PhaseOf
<1>4. CASE status' # status
  <2>1. PICK s \in Syncs, i \in Issues : UpsertIssue(s, i)
    BY <1>4 DEF NextDay, FetchIssues, UpsertFails, rowVars
  <2> DEFINE k == <<i, syncDay[s]>>
  <2>2. k \in Keys /\ status \in [Keys -> RowStatus]
    BY <2>1 DEF IInv, TypeOK, Keys
  <2>3. status[k] = "none" /\ status' = [status EXCEPT ![k] = "PENDING"]
    BY <1>4, <2>1 DEF UpsertIssue
  <2>4. status' = Digest!Set(status, {k}, "PENDING")
    BY <2>2, <2>3 DEF Digest!Set
  <2>5. Digest!Insert(k)
    BY <1>1, <1>2, <2>3, <2>4 DEF Digest!Insert, PhaseOf
  <2>6. QED
    BY <2>2, <2>5 DEF Digest!Next
<1>5. QED
  BY <1>3, <1>4

\* A run takes one row, or none.
LEMMA ClaimDigest ==
    ASSUME IInv, IInv', NEW r \in Runs,
           ReadPending(r) \/ (\E k \in Keys : ClaimRow(r, k)) \/ NothingClaimed(r)
    PROVE  [Digest!Next]_Digest!vars
<1> USE DEF IInv
<1>1. CASE claimed' = claimed /\ claimed[r] = {} /\ UNCHANGED rowVars
           /\ \A o \in Runs : o # r => pc'[o] = pc[o]
  <2>1. PhaseOf' = Digest!Set(PhaseOf, {}, "free")
    BY <1>1, PhaseStep
  <2>2. PhaseOf' = PhaseOf
    BY <2>1 DEF PhaseOf, Digest!Set
  <2>3. QED
    BY <1>1, <2>2 DEF Digest!vars, PhaseOf, rowVars
<1>2. CASE ReadPending(r)
  <2>1. claimed[r] = {}
    BY <1>2 DEF ReadPending, HoldInv, Held
  <2>2. claimed' = claimed /\ UNCHANGED rowVars /\ \A o \in Runs : o # r => pc'[o] = pc[o]
    BY <1>2 DEF ReadPending, Goto, TypeOK
  <2>3. QED
    BY <1>1, <2>1, <2>2
<1>3. CASE NothingClaimed(r)
  <2>1. claimed[r] = {} /\ Over(r) /\ UNCHANGED rowVars
    BY <1>3 DEF NothingClaimed
  <2>2. claimed' = claimed /\ \A o \in Runs : o # r => pc'[o] = pc[o]
    BY <2>1 DEF Over, Goto, TypeOK
  <2>3. QED
    BY <1>1, <2>1, <2>2
<1>4. ASSUME NEW k \in Keys, ClaimRow(r, k) PROVE [Digest!Next]_Digest!vars
  <2>1. pc[r] = "claim" /\ UNCHANGED <<pc, attempts, shown>>
    BY <1>4 DEF ClaimRow
  <2>2. CASE status[k] # "PENDING"
    <3>1. UNCHANGED <<pc, claimed, status, attempts, shown>>
      BY <1>4, <2>2 DEF ClaimRow
    <3>2. QED
      BY <3>1, PhaseKept DEF Digest!vars, PhaseOf
  <2>3. CASE status[k] = "PENDING"
    <3>1. /\ status' = [status EXCEPT ![k] = "PROCESSING"]
          /\ claimed' = [claimed EXCEPT ![r] = @ \cup {k}]
      BY <1>4, <2>3 DEF ClaimRow
    <3>2. \A o \in Runs : k \notin claimed[o]
      BY <2>3 DEF HoldInv, Held
    <3>3. PhaseOf[k] = "free"
      BY <3>2, PhaseHeld DEF PhaseInv, PhaseOf
    <3>4. /\ \A o \in Runs : o # r => pc'[o] = pc[o] /\ claimed'[o] = claimed[o]
          /\ k \in claimed'[r] /\ "claimed" = Stage(pc'[r])
          /\ \A j \in Keys \ {k} : j \in claimed[r] <=> j \in claimed'[r]
          /\ Stage(pc'[r]) = Stage(pc[r])
      BY <2>1, <3>1 DEF TypeOK, Stage
    <3>5. PhaseOf' = Digest!Set(PhaseOf, {k}, "claimed")
      BY <3>4, PhaseStep
    <3>6. status' = Digest!Set(status, {k}, "PROCESSING")
      BY <3>1 DEF Digest!Set, TypeOK
    <3>7. Digest!Claim(k)
      BY <2>1, <2>3, <3>3, <3>5, <3>6 DEF Digest!Claim, PhaseOf
    <3>8. QED
      BY <3>7 DEF Digest!Next
  <2>4. QED
    BY <2>2, <2>3
<1>5. QED
  BY <1>2, <1>3, <1>4

\* The rows of a run at await label all have the phase of that await.
LEMMA PhaseOfRows ==
    ASSUME IInv, NEW r \in Runs, NEW rows \in SUBSET claimed[r]
    PROVE  \A k \in rows : k \in Keys /\ PhaseOf[k] = Stage(pc[r])
  BY PhaseHeld DEF PhaseInv, PhaseOf, IInv, TypeOK

\* The digest of a run is a delivery of all its rows.
LEMMA SendDelivers ==
    ASSUME IInv, IInv', NEW r \in Runs, SendDigest(r) \/ SendFails(r)
    PROVE  Digest!Next
<1> DEFINE rows == claimed[r]
<1> USE DEF IInv
<1>1. PICK label \in {"settle", "revert"} : pc' = [pc EXCEPT ![r] = label]
  BY DEF SendDigest, SendFails, Goto
<1>2. pc[r] = "claim" /\ UNCHANGED <<claimed, status, attempts>>
  BY DEF SendDigest, SendFails
<1>3. \E displayed \in SUBSET rows : shown' = Digest!Count(shown, displayed)
  <2>1. CASE Posted(r)
    BY <2>1 DEF Posted, Digest!Count
  <2>2. CASE shown' = shown
    <3>1. shown' = Digest!Count(shown, {})
      BY <2>2 DEF TypeOK, Digest!Count
    <3>2. QED
      BY <3>1
  <2>3. Posted(r) \/ shown' = shown
    BY DEF SendDigest, SendFails
  <2>4. QED
    BY <2>1, <2>2, <2>3
<1>4. rows \in SUBSET Keys
  BY DEF TypeOK
<1>5. Stage(pc'[r]) \in {"sent", "failed"}
  BY <1>1 DEF TypeOK, Stage
<1>6. PhaseOf' = Digest!Set(PhaseOf, rows, Stage(pc'[r]))
  <2>1. \A o \in Runs : o # r => pc'[o] = pc[o] /\ claimed'[o] = claimed[o]
    BY <1>1, <1>2 DEF TypeOK
  <2>2. QED
    BY <1>2, <1>4, <2>1, PhaseStep
<1>7. \A k \in rows : PhaseOf[k] = "claimed"
  BY <1>2, PhaseOfRows DEF Stage
<1>8. Digest!Deliver(rows)
  BY <1>2, <1>3, <1>5, <1>6, <1>7 DEF Digest!Deliver, PhaseOf
<1>9. QED
  BY <1>4, <1>8 DEF Digest!Next

\* The settling write settles all the rows of a run, or leaves them in doubt.
LEMMA MarkSettles ==
    ASSUME IInv, IInv', NEW r \in Runs, MarkProcessed(r) \/ MarkFails(r)
    PROVE  Digest!Next
<1> DEFINE rows == claimed[r]
<1> USE DEF IInv
<1>1. pc[r] = "settle" /\ UNCHANGED <<attempts, shown>>
  BY DEF MarkProcessed, MarkFails
<1>2. rows \in SUBSET Keys
  BY DEF TypeOK
<1>3. \A k \in rows : PhaseOf[k] = "sent"
  BY <1>1, PhaseOfRows DEF Stage
<1>4. ASSUME MarkProcessed(r) PROVE Digest!Settle(rows)
  <2>1. status' = Digest!Set(status, rows, "PROCESSED")
    BY <1>4 DEF MarkProcessed, WithStatus, Digest!Set
  <2>2. PhaseOf' = Digest!Set(PhaseOf, rows, "free")
    BY <1>4, PhaseOver DEF MarkProcessed
  <2>3. QED
    BY <1>1, <1>3, <2>1, <2>2 DEF Digest!Settle, PhaseOf
<1>5. ASSUME MarkFails(r) PROVE Digest!Settle(rows)
  <2>1. status' \in {status, Digest!Set(status, rows, "PROCESSED")}
    BY <1>5 DEF MarkFails, WithStatus, Digest!Set
  <2>2. claimed' = claimed /\ pc' = [pc EXCEPT ![r] = "revert"]
    BY <1>5 DEF MarkFails, Goto
  <2>3. /\ \A o \in Runs : o # r => pc'[o] = pc[o] /\ claimed'[o] = claimed[o]
        /\ "failed" = Stage(pc'[r])
    BY <2>2 DEF TypeOK, Stage
  <2>4. PhaseOf' = Digest!Set(PhaseOf, rows, "failed")
    BY <1>2, <2>2, <2>3, PhaseStep
  <2>5. QED
    BY <1>1, <1>3, <2>1, <2>4 DEF Digest!Settle, PhaseOf
<1>6. Digest!Settle(rows)
  BY <1>4, <1>5
<1>7. QED
  BY <1>2, <1>6 DEF Digest!Next

\* The first write of the catch sends rows back to PENDING; without any, the run
\* only moves on to the second.
LEMMA RetryReverts ==
    ASSUME IInv, IInv', NEW r \in Runs, RetryRows(r)
    PROVE  Digest!Next
<1> DEFINE rows == ToRetry(r)
<1> USE AttemptsAssumption DEF IInv
<1>1. /\ pc[r] = "revert" /\ shown' = shown
      /\ status' = Digest!Set(status, rows, "PENDING")
      /\ attempts' = Digest!Count(attempts, rows)
      /\ Released(r)
  BY DEF RetryRows, WithStatus, OneMore, Digest!Set, Digest!Count
<1>2. rows \in SUBSET Keys /\ rows \in SUBSET claimed[r] /\ TypeOK
  BY DEF ToRetry, TypeOK
<1>3. \A k \in rows : PhaseOf[k] = "failed"
  BY <1>1, <1>2, PhaseOfRows DEF Stage
<1>4. \A k \in rows : ~(attempts[k] + 1 >= MaxAttempts)
  <2>1. \A k \in rows : tries[r][k] = attempts[k] /\ attempts[k] \in 0..MaxAttempts
    BY <1>2 DEF HoldInv, Held, TypeOK
  <2>2. QED
    BY <2>1 DEF ToRetry
<1>5. PhaseOf' = Digest!Set(PhaseOf, rows, "free")
  <2>1. claimed[r] = ToFail(r) \cup rows
    <3>1. \A k \in claimed[r] : tries[r][k] \in 0..MaxAttempts
      BY DEF TypeOK
    <3>2. QED
      BY <3>1 DEF ToFail, ToRetry
  <2>2. CASE ToFail(r) = {}
    <3>1. Over(r) /\ claimed[r] = rows
      BY <1>1, <2>1, <2>2 DEF Released
    <3>2. QED
      BY <3>1, PhaseOver
  <2>3. CASE ToFail(r) # {}
    <3>1. claimed' = [claimed EXCEPT ![r] = @ \ rows] /\ pc' = [pc EXCEPT ![r] = "giveup"]
      BY <1>1, <2>3 DEF Released, Goto
    <3>2. /\ claimed'[r] = claimed[r] \ rows
          /\ Stage(pc'[r]) = Stage(pc[r])
          /\ \A o \in Runs : o # r => pc'[o] = pc[o] /\ claimed'[o] = claimed[o]
      BY <1>1, <1>2, <3>1 DEF TypeOK, Stage
    <3>3. QED
      BY <1>2, <3>2, PhaseStep
  <2>4. QED
    BY <2>2, <2>3
<1>6. Digest!Revert(rows, FALSE)
  BY <1>1, <1>3, <1>4, <1>5 DEF Digest!Revert, PhaseOf
<1>7. QED
  BY <1>2, <1>6 DEF Digest!Next

\* The second write gives up the rows left, all of them out of attempts.
LEMMA GiveUpReverts ==
    ASSUME IInv, IInv', NEW r \in Runs, GiveUpRows(r)
    PROVE  Digest!Next
<1> DEFINE rows == claimed[r]
<1> USE AttemptsAssumption DEF IInv
<1>1. pc[r] = "giveup" /\ shown' = shown /\ Over(r) /\ TypeOK
  BY DEF GiveUpRows
<1>2. rows \in SUBSET Keys
  BY DEF TypeOK
<1>3. ToFail(r) = rows /\ \A k \in rows : tries[r][k] = attempts[k]
  BY <1>1 DEF HoldInv, Held, ToFail
<1>4. /\ status' = Digest!Set(status, rows, "FAILED")
      /\ attempts' = Digest!Count(attempts, rows)
  BY <1>3 DEF GiveUpRows, WithStatus, OneMore, Digest!Set, Digest!Count
<1>5. \A k \in rows : PhaseOf[k] = "failed"
  BY <1>1, PhaseOfRows DEF Stage
<1>6. \A k \in rows : attempts[k] + 1 >= MaxAttempts
  BY <1>3 DEF ToFail
<1>7. PhaseOf' = Digest!Set(PhaseOf, rows, "free")
  BY <1>1, PhaseOver
<1>8. Digest!Revert(rows, TRUE)
  BY <1>1, <1>4, <1>5, <1>6, <1>7 DEF Digest!Revert, PhaseOf
<1>9. QED
  BY <1>2, <1>8 DEF Digest!Next

\* A process that is cut loses its rows.
LEMMA CutLoses ==
    ASSUME IInv, IInv', NEW r \in Runs, Cut(r)
    PROVE  Digest!Next
<1> DEFINE rows == claimed[r]
<1> USE DEF IInv
<1>1. pc[r] # "idle" /\ Over(r) /\ UNCHANGED <<status, attempts, shown>>
  BY DEF Cut, rowVars
<1>2. rows \in SUBSET Keys
  BY DEF TypeOK
<1>3. \A k \in rows : PhaseOf[k] # "free"
  <2>1. pc[r] \in {"claim", "settle", "revert", "giveup"}
    BY <1>1 DEF TypeOK, PcValue
  <2>2. Stage(pc[r]) # "free"
    BY <2>1 DEF Stage
  <2>3. QED
    BY <2>2, PhaseOfRows
<1>4. PhaseOf' = Digest!Set(PhaseOf, rows, "free")
  BY <1>1, PhaseOver
<1>5. Digest!Lose(rows)
  BY <1>1, <1>3, <1>4 DEF Digest!Lose, PhaseOf
<1>6. QED
  BY <1>2, <1>5 DEF Digest!Next

\* Every step of the processes is a step of the rows, or changes none.
LEMMA StepImplements == IInv /\ IInv' /\ [Next]_vars => [Digest!Next]_Digest!vars
<1> SUFFICES ASSUME IInv, IInv', [Next]_vars PROVE [Digest!Next]_Digest!vars
  OBVIOUS
<1>1. CASE \/ NextDay
           \/ \E s \in Syncs : FetchIssues(s)
           \/ \E s \in Syncs, i \in Issues : UpsertIssue(s, i) \/ UpsertFails(s, i)
  BY <1>1, SyncDigest
<1>2. ASSUME NEW r \in Runs, Advance(r) PROVE [Digest!Next]_Digest!vars
  BY <1>2, ClaimDigest, SendDelivers, MarkSettles, RetryReverts, GiveUpReverts DEF Advance
<1>3. ASSUME NEW r \in Runs, MarkFails(r) PROVE [Digest!Next]_Digest!vars
  BY <1>3, MarkSettles
<1>4. ASSUME NEW r \in Runs, Cut(r) PROVE [Digest!Next]_Digest!vars
  BY <1>4, CutLoses
<1>5. CASE UNCHANGED vars
  BY <1>5, PhaseKept DEF vars, rowVars, runVars, Digest!vars, PhaseOf
<1>6. QED
  BY <1>1, <1>2, <1>3, <1>4, <1>5 DEF Next

\* The processes implement the rows of JiraDigestSpec: however many producers and
\* digests overlap, and wherever they are cut, a row is delivered by one digest at
\* a time, is settled or sent back by the digest that held it, and counts each of
\* its failures once (envoyerNotifications).
THEOREM DigestImplemented == Spec => ImplementsDigest
<1>1. Init => Digest!Init
  BY DEF Init, Digest!Init, RowPhase, HeldAt
<1>2. QED
  BY <1>1, Invariance, StepImplements, PTL DEF Spec, ImplementsDigest, Digest!Spec

==============================================================================
