--------------------------- MODULE DocGate_proofs ---------------------------
(***************************************************************************)
(* Theorems about the documentary gates under concurrent calls (DocGate),  *)
(* for any number of calls.  Type correctness holds whatever the calls.    *)
(* The others suppose that one call at most is the end of the repair: the  *)
(* write of changeStatusTofinsh is not filtered on the status, and a       *)
(* second one can take a FINISHED DI back to WAITING_BL.                   *)
(***************************************************************************)
EXTENDS DocGate, TLAPS

----------------------------------------------------------------------------
(* The gates.                                                              *)

\* How far a status is along its chain of gates.
Rank(s) ==
    CASE s \in {"WAITING_BC", "WAITING_FACTURE"} -> 1
      [] s \in {"FINISHED", Exit} -> 2
      [] OTHER -> 0

\* A gate that opens leads one step further along its chain, and only the gate of
\* the invoice leads to FINISHED.
LEMMA GateFacts ==
    ASSUME NEW s \in Waiting
    PROVE  /\ After(s) \in GateStatus \ {s, "INREPARATION"}
           /\ Rank(After(s)) = Rank(s) + 1
           /\ After(s) \notin Waiting => After(s) \in {"FINISHED", Exit}
           /\ s \notin {"FINISHED", "INREPARATION", Exit}
  BY ExitAssumption DEF Waiting, After, Rank, GateStatus

\* A rank is small: no call comes near the bound of the loop.
LEMMA RankBound == ASSUME NEW s PROVE Rank(s) \in 0..2
  BY DEF Rank

----------------------------------------------------------------------------
(* Type correctness.                                                       *)

\* What the types need: a call claims only a gate, and before the bound.
TypeInv ==
    /\ TypeOK
    /\ \A c \in Calls : pc[c] = "filing" => doc[c] \in Docs
    /\ \A c \in Calls : pc[c] = "claiming" => seen[c] \in Waiting /\ hops[c] < MaxHops

\* The initial states have the right types.
LEMMA InitTypeInv == Init => TypeInv
  BY DEF Init, TypeInv, TypeOK, GateStatus, PcValue, MaxHops

\* Every step keeps the types.
LEMMA StepTypeInv == TypeInv /\ [Next]_vars => TypeInv'
<1> SUFFICES ASSUME TypeInv, [Next]_vars PROVE TypeInv'
  OBVIOUS
<1> USE DEF TypeInv, TypeOK, Goto
<1>1. ASSUME NEW c \in Calls, NEW d \in Docs, StartUpload(c, d) PROVE TypeInv'
  BY <1>1 DEF StartUpload, PcValue
<1>2. ASSUME NEW c \in Calls, StartFinish(c) PROVE TypeInv'
  BY <1>2 DEF StartFinish, PcValue
<1>3. ASSUME NEW c \in Calls, FileDoc(c) PROVE TypeInv'
  BY <1>3 DEF FileDoc, PcValue
<1>4. ASSUME NEW c \in Calls, AssertFinish(c) PROVE TypeInv'
  BY <1>4 DEF AssertFinish, PcValue
<1>5. ASSUME NEW c \in Calls, MoveFinish(c) PROVE TypeInv'
  BY <1>5 DEF MoveFinish, PcValue, GateStatus, Waiting
<1>6. ASSUME NEW c \in Calls, ReadDi(c) PROVE TypeInv'
  BY <1>6 DEF ReadDi, PcValue, Opens
<1>7. ASSUME NEW c \in Calls, ClaimGate(c) PROVE TypeInv'
  <2>1. CASE status = seen[c]
    <3>1. seen[c] \in Waiting /\ hops[c] < MaxHops
      BY <1>7 DEF ClaimGate
    <3>2. After(status) \in GateStatus
      BY <2>1, <3>1, GateFacts
    <3>3. hops[c] + 1 \in 0..MaxHops
      BY <3>1 DEF MaxHops
    <3>4. QED
      BY <1>7, <2>1, <3>2, <3>3 DEF ClaimGate, PcValue
  <2>2. CASE status # seen[c]
    BY <1>7, <2>2 DEF ClaimGate, PcValue
  <2>3. QED
    BY <2>1, <2>2
<1>8. ASSUME NEW c \in Calls, SyncStat(c) PROVE TypeInv'
  BY <1>8 DEF SyncStat, PcValue
<1>9. ASSUME NEW c \in Calls, AnnounceEnd(c) PROVE TypeInv'
  BY <1>9 DEF AnnounceEnd, PcValue
<1>10. ASSUME NEW c \in Calls, Crash(c) PROVE TypeInv'
  BY <1>10 DEF Crash, PcValue
<1>11. CASE UNCHANGED vars
  BY <1>11 DEF vars
<1>12. QED
  BY <1>1, <1>2, <1>3, <1>4, <1>5, <1>6, <1>7, <1>8, <1>9, <1>10, <1>11
     DEF Next, Run

\* The state keeps its types, and no loop passes its bound, whatever the calls.
THEOREM TypeCorrect == Spec => []TypeOK
<1>1. TypeInv => TypeOK
  BY DEF TypeInv
<1>2. QED
  BY <1>1, InitTypeInv, StepTypeInv, PTL DEF Spec

----------------------------------------------------------------------------
(* One winner, no lost wake-up.                                            *)

\* One call at most is the end of the repair.
SingleEnder == \A a, b \in Enders : a = b

\* Call c took the DI to FINISHED and lives to announce it, or has announced it.
Closing(c) ==
    \/ pc[c] = "syncing" /\ seen[c] = "FINISHED"
    \/ pc[c] = "announcing"
    \/ c \in announced

\* Call c will try the gate the DI waits at, or was cut before it could.
Attends(c) ==
    \/ pc[c] \in {"reading", "crashed"}
    \/ pc[c] = "claiming" /\ seen[c] = status
    \/ pc[c] = "syncing" /\ seen[c] \notin {"FINISHED", Exit}

\* The end of the repair writes only while the DI is in repair.
EnderInv == \A c \in Calls :
    pc[c] \in {"asserting", "moving"} => c \in Enders /\ status = "INREPARATION"

\* A call claims a gate whose document is there.
ClaimInv == \A c \in Calls : pc[c] = "claiming" => Opens(seen[c], driveDocs)

\* The one call that closes does it on a FINISHED DI.
ClosingInv ==
    /\ \A c \in Calls : Closing(c) => status = "FINISHED"
    /\ \A a, b \in Calls : Closing(a) /\ Closing(b) => a = b

\* A call crosses at most the gates the DI has crossed.
HopsInv == \A c \in Calls : hops[c] <= Rank(status)

\* Someone attends an open gate.
WakeInv == Opens(status, driveDocs) => \E c \in Calls : Attends(c)

IInv == SingleEnder /\ TypeInv /\ EnderInv /\ ClaimInv /\ ClosingInv /\ HopsInv /\ WakeInv

\* The initial states satisfy the invariant: no call runs.
LEMMA InitInv == SingleEnder /\ Init => IInv
<1> SUFFICES ASSUME SingleEnder, Init PROVE IInv
  OBVIOUS
<1>1. TypeInv
  BY InitTypeInv
<1>2. EnderInv /\ ClaimInv /\ WakeInv
  BY DEF Init, EnderInv, ClaimInv, WakeInv
<1>3. ClosingInv
  BY DEF Init, ClosingInv, Closing
<1>4. HopsInv
  <2>1. Rank(status) \in 0..2
    BY RankBound
  <2>2. QED
    <3>1. \A c \in Calls : hops[c] = 0
      BY DEF Init
    <3>2. 0 <= Rank(status)
      BY <2>1
    <3>3. QED
      BY <3>1, <3>2 DEF HopsInv
<1>5. QED
  BY <1>1, <1>2, <1>3, <1>4 DEF IInv

\* The starts of a call and its crash write nothing on the DI.
LEMMA CallInv ==
    ASSUME IInv, NEW c \in Calls,
           (\E d \in Docs : StartUpload(c, d)) \/ StartFinish(c) \/ Crash(c)
    PROVE  EnderInv' /\ ClaimInv' /\ ClosingInv' /\ HopsInv' /\ WakeInv'
<1> USE DEF IInv, TypeInv, TypeOK, Goto
<1>1. /\ UNCHANGED <<status, driveDocs, announced, seen, hops>>
      /\ pc' = [pc EXCEPT ![c] = pc'[c]]
      /\ pc'[c] \in {"done", "filing", "asserting", "crashed"}
  BY DEF StartUpload, StartFinish, Crash
<1>2. EnderInv'
  <2>1. pc'[c] = "asserting" => c \in Enders /\ status = "INREPARATION"
    BY DEF StartUpload, StartFinish, Crash
  <2>2. QED
    BY <1>1, <2>1 DEF EnderInv
<1>3. ClaimInv'
  BY <1>1 DEF ClaimInv, Opens
<1>4. \A a \in Calls : Closing(a)' => Closing(a)
  BY <1>1 DEF Closing
<1>5. ClosingInv'
  BY <1>1, <1>4 DEF ClosingInv
<1>6. HopsInv'
  BY <1>1 DEF HopsInv, Rank
<1>7. WakeInv'
  <2>1. ASSUME NEW a \in Calls, Attends(a) PROVE Attends(a)'
    <3>1. CASE a = c
      BY <1>1, <2>1, <3>1 DEF Attends, StartUpload, StartFinish, Crash
    <3>2. CASE a # c
      BY <1>1, <2>1, <3>2 DEF Attends
    <3>3. QED
      BY <3>1, <3>2
  <2>2. Opens(status, driveDocs)' => Opens(status, driveDocs)
    BY <1>1 DEF Opens
  <2>3. QED
    BY <2>1, <2>2 DEF WakeInv
<1>8. QED
  BY <1>2, <1>3, <1>5, <1>6, <1>7

\* A document filed may open the gate: its own call attends it.
LEMMA FileDocInv ==
    ASSUME IInv, NEW c \in Calls, FileDoc(c)
    PROVE  EnderInv' /\ ClaimInv' /\ ClosingInv' /\ HopsInv' /\ WakeInv'
<1> USE DEF IInv, TypeInv, TypeOK, Goto, FileDoc
<1>1. EnderInv'
  BY DEF EnderInv
<1>2. ClaimInv'
  BY DEF ClaimInv, Opens
<1>3. \A a \in Calls : Closing(a)' => Closing(a)
  BY DEF Closing
<1>4. ClosingInv'
  BY <1>3 DEF ClosingInv
<1>5. HopsInv'
  BY DEF HopsInv, Rank
<1>6. WakeInv'
  <2>1. Attends(c)'
    BY DEF Attends
  <2>2. QED
    BY <2>1 DEF WakeInv
<1>7. QED
  BY <1>1, <1>2, <1>4, <1>5, <1>6

\* A second read of the status, before the write.
LEMMA AssertFinishInv ==
    ASSUME IInv, NEW c \in Calls, AssertFinish(c)
    PROVE  EnderInv' /\ ClaimInv' /\ ClosingInv' /\ HopsInv' /\ WakeInv'
<1> USE DEF IInv, TypeInv, TypeOK, Goto, AssertFinish
<1>1. EnderInv'
  BY DEF EnderInv
<1>2. ClaimInv'
  BY DEF ClaimInv, Opens
<1>3. \A a \in Calls : Closing(a)' => Closing(a)
  BY DEF Closing
<1>4. ClosingInv'
  BY <1>3 DEF ClosingInv
<1>5. HopsInv'
  BY DEF HopsInv, Rank
<1>6. WakeInv'
  BY DEF WakeInv, Opens, EnderInv, Waiting
<1>7. QED
  BY <1>1, <1>2, <1>4, <1>5, <1>6

\* The unfiltered write finds the DI in repair: no other call is the end of it.
LEMMA MoveFinishInv ==
    ASSUME IInv, NEW c \in Calls, MoveFinish(c)
    PROVE  EnderInv' /\ ClaimInv' /\ ClosingInv' /\ HopsInv' /\ WakeInv'
<1> USE DEF IInv, TypeInv, TypeOK, Goto, MoveFinish
<1>1. c \in Enders /\ status = "INREPARATION"
  BY DEF EnderInv
<1>2. EnderInv'
  BY <1>1 DEF EnderInv, SingleEnder
<1>3. ClaimInv'
  BY DEF ClaimInv, Opens
<1>4. \A a \in Calls : ~Closing(a)
  BY <1>1 DEF ClosingInv
<1>5. \A a \in Calls : Closing(a)' => Closing(a)
  BY DEF Closing
<1>6. ClosingInv'
  BY <1>4, <1>5 DEF ClosingInv
<1>7. Rank("INREPARATION") = 0 /\ Rank("WAITING_BL") = 0
  BY ExitAssumption DEF Rank
<1>8. HopsInv'
  BY <1>1, <1>7 DEF HopsInv
<1>9. Attends(c)'
  BY ExitAssumption DEF Attends
<1>10. WakeInv'
  BY <1>9 DEF WakeInv
<1>11. QED
  BY <1>2, <1>3, <1>6, <1>8, <1>10

\* The loop turns on an open gate, and stops on a closed one only.
LEMMA ReadDiInv ==
    ASSUME IInv, NEW c \in Calls, ReadDi(c)
    PROVE  EnderInv' /\ ClaimInv' /\ ClosingInv' /\ HopsInv' /\ WakeInv'
<1> USE DEF IInv, TypeInv, TypeOK, Goto, ReadDi
<1>1. EnderInv'
  BY DEF EnderInv
<1>2. ClaimInv'
  BY DEF ClaimInv, Opens
<1>3. \A a \in Calls : Closing(a)' => Closing(a)
  BY DEF Closing
<1>4. ClosingInv'
  BY <1>3 DEF ClosingInv
<1>5. HopsInv'
  BY DEF HopsInv, Rank
<1>6. hops[c] < MaxHops
  BY RankBound DEF HopsInv, MaxHops
<1>7. WakeInv'
  <2>1. CASE Opens(status, driveDocs)
    <3>1. Attends(c)'
      BY <1>6, <2>1 DEF Attends
    <3>2. QED
      BY <3>1 DEF WakeInv
  <2>2. CASE ~Opens(status, driveDocs)
    BY <2>2 DEF WakeInv, Opens
  <2>3. QED
    BY <2>1, <2>2
<1>8. QED
  BY <1>1, <1>2, <1>4, <1>5, <1>7

\* The winner of a gate is alone, and attends the next one; the loser leaves it
\* to the call whose write changed the status.
LEMMA ClaimGateInv ==
    ASSUME IInv, NEW c \in Calls, ClaimGate(c)
    PROVE  EnderInv' /\ ClaimInv' /\ ClosingInv' /\ HopsInv' /\ WakeInv'
<1> USE DEF IInv, TypeInv, TypeOK, Goto, ClaimGate
<1>1. CASE status = seen[c]
  <2> DEFINE s == status
  <2>1. s \in Waiting
    BY <1>1
  <2>2. /\ status' = After(s)
        /\ seen' = [seen EXCEPT ![c] = After(s)]
        /\ pc' = [pc EXCEPT ![c] = "syncing"]
        /\ hops' = [hops EXCEPT ![c] = @ + 1]
        /\ UNCHANGED <<driveDocs, announced>>
    BY <1>1
  <2>3. s \notin {"FINISHED", "INREPARATION", Exit} /\ Rank(After(s)) = Rank(s) + 1
    BY <2>1, GateFacts
  <2>4. EnderInv'
    BY <2>2, <2>3 DEF EnderInv
  <2>5. ClaimInv'
    BY <2>2 DEF ClaimInv, Opens
  <2>6. \A a \in Calls : ~Closing(a)
    BY <2>3 DEF ClosingInv
  <2>7. \A a \in Calls : Closing(a)' => a = c /\ After(s) = "FINISHED"
    BY <2>2, <2>6 DEF Closing
  <2>8. ClosingInv'
    BY <2>2, <2>7 DEF ClosingInv
  <2>9. HopsInv'
    <3>1. ASSUME NEW a \in Calls PROVE hops'[a] <= Rank(s) + 1
      <4>1. hops[a] <= Rank(s) /\ hops[a] \in 0..MaxHops /\ Rank(s) \in 0..2
        BY RankBound DEF HopsInv
      <4>2. hops'[a] = hops[a] \/ hops'[a] = hops[a] + 1
        BY <2>2
      <4>3. QED
        BY <4>1, <4>2 DEF MaxHops
    <3>2. QED
      BY <2>2, <2>3, <3>1 DEF HopsInv
  <2>10. WakeInv'
    <3>1. CASE After(s) \in {"FINISHED", Exit}
      <4>1. After(s) \notin Waiting
        BY <3>1, ExitAssumption DEF Waiting
      <4>2. QED
        BY <2>2, <4>1 DEF WakeInv, Opens
    <3>2. CASE After(s) \notin {"FINISHED", Exit}
      <4>1. Attends(c)'
        BY <2>2, <3>2 DEF Attends
      <4>2. QED
        BY <4>1 DEF WakeInv
    <3>3. QED
      BY <3>1, <3>2
  <2>11. QED
    BY <2>4, <2>5, <2>8, <2>9, <2>10
<1>2. CASE status # seen[c]
  <2>1. /\ pc' = [pc EXCEPT ![c] = "done"]
        /\ UNCHANGED <<status, driveDocs, announced, seen, hops>>
    BY <1>2
  <2>2. EnderInv' /\ ClaimInv'
    BY <2>1 DEF EnderInv, ClaimInv, Opens
  <2>3. \A a \in Calls : Closing(a)' => Closing(a)
    BY <2>1 DEF Closing
  <2>4. ClosingInv' /\ HopsInv'
    BY <2>1, <2>3 DEF ClosingInv, HopsInv, Rank
  <2>5. ASSUME NEW a \in Calls, Attends(a) PROVE Attends(a)'
    BY <1>2, <2>1, <2>5 DEF Attends
  <2>6. WakeInv'
    BY <2>1, <2>5 DEF WakeInv, Opens
  <2>7. QED
    BY <2>2, <2>4, <2>6
<1>3. QED
  BY <1>1, <1>2

\* The Stat row is written: the winner goes on to the announcement or the next
\* gate, and stops only where no gate is left.
LEMMA SyncStatInv ==
    ASSUME IInv, NEW c \in Calls, SyncStat(c)
    PROVE  EnderInv' /\ ClaimInv' /\ ClosingInv' /\ HopsInv' /\ WakeInv'
<1> USE DEF IInv, TypeInv, TypeOK, Goto
<1>1. /\ pc[c] = "syncing"
      /\ pc' = [pc EXCEPT ![c] = pc'[c]]
      /\ UNCHANGED <<status, driveDocs, announced, seen, hops>>
  BY DEF SyncStat
<1>2. CASE seen[c] = "FINISHED"
  <2>1. pc'[c] = "announcing"
    BY <1>1, <1>2, ExitAssumption DEF SyncStat
  <2>2. EnderInv' /\ ClaimInv'
    BY <1>1, <2>1 DEF EnderInv, ClaimInv, Opens
  <2>3. \A a \in Calls : Closing(a)' => Closing(a)
    BY <1>1, <1>2, <2>1 DEF Closing
  <2>4. ClosingInv' /\ HopsInv'
    BY <1>1, <2>3 DEF ClosingInv, HopsInv, Rank
  <2>5. \A a \in Calls : Attends(a) => Attends(a)'
    BY <1>1, <1>2, <2>1 DEF Attends
  <2>6. QED
    BY <1>1, <2>2, <2>4, <2>5 DEF WakeInv, Opens
<1>3. CASE seen[c] = Exit
  <2>1. pc'[c] = "done"
    BY <1>3, ExitAssumption DEF SyncStat
  <2>2. EnderInv' /\ ClaimInv'
    BY <1>1, <2>1 DEF EnderInv, ClaimInv, Opens
  <2>3. \A a \in Calls : Closing(a)' => Closing(a)
    BY <1>1, <2>1 DEF Closing
  <2>4. ClosingInv' /\ HopsInv'
    BY <1>1, <2>3 DEF ClosingInv, HopsInv, Rank
  <2>5. \A a \in Calls : Attends(a) => Attends(a)'
    BY <1>1, <1>3, <2>1 DEF Attends
  <2>6. QED
    BY <1>1, <2>2, <2>4, <2>5 DEF WakeInv, Opens
<1>4. CASE seen[c] \notin {"FINISHED", Exit}
  <2>1. pc'[c] = "reading"
    BY <1>4 DEF SyncStat
  <2>2. EnderInv' /\ ClaimInv'
    BY <1>1, <2>1 DEF EnderInv, ClaimInv, Opens
  <2>3. \A a \in Calls : Closing(a)' => Closing(a)
    BY <1>1, <2>1 DEF Closing
  <2>4. ClosingInv' /\ HopsInv'
    BY <1>1, <2>3 DEF ClosingInv, HopsInv, Rank
  <2>5. Attends(c)'
    BY <2>1 DEF Attends
  <2>6. QED
    BY <2>2, <2>4, <2>5 DEF WakeInv
<1>5. QED
  BY <1>2, <1>3, <1>4

\* The announcement is made by the call that took the DI to FINISHED.
LEMMA AnnounceEndInv ==
    ASSUME IInv, NEW c \in Calls, AnnounceEnd(c)
    PROVE  EnderInv' /\ ClaimInv' /\ ClosingInv' /\ HopsInv' /\ WakeInv'
<1> USE DEF IInv, TypeInv, TypeOK, Goto, AnnounceEnd
<1>1. EnderInv' /\ ClaimInv'
  BY DEF EnderInv, ClaimInv, Opens
<1>2. \A a \in Calls : Closing(a)' => Closing(a)
  BY DEF Closing
<1>3. ClosingInv' /\ HopsInv'
  BY <1>2 DEF ClosingInv, HopsInv, Rank
<1>4. \A a \in Calls : Attends(a) => Attends(a)'
  BY DEF Attends
<1>5. QED
  BY <1>1, <1>3, <1>4 DEF WakeInv, Opens

\* Every step preserves the invariant.
LEMMA StepInv == IInv /\ [Next]_vars => IInv'
<1> SUFFICES ASSUME IInv, [Next]_vars PROVE IInv'
  OBVIOUS
<1>1. TypeInv'
  BY StepTypeInv DEF IInv
<1>2. EnderInv' /\ ClaimInv' /\ ClosingInv' /\ HopsInv' /\ WakeInv'
  <2>1. CASE UNCHANGED vars
    BY <2>1 DEF vars, IInv, EnderInv, ClaimInv, ClosingInv, Closing, HopsInv, Rank,
       WakeInv, Opens, Attends
  <2>2. CASE Next
    BY <2>2, CallInv, FileDocInv, AssertFinishInv, MoveFinishInv, ReadDiInv,
       ClaimGateInv, SyncStatInv, AnnounceEndInv DEF Next, Run
  <2>3. QED
    BY <2>1, <2>2
<1>3. SingleEnder'
  BY DEF IInv, SingleEnder
<1>4. QED
  BY <1>1, <1>2, <1>3 DEF IInv

\* The invariant holds in every state, whatever the number of uploads.
LEMMA Invariance == SingleEnder => (Spec => []IInv)
  BY InitInv, StepInv, PTL DEF Spec

\* One winner: however many uploads race, the end of the affair is announced by
\* one call at most.
THEOREM OneAnnouncement == SingleEnder => (Spec => []AnnouncedOnce)
<1>1. IInv => AnnouncedOnce
  BY DEF IInv, TypeInv, TypeOK, AnnouncedOnce, ClosingInv, Closing
<1>2. QED
  BY <1>1, Invariance, PTL

\* No lost wake-up: when no call runs and none was cut, no gate stands open.
THEOREM NoLostWakeUp == SingleEnder => (Spec => []NoOpenGateAtRest)
<1>1. IInv => NoOpenGateAtRest
  BY DEF IInv, TypeInv, TypeOK, NoOpenGateAtRest, WakeInv, Attends, Resting
<1>2. QED
  BY <1>1, Invariance, PTL

\* A step on the gates is a step of DocGateSpec, and every other step a stutter.
LEMMA StepImplements == IInv /\ [Next]_vars => [Promise!Next]_Promise!vars
<1> SUFFICES ASSUME IInv, [Next]_vars PROVE [Promise!Next]_Promise!vars
  OBVIOUS
<1> USE DEF IInv, TypeInv, TypeOK
<1>1. ASSUME NEW c \in Calls, FileDoc(c) PROVE Promise!Next
  <2>1. doc[c] \in Promise!Docs
    BY <1>1 DEF FileDoc, Docs, Promise!Docs
  <2>2. Promise!File(doc[c])
    BY <1>1 DEF FileDoc, Promise!File
  <2>3. QED
    BY <2>1, <2>2 DEF Promise!Next
<1>2. ASSUME NEW c \in Calls, MoveFinish(c) PROVE Promise!Next
  <2>1. Promise!Repaired
    BY <1>2 DEF MoveFinish, EnderInv, Promise!Repaired
  <2>2. QED
    BY <2>1 DEF Promise!Next
<1>3. ASSUME NEW c \in Calls, ClaimGate(c), status = seen[c] PROVE Promise!Next
  <2>1. status \in Waiting /\ Awaited(status) \subseteq driveDocs
    BY <1>3 DEF ClaimGate, ClaimInv, Opens
  <2>2. status' = After(status) /\ UNCHANGED <<driveDocs, announced>>
    BY <1>3 DEF ClaimGate
  <2>3. PICK d \in Docs : d \in driveDocs /\ <<status, d, After(status)>> \in Promise!Gates
    BY <2>1 DEF Waiting, Awaited, After, Docs, Promise!Gates
  <2>4. Promise!Advance(<<status, d, After(status)>>)
    BY <2>2, <2>3 DEF Promise!Advance
  <2>5. QED
    BY <2>3, <2>4 DEF Promise!Next
<1>4. ASSUME NEW c \in Calls, ClaimGate(c), status # seen[c]
      PROVE  UNCHANGED <<status, driveDocs, announced>>
  BY <1>4 DEF ClaimGate
<1>5. ASSUME NEW c \in Calls, AnnounceEnd(c)
      PROVE  Promise!Next \/ UNCHANGED <<status, driveDocs, announced>>
  <2>1. Closing(c) /\ \A a \in announced : Closing(a)
    BY <1>5 DEF AnnounceEnd, Closing
  <2>2. status = "FINISHED" /\ announced \subseteq {c}
    BY <2>1 DEF ClosingInv
  <2>3. CASE announced = {}
    <3>1. Promise!Announce
      BY <1>5, <2>2, <2>3 DEF AnnounceEnd, Promise!Announce
    <3>2. QED
      BY <3>1 DEF Promise!Next
  <2>4. CASE announced = {c}
    BY <1>5, <2>4 DEF AnnounceEnd
  <2>5. QED
    BY <2>2, <2>3, <2>4
<1>6. ASSUME NEW c \in Calls,
             \/ \E d \in Docs : StartUpload(c, d)
             \/ StartFinish(c) \/ AssertFinish(c) \/ ReadDi(c) \/ SyncStat(c) \/ Crash(c)
      PROVE  UNCHANGED <<status, driveDocs, announced>>
  BY <1>6 DEF StartUpload, StartFinish, AssertFinish, ReadDi, SyncStat, Crash
<1>7. CASE UNCHANGED vars
  BY <1>7 DEF vars, Promise!vars
<1>8. QED
  BY <1>1, <1>2, <1>3, <1>4, <1>5, <1>6, <1>7 DEF Next, Run, Promise!vars

\* The concurrent calls implement the gates of DocGateSpec: whatever their
\* interleaving, and wherever a process stops, the DI passes one gate at a time,
\* with its document on file, and is announced once, when it is FINISHED.
THEOREM GatesImplemented == SingleEnder => (Spec => ImplementsGates)
<1>1. Init => Promise!Init
  <2> SUFFICES ASSUME Init PROVE Promise!Init
    OBVIOUS
  <2>1. \A gate \in Promise!Gates : gate[1] = status => gate[2] \notin driveDocs
    BY DEF Init, Opens, Waiting, Awaited, Promise!Gates
  <2>2. QED
    BY <2>1 DEF Init, Waiting, Docs, Promise!Init, Promise!Docs
<1>2. QED
  BY <1>1, Invariance, StepImplements, PTL DEF Spec, ImplementsGates, Promise!Spec

============================================================================
