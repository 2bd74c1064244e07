----------------------- MODULE DashboardParts_proofs -----------------------
(* Proofs about what the dashboard works with.                             *)
(* ExportJobs: what the position of a job's goroutine says of its job and  *)
(* its files; outcomes and limits.                                         *)
(* DetailViews: a range sums every request that counts and has not         *)
(* expired, once, at today's prices, whatever happened to the details      *)
(* since an aggregate of a block or a summary was kept.  The order is      *)
(* bottom up: sequences and sums; what each operation on the details does  *)
(* to the rows, the archive and the blocks; queries; the steps.            *)
EXTENDS ExportJobs, DetailViews, Inductions, FiniteSetTheorems, SequenceTheorems

-----------------------------------------------------------------------------
(* Export jobs: type correctness.                                          *)

LEMMA InitType == Init => TypeOK
<1> SUFFICES ASSUME Init PROVE TypeOK
  OBVIOUS
<1>1. faults \in 0..MaxFaults /\ holds \in 0..MaxHolds
  BY BoundsAssumption DEF Init
<1> QED BY <1>1 DEF Init, TypeOK

LEMMA DroppedIsGone ==
    ASSUME NEW gone \in SUBSET Jobs, NEW now, NEW j \in Jobs
    PROVE  Dropped(gone, now)[j] = IF j \in gone THEN "gone" ELSE now[j]
  BY DEF Dropped

LEMMA CallType ==
    ASSUME TypeOK, NEW j \in Jobs, Create(j) \/ Delete(j) \/ Expire(j)
    PROVE  TypeOK'
<1>1. Stale \subseteq Jobs /\ Present \subseteq Jobs
  BY DEF Stale, Finished, Present, Pending
<1>2. CASE Create(j)
  BY <1>1, <1>2 DEF Create, TypeOK, Dropped, RemoveFiles, Goto, lock
<1>3. CASE Delete(j)
  BY <1>1, <1>3 DEF Delete, TypeOK, Dropped, RemoveFiles, lock
<1>4. CASE Expire(j)
  BY <1>4 DEF Expire, TypeOK, Finished, lock
<1> QED BY <1>2, <1>3, <1>4

LEMMA RunType ==
    ASSUME TypeOK, StageInvariant, NEW j \in Jobs, Run(j)
    PROVE  TypeOK'
<1> USE DEF TypeOK, Goto, Fault, lock
<1>1. CASE Start(j) BY <1>1 DEF Start, StageInvariant, StageConsistent, Present,
  Finished, Pending
<1>2. CASE Check(j) BY <1>2 DEF Check
<1>3. CASE Open(j) BY <1>3 DEF Open
<1>4. CASE Capture(j) BY <1>4 DEF Capture
<1>5. CASE Encode(j) BY <1>5 DEF Encode
<1>6. CASE Hash(j) BY <1>6 DEF Hash
<1>7. CASE Breaks(j) BY <1>7, BoundsAssumption DEF Breaks
<1>8. CASE Fail(j) BY <1>8 DEF Fail
<1>9. CASE Abandon(j) BY <1>9 DEF Abandon
<1>10. CASE RenameFails(j) BY <1>10, BoundsAssumption DEF RenameFails
<1>11. CASE Publish(j) BY <1>11 DEF Publish
<1>12. CASE Summarise(j) BY <1>12 DEF Summarise
<1>13. CASE Cleanup(j) BY <1>13 DEF Cleanup, RemoveFiles
<1>14. CASE Leave(j) BY <1>14 DEF Leave
<1> QED BY <1>1, <1>2, <1>3, <1>4, <1>5, <1>6, <1>7, <1>8, <1>9, <1>10, <1>11,
       <1>12, <1>13, <1>14 DEF Run

LEMMA StepType == TypeOK /\ StageInvariant /\ [Next]_vars => TypeOK'
<1> SUFFICES ASSUME TypeOK, StageInvariant, [Next]_vars PROVE TypeOK'
  OBVIOUS
<1>1. CASE List
  BY <1>1 DEF List, TypeOK, Dropped, RemoveFiles, Stale, Finished, lock
<1>2. CASE BeginClose
  <2>1. Present \subseteq Jobs
    BY DEF Present, Finished, Pending
  <2>2. status' = [j \in Jobs |-> IF j \in Present THEN "gone" ELSE status[j]]
    BY <1>2 DEF BeginClose, Dropped
  <2>3. expired' \subseteq {j \in Jobs : status'[j] \notin {"unused", "queued", "running"}}
    BY <1>2, <2>2 DEF BeginClose, TypeOK
  <2>4. status' \in [Jobs -> {"unused", "queued", "running", "succeeded", "failed", "gone"}]
    BY <2>2 DEF TypeOK
  <2> QED BY <1>2, <2>1, <2>3, <2>4 DEF BeginClose, TypeOK, RemoveFiles, lock
<1>3. CASE Closed \/ Restart
  BY <1>3 DEF Closed, Restart, TypeOK, lock
<1>4. CASE Hold \/ LetGo
  <2>1. held' \in BOOLEAN
    BY <1>4 DEF Hold, LetGo
  <2>2. holds' \in 0..MaxHolds
    BY <1>4, BoundsAssumption DEF Hold, LetGo, TypeOK
  <2>3. UNCHANGED <<status, expired, cancelled, pc, tmp, final, closing, faults>>
    BY <1>4 DEF Hold, LetGo
  <2> QED BY <2>1, <2>2, <2>3 DEF TypeOK
<1>5. CASE UNCHANGED vars
  BY <1>5 DEF vars, TypeOK
<1> QED BY <1>1, <1>2, <1>3, <1>4, <1>5, CallType, RunType DEF Next

-----------------------------------------------------------------------------
(* The goroutine, the status and the files of a job agree.                 *)

LEMMA InitStage == Init => StageInvariant
  BY DEF Init, StageInvariant, StageConsistent, Present, Finished, Pending

(* A step of one goroutine touches no other job. *)
LEMMA RunFrame ==
    ASSUME TypeOK, NEW j \in Jobs, Run(j), NEW k \in Jobs, k # j
    PROVE  /\ pc'[k] = pc[k] /\ status'[k] = status[k]
           /\ k \in tmp' <=> k \in tmp
           /\ k \in final' <=> k \in final
<1>1. pc' = [pc EXCEPT ![j] = pc'[j]]
  BY DEF Run, Start, Check, Open, Capture, Encode, Hash, Breaks, Fail, Abandon,
     RenameFails, Publish, Summarise, Cleanup, Leave, Goto, TypeOK
<1>2. status' = status \/ status' = [status EXCEPT ![j] = status'[j]]
  BY DEF Run, Start, Check, Open, Capture, Encode, Hash, Breaks, Fail, Abandon,
     RenameFails, Publish, Summarise, Cleanup, Leave, TypeOK
<1>3. /\ tmp' \in {tmp, tmp \cup {j}, tmp \ {j}}
      /\ final' \in {final, final \cup {j}, final \ {j}}
  BY DEF Run, Start, Check, Open, Capture, Encode, Hash, Breaks, Fail, Abandon,
     RenameFails, Publish, Summarise, Cleanup, Leave, RemoveFiles
<1> QED BY <1>1, <1>2, <1>3 DEF TypeOK

LEMMA RunStage ==
    ASSUME TypeOK, StageInvariant, NEW j \in Jobs, Run(j), NEW k \in Jobs
    PROVE  StageConsistent(k)'
<1>1. CASE k # j
  <2>1. StageConsistent(k)
    BY DEF StageInvariant
  <2> QED BY <1>1, <2>1, RunFrame DEF StageConsistent
<1>2. CASE k = j
  <2> SUFFICES StageConsistent(j)'
    BY <1>2
  <2>0. StageConsistent(j)
    BY DEF StageInvariant
  <2>a. closing # "open" \/ j \notin Present => status[j] \notin {"running", "queued"}
    BY DEF StageInvariant, Present, Pending
  <2> USE DEF TypeOK, Goto, StageConsistent
  <2>1. CASE Start(j) BY <2>0, <2>a, <2>1 DEF Start
  <2>2. CASE Check(j) BY <2>0, <2>2 DEF Check
  <2>3. CASE Open(j) BY <2>0, <2>3 DEF Open
  <2>4. CASE Capture(j) BY <2>0, <2>4 DEF Capture
  <2>5. CASE Encode(j) BY <2>0, <2>5 DEF Encode
  <2>6. CASE Hash(j) BY <2>0, <2>6 DEF Hash
  <2>7. CASE Breaks(j) BY <2>0, <2>7 DEF Breaks
  <2>8. CASE Fail(j) BY <2>0, <2>a, <2>8 DEF Fail
  <2>9. CASE Abandon(j) BY <2>0, <2>a, <2>9 DEF Abandon
  <2>10. CASE RenameFails(j) BY <2>0, <2>10 DEF RenameFails
  <2>11. CASE Publish(j)
    <3>1. status[j] = "running"
      BY <2>0, <2>11 DEF Publish, Present, Finished, Pending
    <3> QED BY <2>0, <2>11, <3>1 DEF Publish
  <2>12. CASE Summarise(j) BY <2>0, <2>12 DEF Summarise
  <2>13. CASE Cleanup(j) BY <2>0, <2>13 DEF Cleanup, RemoveFiles
  <2>14. CASE Leave(j) BY <2>0, <2>14 DEF Leave
  <2> QED BY <2>1, <2>2, <2>3, <2>4, <2>5, <2>6, <2>7, <2>8, <2>9, <2>10, <2>11,
         <2>12, <2>13, <2>14 DEF Run
<1> QED BY <1>1, <1>2

(* A job that is dropped takes its files along. *)
LEMMA DropStage ==
    ASSUME TypeOK, StageInvariant, MuFree, NEW k \in Present,
           status'[k] = "gone", pc'[k] = pc[k], k \notin tmp', k \notin final'
    PROVE  StageConsistent(k)'
<1>1. k \in Jobs /\ status[k] # "unused"
  BY DEF Present, Finished, Pending
<1>2. StageConsistent(k) /\ pc[k] # "summary"
  BY <1>1 DEF StageInvariant, MuFree
<1> QED BY <1>1, <1>2 DEF StageConsistent

LEMMA KeepStage ==
    ASSUME StageInvariant, NEW k \in Jobs, status'[k] = status[k], pc'[k] = pc[k],
           k \in tmp' <=> k \in tmp, k \in final' <=> k \in final
    PROVE  StageConsistent(k)'
  BY DEF StageInvariant, StageConsistent

LEMMA CallStage ==
    ASSUME TypeOK, StageInvariant, NEW k \in Jobs,
           (\E j \in Jobs : Create(j) \/ Delete(j)) \/ List \/ BeginClose
    PROVE  StageConsistent(k)'
<1>1. Stale \subseteq Present /\ Present \subseteq Jobs
  BY DEF Stale, Present, Finished, Pending
<1>2. ASSUME NEW j \in Jobs, Create(j) PROVE StageConsistent(k)'
  <2>1. CASE k = j
    <3>1. StageConsistent(j) /\ j \notin Stale
      BY <1>2 DEF StageInvariant, Create, Stale, Finished
    <3>2. status'[j] = "queued" /\ pc'[j] = "spawned"
      BY <1>2, <3>1 DEF Create, Dropped, Goto, TypeOK
    <3> QED BY <1>2, <2>1, <3>1, <3>2 DEF Create, StageConsistent, RemoveFiles
  <2>2. CASE k # j /\ k \in Stale
    <3>1. status'[k] = "gone" /\ pc'[k] = pc[k] /\ k \notin tmp' /\ k \notin final'
      BY <1>2, <2>2 DEF Create, Dropped, RemoveFiles, Goto, TypeOK
    <3> QED BY <1>1, <1>2, <2>2, <3>1, DropStage DEF Create
  <2>3. CASE k # j /\ k \notin Stale
    <3>1. /\ status'[k] = status[k] /\ pc'[k] = pc[k]
          /\ k \in tmp' <=> k \in tmp
          /\ k \in final' <=> k \in final
      BY <1>2, <2>3 DEF Create, Dropped, RemoveFiles, Goto, TypeOK
    <3> QED BY <3>1, KeepStage
  <2> QED BY <2>1, <2>2, <2>3
<1>3. ASSUME NEW gone \in SUBSET Present, MuFree, pc' = pc,
             status' = Dropped(gone, status), RemoveFiles(gone)
      PROVE  StageConsistent(k)'
  <2>1. CASE k \in gone
    BY <1>3, <2>1, DropStage DEF Dropped, RemoveFiles
  <2>2. CASE k \notin gone
    BY <1>3, <2>2, KeepStage DEF Dropped, RemoveFiles
  <2> QED BY <2>1, <2>2
<1>4. ASSUME NEW j \in Jobs, Delete(j) PROVE StageConsistent(k)'
  BY <1>3, <1>4 DEF Delete
<1>5. CASE List
  BY <1>1, <1>3, <1>5 DEF List
<1>6. CASE BeginClose
  BY <1>3, <1>6 DEF BeginClose
<1> QED BY <1>2, <1>4, <1>5, <1>6

LEMMA StageStep == TypeOK /\ StageInvariant /\ [Next]_vars => StageInvariant'
<1> SUFFICES ASSUME TypeOK, StageInvariant, [Next]_vars PROVE StageInvariant'
  OBVIOUS
<1>1. ASSUME NEW k \in Jobs PROVE StageConsistent(k)'
  <2>1. ASSUME NEW j \in Jobs, Run(j) PROVE StageConsistent(k)'
    BY <2>1, RunStage
  <2>2. CASE (\E j \in Jobs : Create(j) \/ Delete(j)) \/ List \/ BeginClose
    BY <2>2, CallStage
  <2>3. CASE (\E j \in Jobs : Expire(j)) \/ Closed \/ Restart \/ Hold \/ LetGo \/ UNCHANGED vars
    BY <2>3, KeepStage DEF Expire, Closed, Restart, Hold, LetGo, vars
  <2> QED BY <2>1, <2>2, <2>3 DEF Next
<1>2. ASSUME closing' # "open" PROVE Present' = {}
  <2>1. ASSUME NEW j \in Jobs, Run(j) PROVE status' = status
    <3>1. closing # "open" /\ Present = {}
      BY <1>2, <2>1 DEF StageInvariant, Run, Start, Check, Open, Capture, Encode,
         Hash,
         Breaks, Fail, Abandon, RenameFails, Publish, Summarise, Cleanup, Leave
    <3>2. ~Summarise(j)
      BY <3>1 DEF Summarise, StageInvariant, StageConsistent, Present, Pending
    <3> QED BY <2>1, <3>1, <3>2 DEF Run, Start, Check, Open, Capture, Encode, Hash,
           Breaks, Fail, Abandon, RenameFails, Publish, Cleanup, Leave
  <2>2. CASE UNCHANGED <<status, closing>>
    BY <1>2, <2>2 DEF StageInvariant, Present, Finished, Pending
  <2>3. CASE BeginClose
    BY <2>3 DEF BeginClose, Dropped, Present, Finished, Pending
  <2>4. ASSUME NEW j \in Jobs, Delete(j) PROVE Present' = {}
    BY <1>2, <2>4 DEF StageInvariant, Delete
  <2>5. CASE List
    BY <1>2, <2>5 DEF StageInvariant, List, Stale, Present
  <2>6. CASE Closed
    BY <2>6 DEF Closed, StageInvariant, Present, Finished, Pending
  <2>7. ASSUME NEW j \in Jobs, Run(j) PROVE closing' = closing
    BY <2>7 DEF Run, Start, Check, Open, Capture, Encode, Hash, Breaks, Fail, Abandon,
       RenameFails, Publish, Summarise, Cleanup, Leave
  <2>8. CASE (\E j \in Jobs : Create(j)) \/ Restart
    BY <1>2, <2>8 DEF Create, Restart
  <2>9. CASE (\E j \in Jobs : Expire(j)) \/ Hold \/ LetGo \/ UNCHANGED vars
    BY <2>2, <2>9 DEF Expire, Hold, LetGo, vars
  <2> QED BY <2>1, <2>2, <2>3, <2>4, <2>5, <2>6, <2>7, <2>8, <2>9 DEF Next
<1> QED BY <1>1, <1>2 DEF StageInvariant

(* The stages of every job stay consistent, and every variable keeps its   *)
(* type: the two need each other.                                          *)
THEOREM StagesConsistent == Spec => [](TypeOK /\ StageInvariant)
<1> QED BY InitType, InitStage, StepType, StageStep, PTL DEF Spec

(* Every variable of the export manager keeps its type.                    *)
THEOREM TypeCorrect == Spec => []TypeOK
<1> QED BY StagesConsistent, PTL

(* A job that is reported as succeeded can be downloaded, whatever calls,  *)
(* failures and shutdowns surround the goroutine that wrote its file.      *)
THEOREM SuccessDownloadable == Spec => []SucceededHasFile
<1>1. StageInvariant => SucceededHasFile
  <2> SUFFICES ASSUME StageInvariant, NEW j \in Jobs, status[j] = "succeeded"
               PROVE  j \in final /\ j \notin tmp
    BY DEF SucceededHasFile
  <2> QED BY DEF StageInvariant, StageConsistent
<1> QED BY <1>1, StagesConsistent, PTL

(* A goroutine that has ended leaves a file only for a job that succeeded. *)
THEOREM NothingLeftBehind == Spec => []NoOrphanFiles
<1>1. StageInvariant => NoOrphanFiles
  <2> SUFFICES ASSUME StageInvariant, NEW j \in Jobs,
                      pc[j] \in {"none", "done"}, status[j] # "succeeded"
               PROVE  j \notin tmp /\ j \notin final
    BY DEF NoOrphanFiles
  <2> QED BY DEF StageInvariant, StageConsistent
<1> QED BY <1>1, StagesConsistent, PTL

-----------------------------------------------------------------------------
(* Outcomes.                                                               *)

LEMMA RunOutcome ==
    ASSUME TypeOK, StageInvariant, NEW j \in Jobs, Run(j), NEW k \in Jobs,
           status[k] \in {"succeeded", "failed", "gone"}
    PROVE  status'[k] = status[k]
<1>1. CASE k # j
  BY <1>1, RunFrame
<1>2. CASE k = j
  <2>1. StageConsistent(j)
    BY DEF StageInvariant
  <2>2. CASE Start(j)
    BY <1>2, <2>1, <2>2 DEF Start, StageConsistent, Present, Finished, Pending
  <2>3. CASE Fail(j)
    BY <1>2, <2>1, <2>3 DEF Fail, StageConsistent, Present, Finished, Pending
  <2>4. CASE RenameFails(j) \/ Publish(j)
    BY <1>2, <2>1, <2>4 DEF RenameFails, Publish, StageConsistent, Present,
       Finished, Pending
  <2>5. CASE Summarise(j)
    BY <1>2, <2>1, <2>5 DEF Summarise, StageConsistent
  <2> QED BY <1>2, <2>2, <2>3, <2>4, <2>5 DEF Run, Check, Open, Capture, Encode, Hash,
         Breaks, Abandon, Cleanup, Leave
<1> QED BY <1>1, <1>2

(* No goroutine that was still at work brings a deleted job back or        *)
(* changes the outcome of a finished one.                                  *)
THEOREM OutcomesAreFinal == Spec => OutcomeFinal
<1>1. TypeOK /\ StageInvariant /\ [Next]_vars => [KeepsOutcomes]_vars
  <2> SUFFICES ASSUME TypeOK, StageInvariant, Next PROVE KeepsOutcomes
    OBVIOUS
  <2>1. ASSUME NEW j \in Jobs, Run(j) PROVE KeepsOutcomes
    BY <2>1, RunOutcome DEF KeepsOutcomes, Finished
  <2>2. ASSUME NEW gone \in SUBSET Present, status' = Dropped(gone, status)
        PROVE  KeepsOutcomes
    BY <2>2 DEF KeepsOutcomes, Dropped
  <2>3. ASSUME NEW j \in Jobs, Create(j) PROVE KeepsOutcomes
    BY <2>3 DEF Create, KeepsOutcomes, Dropped, Finished, TypeOK
  <2>4. ASSUME NEW j \in Jobs, Delete(j) PROVE KeepsOutcomes
    BY <2>2, <2>4 DEF Delete
  <2>5. CASE List
    BY <2>2, <2>5 DEF List, Stale, Present
  <2>6. CASE BeginClose
    BY <2>2, <2>6 DEF BeginClose
  <2>7. CASE (\E j \in Jobs : Expire(j)) \/ Closed \/ Restart \/ Hold \/ LetGo
    BY <2>7 DEF Expire, Closed, Restart, Hold, LetGo, KeepsOutcomes
  <2> QED BY <2>1, <2>3, <2>4, <2>5, <2>6, <2>7 DEF Next
<1> QED BY <1>1, StagesConsistent, PTL DEF Spec, OutcomeFinal

-----------------------------------------------------------------------------
(* The limits.                                                             *)

LimitsKept == IsFiniteSet(Workers) /\ IsFiniteSet(Present) /\ CapacityHeld

LEMMA InitCapacity == Init => LimitsKept
<1> SUFFICES ASSUME Init PROVE LimitsKept
  OBVIOUS
<1>1. Workers = {} /\ Present = {}
  BY DEF Init, Workers, Present, Finished, Pending
<1> QED BY <1>1, FS_EmptySet, LimitsAssumption DEF LimitsKept, CapacityHeld

LEMMA CreateCapacity ==
    ASSUME TypeOK, StageInvariant, LimitsKept, NEW j \in Jobs, Create(j)
    PROVE  LimitsKept'
<1>1. /\ Cardinality(Workers) \in Nat
      /\ IsFiniteSet(Pending) /\ Cardinality(Pending) \in Nat
  BY FS_Subset, FS_CardinalityType DEF LimitsKept, Present
<1>2. Cardinality(Workers) < MaxActive
  BY <1>1, LimitsAssumption DEF Create, Active
<1>3. Workers' = Workers \cup {j} /\ j \notin Workers
  BY DEF Create, Goto, Workers, TypeOK, StageInvariant, StageConsistent
<1>4. Present' = (Present \ Stale) \cup {j}
  BY DEF Create, Dropped, Present, Finished, Pending, Stale, TypeOK
<1>5. IsFiniteSet(Present \ Stale) /\ Cardinality(Present \ Stale) \in Nat
  BY FS_Subset, FS_CardinalityType DEF LimitsKept
<1>6. IsFiniteSet(Workers') /\ Cardinality(Workers') <= MaxActive
  <2>1. IsFiniteSet(Workers') /\ Cardinality(Workers') = Cardinality(Workers) + 1
    BY <1>3, FS_AddElement DEF LimitsKept
  <2> QED BY <1>1, <1>2, <2>1, LimitsAssumption
<1>7. /\ IsFiniteSet(Present')
      /\ Cardinality(Present') \in {Cardinality(Present \ Stale), Cardinality(Present \ Stale) + 1}
  BY <1>4, <1>5, FS_AddElement
<1>8. Cardinality(Present') <= MaxStored
  BY <1>5, <1>7, LimitsAssumption DEF Create
<1> QED BY <1>6, <1>7, <1>8 DEF LimitsKept, CapacityHeld

LEMMA ShrinkCapacity ==
    ASSUME LimitsKept, Workers' \subseteq Workers, Present' \subseteq Present
    PROVE  LimitsKept'
<1>1. /\ IsFiniteSet(Workers') /\ Cardinality(Workers') <= Cardinality(Workers)
      /\ IsFiniteSet(Present') /\ Cardinality(Present') <= Cardinality(Present)
  BY FS_Subset DEF LimitsKept
<1>2. /\ Cardinality(Workers) \in Nat /\ Cardinality(Workers') \in Nat
      /\ Cardinality(Present) \in Nat /\ Cardinality(Present') \in Nat
  BY <1>1, FS_CardinalityType DEF LimitsKept
<1> QED BY <1>1, <1>2, LimitsAssumption DEF LimitsKept, CapacityHeld

LEMMA RunShrinks ==
    ASSUME TypeOK, StageInvariant, NEW j \in Jobs, Run(j)
    PROVE  Workers' \subseteq Workers /\ Present' \subseteq Present
<1>1. j \in Workers
  BY DEF Run, Start, Check, Open, Capture, Encode, Hash, Breaks, Fail, Abandon,
     RenameFails, Publish, Summarise, Cleanup, Leave, Workers
<1>2. status'[j] = status[j] \/ j \in Present
  <2>1. CASE Summarise(j)
    BY <2>1 DEF Summarise, StageInvariant, StageConsistent, Present, Pending
  <2> QED BY <2>1 DEF Run, Start, Check, Open, Capture, Encode, Hash, Breaks, Fail,
         Abandon, RenameFails, Publish, Cleanup, Leave
<1>3. ASSUME NEW k \in Workers' PROVE k \in Workers
  BY <1>1, <1>3, RunFrame DEF Workers
<1>4. ASSUME NEW k \in Present' PROVE k \in Present
  BY <1>2, <1>4, RunFrame DEF Present, Finished, Pending
<1> QED BY <1>3, <1>4

LEMMA CapacityStep ==
    TypeOK /\ StageInvariant /\ LimitsKept /\ [Next]_vars => LimitsKept'
<1> SUFFICES ASSUME TypeOK, StageInvariant, LimitsKept, [Next]_vars PROVE LimitsKept'
  OBVIOUS
<1>1. ASSUME NEW j \in Jobs, Create(j) PROVE LimitsKept'
  BY <1>1, CreateCapacity
<1>2. ASSUME NEW j \in Jobs, Run(j) PROVE LimitsKept'
  BY <1>2, RunShrinks, ShrinkCapacity
<1>3. ASSUME NEW gone, status' = Dropped(gone, status), pc' = pc PROVE LimitsKept'
  <2>1. Workers' \subseteq Workers /\ Present' \subseteq Present
    BY <1>3 DEF Dropped, Workers, Present, Finished, Pending
  <2> QED BY <2>1, ShrinkCapacity
<1>4. CASE (\E j \in Jobs : Delete(j)) \/ List \/ BeginClose
  BY <1>3, <1>4 DEF Delete, List, BeginClose
<1>5. CASE \/ \E j \in Jobs : Expire(j)
           \/ Closed \/ Restart \/ Hold \/ LetGo \/ UNCHANGED vars
  <2>1. status' = status /\ pc' = pc
    BY <1>5 DEF Expire, Closed, Restart, Hold, LetGo, vars
  <2>2. Workers' = Workers /\ Present' = Present
    BY <2>1 DEF Workers, Present, Finished, Pending
  <2> QED BY <2>2, ShrinkCapacity
<1> QED BY <1>1, <1>2, <1>4, <1>5 DEF Next

(* The limits on goroutines and on retained jobs are never exceeded, for   *)
(* any limits and any number of jobs.                                      *)
THEOREM LimitsHold == Spec => []CapacityHeld
<1>1. LimitsKept => CapacityHeld
  BY DEF LimitsKept
<1> QED BY <1>1, InitCapacity, CapacityStep, StagesConsistent, PTL DEF Spec

-----------------------------------------------------------------------------
(* Details: the invariant.                                                 *)

Row == [id : Requests \cup {Nobody}, rich : BOOLEAN, seq : Int]

ViewFields ==
    {"slots", "first", "n", "next", "limit", "archive", "expiry", "refs", "lists", "pending",
     "dirty", "current", "pages", "blocks", "summaries", "price", "priced"}

(* The requests at positions f + 1 to e of the array.                      *)
IdsAt(s, f, e) == {s.slots[k].id : k \in f + 1 .. e}

Visible(s) == IdsAt(s, s.first, s.first + s.n)

(* The rows lie in the array, show each request once and none that is in   *)
(* the archive.                                                            *)
GoodRows(s) ==
    /\ s.slots \in Seq(Row) /\ s.first \in Nat /\ s.n \in Nat /\ s.next \in Int
    /\ s.first + s.n <= Len(s.slots)
    /\ \A k \in s.first + 1 .. s.first + s.n : s.slots[k].id \in Requests
    /\ \A k, l \in s.first + 1 .. s.first + s.n : s.slots[k].id = s.slots[l].id => k = l

GoodArchive(s) ==
    /\ s.archive \subseteq Requests /\ IsFiniteSet(s.archive)
    /\ s.archive \cap Visible(s) = {}

(* What expires in these requests does not before the next expiry. *)
Awaited(s) ==
    /\ s.expiry \in Int
    /\ \A r \in s.archive \cup Visible(s) :
         KeepFor # 0 /\ TimeOf[r] # 0 => s.expiry # 0 /\ s.expiry <= TimeOf[r] + KeepFor

GoodDetails(s) ==
    /\ DOMAIN s = ViewFields /\ GoodRows(s) /\ GoodArchive(s)
    /\ s.limit \in Nat /\ s.price \in Nat

Overdue(r, now) == KeepFor # 0 /\ TimeOf[r] # 0 /\ TimeOf[r] + KeepFor < now

(* The requests of C are kept until they expire.                           *)
Keeps(s, C, now) ==
    /\ s.archive \cup Visible(s) \subseteq C
    /\ \A r \in C : Overdue(r, now) \/ r \in s.archive \cup Visible(s)

Priced(ids, price) == {[id |-> r, price |-> price] : r \in ids}

(* A block of which no row has been cleared is of rows that are where they *)
(* were, and what it keeps is of them.                                     *)
GoodBlock(s, b) ==
    LET block == s.blocks[b]
        ids   == IdsAt(s, block.from, block.end)
    IN  /\ DOMAIN block = {"from", "end", "sums", "times"} /\ block.from \in Nat /\ block.end \in Nat
        /\ block.from >= s.first =>
             /\ block.end <= s.first + s.n /\ block.end <= (b + 1) * BlockRows
             /\ block.times = {TimeOf[r] : r \in ids}
             /\ \A x \in DOMAIN block.sums : block.sums[x] = Priced(ids, s.priced)

GoodBlocks(s) == DOMAIN s.blocks \subseteq Nat /\ \A b \in DOMAIN s.blocks : GoodBlock(s, b)

TooOld(r, span, now) == span # 0 /\ (r = Nobody \/ TimeOf[r] = 0 \/ TimeOf[r] < now - span)

(* What a range of these requests should answer.                           *)
Answer(ids, q, price, now) ==
    LET rows == Priced({r \in ids : ~TooOld(r, q.span, now)}, price)
    IN  [rows |-> rows, count |-> Cardinality(rows)]

Expectation(C, q, price, now) == Answer({r \in C : ~Overdue(r, now)}, q, price, now)

GoodSummaries(s, C, now) ==
    \A k \in DOMAIN s.summaries :
        /\ k.at \in Int /\ k.at <= now
        /\ k.at = now => s.summaries[k] = Expectation(C, k.query, s.price, now)

GoodViews(s, C, now) == GoodBlocks(s) /\ GoodSummaries(s, C, now)

GoodStats(s, C, now) ==
    GoodDetails(s) /\ Awaited(s) /\ Keeps(s, C, now) /\ GoodViews(s, C, now)

Arrival == [id : Requests, rich : BOOLEAN, counts : BOOLEAN]

ViewInvariant ==
    /\ minute \in Nat
    /\ arrivals \in Seq(Arrival)
    /\ GoodStats(stats, Counted, minute)

-----------------------------------------------------------------------------
(* Sequences.                                                              *)

LEMMA DetailRows ==
    ASSUME NEW s, GoodRows(s)
    PROVE  /\ Details(s) \in Seq(Row) /\ Len(Details(s)) = s.n
           /\ \A i \in 1 .. s.n : Details(s)[i] = s.slots[s.first + i]
<1>1. s.slots \in Seq(Row) /\ s.first \in Nat /\ s.n \in Nat /\ s.first + s.n <= Len(s.slots)
  BY DEF GoodRows
<1>2. Len(s.slots) \in Nat
  BY <1>1, LenProperties
<1>3. \A i \in s.first + 1 .. s.first + s.n : s.slots[i] \in Row
  BY <1>1, <1>2, ElementOfSeq
<1> DEFINE a == s.first + 1
           b == s.first + s.n
<1>4. a \in Int /\ b \in Int /\ b - a + 1 = s.n /\ \A i \in 1 .. s.n : a + i - 1 = s.first + i
  BY <1>1
<1>5. \A i \in a .. b : s.slots[i] \in Row
  BY <1>3
<1>6. Details(s) = SubSeq(s.slots, a, b)
  BY DEF Details
<1>7. a <= b <=> s.n > 0
  BY <1>1
<1> HIDE DEF a, b
<1>8. /\ SubSeq(s.slots, a, b) \in Seq(Row)
      /\ Len(SubSeq(s.slots, a, b)) = IF a <= b THEN b - a + 1 ELSE 0
      /\ \A i \in 1 .. b - a + 1 : SubSeq(s.slots, a, b)[i] = s.slots[a + i - 1]
  BY <1>4, <1>5, SubSeqProperties
<1>9. \A i \in 1 .. s.n : Details(s)[i] = s.slots[s.first + i]
  BY <1>4, <1>6, <1>8
<1>10. Len(Details(s)) = s.n
  BY <1>1, <1>4, <1>6, <1>7, <1>8
<1> QED BY <1>6, <1>8, <1>9, <1>10

LEMMA ShownVisible ==
    ASSUME NEW s, GoodRows(s)
    PROVE  Shown(s) = Visible(s)
<1>1. s.first \in Nat /\ s.n \in Nat /\ \A i \in 1 .. s.n : Details(s)[i] = s.slots[s.first + i]
  BY DetailRows DEF GoodRows
<1>2. \A k \in s.first + 1 .. s.first + s.n : k - s.first \in 1 .. s.n /\ s.first + (k - s.first) = k
  BY <1>1
<1>3. \A i \in 1 .. s.n : s.first + i \in s.first + 1 .. s.first + s.n
  BY <1>1
<1> QED BY <1>1, <1>2, <1>3 DEF Shown, Visible, IdsAt

LEMMA Joined ==
    ASSUME NEW y \in Seq(Row), NEW z \in Seq(Row)
    PROVE  /\ y \o z \in Seq(Row) /\ Len(y \o z) = Len(y) + Len(z)
           /\ \A i \in 1 .. Len(y) : (y \o z)[i] = y[i]
           /\ \A i \in 1 .. Len(z) : (y \o z)[Len(y) + i] = z[i]
<1>1. PICK x : x = y \o z
  OBVIOUS
<1>2. /\ x \in Seq(Row) /\ Len(x) = Len(y) + Len(z)
      /\ \A i \in 1 .. Len(y) + Len(z) : x[i] = IF i <= Len(y) THEN y[i] ELSE z[i - Len(y)]
  BY <1>1, ConcatProperties, Zenon
<1>3. Len(y) \in Nat /\ Len(z) \in Nat
  BY LenProperties
<1>4. \A i \in 1 .. Len(y) : x[i] = y[i]
  BY <1>2, <1>3
<1>5. ASSUME NEW i \in 1 .. Len(z) PROVE x[Len(y) + i] = z[i]
  <2>1. Len(y) + i \in 1 .. Len(y) + Len(z) /\ ~(Len(y) + i <= Len(y)) /\ (Len(y) + i) - Len(y) = i
    BY <1>3
  <2> QED BY <1>2, <2>1
<1> QED BY <1>1, <1>2, <1>4, <1>5, Zenon

(* Rows behind f cleared ones.                                             *)
Laid(rows, f, v) == Vacancies(f) \o rows \o Vacancies(v)

LEMMA LaidOut ==
    ASSUME NEW rows \in Seq(Row), NEW f \in Nat, NEW v \in Nat
    PROVE  /\ Laid(rows, f, v) \in Seq(Row) /\ Len(Laid(rows, f, v)) = f + Len(rows) + v
           /\ \A i \in 1 .. Len(rows) : Laid(rows, f, v)[f + i] = rows[i]
<1>1. Vacant \in Row
  BY DEF Vacant, Row
<1>2. \A m \in Nat : Vacancies(m) \in Seq(Row) /\ Len(Vacancies(m)) = m
  BY <1>1 DEF Vacancies
<1>3. Len(rows) \in Nat
  BY LenProperties
<1>4. PICK c : c = Vacancies(f)
  OBVIOUS
<1>5. PICK z : z = Vacancies(v)
  OBVIOUS
<1>6. c \in Seq(Row) /\ Len(c) = f /\ z \in Seq(Row) /\ Len(z) = v
  BY <1>2, <1>4, <1>5
<1>7. PICK y : y = c \o rows
  OBVIOUS
<1>8. PICK x : x = y \o z
  OBVIOUS
<1>9. /\ y \in Seq(Row) /\ Len(y) = Len(c) + Len(rows)
      /\ \A i \in 1 .. Len(rows) : y[Len(c) + i] = rows[i]
  BY <1>6, <1>7, Joined, Zenon
<1>10. /\ x \in Seq(Row) /\ Len(x) = Len(y) + Len(z)
       /\ \A i \in 1 .. Len(y) : x[i] = y[i]
  BY <1>6, <1>8, <1>9, Joined, ZenonT(40)
<1>11. Laid(rows, f, v) = x
  BY <1>4, <1>5, <1>7, <1>8, Zenon DEF Laid
<1> HIDE <1>7, <1>8
<1>12. Len(x) = f + Len(rows) + v
  BY <1>3, <1>6, <1>9, <1>10
<1>13. ASSUME NEW i \in 1 .. Len(rows) PROVE x[f + i] = rows[i]
  <2>1. f + i \in 1 .. Len(y) /\ y[f + i] = rows[i]
    BY <1>3, <1>6, <1>9
  <2> QED BY <1>10, <2>1
<1> QED BY <1>10, <1>11, <1>12, <1>13

(* These rows, laid out in an array.                                       *)
Distinct(rows) ==
    /\ \A i \in 1 .. Len(rows) : rows[i].id \in Requests
    /\ \A i, j \in 1 .. Len(rows) : rows[i].id = rows[j].id => i = j

IdsOf(rows) == {rows[i].id : i \in 1 .. Len(rows)}

LEMMA LaidOutRows ==
    ASSUME NEW rows \in Seq(Row), Distinct(rows), NEW f \in Nat, NEW v \in Nat,
           NEW t, t.slots = Laid(rows, f, v), t.first = f, t.n = Len(rows), t.next \in Int
    PROVE  GoodRows(t) /\ Visible(t) = IdsOf(rows)
           /\ \A i \in 1 .. Len(rows) : t.slots[f + i] = rows[i]
<1>1. PICK x : x = t.slots
  OBVIOUS
<1>2. /\ x \in Seq(Row) /\ Len(x) = f + Len(rows) + v
      /\ \A i \in 1 .. Len(rows) : x[f + i] = rows[i]
  <2>1. x = Laid(rows, f, v)
    BY <1>1
  <2>2. /\ Laid(rows, f, v) \in Seq(Row) /\ Len(Laid(rows, f, v)) = f + Len(rows) + v
        /\ \A i \in 1 .. Len(rows) : Laid(rows, f, v)[f + i] = rows[i]
    BY LaidOut
  <2> QED BY <2>1, <2>2
<1>3. Len(rows) \in Nat
  BY LenProperties
<1>4. \A k \in f + 1 .. f + Len(rows) : k - f \in 1 .. Len(rows) /\ f + (k - f) = k
  BY <1>3
<1>5. \A k \in f + 1 .. f + Len(rows) : x[k] = rows[k - f]
  BY <1>2, <1>4
<1>6. \A i \in 1 .. Len(rows) : f + i \in f + 1 .. f + Len(rows)
  BY <1>3
<1>7. ASSUME NEW k \in f + 1 .. f + Len(rows), NEW l \in f + 1 .. f + Len(rows), x[k].id = x[l].id PROVE k = l
  <2>1. rows[k - f].id = rows[l - f].id /\ k - f \in 1 .. Len(rows) /\ l - f \in 1 .. Len(rows)
    BY <1>4, <1>5, <1>7
  <2>2. k - f = l - f
    BY <2>1 DEF Distinct
  <2> QED BY <1>3, <2>2
<1>8. GoodRows(t)
  <2>1. \A k \in f + 1 .. f + Len(rows) : x[k].id \in Requests
    BY <1>4, <1>5 DEF Distinct
  <2>2. f + Len(rows) <= Len(x)
    BY <1>2, <1>3
  <2>3. t.slots = x /\ t.first = f /\ t.n = Len(rows) /\ t.next \in Int
    BY <1>1
  <2>4. \A k, l \in f + 1 .. f + Len(rows) : x[k].id = x[l].id => k = l
    BY <1>7
  <2> HIDE <1>1
  <2> QED BY <1>2, <1>3, <2>1, <2>2, <2>3, <2>4, Zenon DEF GoodRows
<1>9. Visible(t) = IdsOf(rows)
  <2>1. \A k \in f + 1 .. f + Len(rows) : x[k].id \in IdsOf(rows)
    BY <1>4, <1>5 DEF IdsOf
  <2>2. \A i \in 1 .. Len(rows) : rows[i].id = x[f + i].id
    BY <1>2
  <2>3. Visible(t) = {x[k].id : k \in f + 1 .. f + Len(rows)}
    BY <1>1, Zenon DEF Visible, IdsAt
  <2>4. IdsOf(rows) \subseteq {x[k].id : k \in f + 1 .. f + Len(rows)}
    BY <1>6, <2>2 DEF IdsOf
  <2> QED BY <2>1, <2>3, <2>4
<1> QED BY <1>1, <1>2, <1>8, <1>9

(* The rows of the details, as a sequence.                                 *)
LEMMA RowsOfDetails ==
    ASSUME NEW s, GoodRows(s)
    PROVE  Distinct(Details(s)) /\ IdsOf(Details(s)) = Visible(s)
<1>1. /\ s.first \in Nat /\ s.n \in Nat /\ Len(Details(s)) = s.n
      /\ \A i \in 1 .. s.n : Details(s)[i] = s.slots[s.first + i]
  BY DetailRows DEF GoodRows
<1>2. \A i \in 1 .. s.n : s.first + i \in s.first + 1 .. s.first + s.n
  BY <1>1
<1>3. ASSUME NEW i \in 1 .. s.n, NEW j \in 1 .. s.n, Details(s)[i].id = Details(s)[j].id PROVE i = j
  <2>1. s.slots[s.first + i].id = s.slots[s.first + j].id
    BY <1>1, <1>3
  <2>2. s.first + i = s.first + j
    BY <1>2, <2>1 DEF GoodRows
  <2> QED BY <1>1, <2>2
<1>4. \A i \in 1 .. s.n : Details(s)[i].id \in Requests
  BY <1>1, <1>2 DEF GoodRows
<1>5. IdsOf(Details(s)) = Shown(s)
  BY <1>1 DEF IdsOf, Shown
<1> QED BY <1>1, <1>3, <1>4, <1>5, ShownVisible DEF Distinct

-----------------------------------------------------------------------------
(* What a range counts.                                                    *)

CountOf(A, parts) == FoldFunction(LAMBDA part, n : n + Cardinality(part), Cardinality(A), parts)

LEMMA SumsCount ==
    ASSUME NEW A, IsFiniteSet(A), NEW parts, IsFiniteSet(DOMAIN parts),
           \A b \in DOMAIN parts : IsFiniteSet(parts[b]) /\ parts[b] \cap A = {},
           \A b, c \in DOMAIN parts : b # c => parts[b] \cap parts[c] = {}
    PROVE  CountOf(A, parts) = Cardinality(A \cup UNION {parts[b] : b \in DOMAIN parts})
<1> DEFINE S == DOMAIN parts
           all(s) == A \cup UNION {parts[b] : b \in s}
           one(s) == CHOOSE x \in s : TRUE
           base == Cardinality(A)
           iter == CHOOSE f : f = [s \in SUBSET S |-> IF s = {} THEN base
                                     ELSE f[s \ {one(s)}] + Cardinality(parts[one(s)])]
           g == [s \in SUBSET S |-> Cardinality(all(s))]
<1>1. CountOf(A, parts) = iter[S]
  BY DEF CountOf, FoldFunction, FoldFunctionOnSet, MapThenFoldSet
<1>2. \A s \in SUBSET S : IsFiniteSet(s)
  BY FS_Subset
<1>3. ASSUME NEW s \in SUBSET S PROVE IsFiniteSet(all(s))
  <2>1. IsFiniteSet({parts[b] : b \in s})
    <3> DEFINE f == [b \in s |-> parts[b]]
    <3>1. f \in Surjection(s, {parts[b] : b \in s})
      BY DEF Surjection
    <3> QED BY <1>2, <3>1, FS_Surjection
  <2>2. \A x \in {parts[b] : b \in s} : IsFiniteSet(x)
    OBVIOUS
  <2>3. IsFiniteSet(UNION {parts[b] : b \in s})
    BY <2>1, <2>2, FS_UNION
  <2> QED BY <2>3, FS_Union
<1>4. ASSUME NEW s \in SUBSET S, s # {}
      PROVE  g[s] = g[s \ {one(s)}] + Cardinality(parts[one(s)])
  <2> DEFINE x == one(s)
             r == s \ {x}
  <2>1. x \in s /\ x \in S /\ r \in SUBSET S /\ s \in SUBSET S
    BY <1>4
  <2> HIDE DEF x
  <2>2. all(s) = all(r) \cup parts[x]
    BY <2>1
  <2>3. all(r) \cap parts[x] = {}
    BY <2>1
  <2>4. IsFiniteSet(all(r)) /\ IsFiniteSet(parts[x])
    BY <1>3, <2>1
  <2>5. Cardinality(all(r) \cup parts[x]) = Cardinality(all(r)) + Cardinality(parts[x]) - Cardinality(all(r) \cap parts[x])
    BY <2>4, FS_Union
  <2>6. Cardinality({}) = 0 /\ Cardinality(all(r)) \in Nat /\ Cardinality(parts[x]) \in Nat
    BY <2>4, FS_EmptySet, FS_CardinalityType
  <2>7. Cardinality(all(s)) = Cardinality(all(r)) + Cardinality(parts[x])
    <3> HIDE DEF all
    <3>1. Cardinality(all(r) \cap parts[x]) = 0
      BY <2>3, <2>6
    <3> QED BY <2>2, <2>5, <2>6, <3>1
  <2>8. g[s] = Cardinality(all(s)) /\ g[r] = Cardinality(all(r))
    BY <2>1
  <2> QED BY <2>7, <2>8 DEF x
<1>5. g[{}] = base
  <2>1. all({}) = A
    OBVIOUS
  <2> QED BY <2>1
<1>6. g = [s \in SUBSET S |-> IF s = {} THEN base ELSE g[s \ {one(s)}] + Cardinality(parts[one(s)])]
  <2> HIDE DEF base, one
  <2> DEFINE h == [s \in SUBSET S |-> IF s = {} THEN base ELSE g[s \ {one(s)}] + Cardinality(parts[one(s)])]
  <2>1. \A s \in SUBSET S : g[s] = h[s]
    <3>1. \A s \in SUBSET S : s = {} => g[s] = h[s]
      BY <1>5
    <3> HIDE DEF g
    <3>2. \A s \in SUBSET S : s # {} => h[s] = g[s \ {one(s)}] + Cardinality(parts[one(s)])
      OBVIOUS
    <3> QED BY <1>4, <3>1, <3>2
  <2>2. g = [s \in SUBSET S |-> g[s]] /\ h = [s \in SUBSET S |-> h[s]]
    OBVIOUS
  <2> HIDE DEF g, h
  <2>3. g = h
    BY <2>1, <2>2
  <2> QED BY <2>3 DEF h
<1> HIDE DEF g
<1>7. iter = [s \in SUBSET S |-> IF s = {} THEN base ELSE iter[s \ {one(s)}] + Cardinality(parts[one(s)])]
  <2> HIDE DEF base, one, S
  <2> QED BY <1>6
<1> HIDE DEF iter, base
<1> DEFINE T == {n \in Nat : \A s \in SUBSET S : Cardinality(s) = n => iter[s] = g[s]}
<1>8. 0 \in T
  <2>1. ASSUME NEW s \in SUBSET S, Cardinality(s) = 0 PROVE iter[s] = g[s]
    <3>1. s = {}
      BY <1>2, <2>1, FS_EmptySet
    <3> QED BY <1>5, <1>7, <3>1
  <2> QED BY <2>1
<1>9. Cardinality(S) \in Nat
  BY FS_CardinalityType
<1>10. ASSUME NEW n \in 0 .. Cardinality(S) - 1, n \in T PROVE n + 1 \in T
  <2>1. ASSUME NEW s \in SUBSET S, Cardinality(s) = n + 1 PROVE iter[s] = g[s]
    <3>1. n \in Nat
      BY <1>9
    <3>2. s # {}
      BY <2>1, <3>1, FS_EmptySet
    <3>3. one(s) \in s
      BY <3>2
    <3> HIDE DEF one
    <3>4. s \ {one(s)} \in SUBSET S /\ Cardinality(s \ {one(s)}) = n
      <4>1. Cardinality(s \ {one(s)}) = Cardinality(s) - 1
        BY <1>2, <3>3, FS_RemoveElement
      <4> QED BY <2>1, <3>1, <4>1
    <3>5. iter[s \ {one(s)}] = g[s \ {one(s)}]
      BY <1>10, <3>4
    <3>6. iter[s] = iter[s \ {one(s)}] + Cardinality(parts[one(s)])
      BY <1>7, <3>2
    <3> QED BY <1>4, <3>2, <3>5, <3>6 DEF one
  <2>2. n + 1 \in Nat
    BY <1>9
  <2> QED BY <2>1, <2>2
<1> HIDE DEF T
<1>11. Cardinality(S) \in T
  BY <1>8, <1>9, <1>10, RoundInduction
<1>12. iter[S] = g[S]
  BY <1>11 DEF T
<1> QED BY <1>1, <1>12 DEF g

-----------------------------------------------------------------------------
(* What is left of rows when some of them expire.                          *)

Left(x, e) == IF Expired(e.id) THEN x ELSE Append(x, e)

UnexpiredRounds(rows) ==
    \E f \in [0 .. Len(rows) -> Seq(Row)] :
        /\ f[0] = <<>> /\ Unexpired(rows) = f[Len(rows)]
        /\ \A n \in 1 .. Len(rows) : f[n] = Left(f[n - 1], rows[n])

LEMMA UnexpiredRoundsExist ==
    ASSUME NEW rows \in Seq(Row)
    PROVE  UnexpiredRounds(rows)
<1> DEFINE N == Len(rows)
           D == Seq(Row)
           o == <<>>
           F == [e \in D \X (1 .. N) |-> Left(e[1], rows[e[2]])]
           f == CHOOSE f : f = [n \in 0 .. N |-> IF n = 0 THEN o ELSE Left(f[n - 1], rows[n])]
<1>1. Unexpired(rows) = f[N]
  BY DEF Unexpired, Left
<1>2. N \in Nat
  BY LenProperties
<1>3. \A n \in 0 .. N : n # 0 => n \in 1 .. N /\ n - 1 \in 0 .. N
  BY <1>2
<1>4. ASSUME NEW x \in D, NEW n \in 1 .. N PROVE Left(x, rows[n]) \in D
  <2>1. rows[n] \in Row
    BY <1>2, ElementOfSeq
  <2> QED BY <2>1, AppendProperties DEF Left
<1>5. o \in D
  OBVIOUS
<1> HIDE DEF N, D, o
<1>6. F \in [D \X (1 .. N) -> D] /\ \A x \in D, n \in 1 .. N : F[<<x, n>>] = Left(x, rows[n])
  BY <1>4
<1> HIDE DEF F
<1>7. PICK g \in [0 .. N -> D] : RoundsOf(g, o, N, F)
  BY <1>2, <1>5, <1>6, RoundsExist
<1>8. g[0] = o /\ \A n \in 1 .. N : g[n] = F[<<g[n - 1], n>>]
  BY <1>7 DEF RoundsOf
<1>9. \A n \in 0 .. N : g[n] = IF n = 0 THEN o ELSE Left(g[n - 1], rows[n])
  BY <1>3, <1>6, <1>8
<1>10. g = [n \in 0 .. N |-> IF n = 0 THEN o ELSE Left(g[n - 1], rows[n])]
  BY <1>9
<1>11. f = [n \in 0 .. N |-> IF n = 0 THEN o ELSE Left(f[n - 1], rows[n])]
  BY <1>10
<1> HIDE DEF f
<1>12. \A n \in 0 .. N : f[n] = IF n = 0 THEN o ELSE Left(f[n - 1], rows[n])
  BY <1>11
<1>13. ASSUME NEW n \in 1 .. N, f[n - 1] \in D PROVE f[n] \in D
  <2>1. f[n] = Left(f[n - 1], rows[n])
    BY <1>2, <1>12
  <2> QED BY <1>4, <1>13, <2>1
<1>14. f[0] \in D
  BY <1>2, <1>5, <1>12
<1>15. \A n \in 0 .. N : f[n] \in D
  BY <1>2, <1>13, <1>14, RoundsKeep
<1>16. f = [n \in 0 .. N |-> f[n]]
  BY <1>11
<1>17. f \in [0 .. N -> D]
  BY <1>15, <1>16
<1>18. f[0] = o /\ \A n \in 1 .. N : f[n] = Left(f[n - 1], rows[n])
  BY <1>2, <1>3, <1>12
<1> QED BY <1>1, <1>17, <1>18 DEF N, D, o, UnexpiredRounds

(* x is what is left of the first n rows.                                  *)
LeftOf(x, rows, n) ==
    /\ x \in Seq(Row) /\ Len(x) <= n
    /\ \A k \in 1 .. Len(x) : \E j \in 1 .. n : x[k] = rows[j] /\ ~Expired(rows[j].id)
    /\ \A j \in 1 .. n : Expired(rows[j].id) \/ \E k \in 1 .. Len(x) : x[k] = rows[j]
    /\ \A k, l \in 1 .. Len(x) : x[k].id = x[l].id => k = l
    /\ (\A j \in 1 .. n : ~Expired(rows[j].id)) => Len(x) = n /\ \A k \in 1 .. n : x[k] = rows[k]

LEMMA LeftOfMore ==
    ASSUME NEW rows \in Seq(Row), Distinct(rows), NEW n \in Nat, n + 1 <= Len(rows),
           NEW x, LeftOf(x, rows, n)
    PROVE  LeftOf(Left(x, rows[n + 1]), rows, n + 1)
<1> DEFINE e == rows[n + 1]
           L == Len(x)
<1>1. Len(rows) \in Nat /\ L \in Nat /\ x \in Seq(Row) /\ L <= n
  BY LenProperties DEF LeftOf
<1>2. e \in Row /\ n + 1 \in 1 .. Len(rows)
  BY <1>1, ElementOfSeq
<1>3. \A j \in 1 .. n : j \in 1 .. n + 1 /\ j \in 1 .. Len(rows) /\ j # n + 1
  BY <1>1
<1>4. \A j \in 1 .. n + 1 : j \in 1 .. n \/ j = n + 1
  OBVIOUS
<1>5. CASE Expired(e.id)
  <2>1. Left(x, e) = x
    BY <1>5 DEF Left
  <2> HIDE DEF L
  <2>2. ~(\A j \in 1 .. n + 1 : ~Expired(rows[j].id))
    BY <1>2, <1>5
  <2>3. Len(x) <= n + 1
    BY <1>1 DEF L
  <2>4. \A j \in 1 .. n + 1 : Expired(rows[j].id) \/ \E k \in 1 .. Len(x) : x[k] = rows[j]
    BY <1>4, <1>5 DEF LeftOf
  <2>5. \A k \in 1 .. Len(x) : \E j \in 1 .. n + 1 : x[k] = rows[j] /\ ~Expired(rows[j].id)
    BY <1>3 DEF LeftOf
  <2>6. LeftOf(x, rows, n + 1)
    BY <2>2, <2>3, <2>4, <2>5 DEF LeftOf
  <2> QED BY <2>1, <2>6
<1>6. CASE ~Expired(e.id)
  <2>1. PICK y : y = Append(x, e)
    OBVIOUS
  <2>2. y \in Seq(Row) /\ Len(y) = L + 1 /\ y[L + 1] = e /\ \A k \in 1 .. L : y[k] = x[k]
    BY <1>1, <1>2, <2>1, AppendProperties
  <2>3. Left(x, e) = y
    BY <1>6, <2>1 DEF Left
  <2> HIDE <2>1
  <2>4. \A k \in 1 .. L + 1 : k \in 1 .. L \/ k = L + 1
    BY <1>1
  <2>5. \A k \in 1 .. L : k \in 1 .. L + 1 /\ k # L + 1
    BY <1>1
  <2>6. ASSUME NEW k \in 1 .. L PROVE \E j \in 1 .. n : y[k] = rows[j] /\ ~Expired(rows[j].id)
    BY <2>2 DEF LeftOf
  <2>7. ASSUME NEW k \in 1 .. L PROVE y[k].id # e.id
    <3>1. PICK j \in 1 .. n : y[k] = rows[j]
      BY <2>6
    <3>2. rows[j].id # rows[n + 1].id
      BY <1>2, <1>3 DEF Distinct
    <3> QED BY <3>1, <3>2
  <2>8. ASSUME NEW k \in 1 .. Len(y), NEW l \in 1 .. Len(y), y[k].id = y[l].id PROVE k = l
    <3>1. CASE k \in 1 .. L /\ l \in 1 .. L
      BY <2>2, <2>8, <3>1 DEF LeftOf
    <3>2. CASE k = L + 1 \/ l = L + 1
      BY <2>2, <2>4, <2>7, <2>8, <3>2
    <3> QED BY <2>2, <2>4, <3>1, <3>2
  <2>9. \A k \in 1 .. Len(y) : \E j \in 1 .. n + 1 : y[k] = rows[j] /\ ~Expired(rows[j].id)
    <3>1. ASSUME NEW k \in 1 .. L + 1 PROVE \E j \in 1 .. n + 1 : y[k] = rows[j] /\ ~Expired(rows[j].id)
      <4>1. CASE k = L + 1
        BY <1>6, <2>2, <4>1
      <4>2. CASE k \in 1 .. L
        BY <1>3, <2>6, <4>2
      <4> QED BY <2>4, <4>1, <4>2
    <3> QED BY <2>2, <3>1
  <2>10. \A j \in 1 .. n + 1 : Expired(rows[j].id) \/ \E k \in 1 .. Len(y) : y[k] = rows[j]
    <3>1. ASSUME NEW j \in 1 .. n + 1, ~Expired(rows[j].id) PROVE \E k \in 1 .. L + 1 : y[k] = rows[j]
      <4>1. CASE j = n + 1
        <5>1. L + 1 \in 1 .. L + 1
          BY <1>1
        <5> QED BY <2>2, <4>1, <5>1
      <4>2. CASE j \in 1 .. n
        <5>1. PICK k \in 1 .. L : x[k] = rows[j]
          BY <3>1, <4>2 DEF LeftOf
        <5> QED BY <2>2, <2>5, <5>1
      <4> QED BY <1>4, <4>1, <4>2
    <3> QED BY <2>2, <3>1
  <2>11. ASSUME \A j \in 1 .. n + 1 : ~Expired(rows[j].id)
         PROVE  Len(y) = n + 1 /\ \A k \in 1 .. n + 1 : y[k] = rows[k]
    <3>1. L = n /\ \A k \in 1 .. n : x[k] = rows[k]
      BY <1>3, <2>11 DEF LeftOf
    <3> QED BY <1>4, <2>2, <3>1
  <2>12. Len(y) <= n + 1
    BY <1>1, <2>2
  <2>13. LeftOf(y, rows, n + 1)
    <3> HIDE DEF L, e
    <3>1. \A k, l \in 1 .. Len(y) : y[k].id = y[l].id => k = l
      BY <2>8
    <3> QED BY <2>2, <2>9, <2>10, <2>11, <2>12, <3>1 DEF LeftOf
  <2> QED BY <2>3, <2>13
<1> QED BY <1>5, <1>6

LEMMA UnexpiredLeft ==
    ASSUME NEW rows \in Seq(Row), Distinct(rows)
    PROVE  LeftOf(Unexpired(rows), rows, Len(rows))
<1>1. UnexpiredRounds(rows)
  BY UnexpiredRoundsExist
<1>2. PICK f \in [0 .. Len(rows) -> Seq(Row)] :
          /\ f[0] = <<>> /\ Unexpired(rows) = f[Len(rows)]
          /\ \A n \in 1 .. Len(rows) : f[n] = Left(f[n - 1], rows[n])
  BY <1>1 DEF UnexpiredRounds
<1>3. Len(rows) \in Nat
  BY LenProperties
<1> DEFINE T == {n \in Nat : LeftOf(f[n], rows, n)}
<1>4. 0 \in T
  <2>1. PICK x : x = f[0]
    OBVIOUS
  <2>2. x \in Seq(Row) /\ Len(x) = 0
    BY <1>2, <2>1
  <2>3. LeftOf(x, rows, 0)
    BY <2>2 DEF LeftOf
  <2> QED BY <2>1, <2>3
<1>5. ASSUME NEW n \in 0 .. Len(rows) - 1, n \in T PROVE n + 1 \in T
  <2>1. n \in Nat /\ n + 1 \in Nat /\ n + 1 \in 1 .. Len(rows) /\ n + 1 <= Len(rows) /\ (n + 1) - 1 = n
    BY <1>3
  <2>2. f[n + 1] = Left(f[n], rows[n + 1])
    BY <1>2, <2>1
  <2>3. LeftOf(f[n], rows, n)
    BY <1>5
  <2>4. LeftOf(f[n + 1], rows, n + 1)
    BY <2>1, <2>2, <2>3, LeftOfMore
  <2> QED BY <2>1, <2>4
<1> HIDE DEF T
<1>6. \A n \in 0 .. Len(rows) - 1 : n \in T => n + 1 \in T
  BY <1>5
<1>7. \A n \in 0 .. Len(rows) : n \in T
  BY <1>3, <1>4, <1>6, RoundInduction
<1>8. Len(rows) \in T
  BY <1>3, <1>7
<1>9. LeftOf(f[Len(rows)], rows, Len(rows))
  BY <1>8 DEF T
<1> QED BY <1>2, <1>9

-----------------------------------------------------------------------------
(* Operations that keep the requests that are counted.                     *)

Same(s, t, names) == DOMAIN t = DOMAIN s /\ \A f \in names : t[f] = s[f]

CoreFields  == {"slots", "first", "n", "next", "limit", "archive", "expiry", "price"}
RangeFields == CoreFields \cup {"blocks", "summaries", "priced"}

(* t has the requests of s, and nothing of it is stale if nothing of s is. *)
Carried(s, t) ==
    /\ GoodDetails(t) /\ t.archive \cup Visible(t) = s.archive \cup Visible(s)
    /\ Same(s, t, {"expiry", "limit", "price", "priced", "summaries"})
    /\ GoodBlocks(s) => GoodBlocks(t)

LEMMA CarriedTwice ==
    ASSUME NEW s, NEW t, NEW u, Carried(s, t), Carried(t, u)
    PROVE  Carried(s, u)
BY DEF Carried, Same

LEMMA CarriedStats ==
    ASSUME NEW s, NEW t, Carried(s, t)
    PROVE  /\ Awaited(s) => Awaited(t)
           /\ \A C, now : Keeps(s, C, now) => Keeps(t, C, now)
           /\ \A C, now : GoodSummaries(s, C, now) => GoodSummaries(t, C, now)
           /\ \A C, now : GoodStats(s, C, now) => GoodStats(t, C, now)
<1>1. t.expiry = s.expiry /\ t.price = s.price /\ t.summaries = s.summaries
  BY DEF Carried, Same
<1>2. Awaited(s) => Awaited(t)
  BY <1>1 DEF Carried, Awaited
<1>3. \A C, now : Keeps(s, C, now) => Keeps(t, C, now)
  BY DEF Carried, Keeps
<1>4. \A C, now : GoodSummaries(s, C, now) => GoodSummaries(t, C, now)
  BY <1>1 DEF GoodSummaries
<1> QED BY <1>2, <1>3, <1>4 DEF Carried, GoodStats, GoodViews

LEMMA DetailsCarry ==
    ASSUME NEW s, GoodDetails(s), NEW t, Same(s, t, CoreFields)
    PROVE  GoodDetails(t) /\ Visible(t) = Visible(s) /\ t.archive = s.archive
           /\ (Awaited(s) => Awaited(t)) /\ \A C, now : Keeps(s, C, now) => Keeps(t, C, now)
<1>1. /\ t.slots = s.slots /\ t.first = s.first /\ t.n = s.n /\ t.next = s.next /\ t.limit = s.limit
      /\ t.archive = s.archive /\ t.expiry = s.expiry /\ t.price = s.price /\ DOMAIN t = DOMAIN s
  BY DEF Same, CoreFields
<1>2. Visible(t) = Visible(s)
  BY <1>1 DEF Visible, IdsAt
<1>3. GoodRows(t)
  BY <1>1 DEF GoodDetails, GoodRows
<1>4. GoodDetails(t)
  BY <1>1, <1>2, <1>3 DEF GoodDetails, GoodArchive
<1> QED BY <1>1, <1>2, <1>4 DEF Awaited, Keeps

LEMMA RangeCarry ==
    ASSUME NEW s, GoodDetails(s), NEW t, Same(s, t, RangeFields)
    PROVE  Carried(s, t)
<1>1. Same(s, t, CoreFields) /\ Same(s, t, {"expiry", "limit", "price", "priced", "summaries"})
  BY DEF Same, CoreFields, RangeFields
<1>2. t.slots = s.slots /\ t.first = s.first /\ t.n = s.n /\ t.blocks = s.blocks /\ t.priced = s.priced
  BY DEF Same, CoreFields, RangeFields
<1>3. GoodBlocks(s) => GoodBlocks(t)
  <2>1. \A f, e : IdsAt(t, f, e) = IdsAt(s, f, e)
    BY <1>2 DEF IdsAt
  <2>2. ASSUME NEW b, GoodBlock(s, b) PROVE GoodBlock(t, b)
    BY <1>2, <2>1, <2>2 DEF GoodBlock
  <2> QED BY <1>2, <2>2 DEF GoodBlocks
<1> QED BY <1>1, <1>3, DetailsCarry DEF Carried

(* Blocks stay good while they are of rows that stay where they are, up to *)
(* position m.                                                             *)
LEMMA BlocksStay ==
    ASSUME NEW s, GoodBlocks(s), s.first \in Nat, NEW t, t.first \in Nat, t.n \in Nat, s.first <= t.first,
           t.priced = s.priced, DOMAIN t.blocks \subseteq DOMAIN s.blocks,
           NEW m \in Nat, m <= t.first + t.n, \A k \in t.first + 1 .. m : t.slots[k].id = s.slots[k].id,
           \A b \in DOMAIN t.blocks :
               t.blocks[b] = s.blocks[b] /\ (s.blocks[b].from >= s.first => s.blocks[b].end <= m)
    PROVE  GoodBlocks(t)
<1> SUFFICES ASSUME NEW b \in DOMAIN t.blocks PROVE GoodBlock(t, b)
  BY DEF GoodBlocks
<1>1. PICK block : block = s.blocks[b]
  OBVIOUS
<1>2. b \in DOMAIN s.blocks /\ t.blocks[b] = block /\ GoodBlock(s, b) /\ (block.from >= s.first => block.end <= m)
  BY <1>1 DEF GoodBlocks
<1>3. DOMAIN block = {"from", "end", "sums", "times"} /\ block.from \in Nat /\ block.end \in Nat
  BY <1>1, <1>2 DEF GoodBlock
<1>4. ASSUME block.from >= t.first
      PROVE  /\ block.end <= t.first + t.n /\ block.end <= (b + 1) * BlockRows
             /\ block.times = {TimeOf[r] : r \in IdsAt(t, block.from, block.end)}
             /\ \A x \in DOMAIN block.sums : block.sums[x] = Priced(IdsAt(t, block.from, block.end), t.priced)
  <2>1. block.from >= s.first
    BY <1>3, <1>4
  <2>2. \A k \in block.from + 1 .. block.end : k \in t.first + 1 .. m
    BY <1>2, <1>3, <1>4, <2>1
  <2>3. IdsAt(t, block.from, block.end) = IdsAt(s, block.from, block.end)
    BY <2>2 DEF IdsAt
  <2>4. /\ block.end <= (b + 1) * BlockRows
        /\ block.times = {TimeOf[r] : r \in IdsAt(s, block.from, block.end)}
        /\ \A x \in DOMAIN block.sums : block.sums[x] = Priced(IdsAt(s, block.from, block.end), s.priced)
    BY <1>1, <1>2, <2>1 DEF GoodBlock
  <2>5. block.end <= t.first + t.n
    BY <1>2, <1>3, <2>1
  <2> QED BY <2>3, <2>4, <2>5
<1> QED BY <1>2, <1>3, <1>4 DEF GoodBlock

LEMMA NoBlocks ==
    ASSUME NEW s, s.blocks = <<>>
    PROVE  GoodBlocks(s)
BY DEF GoodBlocks

LEMMA RebindSame ==
    ASSUME NEW s, DOMAIN s = ViewFields, NEW from
    PROVE  Same(s, Rebind(s, from), ViewFields \ {"refs"})
BY DEF Rebind, Same, ViewFields

LEMMA RebindCarries ==
    ASSUME NEW s, GoodDetails(s), NEW from
    PROVE  Carried(s, Rebind(s, from))
<1>1. Same(s, Rebind(s, from), RangeFields)
  BY RebindSame DEF GoodDetails, Same, ViewFields, RangeFields, CoreFields
<1> QED BY <1>1, RangeCarry

LEMMA ClearListsSame ==
    ASSUME NEW s, DOMAIN s = ViewFields
    PROVE  Same(s, ClearLists(s), RangeFields)
BY DEF ClearLists, Same, ViewFields, RangeFields, CoreFields

LEMMA DropResponsesSame ==
    ASSUME NEW s, DOMAIN s = ViewFields
    PROVE  Same(s, DropResponses(s), RangeFields \ {"summaries"}) /\ DropResponses(s).summaries = <<>>
BY DEF DropResponses, Same, ViewFields, RangeFields, CoreFields

LEMMA InvalidateSummarySame ==
    ASSUME NEW s, DOMAIN s = ViewFields
    PROVE  /\ Same(s, InvalidateSummary(s), CoreFields \cup {"priced"})
           /\ InvalidateSummary(s).summaries = <<>> /\ InvalidateSummary(s).blocks = <<>>
<1>1. PICK t : t = DropResponses(s)
  OBVIOUS
<1>2. Same(s, t, RangeFields \ {"summaries"}) /\ t.summaries = <<>>
  BY <1>1, DropResponsesSame
<1>3. PICK u : u = ClearLists(t)
  OBVIOUS
<1>4. DOMAIN t = ViewFields
  BY <1>2 DEF Same
<1>5. Same(t, u, RangeFields)
  BY <1>3, <1>4, ClearListsSame
<1>6. InvalidateSummary(s) = [u EXCEPT !.blocks = <<>>]
  BY <1>1, <1>3 DEF InvalidateSummary
<1>7. Same(s, u, CoreFields \cup {"priced"}) /\ u.summaries = <<>> /\ DOMAIN u = ViewFields
  BY <1>2, <1>4, <1>5 DEF Same, RangeFields, CoreFields
<1>8. PICK v : v = [u EXCEPT !.blocks = <<>>]
  OBVIOUS
<1>9. Same(u, v, ViewFields \ {"blocks"}) /\ v.blocks = <<>>
  BY <1>7, <1>8 DEF Same, ViewFields
<1>10. Same(u, v, CoreFields \cup {"priced"}) /\ v.summaries = u.summaries
  BY <1>9 DEF Same, ViewFields, CoreFields
<1>11. Same(s, v, CoreFields \cup {"priced"})
  BY <1>7, <1>10 DEF Same
<1> QED BY <1>6, <1>7, <1>8, <1>9, <1>10, <1>11

(* A change after which nothing is kept but the details.                   *)
LEMMA NothingStale ==
    ASSUME NEW s, s.blocks = <<>>, s.summaries = <<>>, NEW C, NEW now
    PROVE  GoodViews(s, C, now)
BY NoBlocks DEF GoodViews, GoodSummaries

LEMMA InvalidateSummaryGood ==
    ASSUME NEW s, GoodDetails(s), Awaited(s), NEW C, NEW now, Keeps(s, C, now)
    PROVE  GoodStats(InvalidateSummary(s), C, now)
<1>1. PICK t : t = InvalidateSummary(s)
  OBVIOUS
<1>2. Same(s, t, CoreFields) /\ t.summaries = <<>> /\ t.blocks = <<>>
  BY <1>1, InvalidateSummarySame DEF GoodDetails, Same
<1>3. GoodDetails(t) /\ Awaited(t) /\ Keeps(t, C, now)
  BY <1>2, DetailsCarry
<1>4. GoodViews(t, C, now)
  BY <1>2, NothingStale
<1> QED BY <1>1, <1>3, <1>4 DEF GoodStats

LEMMA CarriedItself == \A s : GoodDetails(s) => Carried(s, s)
BY RangeCarry DEF Same

LEMMA NoVacancies == \A rows \in Seq(Row) : \A v : rows \o Vacancies(v) = Laid(rows, 0, v)
<1> TAKE rows \in Seq(Row)
<1> TAKE v
<1>1. PICK c : c = Vacancies(0)
  OBVIOUS
<1>2. c = <<>>
  BY <1>1 DEF Vacancies
<1>3. c \o rows = rows
  BY <1>2, ConcatEmptySeq
<1> QED BY <1>1, <1>3, Zenon DEF Laid

(* The requests of s in another array. *)
LEMMA RelaidDetails ==
    ASSUME NEW s, GoodDetails(s), NEW t, DOMAIN t = ViewFields,
           NEW rows \in Seq(Row), Distinct(rows), NEW f \in Nat, NEW v \in Nat,
           t.slots = Laid(rows, f, v), t.first = f, t.n = Len(rows), t.next \in Int,
           t.limit \in Nat, t.price \in Nat,
           t.archive \subseteq Requests, IsFiniteSet(t.archive), t.archive \cap IdsOf(rows) = {}
    PROVE  GoodDetails(t) /\ Visible(t) = IdsOf(rows)
BY LaidOutRows DEF GoodDetails, GoodArchive

LEMMA CompactStorageCarries ==
    ASSUME NEW s, GoodDetails(s), NEW before
    PROVE  Carried(s, CompactStorage(s, before))
<1> DEFINE empty == [s EXCEPT !.slots = <<>>, !.first = 0, !.blocks = <<>>]
           room  == Larger(1, s.n \div 4)
           small == [s EXCEPT !.slots = Details(s) \o Vacancies(room), !.first = 0, !.blocks = <<>>, !.refs = Astray(s)]
<1>1. \/ s.n = 0 /\ CompactStorage(s, before) = empty
      \/ CompactStorage(s, before) = s
      \/ CompactStorage(s, before) = Rebind(small, 0)
  BY DEF CompactStorage
<1>2. GoodRows(s) /\ DOMAIN s = ViewFields /\ s.n \in Nat /\ s.next \in Int /\ s.limit \in Nat /\ s.price \in Nat
      /\ s.archive \subseteq Requests /\ IsFiniteSet(s.archive) /\ s.archive \cap Visible(s) = {} /\ s.first \in Nat
  BY DEF GoodDetails, GoodRows, GoodArchive
<1>3. ASSUME s.n = 0 PROVE Carried(s, empty)
  <2>1. PICK t : t = empty
    OBVIOUS
  <2>2. /\ DOMAIN t = ViewFields /\ t.slots = <<>> /\ t.first = 0 /\ t.blocks = <<>> /\ t.n = 0
        /\ t.next = s.next /\ t.archive = s.archive
    BY <1>2, <1>3, <2>1 DEF ViewFields
  <2>3. Same(s, t, {"expiry", "limit", "price", "priced", "summaries"})
    BY <1>2, <2>1 DEF ViewFields, Same
  <2>4. Visible(t) = {} /\ Visible(s) = {}
    BY <1>2, <1>3, <2>2 DEF Visible, IdsAt
  <2>5. GoodRows(t)
    BY <1>2, <2>2 DEF GoodRows
  <2>6. GoodDetails(t)
    BY <1>2, <2>2, <2>3, <2>4, <2>5 DEF GoodDetails, GoodArchive, Same
  <2> QED BY <2>1, <2>2, <2>3, <2>4, <2>6, NoBlocks DEF Carried
<1>4. Carried(s, small)
  <2>1. PICK t : t = small
    OBVIOUS
  <2>2. PICK rows : rows = Details(s)
    OBVIOUS
  <2>3. rows \in Seq(Row) /\ Len(rows) = s.n /\ Distinct(rows) /\ IdsOf(rows) = Visible(s)
    BY <1>2, <2>2, DetailRows, RowsOfDetails
  <2>4. room \in Nat
    <3>1. s.n \div 4 \in Int
      BY <1>2
    <3> QED BY <3>1 DEF Larger
  <2>5. /\ DOMAIN t = ViewFields /\ t.slots = rows \o Vacancies(room) /\ t.first = 0 /\ t.blocks = <<>>
        /\ t.n = s.n /\ t.next = s.next /\ t.archive = s.archive
    <3> HIDE DEF room
    <3> QED BY <1>2, <2>1, <2>2 DEF ViewFields
  <2>6. Same(s, t, {"expiry", "limit", "price", "priced", "summaries"})
    <3> HIDE DEF room
    <3> QED BY <1>2, <2>1 DEF ViewFields, Same
  <2>7. t.slots = Laid(rows, 0, room)
    BY <2>3, <2>5, NoVacancies
  <2>8. t.limit \in Nat /\ t.price \in Nat /\ t.next \in Int
    BY <1>2, <2>5, <2>6 DEF Same
  <2>9. GoodDetails(t) /\ Visible(t) = Visible(s)
    <3> HIDE DEF room
    <3>1. 0 \in Nat
      OBVIOUS
    <3>2. t.n = Len(rows) /\ t.archive \cap IdsOf(rows) = {} /\ t.archive \subseteq Requests /\ IsFiniteSet(t.archive)
      BY <1>2, <2>3, <2>5
    <3> QED BY <2>3, <2>4, <2>5, <2>7, <2>8, <3>1, <3>2, RelaidDetails
  <2> QED BY <2>1, <2>5, <2>6, <2>9, NoBlocks DEF Carried
<1>5. Carried(s, Rebind(small, 0))
  <2>1. GoodDetails(small)
    BY <1>4 DEF Carried
  <2> HIDE DEF small
  <2> QED BY <1>4, <2>1, RebindCarries, CarriedTwice
<1> HIDE DEF empty, small
<1> QED BY <1>1, <1>3, <1>5, CarriedItself

LEMMA TrimCarries ==
    ASSUME NEW s, GoodDetails(s)
    PROVE  Carried(s, Trim(s))
<1> DEFINE over == s.n - s.limit
           gone == {Details(s)[i].id : i \in 1 .. over}
           t == [s EXCEPT !.slots = [k \in DOMAIN @ |-> IF k <= s.first + over THEN Vacant ELSE @[k]],
                          !.first = @ + over, !.n = s.limit, !.archive = @ \cup gone,
                          !.refs = Without(@, gone), !.dirty = @ \/ gone \cap DOMAIN s.refs # {}]
<1>1. /\ GoodRows(s) /\ DOMAIN s = ViewFields /\ s.n \in Nat /\ s.limit \in Nat /\ s.price \in Nat
      /\ s.first \in Nat /\ s.slots \in Seq(Row) /\ s.first + s.n <= Len(s.slots) /\ s.next \in Int
      /\ s.archive \subseteq Requests /\ IsFiniteSet(s.archive) /\ s.archive \cap Visible(s) = {}
  BY DEF GoodDetails, GoodRows, GoodArchive
<1>2. CASE over <= 0
  <2>1. Trim(s) = s
    BY <1>2 DEF Trim
  <2> QED BY <2>1, CarriedItself
<1>3. CASE ~(over <= 0)
  <2>1. over \in 1 .. s.n /\ over + s.limit = s.n
    BY <1>1, <1>3
  <2>2. Trim(s) = CompactStorage(t, Capacity(s))
    BY <1>3 DEF Trim
  <2>3. \A i \in 1 .. s.n : Details(s)[i] = s.slots[s.first + i]
    BY <1>1, DetailRows
  <2> DEFINE u == s.first + over
  <2> HIDE DEF over
  <2>4. /\ s.first \in Nat /\ s.n \in Nat /\ s.limit \in Nat /\ over \in Nat /\ over <= s.n
        /\ over + s.limit = s.n
    BY <1>1, <2>1
  <2>5. /\ u \in Nat /\ s.first \in Nat /\ s.first <= u /\ u <= s.first + s.n /\ u + s.limit = s.first + s.n
        /\ s.first + s.n \in Nat /\ s.limit \in Nat
    BY <2>4
  <2>6. gone = IdsAt(s, s.first, u)
    <3>1. \A k \in s.first + 1 .. u : k - s.first \in 1 .. over /\ s.first + (k - s.first) = k
      BY <2>4
    <3>2. \A i \in 1 .. over : i \in 1 .. s.n /\ s.first + i \in s.first + 1 .. u
      BY <2>4
    <3>3. \A k \in s.first + 1 .. u : Details(s)[k - s.first] = s.slots[k]
      <4> HIDE DEF u
      <4> QED BY <2>3, <3>1, <3>2
    <3> HIDE DEF u
    <3>4. \A i \in 1 .. over : Details(s)[i].id \in IdsAt(s, s.first, u)
      BY <2>3, <3>2 DEF IdsAt
    <3>5. \A k \in s.first + 1 .. u : s.slots[k].id \in gone
      BY <3>1, <3>3
    <3> QED BY <3>4, <3>5 DEF IdsAt
  <2> HIDE DEF gone
  <2>7. PICK x : x = [k \in DOMAIN s.slots |-> IF k <= u THEN Vacant ELSE s.slots[k]]
    OBVIOUS
  <2>8. PICK y : y = t
    OBVIOUS
  <2>9. DOMAIN y = ViewFields /\ y.slots = x /\ y.first = u /\ y.n = s.limit /\ y.archive = s.archive \cup gone
        /\ y.next = s.next /\ y.blocks = s.blocks
    BY <1>1, <2>7, <2>8 DEF ViewFields
  <2> HIDE DEF u
  <2>10. Same(s, y, {"expiry", "limit", "price", "priced", "summaries"})
    BY <1>1, <2>8 DEF ViewFields, Same
  <2>11. Len(s.slots) \in Nat /\ DOMAIN s.slots = 1 .. Len(s.slots) /\ \A k \in 1 .. Len(s.slots) : s.slots[k] \in Row
    BY <1>1, LenProperties, ElementOfSeq
  <2>12. Vacant \in Row
    BY DEF Vacant, Row
  <2>13. x \in Seq(Row) /\ Len(x) = Len(s.slots) /\ \A k \in 1 .. Len(s.slots) : ~(k <= u) => x[k] = s.slots[k]
    BY <2>7, <2>11, <2>12
  <2>14. u \in Nat /\ u + s.limit = s.first + s.n /\ \A k \in u + 1 .. u + s.limit :
            k \in 1 .. Len(s.slots) /\ ~(k <= u) /\ k \in s.first + 1 .. s.first + s.n
    <3>1. Len(s.slots) \in Nat /\ s.first + s.n <= Len(s.slots)
      BY <1>1, <2>11
    <3> QED BY <2>5, <3>1
  <2>15. \A k \in u + 1 .. u + s.limit : x[k] = s.slots[k]
    BY <2>13, <2>14
  <2>16. GoodRows(y)
    <3>1. \A k \in u + 1 .. u + s.limit : x[k].id \in Requests
      BY <2>14, <2>15 DEF GoodDetails, GoodRows
    <3>2. \A k, l \in u + 1 .. u + s.limit : x[k].id = x[l].id => k = l
      BY <2>14, <2>15 DEF GoodDetails, GoodRows
    <3>3. u + s.limit <= Len(x)
      BY <1>1, <2>13, <2>14
    <3> QED BY <1>1, <2>9, <2>13, <2>14, <3>1, <3>2, <3>3 DEF GoodRows
  <2>17. Visible(y) = IdsAt(s, u, s.first + s.n)
    <3>1. Visible(y) = {x[k].id : k \in u + 1 .. u + s.limit}
      BY <2>9 DEF Visible, IdsAt
    <3>2. IdsAt(s, u, s.first + s.n) = {s.slots[k].id : k \in u + 1 .. u + s.limit}
      BY <2>14 DEF IdsAt
    <3> QED BY <2>15, <3>1, <3>2
  <2>18. gone \cup Visible(y) = Visible(s)
    <3>1. (s.first + 1 .. u) \cup (u + 1 .. s.first + s.n) = s.first + 1 .. s.first + s.n
      BY <2>5
    <3> QED BY <2>6, <2>17, <3>1 DEF Visible, IdsAt
  <2>19. gone \cap Visible(y) = {}
    <3>1. ASSUME NEW k \in s.first + 1 .. u, NEW l \in u + 1 .. s.first + s.n PROVE s.slots[k].id # s.slots[l].id
      <4>1. k \in s.first + 1 .. s.first + s.n /\ l \in s.first + 1 .. s.first + s.n /\ k # l
        BY <2>5
      <4> QED BY <4>1 DEF GoodDetails, GoodRows
    <3> QED BY <2>6, <2>17, <3>1 DEF IdsAt
  <2>20. gone \subseteq Requests /\ IsFiniteSet(gone)
    <3>1. gone = {s.slots[k].id : k \in s.first + 1 .. u}
      BY <2>6 DEF IdsAt
    <3>2. IsFiniteSet(s.first + 1 .. u)
      <4>1. s.first + 1 \in Int /\ u \in Int
        BY <2>5
      <4> QED BY <4>1, FS_Interval
    <3> DEFINE f == [k \in s.first + 1 .. u |-> s.slots[k].id]
    <3>3. f \in Surjection(s.first + 1 .. u, gone)
      BY <3>1 DEF Surjection
    <3>4. IsFiniteSet(gone)
      BY <3>2, <3>3, FS_Surjection
    <3>5. \A k \in s.first + 1 .. u : k \in s.first + 1 .. s.first + s.n
      BY <2>5
    <3> QED BY <3>1, <3>4, <3>5 DEF GoodDetails, GoodRows
  <2>21. GoodArchive(y)
    <3>1. IsFiniteSet(s.archive \cup gone)
      BY <1>1, <2>20, FS_Union
    <3> QED BY <1>1, <2>9, <2>18, <2>19, <2>20, <3>1 DEF GoodArchive
  <2>22. GoodDetails(y)
    BY <1>1, <2>9, <2>10, <2>16, <2>21 DEF GoodDetails, Same
  <2>23. ASSUME GoodBlocks(s) PROVE GoodBlocks(y)
    <3>1. s.first <= u /\ s.first + s.n \in Nat /\ s.first + s.n <= u + s.limit
      BY <2>5
    <3>2. \A k \in u + 1 .. s.first + s.n : x[k].id = s.slots[k].id
      BY <2>14, <2>15
    <3>3. \A b \in DOMAIN y.blocks :
              y.blocks[b] = s.blocks[b] /\ (s.blocks[b].from >= s.first => s.blocks[b].end <= s.first + s.n)
      BY <2>9, <2>23 DEF GoodBlocks, GoodBlock
    <3>4. y.priced = s.priced /\ DOMAIN y.blocks \subseteq DOMAIN s.blocks
      BY <2>9, <2>10 DEF Same
    <3>5. y.first = u /\ y.n = s.limit /\ y.slots = x
      BY <2>9
    <3>6. \A k \in y.first + 1 .. s.first + s.n : y.slots[k].id = s.slots[k].id
      BY <3>2, <3>5
    <3> QED BY <2>23, <2>5, <3>1, <3>3, <3>4, <3>5, <3>6, BlocksStay
  <2>24. Carried(s, y)
    BY <2>9, <2>10, <2>18, <2>22, <2>23 DEF Carried
  <2>25. Carried(s, CompactStorage(y, Capacity(s)))
    BY <2>22, <2>24, CompactStorageCarries, CarriedTwice
  <2> QED BY <2>2, <2>8, <2>25
<1> QED BY <1>2, <1>3

(* The same requests in the same places.                                   *)
LEMMA RelabelledCarries ==
    ASSUME NEW s, GoodDetails(s), NEW t, t.slots \in Seq(Row), Len(t.slots) = Len(s.slots),
           \A k \in 1 .. Len(s.slots) : t.slots[k].id = s.slots[k].id, t.next \in Int,
           Same(s, t, RangeFields \ {"slots", "next", "blocks"}),
           DOMAIN t.blocks \subseteq DOMAIN s.blocks,
           \A b \in DOMAIN t.blocks : t.blocks[b] = s.blocks[b]
    PROVE  Carried(s, t)
<1>1. /\ t.first = s.first /\ t.n = s.n /\ t.archive = s.archive /\ t.limit = s.limit /\ t.price = s.price
      /\ DOMAIN t = DOMAIN s /\ t.priced = s.priced
  BY DEF Same, RangeFields, CoreFields
<1>2. Same(s, t, {"expiry", "limit", "price", "priced", "summaries"})
  BY DEF Same, RangeFields, CoreFields
<1>3. /\ GoodRows(s) /\ s.first \in Nat /\ s.n \in Nat /\ s.first + s.n <= Len(s.slots) /\ Len(s.slots) \in Nat
      /\ DOMAIN s = ViewFields /\ GoodArchive(s) /\ s.limit \in Nat /\ s.price \in Nat
  BY LenProperties DEF GoodDetails, GoodRows
<1>4. \A k \in s.first + 1 .. s.first + s.n : k \in 1 .. Len(s.slots)
  BY <1>3
<1>5. \A k \in s.first + 1 .. s.first + s.n : t.slots[k].id = s.slots[k].id
  BY <1>4
<1>6. Visible(t) = Visible(s)
  BY <1>1, <1>5 DEF Visible, IdsAt
<1>7. GoodRows(t)
  <2>1. /\ \A k \in s.first + 1 .. s.first + s.n : s.slots[k].id \in Requests
        /\ \A k, l \in s.first + 1 .. s.first + s.n : s.slots[k].id = s.slots[l].id => k = l
    BY <1>3 DEF GoodRows
  <2>2. \A k \in t.first + 1 .. t.first + t.n : t.slots[k].id \in Requests
    BY ONLY <1>1, <1>5, <2>1
  <2>3. \A k, l \in t.first + 1 .. t.first + t.n : t.slots[k].id = t.slots[l].id => k = l
    BY ONLY <1>1, <1>5, <2>1
  <2>4. t.slots \in Seq(Row) /\ t.first \in Nat /\ t.n \in Nat /\ t.next \in Int /\ t.first + t.n <= Len(t.slots)
    BY <1>1, <1>3
  <2> QED BY ONLY <2>2, <2>3, <2>4 DEF GoodRows
<1>8. GoodDetails(t)
  BY <1>1, <1>3, <1>6, <1>7 DEF GoodDetails, GoodArchive
<1>9. ASSUME GoodBlocks(s) PROVE GoodBlocks(t)
  <2>1. s.first + s.n \in Nat /\ s.first <= t.first /\ s.first + s.n <= t.first + t.n /\ t.first \in Nat /\ t.n \in Nat
    BY <1>1, <1>3
  <2>2. \A k \in t.first + 1 .. s.first + s.n : t.slots[k].id = s.slots[k].id
    BY <1>1, <1>5
  <2>3. \A b \in DOMAIN t.blocks :
            t.blocks[b] = s.blocks[b] /\ (s.blocks[b].from >= s.first => s.blocks[b].end <= s.first + s.n)
    BY <1>9 DEF GoodBlocks, GoodBlock
  <2> QED BY <1>1, <1>3, <1>9, <2>1, <2>2, <2>3, BlocksStay
<1> QED BY <1>1, <1>2, <1>6, <1>8, <1>9 DEF Carried

LEMMA NumberCarries ==
    ASSUME NEW s, GoodDetails(s)
    PROVE  Carried(s, Number(s)) /\ Len(Number(s).slots) = Len(s.slots)
           /\ Number(s).first = s.first /\ Number(s).n = s.n /\ Number(s).archive = s.archive
           /\ Number(s).blocks = s.blocks /\ Visible(Number(s)) = Visible(s)
           /\ \A k \in 1 .. Len(s.slots) : Number(s).slots[k].id = s.slots[k].id
<1>1. /\ GoodRows(s) /\ s.first \in Nat /\ s.n \in Nat /\ s.first + s.n <= Len(s.slots) /\ s.slots \in Seq(Row)
      /\ DOMAIN s = ViewFields
  BY DEF GoodDetails, GoodRows
<1>2. Len(s.slots) \in Nat /\ DOMAIN s.slots = 1 .. Len(s.slots) /\ \A k \in 1 .. Len(s.slots) : s.slots[k] \in Row
  BY <1>1, LenProperties, ElementOfSeq
<1>3. CASE s.next # 0
  <2>1. Number(s) = s
    BY <1>3 DEF Number
  <2> QED BY <2>1, CarriedItself
<1>4. CASE ~(s.next # 0)
  <2>1. PICK x : x = [k \in DOMAIN s.slots |-> IF k \in s.first + 1 .. s.first + s.n
                                               THEN [s.slots[k] EXCEPT !.seq = k - s.first] ELSE s.slots[k]]
    OBVIOUS
  <2>2. PICK t : t = Number(s)
    OBVIOUS
  <2>3. t = [s EXCEPT !.next = s.n, !.slots = x]
    BY <1>4, <2>1, <2>2 DEF Number
  <2>4. ASSUME NEW k \in 1 .. Len(s.slots) PROVE x[k] \in Row /\ x[k].id = s.slots[k].id
    <3>1. s.slots[k] \in Row /\ k \in DOMAIN s.slots
      BY <1>2
    <3>2. k - s.first \in Int
      BY <1>1
    <3>3. [s.slots[k] EXCEPT !.seq = k - s.first] \in Row
          /\ [s.slots[k] EXCEPT !.seq = k - s.first].id = s.slots[k].id
      BY <3>1, <3>2 DEF Row
    <3>4. x[k] = [s.slots[k] EXCEPT !.seq = k - s.first] \/ x[k] = s.slots[k]
      BY <2>1, <3>1
    <3> QED BY <3>1, <3>3, <3>4
  <2>5. x \in Seq(Row) /\ Len(x) = Len(s.slots)
    <3>1. DOMAIN x = 1 .. Len(s.slots) /\ x = [k \in 1 .. Len(s.slots) |-> x[k]]
      BY <1>2, <2>1
    <3> HIDE <2>1
    <3>2. x \in [1 .. Len(s.slots) -> Row]
      BY <2>4, <3>1
    <3> QED BY <1>2, <3>2
  <2> HIDE <2>1
  <2>6. t.slots = x /\ t.next = s.n /\ t.blocks = s.blocks /\ t.first = s.first /\ t.n = s.n /\ t.archive = s.archive
    BY <1>1, <2>3 DEF ViewFields
  <2>7. Same(s, t, RangeFields \ {"slots", "next", "blocks"})
    BY <1>1, <2>3 DEF ViewFields, Same, RangeFields, CoreFields
  <2>8. t.next \in Int
    BY <1>1, <2>6
  <2>9. Carried(s, t)
    BY <2>4, <2>5, <2>6, <2>7, <2>8, RelabelledCarries
  <2>10. \A k \in s.first + 1 .. s.first + s.n : x[k].id = s.slots[k].id
    <3>1. \A k \in s.first + 1 .. s.first + s.n : k \in 1 .. Len(s.slots)
      BY <1>1, <1>2
    <3> QED BY <2>4, <3>1
  <2>11. Visible(t) = Visible(s)
    BY <2>6, <2>10 DEF Visible, IdsAt
  <2> QED BY <2>2, <2>4, <2>5, <2>6, <2>9, <2>11
<1> QED BY <1>3, <1>4

LEMMA DropBlocksSame ==
    ASSUME NEW s, DOMAIN s = ViewFields, NEW from
    PROVE  /\ Same(s, DropBlocks(s, from), ViewFields \ {"blocks"})
           /\ DOMAIN DropBlocks(s, from).blocks = {b \in DOMAIN s.blocks : b < (s.first + from) \div BlockRows}
           /\ \A b \in DOMAIN DropBlocks(s, from).blocks : DropBlocks(s, from).blocks[b] = s.blocks[b]
BY DEF DropBlocks, Same, ViewFields

LEMMA PlaceFound ==
    ASSUME NEW s, GoodRows(s), NEW r \in Shown(s)
    PROVE  PlaceOf(s, r) \in 1 .. s.n /\ Details(s)[PlaceOf(s, r)].id = r
BY DEF PlaceOf, Shown

LEMMA SetDetailCarries ==
    ASSUME NEW s, GoodDetails(s), NEW r \in Shown(s)
    PROVE  Carried(s, SetDetail(s, r)) /\ Shown(SetDetail(s, r)) = Shown(s)
           /\ SetDetail(s, r).archive = s.archive
<1> DEFINE i == PlaceOf(s, r)
           j == s.first + i
<1>1. /\ GoodRows(s) /\ s.first \in Nat /\ s.n \in Nat /\ s.first + s.n <= Len(s.slots) /\ s.slots \in Seq(Row)
      /\ DOMAIN s = ViewFields /\ s.next \in Int
  BY DEF GoodDetails, GoodRows
<1>2. Len(s.slots) \in Nat /\ DOMAIN s.slots = 1 .. Len(s.slots) /\ \A k \in 1 .. Len(s.slots) : s.slots[k] \in Row
  BY <1>1, LenProperties, ElementOfSeq
<1>3. i \in 1 .. s.n
  BY <1>1, PlaceFound
<1>4. j \in 1 .. Len(s.slots)
  <2> HIDE DEF i
  <2> QED BY <1>1, <1>2, <1>3
<1>5. PICK d : d = DropBlocks(s, i - 1)
  OBVIOUS
<1>6. /\ Same(s, d, ViewFields \ {"blocks"}) /\ DOMAIN d.blocks \subseteq DOMAIN s.blocks
      /\ \A b \in DOMAIN d.blocks : d.blocks[b] = s.blocks[b]
  BY <1>1, <1>5, DropBlocksSame
<1>7. PICK t : t = SetDetail(s, r)
  OBVIOUS
<1>8. t = [d EXCEPT !.slots = [d.slots EXCEPT ![j] = [d.slots[j] EXCEPT !.rich = TRUE]]]
  BY <1>5, <1>7 DEF SetDetail
<1>9. d.slots = s.slots /\ d.next = s.next /\ DOMAIN d = ViewFields
  BY <1>1, <1>6 DEF Same, ViewFields
<1>10. PICK x : x = [s.slots EXCEPT ![j] = [s.slots[j] EXCEPT !.rich = TRUE]]
  OBVIOUS
<1>11. t = [d EXCEPT !.slots = x]
  BY <1>8, <1>9, <1>10
<1> HIDE DEF i, j
<1>12. x \in Seq(Row) /\ Len(x) = Len(s.slots) /\ \A k \in 1 .. Len(s.slots) : x[k].id = s.slots[k].id
  <2>1. PICK e : e = [s.slots[j] EXCEPT !.rich = TRUE]
    OBVIOUS
  <2>2. s.slots[j] \in Row
    BY <1>2, <1>4
  <2>3. e \in Row /\ e.id = s.slots[j].id
    BY <2>1, <2>2 DEF Row
  <2>4. x = [s.slots EXCEPT ![j] = e]
    BY <1>10, <2>1
  <2> QED BY <1>1, <1>2, <1>4, <2>3, <2>4
<1>13. t.slots = x /\ t.next = s.next /\ t.blocks = d.blocks /\ t.archive = s.archive
       /\ t.first = s.first /\ t.n = s.n
  BY <1>1, <1>6, <1>9, <1>11 DEF Same, ViewFields
<1>14. Same(s, t, RangeFields \ {"slots", "next", "blocks"})
  BY <1>1, <1>6, <1>11 DEF ViewFields, Same, RangeFields, CoreFields
<1>15. Carried(s, t)
  BY <1>1, <1>6, <1>12, <1>13, <1>14, RelabelledCarries
<1>16. \A k \in s.first + 1 .. s.first + s.n : x[k].id = s.slots[k].id
  <2>1. \A k \in s.first + 1 .. s.first + s.n : k \in 1 .. Len(s.slots)
    BY <1>1, <1>2
  <2> QED BY <1>12, <2>1
<1>17. Visible(t) = Visible(s)
  BY <1>13, <1>16 DEF Visible, IdsAt
<1>18. Shown(t) = Shown(s)
  BY <1>1, <1>15, <1>17, ShownVisible DEF Carried, GoodDetails
<1> QED BY <1>7, <1>13, <1>15, <1>18


LEMMA NextExpiryAwaits ==
    ASSUME NEW ids, ids \subseteq Requests
    PROVE  /\ NextExpiry(ids) \in Int
           /\ \A r \in ids : KeepFor # 0 /\ TimeOf[r] # 0 =>
                NextExpiry(ids) # 0 /\ NextExpiry(ids) <= TimeOf[r] + KeepFor
<1> DEFINE due == {TimeOf[r] + KeepFor : r \in {r \in ids : TimeOf[r] # 0}}
<1>1. KeepFor \in Nat /\ \A r \in ids : TimeOf[r] \in Nat
  BY RequestsAssumption, SettingsAssumption
<1>2. due \subseteq Nat /\ \A e \in due : e # 0
  BY <1>1
<1>3. \A r \in ids : TimeOf[r] # 0 => TimeOf[r] + KeepFor \in due
  OBVIOUS
<1>4. NextExpiry(ids) = IF KeepFor = 0 \/ due = {} THEN 0 ELSE CHOOSE e \in due : \A f \in due : e <= f
  BY DEF NextExpiry
<1> HIDE DEF due
<1>5. CASE KeepFor = 0 \/ due = {}
  BY <1>3, <1>4, <1>5
<1>6. CASE ~(KeepFor = 0 \/ due = {})
  <2>1. \E e \in due : \A f \in due : e <= f
    BY <1>2, <1>6, LeastElement
  <2>2. NextExpiry(ids) = CHOOSE e \in due : \A f \in due : e <= f
    BY <1>4, <1>6
  <2>3. NextExpiry(ids) \in due /\ \A f \in due : NextExpiry(ids) <= f
    BY <2>1, <2>2
  <2> HIDE <2>2
  <2>4. NextExpiry(ids) \in Nat /\ NextExpiry(ids) # 0
    BY <1>2, <2>3
  <2>5. \A r \in ids : TimeOf[r] # 0 => NextExpiry(ids) <= TimeOf[r] + KeepFor
    BY <1>3, <2>3
  <2> QED BY <2>4, <2>5
<1> QED BY <1>5, <1>6
(* What pruning leaves, given what is left of the rows.                    *)
Pruned(s, t) ==
    LET kept == Unexpired(Details(s))
    IN  /\ GoodDetails(t) /\ Awaited(t)
        /\ t.archive = {r \in s.archive : ~Expired(r)} /\ Visible(t) = {r \in Visible(s) : ~Expired(r)}
        /\ Same(s, t, {"limit", "price", "priced", "summaries", "blocks"})
        /\ t.n = Len(kept)
        /\ kept # <<>> => t.first = s.first /\ \A i \in 1 .. Len(kept) : t.slots[s.first + i] = kept[i]

LEMMA KeptRows ==
    ASSUME NEW s, GoodDetails(s), NEW kept, kept = Unexpired(Details(s))
    PROVE  /\ kept \in Seq(Row) /\ Distinct(kept) /\ IdsOf(kept) = {r \in Visible(s) : ~Expired(r)}
           /\ Len(kept) \in Nat /\ Len(kept) <= s.n
           /\ {r \in Shown(s) : Expired(r)} = {} =>
                Len(kept) = s.n /\ \A i \in 1 .. s.n : kept[i] = s.slots[s.first + i]
<1>1. PICK rows : rows = Details(s)
  OBVIOUS
<1>2. /\ rows \in Seq(Row) /\ Len(rows) = s.n /\ \A i \in 1 .. s.n : rows[i] = s.slots[s.first + i]
      /\ Distinct(rows) /\ IdsOf(rows) = Visible(s) /\ Shown(s) = Visible(s) /\ s.n \in Nat
  BY <1>1, DetailRows, RowsOfDetails, ShownVisible DEF GoodDetails, GoodRows
<1>3. LeftOf(kept, rows, s.n)
  BY <1>1, <1>2, UnexpiredLeft
<1>4. kept \in Seq(Row) /\ Len(kept) \in Nat /\ Len(kept) <= s.n
  BY <1>3, LenProperties DEF LeftOf
<1>5. \A k \in 1 .. Len(kept) : kept[k].id \in IdsOf(rows) /\ ~Expired(kept[k].id)
  BY <1>2, <1>3 DEF LeftOf, IdsOf
<1>6. \A j \in 1 .. s.n : Expired(rows[j].id) \/ rows[j].id \in IdsOf(kept)
  BY <1>3 DEF LeftOf, IdsOf
<1>7. IdsOf(kept) = {r \in Visible(s) : ~Expired(r)}
  <2>1. \A r \in IdsOf(kept) : r \in Visible(s) /\ ~Expired(r)
    BY <1>2, <1>5 DEF IdsOf
  <2>2. \A r \in Visible(s) : Expired(r) \/ r \in IdsOf(kept)
    <3>1. \A r \in Visible(s) : \E j \in 1 .. s.n : r = rows[j].id
      BY <1>2 DEF IdsOf
    <3> QED BY <1>6, <3>1
  <2> QED BY <2>1, <2>2
<1>8. Distinct(kept)
  <2>1. IdsOf(rows) \subseteq Requests
    BY <1>2 DEF Distinct, IdsOf
  <2> QED BY <1>3, <1>5, <2>1 DEF Distinct, LeftOf
<1>9. ASSUME {r \in Shown(s) : Expired(r)} = {}
      PROVE  Len(kept) = s.n /\ \A i \in 1 .. s.n : kept[i] = s.slots[s.first + i]
  <2>1. \A j \in 1 .. s.n : rows[j].id \in Shown(s)
    BY <1>2 DEF IdsOf
  <2>2. \A j \in 1 .. s.n : ~Expired(rows[j].id)
    BY <1>9, <2>1
  <2> QED BY <1>2, <1>3, <2>2 DEF LeftOf
<1> QED BY <1>4, <1>7, <1>8, <1>9

PrunedDetails(s, kept, gone, left) ==
    [s EXCEPT !.slots = IF kept = <<>> THEN <<>>
                        ELSE Vacancies(s.first) \o kept \o Vacancies(Capacity(s) - Len(kept)),
              !.first = IF kept = <<>> THEN 0 ELSE @, !.n = Len(kept), !.archive = left,
              !.refs = Without(@, gone), !.expiry = NextExpiry(left \cup (Shown(s) \ gone))]

LEMMA PrunedRows ==
    ASSUME NEW s, GoodDetails(s), NEW kept, kept = Unexpired(Details(s)), NEW gone, NEW left,
           gone = {r \in Shown(s) : Expired(r)}, left = {r \in s.archive : ~Expired(r)},
           NEW t, t = PrunedDetails(s, kept, gone, left)
    PROVE  Pruned(s, t)
<1>1. /\ GoodRows(s) /\ DOMAIN s = ViewFields /\ s.first \in Nat /\ s.n \in Nat /\ s.next \in Int /\ s.limit \in Nat
      /\ s.price \in Nat /\ s.first + s.n <= Len(s.slots) /\ s.archive \subseteq Requests /\ IsFiniteSet(s.archive)
      /\ s.archive \cap Visible(s) = {} /\ Len(s.slots) \in Nat /\ Shown(s) = Visible(s)
  BY LenProperties, ShownVisible DEF GoodDetails, GoodRows, GoodArchive
<1>2. /\ kept \in Seq(Row) /\ Distinct(kept) /\ IdsOf(kept) = {r \in Visible(s) : ~Expired(r)}
      /\ Len(kept) \in Nat /\ Len(kept) <= s.n
  BY KeptRows
<1>3. PICK x : x = IF kept = <<>> THEN <<>> ELSE Laid(kept, s.first, Capacity(s) - Len(kept))
  OBVIOUS
<1>4. t = [s EXCEPT !.slots = x, !.first = IF kept = <<>> THEN 0 ELSE @, !.n = Len(kept), !.archive = left,
                    !.refs = Without(@, gone), !.expiry = NextExpiry(left \cup (Shown(s) \ gone))]
  BY <1>3, Zenon DEF Laid, PrunedDetails
<1>5. /\ DOMAIN t = ViewFields /\ t.slots = x /\ t.n = Len(kept) /\ t.archive = left /\ t.next = s.next
      /\ t.first = (IF kept = <<>> THEN 0 ELSE s.first) /\ t.expiry = NextExpiry(left \cup (Shown(s) \ gone))
  BY <1>1, <1>4 DEF ViewFields
<1>6. Same(s, t, {"limit", "price", "priced", "summaries", "blocks"})
  BY <1>1, <1>4 DEF ViewFields, Same
<1>7. t.limit \in Nat /\ t.price \in Nat /\ t.next \in Int
  BY <1>1, <1>5, <1>6 DEF Same
<1>8. left \subseteq Requests /\ IsFiniteSet(left) /\ left \cap IdsOf(kept) = {}
  <2>1. IsFiniteSet(left)
    BY <1>1, FS_Subset
  <2> QED BY <1>1, <1>2, <2>1
<1>9. /\ GoodDetails(t) /\ Visible(t) = IdsOf(kept)
      /\ kept # <<>> => \A i \in 1 .. Len(kept) : t.slots[s.first + i] = kept[i]
  <2>1. CASE kept = <<>>
    <3>1. t.slots = <<>> /\ t.first = 0 /\ t.n = 0 /\ Len(kept) = 0
      BY <1>3, <1>5, <2>1
    <3>2. Visible(t) = {} /\ IdsOf(kept) = {}
      BY <3>1 DEF Visible, IdsAt, IdsOf
    <3>3. GoodRows(t)
      <4>1. PICK y : y = t.slots
        OBVIOUS
      <4>2. y \in Seq(Row) /\ Len(y) = 0
        BY <3>1, <4>1
      <4>3. 0 \in Nat /\ 0 + 0 <= 0 /\ \A k \in 0 + 1 .. 0 + 0 : FALSE
        OBVIOUS
      <4> QED BY <1>7, <3>1, <4>1, <4>2, <4>3, Zenon DEF GoodRows
    <3> QED BY <1>5, <1>7, <1>8, <2>1, <3>2, <3>3 DEF GoodDetails, GoodArchive
  <2>2. CASE kept # <<>>
    <3> DEFINE v == Capacity(s) - Len(kept)
    <3>1. v \in Nat
      <4>1. Capacity(s) = Len(s.slots) - s.first
        BY DEF Capacity
      <4> QED BY <1>1, <1>2, <4>1
    <3>2. t.slots = Laid(kept, s.first, v) /\ t.first = s.first
      BY <1>3, <1>5, <2>2
    <3> HIDE DEF v
    <3>3. s.first \in Nat /\ kept \in Seq(Row) /\ Distinct(kept)
      BY <1>1, <1>2
    <3>4. /\ DOMAIN t = ViewFields /\ t.n = Len(kept) /\ t.archive \subseteq Requests /\ IsFiniteSet(t.archive)
          /\ t.archive \cap IdsOf(kept) = {}
      BY <1>5, <1>8
    <3>5. GoodDetails(t) /\ Visible(t) = IdsOf(kept)
      BY <1>7, <3>1, <3>2, <3>3, <3>4, RelaidDetails
    <3>6. \A i \in 1 .. Len(kept) : Laid(kept, s.first, v)[s.first + i] = kept[i]
      BY <3>1, <3>3, LaidOut
    <3> QED BY <3>2, <3>5, <3>6
  <2> QED BY <2>1, <2>2
<1>10. left \cup (Shown(s) \ gone) = t.archive \cup Visible(t)
  BY <1>1, <1>2, <1>5, <1>9
<1>11. Visible(t) \subseteq Requests
  BY <1>2, <1>9 DEF IdsOf, Distinct
<1>12. Awaited(t)
  <2>1. t.archive \cup Visible(t) \subseteq Requests
    BY <1>5, <1>8, <1>11
  <2>2. t.expiry = NextExpiry(t.archive \cup Visible(t))
    BY <1>5, <1>10
  <2> QED BY <2>1, <2>2, NextExpiryAwaits DEF Awaited
<1> QED BY <1>2, <1>5, <1>6, <1>9, <1>12 DEF Pruned

(* Pruning leaves what has not expired, and nothing stale of it.           *)
LEMMA PruneDetailsGood ==
    ASSUME NEW s, GoodDetails(s)
    PROVE  /\ GoodDetails(PruneDetails(s)) /\ Awaited(PruneDetails(s))
           /\ PruneDetails(s).archive \cup Visible(PruneDetails(s))
                = {r \in s.archive \cup Visible(s) : ~Expired(r)}
           /\ PruneDetails(s).price = s.price /\ PruneDetails(s).limit = s.limit
           /\ \A C, now : GoodViews(s, C, now) => GoodViews(PruneDetails(s), C, now)
<1>1. PICK kept : kept = Unexpired(Details(s))
  OBVIOUS
<1>2. PICK gone : gone = {r \in Shown(s) : Expired(r)}
  OBVIOUS
<1>3. PICK left : left = {r \in s.archive : ~Expired(r)}
  OBVIOUS
<1>4. PICK t : t = PrunedDetails(s, kept, gone, left)
  OBVIOUS
<1>5. PICK u : u = Rebind(t, 0)
  OBVIOUS
<1>6. PICK v : v = IF u.n > u.limit THEN Trim(u) ELSE CompactStorage(u, Capacity(u))
  OBVIOUS
<1>7. PruneDetails(s) = IF gone # {} \/ left # s.archive \/ u.n > u.limit THEN InvalidateSummary(v) ELSE v
  BY <1>1, <1>2, <1>3, <1>4, <1>5, <1>6, Zenon DEF PruneDetails, PrunedDetails
<1>8. Pruned(s, t)
  BY <1>1, <1>2, <1>3, <1>4, PrunedRows, Zenon
<1> HIDE <1>4
<1>9. GoodDetails(t) /\ Awaited(t) /\ t.price = s.price /\ t.limit = s.limit
      /\ t.archive \cup Visible(t) = {r \in s.archive \cup Visible(s) : ~Expired(r)}
  BY <1>8 DEF Pruned, Same
<1>10. Carried(t, u)
  BY <1>5, <1>9, RebindCarries
<1>11. Carried(t, v)
  <2>1. GoodDetails(u)
    BY <1>10 DEF Carried
  <2>2. Carried(u, v)
    BY <1>6, <2>1, TrimCarries, CompactStorageCarries
  <2> QED BY <1>10, <2>2, CarriedTwice
<1>12. GoodDetails(v) /\ Awaited(v) /\ v.price = s.price /\ v.limit = s.limit
       /\ v.archive \cup Visible(v) = {r \in s.archive \cup Visible(s) : ~Expired(r)}
  BY <1>9, <1>11, CarriedStats DEF Carried, Same
<1>13. CASE gone # {} \/ left # s.archive \/ u.n > u.limit
  <2>1. PICK p : p = InvalidateSummary(v)
    OBVIOUS
  <2>2. Same(v, p, CoreFields) /\ p.summaries = <<>> /\ p.blocks = <<>>
    BY <1>12, <2>1, InvalidateSummarySame DEF GoodDetails, Same
  <2>3. GoodDetails(p) /\ Visible(p) = Visible(v) /\ p.archive = v.archive /\ Awaited(p)
    BY <1>12, <2>2, DetailsCarry
  <2>4. p.price = v.price /\ p.limit = v.limit
    BY <2>2 DEF Same, CoreFields
  <2>5. \A C, now : GoodViews(p, C, now)
    BY <2>2, NothingStale
  <2> QED BY <1>7, <1>12, <1>13, <2>1, <2>3, <2>4, <2>5
<1>14. CASE ~(gone # {} \/ left # s.archive \/ u.n > u.limit)
  <2>1. PruneDetails(s) = v
    BY <1>7, <1>14
  <2>2. v = CompactStorage(u, Capacity(u))
    BY <1>6, <1>14
  <2>3. Len(kept) = s.n /\ \A i \in 1 .. s.n : kept[i] = s.slots[s.first + i]
    BY <1>1, <1>2, <1>14, KeptRows
  <2>4. v.summaries = s.summaries
    BY <1>8, <1>11 DEF Carried, Pruned, Same
  <2>5. ASSUME GoodBlocks(s) PROVE GoodBlocks(v)
    <3>1. CASE kept = <<>>
      <4>1. u.n = 0 /\ DOMAIN u = ViewFields
        <5>1. t.n = 0 /\ DOMAIN t = ViewFields
          BY <1>1, <1>8, <3>1 DEF Pruned, GoodDetails
        <5> QED BY <1>5, <5>1, RebindSame DEF Same, ViewFields
      <4>2. v = [u EXCEPT !.slots = <<>>, !.first = 0, !.blocks = <<>>]
        BY <2>2, <4>1 DEF CompactStorage
      <4>3. v.blocks = <<>>
        BY <4>1, <4>2 DEF ViewFields
      <4> QED BY <4>3, NoBlocks
    <3>2. CASE kept # <<>>
      <4>1. t.first = s.first /\ t.n = s.n /\ t.blocks = s.blocks /\ t.priced = s.priced
            /\ \A i \in 1 .. s.n : t.slots[s.first + i] = s.slots[s.first + i]
        BY <1>1, <1>8, <2>3, <3>2 DEF Pruned, Same
      <4>2. s.first \in Nat /\ s.n \in Nat /\ s.first + s.n \in Nat /\ s.first <= s.first /\ s.first + s.n <= s.first + s.n
        BY DEF GoodDetails, GoodRows
      <4>3. \A k \in s.first + 1 .. s.first + s.n : k - s.first \in 1 .. s.n /\ s.first + (k - s.first) = k
        BY <4>2
      <4>4. \A k \in t.first + 1 .. s.first + s.n : t.slots[k].id = s.slots[k].id
        BY <4>1, <4>3
      <4>5. \A b \in DOMAIN t.blocks :
                t.blocks[b] = s.blocks[b] /\ (s.blocks[b].from >= s.first => s.blocks[b].end <= s.first + s.n)
        BY <2>5, <4>1 DEF GoodBlocks, GoodBlock
      <4>6. GoodBlocks(t)
        BY <2>5, <4>1, <4>2, <4>4, <4>5, BlocksStay
      <4> QED BY <1>11, <4>6 DEF Carried
    <3> QED BY <3>1, <3>2
  <2>6. \A C, now : GoodSummaries(s, C, now) => GoodSummaries(v, C, now)
    BY <1>12, <2>4 DEF GoodSummaries
  <2> QED BY <1>12, <2>1, <2>5, <2>6 DEF GoodViews
<1> QED BY <1>13, <1>14


-----------------------------------------------------------------------------
(* Operations that add a request or take one away.                         *)

LEMMA DivBelow ==
    ASSUME NEW x \in Nat, NEW b \in Nat, b < x \div BlockRows
    PROVE  (b + 1) * BlockRows <= x
<1>1. PICK w \in Nat \ {0} : w = BlockRows
  BY SettingsAssumption
<1>2. PICK q \in Nat : q = x \div w
  OBVIOUS
<1>3. q * w <= x
  BY <1>2
<1>4. b + 1 <= q
  BY <1>1, <1>2
<1>5. (b + 1) * w <= q * w
  BY <1>4
<1> QED BY <1>1, <1>3, <1>5

LEMMA DivZero == 0 \div BlockRows = 0
BY SettingsAssumption

LEMMA SubRows ==
    ASSUME NEW d \in Seq(Row), NEW m \in Int, NEW n \in Int, 1 <= m, n <= Len(d)
    PROVE  /\ SubSeq(d, m, n) \in Seq(Row) /\ Len(SubSeq(d, m, n)) = IF m <= n THEN n - m + 1 ELSE 0
           /\ \A i \in 1 .. n - m + 1 : SubSeq(d, m, n)[i] = d[m + i - 1]
<1>1. Len(d) \in Nat
  BY LenProperties
<1>2. \A i \in m .. n : i \in 1 .. Len(d)
  BY <1>1
<1>3. \A i \in m .. n : d[i] \in Row
  BY <1>2, ElementOfSeq
<1> QED BY <1>3, SubSeqProperties

LEMMA BackRows ==
    ASSUME NEW d \in Seq(Row), NEW p \in 0 .. Len(d), NEW c, c = SubSeq(d, p + 1, Len(d))
    PROVE  c \in Seq(Row) /\ Len(c) = Len(d) - p /\ \A i \in 1 .. Len(d) - p : c[i] = d[p + i]
<1>1. Len(d) \in Nat /\ p \in Nat /\ p <= Len(d)
  BY LenProperties
<1>2. PICK m \in Int : m = p + 1
  BY <1>1
<1>3. c = SubSeq(d, m, Len(d)) /\ 1 <= m /\ Len(d) \in Int /\ Len(d) <= Len(d)
  BY <1>1, <1>2
<1>4. /\ c \in Seq(Row) /\ Len(c) = IF m <= Len(d) THEN Len(d) - m + 1 ELSE 0
      /\ \A i \in 1 .. Len(d) - m + 1 : c[i] = d[m + i - 1]
  BY <1>3, SubRows
<1>5. Len(d) - m + 1 = Len(d) - p /\ (~(m <= Len(d)) => Len(d) - p = 0)
  BY <1>1, <1>2
<1>6. ASSUME NEW i \in 1 .. Len(d) - p PROVE c[i] = d[p + i]
  <2>1. i \in Int /\ p \in Int
    BY <1>1
  <2>2. m + i - 1 = p + i
    BY <1>2, <2>1
  <2>3. i \in 1 .. Len(d) - m + 1
    BY <1>5
  <2>4. c[i] = d[m + i - 1]
    BY <1>4, <2>3
  <2> QED BY <2>2, <2>4
<1>7. Len(c) = Len(d) - p
  BY <1>4, <1>5
<1> QED BY <1>4, <1>6, <1>7

(* A concatenation by another name.                                        *)
Joins(x, y, z) ==
    /\ x \in Seq(Row) /\ Len(x) = Len(y) + Len(z)
    /\ \A i \in 1 .. Len(y) : x[i] = y[i]
    /\ \A i \in 1 .. Len(z) : x[Len(y) + i] = z[i]

LEMMA JoinedAs ==
    ASSUME NEW y \in Seq(Row), NEW z \in Seq(Row), NEW x, x = y \o z
    PROVE  Joins(x, y, z)
<1>1. Joins(y \o z, y, z)
  BY Joined, Zenon DEF Joins
<1> QED BY <1>1, Zenon

(* x has the rows of d, with e behind p of them.                           *)
Inserted(x, d, e, p) ==
    /\ x \in Seq(Row) /\ Len(x) = Len(d) + 1 /\ Distinct(x) /\ IdsOf(x) = IdsOf(d) \cup {e.id}
    /\ \A i \in 1 .. p : x[i] = d[i]

LEMMA InsertedRows ==
    ASSUME NEW d \in Seq(Row), Distinct(d), NEW e \in Row, e.id \in Requests, e.id \notin IdsOf(d),
           NEW p \in 0 .. Len(d), NEW x, x = InsertAt(d, p + 1, e)
    PROVE  Inserted(x, d, e, p)
<1>1. Len(d) \in Nat /\ p \in Nat /\ p <= Len(d)
  BY LenProperties
<1>2. PICK a : a = SubSeq(d, 1, p)
  OBVIOUS
<1>3. PICK c : c = SubSeq(d, p + 1, Len(d))
  OBVIOUS
<1>4. a \in Seq(Row) /\ Len(a) = p /\ \A i \in 1 .. p : a[i] = d[i]
  <2>1. 1 \in Int /\ p \in Int /\ 1 <= 1 /\ p - 1 + 1 = p /\ (1 <= p <=> p > 0)
    BY <1>1
  <2>2. /\ a \in Seq(Row) /\ Len(a) = IF 1 <= p THEN p - 1 + 1 ELSE 0
        /\ \A i \in 1 .. p - 1 + 1 : a[i] = d[1 + i - 1]
    BY <1>1, <1>2, <2>1, SubRows
  <2>3. \A i \in 1 .. p : 1 + i - 1 = i
    OBVIOUS
  <2> QED BY <1>1, <2>1, <2>2, <2>3
<1>5. c \in Seq(Row) /\ Len(c) = Len(d) - p /\ \A i \in 1 .. Len(d) - p : c[i] = d[p + i]
  <2>1. p \in 0 .. Len(d)
    BY <1>1
  <2> QED BY <1>3, <2>1, BackRows
<1>6. PICK z : z = <<e>>
  OBVIOUS
<1>7. z \in Seq(Row) /\ Len(z) = 1 /\ z[1] = e
  BY <1>6
<1>8. x = a \o z \o c
  <2>1. (p + 1) - 1 = p
    BY <1>1
  <2> QED BY <1>2, <1>3, <1>6, <2>1, Zenon DEF InsertAt
<1> HIDE <1>2, <1>3, <1>6
<1>9. PICK y : y = a \o z
  OBVIOUS
<1>10. y \in Seq(Row) /\ Len(y) = p + 1 /\ (\A i \in 1 .. p : y[i] = d[i]) /\ y[p + 1] = e
  <2>1. Joins(y, a, z)
    BY <1>4, <1>7, <1>9, JoinedAs, Zenon
  <2> QED BY <1>1, <1>4, <1>7, <2>1 DEF Joins
<1>11. /\ x \in Seq(Row) /\ Len(x) = Len(d) + 1 /\ (\A i \in 1 .. p : x[i] = d[i]) /\ x[p + 1] = e
       /\ \A i \in 1 .. Len(d) - p : x[p + 1 + i] = d[p + i]
  <2>1. x = y \o c
    BY <1>8, <1>9, Zenon
  <2>2. Joins(x, y, c)
    BY <1>5, <1>10, <2>1, JoinedAs, Zenon
  <2>3. p + 1 + (Len(d) - p) = Len(d) + 1 /\ p + 1 \in 1 .. p + 1 /\ \A i \in 1 .. p : i \in 1 .. p + 1
    BY <1>1
  <2> QED BY <1>1, <1>5, <1>10, <2>2, <2>3 DEF Joins
<1> DEFINE back(i) == IF i <= p THEN i ELSE i - 1
<1>12. ASSUME NEW i \in 1 .. Len(x), i # p + 1 PROVE back(i) \in 1 .. Len(d) /\ x[i] = d[back(i)]
  <2>1. CASE i <= p
    BY <1>1, <1>11, <2>1
  <2>2. CASE ~(i <= p)
    <3>1. i - (p + 1) \in 1 .. Len(d) - p /\ p + 1 + (i - (p + 1)) = i /\ p + (i - (p + 1)) = i - 1
          /\ i - 1 \in 1 .. Len(d)
      BY <1>1, <1>11, <1>12, <2>2
    <3>2. x[p + 1 + (i - (p + 1))] = d[p + (i - (p + 1))]
      BY <1>11, <3>1
    <3> QED BY <2>2, <3>1, <3>2
  <2> QED BY <2>1, <2>2
<1>13. ASSUME NEW i \in 1 .. Len(x), NEW j \in 1 .. Len(x), x[i].id = x[j].id PROVE i = j
  <2>1. CASE i # p + 1 /\ j # p + 1
    <3>1. back(i) \in 1 .. Len(d) /\ back(j) \in 1 .. Len(d) /\ d[back(i)].id = d[back(j)].id
      BY <1>12, <1>13, <2>1
    <3> HIDE DEF back
    <3>2. back(i) = back(j)
      BY <3>1 DEF Distinct
    <3> USE DEF back
    <3> QED BY <1>1, <1>11, <1>13, <2>1, <3>2
  <2>2. CASE i = p + 1 \/ j = p + 1
    <3>1. \A k \in 1 .. Len(x) : k # p + 1 => x[k].id # e.id
      BY <1>12 DEF IdsOf
    <3> QED BY <1>11, <1>13, <2>2, <3>1
  <2> QED BY <2>1, <2>2
<1>14. \A i \in 1 .. Len(x) : x[i].id \in IdsOf(d) \cup {e.id}
  BY <1>11, <1>12 DEF IdsOf
<1>15. \A j \in 1 .. Len(d) : \E i \in 1 .. Len(x) : x[i] = d[j]
  <2> TAKE j \in 1 .. Len(d)
  <2>1. CASE j <= p
    <3>1. j \in 1 .. Len(x) /\ j \in 1 .. p
      BY <1>1, <1>11, <2>1
    <3> QED BY <1>11, <3>1
  <2>2. CASE ~(j <= p)
    <3>1. j - p \in 1 .. Len(d) - p /\ p + 1 + (j - p) \in 1 .. Len(x) /\ p + (j - p) = j
      BY <1>1, <1>11, <2>2
    <3> QED BY <1>11, <3>1
  <2> QED BY <2>1, <2>2
<1>16. IdsOf(x) = IdsOf(d) \cup {e.id}
  <2>1. p + 1 \in 1 .. Len(x)
    BY <1>1, <1>11
  <2>2. e.id \in IdsOf(x)
    BY <1>11, <2>1 DEF IdsOf
  <2>3. IdsOf(x) \subseteq IdsOf(d) \cup {e.id}
    <3>1. \A r \in IdsOf(x) : \E i \in 1 .. Len(x) : r = x[i].id
      BY DEF IdsOf
    <3> QED BY <1>14, <3>1
  <2>4. IdsOf(d) \subseteq IdsOf(x)
    <3>1. \A r \in IdsOf(d) : \E j \in 1 .. Len(d) : r = d[j].id
      BY DEF IdsOf
    <3>2. \A j \in 1 .. Len(d) : d[j].id \in IdsOf(x)
      BY <1>15 DEF IdsOf
    <3> QED BY <3>1, <3>2
  <2> QED BY <2>2, <2>3, <2>4
<1>17. Distinct(x)
  <2>1. \A i \in 1 .. Len(x) : x[i].id \in Requests
    BY <1>14 DEF IdsOf, Distinct
  <2> QED BY <1>13, <2>1 DEF Distinct
<1> QED BY <1>11, <1>16, <1>17 DEF Inserted

LEMMA RemovedRow ==
    ASSUME NEW d \in Seq(Row), Distinct(d), NEW p \in 1 .. Len(d), NEW x, x = RemoveAt(d, p)
    PROVE  x \in Seq(Row) /\ Len(x) = Len(d) - 1 /\ Distinct(x) /\ IdsOf(x) = IdsOf(d) \ {d[p].id}
<1>1. Len(d) \in Nat /\ p \in Nat /\ p <= Len(d) /\ 1 <= p
  BY LenProperties
<1>2. PICK a : a = SubSeq(d, 1, p - 1)
  OBVIOUS
<1>3. PICK c : c = SubSeq(d, p + 1, Len(d))
  OBVIOUS
<1>4. a \in Seq(Row) /\ Len(a) = p - 1 /\ \A i \in 1 .. p - 1 : a[i] = d[i]
  <2>1. 1 \in Int /\ p - 1 \in Int /\ 1 <= 1 /\ (p - 1) - 1 + 1 = p - 1 /\ p - 1 <= Len(d)
    BY <1>1
  <2>2. /\ a \in Seq(Row) /\ Len(a) = IF 1 <= p - 1 THEN (p - 1) - 1 + 1 ELSE 0
        /\ \A i \in 1 .. (p - 1) - 1 + 1 : a[i] = d[1 + i - 1]
    BY <1>2, <2>1, SubRows
  <2>3. \A i \in 1 .. p - 1 : 1 + i - 1 = i
    OBVIOUS
  <2> QED BY <1>1, <2>1, <2>2, <2>3
<1>5. c \in Seq(Row) /\ Len(c) = Len(d) - p /\ \A i \in 1 .. Len(d) - p : c[i] = d[p + i]
  <2>1. p \in 0 .. Len(d)
    BY <1>1
  <2> QED BY <1>3, <2>1, BackRows
<1>6. x = a \o c
  BY <1>2, <1>3, Zenon DEF RemoveAt
<1> HIDE <1>2, <1>3
<1>7. /\ x \in Seq(Row) /\ Len(x) = Len(d) - 1 /\ (\A i \in 1 .. p - 1 : x[i] = d[i])
      /\ \A i \in 1 .. Len(d) - p : x[p - 1 + i] = d[p + i]
  <2>1. Joins(x, a, c)
    BY <1>4, <1>5, <1>6, JoinedAs, Zenon
  <2>2. (p - 1) + (Len(d) - p) = Len(d) - 1
    BY <1>1
  <2> QED BY <1>1, <1>4, <1>5, <2>1, <2>2 DEF Joins
<1> DEFINE back(i) == IF i <= p - 1 THEN i ELSE i + 1
<1>8. ASSUME NEW i \in 1 .. Len(x) PROVE back(i) \in 1 .. Len(d) /\ back(i) # p /\ x[i] = d[back(i)]
  <2>1. CASE i <= p - 1
    BY <1>1, <1>7, <2>1
  <2>2. CASE ~(i <= p - 1)
    <3>1. i - (p - 1) \in 1 .. Len(d) - p /\ p - 1 + (i - (p - 1)) = i /\ p + (i - (p - 1)) = i + 1
          /\ i + 1 \in 1 .. Len(d) /\ i + 1 # p
      BY <1>1, <1>7, <2>2
    <3>2. x[p - 1 + (i - (p - 1))] = d[p + (i - (p - 1))]
      BY <1>7, <3>1
    <3> QED BY <2>2, <3>1, <3>2
  <2> QED BY <2>1, <2>2
<1>9. ASSUME NEW i \in 1 .. Len(x), NEW j \in 1 .. Len(x), x[i].id = x[j].id PROVE i = j
  <2>1. back(i) \in 1 .. Len(d) /\ back(j) \in 1 .. Len(d) /\ d[back(i)].id = d[back(j)].id
    BY <1>8, <1>9
  <2> HIDE DEF back
  <2>2. back(i) = back(j)
    BY <2>1 DEF Distinct
  <2> USE DEF back
  <2> QED BY <1>1, <1>7, <1>9, <2>2
<1>10. \A i \in 1 .. Len(x) : x[i].id \in IdsOf(d) /\ x[i].id # d[p].id
  BY <1>8 DEF IdsOf, Distinct
<1>11. ASSUME NEW j \in 1 .. Len(d), j # p PROVE \E i \in 1 .. Len(x) : x[i] = d[j]
  <2>1. CASE j <= p - 1
    <3>1. j \in 1 .. Len(x) /\ j \in 1 .. p - 1
      BY <1>1, <1>7, <2>1
    <3> QED BY <1>7, <3>1
  <2>2. CASE ~(j <= p - 1)
    <3>1. j - p \in 1 .. Len(d) - p /\ p - 1 + (j - p) \in 1 .. Len(x) /\ p + (j - p) = j
      BY <1>1, <1>7, <1>11, <2>2
    <3> QED BY <1>7, <3>1
  <2> QED BY <2>1, <2>2
<1>12. IdsOf(x) = IdsOf(d) \ {d[p].id}
  <2>1. \A r \in IdsOf(x) : \E i \in 1 .. Len(x) : r = x[i].id
    BY DEF IdsOf
  <2>2. \A r \in IdsOf(d) : \E j \in 1 .. Len(d) : r = d[j].id
    BY DEF IdsOf
  <2>3. \A j \in 1 .. Len(d) : j # p => d[j].id \in IdsOf(x)
    BY <1>11 DEF IdsOf
  <2>4. \A r \in IdsOf(x) : r \in IdsOf(d) /\ r # d[p].id
    BY <1>10, <2>1
  <2>5. \A r \in IdsOf(d) : r # d[p].id => r \in IdsOf(x)
    BY <2>2, <2>3
  <2> QED BY <2>4, <2>5
<1>13. Distinct(x)
  <2>1. \A i \in 1 .. Len(x) : x[i].id \in Requests
    BY <1>10 DEF IdsOf, Distinct
  <2> QED BY <1>9, <2>1 DEF Distinct
<1> QED BY <1>7, <1>12, <1>13

Appended(t, first, rows, size, refs) ==
    [t EXCEPT !.slots = Vacancies(first) \o rows \o Vacancies(size - first - Len(rows)),
              !.first = first, !.n = @ + 1, !.next = @ + 1, !.refs = refs]

(* u has the rows of t with one more for r, behind "at" of them.           *)
Appends(t, r, at, first, u) ==
    /\ GoodDetails(u) /\ Visible(u) = Visible(t) \cup {r} /\ u.archive = t.archive /\ u.blocks = t.blocks
    /\ u.first = first /\ u.n = t.n + 1 /\ Same(t, u, {"expiry", "limit", "price", "priced", "summaries"})
    /\ \A i \in 1 .. at : u.slots[first + i] = t.slots[t.first + i]

LEMMA AppendedRows ==
    ASSUME NEW t, GoodDetails(t), NEW r \in Requests, r \notin t.archive, r \notin Visible(t),
           NEW at \in 0 .. t.n, NEW first \in Nat, NEW size \in Nat, first + t.n + 1 <= size,
           NEW rows, rows = InsertAt(Details(t), at + 1, [id |-> r, rich |-> FALSE, seq |-> t.next + 1]),
           NEW refs, NEW u, u = Appended(t, first, rows, size, refs)
    PROVE  Appends(t, r, at, first, u)
<1>1. /\ GoodRows(t) /\ DOMAIN t = ViewFields /\ t.first \in Nat /\ t.n \in Nat /\ t.next \in Int /\ t.limit \in Nat
      /\ t.price \in Nat /\ t.archive \subseteq Requests /\ IsFiniteSet(t.archive) /\ t.archive \cap Visible(t) = {}
  BY DEF GoodDetails, GoodRows, GoodArchive
<1>2. PICK d : d = Details(t)
  OBVIOUS
<1>3. /\ d \in Seq(Row) /\ Len(d) = t.n /\ Distinct(d) /\ IdsOf(d) = Visible(t)
      /\ \A i \in 1 .. t.n : d[i] = t.slots[t.first + i]
  BY <1>1, <1>2, DetailRows, RowsOfDetails
<1>4. PICK e : e = [id |-> r, rich |-> FALSE, seq |-> t.next + 1]
  OBVIOUS
<1>5. e \in Row /\ e.id = r
  BY <1>1, <1>4 DEF Row
<1>6. rows = InsertAt(d, at + 1, e)
  BY <1>2, <1>4
<1> HIDE <1>4
<1>7. /\ rows \in Seq(Row) /\ Len(rows) = t.n + 1 /\ Distinct(rows) /\ IdsOf(rows) = Visible(t) \cup {r}
      /\ \A i \in 1 .. at : rows[i] = d[i]
  <2>1. at \in 0 .. Len(d) /\ e.id \in Requests /\ e.id \notin IdsOf(d)
    BY <1>3, <1>5
  <2>2. d \in Seq(Row) /\ Distinct(d) /\ e \in Row
    BY <1>3, <1>5
  <2>3. Inserted(rows, d, e, at)
    BY <1>6, <2>1, <2>2, InsertedRows, Zenon
  <2> QED BY <1>3, <1>5, <2>3 DEF Inserted
<1> DEFINE v == size - first - Len(rows)
<1>8. v \in Nat
  <2>1. Len(rows) = t.n + 1
    BY <1>7
  <2> QED BY <1>1, <2>1
<1> HIDE DEF v
<1>9. PICK x : x = Laid(rows, first, v)
  OBVIOUS
<1>10. u = [t EXCEPT !.slots = x, !.first = first, !.n = @ + 1, !.next = @ + 1, !.refs = refs]
  BY <1>9, Zenon DEF Laid, Appended, v
<1>11. /\ DOMAIN u = ViewFields /\ u.slots = x /\ u.first = first /\ u.n = t.n + 1 /\ u.next = t.next + 1
       /\ u.archive = t.archive /\ u.blocks = t.blocks
  BY <1>1, <1>10 DEF ViewFields
<1>12. Same(t, u, {"expiry", "limit", "price", "priced", "summaries"})
  BY <1>1, <1>10 DEF ViewFields, Same
<1> HIDE <1>10
<1>13. /\ u.limit \in Nat /\ u.price \in Nat /\ u.next \in Int /\ u.archive \subseteq Requests
       /\ IsFiniteSet(u.archive) /\ u.archive \cap IdsOf(rows) = {} /\ u.slots = Laid(rows, first, v) /\ u.n = Len(rows)
  <2>1. u.limit = t.limit /\ u.price = t.price
    BY <1>12 DEF Same
  <2>2. u.slots = Laid(rows, first, v)
    BY <1>9, <1>11, Zenon
  <2>3. u.archive \cap IdsOf(rows) = {}
    BY <1>1, <1>7, <1>11
  <2>4. u.n = Len(rows) /\ u.next \in Int
    BY <1>1, <1>7, <1>11
  <2> QED BY <1>1, <1>11, <2>1, <2>2, <2>3, <2>4
<1>14. GoodDetails(u) /\ Visible(u) = IdsOf(rows)
  <2>1. rows \in Seq(Row) /\ Distinct(rows) /\ DOMAIN u = ViewFields /\ u.first = first
    BY <1>7, <1>11
  <2> QED BY <1>8, <1>13, <2>1, RelaidDetails, Zenon
<1>15. ASSUME NEW i \in 1 .. at PROVE u.slots[first + i] = t.slots[t.first + i]
  <2>1. i \in 1 .. t.n /\ i \in 1 .. t.n + 1
    BY <1>1
  <2>2. Laid(rows, first, v)[first + i] = rows[i]
    <3>1. i \in 1 .. Len(rows)
      BY <1>7, <2>1
    <3>2. \A j \in 1 .. Len(rows) : Laid(rows, first, v)[first + j] = rows[j]
      BY <1>7, <1>8, LaidOut, ZenonT(40)
    <3> QED BY <3>1, <3>2
  <2> QED BY <1>3, <1>7, <1>13, <2>1, <2>2
<1> QED BY <1>7, <1>11, <1>12, <1>14, <1>15 DEF Appends

(* t has the requests of s and r, and nothing of its blocks is stale.      *)
Added(s, r, t) ==
    /\ GoodDetails(t) /\ t.archive = s.archive /\ Visible(t) = Visible(s) \cup {r}
    /\ Same(s, t, {"expiry", "limit", "price", "priced", "summaries"})
    /\ GoodBlocks(s) => GoodBlocks(t)

LEMMA AppendDetailAdds ==
    ASSUME NEW s, GoodDetails(s), NEW r \in Requests, r \notin s.archive, r \notin Visible(s)
    PROVE  Added(s, r, AppendDetail(s, r))
<1>1. PICK t : t = Number(s)
  OBVIOUS
<1>2. PICK full : full = (t.n = Capacity(t))
  OBVIOUS
<1>3. PICK first : first = IF full THEN 0 ELSE t.first
  OBVIOUS
<1>4. PICK at : at = Cardinality({i \in 1..t.n : TimeOf[Details(t)[i].id] <= TimeOf[r]})
  OBVIOUS
<1>5. PICK rows : rows = InsertAt(Details(t), at + 1, [id |-> r, rich |-> FALSE, seq |-> t.next + 1])
  OBVIOUS
<1>6. PICK size : size = IF full /\ t.first = 0 THEN Larger(1, 2 * t.n) ELSE Len(t.slots)
  OBVIOUS
<1>7. PICK moved : moved = IF full THEN 0 ELSE at
  OBVIOUS
<1>8. PICK refs : refs = IF full /\ t.first = 0 THEN Astray(t) ELSE t.refs
  OBVIOUS
<1>9. PICK u : u = Appended(t, first, rows, size, refs)
  OBVIOUS
<1>10. PICK d : d = DropBlocks(u, moved)
  OBVIOUS
<1>11. AppendDetail(s, r) = Rebind(d, moved)
  BY <1>1, <1>2, <1>3, <1>4, <1>5, <1>6, <1>7, <1>8, <1>9, <1>10, ZenonT(60) DEF AppendDetail, Appended
<1>12. /\ Carried(s, t) /\ GoodDetails(t) /\ t.archive = s.archive /\ Visible(t) = Visible(s) /\ t.blocks = s.blocks
       /\ t.first \in Nat /\ t.n \in Nat /\ t.first + t.n <= Len(t.slots) /\ Len(t.slots) \in Nat
  <2>1. Carried(s, t) /\ t.archive = s.archive /\ Visible(t) = Visible(s) /\ t.blocks = s.blocks
    BY <1>1, NumberCarries
  <2> QED BY <2>1, LenProperties DEF Carried, GoodDetails, GoodRows
<1>13. at \in 0 .. t.n
  <2> DEFINE D == {i \in 1..t.n : TimeOf[Details(t)[i].id] <= TimeOf[r]}
  <2>1. D \subseteq 1 .. t.n
    OBVIOUS
  <2> HIDE DEF D
  <2>2. IsFiniteSet(1 .. t.n) /\ Cardinality(1 .. t.n) = t.n
    <3>1. PICK n \in Nat : n = t.n
      BY <1>12
    <3>2. IsFiniteSet(1 .. n) /\ Cardinality(1 .. n) = n
      BY FS_Interval
    <3> QED BY <3>1, <3>2
  <2>3. Cardinality(D) \in Nat /\ Cardinality(D) <= t.n
    BY <2>1, <2>2, FS_Subset, FS_CardinalityType
  <2> QED BY <1>4, <1>12, <2>3 DEF D
<1>14. first \in Nat /\ size \in Nat /\ first + t.n + 1 <= size
  <2>1. Capacity(t) = Len(t.slots) - t.first
    BY DEF Capacity
  <2>2. PICK n \in Nat : n = t.n
    BY <1>12
  <2>3. PICK k \in Nat : k = Len(t.slots)
    BY <1>12
  <2>4. PICK f \in Nat : f = t.first
    BY <1>12
  <2>5. f + n <= k /\ full = (n = k - f)
    BY <1>2, <1>12, <2>1, <2>2, <2>3, <2>4
  <2>6. CASE full /\ f = 0
    <3>1. first = 0 /\ size = Larger(1, 2 * n)
      BY <1>3, <1>6, <2>2, <2>4, <2>6
    <3>2. Larger(1, 2 * n) \in Nat /\ n + 1 <= Larger(1, 2 * n)
      BY DEF Larger
    <3> QED BY <2>2, <3>1, <3>2
  <2>7. CASE full /\ f # 0
    BY <1>3, <1>6, <2>2, <2>3, <2>4, <2>5, <2>7
  <2>8. CASE ~full
    <3>1. first = f /\ size = k
      BY <1>3, <1>6, <2>3, <2>4, <2>8
    <3>2. n # k - f
      BY <2>5, <2>8
    <3>3. f + n + 1 <= k
      BY <2>5, <3>2
    <3> QED BY <2>2, <3>1, <3>3
  <2> QED BY <2>6, <2>7, <2>8
<1>15. /\ GoodDetails(u) /\ Visible(u) = Visible(t) \cup {r} /\ u.archive = t.archive /\ u.blocks = t.blocks
       /\ u.first = first /\ u.n = t.n + 1 /\ Same(t, u, {"expiry", "limit", "price", "priced", "summaries"})
       /\ \A i \in 1 .. at : u.slots[first + i] = t.slots[t.first + i]
  <2>1. r \notin t.archive /\ r \notin Visible(t)
    BY <1>12
  <2>2. Appends(t, r, at, first, u)
    BY <1>5, <1>9, <1>12, <1>13, <1>14, <2>1, AppendedRows, Zenon
  <2> QED BY <2>2 DEF Appends
<1>16. /\ Same(u, d, ViewFields \ {"blocks"}) /\ DOMAIN d.blocks = {b \in DOMAIN u.blocks : b < (first + moved) \div BlockRows}
       /\ \A b \in DOMAIN d.blocks : d.blocks[b] = t.blocks[b]
  <2>1. DOMAIN u = ViewFields
    BY <1>15 DEF GoodDetails
  <2>2. /\ Same(u, d, ViewFields \ {"blocks"})
        /\ DOMAIN d.blocks = {b \in DOMAIN u.blocks : b < (u.first + moved) \div BlockRows}
        /\ \A b \in DOMAIN d.blocks : d.blocks[b] = u.blocks[b]
    BY <1>10, <2>1, DropBlocksSame
  <2> HIDE <1>9, <1>10, <1>5
  <2> QED BY <1>15, <2>2
<1> HIDE <1>9, <1>10, <1>5
<1>17. /\ Same(u, d, CoreFields) /\ d.slots = u.slots /\ d.first = first /\ d.n = t.n + 1 /\ d.priced = t.priced
       /\ Same(t, d, {"expiry", "limit", "price", "priced", "summaries"})
  BY <1>15, <1>16 DEF Same, ViewFields, CoreFields
<1>18. GoodDetails(d) /\ Visible(d) = Visible(t) \cup {r} /\ d.archive = t.archive
  BY <1>15, <1>17, DetailsCarry
<1>19. ASSUME GoodBlocks(t) PROVE GoodBlocks(d)
  <2>1. CASE full
    <3>1. first = 0 /\ moved = 0
      BY <1>3, <1>7, <2>1
    <3>2. (first + moved) \div BlockRows = 0
      BY <3>1, DivZero
    <3>3. \A b \in DOMAIN d.blocks : b \in Nat /\ b < 0
      BY <1>15, <1>16, <1>19, <3>2 DEF GoodBlocks
    <3>4. DOMAIN d.blocks = {}
      BY <3>3
    <3> QED BY <3>4 DEF GoodBlocks
  <2>2. CASE ~full
    <3>1. first = t.first /\ moved = at
      BY <1>3, <1>7, <2>2
    <3>2. PICK m \in Nat : m = first + at
      BY <1>13, <1>14
    <3>3. m <= d.first + d.n /\ d.first \in Nat /\ d.n \in Nat /\ t.first <= d.first
      BY <1>12, <1>13, <1>17, <3>1, <3>2
    <3>4. \A k \in d.first + 1 .. m : d.slots[k].id = t.slots[k].id
      <4>1. \A k \in first + 1 .. m : k - first \in 1 .. at /\ first + (k - first) = k
        BY <1>13, <1>14, <3>2
      <4> QED BY <1>15, <1>17, <3>1, <4>1
    <3>5. ASSUME NEW b \in DOMAIN d.blocks
          PROVE  d.blocks[b] = t.blocks[b] /\ (t.blocks[b].from >= t.first => t.blocks[b].end <= m)
      <4>1. b \in DOMAIN t.blocks /\ b \in Nat /\ b < m \div BlockRows /\ d.blocks[b] = t.blocks[b]
        BY <1>15, <1>16, <1>19, <3>1, <3>2 DEF GoodBlocks
      <4>2. (b + 1) * BlockRows <= m
        BY <4>1, DivBelow
      <4>3. ASSUME t.blocks[b].from >= t.first PROVE t.blocks[b].end <= m
        <5>1. t.blocks[b].end <= (b + 1) * BlockRows /\ t.blocks[b].end \in Nat
          BY <1>19, <4>1, <4>3 DEF GoodBlocks, GoodBlock
        <5>2. PICK w \in Nat : w = BlockRows
          BY SettingsAssumption
        <5>3. (b + 1) * BlockRows \in Nat
          BY <4>1, <5>2
        <5> QED BY <4>2, <5>1, <5>3
      <4> QED BY <4>1, <4>3
    <3>6. DOMAIN d.blocks \subseteq DOMAIN t.blocks /\ d.priced = t.priced
      BY <1>15, <1>16, <1>17
    <3>7. t.first \in Nat /\ m \in Nat
      BY <1>12, <3>2
    <3> HIDE <3>2
    <3> QED BY <1>19, <3>3, <3>4, <3>5, <3>6, <3>7, BlocksStay
  <2> QED BY <2>1, <2>2
<1>20. Added(s, r, d)
  BY <1>12, <1>17, <1>18, <1>19 DEF Added, Carried, Same
<1>21. Carried(d, Rebind(d, moved))
  BY <1>18, RebindCarries
<1>22. Rebind(d, moved).archive = d.archive /\ Visible(Rebind(d, moved)) = Visible(d)
  <2>1. Same(d, Rebind(d, moved), CoreFields)
    BY <1>18, RebindSame DEF GoodDetails, Same, ViewFields, CoreFields
  <2> QED BY <1>18, <2>1, DetailsCarry
<1> QED BY <1>11, <1>20, <1>21, <1>22 DEF Added, Carried, Same

(* t has the requests of s without r; what it keeps of them is dropped.    *)
Removes(s, r, t) ==
    /\ GoodDetails(t) /\ t.archive \cup Visible(t) = (s.archive \cup Visible(s)) \ {r}
    /\ Same(s, t, {"expiry", "limit", "price", "priced"})

RemovedFrom(d, s, rows, refs) ==
    [d EXCEPT !.slots = Vacancies(s.first) \o rows \o Vacancies(Capacity(s) - Len(rows)), !.n = @ - 1, !.refs = refs]

LEMMA RemoveDetailRemoves ==
    ASSUME NEW s, GoodDetails(s), NEW r \in Shown(s) \cup s.archive
    PROVE  Removes(s, r, RemoveDetail(s, r))
<1>1. /\ GoodRows(s) /\ DOMAIN s = ViewFields /\ s.first \in Nat /\ s.n \in Nat /\ s.next \in Int /\ s.limit \in Nat
      /\ s.price \in Nat /\ s.archive \subseteq Requests /\ IsFiniteSet(s.archive) /\ s.archive \cap Visible(s) = {}
      /\ s.first + s.n <= Len(s.slots) /\ Len(s.slots) \in Nat /\ Shown(s) = Visible(s)
  BY LenProperties, ShownVisible DEF GoodDetails, GoodRows, GoodArchive
<1>2. CASE r \in s.archive
  <2>1. PICK u : u = [s EXCEPT !.archive = @ \ {r}]
    OBVIOUS
  <2>2. RemoveDetail(s, r) = u
    BY <1>2, <2>1 DEF RemoveDetail
  <2>3. /\ DOMAIN u = ViewFields /\ u.archive = s.archive \ {r} /\ u.slots = s.slots /\ u.first = s.first /\ u.n = s.n
        /\ u.next = s.next /\ u.limit = s.limit /\ u.price = s.price
        /\ Same(s, u, {"expiry", "limit", "price", "priced"})
    BY <1>1, <2>1 DEF ViewFields, Same
  <2>4. Visible(u) = Visible(s)
    BY <2>3 DEF Visible, IdsAt
  <2>5. GoodRows(u)
    BY <1>1, <2>3 DEF GoodRows
  <2>6. IsFiniteSet(s.archive \ {r})
    BY <1>1, FS_Subset
  <2>7. GoodDetails(u)
    BY <1>1, <2>3, <2>4, <2>5, <2>6 DEF GoodDetails, GoodArchive
  <2> QED BY <1>1, <1>2, <2>2, <2>3, <2>4, <2>7 DEF Removes
<1>3. CASE r \notin s.archive
  <2>1. PICK i : i = PlaceOf(s, r)
    OBVIOUS
  <2>2. PICK d : d = Details(s)
    OBVIOUS
  <2>3. PICK rows : rows = RemoveAt(d, i)
    OBVIOUS
  <2>4. PICK b : b = DropBlocks(s, i - 1)
    OBVIOUS
  <2>5. PICK refs : refs = Without(b.refs, {r})
    OBVIOUS
  <2> DEFINE bare == [b EXCEPT !.slots = Vacancies(Capacity(s)), !.first = 0, !.n = 0, !.refs = Without(@, {r})]
             u    == RemovedFrom(b, s, rows, refs)
  <2>6. RemoveDetail(s, r) = IF rows = <<>> THEN bare ELSE Rebind(u, i - 1)
    BY <1>3, <2>1, <2>2, <2>3, <2>4, <2>5, Zenon DEF RemoveDetail, RemovedFrom
  <2>7. r \in Shown(s)
    BY <1>3
  <2>8. i \in 1 .. s.n /\ d[i].id = r
    BY <1>1, <2>1, <2>2, <2>7, PlaceFound
  <2>9. d \in Seq(Row) /\ Len(d) = s.n /\ Distinct(d) /\ IdsOf(d) = Visible(s)
    BY <1>1, <2>2, DetailRows, RowsOfDetails
  <2>10. /\ rows \in Seq(Row) /\ Len(rows) = s.n - 1 /\ Distinct(rows) /\ IdsOf(rows) = Visible(s) \ {r}
    <3>1. i \in 1 .. Len(d)
      BY <2>8, <2>9
    <3> QED BY <2>3, <2>8, <2>9, <3>1, RemovedRow
  <2>11. Same(s, b, ViewFields \ {"blocks"})
    BY <1>1, <2>4, DropBlocksSame
  <2>12. /\ DOMAIN b = ViewFields /\ b.slots = s.slots /\ b.first = s.first /\ b.n = s.n /\ b.next = s.next
         /\ b.archive = s.archive /\ Same(s, b, {"expiry", "limit", "price", "priced"})
    BY <1>1, <2>11 DEF Same, ViewFields
  <2> HIDE <2>1, <2>2, <2>3, <2>4, <2>5
  <2>13. s.archive \cap IdsOf(rows) = {} /\ s.archive \cup IdsOf(rows) = (s.archive \cup Visible(s)) \ {r}
    BY <1>1, <1>3, <2>10
  <2>14. ASSUME rows = <<>> PROVE Removes(s, r, bare)
    <3>1. PICK x : x = Vacancies(Capacity(s))
      OBVIOUS
    <3>2. x \in Seq(Row) /\ Len(x) \in Nat
      <4>1. Vacant \in Row
        BY DEF Vacant, Row
      <4>2. Capacity(s) \in Nat
        BY <1>1 DEF Capacity
      <4>3. x \in Seq(Row)
        BY <3>1, <4>1, <4>2 DEF Vacancies
      <4> QED BY <4>3, LenProperties
    <3>3. PICK y : y = bare
      OBVIOUS
    <3>4. /\ DOMAIN y = ViewFields /\ y.slots = x /\ y.first = 0 /\ y.n = 0 /\ y.next = s.next /\ y.archive = s.archive
      BY <2>12, <3>1, <3>3 DEF ViewFields
    <3>5. Same(b, y, {"expiry", "limit", "price", "priced"})
      BY <2>12, <3>3 DEF ViewFields, Same
    <3> HIDE <3>1, <3>3
    <3>6. Same(s, y, {"expiry", "limit", "price", "priced"}) /\ y.limit \in Nat /\ y.price \in Nat
      BY <1>1, <2>12, <3>5 DEF Same
    <3>7. Visible(y) = {}
      BY <3>4 DEF Visible, IdsAt
    <3>8. GoodRows(y)
      BY <1>1, <3>2, <3>4 DEF GoodRows
    <3>9. IdsOf(rows) = {}
      <4>1. Len(rows) = 0
        BY <2>14
      <4> QED BY <4>1 DEF IdsOf
    <3>10. GoodDetails(y)
      BY <1>1, <3>4, <3>6, <3>7, <3>8 DEF GoodDetails, GoodArchive
    <3>11. Removes(s, r, y)
      BY <2>13, <3>4, <3>6, <3>7, <3>9, <3>10 DEF Removes
    <3> QED BY <3>3, <3>11
  <2>15. ASSUME rows # <<>> PROVE Removes(s, r, u) /\ GoodDetails(u)
    <3> DEFINE v == Capacity(s) - Len(rows)
    <3>1. v \in Nat
      <4>1. Capacity(s) = Len(s.slots) - s.first /\ s.first + s.n <= Len(s.slots) /\ s.first \in Nat /\ Len(s.slots) \in Nat
        BY <1>1 DEF Capacity
      <4>2. s.n \in Nat /\ i \in 1 .. s.n /\ Len(rows) = s.n - 1
        BY <1>1, <2>8, <2>10
      <4>3. s.n - 1 \in Nat
        BY ONLY <4>2
      <4> QED BY <4>1, <4>2, <4>3
    <3>2. PICK x : x = Laid(rows, s.first, v)
      OBVIOUS
    <3>3. PICK y : y = u
      OBVIOUS
    <3>4. y = [b EXCEPT !.slots = x, !.n = @ - 1, !.refs = refs]
      BY <3>2, <3>3, Zenon DEF RemovedFrom, Laid
    <3> HIDE DEF v, u
    <3>5. /\ DOMAIN y = ViewFields /\ y.slots = x /\ y.first = s.first /\ y.n = s.n - 1 /\ y.next = s.next
          /\ y.archive = s.archive
      BY <2>12, <3>4 DEF ViewFields
    <3>6. Same(b, y, {"expiry", "limit", "price", "priced"})
      BY <2>12, <3>4 DEF ViewFields, Same
    <3> HIDE <3>3, <3>4
    <3>7. Same(s, y, {"expiry", "limit", "price", "priced"}) /\ y.limit \in Nat /\ y.price \in Nat
      BY <1>1, <2>12, <3>6 DEF Same
    <3>8. y.slots = Laid(rows, s.first, v) /\ y.n = Len(rows)
      <4>1. y.n = Len(rows)
        BY <2>10, <3>5
      <4>2. y.slots = Laid(rows, s.first, v)
        BY <3>2, <3>5, Zenon
      <4> QED BY <4>1, <4>2
    <3>9. /\ s.first \in Nat /\ y.next \in Int /\ y.archive \subseteq Requests /\ IsFiniteSet(y.archive)
          /\ y.archive \cap IdsOf(rows) = {}
      BY <1>1, <2>13, <3>5
    <3>10. rows \in Seq(Row) /\ Distinct(rows) /\ DOMAIN y = ViewFields /\ y.first = s.first
      BY <2>10, <3>5
    <3>11. GoodDetails(y) /\ Visible(y) = IdsOf(rows)
      BY <3>1, <3>7, <3>8, <3>9, <3>10, RelaidDetails, Zenon
    <3>12. Removes(s, r, y)
      BY <2>13, <3>5, <3>7, <3>11 DEF Removes
    <3> QED BY <3>3, <3>11, <3>12
  <2>16. ASSUME rows # <<>> PROVE Removes(s, r, Rebind(u, i - 1))
    <3>1. PICK y : y = u
      OBVIOUS
    <3>2. Removes(s, r, y) /\ GoodDetails(y)
      BY <2>15, <2>16, <3>1
    <3>3. PICK z : z = Rebind(y, i - 1)
      OBVIOUS
    <3>4. Carried(y, z)
      BY <3>2, <3>3, RebindCarries
    <3>5. Removes(s, r, z)
      BY <3>2, <3>4 DEF Removes, Carried, Same
    <3> QED BY <3>1, <3>3, <3>5
  <2> HIDE DEF bare, u
  <2> QED BY <2>6, <2>14, <2>16
<1> QED BY <1>2, <1>3

-----------------------------------------------------------------------------
(* The steps.                                                              *)

(* Pruning keeps what it should, with nothing stale.                       *)
LEMMA PruneStats ==
    ASSUME NEW s, GoodDetails(s), NEW C, Keeps(s, C, minute)
    PROVE  /\ GoodDetails(PruneDetails(s)) /\ Awaited(PruneDetails(s)) /\ Keeps(PruneDetails(s), C, minute)
           /\ GoodViews(s, C, minute) => GoodStats(PruneDetails(s), C, minute)
<1>1. PICK t : t = PruneDetails(s)
  OBVIOUS
<1>2. /\ GoodDetails(t) /\ Awaited(t)
      /\ t.archive \cup Visible(t) = {r \in s.archive \cup Visible(s) : ~Expired(r)}
      /\ GoodViews(s, C, minute) => GoodViews(t, C, minute)
  BY <1>1, PruneDetailsGood
<1>3. \A r : Expired(r) <=> Overdue(r, minute)
  BY DEF Expired, Overdue
<1>4. Keeps(t, C, minute)
  BY <1>2, <1>3 DEF Keeps
<1> QED BY <1>1, <1>2, <1>4 DEF GoodStats

LEMMA PruneExpiredStats ==
    ASSUME NEW s, NEW C, GoodStats(s, C, minute)
    PROVE  GoodStats(PruneExpired(s), C, minute)
BY PruneStats DEF PruneExpired, GoodStats

LEMMA QueueEventSame ==
    ASSUME NEW s, DOMAIN s = ViewFields, NEW r, NEW over
    PROVE  Same(s, QueueEvent(s, r, over), RangeFields)
<1>1. PICK p : p = Append(s.pending, [id |-> r, seq |-> s.next])
  OBVIOUS
<1>2. \/ QueueEvent(s, r, over) = s \/ QueueEvent(s, r, over) = ClearLists(s)
      \/ QueueEvent(s, r, over) = [s EXCEPT !.pending = p, !.dirty = TRUE]
  BY <1>1 DEF QueueEvent
<1>3. Same(s, [s EXCEPT !.pending = p, !.dirty = TRUE], RangeFields)
  BY DEF Same, RangeFields, CoreFields, ViewFields
<1>4. Same(s, s, RangeFields) /\ Same(s, ClearLists(s), RangeFields)
  BY ClearListsSame DEF Same
<1> QED BY <1>2, <1>3, <1>4

LEMMA SameStats ==
    ASSUME NEW s, NEW t, Same(s, t, RangeFields), NEW C, NEW now, GoodStats(s, C, now)
    PROVE  GoodStats(t, C, now)
BY RangeCarry, CarriedStats DEF GoodStats

LEMMA DropResponsesStats ==
    ASSUME NEW s, GoodDetails(s), Awaited(s), GoodBlocks(s), NEW C, NEW now, Keeps(s, C, now)
    PROVE  GoodStats(DropResponses(s), C, now)
<1>1. PICK t : t = DropResponses(s)
  OBVIOUS
<1>2. Same(s, t, RangeFields \ {"summaries"}) /\ t.summaries = <<>>
  BY <1>1, DropResponsesSame DEF GoodDetails
<1>3. Same(s, t, CoreFields) /\ t.slots = s.slots /\ t.first = s.first /\ t.n = s.n /\ t.blocks = s.blocks
      /\ t.priced = s.priced
  BY <1>2 DEF Same, CoreFields, RangeFields
<1>4. GoodDetails(t) /\ Awaited(t) /\ Keeps(t, C, now)
  BY <1>3, DetailsCarry
<1>5. GoodBlocks(t)
  <2>1. \A f, e : IdsAt(t, f, e) = IdsAt(s, f, e)
    BY <1>3 DEF IdsAt
  <2>2. ASSUME NEW b, GoodBlock(s, b) PROVE GoodBlock(t, b)
    BY <1>3, <2>1, <2>2 DEF GoodBlock
  <2> QED BY <1>3, <2>2 DEF GoodBlocks
<1>6. GoodSummaries(t, C, now)
  BY <1>2 DEF GoodSummaries
<1> QED BY <1>1, <1>4, <1>5, <1>6 DEF GoodStats, GoodViews

NewExpiry(a, r) ==
    IF KeepFor # 0 /\ (a.expiry = 0 \/ a.expiry > TimeOf[r] + KeepFor) THEN TimeOf[r] + KeepFor ELSE a.expiry

Noted(a, b) ==
    /\ GoodDetails(b) /\ Awaited(b) /\ b.archive = a.archive /\ Visible(b) = Visible(a)
    /\ GoodBlocks(a) => GoodBlocks(b)

LEMMA NewExpiryAwaits ==
    ASSUME NEW s, GoodDetails(s), Awaited(s), NEW r \in Requests, TimeOf[r] # 0, NEW a, Added(s, r, a),
           NEW b, b = [a EXCEPT !.expiry = NewExpiry(a, r)]
    PROVE  Noted(a, b)
<1>1. PICK e : e = NewExpiry(a, r)
  OBVIOUS
<1>2. DOMAIN a = ViewFields /\ GoodDetails(a) /\ a.expiry = s.expiry
  BY DEF Added, GoodDetails, Same
<1>3. b = [a EXCEPT !.expiry = e]
  BY <1>1
<1>4. Same(a, b, RangeFields \ {"expiry"}) /\ b.expiry = e
  BY <1>2, <1>3 DEF Same, RangeFields, CoreFields, ViewFields
<1> HIDE <1>3
<1>5. /\ b.slots = a.slots /\ b.first = a.first /\ b.n = a.n /\ b.blocks = a.blocks /\ b.priced = a.priced
      /\ b.archive = a.archive /\ b.next = a.next /\ b.limit = a.limit /\ b.price = a.price /\ DOMAIN b = DOMAIN a
  BY <1>4 DEF Same, CoreFields, RangeFields
<1>6. \A f, g : IdsAt(b, f, g) = IdsAt(a, f, g)
  BY <1>5 DEF IdsAt
<1>7. Visible(b) = Visible(a)
  BY <1>5, <1>6 DEF Visible
<1>8. GoodDetails(b)
  BY <1>2, <1>5, <1>7 DEF GoodDetails, GoodRows, GoodArchive
<1>9. ASSUME GoodBlocks(a) PROVE GoodBlocks(b)
  <2>1. ASSUME NEW k, GoodBlock(a, k) PROVE GoodBlock(b, k)
    BY <1>5, <1>6, <2>1 DEF GoodBlock
  <2> QED BY <1>5, <1>9, <2>1 DEF GoodBlocks
<1>10. KeepFor \in Nat /\ \A q \in Requests : TimeOf[q] \in Nat
  BY RequestsAssumption, SettingsAssumption
<1>11. s.expiry \in Int /\ e = IF KeepFor # 0 /\ (s.expiry = 0 \/ s.expiry > TimeOf[r] + KeepFor)
                               THEN TimeOf[r] + KeepFor ELSE s.expiry
  BY <1>1, <1>2 DEF Awaited, NewExpiry
<1>12. e \in Int /\ (KeepFor # 0 => e # 0 /\ e <= TimeOf[r] + KeepFor /\ (s.expiry # 0 => e <= s.expiry))
  BY <1>10, <1>11
<1>13. s.archive \cup Visible(s) \subseteq Requests
  BY DEF GoodDetails, GoodRows, GoodArchive, Visible, IdsAt
<1>14. ASSUME NEW q \in b.archive \cup Visible(b), KeepFor # 0, TimeOf[q] # 0
       PROVE  e # 0 /\ e <= TimeOf[q] + KeepFor
  <2>1. q = r \/ q \in s.archive \cup Visible(s)
    BY <1>5, <1>7 DEF Added
  <2>2. CASE q = r
    BY <1>12, <1>14, <2>2
  <2>3. CASE q \in s.archive \cup Visible(s)
    <3>1. s.expiry # 0 /\ s.expiry <= TimeOf[q] + KeepFor
      BY <1>14, <2>3 DEF Awaited
    <3>2. TimeOf[q] \in Nat
      BY <1>10, <1>13, <2>3
    <3> QED BY <1>10, <1>11, <1>12, <1>14, <3>1, <3>2
  <2> QED BY <2>1, <2>2, <2>3
<1>15. Awaited(b)
  BY <1>4, <1>12, <1>14 DEF Awaited
<1> QED BY <1>5, <1>7, <1>8, <1>9, <1>15 DEF Noted
(* The requests that count, of these arrivals.                             *)
CountedOf(x) == {x[i].id : i \in {i \in DOMAIN x : x[i].counts}}

LEMMA CountedIsOf == Counted = CountedOf(arrivals) /\ Counted' = CountedOf(arrivals')
BY DEF Counted, CountedOf

LEMMA CountsMore ==
    ASSUME NEW x \in Seq(Arrival), NEW r \in Requests, NEW y, y = Append(x, [id |-> r, rich |-> FALSE, counts |-> TRUE])
    PROVE  y \in Seq(Arrival) /\ CountedOf(y) = CountedOf(x) \cup {r}
<1>1. PICK e : e = [id |-> r, rich |-> FALSE, counts |-> TRUE]
  OBVIOUS
<1>2. e \in Arrival /\ e.id = r /\ e.counts
  BY <1>1 DEF Arrival
<1>3. Len(x) \in Nat /\ DOMAIN x = 1 .. Len(x)
  BY LenProperties
<1>4. y = Append(x, e)
  BY <1>1
<1>5. y \in Seq(Arrival) /\ Len(y) = Len(x) + 1 /\ y[Len(x) + 1] = e /\ \A i \in 1 .. Len(x) : y[i] = x[i]
  BY <1>2, <1>4, AppendProperties
<1> HIDE <1>1, <1>4
<1>6. DOMAIN y = 1 .. Len(x) + 1
  BY <1>5
<1>7. \A i \in 1 .. Len(x) + 1 : i \in 1 .. Len(x) \/ i = Len(x) + 1
  BY <1>3
<1>8. Len(x) + 1 \in 1 .. Len(x) + 1 /\ \A i \in 1 .. Len(x) : i \in 1 .. Len(x) + 1
  BY <1>3
<1>9. CountedOf(y) \subseteq CountedOf(x) \cup {r}
  BY <1>2, <1>3, <1>5, <1>6, <1>7 DEF CountedOf
<1>10. CountedOf(x) \subseteq CountedOf(y)
  BY <1>3, <1>5, <1>6, <1>8 DEF CountedOf
<1>11. r \in CountedOf(y)
  BY <1>2, <1>5, <1>6, <1>8 DEF CountedOf
<1> QED BY <1>5, <1>9, <1>10, <1>11

LEMMA RecordStats ==
    ASSUME NEW s, NEW C, GoodStats(s, C, minute), NEW r \in Requests, r \notin C, TimeOf[r] \in 1 .. minute,
           NEW over, NEW a, a = AppendDetail(s, r), NEW b, b = [a EXCEPT !.expiry = NewExpiry(a, r)],
           NEW c, c = QueueEvent(DropResponses(b), r, over),
           NEW d, d = IF KeepFor # 0 /\ minute >= c.expiry THEN PruneDetails(c) ELSE c
    PROVE  GoodStats(Trim(d), C \cup {r}, minute)
<1>1. GoodDetails(s) /\ Awaited(s) /\ Keeps(s, C, minute) /\ GoodBlocks(s)
  BY DEF GoodStats, GoodViews
<1>2. r \notin s.archive /\ r \notin Visible(s)
  BY <1>1 DEF Keeps
<1>3. Added(s, r, a)
  BY <1>1, <1>2, AppendDetailAdds
<1>4. TimeOf[r] # 0
  OBVIOUS
<1>5. GoodDetails(b) /\ Awaited(b) /\ b.archive = a.archive /\ Visible(b) = Visible(a) /\ GoodBlocks(b)
  <2>1. Noted(a, b)
    BY <1>1, <1>3, <1>4, NewExpiryAwaits
  <2> QED BY <1>1, <1>3, <2>1 DEF Added, Noted
<1>6. Keeps(b, C \cup {r}, minute)
  BY <1>1, <1>3, <1>5 DEF Keeps, Added
<1>7. GoodStats(DropResponses(b), C \cup {r}, minute)
  BY <1>5, <1>6, DropResponsesStats
<1>8. GoodStats(c, C \cup {r}, minute)
  <2>1. PICK u : u = DropResponses(b)
    OBVIOUS
  <2>2. c = QueueEvent(u, r, over) /\ GoodStats(u, C \cup {r}, minute)
    BY <1>7, <2>1
  <2>3. Same(u, c, RangeFields)
    BY <2>2, QueueEventSame DEF GoodStats, GoodDetails
  <2> QED BY <2>2, <2>3, SameStats
<1>9. GoodStats(d, C \cup {r}, minute)
  <2>1. d = PruneDetails(c) \/ d = c
    OBVIOUS
  <2>2. GoodStats(PruneDetails(c), C \cup {r}, minute)
    BY <1>8, PruneStats DEF GoodStats
  <2> QED BY <1>8, <2>1, <2>2
<1> QED BY <1>9, TrimCarries, CarriedStats DEF GoodStats

LEMMA RecordRequestStep ==
    ASSUME ViewInvariant, NEW r \in Requests, NEW over \in BOOLEAN, RecordRequest(r, over)
    PROVE  ViewInvariant'
<1>1. PICK s : s = IF HasLists(stats) THEN [stats EXCEPT !.refs = WithKey(@, r, 0)] ELSE stats
  OBVIOUS
<1>2. PICK a : a = AppendDetail(s, r)
  OBVIOUS
<1>3. PICK b : b = [a EXCEPT !.expiry = NewExpiry(a, r)]
  OBVIOUS
<1>4. PICK c : c = QueueEvent(DropResponses(b), r, over)
  OBVIOUS
<1>5. PICK d : d = IF KeepFor # 0 /\ minute >= c.expiry THEN PruneDetails(c) ELSE c
  OBVIOUS
<1>6. /\ stats' = Trim(d) /\ minute' = minute /\ r \notin Arrived /\ TimeOf[r] \in 1 .. minute
      /\ arrivals' = Append(arrivals, [id |-> r, rich |-> FALSE, counts |-> TRUE])
  BY <1>1, <1>2, <1>3, <1>4, <1>5, Zenon DEF RecordRequest, NewExpiry
<1>7. GoodStats(stats, Counted, minute) /\ arrivals \in Seq(Arrival) /\ minute \in Nat
  BY DEF ViewInvariant
<1>8. arrivals' \in Seq(Arrival) /\ Counted' = Counted \cup {r}
  <2>1. arrivals' \in Seq(Arrival) /\ CountedOf(arrivals') = CountedOf(arrivals) \cup {r}
    BY <1>6, <1>7, CountsMore, Zenon
  <2> QED BY <2>1, CountedIsOf
<1>9. r \notin Counted
  BY <1>6 DEF Counted, Arrived
<1>10. GoodStats(s, Counted, minute)
  <2>1. PICK refs : refs = WithKey(stats.refs, r, 0)
    OBVIOUS
  <2>2. s = [stats EXCEPT !.refs = refs] \/ s = stats
    BY <1>1, <2>1
  <2>3. DOMAIN stats = ViewFields
    BY <1>7 DEF GoodStats, GoodDetails
  <2>4. Same(stats, s, RangeFields)
    BY <2>2, <2>3 DEF Same, RangeFields, CoreFields, ViewFields
  <2> QED BY <1>7, <2>4, SameStats
<1>11. GoodStats(Trim(d), Counted \cup {r}, minute)
  BY <1>2, <1>3, <1>4, <1>5, <1>6, <1>9, <1>10, RecordStats, Zenon
<1> QED BY <1>6, <1>7, <1>8, <1>11, Zenon DEF ViewInvariant

LEMMA CountsRequests ==
    ASSUME NEW x \in Seq(Arrival)
    PROVE  CountedOf(x) \subseteq Requests
<1>1. \A i \in DOMAIN x : x[i] \in Arrival
  BY ElementOfSeq
<1> QED BY <1>1 DEF CountedOf, Arrival

(* An arrival of the same request in every place.                          *)
LEMMA CountsChanged ==
    ASSUME NEW x \in Seq(Arrival), NEW y, DOMAIN y = DOMAIN x, y = [i \in DOMAIN x |-> y[i]],
           \A i \in DOMAIN x : y[i] \in Arrival
    PROVE  y \in Seq(Arrival)
<1>1. Len(x) \in Nat /\ DOMAIN x = 1 .. Len(x)
  BY LenProperties
<1>2. y \in [1 .. Len(x) -> Arrival]
  BY <1>1
<1> QED BY <1>1, <1>2, IsASeq

EnrichedOf(x, r) == [i \in DOMAIN x |-> [x[i] EXCEPT !.rich = @ \/ x[i].id = r]]

LEMMA EnrichedIsOf == \A r : Enriched(r) = EnrichedOf(arrivals, r)
BY Zenon DEF Enriched, EnrichedOf

LEMMA EnrichedCounts ==
    ASSUME NEW x \in Seq(Arrival), NEW r, NEW y, y = EnrichedOf(x, r)
    PROVE  y \in Seq(Arrival) /\ CountedOf(y) = CountedOf(x)
<1>1. y = [i \in DOMAIN x |-> [x[i] EXCEPT !.rich = @ \/ x[i].id = r]]
  BY DEF EnrichedOf
<1>2. ASSUME NEW i \in DOMAIN x PROVE y[i] \in Arrival /\ y[i].id = x[i].id /\ y[i].counts = x[i].counts
  <2>1. PICK e \in Arrival : e = x[i]
    BY ElementOfSeq
  <2>2. PICK v \in BOOLEAN : v = (e.rich \/ e.id = r)
    OBVIOUS
  <2>3. PICK f : f = [e EXCEPT !.rich = v]
    OBVIOUS
  <2>4. f \in Arrival /\ f.id = e.id /\ f.counts = e.counts
    <3> HIDE <2>1, <2>2
    <3> QED BY <2>3 DEF Arrival
  <2>5. y[i] = f
    BY <1>1, <2>1, <2>2, <2>3, Zenon
  <2> QED BY <2>1, <2>4, <2>5, Zenon
<1>3. DOMAIN y = DOMAIN x /\ y = [i \in DOMAIN x |-> y[i]]
  BY <1>1
<1>4. y \in Seq(Arrival)
  BY <1>2, <1>3, CountsChanged, Zenon
<1> HIDE <1>1
<1>5. CountedOf(y) \subseteq CountedOf(x)
  BY <1>2, <1>3 DEF CountedOf
<1>6. CountedOf(x) \subseteq CountedOf(y)
  BY <1>2, <1>3 DEF CountedOf
<1> QED BY <1>4, <1>5, <1>6

LEMMA RetractedCounts ==
    ASSUME NEW x \in Seq(Arrival), NEW r, NEW y, y = Retracted(x, r)
    PROVE  y \in Seq(Arrival) /\ CountedOf(y) = CountedOf(x) \ {r}
<1>1. y = [i \in DOMAIN x |-> [x[i] EXCEPT !.counts = @ /\ x[i].id # r]]
  BY DEF Retracted
<1>2. ASSUME NEW i \in DOMAIN x
      PROVE  y[i] \in Arrival /\ y[i].id = x[i].id /\ (y[i].counts <=> x[i].counts /\ x[i].id # r)
  <2>1. PICK e \in Arrival : e = x[i]
    BY ElementOfSeq
  <2>2. PICK v \in BOOLEAN : v = (e.counts /\ e.id # r)
    OBVIOUS
  <2>3. PICK f : f = [e EXCEPT !.counts = v]
    OBVIOUS
  <2>4. f \in Arrival /\ f.id = e.id /\ f.counts = v
    <3> HIDE <2>1, <2>2
    <3> QED BY <2>3 DEF Arrival
  <2>5. y[i] = f
    BY <1>1, <2>1, <2>2, <2>3, Zenon
  <2> QED BY <2>1, <2>2, <2>4, <2>5, Zenon
<1>3. DOMAIN y = DOMAIN x /\ y = [i \in DOMAIN x |-> y[i]]
  BY <1>1
<1>4. y \in Seq(Arrival)
  BY <1>2, <1>3, CountsChanged, Zenon
<1>5. CountedOf(y) \subseteq CountedOf(x) \ {r}
  BY <1>2, <1>3 DEF CountedOf
<1>6. CountedOf(x) \ {r} \subseteq CountedOf(y)
  BY <1>2, <1>3 DEF CountedOf
<1> QED BY <1>4, <1>5, <1>6

LEMMA RemovesStats ==
    ASSUME NEW s, GoodDetails(s), Awaited(s), NEW C, Keeps(s, C, minute), NEW r, NEW t, Removes(s, r, t)
    PROVE  GoodDetails(t) /\ Awaited(t) /\ Keeps(t, C \ {r}, minute)
<1>1. t.expiry = s.expiry /\ t.archive \cup Visible(t) = (s.archive \cup Visible(s)) \ {r} /\ GoodDetails(t)
  BY DEF Removes, Same
<1>2. Awaited(t)
  BY <1>1 DEF Awaited
<1>3. Keeps(t, C \ {r}, minute)
  BY <1>1 DEF Keeps
<1> QED BY <1>1, <1>2, <1>3

LEMMA EnrichRequestStep ==
    ASSUME ViewInvariant, NEW r \in Requests, EnrichRequest(r)
    PROVE  ViewInvariant'
<1>1. GoodStats(stats, Counted, minute) /\ arrivals \in Seq(Arrival) /\ minute \in Nat
  BY DEF ViewInvariant
<1>2. PICK t : t = SetDetail(stats, r)
  OBVIOUS
<1>3. r \in Shown(stats) /\ stats' = DropResponses(t) /\ arrivals' = Enriched(r) /\ minute' = minute
  BY <1>2 DEF EnrichRequest
<1>4. arrivals' \in Seq(Arrival) /\ Counted' = Counted
  <2>1. arrivals' = EnrichedOf(arrivals, r)
    BY <1>3, EnrichedIsOf
  <2>2. arrivals' \in Seq(Arrival) /\ CountedOf(arrivals') = CountedOf(arrivals)
    BY <1>1, <2>1, EnrichedCounts, Zenon
  <2> QED BY <2>2, CountedIsOf
<1>5. GoodStats(t, Counted, minute)
  BY <1>1, <1>2, <1>3, SetDetailCarries, CarriedStats DEF GoodStats
<1>6. GoodStats(DropResponses(t), Counted, minute)
  BY <1>5, DropResponsesStats DEF GoodStats, GoodViews
<1> QED BY <1>1, <1>3, <1>4, <1>6, Zenon DEF ViewInvariant

LEMMA RemoveRequestStep ==
    ASSUME ViewInvariant, NEW r \in Requests, RemoveRequest(r)
    PROVE  ViewInvariant'
<1>1. GoodStats(stats, Counted, minute) /\ arrivals \in Seq(Arrival) /\ minute \in Nat
  BY DEF ViewInvariant
<1>2. PICK t : t = RemoveDetail(stats, r)
  OBVIOUS
<1>3. /\ r \in Shown(stats) \cup stats.archive /\ stats' = InvalidateSummary(t)
      /\ arrivals' = Retracted(arrivals, r) /\ minute' = minute
  BY <1>2 DEF RemoveRequest
<1>4. arrivals' \in Seq(Arrival) /\ Counted' = Counted \ {r}
  <2>1. arrivals' \in Seq(Arrival) /\ CountedOf(arrivals') = CountedOf(arrivals) \ {r}
    BY <1>1, <1>3, RetractedCounts, Zenon
  <2> QED BY <2>1, CountedIsOf
<1>5. Removes(stats, r, t)
  BY <1>1, <1>2, <1>3, RemoveDetailRemoves DEF GoodStats
<1>6. GoodDetails(t) /\ Awaited(t) /\ Keeps(t, Counted \ {r}, minute)
  BY <1>1, <1>5, RemovesStats DEF GoodStats
<1>7. GoodStats(InvalidateSummary(t), Counted \ {r}, minute)
  BY <1>6, InvalidateSummaryGood
<1> QED BY <1>1, <1>3, <1>4, <1>7, Zenon DEF ViewInvariant

LEMMA ReconcileRequestStep ==
    ASSUME ViewInvariant, NEW native \in Requests, NEW fallback \in Requests, ReconcileRequest(native, fallback)
    PROVE  ViewInvariant'
<1>1. GoodStats(stats, Counted, minute) /\ arrivals \in Seq(Arrival) /\ minute \in Nat
  BY DEF ViewInvariant
<1>2. PICK t : t = SetDetail(stats, native)
  OBVIOUS
<1>3. PICK u : u = RemoveDetail(t, fallback)
  OBVIOUS
<1>4. PICK x : x = Enriched(native)
  OBVIOUS
<1>5. /\ native \in Shown(stats) /\ fallback \in Shown(stats) \cup stats.archive
      /\ stats' = InvalidateSummary(PruneDetails(u)) /\ arrivals' = Retracted(x, fallback) /\ minute' = minute
  BY <1>2, <1>3, <1>4 DEF ReconcileRequest
<1>6. x \in Seq(Arrival) /\ CountedOf(x) = CountedOf(arrivals)
  <2>1. x = EnrichedOf(arrivals, native)
    BY <1>4, EnrichedIsOf
  <2> QED BY <1>1, <2>1, EnrichedCounts, Zenon
<1>7. arrivals' \in Seq(Arrival) /\ Counted' = Counted \ {fallback}
  <2>1. arrivals' \in Seq(Arrival) /\ CountedOf(arrivals') = CountedOf(x) \ {fallback}
    BY <1>5, <1>6, RetractedCounts, Zenon
  <2> QED BY <1>6, <2>1, CountedIsOf
<1>8. Carried(stats, t) /\ Shown(t) = Shown(stats) /\ t.archive = stats.archive
  BY <1>1, <1>2, <1>5, SetDetailCarries DEF GoodStats
<1>9. GoodStats(t, Counted, minute)
  BY <1>1, <1>8, CarriedStats
<1>10. Removes(t, fallback, u)
  BY <1>3, <1>5, <1>8, <1>9, RemoveDetailRemoves DEF GoodStats
<1>11. GoodDetails(u) /\ Awaited(u) /\ Keeps(u, Counted \ {fallback}, minute)
  BY <1>9, <1>10, RemovesStats DEF GoodStats
<1>12. /\ GoodDetails(PruneDetails(u)) /\ Awaited(PruneDetails(u))
       /\ Keeps(PruneDetails(u), Counted \ {fallback}, minute)
  BY <1>11, PruneStats
<1>13. GoodStats(InvalidateSummary(PruneDetails(u)), Counted \ {fallback}, minute)
  BY <1>12, InvalidateSummaryGood
<1> QED BY <1>1, <1>5, <1>7, <1>13, Zenon DEF ViewInvariant

LEMMA ChangePricesStep ==
    ASSUME ViewInvariant, ChangePrices
    PROVE  ViewInvariant'
<1>1. GoodStats(stats, Counted, minute) /\ arrivals \in Seq(Arrival) /\ minute \in Nat
  BY DEF ViewInvariant
<1>2. PICK t : t = [stats EXCEPT !.price = @ + 1]
  OBVIOUS
<1>3. stats' = DropResponses(t) /\ arrivals' = arrivals /\ minute' = minute
  BY <1>2 DEF ChangePrices
<1>4. DOMAIN stats = ViewFields /\ stats.price \in Nat
  BY <1>1 DEF GoodStats, GoodDetails
<1>5. Same(stats, t, RangeFields \ {"price"}) /\ t.price = stats.price + 1
  BY <1>2, <1>4 DEF Same, RangeFields, CoreFields, ViewFields
<1>6. /\ t.slots = stats.slots /\ t.first = stats.first /\ t.n = stats.n /\ t.blocks = stats.blocks
      /\ t.priced = stats.priced /\ t.archive = stats.archive /\ t.next = stats.next /\ t.limit = stats.limit
      /\ t.expiry = stats.expiry /\ t.price \in Nat /\ DOMAIN t = DOMAIN stats
  BY <1>4, <1>5 DEF Same, CoreFields, RangeFields
<1> HIDE <1>2, <1>5
<1>7. \A f, g : IdsAt(t, f, g) = IdsAt(stats, f, g)
  BY <1>6 DEF IdsAt
<1>8. Visible(t) = Visible(stats)
  BY <1>6, <1>7 DEF Visible
<1>9. GoodDetails(t) /\ Awaited(t) /\ Keeps(t, Counted, minute)
  <2>1. GoodDetails(stats) /\ Awaited(stats) /\ Keeps(stats, Counted, minute)
    BY <1>1 DEF GoodStats
  <2>2. GoodRows(t)
    BY <1>6, <2>1 DEF GoodDetails, GoodRows
  <2>3. GoodDetails(t)
    BY <1>6, <1>8, <2>1, <2>2 DEF GoodDetails, GoodArchive
  <2> QED BY <1>6, <1>8, <2>1, <2>3 DEF Awaited, Keeps
<1>10. GoodBlocks(t)
  <2>1. GoodBlocks(stats)
    BY <1>1 DEF GoodStats, GoodViews
  <2>2. ASSUME NEW k, GoodBlock(stats, k) PROVE GoodBlock(t, k)
    BY <1>6, <1>7, <2>2 DEF GoodBlock
  <2> QED BY <1>6, <2>1, <2>2 DEF GoodBlocks
<1>11. GoodStats(DropResponses(t), Counted, minute)
  BY <1>9, <1>10, DropResponsesStats
<1>12. Counted' = Counted
  BY <1>3 DEF Counted
<1> QED BY <1>1, <1>3, <1>11, <1>12, Zenon DEF ViewInvariant

LEMMA ChangeLimitStep ==
    ASSUME ViewInvariant, NEW limit \in VisibleLimits, ChangeLimit(limit)
    PROVE  ViewInvariant'
<1>1. GoodStats(stats, Counted, minute) /\ arrivals \in Seq(Arrival) /\ minute \in Nat
  BY DEF ViewInvariant
<1>2. PICK t : t = [stats EXCEPT !.limit = limit]
  OBVIOUS
<1>3. stats' = InvalidateSummary(PruneDetails(t)) /\ arrivals' = arrivals /\ minute' = minute
  BY <1>2 DEF ChangeLimit
<1>4. DOMAIN stats = ViewFields /\ GoodDetails(stats) /\ Keeps(stats, Counted, minute)
  BY <1>1 DEF GoodStats, GoodDetails
<1>5. limit \in Nat
  BY SettingsAssumption
<1>6. /\ t.slots = stats.slots /\ t.first = stats.first /\ t.n = stats.n
      /\ t.archive = stats.archive /\ t.next = stats.next /\ t.limit = limit
      /\ t.price = stats.price /\ DOMAIN t = DOMAIN stats
  BY <1>2, <1>4 DEF ViewFields
<1> HIDE <1>2
<1>7. Visible(t) = Visible(stats)
  BY <1>6 DEF Visible, IdsAt
<1>8. GoodDetails(t) /\ Keeps(t, Counted, minute)
  <2>1. GoodRows(t)
    BY <1>4, <1>6 DEF GoodDetails, GoodRows
  <2>2. GoodDetails(t)
    BY <1>4, <1>5, <1>6, <1>7, <2>1 DEF GoodDetails, GoodArchive
  <2> QED BY <1>4, <1>6, <1>7, <2>2 DEF Keeps
<1>9. GoodDetails(PruneDetails(t)) /\ Awaited(PruneDetails(t)) /\ Keeps(PruneDetails(t), Counted, minute)
  BY <1>8, PruneStats
<1>10. GoodStats(InvalidateSummary(PruneDetails(t)), Counted, minute)
  BY <1>9, InvalidateSummaryGood
<1>11. Counted' = Counted
  BY <1>3 DEF Counted
<1> QED BY <1>1, <1>3, <1>10, <1>11, Zenon DEF ViewInvariant

LEMMA ViewTickStep ==
    ASSUME ViewInvariant, ViewTick
    PROVE  ViewInvariant'
<1>1. GoodStats(stats, Counted, minute) /\ arrivals \in Seq(Arrival) /\ minute \in Nat
  BY DEF ViewInvariant
<1>2. minute' = minute + 1 /\ stats' = stats /\ arrivals' = arrivals
  BY DEF ViewTick
<1>3. Counted' = Counted
  BY <1>2 DEF Counted
<1>4. Counted \subseteq Requests
  BY <1>1, CountsRequests, CountedIsOf
<1>5. KeepFor \in Nat /\ \A q \in Requests : TimeOf[q] \in Nat
  BY RequestsAssumption, SettingsAssumption
<1>6. \A r \in Counted : Overdue(r, minute) => Overdue(r, minute + 1)
  BY <1>1, <1>4, <1>5 DEF Overdue
<1>7. Keeps(stats, Counted, minute + 1)
  BY <1>1, <1>6 DEF GoodStats, Keeps
<1>8. GoodSummaries(stats, Counted, minute + 1)
  BY <1>1 DEF GoodStats, GoodViews, GoodSummaries
<1>9. GoodStats(stats, Counted, minute + 1)
  BY <1>1, <1>7, <1>8 DEF GoodStats, GoodViews
<1>10. minute + 1 \in Nat
  BY <1>1
<1> QED BY <1>1, <1>2, <1>3, <1>9, <1>10, Zenon DEF ViewInvariant

-----------------------------------------------------------------------------
(* Queries.                                                                *)

LEMMA SameTwice ==
    ASSUME NEW s, NEW t, NEW u, Same(s, t, RangeFields), Same(t, u, RangeFields)
    PROVE  Same(s, u, RangeFields)
BY DEF Same

LEMMA RefreshListsSame ==
    ASSUME NEW s, DOMAIN s = ViewFields, NEW over
    PROVE  Same(s, RefreshLists(s, over), RangeFields)
<1>1. ASSUME NEW t, DOMAIN t = ViewFields PROVE Same(t, [ClearLists(t) EXCEPT !.current = TRUE], RangeFields)
  <2>1. PICK u : u = ClearLists(t)
    OBVIOUS
  <2>2. Same(t, u, RangeFields) /\ DOMAIN u = ViewFields
    BY <1>1, <2>1, ClearListsSame DEF Same
  <2>3. Same(u, [u EXCEPT !.current = TRUE], RangeFields)
    BY <2>2 DEF Same, RangeFields, CoreFields, ViewFields
  <2> QED BY <2>1, <2>2, <2>3, SameTwice
<1>2. PICK t : t = IF s.current THEN s ELSE [ClearLists(s) EXCEPT !.current = TRUE]
  OBVIOUS
<1>3. Same(s, t, RangeFields) /\ DOMAIN t = ViewFields
  BY <1>1, <1>2 DEF Same
<1>4. PICK pending : pending = SortSeq(t.pending, LAMBDA a, b : EventBefore(t, a, b))
  BY Zenon
<1>5. PICK lists : lists = [f \in DOMAIN t.lists |-> MergeEvents(t, f, pending)]
  BY Zenon
<1>6. PICK u : u = [t EXCEPT !.lists = lists, !.pending = <<>>, !.dirty = FALSE]
  OBVIOUS
<1>7. ApplyUpdates(t, over) = IF ~t.dirty THEN t ELSE IF over THEN [ClearLists(u) EXCEPT !.current = TRUE] ELSE u
  BY <1>4, <1>5, <1>6, Zenon DEF ApplyUpdates
<1>8. Same(t, u, RangeFields)
  BY <1>3, <1>6 DEF Same, RangeFields, CoreFields, ViewFields
<1>9. DOMAIN u = ViewFields
  BY <1>3, <1>8 DEF Same
<1>10. Same(t, [ClearLists(u) EXCEPT !.current = TRUE], RangeFields)
  BY <1>1, <1>8, <1>9, SameTwice
<1>11. Same(t, t, RangeFields)
  BY DEF Same
<1> HIDE <1>4, <1>5, <1>6
<1>12. Same(t, ApplyUpdates(t, over), RangeFields)
  BY <1>7, <1>8, <1>10, <1>11
<1>13. RefreshLists(s, over) = ApplyUpdates(t, over)
  BY <1>2 DEF RefreshLists
<1> QED BY <1>3, <1>12, <1>13, SameTwice

LEMMA ReferCarries ==
    ASSUME NEW s, GoodDetails(s), NEW filter
    PROVE  Carried(s, Refer(s, filter))
<1>1. PICK mine : mine = {r \in Shown(s) : Selects(filter, r)}
  OBVIOUS
<1>2. PICK t : t = Number(s)
  OBVIOUS
<1>3. PICK refs : refs = t.refs @@ [r \in mine |-> 0]
  OBVIOUS
<1>4. PICK u : u = [t EXCEPT !.refs = refs]
  OBVIOUS
<1>5. Refer(s, filter) = IF mine = {} \/ filter \in DOMAIN s.lists THEN s ELSE Rebind(u, 0)
  BY <1>1, <1>2, <1>3, <1>4, Zenon DEF Refer
<1>6. Carried(s, t) /\ GoodDetails(t)
  BY <1>2, NumberCarries DEF Carried
<1>7. Same(t, u, RangeFields)
  BY <1>4, <1>6 DEF GoodDetails, Same, RangeFields, CoreFields, ViewFields
<1>8. Carried(t, u) /\ GoodDetails(u)
  BY <1>6, <1>7, RangeCarry DEF Carried
<1>9. Carried(s, Rebind(u, 0))
  BY <1>6, <1>8, RebindCarries, CarriedTwice
<1> QED BY <1>5, <1>9, CarriedItself

LEMMA QueryEventsCarries ==
    ASSUME NEW s, GoodDetails(s), NEW q, NEW over, NEW admit, NEW keep
    PROVE  Carried(s, QueryEvents(s, q, over, admit, keep))
<1>1. PICK x : x = RefreshLists(s, over)
  OBVIOUS
<1>2. PICK t : t = Refer(x, q.filter)
  OBVIOUS
<1>3. PICK list : list = ListEvents(t, q.filter)
  OBVIOUS
<1>4. PICK lists : lists = WithKey(t.lists, q.filter, list)
  OBVIOUS
<1>5. PICK u : u = IF admit /\ q.filter \notin DOMAIN t.lists THEN [t EXCEPT !.lists = lists] ELSE t
  OBVIOUS
<1>6. PICK page : page = Page(Matches(t, list, q), q)
  OBVIOUS
<1>7. \/ QueryEvents(s, q, over, admit, keep) = s
      \/ QueryEvents(s, q, over, admit, keep) = KeepPage(u, q, page)
      \/ QueryEvents(s, q, over, admit, keep) = u
  BY <1>1, <1>2, <1>3, <1>4, <1>5, <1>6, Zenon DEF QueryEvents
<1>8. Carried(s, x) /\ GoodDetails(x)
  <2>1. Same(s, x, RangeFields)
    BY <1>1, RefreshListsSame DEF GoodDetails
  <2> QED BY <2>1, RangeCarry DEF Carried
<1>9. Carried(s, t) /\ GoodDetails(t)
  BY <1>2, <1>8, ReferCarries, CarriedTwice DEF Carried
<1>10. Carried(s, u) /\ GoodDetails(u)
  <2>1. Same(t, [t EXCEPT !.lists = lists], RangeFields)
    BY <1>9 DEF GoodDetails, Same, RangeFields, CoreFields, ViewFields
  <2>2. Carried(t, u)
    BY <1>5, <1>9, <2>1, RangeCarry, CarriedItself
  <2> QED BY <1>9, <2>2, CarriedTwice DEF Carried
<1>11. Carried(s, KeepPage(u, q, page))
  <2>1. PICK pages : pages = Append(u.pages, [key |-> PageKey(q), answer |-> page])
    OBVIOUS
  <2>2. PICK more : more = IF Len(pages) > PageMax THEN Tail(pages) ELSE pages
    OBVIOUS
  <2>3. KeepPage(u, q, page) = [u EXCEPT !.pages = more]
    BY <2>1, <2>2, Zenon DEF KeepPage
  <2> HIDE <2>1, <2>2
  <2>4. Same(u, [u EXCEPT !.pages = more], RangeFields)
    BY <1>10 DEF GoodDetails, Same, RangeFields, CoreFields, ViewFields
  <2>5. Carried(u, [u EXCEPT !.pages = more])
    BY <1>10, <2>4, RangeCarry
  <2> QED BY <1>10, <2>3, <2>5, CarriedTwice
<1> HIDE <1>1, <1>2, <1>3, <1>4, <1>5, <1>6
<1> QED BY <1>7, <1>10, <1>11, CarriedItself

LEMMA ShowEventsStep ==
    ASSUME ViewInvariant, NEW q, NEW over, NEW admit, NEW keep, ShowEvents(q, over, admit, keep)
    PROVE  ViewInvariant'
<1>1. GoodStats(stats, Counted, minute) /\ arrivals \in Seq(Arrival) /\ minute \in Nat
  BY DEF ViewInvariant
<1>2. PICK s : s = PruneExpired(stats)
  OBVIOUS
<1>3. stats' = QueryEvents(s, q, over, admit, keep) /\ arrivals' = arrivals /\ minute' = minute
  BY <1>2 DEF ShowEvents
<1>4. GoodStats(s, Counted, minute)
  BY <1>1, <1>2, PruneExpiredStats
<1>5. GoodStats(stats', Counted, minute)
  BY <1>3, <1>4, QueryEventsCarries, CarriedStats DEF GoodStats
<1>6. Counted' = Counted
  BY <1>3 DEF Counted
<1> QED BY <1>1, <1>3, <1>5, <1>6, Zenon DEF ViewInvariant

-----------------------------------------------------------------------------
(* The blocks the details are in.                                          *)

LEMMA DivBounds ==
    ASSUME NEW x \in Nat
    PROVE  /\ x \div BlockRows \in Nat /\ (x \div BlockRows) * BlockRows \in Nat
           /\ (x \div BlockRows + 1) * BlockRows \in Nat
           /\ (x \div BlockRows) * BlockRows <= x /\ x < (x \div BlockRows + 1) * BlockRows
<1>1. PICK w \in Nat \ {0} : w = BlockRows
  BY SettingsAssumption
<1>2. PICK q \in Nat : q = x \div w
  OBVIOUS
<1>3. q * w <= x /\ x < (q + 1) * w
  BY <1>2
<1>4. q * w \in Nat /\ (q + 1) * w \in Nat
  OBVIOUS
<1> QED BY <1>1, <1>2, <1>3, <1>4

LEMMA TimesOrder ==
    ASSUME NEW b \in Nat, NEW c \in Nat, b * BlockRows < (c + 1) * BlockRows
    PROVE  b <= c
<1>1. PICK w \in Nat \ {0} : w = BlockRows
  BY SettingsAssumption
<1>2. b * w < (c + 1) * w
  BY <1>1
<1> SUFFICES ASSUME ~(b <= c) PROVE FALSE
  OBVIOUS
<1>3. c + 1 <= b
  OBVIOUS
<1>4. PICK e \in Nat : e = c + 1
  OBVIOUS
<1>5. e <= b
  BY <1>3, <1>4
<1>6. e * w <= b * w
  BY <1>5
<1> QED BY <1>2, <1>4, <1>6

LEMMA DivOrder ==
    ASSUME NEW x \in Nat, NEW y \in Nat, x <= y
    PROVE  x \div BlockRows <= y \div BlockRows
<1>1. PICK b \in Nat : b = x \div BlockRows
  BY DivBounds
<1>2. PICK c \in Nat : c = y \div BlockRows
  BY DivBounds
<1>3. b * BlockRows <= x /\ y < (c + 1) * BlockRows /\ b * BlockRows \in Nat /\ (c + 1) * BlockRows \in Nat
  BY <1>1, <1>2, DivBounds
<1>4. b * BlockRows < (c + 1) * BlockRows
  BY <1>3
<1> QED BY <1>1, <1>2, <1>4, TimesOrder

(* Where a touched block lies.                                             *)
LEMMA BlockBounds ==
    ASSUME NEW s, s.first \in Nat, s.n \in Nat, NEW b \in Touched(s)
    PROVE  /\ b \in Nat /\ BlockFrom(s, b) \in Nat /\ BlockEnd(s, b) \in Nat
           /\ s.first <= BlockFrom(s, b) /\ b * BlockRows <= BlockFrom(s, b)
           /\ BlockEnd(s, b) <= s.first + s.n /\ BlockEnd(s, b) <= (b + 1) * BlockRows
           /\ b * BlockRows \in Nat /\ (b + 1) * BlockRows \in Nat
<1>1. s.n # 0 /\ b \in (s.first \div BlockRows) .. ((s.first + s.n - 1) \div BlockRows)
  BY DEF Touched
<1>2. s.first \div BlockRows \in Nat /\ s.first + s.n - 1 \in Nat
  BY <1>1, DivBounds
<1>3. (s.first + s.n - 1) \div BlockRows \in Nat
  BY <1>2, DivBounds
<1>4. b \in Nat
  BY <1>1, <1>2, <1>3
<1>5. PICK w \in Nat : w = BlockRows
  BY SettingsAssumption
<1>6. PICK p \in Nat : p = b * BlockRows
  BY <1>4, <1>5
<1>7. PICK e \in Nat : e = (b + 1) * BlockRows
  BY <1>4, <1>5
<1>8. BlockFrom(s, b) = Larger(s.first, p) /\ BlockEnd(s, b) = Smaller(s.first + s.n, e)
  BY <1>6, <1>7 DEF BlockFrom, BlockEnd
<1>9. Larger(s.first, p) \in Nat /\ s.first <= Larger(s.first, p) /\ p <= Larger(s.first, p)
  BY DEF Larger
<1>10. Smaller(s.first + s.n, e) \in Nat /\ Smaller(s.first + s.n, e) <= s.first + s.n /\ Smaller(s.first + s.n, e) <= e
  BY DEF Smaller
<1> QED BY <1>4, <1>6, <1>7, <1>8, <1>9, <1>10

(* The block of a position.                                                *)
LEMMA BlockAround ==
    ASSUME NEW s, s.first \in Nat, s.n \in Nat, NEW k \in s.first + 1 .. s.first + s.n
    PROVE  \E b \in Touched(s) : k \in BlockFrom(s, b) + 1 .. BlockEnd(s, b)
<1>1. k - 1 \in Nat /\ s.first <= k - 1 /\ k - 1 <= s.first + s.n - 1 /\ s.first + s.n - 1 \in Nat /\ s.n # 0
      /\ k \in Nat
  OBVIOUS
<1>2. PICK b \in Nat : b = (k - 1) \div BlockRows
  BY <1>1, DivBounds
<1>3. s.first \div BlockRows <= b /\ b <= (s.first + s.n - 1) \div BlockRows
  BY <1>1, <1>2, DivOrder
<1>4. s.first \div BlockRows \in Nat /\ (s.first + s.n - 1) \div BlockRows \in Nat
  BY <1>1, DivBounds
<1>5. b \in Touched(s)
  <2>1. b \in (s.first \div BlockRows) .. ((s.first + s.n - 1) \div BlockRows)
    BY <1>3, <1>4
  <2> QED BY <1>1, <2>1 DEF Touched
<1>6. b * BlockRows <= k - 1 /\ k - 1 < (b + 1) * BlockRows
  BY <1>1, <1>2, DivBounds
<1>7. PICK p \in Nat : p = b * BlockRows
  BY <1>1, <1>2, DivBounds
<1>8. PICK e \in Nat : e = (b + 1) * BlockRows
  BY <1>1, <1>2, DivBounds
<1>9. BlockFrom(s, b) = Larger(s.first, p) /\ BlockEnd(s, b) = Smaller(s.first + s.n, e)
  BY <1>7, <1>8 DEF BlockFrom, BlockEnd
<1>10. p <= k - 1 /\ k - 1 < e
  BY <1>6, <1>7, <1>8
<1>11. Larger(s.first, p) + 1 <= k /\ k <= Smaller(s.first + s.n, e) /\ Larger(s.first, p) \in Nat
       /\ Smaller(s.first + s.n, e) \in Nat
  BY <1>1, <1>10 DEF Larger, Smaller
<1>12. k \in BlockFrom(s, b) + 1 .. BlockEnd(s, b)
  BY <1>1, <1>9, <1>11
<1> QED BY <1>5, <1>12

LEMMA BlocksApart ==
    ASSUME NEW s, s.first \in Nat, s.n \in Nat, NEW b \in Touched(s), NEW c \in Touched(s),
           NEW k, k \in BlockFrom(s, b) + 1 .. BlockEnd(s, b), k \in BlockFrom(s, c) + 1 .. BlockEnd(s, c)
    PROVE  b = c
<1>1. ASSUME NEW d \in {b, c} PROVE d \in Nat /\ d * BlockRows < k /\ k <= (d + 1) * BlockRows /\ k \in Int
                                    /\ d * BlockRows \in Nat /\ (d + 1) * BlockRows \in Nat
  <2>1. d \in Touched(s) /\ k \in BlockFrom(s, d) + 1 .. BlockEnd(s, d)
    OBVIOUS
  <2>2. /\ d \in Nat /\ BlockFrom(s, d) \in Nat /\ BlockEnd(s, d) \in Nat /\ d * BlockRows <= BlockFrom(s, d)
        /\ BlockEnd(s, d) <= (d + 1) * BlockRows /\ d * BlockRows \in Nat /\ (d + 1) * BlockRows \in Nat
    BY <2>1, BlockBounds
  <2> QED BY <2>1, <2>2
<1>2. b * BlockRows < (c + 1) * BlockRows /\ c * BlockRows < (b + 1) * BlockRows
  <2>1. b * BlockRows < k /\ k <= (c + 1) * BlockRows /\ c * BlockRows < k /\ k <= (b + 1) * BlockRows
    BY <1>1
  <2> QED BY <1>1, <2>1
<1>3. b \in Nat /\ c \in Nat
  BY <1>1
<1>4. b <= c /\ c <= b
  BY <1>2, <1>3, TimesOrder
<1> QED BY <1>3, <1>4

LEMMA BlocksPartition ==
    ASSUME NEW s, GoodDetails(s)
    PROVE  /\ Visible(s) = UNION {BlockIds(s, b) : b \in Touched(s)} /\ IsFiniteSet(Touched(s))
           /\ \A b \in Touched(s) : IsFiniteSet(BlockIds(s, b)) /\ BlockIds(s, b) \subseteq Visible(s)
           /\ \A b, c \in Touched(s) : b # c => BlockIds(s, b) \cap BlockIds(s, c) = {}
<1>1. s.first \in Nat /\ s.n \in Nat /\ GoodRows(s)
  BY DEF GoodDetails, GoodRows
<1>2. ASSUME NEW b \in Touched(s), NEW k \in BlockFrom(s, b) + 1 .. BlockEnd(s, b)
      PROVE  k \in s.first + 1 .. s.first + s.n
  <2>1. /\ BlockFrom(s, b) \in Nat /\ BlockEnd(s, b) \in Nat /\ s.first <= BlockFrom(s, b)
        /\ BlockEnd(s, b) <= s.first + s.n
    BY <1>1, BlockBounds
  <2> QED BY <1>1, <2>1
<1>3. ASSUME NEW b \in Touched(s) PROVE BlockIds(s, b) \subseteq Visible(s)
  BY <1>2 DEF BlockIds, Visible, IdsAt
<1>4. ASSUME NEW r \in Visible(s) PROVE \E b \in Touched(s) : r \in BlockIds(s, b)
  <2>1. PICK k \in s.first + 1 .. s.first + s.n : r = s.slots[k].id
    BY DEF Visible, IdsAt
  <2>2. PICK b \in Touched(s) : k \in BlockFrom(s, b) + 1 .. BlockEnd(s, b)
    BY <1>1, BlockAround
  <2> QED BY <2>1, <2>2 DEF BlockIds
<1>5. ASSUME NEW b \in Touched(s), NEW c \in Touched(s), b # c PROVE BlockIds(s, b) \cap BlockIds(s, c) = {}
  <2> SUFFICES ASSUME NEW k \in BlockFrom(s, b) + 1 .. BlockEnd(s, b), NEW l \in BlockFrom(s, c) + 1 .. BlockEnd(s, c),
                      s.slots[k].id = s.slots[l].id
               PROVE  FALSE
    BY DEF BlockIds
  <2>1. k = l
    <3>1. k \in s.first + 1 .. s.first + s.n /\ l \in s.first + 1 .. s.first + s.n
      BY <1>2
    <3> QED BY <1>1, <3>1 DEF GoodRows
  <2> QED BY <1>1, <1>5, <2>1, BlocksApart
<1>6. ASSUME NEW b \in Touched(s) PROVE IsFiniteSet(BlockIds(s, b))
  <2>1. PICK f \in Int : f = BlockFrom(s, b) + 1
    BY <1>1, BlockBounds
  <2>2. PICK e \in Int : e = BlockEnd(s, b)
    BY <1>1, BlockBounds
  <2>3. IsFiniteSet(f .. e)
    BY FS_Interval
  <2> DEFINE g == [k \in f .. e |-> s.slots[k].id]
  <2>4. BlockIds(s, b) = {s.slots[k].id : k \in f .. e}
    BY <2>1, <2>2 DEF BlockIds
  <2>5. g \in Surjection(f .. e, BlockIds(s, b))
    BY <2>4 DEF Surjection
  <2> QED BY <2>3, <2>5, FS_Surjection
<1>7. IsFiniteSet(Touched(s))
  <2>1. CASE s.n = 0
    BY <2>1, FS_EmptySet DEF Touched
  <2>2. CASE s.n # 0
    <3>1. s.first + s.n - 1 \in Nat
      BY <1>1, <2>2
    <3>2. PICK f \in Int : f = s.first \div BlockRows
      BY <1>1, DivBounds
    <3>3. PICK e \in Int : e = (s.first + s.n - 1) \div BlockRows
      BY <3>1, DivBounds
    <3>4. IsFiniteSet(f .. e)
      BY FS_Interval
    <3> QED BY <2>2, <3>2, <3>3, <3>4 DEF Touched
  <2> QED BY <2>1, <2>2
<1>8. Visible(s) = UNION {BlockIds(s, b) : b \in Touched(s)}
  BY <1>3, <1>4
<1> QED BY <1>3, <1>5, <1>6, <1>7, <1>8

LEMMA PastIsTooOld == \A r, span : Past(r, span) <=> TooOld(r, span, minute)
BY DEF Past, TooOld

LEMMA SumPriced ==
    ASSUME NEW s, NEW ids, NEW span
    PROVE  Sum(s, ids, span) = Priced({r \in ids : ~TooOld(r, span, minute)}, s.price)
BY PastIsTooOld DEF Sum, Priced

(* The block a query uses is of the rows that are there now.               *)
Prepared(s, b, block) ==
    /\ DOMAIN block = {"from", "end", "sums", "times"}
    /\ block.from = BlockFrom(s, b) /\ block.end = BlockEnd(s, b)
    /\ block.times = {TimeOf[r] : r \in BlockIds(s, b)}
    /\ \A x \in DOMAIN block.sums : block.sums[x] = Priced(BlockIds(s, b), s.priced)

LEMMA PreparedBlock ==
    ASSUME NEW s, GoodDetails(s), GoodBlocks(s), NEW b \in Touched(s)
    PROVE  Prepared(s, b, PrepareBlock(s, b))
<1>1. BlockIds(s, b) = IdsAt(s, BlockFrom(s, b), BlockEnd(s, b))
  BY DEF BlockIds, IdsAt
<1>2. s.first \in Nat /\ s.n \in Nat
  BY DEF GoodDetails, GoodRows
<1>3. BlockFrom(s, b) >= s.first
  BY <1>2, BlockBounds
<1>4. PICK x : x = PrepareBlock(s, b)
  OBVIOUS
<1>5. CASE b \in DOMAIN s.blocks /\ s.blocks[b].from = BlockFrom(s, b) /\ s.blocks[b].end = BlockEnd(s, b)
  <2>1. x = s.blocks[b]
    BY <1>4, <1>5 DEF PrepareBlock
  <2>2. GoodBlock(s, b) /\ s.blocks[b].from >= s.first
    BY <1>3, <1>5 DEF GoodBlocks
  <2>3. /\ DOMAIN x = {"from", "end", "sums", "times"} /\ x.from = BlockFrom(s, b) /\ x.end = BlockEnd(s, b)
        /\ x.times = {TimeOf[r] : r \in IdsAt(s, x.from, x.end)}
        /\ \A k \in DOMAIN x.sums : x.sums[k] = Priced(IdsAt(s, x.from, x.end), s.priced)
    BY <1>5, <2>1, <2>2 DEF GoodBlock
  <2> QED BY <1>1, <1>4, <2>3 DEF Prepared
<1>6. CASE ~(b \in DOMAIN s.blocks /\ s.blocks[b].from = BlockFrom(s, b) /\ s.blocks[b].end = BlockEnd(s, b))
  <2>1. x = [from |-> BlockFrom(s, b), end |-> BlockEnd(s, b), sums |-> <<>>, times |-> {TimeOf[r] : r \in BlockIds(s, b)}]
    BY <1>4, <1>6 DEF PrepareBlock
  <2>2. /\ DOMAIN x = {"from", "end", "sums", "times"} /\ x.from = BlockFrom(s, b) /\ x.end = BlockEnd(s, b)
        /\ x.times = {TimeOf[r] : r \in BlockIds(s, b)} /\ x.sums = <<>>
    BY <2>1
  <2>3. DOMAIN x.sums = {}
    BY <2>2
  <2> QED BY <1>4, <2>2, <2>3 DEF Prepared
<1> QED BY <1>5, <1>6

LEMMA BlockRequests ==
    ASSUME NEW s, GoodDetails(s), NEW b \in Touched(s)
    PROVE  BlockIds(s, b) \subseteq Requests
<1>1. BlockIds(s, b) \subseteq Visible(s)
  BY BlocksPartition
<1>2. Visible(s) \subseteq Requests
  BY DEF GoodDetails, GoodRows, Visible, IdsAt
<1> QED BY <1>1, <1>2

LEMMA MergedBlock ==
    ASSUME NEW s, GoodDetails(s), GoodBlocks(s), s.priced = s.price, NEW b \in Touched(s), minute \in Nat,
           NEW q, q.span \in Nat
    PROVE  MergeBlock(s, b, q) = Priced({r \in BlockIds(s, b) : ~TooOld(r, q.span, minute)}, s.price)
<1>1. PICK block : block = PrepareBlock(s, b)
  OBVIOUS
<1>2. PICK ids : ids = BlockIds(s, b)
  OBVIOUS
<1>3. /\ block.times = {TimeOf[r] : r \in ids}
      /\ \A x \in DOMAIN block.sums : block.sums[x] = Priced(ids, s.price)
  BY <1>1, <1>2, PreparedBlock DEF Prepared
<1>4. ids \subseteq Requests /\ \A r \in ids : TimeOf[r] \in Nat /\ r # Nobody /\ TimeOf[r] \in block.times
  <2>1. ids \subseteq Requests
    BY <1>2, BlockRequests
  <2> QED BY <1>3, <2>1, RequestsAssumption
<1>5. PICK wanted : wanted = Priced({r \in ids : ~TooOld(r, q.span, minute)}, s.price)
  OBVIOUS
<1>6. Sum(s, ids, q.span) = wanted
  BY <1>5, SumPriced
<1>7. ASSUME OutOfRange(block, q.span) PROVE wanted = {}
  <2>1. q.span # 0 /\ \A r \in ids : TimeOf[r] < minute - q.span
    BY <1>4, <1>7 DEF OutOfRange
  <2>2. \A r \in ids : TooOld(r, q.span, minute)
    BY <2>1 DEF TooOld
  <2> QED BY <1>5, <2>2 DEF Priced
<1>8. ASSUME Complete(block, q.span), q.reader \in DOMAIN block.sums PROVE block.sums[q.reader] = wanted
  <2>1. \A r \in ids : ~TooOld(r, q.span, minute)
    <3>1. CASE q.span = 0
      BY <3>1 DEF TooOld
    <3>2. CASE q.span # 0
      <4>1. \A r \in ids : TimeOf[r] # 0 /\ TimeOf[r] >= minute - q.span
        BY <1>4, <1>8, <3>2 DEF Complete
      <4> QED BY <1>4, <4>1 DEF TooOld
    <3> QED BY <3>1, <3>2
  <2>2. {r \in ids : ~TooOld(r, q.span, minute)} = ids
    BY <2>1
  <2> QED BY <1>3, <1>5, <1>8, <2>2
<1>9. MergeBlock(s, b, q) = IF b \notin BlocksOf(s) THEN Sum(s, ids, q.span)
                            ELSE IF OutOfRange(block, q.span) THEN {}
                            ELSE IF Complete(block, q.span) /\ q.reader \in DOMAIN block.sums THEN block.sums[q.reader]
                            ELSE Sum(s, ids, q.span)
  BY <1>1, <1>2 DEF MergeBlock
<1> QED BY <1>2, <1>5, <1>6, <1>7, <1>8, <1>9

LEMMA PricedTogether ==
    ASSUME NEW price
    PROVE  /\ \A ids : IsFiniteSet(ids) => IsFiniteSet(Priced(ids, price))
           /\ \A x, y : x \cap y = {} => Priced(x, price) \cap Priced(y, price) = {}
<1>1. ASSUME NEW ids, IsFiniteSet(ids) PROVE IsFiniteSet(Priced(ids, price))
  <2> DEFINE f == [r \in ids |-> [id |-> r, price |-> price]]
  <2>1. f \in Surjection(ids, Priced(ids, price))
    BY DEF Surjection, Priced
  <2> QED BY <1>1, <2>1, FS_Surjection
<1>2. ASSUME NEW x, NEW y, x \cap y = {} PROVE Priced(x, price) \cap Priced(y, price) = {}
  <2>1. ASSUME NEW p \in x, NEW r \in y PROVE [id |-> p, price |-> price] # [id |-> r, price |-> price]
    BY <1>2
  <2> QED BY <2>1 DEF Priced
<1> QED BY <1>1, <1>2

(* A range sums what it should.                                            *)
LEMMA TotalAnswers ==
    ASSUME NEW s, GoodDetails(s), GoodBlocks(s), s.priced = s.price, minute \in Nat, NEW q, q.span \in Nat
    PROVE  Total(s, q) = Answer(s.archive \cup Visible(s), q, s.price, minute)
<1> DEFINE fresh(ids) == {r \in ids : ~TooOld(r, q.span, minute)}
<1>1. PICK A : A = Priced(fresh(s.archive), s.price)
  OBVIOUS
<1>2. PICK T : T = Touched(s)
  OBVIOUS
<1>3. PICK parts : parts = [b \in T |-> MergeBlock(s, b, q)]
  OBVIOUS
<1>4. Sum(s, s.archive, q.span) = A
  BY <1>1, SumPriced
<1>5. DOMAIN parts = T /\ \A b \in T : parts[b] = Priced(fresh(BlockIds(s, b)), s.price)
  BY <1>2, <1>3, MergedBlock
<1>6. /\ Visible(s) = UNION {BlockIds(s, b) : b \in T} /\ IsFiniteSet(T)
      /\ \A b \in T : IsFiniteSet(BlockIds(s, b)) /\ BlockIds(s, b) \subseteq Visible(s)
      /\ \A b, c \in T : b # c => BlockIds(s, b) \cap BlockIds(s, c) = {}
      /\ IsFiniteSet(s.archive) /\ s.archive \cap Visible(s) = {}
  BY <1>2, BlocksPartition DEF GoodDetails, GoodArchive
<1>7. IsFiniteSet(A)
  <2>1. IsFiniteSet(fresh(s.archive))
    BY <1>6, FS_Subset
  <2> QED BY <1>1, <2>1, PricedTogether
<1>8. ASSUME NEW b \in T PROVE IsFiniteSet(parts[b]) /\ parts[b] \cap A = {}
  <2>1. IsFiniteSet(fresh(BlockIds(s, b)))
    BY <1>6, FS_Subset
  <2>2. fresh(BlockIds(s, b)) \cap fresh(s.archive) = {}
    BY <1>6
  <2> QED BY <1>1, <1>5, <2>1, <2>2, PricedTogether
<1>9. ASSUME NEW b \in T, NEW c \in T, b # c PROVE parts[b] \cap parts[c] = {}
  <2>1. fresh(BlockIds(s, b)) \cap fresh(BlockIds(s, c)) = {}
    BY <1>6, <1>9
  <2> QED BY <1>5, <2>1, PricedTogether
<1>10. CountOf(A, parts) = Cardinality(A \cup UNION {parts[b] : b \in DOMAIN parts})
  <2>1. IsFiniteSet(DOMAIN parts)
    BY <1>5, <1>6
  <2>2. /\ \A b \in DOMAIN parts : IsFiniteSet(parts[b]) /\ parts[b] \cap A = {}
        /\ \A b, c \in DOMAIN parts : b # c => parts[b] \cap parts[c] = {}
    BY <1>5, <1>8, <1>9
  <2> QED BY <1>7, <2>1, <2>2, SumsCount
<1>11. PICK rows : rows = A \cup UNION {parts[b] : b \in T}
  OBVIOUS
<1>12. rows = Priced(fresh(s.archive \cup Visible(s)), s.price)
  <2>1. A \subseteq Priced(fresh(s.archive \cup Visible(s)), s.price)
    BY <1>1 DEF Priced
  <2>2. \A b \in T : parts[b] \subseteq Priced(fresh(s.archive \cup Visible(s)), s.price)
    BY <1>5, <1>6 DEF Priced
  <2>3. ASSUME NEW r \in fresh(s.archive \cup Visible(s)) PROVE [id |-> r, price |-> s.price] \in rows
    <3>1. CASE r \in s.archive
      BY <1>1, <1>11, <3>1 DEF Priced
    <3>2. CASE r \in Visible(s)
      <4>1. PICK b \in T : r \in BlockIds(s, b)
        BY <1>6, <3>2
      <4>2. [id |-> r, price |-> s.price] \in parts[b]
        BY <1>5, <4>1 DEF Priced
      <4> QED BY <1>11, <4>2
    <3> QED BY <3>1, <3>2
  <2>4. Priced(fresh(s.archive \cup Visible(s)), s.price) \subseteq rows
    BY <2>3 DEF Priced
  <2> QED BY <1>11, <2>1, <2>2, <2>4
<1>13. Total(s, q) = [rows |-> rows, count |-> Cardinality(rows)]
  <2>1. Total(s, q) = [rows |-> A \cup UNION {parts[b] : b \in T}, count |-> CountOf(A, parts)]
    BY <1>2, <1>3, <1>4, Zenon DEF Total, CountOf
  <2>2. CountOf(A, parts) = Cardinality(rows)
    BY <1>5, <1>10, <1>11
  <2> QED BY <1>11, <2>1, <2>2, Zenon
<1>14. Answer(s.archive \cup Visible(s), q, s.price, minute) = [rows |-> rows, count |-> Cardinality(rows)]
  BY <1>12, Zenon DEF Answer
<1> QED BY <1>13, <1>14

LEMMA RepriceGood ==
    ASSUME NEW s, GoodDetails(s), GoodBlocks(s)
    PROVE  /\ Same(s, Reprice(s), CoreFields) /\ Reprice(s).summaries = s.summaries
           /\ Reprice(s).priced = s.price /\ GoodDetails(Reprice(s)) /\ GoodBlocks(Reprice(s))
           /\ Visible(Reprice(s)) = Visible(s)
<1>1. CASE s.priced = s.price
  <2>1. Reprice(s) = s
    BY <1>1 DEF Reprice
  <2> QED BY <1>1, <2>1 DEF Same
<1>2. CASE s.priced # s.price
  <2>1. PICK blocks : blocks = [b \in DOMAIN s.blocks |-> [s.blocks[b] EXCEPT !.sums = <<>>]]
    OBVIOUS
  <2>2. PICK t : t = Reprice(s)
    OBVIOUS
  <2>3. t = [s EXCEPT !.priced = s.price, !.blocks = blocks]
    BY <1>2, <2>1, <2>2 DEF Reprice
  <2>4. Same(s, t, ViewFields \ {"priced", "blocks"}) /\ t.priced = s.price /\ t.blocks = blocks
    BY <2>3 DEF Same, ViewFields, GoodDetails
  <2> HIDE <2>2, <2>3
  <2>5. Same(s, t, CoreFields) /\ t.summaries = s.summaries /\ t.slots = s.slots /\ t.first = s.first /\ t.n = s.n
    BY <2>4 DEF Same, CoreFields, ViewFields
  <2>6. GoodDetails(t) /\ Visible(t) = Visible(s)
    BY <2>5, DetailsCarry
  <2>7. GoodBlocks(t)
    <3>1. DOMAIN t.blocks = DOMAIN s.blocks /\ DOMAIN t.blocks \subseteq Nat
      BY <2>1, <2>4 DEF GoodBlocks
    <3>2. ASSUME NEW b \in DOMAIN t.blocks PROVE GoodBlock(t, b)
      <4>1. PICK x : x = s.blocks[b]
        OBVIOUS
      <4>2. PICK y : y = t.blocks[b]
        OBVIOUS
      <4>3. y = [x EXCEPT !.sums = <<>>]
        BY <2>1, <2>4, <3>1, <4>1, <4>2
      <4>4. GoodBlock(s, b) /\ DOMAIN x = {"from", "end", "sums", "times"}
        BY <3>1, <4>1 DEF GoodBlocks, GoodBlock
      <4>5. /\ DOMAIN y = {"from", "end", "sums", "times"} /\ y.from = x.from /\ y.end = x.end /\ y.times = x.times
            /\ y.sums = <<>>
        BY <4>3, <4>4
      <4> HIDE <2>1, <4>3
      <4>6. IdsAt(t, y.from, y.end) = IdsAt(s, x.from, x.end)
        BY <2>5, <4>5 DEF IdsAt
      <4>7. DOMAIN y.sums = {}
        BY <4>5
      <4> QED BY <2>5, <4>1, <4>2, <4>4, <4>5, <4>6, <4>7 DEF GoodBlock
    <3> QED BY <3>1, <3>2 DEF GoodBlocks
  <2> QED BY <2>2, <2>4, <2>5, <2>6, <2>7
<1> QED BY <1>1, <1>2

LEMMA RepriceStats ==
    ASSUME NEW s, NEW C, NEW now, GoodStats(s, C, now)
    PROVE  GoodStats(Reprice(s), C, now)
<1>1. /\ GoodDetails(s) /\ GoodBlocks(s) /\ Awaited(s) /\ Keeps(s, C, now) /\ GoodSummaries(s, C, now)
  BY DEF GoodStats, GoodViews
<1>2. PICK t : t = Reprice(s)
  OBVIOUS
<1>3. Same(s, t, CoreFields) /\ t.summaries = s.summaries /\ GoodDetails(t) /\ GoodBlocks(t)
  BY <1>1, <1>2, RepriceGood
<1>4. Awaited(t) /\ Keeps(t, C, now)
  BY <1>1, <1>3, DetailsCarry
<1>5. t.price = s.price
  BY <1>3 DEF Same, CoreFields
<1>6. GoodSummaries(t, C, now)
  BY <1>1, <1>3, <1>5 DEF GoodSummaries
<1> QED BY <1>2, <1>3, <1>4, <1>6 DEF GoodStats, GoodViews

Extends(g, f, d, e) ==
    /\ DOMAIN g = DOMAIN f \cup {d} /\ \A x \in DOMAIN f : g[x] = f[x]
    /\ d \notin DOMAIN f => g[d] = e

LEMMA OneMore == \A f, d, e : Extends(WithKey(f, d, e), f, d, e)
BY DEF WithKey, Extends

(* What is kept of a block is of the rows that are there.                  *)
LEMMA KeepSumsCarries ==
    ASSUME NEW s, GoodDetails(s), GoodBlocks(s), s.priced = s.price, minute \in Nat, NEW q, q.span \in Nat, NEW admit
    PROVE  Carried(s, KeepSums(s, q, admit))
<1> DEFINE more(b) == [PrepareBlock(s, b) EXCEPT !.sums = WithKey(@, q.reader, MergeBlock(s, b, q))]
           kept(b) == admit /\ ~OutOfRange(PrepareBlock(s, b), q.span) /\ Complete(PrepareBlock(s, b), q.span)
           new(b) == IF kept(b) THEN more(b) ELSE PrepareBlock(s, b)
<1>1. PICK blocks : blocks = [b \in DOMAIN s.blocks \cup BlocksOf(s) |->
                                IF b \notin BlocksOf(s) THEN s.blocks[b] ELSE new(b)]
  OBVIOUS
<1>2. PICK t : t = KeepSums(s, q, admit)
  OBVIOUS
<1>3. t = [s EXCEPT !.blocks = blocks]
  BY <1>1, <1>2, Zenon DEF KeepSums
<1>4. Same(s, t, ViewFields \ {"blocks"}) /\ t.blocks = blocks
  BY <1>3 DEF Same, ViewFields, GoodDetails
<1>5. /\ Same(s, t, CoreFields) /\ t.slots = s.slots /\ t.first = s.first /\ t.n = s.n /\ t.priced = s.priced
      /\ Same(s, t, {"expiry", "limit", "price", "priced", "summaries"})
  BY <1>4 DEF Same, CoreFields, ViewFields
<1>6. GoodDetails(t) /\ Visible(t) = Visible(s) /\ t.archive = s.archive
  BY <1>5, DetailsCarry
<1>7. /\ DOMAIN blocks = DOMAIN s.blocks \cup BlocksOf(s)
      /\ \A b \in DOMAIN blocks : b \notin BlocksOf(s) => blocks[b] = s.blocks[b]
      /\ \A b \in BlocksOf(s) : blocks[b] = new(b)
  BY <1>1, Zenon
<1> HIDE <1>1, <1>2, <1>3
<1>8. s.first \in Nat /\ s.n \in Nat
  BY DEF GoodDetails, GoodRows
<1>9. ASSUME NEW b \in BlocksOf(s) PROVE b \in Nat /\ Prepared(s, b, new(b))
  <2>1. b \in Touched(s) /\ b \in Nat
    BY <1>8, BlockBounds DEF BlocksOf
  <2>2. Prepared(s, b, PrepareBlock(s, b))
    BY <2>1, PreparedBlock
  <2>3. ASSUME kept(b) PROVE Prepared(s, b, more(b))
    <3>1. PICK x : x = PrepareBlock(s, b)
      OBVIOUS
    <3>2. PICK m : m = MergeBlock(s, b, q)
      OBVIOUS
    <3>3. PICK sums : sums = WithKey(x.sums, q.reader, m)
      OBVIOUS
    <3>4. PICK ids : ids = BlockIds(s, b)
      OBVIOUS
    <3>5. ids \subseteq Requests /\ \A r \in ids : TimeOf[r] \in Nat /\ r # Nobody
      <4>1. ids \subseteq Requests
        BY <2>1, <3>4, BlockRequests
      <4> QED BY <4>1, RequestsAssumption
    <3>6. \A r \in ids : ~TooOld(r, q.span, minute)
      <4>1. Complete(x, q.span) /\ x.times = {TimeOf[r] : r \in ids}
        BY <2>2, <2>3, <3>1, <3>4 DEF Prepared
      <4>2. CASE q.span = 0
        BY <4>2 DEF TooOld
      <4>3. CASE q.span # 0
        <5>1. \A r \in ids : TimeOf[r] # 0 /\ TimeOf[r] >= minute - q.span
          BY <4>1, <4>3 DEF Complete
        <5> QED BY <3>5, <5>1 DEF TooOld
      <4> QED BY <4>2, <4>3
    <3>7. m = Priced(ids, s.priced)
      <4>1. m = Priced({r \in ids : ~TooOld(r, q.span, minute)}, s.price)
        BY <2>1, <3>2, <3>4, MergedBlock
      <4>2. {r \in ids : ~TooOld(r, q.span, minute)} = ids
        BY <3>6
      <4> QED BY <4>1, <4>2
    <3>8. \A k \in DOMAIN x.sums : x.sums[k] = Priced(ids, s.priced)
      BY <2>2, <3>1, <3>4 DEF Prepared
    <3>9. \A k \in DOMAIN sums : sums[k] = Priced(ids, s.priced)
      <4>1. Extends(sums, x.sums, q.reader, m)
        BY <3>3, OneMore
      <4> QED BY <3>7, <3>8, <4>1 DEF Extends
    <3>10. PICK y : y = [x EXCEPT !.sums = sums]
      OBVIOUS
    <3>11. more(b) = y
      BY <3>1, <3>2, <3>3, <3>10, Zenon
    <3>12. DOMAIN x = {"from", "end", "sums", "times"}
      BY <2>2, <3>1 DEF Prepared
    <3> HIDE DEF more
    <3>13. /\ DOMAIN y = {"from", "end", "sums", "times"} /\ y.from = x.from /\ y.end = x.end /\ y.times = x.times
           /\ y.sums = sums
      BY <3>10, <3>12
    <3> HIDE <3>3, <3>10
    <3>14. x.from = BlockFrom(s, b) /\ x.end = BlockEnd(s, b) /\ x.times = {TimeOf[r] : r \in ids}
      BY <2>2, <3>1, <3>4 DEF Prepared
    <3>15. Prepared(s, b, y)
      BY <3>4, <3>9, <3>13, <3>14 DEF Prepared
    <3> QED BY <3>11, <3>15
  <2> HIDE DEF more, kept
  <2>4. (new(b) = more(b) /\ kept(b)) \/ new(b) = PrepareBlock(s, b)
    BY Zenon
  <2> QED BY <2>1, <2>2, <2>3, <2>4
<1>10. ASSUME GoodBlocks(s) PROVE GoodBlocks(t)
  <2>1. DOMAIN t.blocks \subseteq Nat
    BY <1>4, <1>7, <1>9, <1>10 DEF GoodBlocks
  <2> HIDE DEF new
  <2>2. \A f, e : IdsAt(t, f, e) = IdsAt(s, f, e)
    BY <1>5 DEF IdsAt
  <2>3. ASSUME NEW b \in DOMAIN t.blocks PROVE GoodBlock(t, b)
    <3>1. CASE b \notin BlocksOf(s)
      <4>1. t.blocks[b] = s.blocks[b] /\ GoodBlock(s, b)
        BY <1>4, <1>7, <1>10, <2>3, <3>1 DEF GoodBlocks
      <4> QED BY <1>5, <2>2, <4>1 DEF GoodBlock
    <3>2. CASE b \in BlocksOf(s)
      <4>1. PICK y : y = t.blocks[b]
        OBVIOUS
      <4>2. Prepared(s, b, y)
        BY <1>4, <1>7, <1>9, <3>2, <4>1
      <4>3. BlockIds(s, b) = IdsAt(t, y.from, y.end)
        BY <2>2, <4>2 DEF Prepared, BlockIds, IdsAt
      <4>4. b \in Touched(s)
        BY <3>2 DEF BlocksOf
      <4>5. /\ y.from \in Nat /\ y.end \in Nat /\ y.end <= t.first + t.n /\ y.end <= (b + 1) * BlockRows
        BY <1>5, <1>8, <4>2, <4>4, BlockBounds DEF Prepared
      <4> QED BY <1>5, <4>1, <4>2, <4>3, <4>5 DEF GoodBlock, Prepared
    <3> QED BY <3>1, <3>2
  <2> QED BY <2>1, <2>3 DEF GoodBlocks
<1>11. t.archive \cup Visible(t) = s.archive \cup Visible(s)
  BY <1>6
<1>12. Carried(s, t)
  BY <1>5, <1>6, <1>10, <1>11 DEF Carried
<1> QED BY <1>2, <1>12

-----------------------------------------------------------------------------
(* Ranges.                                                                 *)

(* Once the expired details are gone, what is left is what should count.   *)
LEMMA OnlyUnexpired ==
    ASSUME NEW s, NEW C, GoodStats(s, C, minute), C \subseteq Requests, minute \in Nat, NEW t, t = PruneExpired(s)
    PROVE  GoodStats(t, C, minute) /\ t.price = s.price /\ t.archive \cup Visible(t) = {r \in C : ~Overdue(r, minute)}
<1>1. GoodStats(t, C, minute)
  BY PruneExpiredStats
<1>2. \A r : Expired(r) <=> Overdue(r, minute)
  BY DEF Expired, Overdue
<1>3. t.price = s.price /\ \A r \in t.archive \cup Visible(t) : ~Overdue(r, minute)
  <2>1. CASE s.expiry # 0 /\ minute > s.expiry
    <3>1. t = PruneDetails(s)
      BY <2>1 DEF PruneExpired
    <3>2. t.price = s.price /\ t.archive \cup Visible(t) = {r \in s.archive \cup Visible(s) : ~Expired(r)}
      BY <3>1, PruneDetailsGood DEF GoodStats
    <3> QED BY <1>2, <3>2
  <2>2. CASE ~(s.expiry # 0 /\ minute > s.expiry)
    <3>1. t = s
      BY <2>2 DEF PruneExpired
    <3>2. ASSUME NEW r \in s.archive \cup Visible(s), Overdue(r, minute) PROVE FALSE
      <4>1. r \in Requests
        BY <3>2 DEF GoodStats, Keeps
      <4>2. KeepFor # 0 /\ TimeOf[r] # 0 /\ TimeOf[r] + KeepFor < minute /\ TimeOf[r] \in Nat /\ KeepFor \in Nat
        BY <3>2, <4>1, RequestsAssumption, SettingsAssumption DEF Overdue
      <4>3. s.expiry # 0 /\ s.expiry <= TimeOf[r] + KeepFor /\ s.expiry \in Int
        BY <3>2, <4>2 DEF GoodStats, Awaited
      <4> QED BY <2>2, <4>2, <4>3
    <3> QED BY <3>1, <3>2
  <2> QED BY <2>1, <2>2
<1>4. Keeps(t, C, minute)
  BY <1>1 DEF GoodStats
<1> QED BY <1>1, <1>3, <1>4 DEF Keeps

LEMMA TotalExpected ==
    ASSUME NEW s, NEW C, GoodStats(s, C, minute), C \subseteq Requests, minute \in Nat,
           NEW q, q.span \in Nat, NEW u, u = Reprice(PruneExpired(s))
    PROVE  Total(u, q) = Expectation(C, q, s.price, minute)
<1>1. PICK t : t = PruneExpired(s)
  OBVIOUS
<1>2. GoodStats(t, C, minute) /\ t.price = s.price /\ t.archive \cup Visible(t) = {r \in C : ~Overdue(r, minute)}
  BY <1>1, OnlyUnexpired
<1>3. GoodDetails(t) /\ GoodBlocks(t)
  BY <1>2 DEF GoodStats, GoodViews
<1>4. /\ Same(t, u, CoreFields) /\ u.priced = t.price /\ GoodDetails(u) /\ GoodBlocks(u) /\ Visible(u) = Visible(t)
  BY <1>1, <1>3, RepriceGood
<1>5. u.price = s.price /\ u.priced = u.price /\ u.archive = t.archive
  BY <1>2, <1>4 DEF Same, CoreFields
<1>6. Total(u, q) = Answer(u.archive \cup Visible(u), q, u.price, minute)
  BY <1>4, <1>5, TotalAnswers
<1>7. u.archive \cup Visible(u) = {r \in C : ~Overdue(r, minute)}
  BY <1>2, <1>4, <1>5
<1> QED BY <1>5, <1>6, <1>7 DEF Expectation

LEMMA ShowSummaryStep ==
    ASSUME ViewInvariant, NEW q \in Summaries, NEW admit, ShowSummary(q, admit)
    PROVE  ViewInvariant'
<1>1. GoodStats(stats, Counted, minute) /\ arrivals \in Seq(Arrival) /\ minute \in Nat
  BY DEF ViewInvariant
<1>2. PICK s : s = PruneExpired(stats)
  OBVIOUS
<1>3. PICK u : u = Reprice(s)
  OBVIOUS
<1>4. PICK all : all = WithKey(s.summaries, SummaryKey(q), Total(u, q))
  OBVIOUS
<1>5. PICK v : v = KeepSums(u, q, admit)
  OBVIOUS
<1>6. /\ arrivals' = arrivals /\ minute' = minute
      /\ \/ stats' = s
         \/ SummaryKey(q) \notin DOMAIN s.summaries /\ \E kept \in SUBSET DOMAIN all :
                stats' = [v EXCEPT !.summaries = [k \in kept |-> all[k]]]
  <2> DEFINE old == PruneExpired(stats)
             sum == WithKey(old.summaries, SummaryKey(q), Total(Reprice(old), q))
             new(kept) == [KeepSums(Reprice(old), q, admit) EXCEPT !.summaries = [k \in kept |-> sum[k]]]
  <2>1. \/ SummaryKey(q) \in DOMAIN old.summaries /\ stats' = old
        \/ SummaryKey(q) \notin DOMAIN old.summaries /\ \E kept \in SUBSET DOMAIN sum : stats' = new(kept)
    BY Zenon DEF ShowSummary
  <2>2. old = s /\ sum = all /\ KeepSums(Reprice(old), q, admit) = v
    BY <1>2, <1>3, <1>4, <1>5
  <2>3. \A kept : new(kept) = [v EXCEPT !.summaries = [k \in kept |-> all[k]]]
    BY <2>2, Zenon
  <2>4. arrivals' = arrivals /\ minute' = minute
    BY DEF ShowSummary
  <2> HIDE DEF old, sum, new
  <2>5. CASE SummaryKey(q) \in DOMAIN old.summaries /\ stats' = old
    BY <2>2, <2>4, <2>5
  <2>6. CASE SummaryKey(q) \notin DOMAIN old.summaries /\ \E kept \in SUBSET DOMAIN sum : stats' = new(kept)
    <3>1. PICK kept \in SUBSET DOMAIN sum : stats' = new(kept)
      BY <2>6
    <3>2. stats' = [v EXCEPT !.summaries = [k \in kept |-> all[k]]]
      BY <2>3, <3>1, Zenon
    <3>3. kept \in SUBSET DOMAIN all
      BY <2>2, <3>1
    <3>4. SummaryKey(q) \notin DOMAIN s.summaries
      BY <2>2, <2>6
    <3> QED BY <2>4, <3>2, <3>3, <3>4, Zenon
  <2> QED BY <2>1, <2>5, <2>6
<1>7. Counted' = Counted
  BY <1>6 DEF Counted
<1>8. Counted \subseteq Requests /\ q.span \in Nat
  BY <1>1, CountsRequests, CountedIsOf, SpansAssumption
<1>9. GoodStats(s, Counted, minute) /\ s.price = stats.price
  BY <1>1, <1>2, <1>8, OnlyUnexpired
<1>10. GoodStats(u, Counted, minute) /\ u.priced = u.price /\ u.price = s.price /\ u.summaries = s.summaries
  <2>1. GoodStats(u, Counted, minute)
    BY <1>3, <1>9, RepriceStats
  <2>2. Same(s, u, CoreFields) /\ u.priced = s.price /\ u.summaries = s.summaries
    BY <1>3, <1>9, RepriceGood DEF GoodStats, GoodViews
  <2> QED BY <2>1, <2>2 DEF Same, CoreFields
<1>11. GoodStats(v, Counted, minute) /\ v.price = s.price
  <2>1. Carried(u, v)
    BY <1>1, <1>5, <1>8, <1>10, KeepSumsCarries DEF GoodStats, GoodViews
  <2> QED BY <1>10, <2>1, CarriedStats DEF Carried, Same
<1>12. Extends(all, s.summaries, SummaryKey(q), Total(u, q))
  BY <1>4, OneMore
<1>13. Total(u, q) = Expectation(Counted, q, s.price, minute)
  BY <1>1, <1>2, <1>3, <1>8, <1>9, TotalExpected
<1> HIDE <1>2, <1>3, <1>4, <1>5
<1>14. SummaryKey(q).at = minute /\ SummaryKey(q).query = q
  BY DEF SummaryKey
<1>15. ASSUME SummaryKey(q) \notin DOMAIN s.summaries, NEW k \in DOMAIN all
       PROVE  k.at \in Int /\ k.at <= minute /\ (k.at = minute => all[k] = Expectation(Counted, k.query, s.price, minute))
  <2>1. CASE k = SummaryKey(q)
    BY <1>1, <1>12, <1>13, <1>14, <1>15, <2>1 DEF Extends
  <2>2. CASE k \in DOMAIN s.summaries
    BY <1>9, <1>12, <2>2 DEF Extends, GoodStats, GoodViews, GoodSummaries
  <2> QED BY <1>12, <2>1, <2>2 DEF Extends
<1>16. ASSUME SummaryKey(q) \notin DOMAIN s.summaries, NEW kept \in SUBSET DOMAIN all,
              stats' = [v EXCEPT !.summaries = [k \in kept |-> all[k]]]
       PROVE  GoodStats(stats', Counted, minute)
  <2>1. PICK x : x = stats'
    OBVIOUS
  <2>2. PICK summaries : summaries = [k \in kept |-> all[k]]
    OBVIOUS
  <2>3. x = [v EXCEPT !.summaries = summaries]
    BY <1>16, <2>1, <2>2
  <2>4. DOMAIN v = ViewFields
    BY <1>11 DEF GoodStats, GoodDetails
  <2>5. Same(v, x, RangeFields \ {"summaries"}) /\ x.summaries = summaries
    BY <2>3, <2>4 DEF Same, RangeFields, CoreFields, ViewFields
  <2> HIDE <2>3, <1>16
  <2>6. /\ Same(v, x, CoreFields) /\ x.slots = v.slots /\ x.first = v.first /\ x.n = v.n /\ x.blocks = v.blocks
        /\ x.priced = v.priced /\ x.price = s.price
    BY <1>11, <2>5 DEF Same, CoreFields, RangeFields
  <2>7. GoodDetails(x) /\ Awaited(x) /\ Keeps(x, Counted, minute)
    BY <1>11, <2>6, DetailsCarry DEF GoodStats
  <2>8. GoodBlocks(x)
    <3>1. \A f, e : IdsAt(x, f, e) = IdsAt(v, f, e)
      BY <2>6 DEF IdsAt
    <3>2. ASSUME NEW b, GoodBlock(v, b) PROVE GoodBlock(x, b)
      BY <2>6, <3>1, <3>2 DEF GoodBlock
    <3>3. GoodBlocks(v)
      BY <1>11 DEF GoodStats, GoodViews
    <3> QED BY <2>6, <3>2, <3>3 DEF GoodBlocks
  <2>9. GoodSummaries(x, Counted, minute)
    <3>1. DOMAIN summaries = kept /\ \A k \in kept : summaries[k] = all[k] /\ k \in DOMAIN all
      BY <2>2
    <3> QED BY <1>15, <1>16, <2>5, <2>6, <3>1 DEF GoodSummaries
  <2> QED BY <2>1, <2>7, <2>8, <2>9 DEF GoodStats, GoodViews
<1>17. GoodStats(stats', Counted, minute)
  BY <1>6, <1>9, <1>16
<1> QED BY <1>1, <1>6, <1>7, <1>17, Zenon DEF ViewInvariant

LEMMA ShowDetailStep ==
    ASSUME ViewInvariant, NEW q \in DetailPages, NEW admit, ShowDetail(q, admit)
    PROVE  ViewInvariant'
<1>1. GoodStats(stats, Counted, minute) /\ arrivals \in Seq(Arrival) /\ minute \in Nat
  BY DEF ViewInvariant
<1>2. PICK s : s = PruneExpired(stats)
  OBVIOUS
<1>3. PICK u : u = Reprice(s)
  OBVIOUS
<1>4. stats' = KeepSums(u, q, admit) /\ arrivals' = arrivals /\ minute' = minute
  BY <1>2, <1>3 DEF ShowDetail
<1>5. Counted' = Counted
  BY <1>4 DEF Counted
<1>6. GoodStats(s, Counted, minute)
  BY <1>1, <1>2, PruneExpiredStats
<1>7. GoodStats(u, Counted, minute) /\ u.priced = u.price
  <2>1. GoodStats(u, Counted, minute)
    BY <1>3, <1>6, RepriceStats
  <2>2. Same(s, u, CoreFields) /\ u.priced = s.price
    BY <1>3, <1>6, RepriceGood DEF GoodStats, GoodViews
  <2> QED BY <2>1, <2>2 DEF Same, CoreFields
<1>8. q.span \in Nat
  BY SpansAssumption
<1>9. Carried(u, stats')
  BY <1>1, <1>4, <1>7, <1>8, KeepSumsCarries DEF GoodStats, GoodViews
<1>10. GoodStats(stats', Counted, minute)
  BY <1>7, <1>9, CarriedStats
<1> QED BY <1>1, <1>4, <1>5, <1>10, Zenon DEF ViewInvariant

LEMMA ViewInitInvariant ==
    ASSUME ViewInit
    PROVE  ViewInvariant
<1>1. PICK array \in Restored, limit \in VisibleLimits :
         /\ minute = 1
         /\ arrivals = [i \in DOMAIN array |-> [id |-> array[i], rich |-> FALSE, counts |-> TRUE]]
         /\ stats = [slots |-> [i \in DOMAIN array |-> [Vacant EXCEPT !.id = array[i]]],
                     first |-> 0, n |-> Len(array), next |-> 0, limit |-> limit, archive |-> {},
                     expiry |-> NextExpiry({array[i] : i \in DOMAIN array}), refs |-> <<>>,
                     lists |-> <<>>, pending |-> <<>>, dirty |-> FALSE, current |-> FALSE, pages |-> <<>>,
                     blocks |-> <<>>, summaries |-> <<>>, price |-> 0, priced |-> 0]
  BY DEF ViewInit
<1>2. PICK slots : slots = [i \in DOMAIN array |-> [Vacant EXCEPT !.id = array[i]]]
  OBVIOUS
<1>3. PICK ids : ids = {array[i] : i \in DOMAIN array}
  OBVIOUS
<1>4. array \in Seq(Requests) /\ limit \in Nat /\ \A i, j \in DOMAIN array : array[i] = array[j] => i = j
  BY RestoredAssumption, SettingsAssumption DEF IsInjective
<1>5. Len(array) \in Nat /\ DOMAIN array = 1 .. Len(array) /\ \A i \in DOMAIN array : array[i] \in Requests
  BY <1>4, LenProperties, ElementOfSeq
<1>6. /\ DOMAIN stats = ViewFields /\ stats.slots = slots /\ stats.first = 0 /\ stats.n = Len(array)
      /\ stats.next = 0 /\ stats.limit = limit /\ stats.archive = {} /\ stats.expiry = NextExpiry(ids)
      /\ stats.blocks = <<>> /\ stats.summaries = <<>> /\ stats.price = 0
  <2>1. stats = [slots |-> slots, first |-> 0, n |-> Len(array), next |-> 0, limit |-> limit, archive |-> {},
                 expiry |-> NextExpiry(ids), refs |-> <<>>,
                 lists |-> <<>>, pending |-> <<>>, dirty |-> FALSE, current |-> FALSE, pages |-> <<>>,
                 blocks |-> <<>>, summaries |-> <<>>, price |-> 0, priced |-> 0]
    BY <1>1, <1>2, <1>3, Zenon
  <2> QED BY ONLY <2>1 DEF ViewFields
<1>7. slots \in Seq(Row) /\ Len(slots) = Len(array) /\ \A i \in 1 .. Len(array) : slots[i].id = array[i]
  <2>1. DOMAIN slots = 1 .. Len(array) /\ slots = [i \in 1 .. Len(array) |-> slots[i]]
    BY <1>2, <1>5
  <2>2. ASSUME NEW i \in 1 .. Len(array) PROVE slots[i] \in Row /\ slots[i].id = array[i]
    <3>1. PICK r \in Requests : r = array[i]
      BY <1>5
    <3>2. slots[i] = [id |-> r, rich |-> FALSE, seq |-> 0]
      BY <1>2, <1>5, <3>1 DEF Vacant
    <3> QED BY ONLY <3>1, <3>2 DEF Row
  <2>3. slots \in [1 .. Len(array) -> Row]
    BY <2>1, <2>2
  <2>4. slots \in Seq(Row)
    BY <1>5, <2>3, IsASeq
  <2> QED BY <1>5, <2>1, <2>2, <2>4, LenProperties
<1>8. GoodRows(stats)
  BY <1>4, <1>5, <1>6, <1>7 DEF GoodRows
<1>9. Visible(stats) = ids
  BY <1>3, <1>5, <1>6, <1>7 DEF Visible, IdsAt
<1>10. GoodDetails(stats)
  BY <1>4, <1>6, <1>8, FS_EmptySet DEF GoodDetails, GoodArchive
<1>11. ids \subseteq Requests
  BY <1>3, <1>5
<1>12. Awaited(stats)
  BY <1>6, <1>9, <1>11, NextExpiryAwaits DEF Awaited
<1>13. arrivals \in Seq(Arrival) /\ Counted = ids
  <2>1. /\ DOMAIN arrivals = 1 .. Len(array) /\ arrivals = [i \in 1 .. Len(array) |-> arrivals[i]]
        /\ \A i \in 1 .. Len(array) : arrivals[i] = [id |-> array[i], rich |-> FALSE, counts |-> TRUE]
    BY <1>1, <1>5
  <2>2. ASSUME NEW i \in 1 .. Len(array)
        PROVE  arrivals[i] \in Arrival /\ arrivals[i].id = array[i] /\ arrivals[i].counts
    <3>1. PICK r \in Requests : r = array[i]
      BY <1>5
    <3>2. PICK e : e = [id |-> r, rich |-> FALSE, counts |-> TRUE]
      OBVIOUS
    <3>3. e \in Arrival /\ e.id = r /\ e.counts
      BY ONLY <3>2 DEF Arrival
    <3>4. arrivals[i] = e
      BY <2>1, <3>1, <3>2
    <3> QED BY <3>1, <3>3, <3>4
  <2>3. arrivals \in [1 .. Len(array) -> Arrival]
    BY <2>1, <2>2
  <2> QED BY <1>3, <1>5, <2>1, <2>2, <2>3, IsASeq DEF Counted
<1>14. Keeps(stats, Counted, minute)
  BY <1>6, <1>9, <1>13 DEF Keeps
<1>15. DOMAIN stats.blocks = {} /\ DOMAIN stats.summaries = {}
  BY <1>6
<1>16. GoodViews(stats, Counted, minute)
  BY <1>15 DEF GoodViews, GoodBlocks, GoodSummaries
<1> QED BY <1>1, <1>10, <1>12, <1>13, <1>14, <1>16 DEF ViewInvariant, GoodStats

(* No step leaves the invariant. *)
LEMMA ViewStepInvariant ==
    ASSUME ViewInvariant, [ViewNext]_viewVars
    PROVE  ViewInvariant'
<1>1. CASE \E r \in Requests, over \in BOOLEAN : RecordRequest(r, over)
  BY <1>1, RecordRequestStep
<1>2. CASE \E r \in Requests : EnrichRequest(r) \/ RemoveRequest(r)
  BY <1>2, EnrichRequestStep, RemoveRequestStep
<1>3. CASE \E r, f \in Requests : ReconcileRequest(r, f)
  BY <1>3, ReconcileRequestStep
<1>4. CASE ChangePrices
  BY <1>4, ChangePricesStep
<1>5. CASE \E limit \in VisibleLimits : ChangeLimit(limit)
  BY <1>5, ChangeLimitStep
<1>6. CASE ViewTick
  BY <1>6, ViewTickStep
<1>7. CASE \E q \in EventQueries, over, admit, keep \in BOOLEAN : ShowEvents(q, over, admit, keep)
  BY <1>7, ShowEventsStep
<1>8. CASE \E q \in Summaries, admit \in BOOLEAN : ShowSummary(q, admit)
  BY <1>8, ShowSummaryStep
<1>9. CASE \E q \in DetailPages, admit \in BOOLEAN : ShowDetail(q, admit)
  BY <1>9, ShowDetailStep
<1>10. CASE UNCHANGED viewVars
  <2>1. stats' = stats /\ minute' = minute /\ arrivals' = arrivals
    BY <1>10 DEF viewVars
  <2>2. Counted' = Counted
    BY <2>1 DEF Counted
  <2> QED BY <2>1, <2>2, Zenon DEF ViewInvariant
<1> QED BY <1>1, <1>2, <1>3, <1>4, <1>5, <1>6, <1>7, <1>8, <1>9, <1>10, Zenon DEF ViewNext

(* The details of a model always show each request once, in the array or   *)
(* in the archive, and those that count until they expire; and what is     *)
(* kept of a block or of a range is of the requests it would sum now.      *)
THEOREM ViewsAlwaysGood == ViewSpec => []ViewInvariant
<1>1. ViewInit => ViewInvariant
  BY ViewInitInvariant
<1>2. ViewInvariant /\ [ViewNext]_viewVars => ViewInvariant'
  BY ViewStepInvariant
<1> QED BY <1>1, <1>2, PTL DEF ViewSpec

LEMMA InvariantAnswers ==
    ASSUME ViewInvariant
    PROVE  RangesCurrent
<1>1. GoodStats(stats, Counted, minute) /\ arrivals \in Seq(Arrival) /\ minute \in Nat
  BY DEF ViewInvariant
<1>2. Counted \subseteq Requests
  BY <1>1, CountsRequests, CountedIsOf
<1>3. PICK s : s = PruneExpired(stats)
  OBVIOUS
<1>4. GoodStats(s, Counted, minute) /\ s.price = stats.price
  BY <1>1, <1>2, <1>3, OnlyUnexpired
<1>5. \A q : ExpectedRange(q) = Expectation(Counted, q, stats.price, minute)
  <2> TAKE q
  <2>1. {r \in Counted : ~Expired(r)} = {r \in Counted : ~Overdue(r, minute)}
    BY DEF Expired, Overdue
  <2>2. PICK ids : ids = {r \in Counted : ~Overdue(r, minute)}
    BY Zenon
  <2>3. Sum(stats, ids, q.span) = Priced({r \in ids : ~TooOld(r, q.span, minute)}, stats.price)
    BY SumPriced
  <2> QED BY <2>1, <2>2, <2>3 DEF ExpectedRange, Expectation, Answer
<1>6. ASSUME NEW q, q.span \in Nat
      PROVE  Total(Reprice(s), q) = ExpectedRange(q)
  <2>1. PICK u : u = Reprice(s)
    OBVIOUS
  <2>2. Total(u, q) = Expectation(Counted, q, stats.price, minute)
    BY <1>1, <1>2, <1>3, <1>6, <2>1, TotalExpected
  <2> QED BY <1>5, <2>1, <2>2
<1>7. ASSUME NEW q \in Summaries
      PROVE  AnswerSummary(s, q) = ExpectedRange(q)
  <2>1. CASE SummaryKey(q) \in DOMAIN s.summaries
    <3>1. SummaryKey(q).at = minute /\ SummaryKey(q).query = q
      BY DEF SummaryKey
    <3>2. s.summaries[SummaryKey(q)] = Expectation(Counted, q, s.price, minute)
      BY <1>4, <2>1, <3>1 DEF GoodStats, GoodViews, GoodSummaries
    <3> QED BY <1>4, <1>5, <2>1, <3>2 DEF AnswerSummary
  <2>2. CASE SummaryKey(q) \notin DOMAIN s.summaries
    BY <1>6, <2>2, SpansAssumption DEF AnswerSummary
  <2> QED BY <2>1, <2>2
<1>8. ASSUME NEW q \in DetailPages
      PROVE  AnswerDetail(s, q).total = ExpectedRange(q)
  <2>1. q.span \in Nat
    BY SpansAssumption
  <2>2. AnswerDetail(s, q).total = Total(Reprice(s), q)
    BY DEF AnswerDetail
  <2> QED BY <1>6, <2>1, <2>2
<1> QED BY <1>3, <1>7, <1>8 DEF RangesCurrent

(* However late a request was recorded, and whatever was archived,         *)
(* enriched, retracted, reconciled, expired or repriced since, a range     *)
(* answers with every request that counts and has not expired, once, at    *)
(* today's prices, as it would without the aggregates of the blocks and    *)
(* the summaries (rangeSummaryLocked, QueryAPIDetailForClientAPIAt).       *)
THEOREM RangesAlwaysCurrent == ViewSpec => []RangesCurrent
<1>1. ViewInvariant => RangesCurrent
  BY InvariantAnswers
<1> QED BY <1>1, ViewsAlwaysGood, PTL
=============================================================================
