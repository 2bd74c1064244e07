------------------------- MODULE UsageStorage_proofs ------------------------
(* Proofs about UsageStorage for every set of records, number of days,     *)
(* queue and batch size and budget of failures: types, that no request is  *)
(* counted twice, durability, and that it implements DurableLedger.        *)
EXTENDS UsageStorage, TLAPS

-----------------------------------------------------------------------------
(* The lines of a sequence.                                                *)

LEMMA ElemsSubset ==
    ASSUME NEW S, NEW s \in Seq(S)
    PROVE  Elems(s) \subseteq S
  BY DEF Elems

LEMMA ElemsAppend ==
    ASSUME NEW S, NEW s \in Seq(S), NEW x \in S
    PROVE  /\ Append(s, x) \in Seq(S)
           /\ Elems(Append(s, x)) = Elems(s) \cup {x}
  BY DEF Elems

LEMMA ElemsConcat ==
    ASSUME NEW S, NEW s \in Seq(S), NEW t \in Seq(S)
    PROVE  /\ s \o t \in Seq(S)
           /\ Elems(s \o t) = Elems(s) \cup Elems(t)
<1>1. s \o t \in Seq(S) /\ Len(s \o t) = Len(s) + Len(t)
  OBVIOUS
<1>2. ASSUME NEW i \in 1..Len(s \o t) PROVE (s \o t)[i] \in Elems(s) \cup Elems(t)
  <2>1. CASE i \in 1..Len(s)
    <3>1. (s \o t)[i] = s[i]
      BY <2>1
    <3> QED BY <2>1, <3>1 DEF Elems
  <2>2. CASE i \notin 1..Len(s)
    <3>1. i - Len(s) \in 1..Len(t) /\ (s \o t)[i] = t[i - Len(s)]
      BY <2>2, <1>1
    <3> QED BY <3>1 DEF Elems
  <2> QED BY <2>1, <2>2
<1>3. ASSUME NEW i \in 1..Len(s) PROVE s[i] \in Elems(s \o t)
  <2>1. i \in 1..Len(s \o t) /\ (s \o t)[i] = s[i]
    BY <1>1
  <2> QED BY <2>1 DEF Elems
<1>4. ASSUME NEW i \in 1..Len(t) PROVE t[i] \in Elems(s \o t)
  <2>1. i + Len(s) \in 1..Len(s \o t) /\ (s \o t)[i + Len(s)] = t[i]
    BY <1>1
  <2> QED BY <2>1 DEF Elems
<1> QED BY <1>1, <1>2, <1>3, <1>4 DEF Elems

LEMMA ElemsSubSeq ==
    ASSUME NEW S, NEW s \in Seq(S), NEW m \in 1..(Len(s) + 1), NEW n \in 0..Len(s)
    PROVE  /\ SubSeq(s, m, n) \in Seq(S)
           /\ Elems(SubSeq(s, m, n)) \subseteq Elems(s)
  BY DEF Elems

LEMMA WrittenElems ==
    ASSUME NEW s \in Seq(Records), NEW n \in 0..Len(s), inherited \in BOOLEAN
    PROVE  Written(s, n) \subseteq Elems(s)
  BY DEF Written, Elems

LEMMA EmptySeq == <<>> \in Seq(Records) /\ Elems(<<>>) = {}
  BY DEF Elems

-----------------------------------------------------------------------------
(* Type correctness: every variable of the writer keeps its type.          *)

LEMMA InitType == Init => TypeOK
<1> SUFFICES ASSUME Init PROVE TypeOK
  OBVIOUS
<1>1. budget \in [Budgets -> Nat]
  BY BoundsAssumption DEF Init, Budgets
<1>2. 1 \in Days /\ MaxDay \in Nat /\ NoDay \in 0..MaxDay
  BY MaxDayAssumption DEF Days, NoDay
<1>3. <<>> \in Seq(Records)
  OBVIOUS
<1>4. snapshot \in [readable : BOOLEAN, day : 0..MaxDay, recs : SUBSET Records]
  BY <1>2 DEF Init
<1> QED BY <1>1, <1>2, <1>3, <1>4 DEF Init, TypeOK, EnvironmentType, DiskType,
   LedgerType, ControlType, WorkerType, FileType

LEMMA SpendType ==
    ASSUME NEW what \in Budgets, budget \in [Budgets -> Nat], Spend(what)
    PROVE  budget' \in [Budgets -> Nat]
  BY DEF Spend

LEMMA WrittenType ==
    ASSUME TypeOK, NEW lines \in Seq(Records), NEW n \in 0..Len(lines)
    PROVE  Written(lines, n) \in SUBSET Records
  BY WrittenElems, ElemsSubset DEF TypeOK, EnvironmentType, DiskType, LedgerType,
     ControlType, WorkerType, FileType

LEMMA WriteAllType ==
    ASSUME TypeOK, fileDay # NoDay, NEW lines \in Seq(Records), WriteAll(lines)
    PROVE  os' \in [Days -> SUBSET Records] /\ torn' \in [Days -> BOOLEAN]
<1>1. fileDay \in Days /\ Len(lines) \in 0..Len(lines)
  BY DEF TypeOK, EnvironmentType, DiskType, LedgerType, ControlType, WorkerType,
     FileType, Days, NoDay
<1>2. (torn[fileDay] /\ lines = <<>>) \in BOOLEAN
  OBVIOUS
<1>3. Written(lines, Len(lines)) \in SUBSET Records
  BY <1>1, WrittenType
<1> QED BY <1>1, <1>2, <1>3 DEF WriteAll, TypeOK, EnvironmentType, DiskType,
   LedgerType, ControlType, WorkerType, FileType

LEMMA WriteFailsType ==
    ASSUME TypeOK, fileDay # NoDay, NEW lines \in Seq(Records), WriteFails(lines)
    PROVE  os' \in [Days -> SUBSET Records] /\ torn' \in [Days -> BOOLEAN]
<1>1. fileDay \in Days
  BY DEF TypeOK, EnvironmentType, DiskType, LedgerType, ControlType, WorkerType,
     FileType, Days, NoDay
<1>2. \A n \in 0..Len(lines) : Written(lines, n) \in SUBSET Records
  BY WrittenType
<1> QED BY <1>1, <1>2 DEF WriteFails, TypeOK, EnvironmentType, DiskType, LedgerType,
   ControlType, WorkerType, FileType

LEMMA CompactType ==
    ASSUME TypeOK, NEW day, NEW open, CompactBefore(day, open)
    PROVE  /\ os' \in [Days -> SUBSET Records]
           /\ synced' \in [Days -> SUBSET Records]
           /\ torn' \in [Days -> BOOLEAN]
           /\ budget' \in [Budgets -> Nat]
<1>1. PICK upto \in 1..day :
        LET gone == {d \in Days : d < upto /\ d # open}
        IN  /\ os' = [d \in Days |-> IF d \in gone THEN {} ELSE os[d]]
            /\ synced' = [d \in Days |-> IF d \in gone THEN {} ELSE synced[d]]
            /\ torn' = [d \in Days |-> torn[d] /\ d \notin gone]
            /\ IF upto = day THEN UNCHANGED budget ELSE Spend("fault")
  BY DEF CompactBefore
<1>2. budget' \in [Budgets -> Nat]
  BY <1>1, SpendType DEF TypeOK, EnvironmentType, DiskType, LedgerType, ControlType,
     WorkerType, FileType, Budgets
<1>3. torn' \in [Days -> BOOLEAN]
  BY <1>1
<1> QED BY <1>1, <1>2, <1>3 DEF TypeOK, EnvironmentType, DiskType, LedgerType,
   ControlType, WorkerType, FileType

LEMMA CloseFileType ==
    ASSUME TypeOK, fileDay # NoDay, CloseFile
    PROVE  /\ os' \in [Days -> SUBSET Records]
           /\ synced' \in [Days -> SUBSET Records]
           /\ torn' \in [Days -> BOOLEAN]
           /\ budget' \in [Budgets -> Nat]
           /\ fileDay' = NoDay /\ buffer' = <<>> /\ sticky' = FALSE
           /\ inherited' = FALSE /\ unsynced' \in BOOLEAN
<1>1. PICK flushed \in BOOLEAN, durable \in BOOLEAN :
        /\ IF flushed THEN WriteAll(buffer)
           ELSE IF sticky THEN UNCHANGED <<os, torn>>
           ELSE WriteFails(buffer)
        /\ synced' = IF durable THEN [synced EXCEPT ![fileDay] = os'[fileDay]]
                     ELSE synced
        /\ unsynced' = (unsynced /\ ~durable)
        /\ IF (flushed \/ sticky) /\ durable THEN UNCHANGED budget
           ELSE Spend("fault")
  BY DEF CloseFile
<1>2. fileDay \in Days
  BY DEF TypeOK, EnvironmentType, DiskType, LedgerType, ControlType, WorkerType,
     FileType, Days, NoDay
<1>3. os' \in [Days -> SUBSET Records] /\ torn' \in [Days -> BOOLEAN]
  BY <1>1, WriteAllType, WriteFailsType DEF TypeOK, EnvironmentType, DiskType,
     LedgerType, ControlType, WorkerType, FileType
<1>4. synced' \in [Days -> SUBSET Records]
  BY <1>1, <1>2, <1>3 DEF TypeOK, EnvironmentType, DiskType, LedgerType,
     ControlType, WorkerType, FileType
<1>5. budget' \in [Budgets -> Nat]
  BY <1>1, SpendType DEF TypeOK, EnvironmentType, DiskType, LedgerType, ControlType,
     WorkerType, FileType, Budgets
<1>6. unsynced' \in BOOLEAN
  BY <1>1
<1> QED BY <1>3, <1>4, <1>5, <1>6 DEF CloseFile

LEMMA TypeStep == TypeOK /\ [Next]_vars => TypeOK'
<1> SUFFICES ASSUME TypeOK, [Next]_vars PROVE TypeOK'
  OBVIOUS
<1> USE DEF disk, ledger, ctl, channel, file, snap, wrk
<1>1. ASSUME NEW r \in Records, CallerStep(r) PROVE TypeOK'
  <2>1. CASE Record(r)
    BY <2>1 DEF Record, TypeOK, EnvironmentType, DiskType, LedgerType, ControlType,
       WorkerType, FileType, Days, NoDay
  <2>2. CASE Import(r)
    BY <2>2 DEF Import, TypeOK, EnvironmentType, DiskType, LedgerType, ControlType,
       WorkerType, FileType, Days, NoDay
  <2>3. CASE Admit(r)
    BY <2>3 DEF Admit, TypeOK, EnvironmentType, DiskType, LedgerType, ControlType,
       WorkerType, FileType, Days, NoDay
  <2>4. CASE Send(r)
    BY <2>4, ElemsAppend DEF Send, TypeOK, EnvironmentType, DiskType, LedgerType,
       ControlType, WorkerType, FileType, Days, NoDay
  <2>5. CASE GiveUp(r)
    BY <2>5 DEF GiveUp, TypeOK, EnvironmentType, DiskType, LedgerType, ControlType,
       WorkerType, FileType, Days, NoDay
  <2> QED BY <1>1, <2>1, <2>2, <2>3, <2>4, <2>5 DEF CallerStep
<1>2. ASSUME WorkerStep PROVE TypeOK'
  <2>1. CASE Take
    <3>1. queue \in Seq(Records) /\ BatchSize \in Nat \ {0}
      BY BatchSizeAssumption DEF TypeOK, EnvironmentType, DiskType, LedgerType,
         ControlType, WorkerType, FileType, Days, NoDay
    <3> DEFINE n == IF Len(queue) < BatchSize THEN Len(queue) ELSE BatchSize
    <3>2. n \in 0..Len(queue)
      BY <3>1
    <3>3. batch' = SubSeq(queue, 1, n) /\ queue' = SubSeq(queue, n + 1, Len(queue))
      BY <2>1 DEF Take
    <3> HIDE DEF n
    <3>4. batch' \in Seq(Records) /\ queue' \in Seq(Records)
      BY <3>1, <3>2, <3>3
    <3>5. startDay' = today /\ worker' = "open"
      BY <2>1 DEF Take
    <3>c. ControlType'
      BY <2>1, <3>4, <3>5 DEF Take, TypeOK, ControlType, Days, NoDay
    <3>w. WorkerType'
      BY <2>1, <3>4, <3>5 DEF Take, TypeOK, WorkerType, EnvironmentType, DiskType,
         Days, NoDay
    <3>u. EnvironmentType' /\ DiskType' /\ LedgerType' /\ FileType'
      BY <2>1 DEF Take, TypeOK, EnvironmentType, DiskType, LedgerType, FileType
    <3> QED BY <3>c, <3>w, <3>u DEF TypeOK
  <2>2. CASE Rollover
    <3>1. fileDay # NoDay /\ CloseFile
      BY <2>2 DEF Rollover
    <3>2. /\ os' \in [Days -> SUBSET Records]
          /\ synced' \in [Days -> SUBSET Records]
          /\ torn' \in [Days -> BOOLEAN]
          /\ budget' \in [Budgets -> Nat]
          /\ fileDay' = NoDay /\ buffer' = <<>> /\ sticky' = FALSE
          /\ inherited' = FALSE /\ unsynced' \in BOOLEAN
      BY <3>1, CloseFileType
    <3>3. worker' \in {"open", "capture"} /\ after' \in {after, "open"}
      BY <2>2 DEF Rollover, StartSnapshot
    <3>4. snapDay' \in 0..MaxDay /\ NoDay \in 0..MaxDay
      BY <2>2, MaxDayAssumption DEF Rollover, StartSnapshot, TypeOK,
         EnvironmentType, DiskType, LedgerType, ControlType, WorkerType, FileType,
         Days, NoDay
    <3>e. EnvironmentType'
      BY <2>2, <3>2, <3>3, <3>4 DEF Rollover, TypeOK, EnvironmentType, Days, NoDay
    <3>d. DiskType'
      BY <2>2, <3>2, <3>3, <3>4 DEF Rollover, TypeOK, DiskType, Days, NoDay
    <3>w. WorkerType'
      BY <2>2, <3>2, <3>3, <3>4 DEF Rollover, TypeOK, WorkerType, EnvironmentType,
         DiskType, Days, NoDay
    <3>f. FileType'
      BY <2>2, <3>2, <3>4, EmptySeq DEF Rollover, TypeOK, FileType, DiskType,
         WorkerType, Days, NoDay
    <3>u. LedgerType' /\ ControlType'
      BY <2>2 DEF Rollover, TypeOK, LedgerType, ControlType
    <3> QED BY <3>e, <3>d, <3>w, <3>f, <3>u DEF TypeOK
  <2>3. CASE OpenShard
    <3>f. FileType'
      BY <2>3 DEF OpenShard, TypeOK, FileType, DiskType, WorkerType, Days, NoDay
    <3>u. EnvironmentType' /\ DiskType' /\ LedgerType' /\ ControlType' /\ WorkerType'
      BY <2>3 DEF OpenShard, TypeOK, EnvironmentType, DiskType, LedgerType,
         ControlType, WorkerType
    <3> QED BY <3>f, <3>u DEF TypeOK
  <2>4. CASE OpenFails
    <3>e. EnvironmentType'
      <4>1. "fault" \in Budgets /\ budget \in [Budgets -> Nat] /\ Spend("fault")
        BY <2>4 DEF OpenFails, TypeOK, EnvironmentType, Budgets
      <4>2. budget' \in [Budgets -> Nat]
        BY <4>1, SpendType
      <4> QED BY <2>4, <4>2 DEF OpenFails, TypeOK, EnvironmentType
    <3>w. WorkerType'
      BY <2>4, EmptySeq DEF OpenFails, TypeOK, WorkerType
    <3>u. DiskType' /\ LedgerType' /\ ControlType' /\ FileType'
      BY <2>4 DEF OpenFails, TypeOK, DiskType, LedgerType, ControlType, FileType
    <3> QED BY <3>e, <3>w, <3>u DEF TypeOK
  <2>5. CASE AppendBuffered
    BY <2>5, ElemsConcat DEF AppendBuffered, AppendReady, TypeOK, EnvironmentType,
       DiskType, LedgerType, ControlType, WorkerType, FileType, Days, NoDay
  <2>6. ASSUME NEW n \in 0..(BatchSize - 1), AppendSpills(n) PROVE TypeOK'
    <3> DEFINE full == buffer \o SubSeq(batch, 1, n)
    <3>1. full \in Seq(Records) /\ SubSeq(batch, n + 1, Len(batch)) \in Seq(Records)
      <4>1. buffer \in Seq(Records) /\ batch \in Seq(Records)
        BY DEF TypeOK, FileType, WorkerType
      <4>2. n \in 0..Len(batch) /\ n + 1 \in 1..(Len(batch) + 1)
        BY <2>6, <4>1, BatchSizeAssumption DEF AppendSpills
      <4>3. SubSeq(batch, 1, n) \in Seq(Records)
        BY <4>1, <4>2, ElemsSubSeq
      <4>4. SubSeq(batch, n + 1, Len(batch)) \in Seq(Records)
        BY <4>1, <4>2, ElemsSubSeq
      <4> QED BY <4>1, <4>3, <4>4, ElemsConcat
    <3>2. Written(full, Len(full)) \in SUBSET Records
      <4>1. Len(full) \in 0..Len(full)
        BY <3>1
      <4> HIDE DEF full
      <4> QED BY <3>1, <4>1, WrittenType
    <3> HIDE DEF full
    <3>3. os' \in [Days -> SUBSET Records] /\ torn' \in [Days -> BOOLEAN]
      BY <2>6, <3>2 DEF AppendSpills, full, TypeOK, EnvironmentType, DiskType,
         LedgerType, ControlType, WorkerType, FileType, Days, NoDay
    <3>d. DiskType'
      BY <2>6, <3>1, <3>3 DEF AppendSpills, TypeOK, DiskType, Days, NoDay
    <3>w. WorkerType'
      BY <2>6, <3>1, <3>3 DEF AppendSpills, TypeOK, WorkerType, EnvironmentType,
         DiskType, Days, NoDay
    <3>f. FileType'
      BY <2>6, <3>1, <3>3 DEF AppendSpills, TypeOK, FileType, DiskType, WorkerType,
         Days, NoDay
    <3>u. EnvironmentType' /\ LedgerType' /\ ControlType'
      BY <2>6 DEF AppendSpills, TypeOK, EnvironmentType, LedgerType, ControlType
    <3> QED BY <3>d, <3>w, <3>f, <3>u DEF TypeOK
  <2>7. ASSUME NEW n \in 0..(BatchSize - 1), AppendFails(n) PROVE TypeOK'
    <3> DEFINE full == buffer \o SubSeq(batch, 1, n)
    <3>1. full \in Seq(Records) /\ WriteFails(full) /\ fileDay # NoDay
      <4>1. buffer \in Seq(Records) /\ batch \in Seq(Records)
        BY DEF TypeOK, FileType, WorkerType
      <4>2. 1 \in 1..(Len(batch) + 1) /\ n \in 0..Len(batch)
        BY <2>7, <4>1, BatchSizeAssumption DEF AppendFails
      <4>3. SubSeq(batch, 1, n) \in Seq(Records)
        BY <4>1, <4>2, ElemsSubSeq
      <4>4. WriteFails(full) /\ fileDay # NoDay
        BY <2>7 DEF AppendFails, AppendReady
      <4> QED BY <4>1, <4>3, <4>4, ElemsConcat
    <3>2. os' \in [Days -> SUBSET Records] /\ torn' \in [Days -> BOOLEAN]
      BY <3>1, WriteFailsType
    <3>3. budget' \in [Budgets -> Nat]
      BY <2>7, SpendType DEF AppendFails, TypeOK, EnvironmentType, DiskType,
         LedgerType, ControlType, WorkerType, FileType, Days, NoDay, Budgets
    <3>4. buffer' = full /\ pending' \in BOOLEAN /\ unsynced' \in BOOLEAN
      BY <2>7 DEF AppendFails
    <3> HIDE DEF full
    <3>e. EnvironmentType'
      BY <2>7, <3>1, <3>2, <3>3, <3>4 DEF AppendFails, TypeOK, EnvironmentType,
         Days, NoDay
    <3>d. DiskType'
      BY <2>7, <3>1, <3>2, <3>3, <3>4 DEF AppendFails, TypeOK, DiskType, Days, NoDay
    <3>w. WorkerType'
      BY <2>7, <3>1, <3>2, <3>3, <3>4 DEF AppendFails, TypeOK, WorkerType,
         EnvironmentType, DiskType, Days, NoDay
    <3>f. FileType'
      BY <2>7, <3>1, <3>2, <3>3, <3>4 DEF AppendFails, TypeOK, FileType, DiskType,
         WorkerType, Days, NoDay
    <3>u. LedgerType' /\ ControlType'
      BY <2>7 DEF AppendFails, TypeOK, LedgerType, ControlType
    <3> QED BY <3>e, <3>d, <3>w, <3>f, <3>u DEF TypeOK
  <2>8. CASE AppendRefused
    BY <2>8 DEF AppendRefused, TypeOK, EnvironmentType, DiskType, LedgerType,
       ControlType, WorkerType, FileType, Days, NoDay
  <2>9. CASE Flush
    <3>1. buffer \in Seq(Records) /\ <<>> \in Seq(Records)
      BY DEF TypeOK, FileType
    <3>2. os' \in [Days -> SUBSET Records] /\ torn' \in [Days -> BOOLEAN]
      BY <2>9, <3>1, WriteAllType DEF Flush, FlushDue
    <3>d. DiskType'
      BY <2>9, <3>2 DEF Flush, TypeOK, DiskType, Days, NoDay
    <3>f. FileType'
      BY <2>9, <3>1 DEF Flush, TypeOK, FileType
    <3>u. EnvironmentType' /\ LedgerType' /\ ControlType' /\ WorkerType'
      BY <2>9 DEF Flush, TypeOK, EnvironmentType, LedgerType, ControlType, WorkerType
    <3> QED BY <3>d, <3>f, <3>u DEF TypeOK
  <2>10. CASE FlushFails
    <3>1. buffer \in Seq(Records) /\ <<>> \in Seq(Records)
      BY DEF TypeOK, FileType
    <3>2. os' \in [Days -> SUBSET Records] /\ torn' \in [Days -> BOOLEAN]
      BY <2>10, <3>1, WriteFailsType DEF FlushFails, FlushDue
    <3>3. budget' \in [Budgets -> Nat]
      BY <2>10, SpendType DEF FlushFails, TypeOK, EnvironmentType, DiskType,
         LedgerType, ControlType, WorkerType, FileType, Days, NoDay, Budgets
    <3> QED BY <2>10, <3>2, <3>3 DEF FlushFails, TypeOK, EnvironmentType, DiskType,
       LedgerType, ControlType, WorkerType, FileType, Days, NoDay
  <2>11. CASE Sync
    <3>1. buffer \in Seq(Records) /\ <<>> \in Seq(Records)
      BY DEF TypeOK, FileType
    <3>2. os' \in [Days -> SUBSET Records] /\ torn' \in [Days -> BOOLEAN]
      BY <2>11, <3>1, WriteAllType DEF Sync
    <3>3. synced' \in [Days -> SUBSET Records]
      BY <2>11, <3>2 DEF Sync, TypeOK, EnvironmentType, DiskType, LedgerType,
         ControlType, WorkerType, FileType, Days, NoDay
    <3>4. inherited' \in BOOLEAN
      BY <2>11 DEF Sync
    <3>d. DiskType'
      BY <2>11, <3>2, <3>3, <3>4 DEF Sync, TypeOK, DiskType, Days, NoDay
    <3>f. FileType'
      BY <2>11, <3>1, <3>4 DEF Sync, TypeOK, FileType
    <3>u. EnvironmentType' /\ LedgerType' /\ ControlType' /\ WorkerType'
      BY <2>11 DEF Sync, TypeOK, EnvironmentType, LedgerType, ControlType, WorkerType
    <3> QED BY <3>d, <3>f, <3>u DEF TypeOK
  <2>12. CASE SnapshotDue
    BY <2>12 DEF SnapshotDue, StartSnapshot, TypeOK, EnvironmentType, DiskType,
       LedgerType, ControlType, WorkerType, FileType, Days, NoDay
  <2>13. CASE Drained
    <3>1. /\ os' \in [Days -> SUBSET Records]
          /\ synced' \in [Days -> SUBSET Records]
          /\ torn' \in [Days -> BOOLEAN]
          /\ budget' \in [Budgets -> Nat]
          /\ fileDay' \in 0..MaxDay /\ buffer' \in Seq(Records)
          /\ sticky' \in BOOLEAN /\ inherited' \in BOOLEAN /\ unsynced' \in BOOLEAN
      <4>1. CASE fileDay # NoDay
        <5>1. CloseFile /\ NoDay \in 0..MaxDay
          BY <2>13, <4>1, MaxDayAssumption DEF Drained, NoDay
        <5> QED BY <4>1, <5>1, CloseFileType
      <4>2. CASE fileDay = NoDay
        BY <2>13, <4>2 DEF Drained, TypeOK, EnvironmentType, DiskType, LedgerType,
           ControlType, WorkerType, FileType, Days, NoDay
      <4> QED BY <4>1, <4>2
    <3>2. snapDay' = today /\ today \in 0..MaxDay
      BY <2>13 DEF Drained, StartSnapshot, TypeOK, EnvironmentType, DiskType,
         LedgerType, ControlType, WorkerType, FileType, Days, NoDay
    <3> QED BY <2>13, <3>1, <3>2 DEF Drained, StartSnapshot, TypeOK,
       EnvironmentType, DiskType, LedgerType, ControlType, WorkerType, FileType,
       Days, NoDay
  <2>14. CASE Capture
    BY <2>14 DEF Capture, Counted, TypeOK, EnvironmentType, DiskType, LedgerType,
       ControlType, WorkerType, FileType, Days, NoDay
  <2>15. CASE Rename
    BY <2>15 DEF Rename, Replaced, TypeOK, EnvironmentType, DiskType, LedgerType,
       ControlType, WorkerType, FileType, Days, NoDay
  <2>16. CASE SnapshotFails
    <3>e. EnvironmentType'
      <4>1. "fault" \in Budgets /\ budget \in [Budgets -> Nat] /\ Spend("fault")
        BY <2>16 DEF SnapshotFails, TypeOK, EnvironmentType, Budgets
      <4>2. budget' \in [Budgets -> Nat]
        BY <4>1, SpendType
      <4> QED BY <2>16, <4>2 DEF SnapshotFails, TypeOK, EnvironmentType
    <3>w. WorkerType'
      BY <2>16 DEF SnapshotFails, TypeOK, WorkerType
    <3>u. DiskType' /\ LedgerType' /\ ControlType' /\ FileType'
      BY <2>16 DEF SnapshotFails, TypeOK, DiskType, LedgerType, ControlType, FileType
    <3> QED BY <3>e, <3>w, <3>u DEF TypeOK
  <2>17. CASE Compact
    <3>1. /\ os' \in [Days -> SUBSET Records]
          /\ synced' \in [Days -> SUBSET Records]
          /\ torn' \in [Days -> BOOLEAN]
          /\ budget' \in [Budgets -> Nat]
      BY <2>17, CompactType DEF Compact
    <3>e. EnvironmentType'
      BY <2>17, <3>1 DEF Compact, TypeOK, EnvironmentType, Days, NoDay
    <3>d. DiskType'
      BY <2>17, <3>1 DEF Compact, TypeOK, DiskType, Days, NoDay
    <3>w. WorkerType'
      BY <2>17, <3>1 DEF Compact, TypeOK, WorkerType, EnvironmentType, DiskType,
         Days, NoDay
    <3>u. LedgerType' /\ ControlType' /\ FileType'
      BY <2>17 DEF Compact, TypeOK, LedgerType, ControlType, FileType
    <3> QED BY <3>e, <3>d, <3>w, <3>u DEF TypeOK
  <2> QED BY <1>2, <2>1, <2>2, <2>3, <2>4, <2>5, <2>6, <2>7, <2>8, <2>9, <2>10,
             <2>11, <2>12, <2>13, <2>14, <2>15, <2>16, <2>17
          DEF WorkerStep, AppendStep
<1>3. ASSUME ControlStep PROVE TypeOK'
  <2>1. ASSUME NEW g \in {"enable", "disable"}, BeginConfigure(g) PROVE TypeOK'
    <3>e. EnvironmentType'
      <4>1. "config" \in Budgets /\ budget \in [Budgets -> Nat] /\ Spend("config")
        BY <2>1 DEF BeginConfigure, TypeOK, EnvironmentType, Budgets
      <4>2. budget' \in [Budgets -> Nat]
        BY <4>1, SpendType
      <4> QED BY <2>1, <4>2 DEF BeginConfigure, BeginStop, TypeOK, EnvironmentType
    <3>c. ControlType'
      BY <2>1 DEF BeginConfigure, BeginStop, TypeOK, ControlType
    <3>u. DiskType' /\ LedgerType' /\ WorkerType' /\ FileType'
      BY <2>1 DEF BeginConfigure, BeginStop, TypeOK, DiskType, LedgerType, WorkerType,
         FileType
    <3> QED BY <3>e, <3>c, <3>u DEF TypeOK
  <2>2. CASE BeginClose
    BY <2>2 DEF BeginClose, BeginStop, TypeOK, EnvironmentType, DiskType,
       LedgerType, ControlType, WorkerType, FileType, Days, NoDay
  <2>3. CASE WorkerStopped
    <3>1. enabled' \in BOOLEAN /\ <<>> \in Seq(Records)
      <4>1. CASE goal = "close"
        BY <2>3, <4>1, EmptySeq DEF WorkerStopped, TypeOK, ControlType
      <4>2. CASE goal # "close"
        BY <2>3, <4>2, EmptySeq DEF WorkerStopped
      <4> QED BY <4>1, <4>2
    <3>c. ControlType'
      BY <2>3, <3>1 DEF WorkerStopped, TypeOK, ControlType, Days, NoDay
    <3>u. EnvironmentType' /\ DiskType' /\ LedgerType' /\ WorkerType' /\ FileType'
      BY <2>3 DEF WorkerStopped, TypeOK, EnvironmentType, DiskType, LedgerType,
         WorkerType, FileType
    <3> QED BY <3>c, <3>u DEF TypeOK
  <2>4. CASE FinalSnapshot
    BY <2>4 DEF FinalSnapshot, Replaced, Counted, TypeOK, EnvironmentType, DiskType,
       LedgerType, ControlType, WorkerType, FileType, Days, NoDay
  <2>5. CASE NoFinalSnapshot
    <3>1. budget' \in [Budgets -> Nat]
      BY <2>5, SpendType DEF NoFinalSnapshot, TypeOK, EnvironmentType, DiskType,
         LedgerType, ControlType, WorkerType, FileType, Days, NoDay, Budgets
    <3>e. EnvironmentType'
      BY <2>5, <3>1 DEF NoFinalSnapshot, TypeOK, EnvironmentType, Days, NoDay
    <3>c. ControlType'
      BY <2>5, <3>1 DEF NoFinalSnapshot, TypeOK, ControlType, Days, NoDay
    <3>u. DiskType' /\ LedgerType' /\ WorkerType' /\ FileType'
      BY <2>5 DEF NoFinalSnapshot, TypeOK, DiskType, LedgerType, WorkerType, FileType
    <3> QED BY <3>e, <3>c, <3>u DEF TypeOK
  <2>6. CASE Release
    <3>1. /\ os' \in [Days -> SUBSET Records]
          /\ synced' \in [Days -> SUBSET Records]
          /\ torn' \in [Days -> BOOLEAN]
          /\ budget' \in [Budgets -> Nat]
      <4>1. CASE saved
        BY <2>6, <4>1, CompactType DEF Release
      <4>2. CASE ~saved
        BY <2>6, <4>2 DEF Release, TypeOK, EnvironmentType, DiskType, LedgerType,
           ControlType, WorkerType, FileType, Days, NoDay
      <4> QED BY <4>1, <4>2
    <3>e. EnvironmentType'
      BY <2>6, <3>1 DEF Release, TypeOK, EnvironmentType, Days, NoDay
    <3>d. DiskType'
      BY <2>6, <3>1 DEF Release, TypeOK, DiskType, Days, NoDay
    <3>c. ControlType'
      BY <2>6, <3>1 DEF Release, TypeOK, ControlType, Days, NoDay
    <3>u. LedgerType' /\ WorkerType' /\ FileType'
      BY <2>6 DEF Release, TypeOK, LedgerType, WorkerType, FileType
    <3> QED BY <3>e, <3>d, <3>c, <3>u DEF TypeOK
  <2>7. CASE LoadRefused
    <3>1. budget' \in [Budgets -> Nat]
      <4>1. CASE snapshot.readable
        BY <2>7, <4>1, SpendType DEF LoadRefused, TypeOK, EnvironmentType, Budgets
      <4>2. CASE ~snapshot.readable
        BY <2>7, <4>2 DEF LoadRefused, TypeOK, EnvironmentType
      <4> QED BY <4>1, <4>2
    <3>e. EnvironmentType'
      BY <2>7, <3>1 DEF LoadRefused, TypeOK, EnvironmentType, Days
    <3>u. DiskType' /\ LedgerType' /\ ControlType' /\ WorkerType' /\ FileType'
      BY <2>7 DEF LoadRefused, TypeOK, DiskType, LedgerType, ControlType,
         WorkerType, FileType
    <3> QED BY <3>e, <3>u DEF TypeOK
  <2>8. CASE Load
    <3>1. budget' \in [Budgets -> Nat]
      BY <2>8, SpendType DEF Load, TypeOK, EnvironmentType, DiskType, LedgerType,
         ControlType, WorkerType, FileType, Days, NoDay, Budgets
    <3>2. Restored \in [Records -> Nat]
      BY DEF Restored, TypeOK, EnvironmentType, DiskType, LedgerType, ControlType,
         WorkerType, FileType, Days, NoDay
    <3>3. \A shards : Replayed(Restored, shards) \in [Records -> Nat]
      BY <3>2 DEF Replayed
    <3>4. counted' \in [Records -> Nat]
      BY <2>8, <3>3 DEF Load
    <3>5. NoDay \in 0..MaxDay /\ <<>> \in Seq(Records)
      BY MaxDayAssumption DEF NoDay
    <3> QED BY <2>8, <3>1, <3>4, <3>5 DEF Load, TypeOK, EnvironmentType, DiskType,
       LedgerType, ControlType, WorkerType, FileType, Days, NoDay
  <2> QED BY <1>3, <2>1, <2>2, <2>3, <2>4, <2>5, <2>6, <2>7, <2>8 DEF ControlStep
<1>4. ASSUME Environment PROVE TypeOK'
  <2>1. CASE Tick
    BY <2>1, MaxDayAssumption DEF Tick, TypeOK, EnvironmentType, DiskType,
       LedgerType, ControlType, WorkerType, FileType, Days, NoDay
  <2>2. NoDay \in 0..MaxDay /\ <<>> \in Seq(Records)
    BY MaxDayAssumption DEF NoDay
  <2>3. CASE Crash
    BY <2>2, <2>3, SpendType DEF Crash, FreshProcess, TypeOK, EnvironmentType,
       DiskType, LedgerType, ControlType, WorkerType, FileType, Days, NoDay, Budgets
  <2>4. CASE PowerLoss
    <3>1. budget' \in [Budgets -> Nat]
      BY <2>4, SpendType DEF PowerLoss, TypeOK, EnvironmentType, DiskType,
         LedgerType, ControlType, WorkerType, FileType, Days, NoDay, Budgets
    <3>2. torn' \in [Days -> BOOLEAN] /\ os' = synced
      BY <2>4 DEF PowerLoss
    <3> QED BY <2>2, <2>4, <3>1, <3>2 DEF PowerLoss, FreshProcess, TypeOK,
       EnvironmentType, DiskType, LedgerType, ControlType, WorkerType, FileType,
       Days, NoDay
  <2>5. CASE Boot
    BY <2>2, <2>5 DEF Boot, FreshProcess, TypeOK, EnvironmentType, DiskType,
       LedgerType, ControlType, WorkerType, FileType, Days, NoDay
  <2>6. CASE Damage
    <3>1. budget' \in [Budgets -> Nat]
      BY <2>6, SpendType DEF Damage, TypeOK, EnvironmentType, DiskType, LedgerType,
         ControlType, WorkerType, FileType, Days, NoDay, Budgets
    <3>2. snapshot' \in [readable : BOOLEAN, day : 0..MaxDay, recs : SUBSET Records]
      BY <2>6 DEF Damage, TypeOK, EnvironmentType, DiskType, LedgerType,
         ControlType, WorkerType, FileType, Days, NoDay
    <3>e. EnvironmentType'
      BY <2>6, <3>1, <3>2 DEF Damage, TypeOK, EnvironmentType, Days, NoDay
    <3>d. DiskType'
      BY <2>6, <3>1, <3>2 DEF Damage, TypeOK, DiskType, Days, NoDay
    <3>u. LedgerType' /\ ControlType' /\ WorkerType' /\ FileType'
      BY <2>6 DEF Damage, TypeOK, LedgerType, ControlType, WorkerType, FileType
    <3> QED BY <3>e, <3>d, <3>u DEF TypeOK
  <2>7. CASE Repair
    <3>1. snapshot' \in [readable : BOOLEAN, day : 0..MaxDay, recs : SUBSET Records]
      BY <2>7 DEF Repair, TypeOK, EnvironmentType, DiskType, LedgerType,
         ControlType, WorkerType, FileType, Days, NoDay
    <3>d. DiskType'
      BY <2>7, <3>1 DEF Repair, TypeOK, DiskType, Days, NoDay
    <3>u. EnvironmentType' /\ LedgerType' /\ ControlType' /\ WorkerType' /\ FileType'
      BY <2>7 DEF Repair, TypeOK, EnvironmentType, LedgerType, ControlType,
         WorkerType, FileType
    <3> QED BY <3>d, <3>u DEF TypeOK
  <2> QED BY <1>4, <2>1, <2>3, <2>4, <2>5, <2>6, <2>7 DEF Environment
<1>5. ASSUME UNCHANGED vars PROVE TypeOK'
  BY <1>5 DEF vars, TypeOK, EnvironmentType, DiskType, LedgerType, ControlType,
     WorkerType, FileType, Days, NoDay
<1> QED BY <1>1, <1>2, <1>3, <1>4, <1>5 DEF Next

(* Every state of every instance is well typed. *)
THEOREM TypeCorrect == Spec => []TypeOK
<1> QED BY InitType, TypeStep, PTL DEF Spec

-----------------------------------------------------------------------------
(* What the file operations do to the shards.                              *)

LEMMA WriteAllAdds ==
    ASSUME TypeOK, fileDay # NoDay, NEW lines \in Seq(Records), WriteAll(lines)
    PROVE  \A d \in Days :
              /\ os[d] \subseteq os'[d]
              /\ os'[d] \subseteq os[d] \cup Elems(lines)
              /\ d # fileDay => os'[d] = os[d]
<1>1. fileDay \in Days /\ Len(lines) \in 0..Len(lines) /\ os \in [Days -> SUBSET Records]
  BY DEF TypeOK, FileType, DiskType, Days, NoDay
<1>2. Written(lines, Len(lines)) \subseteq Elems(lines)
  BY <1>1, WrittenElems DEF TypeOK, FileType
<1> QED BY <1>1, <1>2 DEF WriteAll

LEMMA WriteFailsAdds ==
    ASSUME TypeOK, fileDay # NoDay, NEW lines \in Seq(Records), WriteFails(lines)
    PROVE  \A d \in Days :
              /\ os[d] \subseteq os'[d]
              /\ os'[d] \subseteq os[d] \cup Elems(lines)
              /\ d # fileDay => os'[d] = os[d]
<1>1. fileDay \in Days /\ os \in [Days -> SUBSET Records]
  BY DEF TypeOK, FileType, DiskType, Days, NoDay
<1>2. \A n \in 0..Len(lines) : Written(lines, n) \subseteq Elems(lines)
  BY WrittenElems DEF TypeOK, FileType
<1> QED BY <1>1, <1>2 DEF WriteFails

LEMMA CloseFileAdds ==
    ASSUME TypeOK, fileDay # NoDay, CloseFile
    PROVE  \A d \in Days :
              /\ os[d] \subseteq os'[d]
              /\ os'[d] \subseteq os[d] \cup Elems(buffer)
              /\ d # fileDay => os'[d] = os[d]
              /\ synced'[d] \in {synced[d], os'[d]}
<1>1. PICK flushed \in BOOLEAN, durable \in BOOLEAN :
        /\ IF flushed THEN WriteAll(buffer)
           ELSE IF sticky THEN UNCHANGED <<os, torn>>
           ELSE WriteFails(buffer)
        /\ synced' = IF durable THEN [synced EXCEPT ![fileDay] = os'[fileDay]]
                     ELSE synced
  BY DEF CloseFile
<1>2. buffer \in Seq(Records) /\ synced \in [Days -> SUBSET Records]
  BY DEF TypeOK, FileType, DiskType
<1>3. \A d \in Days :
        /\ os[d] \subseteq os'[d]
        /\ os'[d] \subseteq os[d] \cup Elems(buffer)
        /\ d # fileDay => os'[d] = os[d]
  BY <1>1, <1>2, WriteAllAdds, WriteFailsAdds
<1>4. \A d \in Days : synced'[d] \in {synced[d], os'[d]}
  BY <1>1, <1>2
<1> QED BY <1>3, <1>4

LEMMA CompactRemoves ==
    ASSUME TypeOK, NEW day, NEW open, CompactBefore(day, open)
    PROVE  \A d \in Days :
              /\ os'[d] \in {{}, os[d]} /\ synced'[d] \in {{}, synced[d]}
              /\ day \in Nat /\ d >= day => os'[d] = os[d] /\ synced'[d] = synced[d]
              /\ d = open => os'[d] = os[d] /\ synced'[d] = synced[d]
<1>1. PICK upto \in 1..day :
        LET gone == {d \in Days : d < upto /\ d # open}
        IN  /\ os' = [d \in Days |-> IF d \in gone THEN {} ELSE os[d]]
            /\ synced' = [d \in Days |-> IF d \in gone THEN {} ELSE synced[d]]
  BY DEF CompactBefore
<1> QED BY <1>1 DEF Days

-----------------------------------------------------------------------------
(* A request is counted at most once.  The step that could count it twice  *)
(* is Record, which does not look at the RecordIDs: it is harmless because *)
(* a request that no call has carried yet is nowhere, neither in the       *)
(* ledger nor in a shard, a snapshot or the writer.                        *)

OnDisk(r) ==
    \/ r \in snapshot.recs
    \/ \E d \in Days : r \in os[d] \/ r \in synced[d]

InWriter(r) ==
    \/ r \in Elems(queue) \/ r \in Elems(batch) \/ r \in Elems(buffer)
    \/ r \in captured

NewIsNowhere ==
    \A r \in Records :
        caller[r] = "new" => counted[r] = 0 /\ ~OnDisk(r) /\ ~InWriter(r)

LEMMA InitCount == Init => CountedOnce /\ NewIsNowhere
  BY EmptySeq DEF Init, CountedOnce, NewIsNowhere, OnDisk, InWriter

LEMMA StaysNew ==
    ASSUME TypeOK, [Next]_vars, NEW r \in Records, caller'[r] = "new"
    PROVE  caller[r] = "new"
<1> USE DEF ledger, TypeOK, LedgerType
<1>1. ASSUME NEW q \in Records, CallerStep(q) PROVE caller[r] = "new"
  BY <1>1 DEF CallerStep, Record, Import, Admit, Send, GiveUp
<1>2. CASE WorkerStep
  BY <1>2 DEF WorkerStep, AppendStep, Take, Rollover, OpenShard, OpenFails,
     AppendBuffered, AppendSpills, AppendFails, AppendRefused, Flush,
     FlushFails, Sync, SnapshotDue, Drained, Capture, Rename, SnapshotFails, Compact
<1>3. CASE ControlStep
  BY <1>3 DEF ControlStep, BeginConfigure, BeginStop, BeginClose, WorkerStopped,
     FinalSnapshot, NoFinalSnapshot, Release, LoadRefused, Load
<1>4. CASE Environment
  BY <1>4 DEF Environment, Tick, Crash, PowerLoss, Boot, FreshProcess, Damage, Repair
<1> QED BY <1>1, <1>2, <1>3, <1>4 DEF Next, vars

LEMMA SnapshotChanges ==
    ASSUME [Next]_vars
    PROVE  UNCHANGED snapshot \/ Rename \/ FinalSnapshot \/ Damage \/ Repair
<1> USE DEF disk
<1>1. ASSUME NEW q \in Records, CallerStep(q) PROVE UNCHANGED snapshot
  BY <1>1 DEF CallerStep, Record, Import, Admit, Send, GiveUp
<1>2. CASE WorkerStep
  BY <1>2 DEF WorkerStep, AppendStep, Take, Rollover, OpenShard, OpenFails,
     AppendBuffered, AppendSpills, AppendFails, AppendRefused, Flush,
     FlushFails, Sync, SnapshotDue, Drained, Capture, SnapshotFails, Compact
<1>3. CASE ControlStep
  BY <1>3 DEF ControlStep, BeginConfigure, BeginStop, BeginClose, WorkerStopped,
     NoFinalSnapshot, Release, LoadRefused, Load
<1>4. CASE Environment
  BY <1>4 DEF Environment, Tick, Crash, PowerLoss, Boot
<1> QED BY <1>1, <1>2, <1>3, <1>4 DEF Next, vars

(* Every way a shard can change: the worker appends to the open one, a     *)
(* compaction empties old ones, a power loss falls back to what was synced.*)
OnlyAppended(d) ==
    /\ os[d] \subseteq os'[d]
    /\ d # fileDay => os'[d] = os[d]
    /\ \/ os'[d] \subseteq os[d] \cup Elems(buffer)
       \/ AppendReady /\ os'[d] \subseteq os[d] \cup Elems(buffer) \cup Elems(batch)
    /\ synced'[d] \in {synced[d], os'[d]}

LEMMA ShardsWritten ==
    ASSUME TypeOK, [Next]_vars, ~Compact, ~Release, ~PowerLoss, NEW d \in Days
    PROVE  OnlyAppended(d)
<1> USE DEF disk, OnlyAppended
<1>1. CASE UNCHANGED <<os, synced>>
  BY <1>1
<1>2. CASE WorkerStep /\ ~UNCHANGED <<os, synced>>
  <2>0. buffer \in Seq(Records) /\ batch \in Seq(Records)
    BY DEF TypeOK, FileType, WorkerType
  <2>1. CASE fileDay # NoDay /\ CloseFile
    BY <2>1, CloseFileAdds
  <2>2. ASSUME NEW n \in 0..(BatchSize - 1), AppendSpills(n) \/ AppendFails(n)
        PROVE  OnlyAppended(d)
    <3> DEFINE part == SubSeq(batch, 1, n)
               full == buffer \o part
    <3>1. part \in Seq(Records) /\ Elems(part) \subseteq Elems(batch)
      <4>1. 1 \in 1..(Len(batch) + 1) /\ n \in 0..Len(batch)
        BY <2>2, <2>0, BatchSizeAssumption DEF AppendSpills, AppendFails
      <4> QED BY <4>1, <2>0, ElemsSubSeq
    <3>2. full \in Seq(Records) /\ Elems(full) \subseteq Elems(buffer) \cup Elems(batch)
      <4> HIDE DEF part
      <4>1. full \in Seq(Records) /\ Elems(full) = Elems(buffer) \cup Elems(part)
        BY <2>0, <3>1, ElemsConcat
      <4> QED BY <3>1, <4>1
    <3>3. /\ Len(full) \in 0..Len(full) /\ fileDay \in Days /\ fileDay # NoDay
          /\ AppendReady
      BY <2>2, <3>2 DEF AppendSpills, AppendFails, AppendReady, TypeOK, FileType,
         Days, NoDay
    <3> HIDE DEF full
    <3>4. CASE AppendSpills(n)
      <4>1. Written(full, Len(full)) \subseteq Elems(full)
        BY <3>2, <3>3, WrittenElems DEF TypeOK, FileType
      <4> QED BY <3>2, <3>3, <3>4, <4>1 DEF AppendSpills, full, TypeOK, DiskType
    <3>5. CASE AppendFails(n)
      <4>1. WriteFails(full) /\ synced' = synced
        BY <3>5 DEF AppendFails, full
      <4> QED BY <3>2, <3>3, <4>1, WriteFailsAdds
    <3> QED BY <2>2, <3>4, <3>5
  <2>3. CASE Flush \/ Sync
    <3>1. WriteAll(buffer) /\ fileDay # NoDay
      BY <2>3 DEF Flush, FlushDue, Sync
    <3>2. synced'[d] \in {synced[d], os'[d]}
      BY <2>3 DEF Flush, Sync, TypeOK, DiskType
    <3> QED BY <2>0, <3>1, <3>2, WriteAllAdds
  <2>4. CASE FlushFails
    <3>1. WriteFails(buffer) /\ fileDay # NoDay /\ synced' = synced
      BY <2>4 DEF FlushFails, FlushDue
    <3> QED BY <2>0, <3>1, WriteFailsAdds
  <2> QED BY <1>2, <2>1, <2>2, <2>3, <2>4 DEF WorkerStep, AppendStep, Take,
        Rollover, OpenShard, OpenFails, AppendBuffered, AppendRefused,
        SnapshotDue, Drained, Capture, Rename, SnapshotFails
<1>3. CASE ControlStep
  BY <1>3 DEF ControlStep, BeginConfigure, BeginStop, BeginClose,
     WorkerStopped, FinalSnapshot, NoFinalSnapshot, LoadRefused, Load
<1>4. CASE Environment
  BY <1>4 DEF Environment, Tick, Crash, Boot, Damage, Repair
<1>5. ASSUME NEW q \in Records, CallerStep(q) PROVE UNCHANGED <<os, synced>>
  BY <1>5 DEF CallerStep, Record, Import, Admit, Send, GiveUp
<1> QED BY <1>1, <1>2, <1>3, <1>4, <1>5 DEF Next, vars

LEMMA ShardsChange ==
    ASSUME TypeOK, [Next]_vars
    PROVE  \A d \in Days :
              /\ os'[d] \subseteq os[d] \cup synced[d] \cup Elems(buffer) \cup Elems(batch)
              /\ synced'[d] \subseteq os'[d] \cup synced[d]
<1>1. CASE Compact \/ Release
  <2>1. UNCHANGED <<os, synced>> \/ \E day, open : CompactBefore(day, open)
    BY <1>1 DEF Compact, Release
  <2> QED BY <2>1, CompactRemoves
<1>2. CASE PowerLoss
  BY <1>2 DEF PowerLoss
<1>3. CASE ~Compact /\ ~Release /\ ~PowerLoss
  BY <1>3, ShardsWritten DEF OnlyAppended
<1> QED BY <1>1, <1>2, <1>3

LEMMA NewNotCounted ==
    ASSUME TypeOK, NewIsNowhere, [Next]_vars, NEW r \in Records, caller'[r] = "new"
    PROVE  counted'[r] = 0
<1>1. caller[r] = "new" /\ counted[r] = 0 /\ ~OnDisk(r)
  BY StaysNew DEF NewIsNowhere
<1> USE DEF ledger
<1>2. ASSUME NEW q \in Records, CallerStep(q) PROVE counted'[r] = 0
  BY <1>1, <1>2 DEF CallerStep, Record, Import, Admit, Send, GiveUp, TypeOK,
     LedgerType
<1>3. CASE WorkerStep
  BY <1>1, <1>3 DEF WorkerStep, AppendStep, Take, Rollover, OpenShard, OpenFails,
     AppendBuffered, AppendSpills, AppendFails, AppendRefused, Flush,
     FlushFails, Sync, SnapshotDue, Drained, Capture, Rename, SnapshotFails, Compact
<1>4. CASE ControlStep
  <2>1. CASE Load
    <3>1. PICK unread \in SUBSET Days :
            counted' = Replayed(Restored, [d \in Days |-> IF d \in unread THEN {} ELSE os[d]])
      BY <2>1 DEF Load
    <3>2. r \notin Visible([d \in Days |-> IF d \in unread THEN {} ELSE os[d]])
      BY <1>1 DEF Visible, OnDisk
    <3>3. Restored[r] = 0
      BY <1>1 DEF Restored, OnDisk
    <3> QED BY <3>1, <3>2, <3>3 DEF Replayed
  <2>2. CASE ~Load
    BY <1>1, <1>4, <2>2 DEF ControlStep, BeginConfigure, BeginStop, BeginClose,
       WorkerStopped, FinalSnapshot, NoFinalSnapshot, Release, LoadRefused
  <2> QED BY <2>1, <2>2
<1>5. CASE Environment
  BY <1>1, <1>5 DEF Environment, Tick, Crash, PowerLoss, Boot, FreshProcess, Damage,
     Repair
<1> QED BY <1>1, <1>2, <1>3, <1>4, <1>5 DEF Next, vars

LEMMA NewNotOnDisk ==
    ASSUME TypeOK, NewIsNowhere, [Next]_vars, NEW r \in Records, caller'[r] = "new"
    PROVE  ~OnDisk(r)'
<1>1. caller[r] = "new" /\ counted[r] = 0 /\ ~OnDisk(r) /\ ~InWriter(r)
  BY StaysNew DEF NewIsNowhere
<1>2. r \notin snapshot'.recs
  <2>1. CASE UNCHANGED snapshot
    BY <1>1, <2>1 DEF OnDisk
  <2>2. CASE Rename \/ FinalSnapshot
    BY <1>1, <2>2 DEF Rename, FinalSnapshot, Replaced, Counted, InWriter
  <2>3. CASE Damage \/ Repair
    BY <1>1, <2>3 DEF Damage, Repair, OnDisk, TypeOK, DiskType
  <2> QED BY <2>1, <2>2, <2>3, SnapshotChanges
<1>3. ASSUME NEW d \in Days PROVE r \notin os'[d] /\ r \notin synced'[d]
  BY <1>1, ShardsChange DEF OnDisk, InWriter
<1> QED BY <1>2, <1>3 DEF OnDisk

(* The bufio.Writer only receives lines of the batch.                      *)
LEMMA BufferChanges ==
    ASSUME TypeOK, [Next]_vars
    PROVE  Elems(buffer') \subseteq Elems(buffer) \cup Elems(batch)
<1>1. buffer \in Seq(Records) /\ batch \in Seq(Records) /\ Elems(<<>>) = {}
  BY EmptySeq DEF TypeOK, WorkerType, FileType
<1> USE DEF file, wrk
<1>2. ASSUME NEW q \in Records, CallerStep(q) PROVE buffer' = buffer
  BY <1>2 DEF CallerStep, Record, Import, Admit, Send, GiveUp
<1>3. CASE AppendBuffered
  BY <1>1, <1>3, ElemsConcat DEF AppendBuffered
<1>4. ASSUME NEW n \in 0..(BatchSize - 1), AppendSpills(n) \/ AppendFails(n)
      PROVE  Elems(buffer') \subseteq Elems(buffer) \cup Elems(batch)
  <2>1. /\ 1 \in 1..(Len(batch) + 1) /\ n \in 0..Len(batch)
        /\ n + 1 \in 1..(Len(batch) + 1) /\ Len(batch) \in 0..Len(batch)
    BY <1>1, <1>4, BatchSizeAssumption DEF AppendSpills, AppendFails
  <2>2. CASE AppendSpills(n)
    <3>1. buffer' = SubSeq(batch, n + 1, Len(batch))
      BY <2>2 DEF AppendSpills
    <3> QED BY <1>1, <2>1, <3>1, ElemsSubSeq
  <2>3. CASE AppendFails(n)
    <3> DEFINE part == SubSeq(batch, 1, n)
    <3>1. part \in Seq(Records) /\ Elems(part) \subseteq Elems(batch)
      BY <1>1, <2>1, ElemsSubSeq
    <3>2. buffer' = buffer \o part
      BY <2>3 DEF AppendFails
    <3> HIDE DEF part
    <3>3. Elems(buffer \o part) = Elems(buffer) \cup Elems(part)
      BY <1>1, <3>1, ElemsConcat
    <3> QED BY <3>1, <3>2, <3>3
  <2> QED BY <1>4, <2>2, <2>3
<1>5. CASE Rollover \/ Drained
  BY <1>1, <1>5 DEF Rollover, Drained, CloseFile
<1>6. CASE WorkerStep
  BY <1>1, <1>3, <1>4, <1>5, <1>6 DEF WorkerStep, AppendStep, Take, OpenShard,
     OpenFails, AppendRefused, Flush, FlushFails, Sync, SnapshotDue, Capture,
     Rename, SnapshotFails, Compact
<1>7. CASE ControlStep
  BY <1>7 DEF ControlStep, BeginConfigure, BeginStop, BeginClose, WorkerStopped,
     FinalSnapshot, NoFinalSnapshot, Release, LoadRefused, Load
<1>8. CASE Environment
  BY <1>1, <1>8 DEF Environment, Tick, Crash, PowerLoss, Boot, FreshProcess, Damage,
     Repair
<1> QED BY <1>2, <1>6, <1>7, <1>8 DEF Next, vars

(* What the writer holds comes from a sender or, for the captured view,    *)
(* from the ledger.                                                        *)
LEMMA NewNotInWriter ==
    ASSUME TypeOK, NewIsNowhere, [Next]_vars, NEW r \in Records, caller'[r] = "new"
    PROVE  ~InWriter(r)'
<1>1. caller[r] = "new" /\ counted[r] = 0 /\ ~InWriter(r)
  BY StaysNew DEF NewIsNowhere
<1>2. /\ r \notin Elems(queue) /\ r \notin Elems(batch) /\ r \notin Elems(buffer)
      /\ r \notin captured /\ Elems(<<>>) = {}
  BY <1>1, EmptySeq DEF InWriter
<1>3. queue \in Seq(Records) /\ batch \in Seq(Records) /\ buffer \in Seq(Records)
  BY DEF TypeOK, ControlType, WorkerType, FileType
<1> USE DEF channel, file, snap, wrk
<1>4. r \notin Elems(queue') /\ r \notin Elems(batch')
  <2>1. ASSUME NEW q \in Records, CallerStep(q) PROVE r \notin Elems(queue') /\ batch' = batch
    <3>1. CASE Send(q)
      <4>1. q # r
        BY <1>1, <3>1 DEF Send
      <4> QED BY <1>2, <1>3, <3>1, <4>1, ElemsAppend DEF Send
    <3> QED BY <1>2, <2>1, <3>1 DEF CallerStep, Record, Import, Admit, GiveUp
  <2>2. CASE Take
    <3> DEFINE n == IF Len(queue) < BatchSize THEN Len(queue) ELSE BatchSize
    <3>1. batch' = SubSeq(queue, 1, n) /\ queue' = SubSeq(queue, n + 1, Len(queue))
      BY <2>2 DEF Take
    <3>2. /\ 1 \in 1..(Len(queue) + 1) /\ n + 1 \in 1..(Len(queue) + 1)
          /\ n \in 0..Len(queue) /\ Len(queue) \in 0..Len(queue)
      BY <1>3, BatchSizeAssumption
    <3> HIDE DEF n
    <3>3. Elems(batch') \subseteq Elems(queue) /\ Elems(queue') \subseteq Elems(queue)
      BY <1>3, <3>1, <3>2, ElemsSubSeq
    <3> QED BY <1>2, <3>3
  <2>3. CASE WorkerStep /\ ~Take
    BY <1>2, <2>3 DEF WorkerStep, AppendStep, Rollover, OpenShard, OpenFails,
       AppendBuffered, AppendSpills, AppendFails, AppendRefused, Flush,
       FlushFails, Sync, SnapshotDue, Drained, Capture, Rename, SnapshotFails, Compact
  <2>4. CASE ControlStep
    BY <1>2, <2>4 DEF ControlStep, BeginConfigure, BeginStop, BeginClose,
       WorkerStopped, FinalSnapshot, NoFinalSnapshot, Release, LoadRefused, Load
  <2>5. CASE Environment
    BY <1>2, <2>5 DEF Environment, Tick, Crash, PowerLoss, Boot, FreshProcess,
       Damage, Repair
  <2> QED BY <1>2, <2>1, <2>2, <2>3, <2>4, <2>5 DEF Next, vars
<1>5. r \notin Elems(buffer')
  BY <1>2, BufferChanges
<1>6. r \notin captured'
  <2>1. ASSUME NEW q \in Records, CallerStep(q) PROVE captured' = captured
    BY <2>1 DEF CallerStep, Record, Import, Admit, Send, GiveUp
  <2>2. CASE WorkerStep
    BY <1>1, <1>2, <2>2 DEF WorkerStep, AppendStep, Take, Rollover, OpenShard,
       OpenFails, AppendBuffered, AppendSpills, AppendFails, AppendRefused, Flush,
       FlushFails, Sync, SnapshotDue, Drained, Capture, Counted, Rename,
       SnapshotFails, Compact
  <2>3. CASE ControlStep
    BY <1>2, <2>3 DEF ControlStep, BeginConfigure, BeginStop, BeginClose,
       WorkerStopped, FinalSnapshot, NoFinalSnapshot, Release, LoadRefused, Load
  <2>4. CASE Environment
    BY <1>2, <2>4 DEF Environment, Tick, Crash, PowerLoss, Boot, FreshProcess,
       Damage, Repair
  <2> QED BY <1>2, <2>1, <2>2, <2>3, <2>4 DEF Next, vars
<1> QED BY <1>4, <1>5, <1>6 DEF InWriter

LEMMA CountStep ==
    TypeOK /\ CountedOnce /\ NewIsNowhere /\ [Next]_vars
        => CountedOnce' /\ NewIsNowhere'
<1> SUFFICES ASSUME TypeOK, CountedOnce, NewIsNowhere, [Next]_vars
             PROVE  CountedOnce' /\ NewIsNowhere'
  OBVIOUS
<1>1. ASSUME NEW r \in Records PROVE counted'[r] <= 1
  <2>1. counted[r] \in {0, 1} /\ counted \in [Records -> Nat]
    BY DEF CountedOnce, TypeOK, LedgerType
  <2> USE DEF ledger
  <2>2. ASSUME NEW q \in Records, CallerStep(q) PROVE counted'[r] <= 1
    <3>1. CASE Record(q)
      <4>1. counted[q] = 0
        BY <3>1 DEF Record, NewIsNowhere
      <4> QED BY <2>1, <3>1, <4>1 DEF Record
    <3>2. CASE Import(q)
      BY <2>1, <3>2 DEF Import
    <3> QED BY <2>1, <2>2, <3>1, <3>2 DEF CallerStep, Admit, Send, GiveUp
  <2>3. CASE WorkerStep
    BY <2>1, <2>3 DEF WorkerStep, AppendStep, Take, Rollover, OpenShard, OpenFails,
       AppendBuffered, AppendSpills, AppendFails, AppendRefused, Flush,
       FlushFails, Sync, SnapshotDue, Drained, Capture, Rename, SnapshotFails, Compact
  <2>4. CASE ControlStep
    <3>1. CASE Load
      <4>1. Restored[r] \in {0, 1}
        BY <2>1 DEF Restored, Counted
      <4> QED BY <3>1, <4>1 DEF Load, Replayed
    <3> QED BY <2>1, <2>4, <3>1 DEF ControlStep, BeginConfigure, BeginStop,
       BeginClose,
          WorkerStopped, FinalSnapshot, NoFinalSnapshot, Release, LoadRefused
  <2>5. CASE Environment
    BY <2>1, <2>5 DEF Environment, Tick, Crash, PowerLoss, Boot, FreshProcess,
       Damage, Repair
  <2> QED BY <2>1, <2>2, <2>3, <2>4, <2>5 DEF Next, vars
<1>2. ASSUME NEW r \in Records, caller'[r] = "new"
      PROVE  counted'[r] = 0 /\ ~OnDisk(r)' /\ ~InWriter(r)'
  BY <1>2, NewNotCounted, NewNotOnDisk, NewNotInWriter
<1> QED BY <1>1, <1>2 DEF CountedOnce, NewIsNowhere

(* No sequence of recordings, imports, crashes, reloads, merges and        *)
(* replays counts a request twice, whatever the size of the instance.      *)
THEOREM NeverCountedTwice == Spec => []CountedOnce
<1> QED BY TypeCorrect, InitCount, CountStep, PTL DEF Spec

-----------------------------------------------------------------------------
(* Durability: no request that a restart would bring back is lost, and the *)
(* engine implements the abstract ledger, provided that replay can read    *)
(* the shards (without that condition the run storage_unread_shard loses   *)
(* one).                                                                   *)

-----------------------------------------------------------------------------
(* Who owns the directory.                                                 *)

LEMMA OwnerStep ==
    ASSUME TypeOK, WriterOwnsDirectory, [Next]_vars
    PROVE  WriterOwnsDirectory'
<1> USE DEF disk, ctl, channel, snap, wrk, WriterOwnsDirectory
<1>1. ASSUME NEW q \in Records, CallerStep(q) PROVE WriterOwnsDirectory'
  BY <1>1 DEF CallerStep, Record, Import, Admit, Send, GiveUp
<1>2. CASE WorkerStep
  <2>1. UNCHANGED <<attached, control, goal, dirOpen, saved>>
    BY <1>2 DEF WorkerStep, AppendStep, Take, Rollover, OpenShard, OpenFails,
       AppendBuffered, AppendSpills, AppendFails, AppendRefused, Flush,
       FlushFails, Sync, SnapshotDue, Drained, Capture, Rename, SnapshotFails, Compact
  <2>2. worker # "none"
    BY <1>2 DEF WorkerStep, AppendStep, AppendReady, Take, Rollover, OpenShard,
       OpenFails, AppendBuffered, AppendSpills, AppendFails, AppendRefused, Flush,
       FlushFails, FlushDue, Sync, SnapshotDue, Drained, Capture, Rename,
       SnapshotFails, Compact
  <2>3. snapshot'.readable = snapshot.readable \/ snapshot'.readable = TRUE
    BY <1>2 DEF WorkerStep, AppendStep, Take, Rollover, OpenShard, OpenFails,
       AppendBuffered, AppendSpills, AppendFails, AppendRefused, Flush,
       FlushFails, Sync, SnapshotDue, Drained, Capture, Rename, Replaced,
       SnapshotFails, Compact
  <2> QED BY <2>1, <2>2, <2>3
<1>3. CASE ControlStep
  <2>1. ASSUME NEW g \in {"enable", "disable"}, BeginConfigure(g) PROVE WriterOwnsDirectory'
    BY <2>1 DEF BeginConfigure, BeginStop
  <2>2. CASE BeginClose
    BY <2>2 DEF BeginClose, BeginStop
  <2>3. CASE WorkerStopped
    BY <2>3 DEF WorkerStopped
  <2>4. CASE FinalSnapshot
    <3>1. /\ worker = "none" /\ ~attached /\ dirOpen /\ control' = "release"
          /\ UNCHANGED <<worker, attached, dirOpen>>
      BY <2>4 DEF FinalSnapshot
    <3>2. snapshot'.readable = TRUE
      BY <2>4 DEF FinalSnapshot, Replaced
    <3> QED BY <3>1, <3>2
  <2>5. CASE NoFinalSnapshot
    <3>1. /\ worker = "none" /\ ~attached /\ saved' = FALSE /\ control' = "release"
          /\ UNCHANGED <<worker, attached, dirOpen, snapshot>>
      BY <2>5 DEF NoFinalSnapshot
    <3> QED BY <3>1
  <2>6. CASE Release
    <3>1. /\ worker' = "none" /\ attached' = FALSE /\ dirOpen' = FALSE
          /\ control' \in {"closed", "load", "idle"}
          /\ control' = "closed" => goal' = "close"
      BY <2>6 DEF Release
    <3> QED BY <3>1
  <2>7. CASE LoadRefused
    BY <2>7 DEF LoadRefused
  <2>8. CASE Load
    BY <2>8 DEF Load
  <2> QED BY <1>3, <2>1, <2>2, <2>3, <2>4, <2>5, <2>6, <2>7, <2>8 DEF ControlStep
<1>4. CASE Environment
  BY <1>4 DEF Environment, Tick, Crash, PowerLoss, Boot, FreshProcess, Damage, Repair
<1>5. CASE UNCHANGED vars
  BY <1>5 DEF vars
<1> QED BY <1>1, <1>2, <1>3, <1>4, <1>5 DEF Next

-----------------------------------------------------------------------------
(* The days the worker has read.                                           *)

LEMMA DaysStep ==
    ASSUME TypeOK, WriterOwnsDirectory, DaysOrdered, [Next]_vars
    PROVE  DaysOrdered'
<1> USE DEF disk, snap, wrk, DaysOrdered
<1>0. /\ today \in Nat /\ startDay \in Days /\ snapDay \in Nat /\ snapshot.day \in Nat
      /\ fileDay \in Nat /\ today \in Days /\ Days \subseteq Nat
  BY DEF TypeOK, EnvironmentType, WorkerType, DiskType, FileType, Days
<1>1. ASSUME NEW q \in Records, CallerStep(q) PROVE DaysOrdered'
  BY <1>1 DEF CallerStep, Record, Import, Admit, Send, GiveUp
<1>2. CASE WorkerStep
  <2>1. CASE Take
    BY <1>0, <2>1 DEF Take
  <2>2. CASE Rollover
    <3>1. worker = "open" /\ UNCHANGED <<today, snapshot, startDay>>
      BY <2>2 DEF Rollover
    <3>2. \/ UNCHANGED <<worker, after, snapDay>>
          \/ worker' = "capture" /\ snapDay' = startDay
      BY <2>2 DEF Rollover, StartSnapshot
    <3> QED BY <1>0, <3>1, <3>2
  <2>3. CASE OpenShard \/ OpenFails
    BY <2>3 DEF OpenShard, OpenFails
  <2>4. CASE AppendStep
    BY <2>4 DEF AppendStep, AppendBuffered, AppendSpills, AppendFails, AppendRefused
  <2>5. CASE Flush \/ FlushFails \/ Sync
    BY <2>5 DEF Flush, FlushFails, FlushDue, Sync
  <2>6. CASE SnapshotDue
    BY <1>0, <2>6 DEF SnapshotDue, StartSnapshot
  <2>7. CASE Drained
    <3>1. /\ UNCHANGED <<today, snapshot, startDay>> /\ worker' = "capture"
          /\ after' = "none" /\ snapDay' = today
      BY <2>7 DEF Drained, StartSnapshot
    <3> QED BY <1>0, <3>1
  <2>8. CASE Capture
    BY <2>8 DEF Capture
  <2>9. CASE Rename
    BY <1>0, <2>9 DEF Rename, Replaced
  <2>10. CASE SnapshotFails
    BY <1>0, <2>10 DEF SnapshotFails, TypeOK, WorkerType
  <2>11. CASE Compact
    BY <1>0, <2>11 DEF Compact, TypeOK, WorkerType
  <2> QED BY <1>2, <2>1, <2>2, <2>3, <2>4, <2>5, <2>6, <2>7, <2>8, <2>9, <2>10, <2>11
          DEF WorkerStep
<1>3. CASE ControlStep
  <2>1. CASE FinalSnapshot
    <3>1. worker = "none" /\ snapshot'.day = today /\ UNCHANGED <<today, wrk>>
      BY <2>1 DEF FinalSnapshot, Replaced, WriterOwnsDirectory
    <3> QED BY <1>0, <3>1
  <2>2. CASE Load
    <3>1. worker' = "idle" /\ UNCHANGED <<today, startDay, snapDay, snapshot>>
      BY <2>2 DEF Load
    <3> QED BY <3>1
  <2>3. CASE ~FinalSnapshot /\ ~Load
    BY <1>3, <2>3 DEF ControlStep, BeginConfigure, BeginStop, BeginClose,
       WorkerStopped, NoFinalSnapshot, Release, LoadRefused
  <2> QED BY <2>1, <2>2, <2>3
<1>4. CASE Environment
  <2>1. CASE Tick
    <3>1. today' = today + 1 /\ UNCHANGED <<wrk, snapshot>>
      BY <2>1 DEF Tick
    <3> QED BY <1>0, <3>1
  <2>2. CASE Crash \/ PowerLoss \/ Boot
    <3>1. /\ UNCHANGED <<today, snapshot>> /\ worker' = "none" /\ startDay' = today
          /\ snapDay' = NoDay
      BY <2>2 DEF Crash, PowerLoss, Boot, FreshProcess
    <3> QED BY <1>0, <3>1 DEF NoDay
  <2>3. CASE Damage \/ Repair
    <3>1. snapshot'.day = snapshot.day /\ UNCHANGED <<today, wrk>>
      BY <2>3 DEF Damage, Repair, TypeOK, DiskType
    <3> QED BY <3>1
  <2> QED BY <1>4, <2>1, <2>2, <2>3 DEF Environment
<1>5. CASE UNCHANGED vars
  BY <1>5 DEF vars
<1> QED BY <1>1, <1>2, <1>3, <1>4, <1>5 DEF Next

-----------------------------------------------------------------------------
(* What is on its way to the disk is counted.                              *)

(* The ledger only grows while the process lives. *)
LEMMA LedgerGrows ==
    ASSUME TypeOK, [Next]_vars
    PROVE  \/ Counted \subseteq Counted'
           \/ Crash \/ PowerLoss \/ Boot
<1> USE DEF ledger
<1>1. ASSUME NEW q \in Records, CallerStep(q) PROVE Counted \subseteq Counted'
  BY <1>1 DEF CallerStep, Record, Import, Admit, Send, GiveUp, Counted, TypeOK,
     LedgerType
<1>2. CASE WorkerStep
  <2>1. counted' = counted
    BY <1>2 DEF WorkerStep, AppendStep, Take, Rollover, OpenShard, OpenFails,
       AppendBuffered, AppendSpills, AppendFails, AppendRefused, Flush,
       FlushFails, Sync, SnapshotDue, Drained, Capture, Rename, SnapshotFails, Compact
  <2> QED BY <2>1 DEF Counted
<1>3. CASE ControlStep
  <2>1. CASE Load
    <3>1. \A r \in Records : counted[r] \in Nat
      BY DEF TypeOK, LedgerType
    <3>2. \A r \in Counted : Restored[r] > 0
      BY <3>1 DEF Restored, Counted
    <3>3. \A r \in Counted : counted'[r] > 0
      <4>1. PICK unread \in SUBSET Days :
              counted' = Replayed(Restored, [d \in Days |-> IF d \in unread THEN {} ELSE os[d]])
        BY <2>1 DEF Load
      <4> QED BY <3>2, <4>1 DEF Replayed, Counted
    <3> QED BY <3>3 DEF Counted
  <2>2. CASE ~Load
    <3>1. counted' = counted
      BY <1>3, <2>2 DEF ControlStep, BeginConfigure, BeginStop, BeginClose,
         WorkerStopped, FinalSnapshot, NoFinalSnapshot, Release, LoadRefused
    <3> QED BY <3>1 DEF Counted
  <2> QED BY <2>1, <2>2
<1>4. CASE Tick \/ Damage \/ Repair \/ UNCHANGED vars
  BY <1>4 DEF Tick, Damage, Repair, vars, Counted
<1> QED BY <1>1, <1>2, <1>3, <1>4 DEF Next, Environment

(* The batch comes from the queue. *)
LEMMA QueueAndBatch ==
    ASSUME TypeOK, NothingUncounted, [Next]_vars, Counted \subseteq Counted'
    PROVE  Elems(queue') \cup Elems(batch') \subseteq Counted'
<1>1. /\ queue \in Seq(Records) /\ batch \in Seq(Records) /\ Elems(<<>>) = {}
      /\ Elems(queue) \subseteq Counted /\ Elems(batch) \subseteq Counted
  BY EmptySeq DEF TypeOK, ControlType, WorkerType, NothingUncounted
<1> USE DEF channel, wrk
<1>2. ASSUME NEW q \in Records, CallerStep(q)
      PROVE  Elems(queue') \cup Elems(batch') \subseteq Counted'
  <2>1. CASE Send(q)
    <3>1. q \in Counted /\ Elems(queue') = Elems(queue) \cup {q} /\ batch' = batch
      BY <1>1, <2>1, ElemsAppend DEF Send, NothingUncounted
    <3> QED BY <1>1, <3>1
  <2> QED BY <1>1, <1>2, <2>1 DEF CallerStep, Record, Import, Admit, GiveUp
<1>3. CASE Take
  <2> DEFINE n == IF Len(queue) < BatchSize THEN Len(queue) ELSE BatchSize
  <2>1. batch' = SubSeq(queue, 1, n) /\ queue' = SubSeq(queue, n + 1, Len(queue))
    BY <1>3 DEF Take
  <2>2. /\ 1 \in 1..(Len(queue) + 1) /\ n + 1 \in 1..(Len(queue) + 1)
        /\ n \in 0..Len(queue) /\ Len(queue) \in 0..Len(queue)
    BY <1>1, BatchSizeAssumption
  <2> HIDE DEF n
  <2>3. Elems(batch') \subseteq Elems(queue) /\ Elems(queue') \subseteq Elems(queue)
    BY <1>1, <2>1, <2>2, ElemsSubSeq
  <2> QED BY <1>1, <2>3
<1>4. CASE WorkerStep /\ ~Take
  BY <1>1, <1>4 DEF WorkerStep, AppendStep, Rollover, OpenShard, OpenFails,
     AppendBuffered, AppendSpills, AppendFails, AppendRefused, Flush,
     FlushFails, Sync, SnapshotDue, Drained, Capture, Rename, SnapshotFails, Compact
<1>5. CASE ControlStep
  BY <1>1, <1>5 DEF ControlStep, BeginConfigure, BeginStop, BeginClose,
     WorkerStopped, FinalSnapshot, NoFinalSnapshot, Release, LoadRefused, Load
<1>6. CASE Environment
  BY <1>1, <1>6 DEF Environment, Tick, Crash, PowerLoss, Boot, FreshProcess, Damage,
     Repair
<1> QED BY <1>1, <1>2, <1>3, <1>4, <1>5, <1>6 DEF Next, vars

(* A restart that reads every shard counts all that is recoverable. *)
LEMMA LoadCovers ==
    ASSUME TypeOK, ~ReplayMayFail, Load
    PROVE  Recoverable \subseteq Counted'
<1>1. PICK unread \in SUBSET Days :
        /\ IF unread = {} THEN UNCHANGED budget ELSE ReplayMayFail /\ Spend("fault")
        /\ counted' = Replayed(Restored, [d \in Days |-> IF d \in unread THEN {} ELSE os[d]])
  BY DEF Load
<1>2. os = [d \in Days |-> IF d \in unread THEN {} ELSE os[d]]
  BY <1>1 DEF TypeOK, DiskType
<1>3. \A r \in Records : Restored[r] \in Nat /\ (r \in snapshot.recs => Restored[r] > 0)
  BY DEF Restored, Counted, TypeOK, LedgerType
<1>4. \A r \in Records : r \in snapshot.recs \cup Visible(os) => counted'[r] > 0
  BY <1>1, <1>2, <1>3 DEF Replayed
<1>5. Recoverable \subseteq Records
  BY DEF Recoverable, Visible, TypeOK, DiskType
<1> QED BY <1>4, <1>5 DEF Recoverable, Counted


LEMMA BufferCounted ==
    ASSUME TypeOK, NothingUncounted, [Next]_vars
    PROVE  \/ Elems(queue') \cup Elems(batch') \cup Elems(buffer') \subseteq Counted'
           \/ Crash \/ PowerLoss \/ Boot
  BY LedgerGrows, QueueAndBatch, BufferChanges DEF NothingUncounted

LEMMA CallersCounted ==
    ASSUME TypeOK, NothingUncounted, [Next]_vars,
           NEW r \in Records, caller'[r] \in {"enqueue", "sending"}
    PROVE  r \in Counted'
<1>1. caller[r] \in {"enqueue", "sending"} => r \in Counted
  BY DEF NothingUncounted
<1> USE DEF ledger
<1>2. ASSUME NEW q \in Records, CallerStep(q) PROVE r \in Counted'
  <2>1. CASE q # r \/ Admit(q) \/ Send(q) \/ GiveUp(q)
    BY <1>1, <1>2, <2>1 DEF CallerStep, Record, Import, Admit, Send, GiveUp, Counted,
       TypeOK, LedgerType
  <2>2. CASE q = r /\ (Record(q) \/ Import(q))
    BY <2>2 DEF Record, Import, Counted, TypeOK, LedgerType
  <2> QED BY <1>2, <2>1, <2>2 DEF CallerStep
<1>3. CASE Crash \/ PowerLoss \/ Boot
  BY <1>3 DEF Crash, PowerLoss, Boot, FreshProcess
<1>4. caller' = caller \/ \E q \in Records : CallerStep(q) \/ Crash \/ PowerLoss \/ Boot
  <2>1. CASE WorkerStep
    BY <2>1 DEF WorkerStep, AppendStep, Take, Rollover, OpenShard, OpenFails,
       AppendBuffered, AppendSpills, AppendFails, AppendRefused, Flush,
       FlushFails, Sync, SnapshotDue, Drained, Capture, Rename, SnapshotFails, Compact
  <2>2. CASE ControlStep
    BY <2>2 DEF ControlStep, BeginConfigure, BeginStop, BeginClose, WorkerStopped,
       FinalSnapshot, NoFinalSnapshot, Release, LoadRefused, Load
  <2>3. CASE Tick \/ Damage \/ Repair \/ UNCHANGED vars
    BY <2>3 DEF Tick, Damage, Repair, vars
  <2> QED BY <2>1, <2>2, <2>3 DEF Next, Environment
<1>5. CASE caller' = caller
  BY <1>1, <1>3, <1>5, LedgerGrows
<1> QED BY <1>2, <1>3, <1>4, <1>5

(* While storage is owned and the invariant holds, every complete line on  *)
(* the disk is recoverable, hidden by a snapshot that has it or not.       *)
LEMMA ShardsRecoverable ==
    ASSUME TypeOK, HiddenShardsCovered, NEW d \in Days
    PROVE  os[d] \subseteq Recoverable
<1>1. d >= snapshot.day \/ d < snapshot.day
  BY DEF TypeOK, DiskType, Days
<1> QED BY <1>1 DEF HiddenShardsCovered, Recoverable, Visible

(* The view of a snapshot being written holds all that it will replace.    *)
LEMMA ViewComplete ==
    ASSUME TypeOK, StorageInvariant, [Next]_vars, worker' = "rename"
    PROVE  captured' \subseteq Counted' /\ (Recoverable \cup Elems(buffer))' \subseteq captured'
<1> USE DEF disk, ledger, channel, ctl, file, snap, wrk, StorageInvariant
<1>1. CASE Capture
  <2>1. Recoverable \cup Elems(buffer) \subseteq Counted
    BY <1>1 DEF Capture, WriterOwnsDirectory, LedgerCoversDisk, NothingUncounted
  <2>2. captured' = Counted /\ UNCHANGED <<snapshot, os, buffer, counted>>
    BY <1>1 DEF Capture
  <2> QED BY <2>1, <2>2 DEF Recoverable, Visible, Counted
<1>2. CASE ~Capture
  <2>1. ~Crash /\ ~PowerLoss /\ ~Boot /\ ~Load
    BY DEF Crash, PowerLoss, Boot, FreshProcess, Load
  <2>2. worker = "rename" /\ UNCHANGED <<captured, snapshot, os, buffer>>
    <3>1. ASSUME NEW q \in Records, CallerStep(q)
          PROVE  worker = "rename" /\ UNCHANGED <<captured, snapshot, os, buffer>>
      BY <3>1 DEF CallerStep, Record, Import, Admit, Send, GiveUp
    <3>2. CASE WorkerStep
      BY <1>2, <3>2 DEF WorkerStep, AppendStep, AppendReady, Take, Rollover,
         OpenShard,
         OpenFails, AppendBuffered, AppendSpills, AppendFails, AppendRefused, Flush,
         FlushFails, FlushDue, Sync, SnapshotDue, Drained, Rename, SnapshotFails,
         Compact, StartSnapshot, TypeOK, WorkerType
    <3>3. CASE ControlStep
      BY <2>1, <3>3 DEF ControlStep, BeginConfigure, BeginStop, BeginClose,
         WorkerStopped, FinalSnapshot, NoFinalSnapshot, Release, LoadRefused,
         WriterOwnsDirectory
    <3>4. CASE Environment
      BY <2>1, <3>4 DEF Environment, Tick, Damage, Repair, WriterOwnsDirectory
    <3> QED BY <3>1, <3>2, <3>3, <3>4 DEF Next, vars
  <2>3. Counted \subseteq Counted'
    BY <2>1, LedgerGrows
  <2> QED BY <2>2, <2>3 DEF NothingUncounted, Recoverable, Visible
<1> QED BY <1>1, <1>2


LEMMA SyncedStep ==
    ASSUME TypeOK, NothingUncounted, [Next]_vars, NEW d \in Days
    PROVE  synced'[d] \subseteq os'[d]
<1>1. synced[d] \subseteq os[d] /\ os \in [Days -> SUBSET Records]
  BY DEF NothingUncounted, TypeOK, DiskType
<1>2. CASE Compact \/ Release
  <2>1. UNCHANGED <<os, synced>> \/ \E day, open : CompactBefore(day, open)
    BY <1>2 DEF Compact, Release
  <2>2. ASSUME NEW day, NEW open, CompactBefore(day, open)
        PROVE  synced'[d] \subseteq os'[d]
    BY <1>1, <2>2 DEF CompactBefore
  <2> QED BY <1>1, <2>1, <2>2
<1>3. CASE PowerLoss
  BY <1>3 DEF PowerLoss
<1>4. CASE ~Compact /\ ~Release /\ ~PowerLoss
  BY <1>1, <1>4, ShardsWritten DEF OnlyAppended
<1> QED BY <1>2, <1>3, <1>4

(* The file the worker still writes to after a snapshot of a later day     *)
(* gets no line that the snapshot lacks.                                   *)
LEMMA HiddenBufferStep ==
    ASSUME TypeOK, StorageInvariant, [Next]_vars,
           fileDay' # NoDay, fileDay' < snapshot'.day
    PROVE  Elems(buffer') \subseteq snapshot'.recs
<1> USE DEF disk, file, wrk, StorageInvariant
<1>0. /\ fileDay \in Nat /\ startDay \in Nat /\ snapshot.day \in Nat
      /\ fileDay # NoDay /\ fileDay < snapshot.day => Elems(buffer) \subseteq snapshot.recs
      /\ worker = "open" => startDay >= snapshot.day
      /\ worker = "rename" => Elems(buffer) \subseteq captured
      /\ Elems(buffer) \subseteq Counted /\ Elems(<<>>) = {}
  BY EmptySeq DEF TypeOK, FileType, WorkerType, DiskType, Days, NothingUncounted,
     DaysOrdered
<1>1. CASE Rename \/ FinalSnapshot
  BY <1>0, <1>1 DEF Rename, FinalSnapshot, Replaced
<1>2. CASE ~Rename /\ ~FinalSnapshot
  <2>1. snapshot'.day = snapshot.day /\ snapshot'.recs = snapshot.recs
    BY <1>2, SnapshotChanges DEF Damage, Repair, TypeOK, DiskType
  <2>2. \/ fileDay' = fileDay /\ Elems(buffer') \subseteq Elems(buffer)
        \/ fileDay' = NoDay
        \/ fileDay' = startDay /\ worker = "open"
    <3>1. ASSUME NEW q \in Records, CallerStep(q) PROVE UNCHANGED <<fileDay, buffer>>
      BY <3>1 DEF CallerStep, Record, Import, Admit, Send, GiveUp
    <3>2. CASE AppendStep \/ OpenShard
      BY <3>2 DEF AppendStep, AppendBuffered, AppendSpills, AppendFails,
         AppendRefused,
         AppendReady, OpenShard
    <3>3. CASE WorkerStep
      BY <1>0, <3>2, <3>3 DEF WorkerStep, Take, Rollover, CloseFile, OpenFails, Flush,
         FlushFails, Sync, SnapshotDue, Drained, Capture, Rename, SnapshotFails, Compact
    <3>4. CASE ControlStep
      BY <3>4 DEF ControlStep, BeginConfigure, BeginStop, BeginClose, WorkerStopped,
         FinalSnapshot, NoFinalSnapshot, Release, LoadRefused, Load
    <3>5. CASE Environment
      BY <3>5 DEF Environment, Tick, Crash, PowerLoss, Boot, FreshProcess, Damage,
         Repair
    <3> QED BY <3>1, <3>3, <3>4, <3>5 DEF Next, vars
  <2> QED BY <1>0, <2>1, <2>2
<1> QED BY <1>1, <1>2

LEMMA HiddenStep ==
    ASSUME TypeOK, StorageInvariant, [Next]_vars
    PROVE  HiddenShardsCovered'
<1> SUFFICES ASSUME NEW d \in Days, d < snapshot'.day PROVE os'[d] \subseteq snapshot'.recs
  BY DEF HiddenShardsCovered
<1> USE DEF StorageInvariant
<1>1. CASE Rename \/ FinalSnapshot
  <2>1. os[d] \subseteq Recoverable
    BY ShardsRecoverable
  <2>2. os' = os /\ (snapshot'.recs = captured \/ (dirOpen /\ snapshot'.recs = Counted))
    BY <1>1 DEF Rename, FinalSnapshot, Replaced
  <2>3. Recoverable \subseteq snapshot'.recs
    BY <1>1, <2>2 DEF Rename, FinalSnapshot, Replaced, NothingUncounted,
       LedgerCoversDisk
  <2> QED BY <2>1, <2>2, <2>3
<1>2. CASE ~Rename /\ ~FinalSnapshot
  <2>1. snapshot'.day = snapshot.day /\ snapshot'.recs = snapshot.recs
    BY <1>2, SnapshotChanges DEF Damage, Repair, TypeOK, DiskType
  <2>2. os[d] \subseteq snapshot.recs
    BY <2>1 DEF HiddenShardsCovered
  <2>3. CASE Compact \/ Release
    <3>1. UNCHANGED os \/ \E day, open : CompactBefore(day, open)
      BY <2>3 DEF Compact, Release
    <3> QED BY <2>1, <2>2, <3>1, CompactRemoves
  <2>4. CASE PowerLoss
    BY <2>1, <2>2, <2>4 DEF PowerLoss, NothingUncounted
  <2>5. CASE ~Compact /\ ~Release /\ ~PowerLoss
    <3>1. OnlyAppended(d)
      BY <2>5, ShardsWritten
    <3>2. CASE d # fileDay
      BY <2>1, <2>2, <3>1, <3>2 DEF OnlyAppended
    <3>3. CASE d = fileDay
      <4>1. fileDay # NoDay /\ fileDay < snapshot.day /\ fileDay \in Nat /\ snapshot.day \in Nat
        BY <2>1, <3>3 DEF Days, NoDay, TypeOK, DiskType
      <4>2. ~AppendReady
        BY <4>1 DEF AppendReady, DaysOrdered
      <4>3. Elems(buffer) \subseteq snapshot.recs
        BY <4>1 DEF NothingUncounted
      <4> QED BY <2>1, <2>2, <3>1, <4>2, <4>3 DEF OnlyAppended
    <3> QED BY <3>2, <3>3
  <2> QED BY <2>3, <2>4, <2>5
<1> QED BY <1>1, <1>2

(* Whatever a step makes recoverable was counted or recoverable before.    *)
LEMMA RecoverableBound ==
    ASSUME TypeOK, StorageInvariant, [Next]_vars
    PROVE  Recoverable' \subseteq Recoverable \cup Counted
<1> USE DEF StorageInvariant
<1>1. snapshot'.recs \subseteq Recoverable \cup Counted
  <2>1. CASE Rename \/ FinalSnapshot
    BY <2>1 DEF Rename, FinalSnapshot, Replaced, NothingUncounted
  <2>2. CASE ~Rename /\ ~FinalSnapshot
    BY <2>2, SnapshotChanges DEF Damage, Repair, TypeOK, DiskType, Recoverable
  <2> QED BY <2>1, <2>2
<1>2. ASSUME NEW d \in Days PROVE os'[d] \subseteq Recoverable \cup Counted
  <2>1. os[d] \subseteq Recoverable /\ synced[d] \subseteq os[d]
    BY ShardsRecoverable DEF NothingUncounted
  <2> QED BY <2>1, ShardsChange DEF NothingUncounted
<1> QED BY <1>1, <1>2 DEF Recoverable, Visible

LEMMA OwnershipTaken ==
    ASSUME TypeOK, [Next]_vars, dirOpen'
    PROVE  dirOpen \/ Load
<1> USE DEF ctl
<1>1. ASSUME NEW q \in Records, CallerStep(q) PROVE dirOpen
  BY <1>1 DEF CallerStep, Record, Import, Admit, Send, GiveUp
<1>2. CASE WorkerStep
  BY <1>2 DEF WorkerStep, AppendStep, Take, Rollover, OpenShard, OpenFails,
     AppendBuffered, AppendSpills, AppendFails, AppendRefused, Flush,
     FlushFails, Sync, SnapshotDue, Drained, Capture, Rename, SnapshotFails, Compact
<1>3. CASE ControlStep
  BY <1>3 DEF ControlStep, BeginConfigure, BeginStop, BeginClose, WorkerStopped,
     FinalSnapshot, NoFinalSnapshot, Release, LoadRefused
<1>4. CASE Environment
  BY <1>4 DEF Environment, Tick, Crash, PowerLoss, Boot, FreshProcess, Damage, Repair
<1> QED BY <1>1, <1>2, <1>3, <1>4 DEF Next, vars

LEMMA LedgerCoversStep ==
    ASSUME TypeOK, StorageInvariant, ~ReplayMayFail, [Next]_vars
    PROVE  LedgerCoversDisk'
<1> SUFFICES ASSUME dirOpen' PROVE Recoverable' \subseteq Counted'
  BY DEF LedgerCoversDisk
<1>1. CASE Load
  <2>1. UNCHANGED <<snapshot, os>>
    BY <1>1 DEF Load, disk
  <2> QED BY <1>1, <2>1, LoadCovers DEF Recoverable, Visible
<1>2. CASE dirOpen
  <2>1. Counted \subseteq Counted'
    BY LedgerGrows DEF Crash, PowerLoss, Boot, FreshProcess
  <2> QED BY <1>2, <2>1, RecoverableBound DEF StorageInvariant, LedgerCoversDisk
<1> QED BY <1>1, <1>2, OwnershipTaken

(* A closed engine has saved all it has counted, if it has saved at all.   *)
LEMMA ClosedStep ==
    ASSUME TypeOK, StorageInvariant, [Next]_vars,
           control' \in {"release", "closed"}, saved', goal' = "close"
    PROVE  Counted' \subseteq snapshot'.recs
<1> USE DEF disk, ledger, ctl, StorageInvariant
<1>1. CASE FinalSnapshot
  BY <1>1 DEF FinalSnapshot, Replaced, Counted
<1>2. CASE ~FinalSnapshot
  <2>1. /\ control \in {"release", "closed"} /\ saved /\ goal = "close"
        /\ counted' = counted /\ snapshot'.recs = snapshot.recs
    <3>1. ASSUME NEW q \in Records, CallerStep(q)
          PROVE  /\ control \in {"release", "closed"} /\ saved /\ goal = "close"
                 /\ UNCHANGED <<counted, snapshot>>
      BY <3>1 DEF CallerStep, Record, Import, Admit, Send, GiveUp, MuFree
    <3>2. CASE WorkerStep
      <4>1. worker # "none" /\ UNCHANGED control
        BY <3>2 DEF WorkerStep, AppendStep, AppendReady, Take, Rollover, OpenShard,
           OpenFails, AppendBuffered, AppendSpills, AppendFails, AppendRefused, Flush,
           FlushFails, FlushDue, Sync, SnapshotDue, Drained, Capture, Rename,
           SnapshotFails, Compact
      <4> QED BY <4>1 DEF WriterOwnsDirectory
    <3>3. CASE ControlStep
      BY <1>2, <3>3 DEF ControlStep, BeginConfigure, BeginStop, BeginClose,
         WorkerStopped, NoFinalSnapshot, Release, LoadRefused, Load
    <3>4. CASE Environment
      BY <3>4 DEF Environment, Tick, Crash, PowerLoss, Boot, Damage, Repair, TypeOK,
         DiskType
    <3> QED BY <3>1, <3>2, <3>3, <3>4 DEF Next, vars
  <2> QED BY <2>1 DEF NothingUncounted, Counted
<1> QED BY <1>1, <1>2

LEMMA StorageInit == Init => StorageInvariant
<1> SUFFICES ASSUME Init PROVE StorageInvariant
  OBVIOUS
<1>1. WriterOwnsDirectory /\ DaysOrdered
  BY DEF Init, WriterOwnsDirectory, DaysOrdered, NoDay
<1>2. NothingUncounted
  BY EmptySeq DEF Init, NothingUncounted, Counted
<1>3. HiddenShardsCovered /\ LedgerCoversDisk
  BY DEF Init, HiddenShardsCovered, LedgerCoversDisk
<1> QED BY <1>1, <1>2, <1>3 DEF StorageInvariant

LEMMA StorageStep ==
    ASSUME TypeOK, StorageInvariant, ~ReplayMayFail, [Next]_vars
    PROVE  StorageInvariant'
<1>1. WriterOwnsDirectory' /\ DaysOrdered'
  BY OwnerStep, DaysStep DEF StorageInvariant
<1>2. NothingUncounted'
  <2>1. Elems(queue') \cup Elems(batch') \cup Elems(buffer') \subseteq Counted'
    <3>1. CASE Crash \/ PowerLoss \/ Boot
      BY <3>1, EmptySeq DEF Crash, PowerLoss, Boot, FreshProcess
    <3> QED BY <3>1, BufferCounted DEF StorageInvariant
  <2>2. \A r \in Records : caller'[r] \in {"enqueue", "sending"} => r \in Counted'
    BY CallersCounted DEF StorageInvariant
  <2>3. \A d \in Days : synced'[d] \subseteq os'[d]
    BY SyncedStep DEF StorageInvariant
  <2> QED BY <2>1, <2>2, <2>3, ViewComplete, HiddenBufferStep, ClosedStep DEF
     NothingUncounted
<1>3. HiddenShardsCovered' /\ LedgerCoversDisk'
  BY HiddenStep, LedgerCoversStep
<1> QED BY <1>1, <1>2, <1>3 DEF StorageInvariant

(* The invariant of the storage component holds in every instance whose    *)
(* shards can be read.                                                     *)
THEOREM StorageSafe == ASSUME ~ReplayMayFail PROVE Spec => []StorageInvariant
<1>1. TypeOK /\ StorageInvariant /\ [Next]_vars => StorageInvariant'
  BY StorageStep
<1> QED BY <1>1, TypeCorrect, StorageInit, PTL DEF Spec


(* What replay hides and compaction deletes is in the snapshot. *)
THEOREM HiddenAlwaysCovered == ASSUME ~ReplayMayFail PROVE Spec => []HiddenShardsCovered
<1>1. StorageInvariant => HiddenShardsCovered
  BY DEF StorageInvariant
<1> QED BY <1>1, StorageSafe, PTL

(* The owner of the directory counts all that is recoverable. *)
THEOREM LedgerAlwaysCovers == ASSUME ~ReplayMayFail PROVE Spec => []LedgerCoversDisk
<1>1. StorageInvariant => LedgerCoversDisk
  BY DEF StorageInvariant
<1> QED BY <1>1, StorageSafe, PTL

(* A close whose snapshot was written has saved every counted request. *)
THEOREM CloseSaves == ASSUME ~ReplayMayFail PROVE Spec => []CloseSavesLedger
<1>1. StorageInvariant => CloseSavesLedger
  BY DEF StorageInvariant, WriterOwnsDirectory, NothingUncounted, CloseSavesLedger,
     Recoverable
<1> QED BY <1>1, StorageSafe, PTL

-----------------------------------------------------------------------------
(* Nothing durable is lost.                                                *)

Safe == snapshot.recs \cup Visible(synced)

LEMMA SafeRecoverable ==
    ASSUME NothingUncounted
    PROVE  Safe \subseteq Recoverable
  BY DEF NothingUncounted, Safe, Recoverable, Visible

(* Compaction removes nothing that a restart would replay. *)
LEMMA CompactionHidden ==
    ASSUME TypeOK, StorageInvariant, [Next]_vars, Compact \/ Release
    PROVE  Recoverable' = Recoverable /\ Safe' = Safe
<1>1. UNCHANGED snapshot /\ snapshot.day \in Nat
  BY DEF Compact, Release, TypeOK, DiskType
<1>2. UNCHANGED <<os, synced>> \/ \E open : CompactBefore(snapshot.day, open)
  BY DEF Compact, Release, StorageInvariant, DaysOrdered
<1>3. \A d \in Days : d >= snapshot.day => os'[d] = os[d] /\ synced'[d] = synced[d]
  BY <1>1, <1>2, CompactRemoves
<1> QED BY <1>1, <1>3 DEF Recoverable, Safe, Visible

LEMMA NothingLost ==
    ASSUME TypeOK, StorageInvariant, [Next]_vars
    PROVE  Safe \subseteq Safe' /\ (Recoverable \subseteq Recoverable' \/ PowerLoss)
<1> USE DEF StorageInvariant
<1>1. CASE Rename \/ FinalSnapshot
  <2>1. Recoverable \subseteq snapshot'.recs
    BY <1>1 DEF Rename, FinalSnapshot, Replaced, NothingUncounted, LedgerCoversDisk
  <2> QED BY <2>1, SafeRecoverable DEF Recoverable, Safe
<1>2. CASE Compact \/ Release
  BY <1>2, CompactionHidden
<1>3. CASE PowerLoss
  <2>1. UNCHANGED <<snapshot, synced>>
    BY <1>3 DEF PowerLoss
  <2> QED BY <1>3, <2>1 DEF Safe, Visible
<1>4. CASE ~Rename /\ ~FinalSnapshot /\ ~Compact /\ ~Release /\ ~PowerLoss
  <2>1. snapshot'.day = snapshot.day /\ snapshot'.recs = snapshot.recs
    BY <1>4, SnapshotChanges DEF Damage, Repair, TypeOK, DiskType
  <2>2. \A d \in Days : os[d] \subseteq os'[d] /\ synced[d] \subseteq synced'[d]
    BY <1>4, ShardsWritten DEF OnlyAppended, NothingUncounted
  <2> QED BY <2>1, <2>2 DEF Recoverable, Safe, Visible
<1> QED BY <1>1, <1>2, <1>3, <1>4

(* No step loses a request that a restart would bring back; a power loss   *)
(* loses at most what was not synced.                                      *)
THEOREM NothingDurableLost == ASSUME ~ReplayMayFail PROVE Spec => DurableNeverShrinks
<1>1. TypeOK /\ StorageInvariant /\ [Next]_vars =>
        [ /\ snapshot.recs \cup Visible(synced)
               \subseteq snapshot'.recs \cup Visible(synced)'
          /\ Recoverable \subseteq Recoverable' \/ os' = synced ]_vars
  <2> SUFFICES ASSUME TypeOK, StorageInvariant, [Next]_vars
               PROVE  /\ snapshot.recs \cup Visible(synced)
                           \subseteq snapshot'.recs \cup Visible(synced)'
                      /\ Recoverable \subseteq Recoverable' \/ os' = synced
    OBVIOUS
  <2>1. PowerLoss => os' = synced
    BY DEF PowerLoss
  <2> QED BY <2>1, NothingLost DEF Safe
<1> QED BY <1>1, TypeCorrect, StorageSafe, PTL DEF Spec, DurableNeverShrinks

(* An unreadable snapshot and the shards beside it are left alone until an *)
(* operator has repaired it, whatever the program is asked to do and       *)
(* whether or not the shards can be read.                                  *)
THEOREM UnreadableUntouched == Spec => UnreadableSnapshotUntouched
<1>1. Init => WriterOwnsDirectory
  BY DEF Init, WriterOwnsDirectory
<1>2. TypeOK /\ WriterOwnsDirectory /\ [Next]_vars => WriterOwnsDirectory'
  BY OwnerStep
<1>3. TypeOK /\ WriterOwnsDirectory /\ [Next]_vars =>
        [ ~snapshot.readable =>
            /\ snapshot' \in {snapshot, [snapshot EXCEPT !.readable = TRUE]}
            /\ os' \in {os, synced} ]_vars
  <2> SUFFICES ASSUME TypeOK, WriterOwnsDirectory, [Next]_vars, ~snapshot.readable
               PROVE  /\ snapshot' \in {snapshot, [snapshot EXCEPT !.readable = TRUE]}
                      /\ os' \in {os, synced}
    OBVIOUS
  <2>1. worker = "none" /\ ~dirOpen /\ ~(control = "release" /\ saved)
    BY DEF WriterOwnsDirectory
  <2>2. ~WorkerStep
    BY <2>1 DEF WorkerStep, AppendStep, AppendReady, Take, Rollover, OpenShard,
       OpenFails, AppendBuffered, AppendSpills, AppendFails, AppendRefused, Flush,
       FlushFails, FlushDue, Sync, SnapshotDue, Drained, Capture, Rename,
       SnapshotFails, Compact
  <2>3. snapshot' \in {snapshot, [snapshot EXCEPT !.readable = TRUE]}
    BY <2>1, <2>2, SnapshotChanges DEF FinalSnapshot, WorkerStep, Damage, Repair
  <2>4. ASSUME NEW q \in Records, CallerStep(q) PROVE os' = os
    BY <2>4 DEF CallerStep, Record, Import, Admit, Send, GiveUp, disk
  <2>5. CASE ControlStep
    BY <2>1, <2>5 DEF ControlStep, BeginConfigure, BeginStop, BeginClose,
       WorkerStopped,
       FinalSnapshot, NoFinalSnapshot, Release, LoadRefused, Load, disk
  <2>6. CASE Environment
    BY <2>6 DEF Environment, Tick, Crash, PowerLoss, Boot, Damage, Repair, disk
  <2> QED BY <2>2, <2>3, <2>4, <2>5, <2>6 DEF Next, vars, disk
<1> QED BY <1>1, <1>2, <1>3, TypeCorrect, PTL DEF Spec, UnreadableSnapshotUntouched

-----------------------------------------------------------------------------
(* The engine implements DurableLedger.                                    *)

LEMMA LedgerInit == Init => Abstract!Init
<1> SUFFICES ASSUME Init PROVE Counted = {} /\ Recoverable = {} /\ Safe = {} /\ dirOpen = FALSE
  BY DEF Abstract!Init, Safe
<1> QED BY DEF Init, Counted, Recoverable, Safe, Visible

(* The abstract state is left alone. *)
LEMMA Stutters ==
    ASSUME UNCHANGED <<counted, snapshot, os, synced, dirOpen>>
    PROVE  UNCHANGED Abstract!lvars
  BY DEF Abstract!lvars, Counted, Recoverable, Visible

LEMMA CallerImplements ==
    ASSUME TypeOK, NewIsNowhere, NEW q \in Records, CallerStep(q)
    PROVE  [Abstract!LedgerNext]_(Abstract!lvars)
<1> USE DEF disk, ledger, ctl
<1>1. CASE Record(q) \/ Import(q)
  <2>1. counted[q] = 0 /\ counted' = [counted EXCEPT ![q] = @ + 1]
        /\ UNCHANGED <<snapshot, os, synced, dirOpen>>
    BY <1>1 DEF Record, Import, NewIsNowhere
  <2>2. q \notin Counted /\ Counted' = Counted \cup {q}
    BY <2>1 DEF Counted, TypeOK, LedgerType
  <2>3. Recoverable' = Recoverable /\ (snapshot.recs \cup Visible(synced))' = snapshot.recs \cup Visible(synced)
    BY <2>1 DEF Recoverable, Visible
  <2>4. Abstract!Accept(q)
    BY <2>1, <2>2, <2>3 DEF Abstract!Accept
  <2> QED BY <2>4 DEF Abstract!LedgerNext
<1>2. CASE Admit(q) \/ Send(q) \/ GiveUp(q)
  <2>1. UNCHANGED <<counted, snapshot, os, synced, dirOpen>>
    BY <1>2 DEF Admit, Send, GiveUp
  <2> QED BY <2>1, Stutters
<1> QED BY <1>1, <1>2 DEF CallerStep

(* What the owner writes, and removes, is a Persist step. *)
LEMMA WriteImplements ==
    ASSUME TypeOK, StorageInvariant, [Next]_vars, ~PowerLoss,
           dirOpen, UNCHANGED <<counted, dirOpen>>
    PROVE  Abstract!Persist
<1>1. Recoverable \subseteq Recoverable' /\ Safe \subseteq Safe'
  BY NothingLost
<1>2. Recoverable' \subseteq Recoverable \cup Counted
  BY RecoverableBound
<1>3. \A d \in Days : synced'[d] \subseteq os'[d]
  BY SyncedStep DEF StorageInvariant
<1>4. Safe' \subseteq Recoverable'
  BY <1>3 DEF Safe, Recoverable, Visible
<1>5. Counted' = Counted
  BY DEF Counted
<1> QED BY <1>1, <1>2, <1>4, <1>5 DEF Abstract!Persist, Safe

LEMMA DeathImplements ==
    ASSUME TypeOK, StorageInvariant, [Next]_vars, Crash \/ PowerLoss \/ Boot
    PROVE  Abstract!Die
<1>1. /\ counted' = [r \in Records |-> 0] /\ dirOpen' = FALSE
      /\ UNCHANGED <<snapshot, synced>> /\ os' \in {os, synced}
  BY DEF Crash, PowerLoss, Boot, FreshProcess, disk
<1>2. Counted' = {}
  BY <1>1 DEF Counted
<1>3. Safe' = Safe /\ Safe \subseteq Recoverable' /\ Recoverable' \subseteq Recoverable
  BY <1>1 DEF Safe, Recoverable, Visible, StorageInvariant, NothingUncounted
<1> QED BY <1>1, <1>2, <1>3 DEF Abstract!Die, Safe

LEMMA LoadImplements ==
    ASSUME TypeOK, StorageInvariant, ~ReplayMayFail, [Next]_vars, Load
    PROVE  Abstract!Attach
<1>1. ~dirOpen /\ dirOpen' = TRUE /\ UNCHANGED <<snapshot, os, synced>>
  BY DEF Load, disk, StorageInvariant, WriterOwnsDirectory
<1>2. Counted \cup Recoverable \subseteq Counted'
  <2>1. Counted \subseteq Counted'
    BY LedgerGrows DEF Load, Crash, PowerLoss, Boot, FreshProcess
  <2> QED BY <2>1, LoadCovers
<1>3. Counted' \subseteq Counted \cup Recoverable
  <2>1. PICK unread \in SUBSET Days :
          counted' = Replayed(Restored, [d \in Days |-> IF d \in unread THEN {} ELSE os[d]])
    BY DEF Load
  <2>2. ASSUME NEW r \in Records, r \notin Counted, r \notin Recoverable
        PROVE  counted'[r] = 0
    <3>1. counted[r] = 0
      BY <2>2 DEF Counted, TypeOK, LedgerType
    <3>2. Restored[r] = 0
      BY <2>2, <3>1 DEF Restored, Recoverable
    <3>3. r \notin Visible([d \in Days |-> IF d \in unread THEN {} ELSE os[d]])
      BY <2>2 DEF Visible, Recoverable
    <3> QED BY <2>1, <3>2, <3>3 DEF Replayed
  <2> QED BY <2>2 DEF Counted
<1>4. Counted' = Counted \cup Recoverable
  BY <1>2, <1>3
<1>5. Recoverable' = Recoverable /\ Safe' = Safe
  BY <1>1 DEF Recoverable, Safe, Visible
<1> QED BY <1>1, <1>4, <1>5 DEF Abstract!Attach, Safe

LEMMA LedgerStep ==
    ASSUME TypeOK, NewIsNowhere, StorageInvariant, ~ReplayMayFail, [Next]_vars
    PROVE  [Abstract!LedgerNext]_(Abstract!lvars)
<1> USE DEF disk, ledger, ctl
<1>1. ASSUME NEW q \in Records, CallerStep(q) PROVE [Abstract!LedgerNext]_(Abstract!lvars)
  BY <1>1, CallerImplements
<1>2. CASE WorkerStep
  <2>1. dirOpen
    <3>1. worker # "none"
      BY <1>2 DEF WorkerStep, AppendStep, AppendReady, Take, Rollover, OpenShard,
         OpenFails, AppendBuffered, AppendSpills, AppendFails, AppendRefused, Flush,
         FlushFails, FlushDue, Sync, SnapshotDue, Drained, Capture, Rename,
         SnapshotFails, Compact
    <3> QED BY <3>1 DEF StorageInvariant, WriterOwnsDirectory
  <2>2. UNCHANGED <<counted, dirOpen, control>>
    BY <1>2 DEF WorkerStep, AppendStep, Take, Rollover, OpenShard, OpenFails,
       AppendBuffered, AppendSpills, AppendFails, AppendRefused, Flush,
       FlushFails, Sync, SnapshotDue, Drained, Capture, Rename, SnapshotFails, Compact
  <2>3. ~PowerLoss
    BY <2>2 DEF PowerLoss
  <2> QED BY <2>1, <2>2, <2>3, WriteImplements DEF Abstract!LedgerNext
<1>3. CASE ControlStep
  <2>1. CASE FinalSnapshot
    <3>1. dirOpen /\ UNCHANGED <<counted, dirOpen>> /\ ~PowerLoss
      BY <2>1 DEF FinalSnapshot, PowerLoss
    <3> QED BY <3>1, WriteImplements DEF Abstract!LedgerNext
  <2>2. CASE Release
    <3>1. Recoverable' = Recoverable /\ Safe' = Safe
      BY <2>2, CompactionHidden
    <3>2. dirOpen' = FALSE /\ Counted' = Counted
      BY <2>2 DEF Release, Counted
    <3> QED BY <3>1, <3>2 DEF Abstract!LedgerNext, Abstract!Detach, Safe
  <2>3. CASE Load
    BY <2>3, LoadImplements DEF Abstract!LedgerNext
  <2>4. CASE ~FinalSnapshot /\ ~Release /\ ~Load
    <3>1. UNCHANGED <<counted, snapshot, os, synced, dirOpen>>
      BY <1>3, <2>4 DEF ControlStep, BeginConfigure, BeginStop, BeginClose,
         WorkerStopped, NoFinalSnapshot, LoadRefused
    <3> QED BY <3>1, Stutters
  <2> QED BY <2>1, <2>2, <2>3, <2>4
<1>4. CASE Environment
  <2>1. CASE Crash \/ PowerLoss \/ Boot
    BY <2>1, DeathImplements DEF Abstract!LedgerNext
  <2>2. CASE Tick
    BY <2>2, Stutters DEF Tick
  <2>3. CASE Damage \/ Repair
    <3>1. /\ snapshot'.recs = snapshot.recs /\ snapshot'.day = snapshot.day
          /\ UNCHANGED <<counted, os, synced, dirOpen>>
      BY <2>3 DEF Damage, Repair, TypeOK, DiskType
    <3> QED BY <3>1 DEF Abstract!lvars, Counted, Recoverable, Visible
  <2> QED BY <1>4, <2>1, <2>2, <2>3 DEF Environment
<1>5. CASE UNCHANGED vars
  BY <1>5, Stutters DEF vars
<1> QED BY <1>1, <1>2, <1>3, <1>4, <1>5 DEF Next

(* Queue, worker, shards, snapshots, compaction, reload and replay         *)
(* together are a ledger with a durable copy, for every instance whose     *)
(* shards can be read.                                                     *)
THEOREM StorageImplementsLedger == ASSUME ~ReplayMayFail PROVE Spec => ImplementsLedger
<1>1. TypeOK /\ NewIsNowhere /\ StorageInvariant /\ [Next]_vars
        => [Abstract!LedgerNext]_(Abstract!lvars)
  BY LedgerStep
<1>2. Spec => []NewIsNowhere
  BY TypeCorrect, InitCount, CountStep, PTL DEF Spec
<1> QED BY <1>1, <1>2, LedgerInit, TypeCorrect, StorageSafe, PTL
        DEF Spec, ImplementsLedger, Abstract!LedgerSpec

=============================================================================
