--------------------------- MODULE RedoLogProofs ----------------------------
(***************************************************************************)
(* Theorems about RedoLog, for every set of keys and every value of the    *)
(* bounds: type correctness; a killed process recovers the key-value store *)
(* it had, and the points it had, once each; a power loss takes no more    *)
(* than what was written since the last fsync.                             *)
(***************************************************************************)
EXTENDS RedoLog, OrderFacts, FiniteSetTheorems, SequenceTheorems, TLAPS

-----------------------------------------------------------------------------
(* The order of records.                                                   *)

\* The log is segments of records.
LEMMA LogIsSegmented ==
    LogTypeOK => Segmented(segs, gen, Op) /\ Positions = Places(segs) /\ gen \in DOMAIN segs
BY DEF LogTypeOK, Segmented, Positions, Places, Generations

LEMMA LastIsLastOf == \A p, S : IsLast(p, S) <=> LastOf(p, S)
BY DEF IsLast, LastOf, Before, Earlier

LEMMA LastUnique ==
    ASSUME NEW S \in SUBSET (Nat \X Nat), NEW p, NEW q, IsLast(p, S), IsLast(q, S)
    PROVE  p = q
BY LastOfOne, LastIsLastOf

LEMMA PositionsType ==
    LogTypeOK => /\ Positions \in SUBSET (Nat \X Nat)
                 /\ \A p \in Positions : /\ p[1] \in Generations /\ p[1] <= gen
                                         /\ p[2] \in 1..Len(segs[p[1]])
                                         /\ Record(p) \in Op
<1> SUFFICES ASSUME LogTypeOK
             PROVE  /\ Positions \in SUBSET (Nat \X Nat)
                    /\ \A p \in Positions : /\ p[1] \in Generations /\ p[1] <= gen
                                            /\ p[2] \in 1..Len(segs[p[1]])
                                            /\ Record(p) \in Op
  OBVIOUS
<1>1. Segmented(segs, gen, Op) /\ Positions = Places(segs)
  BY LogIsSegmented
<1> QED
  BY <1>1, PlacesType DEF Record, Generations

\* Any records have a last one.
LEMMA RecordsLast ==
    ASSUME LogTypeOK, NEW S \in SUBSET Positions
    PROVE  S \in SUBSET (Nat \X Nat) /\ (S # {} => \E p : IsLast(p, S))
BY LogIsSegmented, PlacesLast, LastIsLastOf

\* The records of a key, when there are any, have a last one, and that is the
\* one replay ends with.
LEMMA KvLast ==
    LogTypeOK => \A k : /\ KvPositions(k) \in SUBSET (Nat \X Nat)
                        /\ KvPositions(k) # {} => \E p : IsLast(p, KvPositions(k))
<1> SUFFICES ASSUME LogTypeOK, NEW k
             PROVE  /\ KvPositions(k) \in SUBSET (Nat \X Nat)
                    /\ KvPositions(k) # {} => \E p : IsLast(p, KvPositions(k))
  OBVIOUS
<1>1. KvPositions(k) \in SUBSET Positions
  BY DEF KvPositions
<1> QED
  BY <1>1, RecordsLast

LEMMA RecoveredIsLast ==
    LogTypeOK => \A k, p : IsLast(p, KvPositions(k)) => RecoveredKv(k) = Record(p).value
<1> SUFFICES ASSUME LogTypeOK, NEW k, NEW p, IsLast(p, KvPositions(k))
             PROVE  RecoveredKv(k) = Record(p).value
  OBVIOUS
<1> DEFINE c == CHOOSE q \in KvPositions(k) : IsLast(q, KvPositions(k))
<1>1. p \in KvPositions(k)
  BY DEF IsLast
<1>2. IsLast(c, KvPositions(k))
  BY <1>1
<1>3. c = p
  BY <1>2, KvLast, LastUnique
<1> QED
  BY <1>1, <1>3 DEF RecoveredKv

LEMMA RecoveredType ==
    LogTypeOK /\ kvFile \in Entries =>
        \A k \in Key : RecoveredKv(k) \in Write \cup {NoEntry}
<1> SUFFICES ASSUME LogTypeOK, kvFile \in Entries, NEW k \in Key
             PROVE  RecoveredKv(k) \in Write \cup {NoEntry}
  OBVIOUS
<1>1. CASE KvPositions(k) = {}
  BY <1>1 DEF RecoveredKv, Entries
<1>2. CASE KvPositions(k) # {}
  <2>1. PICK p : IsLast(p, KvPositions(k))
    BY <1>2, KvLast
  <2>2. Record(p) \in Op /\ Record(p).kind \in {"KvPut", "KvDelete"}
    BY <2>1, PositionsType DEF IsLast, KvPositions
  <2>3. Record(p).value \in Write \cup {NoEntry}
    BY <2>2 DEF Op
  <2> QED
    BY <2>1, <2>3, RecoveredIsLast
<1> QED
  BY <1>1, <1>2

\* There are finitely many records.
LEMMA PositionsFinite == LogTypeOK => IsFiniteSet(Positions)
<1> SUFFICES ASSUME LogTypeOK PROVE IsFiniteSet(Positions)
  OBVIOUS
<1> DEFINE Of(g) == {<<g, i>> : i \in 1..Len(segs[g])}
           f == [g \in Generations |-> Of(g)]
<1>1. IsFiniteSet(Generations)
  <2>1. Generations \in SUBSET (1..gen) /\ gen \in Nat
    BY DEF LogTypeOK
  <2>2. IsFiniteSet(1..gen)
    BY <2>1, FS_Interval
  <2> QED
    BY <2>1, <2>2, FS_Subset
<1>2. ASSUME NEW g \in Generations PROVE IsFiniteSet(Of(g))
  <2> DEFINE h == [i \in 1..Len(segs[g]) |-> <<g, i>>]
  <2>1. Len(segs[g]) \in Nat
    BY LenProperties DEF LogTypeOK
  <2>2. IsFiniteSet(1..Len(segs[g]))
    BY <2>1, FS_Interval
  <2>3. h \in Surjection(1..Len(segs[g]), Of(g))
    BY DEF Surjection
  <2> QED
    BY <2>2, <2>3, FS_Surjection DEF ExistsSurjection
<1>3. IsFiniteSet({Of(g) : g \in Generations})
  <2>1. f \in Surjection(Generations, {Of(g) : g \in Generations})
    <3> HIDE DEF Of
    <3> QED
      BY DEF Surjection
  <2> QED
    BY <1>1, <2>1, FS_Surjection DEF ExistsSurjection
<1>4. IsFiniteSet(UNION {Of(g) : g \in Generations})
  BY <1>2, <1>3, FS_UNION
<1> QED
  BY <1>4 DEF Positions

LEMMA RecoveredTsType ==
    LogTypeOK /\ tsFile \in [Point -> Nat] => \A x \in Point : RecoveredTs(x) \in Nat
<1> SUFFICES ASSUME LogTypeOK, tsFile \in [Point -> Nat], NEW x \in Point
             PROVE  RecoveredTs(x) \in Nat
  OBVIOUS
<1>1. TsPositions(x) \in SUBSET Positions
  BY DEF TsPositions
<1>2. Cardinality(TsPositions(x)) \in Nat
  BY <1>1, PositionsFinite, FS_Subset, FS_CardinalityType
<1> QED
  BY <1>2 DEF RecoveredTs

-----------------------------------------------------------------------------
(* Type correctness.  The log's operations first, then the actions.        *)

LEMMA TypeAppendOp ==
    ASSUME LogTypeOK, NEW op \in Op, AppendOp(op) PROVE LogTypeOK'
<1>1. DOMAIN segs' = Generations /\ gen' = gen /\ synced' = synced
  BY DEF AppendOp, Generations
<1>2. segs[gen] \in Seq(Op) /\ segs'[gen] = Append(segs[gen], op)
  BY DEF AppendOp, LogTypeOK, Generations
<1>3. \A g \in Generations \ {gen} : segs'[g] = segs[g]
  BY DEF AppendOp, Generations
<1>4. segs'[gen] \in Seq(Op) /\ Len(segs'[gen]) = Len(segs[gen]) + 1
  BY <1>2, AppendProperties
<1>5. Len(segs[gen]) \in Nat
  BY <1>2, LenProperties
<1>6. ASSUME NEW g \in Generations
      PROVE  g \in 1..gen /\ segs'[g] \in Seq(Op) /\ synced[g] \in 0..Len(segs'[g])
  BY <1>3, <1>4, <1>5 DEF LogTypeOK
<1> QED
  BY <1>1, <1>6 DEF LogTypeOK, Generations

LEMMA TypeSyncData ==
    ASSUME LogTypeOK, SyncData PROVE LogTypeOK'
<1>1. Len(segs[gen]) \in Nat
  BY LenProperties DEF LogTypeOK
<1>2. segs' = segs /\ gen' = gen /\ DOMAIN synced' = Generations
  BY DEF SyncData, LogTypeOK
<1>3. ASSUME NEW g \in Generations PROVE synced'[g] \in 0..Len(segs[g])
  BY <1>1 DEF SyncData, LogTypeOK
<1> QED
  BY <1>2, <1>3 DEF LogTypeOK, Generations

LEMMA TypeRotate ==
    ASSUME LogTypeOK, Rotate PROVE LogTypeOK'
<1>1. /\ DOMAIN segs' = Generations \cup {gen + 1} /\ DOMAIN synced' = DOMAIN segs'
      /\ gen' = gen + 1 /\ gen \in Nat
  BY DEF Rotate, LogTypeOK
<1>2. \A g \in Generations : /\ g \in 1..gen /\ segs[g] \in Seq(Op) /\ Len(segs[g]) \in Nat
                             /\ synced[g] \in 0..Len(segs[g])
  BY LenProperties DEF LogTypeOK
<1>3. ASSUME NEW g \in Generations
      PROVE  g \in 1..gen' /\ segs'[g] \in Seq(Op) /\ synced'[g] \in 0..Len(segs'[g])
  <2>1. segs'[g] = segs[g] /\ synced'[g] \in {synced[g], Len(segs[g])}
    BY <1>1, <1>2 DEF Rotate
  <2> QED
    BY <1>1, <1>2, <2>1
<1>4. segs'[gen + 1] = <<>> /\ synced'[gen + 1] = 0
  BY DEF Rotate
<1>5. gen + 1 \in 1..gen' /\ segs'[gen + 1] \in Seq(Op) /\ synced'[gen + 1] \in 0..Len(segs'[gen + 1])
  BY <1>1, <1>4
<1> QED
  BY <1>1, <1>3, <1>5 DEF LogTypeOK, Generations

\* The generation being written is not among the ones a checkpoint covers.
LEMMA TypeRetireOldest ==
    ASSUME LogTypeOK, covered \in Nat, covered < gen, RetireOldest(covered) PROVE LogTypeOK'
<1>1. PICK g \in Generations :
        /\ g <= covered
        /\ segs' = [h \in Generations \ {g} |-> segs[h]]
        /\ synced' = [h \in Generations \ {g} |-> synced[h]]
        /\ gen' = gen
  BY DEF RetireOldest
<1>2. g # gen
  BY <1>1 DEF LogTypeOK
<1> QED
  BY <1>1, <1>2 DEF LogTypeOK, Generations

LEMMA TypeReopen ==
    ASSUME LogTypeOK, NEW left, Reopen(left),
           \A g \in Generations : left[g] \in Seq(Op),
           DOMAIN synced' = DOMAIN segs', synced'[gen + 1] = 0,
           \A g \in Generations : synced'[g] \in 0..Len(left[g])
    PROVE  LogTypeOK'
<1>1. DOMAIN segs' = Generations \cup {gen + 1} /\ gen' = gen + 1 /\ gen \in Nat
  BY DEF Reopen, LogTypeOK
<1>2. \A g \in Generations : g \in 1..gen
  BY DEF LogTypeOK
<1>3. \A g \in Generations : g \in 1..gen' /\ segs'[g] = left[g]
  BY <1>1, <1>2 DEF Reopen
<1>4. segs'[gen + 1] = <<>>
  BY DEF Reopen
<1>5. gen + 1 \in 1..gen' /\ segs'[gen + 1] \in Seq(Op) /\ synced'[gen + 1] \in 0..Len(segs'[gen + 1])
  BY <1>1, <1>4
<1> QED
  BY <1>1, <1>3, <1>5 DEF LogTypeOK, Generations

LEMMA TypeReopenAfterKill ==
    ASSUME LogTypeOK, ReopenAfterKill PROVE LogTypeOK'
<1>1. Reopen(segs) /\ DOMAIN segs' = Generations \cup {gen + 1}
  BY DEF ReopenAfterKill, Reopen
<1>2. DOMAIN synced' = DOMAIN segs' /\ synced'[gen + 1] = 0
  BY <1>1 DEF ReopenAfterKill
<1>3. \A g \in Generations : g # gen + 1 /\ segs[g] \in Seq(Op) /\ synced[g] \in 0..Len(segs[g])
  BY DEF LogTypeOK
<1>4. \A g \in Generations : synced'[g] = synced[g]
  BY <1>3 DEF ReopenAfterKill
<1> QED
  BY <1>1, <1>2, <1>3, <1>4, TypeReopen

LEMMA TypeReopenAfterPowerLoss ==
    ASSUME LogTypeOK, NEW left \in PowerLossOutcomes, ReopenAfterPowerLoss(left)
    PROVE  LogTypeOK'
<1>1. Reopen(left) /\ DOMAIN segs' = Generations \cup {gen + 1}
  BY DEF ReopenAfterPowerLoss, Reopen
<1>2. DOMAIN synced' = DOMAIN segs' /\ synced'[gen + 1] = 0
  BY <1>1 DEF ReopenAfterPowerLoss
<1>3. ASSUME NEW g \in Generations PROVE left[g] \in Seq(Op) /\ Len(left[g]) \in Nat
  <2>1. PICK f : /\ \A h \in Generations : f[h] \in synced[h]..Len(segs[h])
                 /\ left = [h \in Generations |-> SubSeq(segs[h], 1, f[h])]
    BY DEF PowerLossOutcomes
  <2> DEFINE n == f[g]
  <2>2. segs[g] \in Seq(Op) /\ Len(segs[g]) \in Nat /\ synced[g] \in 0..Len(segs[g])
    BY LenProperties DEF LogTypeOK
  <2>3. n \in 0..Len(segs[g]) /\ left[g] = SubSeq(segs[g], 1, n)
    BY <2>1, <2>2
  <2> HIDE DEF n
  <2>4. \A i \in 1..n : segs[g][i] \in Op
    BY <2>2, <2>3
  <2>5. left[g] \in Seq(Op)
    BY <2>2, <2>3, <2>4, SubSeqProperties
  <2> QED
    BY <2>5, LenProperties
<1>4. \A g \in Generations : g # gen + 1
  BY DEF LogTypeOK
<1>5. \A g \in Generations : synced'[g] = Len(left[g])
  BY <1>4 DEF ReopenAfterPowerLoss
<1>6. \A g \in Generations : synced'[g] \in 0..Len(left[g])
  BY <1>3, <1>5
<1> QED
  BY <1>1, <1>2, <1>3, <1>6, TypeReopen

LEMMA TypeInit == Init => TypeOK /\ CoveredClosed
<1> SUFFICES ASSUME Init PROVE TypeOK /\ CoveredClosed
  OBVIOUS
<1>1. LogTypeOK
  BY DEF Init, OpLogInit, LogTypeOK, Generations
<1>2. dirty = FALSE /\ syncer = "idle"
  BY DEF Init, OpLogInit
<1>3. /\ kv \in Entries /\ kvCopy \in Entries /\ kvFile \in Entries
      /\ recent \in [Key -> SUBSET (Write \cup {NoEntry})]
  BY DEF Init, Entries
<1>4. ts \in [Point -> Nat] /\ tsCopy \in [Point -> Nat] /\ tsFile \in [Point -> Nat]
  BY DEF Init
<1>5. /\ writes \in 0..MaxWrites /\ expired \subseteq 1..writes
      /\ points \in 0..MaxPoints /\ inFlight \subseteq 1..points
  BY RedoAssumption DEF Init
<1>6. pc = "idle" /\ covered = 0 /\ tsCovers = 0 /\ born = 1
  BY DEF Init
<1> QED
  BY <1>1, <1>2, <1>3, <1>4, <1>5, <1>6 DEF TypeOK, CoveredClosed

LEMMA TypeKvSet ==
    ASSUME TypeOK, CoveredClosed, NEW k \in Key, KvSet(k) PROVE TypeOK' /\ CoveredClosed'
<1>1. writes + 1 \in Write
  BY RedoAssumption DEF TypeOK, KvSet, Write
<1>2. KvPut(k, writes + 1) \in Op
  BY <1>1 DEF KvPut, Op
<1>3. LogTypeOK'
  BY <1>2, TypeAppendOp DEF TypeOK, KvSet
<1>4. kv' \in Entries /\ recent' \in [Key -> SUBSET (Write \cup {NoEntry})]
  BY <1>1 DEF TypeOK, KvSet, Remember, Entries
<1>5. dirty' \in BOOLEAN /\ syncer' = syncer /\ gen' = gen
  BY DEF KvSet, AppendOp
<1>6. writes' \in 0..MaxWrites /\ expired' \subseteq 1..writes'
  BY RedoAssumption DEF TypeOK, KvSet
<1> QED
  BY <1>3, <1>4, <1>5, <1>6
  DEF TypeOK, CoveredClosed, KvSet, Remember, checkpointVars, fileVars

LEMMA TypeKvDelete ==
    ASSUME TypeOK, CoveredClosed, NEW k \in Key, KvDelete(k) PROVE TypeOK' /\ CoveredClosed'
<1>1. KvRemove(k) \in Op
  BY DEF KvRemove, Op
<1>2. LogTypeOK'
  BY <1>1, TypeAppendOp DEF TypeOK, KvDelete
<1>3. kv' \in Entries /\ recent' \in [Key -> SUBSET (Write \cup {NoEntry})]
  BY DEF TypeOK, KvDelete, Remember, Entries
<1>4. dirty' \in BOOLEAN /\ syncer' = syncer /\ gen' = gen
  BY DEF KvDelete, AppendOp
<1> QED
  BY <1>2, <1>3, <1>4
  DEF TypeOK, CoveredClosed, KvDelete, Remember, checkpointVars, fileVars

LEMMA TypeLogKept ==
    ASSUME LogTypeOK, UNCHANGED <<segs, synced, gen>> PROVE LogTypeOK'
BY DEF LogTypeOK, Generations

LEMMA TypeWritePoints ==
    ASSUME TypeOK, CoveredClosed, WritePoints PROVE TypeOK' /\ CoveredClosed'
<1>1. LogTypeOK'
  BY TypeLogKept DEF TypeOK, WritePoints, logVars
<1>2. ts' \in [Point -> Nat]
  <2>1. points + 1 \in Point
    BY RedoAssumption DEF TypeOK, WritePoints, Point
  <2> QED
    BY <2>1 DEF TypeOK, WritePoints
<1>3. points' \in 0..MaxPoints /\ inFlight' \subseteq 1..points'
  BY RedoAssumption DEF TypeOK, WritePoints
<1> QED
  BY <1>1, <1>2, <1>3
  DEF TypeOK, CoveredClosed, WritePoints, logVars, checkpointVars, fileVars, historyVars

LEMMA TypeLogPoints ==
    ASSUME TypeOK, CoveredClosed, NEW x \in Point, LogPoints(x) PROVE TypeOK' /\ CoveredClosed'
<1>1. TsWrite(x) \in Op
  BY DEF TsWrite, Op
<1>2. LogTypeOK'
  BY <1>1, TypeAppendOp DEF TypeOK, LogPoints
<1>3. dirty' \in BOOLEAN /\ syncer' = syncer /\ gen' = gen
  BY DEF LogPoints, AppendOp
<1> QED
  BY <1>2, <1>3
  DEF TypeOK, CoveredClosed, LogPoints, checkpointVars, fileVars, historyVars

LEMMA TypeSettle ==
    ASSUME TypeOK, Settle
    PROVE  recent' \in [Key -> SUBSET (Write \cup {NoEntry})] /\ born' = born
BY DEF TypeOK, Settle, Entries

LEMMA TypeSync ==
    ASSUME TypeOK, CoveredClosed, Sync PROVE TypeOK' /\ CoveredClosed'
<1>1. CASE SyncSwap /\ UNCHANGED historyVars
  <2>1. LogTypeOK'
    BY <1>1, TypeLogKept DEF TypeOK, SyncSwap
  <2> QED
    BY <1>1, <2>1
    DEF TypeOK, CoveredClosed, Sync, SyncSwap, engineVars, checkpointVars, fileVars, historyVars
<1>2. CASE SyncData /\ Settle
  <2>1. LogTypeOK'
    BY <1>2, TypeSyncData DEF TypeOK
  <2> QED
    BY <1>2, <2>1, TypeSettle
    DEF TypeOK, CoveredClosed, Sync, SyncData, engineVars, checkpointVars, fileVars
<1> QED
  BY <1>1, <1>2 DEF Sync

LEMMA TypeCut ==
    ASSUME TypeOK, CoveredClosed, Cut PROVE TypeOK' /\ CoveredClosed'
<1>1. LogTypeOK' /\ gen' = gen + 1 /\ dirty' = dirty /\ syncer' = syncer
  BY TypeRotate DEF TypeOK, Cut, Rotate
<1>2. recent' \in [Key -> SUBSET (Write \cup {NoEntry})] /\ born' = born
  BY TypeSettle DEF Cut
<1>3. covered' = gen /\ gen \in Nat
  BY DEF Cut, TypeOK, LogTypeOK
<1> QED
  BY <1>1, <1>2, <1>3 DEF TypeOK, CoveredClosed, Cut, engineVars, fileVars

LEMMA TypeCheckpointStep ==
    ASSUME TypeOK, CoveredClosed, Capture \/ ListKv \/ SaveKv \/ SaveTs
    PROVE  TypeOK' /\ CoveredClosed'
<1>1. LogTypeOK'
  BY TypeLogKept DEF TypeOK, Capture, CutClean, ListKv, SaveKv, SaveTs, logVars
<1>2. CASE Capture
  BY <1>1, <1>2 DEF TypeOK, CoveredClosed, Capture, CutClean, engineVars, fileVars, historyVars
<1>3. CASE ListKv
  <2>1. kvCopy' \in Entries
    BY <1>3 DEF TypeOK, ListKv, Entries, Visible
  <2> QED
    BY <1>1, <1>3, <2>1
    DEF TypeOK, CoveredClosed, ListKv, logVars, engineVars, fileVars, historyVars
<1>4. CASE SaveKv
  BY <1>1, <1>4 DEF TypeOK, CoveredClosed, SaveKv, logVars, engineVars, historyVars
<1>5. CASE SaveTs
  BY <1>1, <1>5 DEF TypeOK, CoveredClosed, SaveTs, logVars, engineVars, historyVars
<1> QED
  BY <1>2, <1>3, <1>4, <1>5

LEMMA TypeRetire ==
    ASSUME TypeOK, CoveredClosed, Retire PROVE TypeOK' /\ CoveredClosed'
<1>1. LogTypeOK'
  BY TypeRetireOldest DEF TypeOK, CoveredClosed, Retire
<1>2. gen' = gen /\ dirty' = dirty /\ syncer' = syncer
  BY DEF Retire, RetireOldest
<1> QED
  BY <1>1, <1>2
  DEF TypeOK, CoveredClosed, Retire, engineVars, checkpointVars, fileVars, historyVars

LEMMA TypeReturn ==
    ASSUME Return
    PROVE  pc' = "idle" /\ covered' = 0 /\ kvCopy' \in Entries /\ tsCopy' \in [Point -> Nat]
BY DEF Return, Entries, NoEntry

LEMMA TypeReturns ==
    ASSUME TypeOK, CoveredClosed, RetireDone \/ CheckpointError PROVE TypeOK' /\ CoveredClosed'
<1>1. LogTypeOK' /\ Return
  BY TypeLogKept DEF TypeOK, RetireDone, CheckpointError, logVars
<1>2. UNCHANGED <<logVars, engineVars, fileVars, historyVars>>
  BY DEF RetireDone, CheckpointError
<1> QED
  BY <1>1, <1>2, TypeReturn
  DEF TypeOK, CoveredClosed, logVars, engineVars, fileVars, historyVars

\* What replay rebuilds has its type, in the state the process restarts in.
LEMMA TypeRestart ==
    ASSUME TypeOK, LogTypeOK', Restart, dirty' = FALSE, syncer' = "idle", born' \in Nat,
           recent' = recent \/ recent' = [k \in Key |-> {kv'[k]}]
    PROVE  TypeOK' /\ CoveredClosed'
<1>1. kvFile' = kvFile /\ tsFile' = tsFile /\ tsCovers' = tsCovers
  BY DEF Restart, fileVars
<1>2. (LogTypeOK /\ kvFile \in Entries =>
            \A k \in Key : RecoveredKv(k) \in Write \cup {NoEntry})'
  BY RecoveredType, PTL
<1>3. (LogTypeOK /\ tsFile \in [Point -> Nat] => \A x \in Point : RecoveredTs(x) \in Nat)'
  BY RecoveredTsType, PTL
<1>4. \A k \in Key : RecoveredKv(k)' \in Write \cup {NoEntry}
  BY <1>1, <1>2 DEF TypeOK
<1>5. \A x \in Point : RecoveredTs(x)' \in Nat
  BY <1>1, <1>3 DEF TypeOK
<1>6. kv' \in Entries
  BY <1>4 DEF Restart, Entries
<1>7. ts' \in [Point -> Nat]
  BY <1>5 DEF Restart
<1>8. recent' \in [Key -> SUBSET (Write \cup {NoEntry})]
  BY <1>6 DEF TypeOK, Entries
<1>9. pc' = "idle" /\ covered' = 0 /\ kvCopy' \in Entries /\ tsCopy' \in [Point -> Nat]
  BY TypeReturn DEF Restart
<1>10. /\ writes' \in 0..MaxWrites /\ expired' \subseteq 1..writes'
       /\ points' \in 0..MaxPoints /\ inFlight' \subseteq 1..points'
  BY DEF TypeOK, Restart
<1>11. kvFile' \in Entries /\ tsFile' \in [Point -> Nat] /\ tsCovers' \in Nat
  BY <1>1 DEF TypeOK
<1> QED
  BY <1>6, <1>7, <1>8, <1>9, <1>10, <1>11 DEF TypeOK, CoveredClosed

LEMMA TypeNext == TypeOK /\ CoveredClosed /\ [Next]_vars => TypeOK' /\ CoveredClosed'
<1> SUFFICES ASSUME TypeOK, CoveredClosed, [Next]_vars PROVE TypeOK' /\ CoveredClosed'
  OBVIOUS
<1>1. ASSUME NEW k \in Key, KvGet(k) PROVE TypeOK' /\ CoveredClosed'
  <2>1. LogTypeOK'
    BY <1>1, TypeLogKept DEF TypeOK, KvGet, logVars
  <2>2. kv' \in Entries
    BY <1>1 DEF TypeOK, KvGet, Entries
  <2> QED
    BY <1>1, <2>1, <2>2
    DEF TypeOK, CoveredClosed, KvGet, logVars, checkpointVars, fileVars, historyVars
<1>2. ASSUME NEW w \in TtlWrites, Expire(w) PROVE TypeOK' /\ CoveredClosed'
  <2>1. LogTypeOK'
    BY <1>2, TypeLogKept DEF TypeOK, Expire, logVars
  <2> QED
    BY <1>2, <2>1
    DEF TypeOK, CoveredClosed, Expire, logVars, checkpointVars, fileVars, historyVars
<1>3. CASE Kill
  <2>1. LogTypeOK' /\ dirty' = FALSE /\ syncer' = "idle"
    BY <1>3, TypeReopenAfterKill DEF TypeOK, Kill, ReopenAfterKill, Reopen
  <2>2. Restart /\ recent' = recent /\ born' \in Nat
    BY <1>3 DEF Kill, TypeOK, LogTypeOK
  <2> QED
    BY <2>1, <2>2, TypeRestart
<1>4. CASE PowerLoss
  <2>1. PICK left \in PowerLossOutcomes : ReopenAfterPowerLoss(left)
    BY <1>4 DEF PowerLoss
  <2>2. LogTypeOK' /\ dirty' = FALSE /\ syncer' = "idle"
    BY <2>1, TypeReopenAfterPowerLoss DEF TypeOK, ReopenAfterPowerLoss, Reopen
  <2>3. Restart /\ recent' = [k \in Key |-> {kv'[k]}] /\ born' \in Nat
    BY <1>4 DEF PowerLoss, TypeOK, LogTypeOK
  <2> QED
    BY <2>2, <2>3, TypeRestart
<1>5. CASE UNCHANGED vars
  <2>1. LogTypeOK'
    BY <1>5, TypeLogKept DEF TypeOK, vars, logVars
  <2> QED
    BY <1>5, <2>1
    DEF TypeOK, CoveredClosed, vars, logVars, engineVars, checkpointVars, fileVars, historyVars
<1> QED
  BY <1>1, <1>2, <1>3, <1>4, <1>5, TypeKvSet, TypeKvDelete, TypeWritePoints, TypeLogPoints,
     TypeSync, TypeCut, TypeCheckpointStep, TypeRetire, TypeReturns
  DEF Next

\* Memory, checkpoint files and redo log keep their types through every
\* interleaving of requests, fsyncs, checkpoints, kills and power losses; in
\* particular a checkpoint never deletes the segment being written (retire in
\* oplog.rs, called at the end of save_to_disk).
THEOREM RedoTypeCorrect == Spec => []TypeOK
<1>1. TypeOK /\ CoveredClosed /\ [Next]_vars => TypeOK' /\ CoveredClosed'
  BY TypeNext
<1> QED
  BY TypeInit, <1>1, PTL DEF Spec

-----------------------------------------------------------------------------
(* Recovery of the key-value store.  First what the log's operations do to *)
(* the records of a key.                                                   *)

LEMMA RecoveredIsLastNext ==
    (LogTypeOK => \A k, p : IsLast(p, KvPositions(k)) => RecoveredKv(k) = Record(p).value)'
BY RecoveredIsLast, PTL

\* Replay gives the same value from the same records and the same file.
LEMMA RecoveredKept ==
    ASSUME LogTypeOK, LogTypeOK', NEW k, KvPositions(k)' = KvPositions(k),
           \A p \in KvPositions(k) : Record(p)' = Record(p), kvFile'[k] = kvFile[k]
    PROVE  RecoveredKv(k)' = RecoveredKv(k)
<1>1. CASE KvPositions(k) = {}
  BY <1>1 DEF RecoveredKv
<1>2. CASE KvPositions(k) # {}
  <2>1. PICK p : IsLast(p, KvPositions(k))
    BY <1>2, KvLast
  <2>2. LogTypeOK' => \A j, r : IsLast(r, KvPositions(j)') => RecoveredKv(j)' = Record(r)'.value
    BY RecoveredIsLastNext
  <2>3. IsLast(p, KvPositions(k)')
    BY <2>1
  <2>4. RecoveredKv(k)' = Record(p)'.value
    BY <2>2, <2>3
  <2>5. p \in KvPositions(k)
    BY <2>1 DEF IsLast
  <2> QED
    BY <2>1, <2>4, <2>5, RecoveredIsLast
<1> QED
  BY <1>1, <1>2

\* Segment files that are left alone hold the same records, and a new, empty
\* one adds none.
LEMMA SegmentsKept ==
    ASSUME LogTypeOK, UNCHANGED segs \/ Rotate
    PROVE  Positions' = Positions /\ \A p \in Positions : Record(p)' = Record(p)
<1>1. CASE UNCHANGED segs
  BY <1>1 DEF Positions, Generations, Record
<1>2. CASE Rotate
  <2>1. DOMAIN segs' = DOMAIN segs \cup {gen + 1} /\ segs'[gen + 1] = <<>>
    BY <1>2 DEF Rotate, Generations
  <2>2. \A g \in DOMAIN segs : segs'[g] = segs[g]
    BY <1>2 DEF Rotate, LogTypeOK, Generations
  <2>3. Segmented(segs, gen, Op) /\ Positions = Places(segs)
    BY LogIsSegmented
  <2>4. /\ Places(segs') = Places(segs)
        /\ \A p \in Places(segs) : segs'[p[1]][p[2]] = segs[p[1]][p[2]]
    BY <2>1, <2>2, <2>3, SegmentOpened
  <2> QED
    BY <2>3, <2>4 DEF Positions, Places, Generations, Record
<1> QED
  BY <1>1, <1>2

LEMMA PositionsKept ==
    ASSUME LogTypeOK, UNCHANGED segs \/ Rotate
    PROVE  \A k : /\ KvPositions(k)' = KvPositions(k)
                  /\ \A p \in KvPositions(k) : Record(p)' = Record(p)
BY SegmentsKept DEF KvPositions

\* An append adds one record, after all the others.
LEMMA AppendPositions ==
    ASSUME LogTypeOK, NEW op \in Op, AppendOp(op)
    PROVE  \E new \in Nat \X Nat :
                /\ new[1] = gen /\ new \notin Positions /\ new[2] > synced[gen]
                /\ Positions' = Positions \cup {new}
                /\ Record(new)' = op
                /\ \A p \in Positions : Record(p)' = Record(p) /\ ~ Before(new, p)
<1>1. Segmented(segs, gen, Op) /\ Positions = Places(segs) /\ gen \in DOMAIN segs
  BY LogIsSegmented
<1>2. /\ DOMAIN segs' = DOMAIN segs /\ segs'[gen] = Append(segs[gen], op)
      /\ \A g \in DOMAIN segs \ {gen} : segs'[g] = segs[g]
  BY <1>1 DEF AppendOp
<1> DEFINE new == <<gen, Len(segs[gen]) + 1>>
<1>3. /\ new \in Nat \X Nat /\ new[1] = gen /\ new[2] = Len(segs[gen]) + 1 /\ new \notin Places(segs)
      /\ Places(segs') = Places(segs) \cup {new}
      /\ segs'[new[1]][new[2]] = op
      /\ \A p \in Places(segs) : segs'[p[1]][p[2]] = segs[p[1]][p[2]] /\ ~ Earlier(new, p)
  BY <1>1, <1>2, RecordAppended
<1> HIDE DEF new
<1>4. new[2] > synced[gen]
  <2>1. synced[gen] \in 0..Len(segs[gen]) /\ Len(segs[gen]) \in Nat
    BY <1>1, LenProperties DEF LogTypeOK, Generations
  <2> QED
    BY <1>3, <2>1
<1>5. Positions' = Places(segs')
  BY DEF Positions, Places, Generations
<1> QED
  BY <1>1, <1>3, <1>4, <1>5 DEF Record, Before, Earlier

\* The records of a key an append is not about.
LEMMA AppendElsewhere ==
    ASSUME LogTypeOK, NEW op \in Op, AppendOp(op),
           NEW k, ~ (op.kind \in {"KvPut", "KvDelete"} /\ op.key = k)
    PROVE  /\ KvPositions(k)' = KvPositions(k)
           /\ \A p \in KvPositions(k) : Record(p)' = Record(p)
<1>1. PICK new \in Nat \X Nat :
                /\ Positions' = Positions \cup {new}
                /\ Record(new)' = op
                /\ \A p \in Positions : Record(p)' = Record(p)
  BY AppendPositions
<1> QED
  BY <1>1 DEF KvPositions

\* The records of a key an append is about: its record is the last, and newer
\* than any generation that was closed.
LEMMA AppendHere ==
    ASSUME LogTypeOK, LogTypeOK', NEW op \in Op, AppendOp(op),
           op.kind \in {"KvPut", "KvDelete"}
    PROVE  /\ RecoveredKv(op.key)' = op.value
           /\ \E p \in KvPositions(op.key)' : p[1] = gen
<1>1. PICK new \in Nat \X Nat :
                /\ new[1] = gen
                /\ Positions' = Positions \cup {new}
                /\ Record(new)' = op
                /\ \A p \in Positions : Record(p)' = Record(p) /\ ~ Before(new, p)
  BY AppendPositions
<1>2. new \in KvPositions(op.key)' /\ KvPositions(op.key)' \subseteq Positions \cup {new}
  BY <1>1 DEF KvPositions
<1>3. ~ Before(new, new)
  BY <1>1 DEF Before
<1>4. IsLast(new, KvPositions(op.key)')
  BY <1>1, <1>2, <1>3 DEF IsLast
<1>5. LogTypeOK' => \A j, r : IsLast(r, KvPositions(j)') => RecoveredKv(j)' = Record(r)'.value
  BY RecoveredIsLastNext
<1>6. RecoveredKv(op.key)' = Record(new)'.value
  BY <1>4, <1>5
<1> QED
  BY <1>1, <1>2, <1>6

\* Deleting a generation takes its records away and no other.
LEMMA SegmentDeleted ==
    ASSUME LogTypeOK, NEW g \in Generations, segs' = [h \in Generations \ {g} |-> segs[h]]
    PROVE  /\ \A p : p \in Positions' <=> p \in Positions /\ p[1] # g
           /\ \A p \in Positions : p[1] # g => Record(p)' = Record(p)
<1>1. Segmented(segs, gen, Op) /\ Positions = Places(segs) /\ g \in DOMAIN segs
  BY LogIsSegmented DEF Generations
<1>2. /\ \A p : p \in Places(segs') <=> p \in Places(segs) /\ p[1] # g
      /\ \A p \in Places(segs) : p[1] # g => segs'[p[1]][p[2]] = segs[p[1]][p[2]]
  BY <1>1, SegmentRemoved DEF Generations
<1>3. Positions' = Places(segs')
  BY DEF Positions, Places, Generations
<1> QED
  BY <1>1, <1>2, <1>3 DEF Record

\* Deleting the oldest generation leaves the last record of a key, or none.
LEMMA RetirePositions ==
    ASSUME LogTypeOK, LogTypeOK', covered \in Nat, RetireOldest(covered), kvFile' = kvFile, NEW k
    PROVE  /\ \/ KvPositions(k)' # {} /\ RecoveredKv(k)' = RecoveredKv(k)
              \/ /\ RecoveredKv(k)' = kvFile[k]
                 /\ \A p \in KvPositions(k) : p[1] <= covered
           /\ \A p \in KvPositions(k) : p[1] <= covered \/ p \in KvPositions(k)'
<1>1. PICK g \in Generations :
        /\ g <= covered
        /\ \A h \in Generations : g <= h
        /\ segs' = [h \in Generations \ {g} |-> segs[h]]
  BY DEF RetireOldest
<1>2. \A p : p \in Positions' <=> p \in Positions /\ p[1] # g
  BY <1>1, SegmentDeleted
<1>3. \A p \in Positions : p[1] # g => Record(p)' = Record(p)
  BY <1>1, SegmentDeleted
<1>4. ASSUME NEW p PROVE p \in KvPositions(k)' <=> p \in KvPositions(k) /\ p[1] # g
  BY <1>2, <1>3 DEF KvPositions
<1>5. \A p \in KvPositions(k) : p[1] <= covered \/ p \in KvPositions(k)'
  BY <1>1, <1>4
<1>6. CASE KvPositions(k)' = {}
  <2>1. RecoveredKv(k)' = kvFile[k]
    BY <1>6 DEF RecoveredKv
  <2> QED
    BY <1>5, <1>6, <2>1
<1>7. CASE KvPositions(k)' # {}
  <2>1. PICK q : q \in KvPositions(k)'
    BY <1>7
  <2>2. q \in KvPositions(k) /\ q[1] # g
    BY <1>4, <2>1
  <2>3. PICK p : IsLast(p, KvPositions(k))
    BY <2>2, KvLast
  <2>4. p \in Positions /\ q \in Positions /\ p \in KvPositions(k) /\ ~ Before(p, q)
    BY <2>2, <2>3 DEF IsLast, KvPositions
  <2>5. p[1] # g
    <3>1. p[1] \in Nat /\ q[1] \in Nat /\ g <= q[1] /\ g \in Nat
      BY <1>1, <2>4, PositionsType DEF LogTypeOK
    <3> QED
      BY <2>2, <2>4, <3>1 DEF Before
  <2>6. IsLast(p, KvPositions(k)')
    BY <1>4, <2>3, <2>5 DEF IsLast
  <2>7. LogTypeOK' => \A j, r : IsLast(r, KvPositions(j)') => RecoveredKv(j)' = Record(r)'.value
    BY RecoveredIsLastNext
  <2>8. RecoveredKv(k)' = Record(p)'.value
    BY <2>6, <2>7
  <2>9. RecoveredKv(k) = Record(p).value
    BY <2>3, RecoveredIsLast
  <2> QED
    BY <1>3, <1>5, <1>7, <2>4, <2>5, <2>8, <2>9
<1> QED
  BY <1>6, <1>7

\* A step that changes neither what the log says of any key, nor the store, nor
\* its file.
LEMMA RecoveredQuiet ==
    ASSUME LogTypeOK, LogTypeOK', KvRecovered, UNCHANGED <<kv, expired, kvFile>>,
           \A k : /\ KvPositions(k)' = KvPositions(k)
                  /\ \A p \in KvPositions(k) : Record(p)' = Record(p)
    PROVE  KvRecovered'
<1>1. \A k \in Key : RecoveredKv(k)' = RecoveredKv(k)
  BY RecoveredKept
<1> QED
  BY <1>1 DEF KvRecovered, Visible

LEMMA CopyQuiet ==
    ASSUME CopyCurrent, UNCHANGED <<kv, expired, pc, covered, kvCopy>>,
           \A k : KvPositions(k)' = KvPositions(k)
    PROVE  CopyCurrent'
BY DEF CopyCurrent, Visible

\* A set or a delete: the record is the last of its key and newer than the cut.
LEMMA RecoveredMutation ==
    ASSUME TypeOK, TypeOK', KvInv, NEW op \in Op, op.kind \in {"KvPut", "KvDelete"}, AppendOp(op),
           op.key \in Key, kv' = [kv EXCEPT ![op.key] = op.value],
           UNCHANGED <<expired, checkpointVars, fileVars>>
    PROVE  KvRecovered' /\ CopyCurrent' /\ FileIsCopy'
<1>1. LogTypeOK /\ LogTypeOK' /\ kv \in Entries
  BY DEF TypeOK
<1>2. kv'[op.key] = op.value /\ \A k \in Key \ {op.key} : kv'[k] = kv[k]
  BY <1>1 DEF Entries
<1>3. RecoveredKv(op.key)' = op.value /\ \E p \in KvPositions(op.key)' : p[1] = gen
  BY <1>1, AppendHere
<1>4. ASSUME NEW k \in Key, k # op.key
      PROVE  KvPositions(k)' = KvPositions(k) /\ RecoveredKv(k)' = RecoveredKv(k)
  <2>1. /\ KvPositions(k)' = KvPositions(k)
        /\ \A p \in KvPositions(k) : Record(p)' = Record(p)
    BY <1>1, <1>4, AppendElsewhere
  <2> QED
    BY <1>1, <2>1, RecoveredKept DEF fileVars
<1>5. KvRecovered'
  <2> SUFFICES ASSUME NEW k \in Key PROVE Visible(RecoveredKv(k))' = Visible(kv[k])'
    BY DEF KvRecovered
  <2>1. CASE k = op.key
    BY <1>2, <1>3, <2>1 DEF Visible
  <2>2. CASE k # op.key
    BY <1>2, <1>4, <2>2 DEF Visible, KvInv, KvRecovered
  <2> QED
    BY <2>1, <2>2
<1>6. CopyCurrent'
  <2> SUFFICES ASSUME pc' \in {"listed", "kvSaved", "retire"}, NEW k \in Key,
                      \A p \in KvPositions(k)' : p[1] <= covered'
               PROVE  Visible(kvCopy[k])' = Visible(kv[k])'
    BY DEF CopyCurrent
  <2>1. covered' = covered /\ pc' = pc /\ kvCopy' = kvCopy
    BY DEF checkpointVars
  <2>2. covered < gen /\ covered \in Nat /\ gen \in Nat
    BY <2>1 DEF KvInv, CoveredClosed, TypeOK, LogTypeOK
  <2>3. k # op.key
    BY <1>3, <2>1, <2>2
  <2>4. Visible(kvCopy[k]) = Visible(kv[k])
    BY <1>4, <2>1, <2>3 DEF KvInv, CopyCurrent
  <2> QED
    BY <1>2, <2>1, <2>3, <2>4 DEF Visible
<1>7. FileIsCopy'
  BY DEF KvInv, FileIsCopy, checkpointVars, fileVars
<1> QED
  BY <1>5, <1>6, <1>7

LEMMA RecoveredKvSet ==
    ASSUME TypeOK, TypeOK', KvInv, NEW k \in Key, KvSet(k)
    PROVE  KvRecovered' /\ CopyCurrent' /\ FileIsCopy'
<1>1. writes + 1 \in Write
  BY RedoAssumption DEF TypeOK, KvSet, Write
<1>2. PICK op : op = KvPut(k, writes + 1)
  OBVIOUS
<1>3. op \in Op /\ op.kind = "KvPut" /\ op.key = k /\ op.value = writes + 1
  BY <1>1, <1>2 DEF KvPut, Op
<1> QED
  BY <1>2, <1>3, RecoveredMutation DEF KvSet

LEMMA RecoveredKvDelete ==
    ASSUME TypeOK, TypeOK', KvInv, NEW k \in Key, KvDelete(k)
    PROVE  KvRecovered' /\ CopyCurrent' /\ FileIsCopy'
<1>1. PICK op : op = KvRemove(k)
  OBVIOUS
<1>2. op \in Op /\ op.kind = "KvDelete" /\ op.key = k /\ op.value = NoEntry
  BY <1>1 DEF KvRemove, Op
<1> QED
  BY <1>1, <1>2, RecoveredMutation DEF KvDelete

LEMMA RecoveredLogPoints ==
    ASSUME TypeOK, TypeOK', KvInv, NEW x \in Point, LogPoints(x)
    PROVE  KvRecovered' /\ CopyCurrent' /\ FileIsCopy'
<1>1. PICK op : op = TsWrite(x)
  OBVIOUS
<1>2. op \in Op /\ op.kind = "TsWrite" /\ AppendOp(op)
  BY <1>1 DEF TsWrite, Op, LogPoints
<1>3. LogTypeOK /\ LogTypeOK'
  BY DEF TypeOK
<1>4. \A k : /\ KvPositions(k)' = KvPositions(k)
             /\ \A p \in KvPositions(k) : Record(p)' = Record(p)
  BY <1>2, <1>3, AppendElsewhere
<1>5. UNCHANGED <<kv, expired, checkpointVars, fileVars>>
  BY DEF LogPoints
<1>6. UNCHANGED <<kv, expired, kvFile, pc, covered, kvCopy>>
  BY <1>5 DEF checkpointVars, fileVars
<1> QED
  BY <1>3, <1>4, <1>6, RecoveredQuiet, CopyQuiet DEF KvInv, FileIsCopy

\* The TTL of a write elapses, or get evicts what has expired: entries a reader
\* could not tell apart stay so.
LEMMA RecoveredExpire ==
    ASSUME TypeOK, TypeOK', KvInv, NEW w, Expire(w)
    PROVE  KvRecovered' /\ CopyCurrent' /\ FileIsCopy'
<1>1. /\ expired' = expired \cup {w} /\ NoEntry \notin expired
      /\ UNCHANGED <<segs, kv, kvFile, pc, covered, kvCopy>>
  BY DEF Expire, logVars, checkpointVars, fileVars, TypeOK, NoEntry
<1>2. ASSUME NEW a, NEW b, Visible(a) = Visible(b)
      PROVE  (IF a \in expired' THEN NoEntry ELSE a) = (IF b \in expired' THEN NoEntry ELSE b)
  BY <1>1, <1>2 DEF Visible
<1>3. LogTypeOK /\ LogTypeOK'
  BY DEF TypeOK
<1>4. \A k : /\ KvPositions(k)' = KvPositions(k)
             /\ \A p \in KvPositions(k) : Record(p)' = Record(p)
  BY <1>1, <1>3, PositionsKept
<1>5. \A k \in Key : RecoveredKv(k)' = RecoveredKv(k)
  BY <1>1, <1>3, <1>4, RecoveredKept
<1>6. KvRecovered'
  <2> SUFFICES ASSUME NEW k \in Key PROVE Visible(RecoveredKv(k))' = Visible(kv[k])'
    BY DEF KvRecovered
  <2>1. Visible(RecoveredKv(k)) = Visible(kv[k])
    BY DEF KvInv, KvRecovered
  <2> QED
    BY <1>1, <1>2, <1>5, <2>1 DEF Visible
<1>7. CopyCurrent'
  <2> SUFFICES ASSUME pc' \in {"listed", "kvSaved", "retire"}, NEW k \in Key,
                      \A p \in KvPositions(k)' : p[1] <= covered'
               PROVE  Visible(kvCopy[k])' = Visible(kv[k])'
    BY DEF CopyCurrent
  <2>1. Visible(kvCopy[k]) = Visible(kv[k])
    BY <1>1, <1>4 DEF KvInv, CopyCurrent
  <2> QED
    BY <1>1, <1>2, <2>1 DEF Visible
<1>8. FileIsCopy'
  BY <1>1 DEF KvInv, FileIsCopy
<1> QED
  BY <1>6, <1>7, <1>8

LEMMA RecoveredKvGet ==
    ASSUME TypeOK, TypeOK', KvInv, NEW k \in Key, KvGet(k)
    PROVE  KvRecovered' /\ CopyCurrent' /\ FileIsCopy'
<1>1. /\ NoEntry \notin expired /\ kv[k] \in expired /\ kv' = [kv EXCEPT ![k] = NoEntry]
      /\ UNCHANGED <<segs, expired, kvFile, pc, covered, kvCopy>>
  BY DEF KvGet, logVars, checkpointVars, fileVars, TypeOK, NoEntry
<1>2. \A j \in Key : Visible(kv[j])' = Visible(kv[j])
  BY <1>1 DEF Visible, TypeOK, Entries
<1>3. LogTypeOK /\ LogTypeOK'
  BY DEF TypeOK
<1>4. \A j : /\ KvPositions(j)' = KvPositions(j)
             /\ \A p \in KvPositions(j) : Record(p)' = Record(p)
  BY <1>1, <1>3, PositionsKept
<1>5. \A j \in Key : RecoveredKv(j)' = RecoveredKv(j)
  BY <1>1, <1>3, <1>4, RecoveredKept
<1>6. KvRecovered'
  BY <1>1, <1>2, <1>5 DEF KvInv, KvRecovered, Visible
<1>7. CopyCurrent'
  BY <1>1, <1>2, <1>4 DEF KvInv, CopyCurrent, Visible
<1>8. FileIsCopy'
  BY <1>1 DEF KvInv, FileIsCopy
<1> QED
  BY <1>6, <1>7, <1>8

\* Steps that leave the store, its file and the records of every key alone and
\* either the checkpoint too, or it is not past the listing.
LEMMA RecoveredAside ==
    ASSUME TypeOK, TypeOK', KvInv, UNCHANGED <<kv, expired, kvFile>>, UNCHANGED segs \/ Rotate,
           \/ UNCHANGED <<pc, covered, kvCopy>>
           \/ pc' \notin {"listed", "kvSaved", "retire"}
    PROVE  KvRecovered' /\ CopyCurrent' /\ FileIsCopy'
<1>1. LogTypeOK /\ LogTypeOK'
  BY DEF TypeOK
<1>2. \A k : /\ KvPositions(k)' = KvPositions(k)
             /\ \A p \in KvPositions(k) : Record(p)' = Record(p)
  BY <1>1, PositionsKept
<1>3. KvRecovered'
  BY <1>1, <1>2, RecoveredQuiet DEF KvInv
<1>4. CASE UNCHANGED <<pc, covered, kvCopy>>
  BY <1>2, <1>3, <1>4, CopyQuiet DEF KvInv, FileIsCopy
<1>5. CASE pc' \notin {"listed", "kvSaved", "retire"}
  BY <1>3, <1>5 DEF CopyCurrent, FileIsCopy
<1> QED
  BY <1>4, <1>5

\* The copy is what a reader sees at this moment.
LEMMA RecoveredListKv ==
    ASSUME TypeOK, TypeOK', KvInv, ListKv
    PROVE  KvRecovered' /\ CopyCurrent' /\ FileIsCopy'
<1>1. LogTypeOK /\ LogTypeOK'
  BY DEF TypeOK
<1>2. /\ UNCHANGED <<segs, kv, expired, kvFile>> /\ pc' = "listed"
      /\ kvCopy' = [k \in Key |-> Visible(kv[k])] /\ NoEntry \notin expired
  BY DEF ListKv, logVars, engineVars, fileVars, TypeOK, NoEntry
<1>3. KvRecovered'
  BY <1>1, <1>2, PositionsKept, RecoveredQuiet DEF KvInv
<1>4. CopyCurrent'
  BY <1>2 DEF CopyCurrent, Visible
<1> QED
  BY <1>2, <1>3, <1>4 DEF FileIsCopy

\* The file becomes the copy: it decides only for a key without a record, and
\* the copy of such a key is current.
LEMMA RecoveredSaveKv ==
    ASSUME TypeOK, TypeOK', KvInv, SaveKv
    PROVE  KvRecovered' /\ CopyCurrent' /\ FileIsCopy'
<1>1. LogTypeOK /\ LogTypeOK'
  BY DEF TypeOK
<1>2. /\ UNCHANGED <<segs, kv, expired, covered, kvCopy>>
      /\ pc = "listed" /\ pc' = "kvSaved" /\ kvFile' = kvCopy
  BY DEF SaveKv, logVars, engineVars
<1>3. \A k : /\ KvPositions(k)' = KvPositions(k)
             /\ \A p \in KvPositions(k) : Record(p)' = Record(p)
  BY <1>1, <1>2, PositionsKept
<1>4. ASSUME NEW k \in Key PROVE Visible(RecoveredKv(k))' = Visible(kv[k])'
  <2>1. CASE KvPositions(k) = {}
    <3>1. RecoveredKv(k)' = kvCopy[k]
      BY <1>2, <1>3, <2>1 DEF RecoveredKv
    <3>2. Visible(kvCopy[k]) = Visible(kv[k])
      BY <1>2, <2>1 DEF KvInv, CopyCurrent
    <3> QED
      BY <1>2, <3>1, <3>2 DEF Visible
  <2>2. CASE KvPositions(k) # {}
    <3>1. PICK p : IsLast(p, KvPositions(k))
      BY <1>1, <2>2, KvLast
    <3>2. RecoveredKv(k) = Record(p).value
      BY <1>1, <3>1, RecoveredIsLast
    <3>3. IsLast(p, KvPositions(k)') /\ Record(p)' = Record(p)
      BY <1>3, <3>1 DEF IsLast
    <3>4. RecoveredKv(k)' = Record(p)'.value
      BY <1>1, <3>3, RecoveredIsLastNext
    <3> QED
      BY <1>2, <3>2, <3>3, <3>4 DEF KvInv, KvRecovered, Visible
  <2> QED
    BY <2>1, <2>2
<1>5. KvRecovered'
  BY <1>4 DEF KvRecovered
<1>6. CopyCurrent'
  BY <1>2, <1>3 DEF KvInv, CopyCurrent, Visible
<1> QED
  BY <1>2, <1>5, <1>6 DEF FileIsCopy

\* A generation goes: the last record of a key stays, or the file, which is the
\* copy, already says what it said.
LEMMA RecoveredRetire ==
    ASSUME TypeOK, TypeOK', KvInv, Retire
    PROVE  KvRecovered' /\ CopyCurrent' /\ FileIsCopy'
<1>1. LogTypeOK /\ LogTypeOK' /\ covered \in Nat
  BY DEF TypeOK
<1>2. /\ UNCHANGED <<kv, expired, kvFile, pc, covered, kvCopy>>
      /\ pc = "retire" /\ RetireOldest(covered) /\ kvFile = kvCopy
  BY DEF Retire, engineVars, checkpointVars, fileVars, KvInv, FileIsCopy
<1>3. ASSUME NEW k \in Key PROVE Visible(RecoveredKv(k))' = Visible(kv[k])'
  <2>1. \/ RecoveredKv(k)' = RecoveredKv(k)
        \/ RecoveredKv(k)' = kvFile[k] /\ \A p \in KvPositions(k) : p[1] <= covered
    BY <1>1, <1>2, RetirePositions
  <2>2. CASE RecoveredKv(k)' = RecoveredKv(k)
    BY <1>2, <2>2 DEF KvInv, KvRecovered, Visible
  <2>3. CASE RecoveredKv(k)' = kvFile[k] /\ \A p \in KvPositions(k) : p[1] <= covered
    <3>1. Visible(kvCopy[k]) = Visible(kv[k])
      BY <1>2, <2>3 DEF KvInv, CopyCurrent
    <3> QED
      BY <1>2, <2>3, <3>1 DEF Visible
  <2> QED
    BY <2>1, <2>2, <2>3
<1>4. ASSUME NEW k \in Key, \A p \in KvPositions(k)' : p[1] <= covered
      PROVE  Visible(kvCopy[k]) = Visible(kv[k])
  <2>1. \A p \in KvPositions(k) : p[1] <= covered \/ p \in KvPositions(k)'
    BY <1>1, <1>2, RetirePositions
  <2> QED
    BY <1>2, <1>4, <2>1 DEF KvInv, CopyCurrent
<1>5. KvRecovered'
  BY <1>3 DEF KvRecovered
<1>6. CopyCurrent'
  BY <1>2, <1>4 DEF CopyCurrent, Visible
<1> QED
  BY <1>2, <1>5, <1>6 DEF FileIsCopy

\* The restarted process holds what replay gave it.
LEMMA RecoveredRestart ==
    ASSUME Restart PROVE KvRecovered' /\ CopyCurrent' /\ FileIsCopy'
<1>1. \A k \in Key : kv'[k] = RecoveredKv(k)'
  BY DEF Restart
<1>2. pc' = "idle"
  BY DEF Restart, Return
<1> QED
  BY <1>1, <1>2 DEF KvRecovered, CopyCurrent, FileIsCopy, Visible

LEMMA RecoveredInit == Init => KvInv
<1> SUFFICES ASSUME Init PROVE KvInv
  OBVIOUS
<1>1. \A k : KvPositions(k) = {}
  BY DEF Init, OpLogInit, KvPositions, Positions, Generations
<1>2. KvRecovered
  BY <1>1 DEF Init, KvRecovered, RecoveredKv, Visible
<1> QED
  BY <1>2, TypeInit DEF Init, KvInv, CopyCurrent, FileIsCopy

LEMMA RecoveredNext == TypeOK /\ KvInv /\ [Next]_vars => TypeOK' /\ KvInv'
<1> SUFFICES ASSUME TypeOK, KvInv, [Next]_vars PROVE TypeOK' /\ KvInv'
  OBVIOUS
<1>1. TypeOK' /\ CoveredClosed'
  BY TypeNext DEF KvInv
<1> SUFFICES KvRecovered' /\ CopyCurrent' /\ FileIsCopy'
  BY <1>1 DEF KvInv
<1>2. CASE WritePoints
  <2>1. UNCHANGED <<segs, kv, expired, kvFile, pc, covered, kvCopy>>
    BY <1>2 DEF WritePoints, logVars, checkpointVars, fileVars
  <2> QED
    BY <1>1, <2>1, RecoveredAside
<1>3. CASE Sync
  <2>1. UNCHANGED <<segs, kv, expired, kvFile, pc, covered, kvCopy>>
    BY <1>3 DEF Sync, SyncSwap, SyncData, engineVars, checkpointVars, fileVars
  <2> QED
    BY <1>1, <2>1, RecoveredAside
<1>4. CASE Cut
  <2>1. UNCHANGED <<kv, expired, kvFile>> /\ Rotate /\ pc' = "cut"
    BY <1>4 DEF Cut, engineVars, fileVars
  <2> QED
    BY <1>1, <2>1, RecoveredAside
<1>5. CASE Capture
  <2>1. UNCHANGED <<segs, kv, expired, kvFile>> /\ pc' = "captured"
    BY <1>5 DEF Capture, CutClean, engineVars, fileVars
  <2> QED
    BY <1>1, <2>1, RecoveredAside
<1>6. CASE SaveTs
  <2>1. /\ UNCHANGED <<segs, kv, expired, kvFile, covered, kvCopy>>
        /\ pc = "kvSaved" /\ pc' = "retire"
    BY <1>6 DEF SaveTs, logVars, engineVars
  <2>2. LogTypeOK /\ LogTypeOK'
    BY <1>1 DEF TypeOK
  <2>3. \A k : /\ KvPositions(k)' = KvPositions(k)
               /\ \A p \in KvPositions(k) : Record(p)' = Record(p)
    BY <2>1, <2>2, PositionsKept
  <2>4. KvRecovered'
    BY <2>1, <2>2, <2>3, RecoveredQuiet DEF KvInv
  <2>5. CopyCurrent' /\ FileIsCopy'
    BY <2>1, <2>3 DEF KvInv, CopyCurrent, FileIsCopy, Visible
  <2> QED
    BY <2>4, <2>5
<1>7. CASE RetireDone \/ CheckpointError
  <2>1. UNCHANGED <<segs, kv, expired, kvFile>> /\ pc' = "idle"
    BY <1>7 DEF RetireDone, CheckpointError, Return, logVars, engineVars, fileVars
  <2> QED
    BY <1>1, <2>1, RecoveredAside
<1>8. CASE Kill \/ PowerLoss
  BY <1>8, RecoveredRestart DEF Kill, PowerLoss
<1>9. CASE UNCHANGED vars
  <2>1. UNCHANGED <<segs, kv, expired, kvFile, pc, covered, kvCopy>>
    BY <1>9 DEF vars, logVars, engineVars, checkpointVars, fileVars
  <2> QED
    BY <1>1, <2>1, RecoveredAside
<1> QED
  BY <1>1, <1>2, <1>3, <1>4, <1>5, <1>6, <1>7, <1>8, <1>9, RecoveredKvSet, RecoveredKvDelete,
     RecoveredKvGet, RecoveredExpire, RecoveredLogPoints, RecoveredListKv, RecoveredSaveKv,
     RecoveredRetire
  DEF Next

\* However requests, evictions, fsyncs, the steps of a checkpoint (a failing one
\* too) and restarts interleave, a process killed at that moment finds in
\* kv_store.json and the redo log the store its readers saw: no acknowledged
\* write lost, no deleted or expired entry back (KvStore, OpLog and save_to_disk).
THEOREM KvSurvivesKill == Spec => []KvRecovered
<1>1. KvInv => KvRecovered
  BY DEF KvInv
<1> QED
  BY TypeInit, RecoveredInit, RecoveredNext, <1>1, PTL DEF Spec

-----------------------------------------------------------------------------
(* Recovery of the timeseries.  Counting the records of a point.           *)

LEMMA TsFinite ==
    LogTypeOK => \A x : /\ TsPositions(x) \in SUBSET Positions
                        /\ \A S \in SUBSET TsPositions(x) : IsFiniteSet(S) /\ Cardinality(S) \in Nat
<1> SUFFICES ASSUME LogTypeOK, NEW x, NEW S \in SUBSET TsPositions(x)
             PROVE  TsPositions(x) \in SUBSET Positions /\ IsFiniteSet(S) /\ Cardinality(S) \in Nat
  BY DEF TsPositions
<1>1. TsPositions(x) \in SUBSET Positions
  BY DEF TsPositions
<1>2. IsFiniteSet(S)
  BY <1>1, PositionsFinite, FS_Subset
<1> QED
  BY <1>1, <1>2, FS_CardinalityType

\* All generations come after 0: counted from there, the records of a point are
\* the ones replay adds to the file.
LEMMA RecoveredFromStart ==
    LogTypeOK => \A x : TsSince(x, 0) = TsPositions(x)
<1> SUFFICES ASSUME LogTypeOK, NEW x, NEW p \in TsPositions(x) PROVE p[1] > 0
  BY DEF TsSince
<1>1. p[1] \in Generations
  BY TsFinite, PositionsType
<1>2. p[1] \in 1..gen /\ gen \in Nat
  BY <1>1 DEF LogTypeOK
<1> QED
  BY <1>2

\* SavedUpTo of the next state, for a file and a generation given in this one.
SavedNext(file, g) ==
    \A x \in Point : file[x] + Cardinality({p \in TsPositions(x)' : p[1] > g}) = Logged(x)'

\* The records of points and what the engine holds of them stay.
LEMMA SavedKept ==
    ASSUME \A x \in Point : TsPositions(x)' = TsPositions(x) /\ Logged(x)' = Logged(x)
    PROVE  \A f, g : SavedUpTo(f, g) => SavedNext(f, g)
BY DEF SavedUpTo, SavedNext, TsSince

\* A record that is not about a point adds none.
LEMMA AppendNoPoint ==
    ASSUME LogTypeOK, NEW op \in Op, AppendOp(op), op.kind # "TsWrite"
    PROVE  \A x : TsPositions(x)' = TsPositions(x)
<1>1. PICK new \in Nat \X Nat :
                /\ Positions' = Positions \cup {new}
                /\ Record(new)' = op
                /\ \A p \in Positions : Record(p)' = Record(p)
  BY AppendPositions
<1> QED
  BY <1>1 DEF TsPositions

\* Logging a point adds its record, after every closed generation.
LEMMA SavedLogPoints ==
    ASSUME TypeOK, NEW x \in Point, LogPoints(x), NEW f \in [Point -> Nat], NEW g \in Nat, g < gen,
           SavedUpTo(f, g)
    PROVE  SavedNext(f, g)
<1>1. LogTypeOK /\ gen \in Nat /\ ts \in [Point -> Nat]
  BY DEF TypeOK, LogTypeOK
<1>2. TsWrite(x) \in Op /\ TsWrite(x).kind = "TsWrite" /\ TsWrite(x).point = x
  BY DEF TsWrite, Op
<1>3. PICK q \in Nat \X Nat :
                /\ q[1] = gen /\ q \notin Positions
                /\ Positions' = Positions \cup {q}
                /\ Record(q)' = TsWrite(x)
                /\ \A p \in Positions : Record(p)' = Record(p)
  BY <1>1, <1>2, AppendPositions DEF LogPoints
<1>4. TsPositions(x)' = TsPositions(x) \cup {q} /\ q \notin TsPositions(x)
  BY <1>2, <1>3 DEF TsPositions
<1>5. \A y \in Point \ {x} : TsPositions(y)' = TsPositions(y)
  BY <1>2, <1>3 DEF TsPositions
<1>6. ts' = ts /\ inFlight' = inFlight \ {x} /\ x \in inFlight
  BY DEF LogPoints
<1>7. Logged(x)' = Logged(x) + 1
  BY <1>1, <1>6 DEF Logged
<1>8. \A y \in Point \ {x} : Logged(y)' = Logged(y)
  BY <1>6 DEF Logged
<1>9. Cardinality({p \in TsPositions(x)' : p[1] > g}) = Cardinality(TsSince(x, g)) + 1
  <2>1. {p \in TsPositions(x)' : p[1] > g} = TsSince(x, g) \cup {q}
    BY <1>1, <1>3, <1>4 DEF TsSince
  <2>2. q \notin TsSince(x, g) /\ TsSince(x, g) \in SUBSET TsPositions(x)
    BY <1>4 DEF TsSince
  <2> QED
    BY <1>1, <2>1, <2>2, TsFinite, FS_AddElement
<1>10. ASSUME NEW y \in Point
       PROVE  f[y] + Cardinality({p \in TsPositions(y)' : p[1] > g}) = Logged(y)'
  <2>1. f[y] + Cardinality(TsSince(y, g)) = Logged(y)
    BY DEF SavedUpTo
  <2>2. CASE y # x
    BY <1>5, <1>8, <2>1, <2>2 DEF TsSince
  <2>3. CASE y = x
    <3>1. Cardinality(TsSince(x, g)) \in Nat /\ f[x] \in Nat
      BY <1>1, TsFinite DEF TsSince
    <3> QED
      BY <1>7, <1>9, <2>1, <2>3, <3>1
  <2> QED
    BY <2>2, <2>3
<1> QED
  BY <1>10 DEF SavedNext

\* What is counted from the cut on does not see an older generation go.
LEMMA SavedRetire ==
    ASSUME TypeOK, Retire, NEW f, SavedUpTo(f, covered)
    PROVE  SavedNext(f, covered)
<1>1. PICK g \in Generations : g <= covered /\ segs' = [h \in Generations \ {g} |-> segs[h]]
  BY DEF Retire, RetireOldest
<1>2. LogTypeOK /\ covered \in Nat /\ g \in Nat
  BY <1>1 DEF TypeOK, LogTypeOK
<1>3. \A p : p \in Positions' <=> p \in Positions /\ p[1] # g
  BY <1>1, <1>2, SegmentDeleted
<1>4. \A p \in Positions : p[1] # g => Record(p)' = Record(p)
  BY <1>1, <1>2, SegmentDeleted
<1>5. ASSUME NEW x \in Point PROVE {p \in TsPositions(x)' : p[1] > covered} = TsSince(x, covered)
  <2>1. \A p : p[1] > covered => p[1] # g
    BY <1>1, <1>2
  <2>2. \A p : p[1] > covered => (p \in TsPositions(x)' <=> p \in TsPositions(x))
    BY <1>3, <1>4, <2>1 DEF TsPositions
  <2> QED
    BY <2>2 DEF TsSince
<1>6. \A x \in Point : Logged(x)' = Logged(x)
  BY DEF Retire, engineVars, Logged
<1> QED
  BY <1>5, <1>6 DEF SavedUpTo, SavedNext

\* A step that leaves the files, the checkpoint and the log's generation alone
\* keeps PointsInv when it keeps what a file and the records after it give.
LEMMA PointsAside ==
    ASSUME TypeOK, CoveredClosed, PointsInv, UNCHANGED <<pc, covered, tsCopy, tsFile, tsCovers, gen>>,
           \A f \in [Point -> Nat], g \in Nat : g < gen /\ SavedUpTo(f, g) => SavedNext(f, g),
           pc = "cut" => inFlight' = {} /\ \A x \in Point : TsPositions(x)' = TsPositions(x)
    PROVE  PointsInv'
<1>1. /\ tsFile \in [Point -> Nat] /\ tsCopy \in [Point -> Nat]
      /\ tsCovers \in Nat /\ covered \in Nat /\ gen \in Nat /\ 0 < gen
  BY DEF TypeOK, LogTypeOK
<1>2. SavedNext(tsFile', 0) \/ SavedNext(tsFile', tsCovers')
  BY <1>1 DEF PointsInv
<1>3. (SavedUpTo(tsFile, 0) \/ SavedUpTo(tsFile, tsCovers))'
  BY <1>2 DEF SavedNext, SavedUpTo, TsSince
<1>4. (pc = "cut" => inFlight = {} /\ \A x \in Point : TsSince(x, covered) = {})'
  BY DEF PointsInv, TsSince
<1>5. (pc \in {"captured", "listed", "kvSaved"} => SavedUpTo(tsCopy, covered))'
  <2>1. pc' \in {"captured", "listed", "kvSaved"} => SavedNext(tsCopy', covered')
    BY <1>1 DEF PointsInv, CoveredClosed
  <2> QED
    BY <2>1 DEF SavedNext, SavedUpTo, TsSince
<1>6. (pc = "retire" => tsCovers = covered /\ SavedUpTo(tsFile, tsCovers))'
  <2>1. pc' = "retire" => tsCovers' = covered' /\ SavedNext(tsFile', tsCovers')
    BY <1>1 DEF PointsInv
  <2> QED
    BY <2>1 DEF SavedNext, SavedUpTo, TsSince
<1> QED
  BY <1>3, <1>4, <1>5, <1>6 DEF PointsInv

\* A write of points that is under way is not logged yet.
LEMMA PointsWrite ==
    ASSUME TypeOK, CoveredClosed, PointsInv, WritePoints PROVE PointsInv'
<1>1. /\ UNCHANGED <<segs, gen, pc, covered, tsCopy, tsFile, tsCovers>> /\ pc # "cut"
  BY DEF WritePoints, logVars, checkpointVars, fileVars
<1>2. /\ ts' = [ts EXCEPT ![points + 1] = @ + 1] /\ inFlight' = inFlight \cup {points + 1}
      /\ points \in Nat /\ inFlight \subseteq 1..points /\ ts \in [Point -> Nat] /\ LogTypeOK
  BY RedoAssumption DEF WritePoints, TypeOK
<1>3. \A x \in Point : Logged(x)' = Logged(x)
  <2>1. points + 1 \notin inFlight
    BY <1>2
  <2> QED
    BY <1>2, <2>1 DEF Logged
<1>4. \A x \in Point : TsPositions(x)' = TsPositions(x)
  BY <1>1, <1>2, SegmentsKept DEF TsPositions
<1>5. \A f, g : SavedUpTo(f, g) => SavedNext(f, g)
  BY <1>3, <1>4, SavedKept
<1> QED
  BY <1>1, <1>5, PointsAside

\* The capture is taken while no write of points is under way and no record
\* of one is newer than the cut.
LEMMA PointsCapture ==
    ASSUME TypeOK, CoveredClosed, PointsInv, Capture PROVE PointsInv'
<1>1. /\ UNCHANGED <<segs, gen, ts, inFlight, covered, tsFile, tsCovers>>
      /\ pc = "cut" /\ pc' = "captured" /\ tsCopy' = ts
  BY DEF Capture, CutClean, engineVars, fileVars
<1>2. LogTypeOK /\ ts \in [Point -> Nat]
  BY DEF TypeOK
<1>3. \A x \in Point : TsPositions(x)' = TsPositions(x) /\ Logged(x)' = Logged(x)
  BY <1>1, <1>2, SegmentsKept DEF TsPositions, Logged
<1>4. inFlight = {} /\ \A x \in Point : TsSince(x, covered) = {}
  BY <1>1 DEF PointsInv
<1>5. ASSUME NEW x \in Point PROVE ts[x] + Cardinality(TsSince(x, covered)) = Logged(x)
  <2>1. Cardinality(TsSince(x, covered)) = 0 /\ ts[x] \in Nat
    BY <1>2, <1>4, FS_EmptySet
  <2> QED
    BY <1>4, <2>1 DEF Logged
<1>6. SavedUpTo(ts, covered)
  BY <1>5 DEF SavedUpTo
<1>7. SavedNext(tsCopy', covered') /\ (SavedNext(tsFile', 0) \/ SavedNext(tsFile', tsCovers'))
  BY <1>1, <1>3, <1>6, SavedKept DEF PointsInv
<1> QED
  BY <1>1, <1>7 DEF PointsInv, SavedNext, SavedUpTo, TsSince

\* The cut opens a generation that has no record yet.
LEMMA PointsCut ==
    ASSUME TypeOK, CoveredClosed, PointsInv, Cut PROVE PointsInv'
<1>1. /\ Rotate /\ gen' = gen + 1 /\ UNCHANGED <<ts, inFlight, tsFile, tsCovers>>
      /\ inFlight = {} /\ pc' = "cut" /\ covered' = gen
  BY DEF Cut, Rotate, engineVars, fileVars
<1>2. LogTypeOK /\ gen \in Nat /\ tsCovers \in Nat
  BY DEF TypeOK, LogTypeOK
<1>3. \A x \in Point : TsPositions(x)' = TsPositions(x) /\ Logged(x)' = Logged(x)
  BY <1>1, <1>2, SegmentsKept DEF TsPositions, Logged
<1>4. ASSUME NEW x \in Point PROVE {p \in TsPositions(x)' : p[1] > gen} = {}
  <2>1. \A p \in TsPositions(x) : p[1] <= gen /\ p[1] \in Nat
    BY <1>2, TsFinite, PositionsType
  <2> QED
    BY <1>2, <1>3, <2>1
<1>5. SavedNext(tsFile', 0) \/ SavedNext(tsFile', tsCovers')
  BY <1>1, <1>3, SavedKept DEF PointsInv
<1>6. tsCovers' < gen'
  BY <1>1, <1>2 DEF PointsInv
<1> QED
  BY <1>1, <1>4, <1>5, <1>6 DEF PointsInv, SavedNext, SavedUpTo, TsSince

\* The listing, the saving of the store and a return leave points alone; the
\* saving of the timeseries makes the file the capture.
LEMMA PointsCheckpoint ==
    ASSUME TypeOK, CoveredClosed, PointsInv,
           ListKv \/ SaveKv \/ SaveTs \/ RetireDone \/ CheckpointError
    PROVE  PointsInv'
<1>1. UNCHANGED <<segs, gen, ts, inFlight>>
  BY DEF ListKv, SaveKv, SaveTs, RetireDone, CheckpointError, logVars, engineVars
<1>2. LogTypeOK /\ gen \in Nat /\ tsCovers \in Nat /\ covered \in Nat
  BY DEF TypeOK, LogTypeOK
<1>3. \A x \in Point : TsPositions(x)' = TsPositions(x) /\ Logged(x)' = Logged(x)
  BY <1>1, <1>2, SegmentsKept DEF TsPositions, Logged
<1>4. \A f, g : SavedUpTo(f, g) => SavedNext(f, g)
  BY <1>3, SavedKept
<1>5. CASE ListKv \/ SaveKv
  <2>1. /\ UNCHANGED <<covered, tsCopy, tsFile, tsCovers>>
        /\ pc \in {"captured", "listed"} /\ pc' \in {"listed", "kvSaved"}
    BY <1>5 DEF ListKv, SaveKv, fileVars
  <2>2. SavedNext(tsCopy', covered') /\ (SavedNext(tsFile', 0) \/ SavedNext(tsFile', tsCovers'))
    BY <1>4, <2>1 DEF PointsInv
  <2> QED
    BY <1>1, <2>1, <2>2 DEF PointsInv, SavedNext, SavedUpTo, TsSince
<1>6. CASE SaveTs
  <2>1. /\ UNCHANGED <<covered, tsCopy>> /\ tsFile' = tsCopy /\ tsCovers' = covered
        /\ pc = "kvSaved" /\ pc' = "retire"
    BY <1>6 DEF SaveTs
  <2>2. SavedNext(tsFile', tsCovers') /\ tsCovers' < gen'
    BY <1>1, <1>4, <2>1 DEF PointsInv, CoveredClosed
  <2> QED
    BY <2>1, <2>2 DEF PointsInv, SavedNext, SavedUpTo, TsSince
<1>7. CASE RetireDone \/ CheckpointError
  <2>1. UNCHANGED <<tsFile, tsCovers>> /\ pc' = "idle"
    BY <1>7 DEF RetireDone, CheckpointError, Return, fileVars
  <2>2. SavedNext(tsFile', 0) \/ SavedNext(tsFile', tsCovers')
    BY <1>4, <2>1 DEF PointsInv
  <2> QED
    BY <1>1, <2>1, <2>2 DEF PointsInv, SavedNext, SavedUpTo, TsSince
<1> QED
  BY <1>5, <1>6, <1>7

\* The oldest generation goes; the file has its points.
LEMMA PointsRetire ==
    ASSUME TypeOK, PointsInv, Retire PROVE PointsInv'
<1>1. /\ UNCHANGED <<pc, covered, tsFile, tsCovers, gen>> /\ pc = "retire"
  BY DEF Retire, RetireOldest, checkpointVars, fileVars
<1>2. tsCovers = covered /\ SavedUpTo(tsFile, covered)
  BY <1>1 DEF PointsInv
<1>3. SavedNext(tsFile', tsCovers')
  BY <1>1, <1>2, SavedRetire
<1> QED
  BY <1>1, <1>2, <1>3 DEF PointsInv, SavedNext, SavedUpTo, TsSince

\* The restarted process holds what the file and all the records give.
LEMMA PointsRestart ==
    ASSUME TypeOK, TypeOK', PointsInv, Restart, gen' = gen + 1 PROVE PointsInv'
<1>1. /\ UNCHANGED <<tsFile, tsCovers>> /\ pc' = "idle" /\ inFlight' = {}
      /\ \A x \in Point : ts'[x] = RecoveredTs(x)'
  BY DEF Restart, Return, fileVars
<1>2. LogTypeOK' /\ gen \in Nat /\ tsCovers \in Nat /\ \A x \in Point : ts'[x] \in Nat
  BY DEF TypeOK, LogTypeOK
<1>3. \A x : TsSince(x, 0)' = TsPositions(x)'
  <2>1. (LogTypeOK => \A x : TsSince(x, 0) = TsPositions(x))'
    BY RecoveredFromStart, PTL
  <2> QED
    BY <1>2, <2>1
<1>4. \A x \in Point : Logged(x)' = RecoveredTs(x)'
  BY <1>1, <1>2 DEF Logged
<1>5. SavedUpTo(tsFile, 0)'
  BY <1>3, <1>4 DEF SavedUpTo, RecoveredTs
<1>6. tsCovers' < gen'
  BY <1>1, <1>2 DEF PointsInv
<1> QED
  BY <1>1, <1>5, <1>6 DEF PointsInv

LEMMA PointsInit == Init => PointsInv
<1> SUFFICES ASSUME Init PROVE PointsInv
  OBVIOUS
<1>1. \A x, g : TsSince(x, g) = {}
  BY DEF Init, OpLogInit, TsSince, TsPositions, Positions, Generations
<1>2. \A x \in Point : tsFile[x] = 0 /\ Logged(x) = 0
  BY DEF Init, Logged
<1>3. SavedUpTo(tsFile, 0)
  BY <1>1, <1>2, FS_EmptySet DEF SavedUpTo
<1> QED
  BY <1>3 DEF Init, OpLogInit, PointsInv

LEMMA PointsNext ==
    TypeOK /\ CoveredClosed /\ PointsInv /\ [Next]_vars => TypeOK' /\ CoveredClosed' /\ PointsInv'
<1> SUFFICES ASSUME TypeOK, CoveredClosed, PointsInv, [Next]_vars
             PROVE  TypeOK' /\ CoveredClosed' /\ PointsInv'
  OBVIOUS
<1>1. TypeOK' /\ CoveredClosed'
  BY TypeNext
<1> SUFFICES PointsInv'
  BY <1>1
<1>2. LogTypeOK
  BY DEF TypeOK
\* Steps that have nothing to do with points.
<1>3. ASSUME UNCHANGED <<ts, inFlight, pc, covered, tsCopy, tsFile, tsCovers, gen>>,
             \A x \in Point : TsPositions(x)' = TsPositions(x)
      PROVE  PointsInv'
  <2>1. \A x \in Point : Logged(x)' = Logged(x)
    BY <1>3 DEF Logged
  <2>2. \A f, g : SavedUpTo(f, g) => SavedNext(f, g)
    BY <1>3, <2>1, SavedKept
  <2>3. pc = "cut" => inFlight' = {}
    BY <1>3 DEF PointsInv
  <2> QED
    BY <1>3, <2>2, <2>3, PointsAside
<1>4. ASSUME NEW k \in Key, KvSet(k) \/ KvDelete(k) PROVE PointsInv'
  <2>1. PICK op \in Op : AppendOp(op) /\ op.kind # "TsWrite"
    <3>1. CASE KvSet(k)
      <4>1. writes + 1 \in Write
        BY <3>1, RedoAssumption DEF TypeOK, KvSet, Write
      <4>2. KvPut(k, writes + 1) \in Op /\ KvPut(k, writes + 1).kind = "KvPut"
        BY <4>1 DEF KvPut, Op
      <4> QED
        BY <3>1, <4>2 DEF KvSet
    <3>2. CASE KvDelete(k)
      <4>1. KvRemove(k) \in Op /\ KvRemove(k).kind = "KvDelete"
        BY DEF KvRemove, Op
      <4> QED
        BY <3>2, <4>1 DEF KvDelete
    <3> QED
      BY <1>4, <3>1, <3>2
  <2>2. UNCHANGED <<ts, inFlight, pc, covered, tsCopy, tsFile, tsCovers, gen>>
    BY <1>4 DEF KvSet, KvDelete, AppendOp, checkpointVars, fileVars
  <2> QED
    BY <1>2, <1>3, <2>1, <2>2, AppendNoPoint
<1>5. ASSUME UNCHANGED <<segs, ts, inFlight, pc, covered, tsCopy, tsFile, tsCovers, gen>>
      PROVE  PointsInv'
  <2>1. \A x \in Point : TsPositions(x)' = TsPositions(x)
    BY <1>2, <1>5, SegmentsKept DEF TsPositions
  <2> QED
    BY <1>3, <1>5, <2>1
<1>6. ASSUME NEW k \in Key, KvGet(k) PROVE PointsInv'
  BY <1>5, <1>6 DEF KvGet, logVars, checkpointVars, fileVars
<1>7. ASSUME NEW w \in TtlWrites, Expire(w) PROVE PointsInv'
  BY <1>5, <1>7 DEF Expire, logVars, checkpointVars, fileVars
<1>8. CASE Sync
  BY <1>5, <1>8 DEF Sync, SyncSwap, SyncData, engineVars, checkpointVars, fileVars
<1>9. ASSUME NEW x \in Point, LogPoints(x) PROVE PointsInv'
  <2>1. UNCHANGED <<pc, covered, tsCopy, tsFile, tsCovers, gen>> /\ x \in inFlight
    BY <1>9 DEF LogPoints, AppendOp, checkpointVars, fileVars
  <2>2. pc # "cut"
    BY <2>1 DEF PointsInv
  <2> QED
    BY <1>9, <2>1, <2>2, SavedLogPoints, PointsAside
<1>10. CASE Kill \/ PowerLoss
  <2>1. Restart /\ gen' = gen + 1
    BY <1>10 DEF Kill, PowerLoss, ReopenAfterKill, ReopenAfterPowerLoss, Reopen
  <2> QED
    BY <1>1, <2>1, PointsRestart
<1>11. CASE UNCHANGED vars
  BY <1>5, <1>11 DEF vars, logVars, engineVars, checkpointVars, fileVars
<1> QED
  BY <1>4, <1>6, <1>7, <1>8, <1>9, <1>10, <1>11, PointsWrite, PointsCut, PointsCapture,
     PointsCheckpoint, PointsRetire
  DEF Next

\* A process killed at any moment, in the middle of a checkpoint, a failed
\* one or a write of points too, rebuilds from the timeseries checkpoint and
\* the redo log every point whose write has returned, and each as often as the
\* engine holds it unless a checkpoint has saved it and not yet deleted its
\* generations (write_points, OpLog::record, cut and save_to_disk).
THEOREM PointsSurviveKill == Spec => []PointsRecovered
<1>1. TypeOK /\ PointsInv => PointsRecovered
  <2> SUFFICES ASSUME TypeOK, PointsInv PROVE PointsKept /\ PointsExact
    BY DEF PointsRecovered
  <2>1. LogTypeOK /\ tsFile \in [Point -> Nat] /\ ts \in [Point -> Nat] /\ tsCovers \in Nat
    BY DEF TypeOK
  <2>2. \A x \in Point : /\ RecoveredTs(x) = tsFile[x] + Cardinality(TsSince(x, 0))
                         /\ Cardinality(TsSince(x, 0)) \in Nat
    BY <2>1, RecoveredFromStart, TsFinite DEF RecoveredTs
  <2>3. ASSUME NEW x \in Point
        PROVE  /\ Cardinality(TsSince(x, tsCovers)) \in Nat
               /\ Cardinality(TsSince(x, tsCovers)) <= Cardinality(TsSince(x, 0))
    <3>1. TsSince(x, tsCovers) \subseteq TsPositions(x) /\ TsSince(x, 0) = TsPositions(x)
      BY <2>1, RecoveredFromStart DEF TsSince
    <3> QED
      BY <2>1, <3>1, TsFinite, FS_Subset
  <2>4. \A x \in Point : RecoveredTs(x) >= Logged(x)
    <3>1. CASE SavedUpTo(tsFile, 0)
      BY <2>1, <2>2, <3>1 DEF SavedUpTo
    <3>2. CASE SavedUpTo(tsFile, tsCovers)
      BY <2>1, <2>2, <2>3, <3>2 DEF SavedUpTo
    <3> QED
      BY <3>1, <3>2 DEF PointsInv
  <2>5. PointsKept
    BY <2>1, <2>4 DEF PointsKept, Logged
  <2>6. ASSUME \A g \in Generations : g > tsCovers, NEW x \in Point
        PROVE  RecoveredTs(x) = Logged(x)
    <3>1. TsSince(x, tsCovers) = TsSince(x, 0)
      <4>1. \A p \in TsPositions(x) : p[1] > tsCovers
        BY <2>1, <2>6, TsFinite, PositionsType
      <4> QED
        BY <2>1, <4>1, RecoveredFromStart DEF TsSince
    <3> QED
      BY <2>2, <3>1 DEF PointsInv, SavedUpTo
  <2> QED
    BY <2>5, <2>6 DEF PointsExact
<1> QED
  BY TypeInit, PointsInit, PointsNext, <1>1, PTL DEF Spec

-----------------------------------------------------------------------------
(* Power losses.  What the records and the file give of a key is something *)
(* it held.                                                                *)

\* An entry as a reader of the next state sees it.
VisibleNext(w) == IF w \in expired' THEN NoEntry ELSE w

\* What a key held it has held from then on, expired or not.
LEMMA HeldGrows ==
    ASSUME NEW k, expired \subseteq expired', recent[k] \subseteq recent'[k],
           NEW a, Visible(a) \in Held(k)
    PROVE  VisibleNext(a) \in Held(k)'
<1>1. PICK w \in recent[k] : Visible(a) = Visible(w)
  BY DEF Held
<1>2. VisibleNext(a) = VisibleNext(w)
  BY <1>1 DEF Visible, VisibleNext
<1>3. Held(k)' = {VisibleNext(v) : v \in recent'[k]}
  BY DEF Held, Visible, VisibleNext
<1> QED
  BY <1>1, <1>2, <1>3

\* The three parts, each kept when the records that matter to it stay and none
\* that was fsynced becomes loose.
LEMMA RecordKept ==
    ASSUME NEW k, RecordHeld(k), expired \subseteq expired', recent[k] \subseteq recent'[k],
           \A p \in KvPositions(k)' :
              \/ VisibleNext(Record(p)'.value) \in Held(k)'
              \/ /\ p \in KvPositions(k) /\ Record(p)' = Record(p)
                 /\ \A q \in KvPositions(k) :
                       Before(p, q) => q \in KvPositions(k)' /\ (Loose(q)' => Loose(q))
    PROVE  RecordHeld(k)'
<1>1. ASSUME NEW p \in KvPositions(k)', \A q \in KvPositions(k)' : Before(p, q) => Loose(q)'
      PROVE  VisibleNext(Record(p)'.value) \in Held(k)'
  <2>1. CASE VisibleNext(Record(p)'.value) \in Held(k)'
    BY <2>1
  <2>2. CASE /\ p \in KvPositions(k) /\ Record(p)' = Record(p)
             /\ \A q \in KvPositions(k) :
                   Before(p, q) => q \in KvPositions(k)' /\ (Loose(q)' => Loose(q))
    <3>1. \A q \in KvPositions(k) : Before(p, q) => Loose(q)
      BY <1>1, <2>2
    <3>2. Visible(Record(p).value) \in Held(k)
      BY <2>2, <3>1 DEF RecordHeld
    <3> QED
      BY <2>2, <3>2, HeldGrows
  <2> QED
    BY <2>1, <2>2
<1>2. \A p \in KvPositions(k)' : Visible(Record(p).value)' = VisibleNext(Record(p)'.value)
  BY DEF Visible, VisibleNext
<1>3. \A p, q : Before(p, q)' <=> Before(p, q)
  BY DEF Before
<1> QED
  BY <1>1, <1>2, <1>3 DEF RecordHeld

LEMMA FileKept ==
    ASSUME NEW k, FileHeld(k), expired \subseteq expired', recent[k] \subseteq recent'[k],
           kvFile'[k] = kvFile[k],
           \A q \in KvPositions(k) : q \in KvPositions(k)' /\ (Loose(q)' => Loose(q))
    PROVE  FileHeld(k)'
<1>1. ASSUME \A q \in KvPositions(k)' : Loose(q)' PROVE VisibleNext(kvFile'[k]) \in Held(k)'
  BY <1>1, HeldGrows DEF FileHeld
<1>2. Visible(kvFile[k])' = VisibleNext(kvFile'[k])
  BY DEF Visible, VisibleNext
<1> QED
  BY <1>1, <1>2 DEF FileHeld

LEMMA CopyKept ==
    ASSUME NEW k, CopyHeld(k), expired \subseteq expired', recent[k] \subseteq recent'[k],
           pc' \in {"listed", "kvSaved", "retire"} =>
              pc \in {"listed", "kvSaved", "retire"} /\ covered' = covered /\ kvCopy' = kvCopy,
           \A q \in KvPositions(k) :
              q[1] > covered => q \in KvPositions(k)' /\ (Loose(q)' => Loose(q))
    PROVE  CopyHeld(k)'
<1>1. ASSUME pc' \in {"listed", "kvSaved", "retire"},
             \A q \in KvPositions(k)' : q[1] > covered' => Loose(q)'
      PROVE  VisibleNext(kvCopy'[k]) \in Held(k)'
  <2>1. \A q \in KvPositions(k) : q[1] > covered => Loose(q)
    BY <1>1
  <2>2. Visible(kvCopy[k]) \in Held(k)
    BY <1>1, <2>1 DEF CopyHeld
  <2> QED
    BY <1>1, <2>2, HeldGrows
<1>2. Visible(kvCopy[k])' = VisibleNext(kvCopy'[k])
  BY DEF Visible, VisibleNext
<1> QED
  BY <1>1, <1>2 DEF CopyHeld

\* What replay gives now is among what the key held.
LEMMA RecoveredHeld ==
    ASSUME LogTypeOK, NEW k, RecordHeld(k), FileHeld(k)
    PROVE  Visible(RecoveredKv(k)) \in Held(k)
<1>1. CASE KvPositions(k) = {}
  BY <1>1 DEF RecoveredKv, FileHeld
<1>2. CASE KvPositions(k) # {}
  <2>1. PICK p : IsLast(p, KvPositions(k))
    BY <1>2, KvLast
  <2>2. Visible(Record(p).value) \in Held(k)
    BY <2>1 DEF IsLast, RecordHeld
  <2> QED
    BY <2>1, <2>2, RecoveredIsLast
<1> QED
  BY <1>1, <1>2

\* With nothing loose a power loss changes nothing: it is a kill.
AllSynced == \A g \in Generations : synced[g] = Len(segs[g])
NothingLoose ==
    TypeOK /\ KvRecovered /\ CopyCurrent /\ AllSynced /\ (\A k \in Key : Visible(kv[k]) \in Held(k))
LEMMA HeldWhenSynced ==
    NothingLoose => \A k \in Key : RecordHeld(k) /\ FileHeld(k) /\ CopyHeld(k)
<1> SUFFICES ASSUME NothingLoose, NEW k \in Key PROVE RecordHeld(k) /\ FileHeld(k) /\ CopyHeld(k)
  OBVIOUS
<1>1. /\ LogTypeOK /\ covered \in Nat /\ KvRecovered /\ CopyCurrent /\ AllSynced
      /\ Visible(kv[k]) \in Held(k)
  BY DEF NothingLoose, TypeOK
<1>2. Visible(RecoveredKv(k)) \in Held(k)
  BY <1>1 DEF KvRecovered
<1>3. ASSUME NEW p \in KvPositions(k) PROVE ~ Loose(p)
  <2>1. p \in Positions
    BY DEF KvPositions
  <2>2. p[1] \in Generations /\ p[2] \in 1..Len(segs[p[1]]) /\ synced[p[1]] = Len(segs[p[1]])
    BY <1>1, <2>1, PositionsType DEF AllSynced
  <2>3. synced[p[1]] \in Nat
    BY <1>1, <2>2, LenProperties DEF LogTypeOK
  <2> QED
    BY <2>2, <2>3 DEF Loose
<1>4. RecordHeld(k)
  <2> SUFFICES ASSUME NEW p \in KvPositions(k),
                      \A q \in KvPositions(k) : Before(p, q) => Loose(q)
               PROVE  Visible(Record(p).value) \in Held(k)
    BY DEF RecordHeld
  <2>1. IsLast(p, KvPositions(k))
    BY <1>3 DEF IsLast
  <2> QED
    BY <1>1, <1>2, <2>1, RecoveredIsLast
<1>5. FileHeld(k)
  <2> SUFFICES ASSUME \A q \in KvPositions(k) : Loose(q) PROVE Visible(kvFile[k]) \in Held(k)
    BY DEF FileHeld
  <2>1. KvPositions(k) = {}
    BY <1>3
  <2> QED
    BY <1>2, <2>1 DEF RecoveredKv
<1>6. CopyHeld(k)
  <2> SUFFICES ASSUME pc \in {"listed", "kvSaved", "retire"},
                      \A q \in KvPositions(k) : q[1] > covered => Loose(q)
               PROVE  Visible(kvCopy[k]) \in Held(k)
    BY DEF CopyHeld
  <2>1. ASSUME NEW q \in KvPositions(k) PROVE q[1] <= covered
    <3>1. q[1] \in Nat
      BY <1>1, KvLast
    <3>2. ~ (q[1] > covered)
      BY <1>3
    <3> QED
      BY <1>1, <3>1, <3>2
  <2> QED
    BY <1>1, <2>1 DEF CopyCurrent
<1> QED
  BY <1>4, <1>5, <1>6

\* The segments this process has left stay fsynced.
LEMMA LeftSyncedKept ==
    ASSUME LogTypeOK, LeftSynced,
           \/ born' = gen' /\ LogTypeOK'
           \/ /\ born' = born /\ born \in Nat
              /\ \/ UNCHANGED <<segs, synced, gen>>
                 \/ Rotate
                 \/ SyncData
                 \/ \E op : AppendOp(op)
                 \/ RetireOldest(covered)
    PROVE  LeftSynced'
<1>1. gen \in Nat /\ \A g \in Generations : g \in Nat /\ g <= gen
  BY DEF LogTypeOK
<1>2. CASE born' = gen' /\ LogTypeOK'
  <2>1. gen' \in Nat /\ \A g \in Generations' : g \in Nat
    BY <1>2 DEF LogTypeOK
  <2>2. \A g \in Generations' : ~ (born' <= g /\ g < gen')
    BY <1>2, <2>1
  <2> QED
    BY <1>2, <2>1, <2>2 DEF LeftSynced
<1>3. CASE born' = born /\ born \in Nat /\ UNCHANGED <<segs, synced, gen>>
  BY <1>3 DEF LeftSynced, Generations
<1>4. CASE born' = born /\ born \in Nat /\ Rotate
  <2>1. gen' = gen + 1 /\ DOMAIN segs' = Generations \cup {gen + 1}
    BY <1>4 DEF Rotate
  <2>2. \A g \in Generations : /\ segs'[g] = segs[g]
                              /\ synced'[g] = IF g = gen THEN Len(segs[g]) ELSE synced[g]
    BY <1>1, <1>4 DEF Rotate
  <2>3. ASSUME NEW g \in DOMAIN segs', born <= g, g < gen' PROVE synced'[g] = Len(segs'[g])
    <3>1. g \in Generations
      BY <1>1, <2>1, <2>3
    <3>2. CASE g = gen
      BY <2>2, <3>1, <3>2
    <3>3. CASE g # gen
      <4>1. g < gen
        BY <1>1, <3>1, <3>3
      <4> QED
        BY <2>2, <2>3, <3>1, <3>3, <4>1 DEF LeftSynced
    <3> QED
      BY <3>2, <3>3
  <2>4. born' <= gen'
    BY <1>1, <1>4, <2>1 DEF LeftSynced
  <2> QED
    BY <1>4, <2>3, <2>4 DEF LeftSynced, Generations
<1>5. CASE born' = born /\ born \in Nat /\ SyncData
  <2>1. /\ UNCHANGED <<segs, gen>> /\ DOMAIN synced = Generations
        /\ synced' = [synced EXCEPT ![gen] = Len(segs[gen])]
    BY <1>5 DEF SyncData, LogTypeOK
  <2>2. \A g \in Generations : synced'[g] = synced[g] \/ synced'[g] = Len(segs[g])
    BY <2>1
  <2> QED
    BY <1>5, <2>1, <2>2 DEF LeftSynced, Generations
<1>6. CASE born' = born /\ born \in Nat /\ \E op : AppendOp(op)
  <2>1. /\ UNCHANGED <<synced, gen>> /\ DOMAIN segs' = Generations
        /\ \A g \in Generations \ {gen} : segs'[g] = segs[g]
    BY <1>6 DEF AppendOp, Generations
  <2>2. \A g \in Generations : g < gen => segs'[g] = segs[g]
    BY <1>1, <2>1
  <2> QED
    BY <1>6, <2>1, <2>2 DEF LeftSynced, Generations
<1>7. CASE born' = born /\ born \in Nat /\ RetireOldest(covered)
  <2>1. PICK g \in Generations :
          /\ segs' = [h \in Generations \ {g} |-> segs[h]]
          /\ synced' = [h \in Generations \ {g} |-> synced[h]]
          /\ gen' = gen
    BY <1>7 DEF RetireOldest
  <2> QED
    BY <1>7, <2>1 DEF LeftSynced, Generations
<1> QED
  BY <1>2, <1>3, <1>4, <1>5, <1>6, <1>7

\* A step that leaves the records and the file alone and forgets nothing that
\* was held.
LEMMA LossAside ==
    ASSUME TypeOK, LossInv, LeftSynced', UNCHANGED segs \/ Rotate, kvFile' = kvFile,
           expired \subseteq expired', \A k \in Key : recent[k] \subseteq recent'[k],
           \A g \in Generations : synced[g] <= synced'[g] /\ synced'[g] \in Nat,
           pc' \in {"listed", "kvSaved", "retire"} =>
              pc \in {"listed", "kvSaved", "retire"} /\ covered' = covered /\ kvCopy' = kvCopy
    PROVE  LossInv'
<1>1. LogTypeOK
  BY DEF TypeOK
<1>2. \A k : /\ KvPositions(k)' = KvPositions(k)
             /\ \A p \in KvPositions(k) : Record(p)' = Record(p)
  BY <1>1, PositionsKept
<1>3. ASSUME NEW k, NEW q \in KvPositions(k) PROVE Loose(q)' => Loose(q)
  <2>1. q \in Positions
    BY DEF KvPositions
  <2>2. q[1] \in Generations /\ q[2] \in Nat
    BY <1>1, <2>1, PositionsType
  <2>3. \A g \in Generations : synced[g] \in Nat
    BY <1>1, LenProperties DEF LogTypeOK
  <2>4. synced[q[1]] \in Nat /\ synced'[q[1]] \in Nat /\ synced[q[1]] <= synced'[q[1]]
    BY <2>2, <2>3
  <2> QED
    BY <2>2, <2>4 DEF Loose
<1>4. ASSUME NEW k \in Key PROVE RecordHeld(k)' /\ FileHeld(k)' /\ CopyHeld(k)'
  <2>1. RecordHeld(k) /\ FileHeld(k) /\ CopyHeld(k)
    BY DEF LossInv
  <2>2. RecordHeld(k)'
    BY <1>2, <1>3, <2>1, RecordKept
  <2>3. FileHeld(k)'
    BY <1>2, <1>3, <2>1, FileKept
  <2>4. CopyHeld(k)'
    BY <1>2, <1>3, <2>1, CopyKept
  <2> QED
    BY <2>2, <2>3, <2>4
<1> QED
  BY <1>4 DEF LossInv

\* An append of a mutation: its record is loose and its value is held.
LEMMA LossMutation ==
    ASSUME TypeOK, LossInv, LeftSynced', NEW op \in Op, AppendOp(op), op.kind \in {"KvPut", "KvDelete"},
           op.key \in Key, recent' = [recent EXCEPT ![op.key] = @ \cup {op.value}],
           UNCHANGED <<expired, checkpointVars, fileVars>>
    PROVE  LossInv'
<1>1. LogTypeOK /\ recent \in [Key -> SUBSET (Write \cup {NoEntry})]
  BY DEF TypeOK
<1>2. UNCHANGED <<synced, kvFile, pc, covered, kvCopy>>
  BY DEF AppendOp, checkpointVars, fileVars
<1>3. PICK new \in Nat \X Nat :
                /\ new[1] = gen
                /\ Positions' = Positions \cup {new}
                /\ Record(new)' = op
                /\ \A p \in Positions : Record(p)' = Record(p)
  BY <1>1, AppendPositions
<1>4. \A p : Loose(p)' <=> Loose(p)
  BY <1>2 DEF Loose
<1>5. ASSUME NEW k \in Key PROVE RecordHeld(k)' /\ FileHeld(k)' /\ CopyHeld(k)'
  <2>1. RecordHeld(k) /\ FileHeld(k) /\ CopyHeld(k)
    BY DEF LossInv
  <2>2. recent[k] \subseteq recent'[k] /\ op.value \in recent'[op.key]
    BY <1>1
  <2>3. /\ KvPositions(k) \subseteq KvPositions(k)' /\ KvPositions(k)' \subseteq KvPositions(k) \cup {new}
        /\ \A p \in KvPositions(k) : Record(p)' = Record(p)
        /\ new \in KvPositions(k)' /\ new \notin KvPositions(k) => op.key = k
    BY <1>3 DEF KvPositions
  <2>4. ASSUME NEW p \in KvPositions(k)', p \notin KvPositions(k)
        PROVE  VisibleNext(Record(p)'.value) \in Held(k)'
    <3>1. p = new /\ op.key = k
      BY <2>3, <2>4
    <3>2. Held(k)' = {VisibleNext(v) : v \in recent'[k]}
      BY DEF Held, Visible, VisibleNext
    <3> QED
      BY <1>3, <2>2, <3>1, <3>2
  <2>5. RecordHeld(k)'
    BY <1>2, <1>4, <2>1, <2>2, <2>3, <2>4, RecordKept
  <2>6. FileHeld(k)'
    BY <1>2, <1>4, <2>1, <2>2, <2>3, FileKept
  <2>7. CopyHeld(k)'
    BY <1>2, <1>4, <2>1, <2>2, <2>3, CopyKept
  <2> QED
    BY <2>5, <2>6, <2>7
<1> QED
  BY <1>5 DEF LossInv

\* Logging a point adds no record of a key.
LEMMA LossLogPoints ==
    ASSUME TypeOK, LossInv, LeftSynced', NEW x \in Point, LogPoints(x)
    PROVE  LossInv'
<1>1. LogTypeOK
  BY DEF TypeOK
<1>2. UNCHANGED <<synced, expired, recent, kvFile, pc, covered, kvCopy>>
  BY DEF LogPoints, AppendOp, checkpointVars, fileVars, historyVars
<1>3. TsWrite(x) \in Op /\ TsWrite(x).kind = "TsWrite" /\ AppendOp(TsWrite(x))
  BY DEF TsWrite, Op, LogPoints
<1>4. \A k : /\ KvPositions(k)' = KvPositions(k)
             /\ \A p \in KvPositions(k) : Record(p)' = Record(p)
  BY <1>1, <1>3, AppendElsewhere
<1>5. \A p : Loose(p)' <=> Loose(p)
  BY <1>2 DEF Loose
<1>6. \A k \in Key : RecordHeld(k) /\ FileHeld(k) /\ CopyHeld(k)
  BY DEF LossInv
<1>7. \A k \in Key : RecordHeld(k)'
  BY <1>2, <1>4, <1>5, <1>6, RecordKept
<1>8. \A k \in Key : FileHeld(k)'
  BY <1>2, <1>4, <1>5, <1>6, FileKept
<1>9. \A k \in Key : CopyHeld(k)'
  BY <1>2, <1>4, <1>5, <1>6, CopyKept
<1> QED
  BY <1>7, <1>8, <1>9 DEF LossInv

\* What a reader sees is something the key holds.
LEMMA NowHeld ==
    ASSUME TypeOK, KvInv, LossInv, NEW k \in Key PROVE Visible(kv[k]) \in Held(k)
<1>1. LogTypeOK /\ RecordHeld(k) /\ FileHeld(k) /\ Visible(RecoveredKv(k)) = Visible(kv[k])
  BY DEF TypeOK, LossInv, KvInv, KvRecovered
<1> QED
  BY <1>1, RecoveredHeld

\* The listing copies what a reader sees.
LEMMA LossListKv ==
    ASSUME TypeOK, KvInv, LossInv, LeftSynced', ListKv PROVE LossInv'
<1>1. LogTypeOK /\ NoEntry \notin expired
  BY DEF TypeOK, NoEntry
<1>2. /\ UNCHANGED <<segs, synced, expired, recent, kvFile>>
      /\ kvCopy' = [k \in Key |-> Visible(kv[k])]
  BY DEF ListKv, logVars, engineVars, fileVars, historyVars
<1>3. \A k : /\ KvPositions(k)' = KvPositions(k)
             /\ \A p \in KvPositions(k) : Record(p)' = Record(p)
  BY <1>1, <1>2, PositionsKept
<1>4. \A p : Loose(p)' <=> Loose(p)
  BY <1>2 DEF Loose
<1>5. \A k \in Key : RecordHeld(k) /\ FileHeld(k)
  BY DEF LossInv
<1>6. \A k \in Key : RecordHeld(k)'
  BY <1>2, <1>3, <1>4, <1>5, RecordKept
<1>7. \A k \in Key : FileHeld(k)'
  BY <1>2, <1>3, <1>4, <1>5, FileKept
<1>8. ASSUME NEW k \in Key PROVE CopyHeld(k)'
  <2>1. Visible(kv[k]) \in Held(k)
    BY NowHeld
  <2>2. Visible(kvCopy[k])' = Visible(kv[k])
    BY <1>1, <1>2 DEF Visible
  <2>3. Held(k)' = Held(k)
    BY <1>2 DEF Held, Visible
  <2> QED
    BY <2>1, <2>2, <2>3 DEF CopyHeld
<1> QED
  BY <1>6, <1>7, <1>8 DEF LossInv

\* The file becomes the copy.
LEMMA LossSaveKv ==
    ASSUME TypeOK, LossInv, LeftSynced', SaveKv PROVE LossInv'
<1>1. LogTypeOK
  BY DEF TypeOK
<1>2. /\ UNCHANGED <<segs, synced, expired, recent, covered, kvCopy>>
      /\ kvFile' = kvCopy /\ pc = "listed" /\ pc' = "kvSaved"
  BY DEF SaveKv, logVars, engineVars, historyVars
<1>3. \A k : /\ KvPositions(k)' = KvPositions(k)
             /\ \A p \in KvPositions(k) : Record(p)' = Record(p)
  BY <1>1, <1>2, PositionsKept
<1>4. \A p : Loose(p)' <=> Loose(p)
  BY <1>2 DEF Loose
<1>5. \A k \in Key : RecordHeld(k) /\ CopyHeld(k)
  BY DEF LossInv
<1>6. \A k \in Key : RecordHeld(k)'
  BY <1>2, <1>3, <1>4, <1>5, RecordKept
<1>7. \A k \in Key : CopyHeld(k)'
  BY <1>2, <1>3, <1>4, <1>5, CopyKept
<1>8. ASSUME NEW k \in Key PROVE FileHeld(k)'
  <2>1. (\A q \in KvPositions(k) : Loose(q)) => Visible(kvCopy[k]) \in Held(k)
    BY <1>2, <1>5 DEF CopyHeld
  <2>2. Held(k)' = Held(k) /\ Visible(kvFile[k])' = Visible(kvCopy[k])
    BY <1>2 DEF Held, Visible
  <2> QED
    BY <1>3, <1>4, <2>1, <2>2 DEF FileHeld
<1> QED
  BY <1>6, <1>7, <1>8 DEF LossInv

\* The oldest generation goes; the file is the copy.
LEMMA LossRetire ==
    ASSUME TypeOK, KvInv, LossInv, LeftSynced', Retire PROVE LossInv'
<1>1. PICK g \in Generations :
        /\ g <= covered /\ \A h \in Generations : g <= h
        /\ segs' = [h \in Generations \ {g} |-> segs[h]]
        /\ synced' = [h \in Generations \ {g} |-> synced[h]]
  BY DEF Retire, RetireOldest
<1>2. LogTypeOK /\ covered \in Nat /\ g \in Nat
  BY <1>1 DEF TypeOK, LogTypeOK
<1>3. /\ UNCHANGED <<expired, recent, kvFile, pc, covered, kvCopy>>
      /\ pc = "retire" /\ kvFile = kvCopy
  BY DEF Retire, engineVars, checkpointVars, fileVars, historyVars, KvInv, FileIsCopy
<1>4. \A p : p \in Positions' <=> p \in Positions /\ p[1] # g
  BY <1>1, <1>2, SegmentDeleted
<1>5. \A p \in Positions : p[1] # g => Record(p)' = Record(p)
  BY <1>1, <1>2, SegmentDeleted
<1>6. \A p \in Positions : p[1] \in Generations /\ p[1] \in Nat /\ g <= p[1]
  BY <1>1, <1>2, PositionsType
<1>7. \A p \in Positions : p[1] # g => (Loose(p)' <=> Loose(p))
  BY <1>1, <1>6 DEF Loose
<1>8. ASSUME NEW k \in Key PROVE RecordHeld(k)' /\ FileHeld(k)' /\ CopyHeld(k)'
  <2>1. RecordHeld(k) /\ FileHeld(k) /\ CopyHeld(k)
    BY DEF LossInv
  <2>2. \A p : p \in KvPositions(k)' <=> p \in KvPositions(k) /\ p[1] # g
    BY <1>4, <1>5 DEF KvPositions
  <2>3. KvPositions(k) \subseteq Positions
    BY DEF KvPositions
  <2>4. \A p \in KvPositions(k), q \in KvPositions(k) : p[1] # g /\ Before(p, q) => q[1] # g
    BY <1>2, <1>6, <2>3 DEF Before
  <2>5. \A q \in KvPositions(k) : q[1] > covered => q[1] # g
    BY <1>1, <1>2, <1>6, <2>3
  <2>6. RecordHeld(k)'
    BY <1>3, <1>5, <1>7, <2>1, <2>2, <2>3, <2>4, RecordKept
  <2>7. CopyHeld(k)'
    BY <1>3, <1>7, <2>1, <2>2, <2>3, <2>5, CopyKept
  <2>8. FileHeld(k)'
    <3>1. ASSUME \A q \in KvPositions(k)' : Loose(q)' PROVE Visible(kvCopy[k]) \in Held(k)
      <4>1. \A q \in KvPositions(k) : q[1] > covered => Loose(q)
        BY <1>7, <2>2, <2>3, <2>5, <3>1
      <4> QED
        BY <1>3, <2>1, <4>1 DEF CopyHeld
    <3>2. Held(k)' = Held(k) /\ Visible(kvFile[k])' = Visible(kvCopy[k])
      BY <1>3 DEF Held, Visible
    <3> QED
      BY <3>1, <3>2 DEF FileHeld
  <2> QED
    BY <2>6, <2>7, <2>8
<1> QED
  BY <1>8 DEF LossInv

LEMMA HeldWhenSyncedNext ==
    NothingLoose' => \A k \in Key : RecordHeld(k)' /\ FileHeld(k)' /\ CopyHeld(k)'
<1>1. (NothingLoose => \A k \in Key : RecordHeld(k) /\ FileHeld(k) /\ CopyHeld(k))'
  BY HeldWhenSynced, PTL
<1> QED
  BY <1>1

\* An fsync returned, in the sync thread or in the cut of a checkpoint: either
\* all that was held before is forgotten, and then nothing is loose, or nothing
\* is forgotten and less is loose.
LEMMA LossSettle ==
    ASSUME TypeOK, KvInv, LossInv, TypeOK', KvInv', LeftSynced', Settle, SyncData \/ Rotate,
           UNCHANGED <<kv, expired, kvFile>>,
           pc' \in {"listed", "kvSaved", "retire"} =>
              pc \in {"listed", "kvSaved", "retire"} /\ covered' = covered /\ kvCopy' = kvCopy
    PROVE  LossInv'
<1>1. LogTypeOK /\ gen \in Nat /\ born \in Nat
  BY DEF TypeOK, LogTypeOK
<1>2. \A g \in Generations : /\ segs[g] \in Seq(Op) /\ Len(segs[g]) \in Nat /\ g \in Nat /\ g <= gen
                             /\ synced[g] \in 0..Len(segs[g])
  BY <1>1, LenProperties DEF LogTypeOK
<1>3. /\ \A g \in Generations : /\ segs'[g] = segs[g]
                               /\ synced'[g] = IF g = gen THEN Len(segs[g]) ELSE synced[g]
      /\ \A g \in Generations' \ Generations : synced'[g] = Len(segs'[g])
  <2>1. CASE SyncData
    BY <1>1, <2>1 DEF SyncData, Generations, LogTypeOK
  <2>2. CASE Rotate
    <3>1. DOMAIN segs' = Generations \cup {gen + 1}
      BY <2>2 DEF Rotate
    <3>2. \A g \in Generations : g # gen + 1
      BY <1>1, <1>2
    <3>3. segs'[gen + 1] = <<>> /\ synced'[gen + 1] = 0
      BY <2>2 DEF Rotate
    <3>4. Len(segs'[gen + 1]) = 0
      BY <3>3
    <3>5. \A g \in Generations : /\ segs'[g] = segs[g]
                                 /\ synced'[g] = IF g = gen THEN Len(segs[g]) ELSE synced[g]
      BY <2>2, <3>2 DEF Rotate
    <3> QED
      BY <3>1, <3>3, <3>4, <3>5 DEF Generations
  <2> QED
    BY <2>1, <2>2
<1>4. CASE \A g \in Generations : g < born => synced[g] = Len(segs[g])
  <2>1. recent' = [k \in Key |-> {kv[k]}]
    BY <1>4 DEF Settle
  <2>2. ASSUME NEW g \in Generations PROVE synced'[g] = Len(segs'[g])
    <3>1. CASE g = gen
      BY <1>3, <3>1
    <3>2. CASE g # gen
      <4>1. g < gen /\ (g < born \/ born <= g)
        BY <1>1, <1>2, <3>2
      <4>2. synced[g] = Len(segs[g])
        BY <1>4, <4>1 DEF LossInv, LeftSynced
      <4> QED
        BY <1>3, <3>2, <4>2
    <3> QED
      BY <3>1, <3>2
  <2>3. AllSynced'
    BY <1>3, <2>2 DEF AllSynced
  <2>4. \A k \in Key : Visible(kv[k])' \in Held(k)'
    BY <2>1 DEF Held, Visible
  <2>5. NothingLoose'
    BY <2>3, <2>4 DEF NothingLoose, KvInv
  <2> QED
    BY <2>5, HeldWhenSyncedNext DEF LossInv
<1>5. CASE ~ \A g \in Generations : g < born => synced[g] = Len(segs[g])
  <2>1. recent' = recent
    BY <1>5 DEF Settle
  <2>2. \A g \in Generations : synced[g] <= synced'[g] /\ synced'[g] \in Nat
    BY <1>2, <1>3
  <2>3. UNCHANGED segs \/ Rotate
    BY DEF SyncData
  <2> QED
    BY <2>1, <2>2, <2>3, LossAside
<1> QED
  BY <1>4, <1>5

\* After a kill the records are there as before; only the file's generation is
\* new.
LEMMA LossKill ==
    ASSUME TypeOK, LossInv, LeftSynced', Kill PROVE LossInv'
<1>1. LogTypeOK /\ gen \in Nat
  BY DEF TypeOK, LogTypeOK
<1>2. /\ UNCHANGED <<expired, recent, kvFile>> /\ pc' = "idle"
      /\ Reopen(segs)
      /\ synced' = [g \in Generations \cup {gen + 1} |-> IF g = gen + 1 THEN 0 ELSE synced[g]]
  BY DEF Kill, Restart, Return, ReopenAfterKill, fileVars
<1>3. DOMAIN segs' = Generations \cup {gen + 1} /\ segs'[gen + 1] = <<>>
  BY <1>2 DEF Reopen
<1>4. \A g \in Generations : g # gen + 1 /\ segs'[g] = segs[g] /\ synced'[g] = synced[g]
  BY <1>1, <1>2 DEF Reopen, LogTypeOK
<1>5. {<<gen + 1, i>> : i \in 1..Len(segs'[gen + 1])} = {}
  BY <1>3
<1>6. Positions' = Positions
  BY <1>3, <1>4, <1>5 DEF Positions, Generations
<1>7. \A p \in Positions : Record(p)' = Record(p) /\ (Loose(p)' <=> Loose(p))
  BY <1>1, <1>4, PositionsType DEF Record, Loose
<1>8. ASSUME NEW k \in Key PROVE RecordHeld(k)' /\ FileHeld(k)' /\ CopyHeld(k)'
  <2>1. RecordHeld(k) /\ FileHeld(k)
    BY DEF LossInv
  <2>2. KvPositions(k)' = KvPositions(k) /\ KvPositions(k) \subseteq Positions
    BY <1>6, <1>7 DEF KvPositions
  <2>3. RecordHeld(k)'
    BY <1>2, <1>7, <2>1, <2>2, RecordKept
  <2>4. FileHeld(k)'
    BY <1>2, <1>7, <2>1, <2>2, FileKept
  <2> QED
    BY <1>2, <2>3, <2>4 DEF CopyHeld
<1> QED
  BY <1>8 DEF LossInv

\* After a power loss nothing is loose: what was read back is on the disk.
LEMMA LossPowerLoss ==
    ASSUME TypeOK, TypeOK', KvInv', LeftSynced', PowerLoss PROVE LossInv'
<1>1. LogTypeOK /\ gen \in Nat
  BY DEF TypeOK, LogTypeOK
<1>2. PICK left : ReopenAfterPowerLoss(left)
  BY DEF PowerLoss
<1>3. /\ DOMAIN segs' = Generations \cup {gen + 1}
      /\ segs'[gen + 1] = <<>> /\ synced'[gen + 1] = 0
  BY <1>2 DEF ReopenAfterPowerLoss, Reopen
<1>4. \A g \in Generations : segs'[g] = left[g] /\ synced'[g] = Len(left[g])
  BY <1>1, <1>2 DEF ReopenAfterPowerLoss, Reopen, LogTypeOK
<1>5. Len(segs'[gen + 1]) = 0
  BY <1>3
<1>6. AllSynced'
  BY <1>3, <1>4, <1>5 DEF AllSynced, Generations
<1>7. recent' = [k \in Key |-> {kv'[k]}]
  BY DEF PowerLoss
<1>8. \A k \in Key : Visible(kv[k])' \in Held(k)'
  BY <1>7 DEF Held, Visible
<1>9. NothingLoose'
  BY <1>6, <1>8 DEF NothingLoose, KvInv
<1> QED
  BY <1>9, HeldWhenSyncedNext DEF LossInv

LEMMA LossInit == Init => LossInv
<1> SUFFICES ASSUME Init PROVE LossInv
  OBVIOUS
<1>1. \A k : KvPositions(k) = {}
  BY DEF Init, OpLogInit, KvPositions, Positions, Generations
<1>2. \A k \in Key : Visible(kvFile[k]) \in Held(k)
  BY DEF Init, Held, Visible
<1>3. LeftSynced
  BY DEF Init, OpLogInit, LeftSynced, Generations
<1> QED
  BY <1>1, <1>2, <1>3 DEF LossInv, RecordHeld, FileHeld, CopyHeld, Init

LEMMA LossNext ==
    TypeOK /\ KvInv /\ LossInv /\ [Next]_vars => TypeOK' /\ KvInv' /\ LossInv'
<1> SUFFICES ASSUME TypeOK, KvInv, LossInv, [Next]_vars PROVE TypeOK' /\ KvInv' /\ LossInv'
  OBVIOUS
<1>1. TypeOK' /\ KvInv'
  BY RecoveredNext
<1> SUFFICES LossInv'
  BY <1>1
<1>2. LogTypeOK /\ LeftSynced /\ born \in Nat /\ gen \in Nat
  BY DEF TypeOK, LogTypeOK, LossInv
\* Steps that leave the log, the file and what was held alone.
<1>3. ASSUME UNCHANGED <<segs, synced, gen, kvFile, born, recent>>, expired \subseteq expired',
             pc' \in {"listed", "kvSaved", "retire"} =>
                pc \in {"listed", "kvSaved", "retire"} /\ covered' = covered /\ kvCopy' = kvCopy
      PROVE  LossInv'
  <2>1. LeftSynced'
    BY <1>2, <1>3, LeftSyncedKept
  <2>2. \A g \in Generations : synced[g] <= synced'[g] /\ synced'[g] \in Nat
    BY <1>2, <1>3, LenProperties DEF LogTypeOK
  <2> QED
    BY <1>3, <2>1, <2>2, LossAside
<1>4. ASSUME NEW k \in Key, KvSet(k) PROVE LossInv'
  <2>1. writes + 1 \in Write
    BY <1>4, RedoAssumption DEF TypeOK, KvSet, Write
  <2>2. PICK op : op = KvPut(k, writes + 1)
    OBVIOUS
  <2>3. op \in Op /\ op.kind = "KvPut" /\ op.key = k /\ op.value = writes + 1
    BY <2>1, <2>2 DEF KvPut, Op
  <2>4. /\ AppendOp(op) /\ recent' = [recent EXCEPT ![k] = @ \cup {op.value}] /\ born' = born
        /\ UNCHANGED <<expired, checkpointVars, fileVars>>
    BY <1>4, <2>2, <2>3 DEF KvSet, Remember
  <2>5. LeftSynced'
    BY <1>2, <2>4, LeftSyncedKept
  <2> QED
    BY <2>3, <2>4, <2>5, LossMutation
<1>5. ASSUME NEW k \in Key, KvDelete(k) PROVE LossInv'
  <2>1. PICK op : op = KvRemove(k)
    OBVIOUS
  <2>2. op \in Op /\ op.kind = "KvDelete" /\ op.key = k /\ op.value = NoEntry
    BY <2>1 DEF KvRemove, Op
  <2>3. /\ AppendOp(op) /\ recent' = [recent EXCEPT ![k] = @ \cup {op.value}] /\ born' = born
        /\ UNCHANGED <<expired, checkpointVars, fileVars>>
    BY <1>5, <2>1, <2>2 DEF KvDelete, Remember
  <2>4. LeftSynced'
    BY <1>2, <2>3, LeftSyncedKept
  <2> QED
    BY <2>2, <2>3, <2>4, LossMutation
<1>6. ASSUME NEW k \in Key, KvGet(k) PROVE LossInv'
  BY <1>3, <1>6 DEF KvGet, logVars, checkpointVars, fileVars, historyVars
<1>7. ASSUME NEW w \in TtlWrites, Expire(w) PROVE LossInv'
  BY <1>3, <1>7 DEF Expire, logVars, checkpointVars, fileVars, historyVars
<1>8. CASE WritePoints
  BY <1>3, <1>8 DEF WritePoints, logVars, checkpointVars, fileVars, historyVars
<1>9. ASSUME NEW x \in Point, LogPoints(x) PROVE LossInv'
  <2>1. AppendOp(TsWrite(x)) /\ born' = born
    BY <1>9 DEF LogPoints, historyVars
  <2>2. LeftSynced'
    BY <1>2, <2>1, LeftSyncedKept
  <2> QED
    BY <1>9, <2>2, LossLogPoints
<1>10. CASE Sync /\ SyncSwap /\ UNCHANGED historyVars
  BY <1>3, <1>10 DEF Sync, SyncSwap, engineVars, checkpointVars, fileVars, historyVars
<1>11. CASE Sync /\ SyncData /\ Settle
  <2>1. UNCHANGED <<kv, expired, kvFile, pc, covered, kvCopy>> /\ born' = born
    BY <1>11 DEF Sync, Settle, engineVars, checkpointVars, fileVars
  <2>2. LeftSynced'
    BY <1>2, <1>11, <2>1, LeftSyncedKept
  <2> QED
    BY <1>1, <1>11, <2>1, <2>2, LossSettle
<1>12. CASE Cut
  <2>1. Rotate /\ Settle /\ UNCHANGED <<kv, expired, kvFile>> /\ pc' = "cut" /\ born' = born
    BY <1>12 DEF Cut, Settle, engineVars, fileVars
  <2>2. LeftSynced'
    BY <1>2, <2>1, LeftSyncedKept
  <2> QED
    BY <1>1, <2>1, <2>2, LossSettle
<1>13. CASE Capture
  <2>1. UNCHANGED <<segs, synced, gen, kvFile, born, recent, expired>> /\ pc' = "captured"
    BY <1>13 DEF Capture, CutClean, engineVars, fileVars, historyVars
  <2> QED
    BY <1>3, <2>1
<1>14. CASE SaveTs
  <2>1. /\ UNCHANGED <<segs, synced, gen, kvFile, born, recent, expired, covered, kvCopy>>
        /\ pc = "kvSaved"
    BY <1>14 DEF SaveTs, logVars, engineVars, historyVars
  <2> QED
    BY <1>3, <2>1
<1>15. CASE RetireDone \/ CheckpointError
  <2>1. UNCHANGED <<segs, synced, gen, kvFile, born, recent, expired>> /\ pc' = "idle"
    BY <1>15 DEF RetireDone, CheckpointError, Return, logVars, engineVars, fileVars, historyVars
  <2> QED
    BY <1>3, <2>1
<1>16. CASE ListKv \/ SaveKv
  <2>1. UNCHANGED <<segs, synced, gen, born>>
    BY <1>16 DEF ListKv, SaveKv, logVars, historyVars
  <2>2. LeftSynced'
    BY <1>2, <2>1, LeftSyncedKept
  <2> QED
    BY <1>16, <2>2, LossListKv, LossSaveKv
<1>17. CASE Retire
  <2>1. RetireOldest(covered) /\ born' = born
    BY <1>17 DEF Retire, historyVars
  <2>2. LeftSynced'
    BY <1>2, <2>1, LeftSyncedKept
  <2> QED
    BY <1>17, <2>2, LossRetire
<1>18. CASE Kill \/ PowerLoss
  <2>1. born' = gen' /\ LogTypeOK'
    BY <1>1, <1>18 DEF Kill, PowerLoss, ReopenAfterKill, ReopenAfterPowerLoss, Reopen, TypeOK
  <2>2. LeftSynced'
    BY <1>2, <2>1, LeftSyncedKept
  <2> QED
    BY <1>1, <1>18, <2>2, LossKill, LossPowerLoss
<1>19. CASE UNCHANGED vars
  BY <1>3, <1>19 DEF vars, logVars, engineVars, checkpointVars, fileVars, historyVars
<1>20. Sync => (Sync /\ SyncSwap /\ UNCHANGED historyVars) \/ (Sync /\ SyncData /\ Settle)
  BY DEF Sync
<1> QED
  BY <1>4, <1>5, <1>6, <1>7, <1>8, <1>9, <1>10, <1>11, <1>12, <1>13, <1>14, <1>15, <1>16, <1>17,
     <1>18, <1>19, <1>20
  DEF Next

\* Whatever a power loss takes of the records that are not fsynced, at any
\* moment of requests, fsyncs, checkpoints and earlier restarts, every key
\* comes back with something it has held since the last fsync returned that left
\* nothing unsynced behind (OpLog::sync and cut, save_to_disk, with_secrets).
THEOREM PowerLossIsBounded == Spec => []PowerLossBounded
<1>1. TypeOK /\ LossInv => PowerLossBounded
  <2> SUFFICES ASSUME TypeOK, LossInv, NEW left \in PowerLossOutcomes, NEW k \in Key
               PROVE  LET mine == {p \in KvPositions(k) : p[2] <= Len(left[p[1]])}
                          value == IF mine = {} THEN kvFile[k]
                                   ELSE Record(CHOOSE p \in mine : IsLast(p, mine)).value
                      IN  Visible(value) \in {Visible(w) : w \in recent[k]}
    BY DEF PowerLossBounded
  <2> DEFINE mine == {p \in KvPositions(k) : p[2] <= Len(left[p[1]])}
             last == CHOOSE p \in mine : IsLast(p, mine)
  <2>1. LogTypeOK /\ KvPositions(k) \subseteq Positions
    BY DEF TypeOK, KvPositions
  <2>2. \A g \in Generations : synced[g] \in Nat /\ Len(left[g]) \in Nat /\ synced[g] <= Len(left[g])
    <3>1. PICK f : /\ \A h \in Generations : f[h] \in synced[h]..Len(segs[h])
                   /\ left = [h \in Generations |-> SubSeq(segs[h], 1, f[h])]
      BY DEF PowerLossOutcomes
    <3>2. ASSUME NEW g \in Generations, NEW n, n = f[g]
          PROVE  synced[g] \in Nat /\ Len(left[g]) \in Nat /\ synced[g] <= Len(left[g])
      <4>1. segs[g] \in Seq(Op) /\ Len(segs[g]) \in Nat /\ synced[g] \in 0..Len(segs[g])
        BY <2>1, LenProperties DEF LogTypeOK
      <4>2. n \in 0..Len(segs[g]) /\ synced[g] <= n /\ left[g] = SubSeq(segs[g], 1, n)
        BY <3>1, <3>2, <4>1
      <4>3. Len(SubSeq(segs[g], 1, n)) = n
        BY <4>1, <4>2
      <4> QED
        BY <4>1, <4>2, <4>3
    <3> QED
      BY <3>2
  <2>3. ASSUME NEW q \in KvPositions(k), q \notin mine PROVE Loose(q)
    <3>1. q[1] \in Generations /\ q[2] \in Nat /\ ~ (q[2] <= Len(left[q[1]]))
      BY <2>1, <2>3, PositionsType
    <3> QED
      BY <2>2, <3>1 DEF Loose
  <2>4. RecordHeld(k) /\ FileHeld(k)
    BY DEF LossInv
  <2>5. mine \in SUBSET Positions
    BY <2>1
  <2> HIDE DEF mine
  <2>6. CASE mine = {}
    <3>1. Visible(kvFile[k]) \in Held(k)
      BY <2>3, <2>4, <2>6 DEF FileHeld
    <3> QED
      BY <2>6, <3>1 DEF Held, mine
  <2>7. CASE mine # {}
    <3>1. \E p : IsLast(p, mine)
      BY <2>1, <2>5, <2>7, RecordsLast
    <3>2. \E p \in mine : IsLast(p, mine)
      BY <3>1 DEF IsLast
    <3>3. last \in mine /\ IsLast(last, mine)
      BY <3>2
    <3> HIDE DEF last
    <3>4. last \in KvPositions(k)
      BY <3>3 DEF mine
    <3>5. \A q \in KvPositions(k) : Before(last, q) => Loose(q)
      BY <2>3, <3>3 DEF IsLast
    <3>6. Visible(Record(last).value) \in Held(k)
      BY <2>4, <3>4, <3>5 DEF RecordHeld
    <3> QED
      BY <2>7, <3>6 DEF Held, mine, last
  <2> QED
    BY <2>6, <2>7
<1> QED
  BY TypeInit, RecoveredInit, LossInit, LossNext, <1>1, PTL DEF Spec
=============================================================================
