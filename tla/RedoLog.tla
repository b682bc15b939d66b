------------------------------ MODULE RedoLog -------------------------------
(***************************************************************************)
(* Crash recovery of the key-value store and the timeseries engine of      *)
(* aegis-server: KvStore and AppState::write_points log to the redo log    *)
(* (OpLog), AppState::save_to_disk takes checkpoints concurrently, and     *)
(* AppState::with_secrets rebuilds both from the checkpoint files and the  *)
(* log when the process comes back.                                        *)
(*                                                                         *)
(* A value of the store is the number of the set call that wrote it, 0     *)
(* standing for no entry, so two values are equal only when they are the   *)
(* same write.  A TTL is the possibility that a write expires; the log     *)
(* carries the time of the write, so what has expired in memory has also   *)
(* expired when it is replayed.  A point of the timeseries is its number;  *)
(* the engine holds each point a number of times.  Checkpoint files are    *)
(* replaced by write_atomic, which a crash leaves old or new.              *)
(***************************************************************************)
EXTENDS OpLog, FiniteSets

CONSTANTS
    Key,         \* keys of the store
    MaxWrites,   \* bound: set calls
    TtlWrites,   \* the set calls that were given a TTL
    MaxPoints,   \* bound: points written
    MaxGen       \* bound: generations opened by checkpoints and restarts

ASSUME RedoAssumption == MaxWrites \in Nat /\ MaxPoints \in Nat /\ MaxGen \in Nat

VARIABLES
    kv,        \* KvStore::data
    writes,    \* set calls made so far
    expired,   \* the writes whose TTL has elapsed
    ts,        \* the timeseries: how many times the engine holds each point
    points,    \* points written so far
    inFlight,  \* points applied and not yet logged, the gate held shared
    pc,        \* where save_to_disk is
    covered,   \* what cut returned to it
    kvCopy,    \* the entries kv_store.list gave it
    tsCopy,    \* the timeseries captured at the cut
    kvFile,    \* kv_store.json
    tsFile,    \* the timeseries checkpoint file
    tsCovers,  \* history: the last generation the points in tsFile came from
    born,      \* history: the generation this process opened first
    recent     \* history: what each key held since the last fsync returned

engineVars == <<kv, writes, expired, ts, points, inFlight>>
checkpointVars == <<pc, covered, kvCopy, tsCopy>>
fileVars == <<kvFile, tsFile, tsCovers>>
historyVars == <<born, recent>>
vars == <<logVars, engineVars, checkpointVars, fileVars, historyVars>>

Point == 1..MaxPoints
Write == 1..MaxWrites
NoEntry == 0

KvPut(k, w) == [kind |-> "KvPut", key |-> k, value |-> w]
KvRemove(k) == [kind |-> "KvDelete", key |-> k, value |-> NoEntry]
TsWrite(p) == [kind |-> "TsWrite", point |-> p]

\* What a reader of the store sees: an expired entry is an absent one.
Visible(w) == IF w \in expired THEN NoEntry ELSE w

-----------------------------------------------------------------------------
(* Replay.  kv_store.replay stores or removes what the record says, so the *)
(* last record of a key decides, whatever the checkpoint file holds.       *)

KvPositions(k) ==
    {p \in Positions : Record(p).kind \in {"KvPut", "KvDelete"} /\ Record(p).key = k}

IsLast(p, S) == p \in S /\ \A q \in S : ~ Before(p, q)

RecoveredKv(k) ==
    IF KvPositions(k) = {} THEN kvFile[k]
    ELSE Record(CHOOSE p \in KvPositions(k) : IsLast(p, KvPositions(k))).value

\* Every record of a point adds it once more.
TsPositions(x) == {p \in Positions : Record(p).kind = "TsWrite" /\ Record(p).point = x}
RecoveredTs(x) == tsFile[x] + Cardinality(TsPositions(x))

-----------------------------------------------------------------------------
Init ==
    /\ OpLogInit
    /\ kv = [k \in Key |-> NoEntry]
    /\ writes = 0
    /\ expired = {}
    /\ ts = [x \in Point |-> 0]
    /\ points = 0
    /\ inFlight = {}
    /\ pc = "idle"
    /\ covered = 0
    /\ kvCopy = [k \in Key |-> NoEntry]
    /\ tsCopy = [x \in Point |-> 0]
    /\ kvFile = [k \in Key |-> NoEntry]
    /\ tsFile = [x \in Point |-> 0]
    /\ tsCovers = 0
    /\ born = 1
    /\ recent = [k \in Key |-> {NoEntry}]

Remember(k, w) ==
    /\ recent' = [recent EXCEPT ![k] = @ \cup {w}]
    /\ UNCHANGED born

\* KvStore::set, mutation and record under the store's write lock.
KvSet(k) ==
    /\ writes < MaxWrites
    /\ writes' = writes + 1
    /\ kv' = [kv EXCEPT ![k] = writes + 1]
    /\ AppendOp(KvPut(k, writes + 1))
    /\ Remember(k, writes + 1)
    /\ UNCHANGED <<expired, ts, points, inFlight, checkpointVars, fileVars>>

\* KvStore::delete, which logs only the removal of an entry that is there.
KvDelete(k) ==
    /\ kv[k] # NoEntry
    /\ kv' = [kv EXCEPT ![k] = NoEntry]
    /\ AppendOp(KvRemove(k))
    /\ Remember(k, NoEntry)
    /\ UNCHANGED <<writes, expired, ts, points, inFlight, checkpointVars, fileVars>>

\* The TTL of a write elapses.
Expire(w) ==
    /\ w \in 1..writes
    /\ w \notin expired
    /\ expired' = expired \cup {w}
    /\ UNCHANGED <<logVars, kv, writes, ts, points, inFlight, checkpointVars, fileVars, historyVars>>

\* KvStore::get on an expired entry evicts it and logs nothing.
KvGet(k) ==
    /\ kv[k] \in expired
    /\ kv' = [kv EXCEPT ![k] = NoEntry]
    /\ UNCHANGED <<logVars, writes, expired, ts, points, inFlight, checkpointVars, fileVars, historyVars>>

\* write_points: OpLog::record takes the gate shared and applies the points.
WritePoints ==
    /\ pc # "cut"
    /\ points < MaxPoints
    /\ points' = points + 1
    /\ ts' = [ts EXCEPT ![points + 1] = @ + 1]
    /\ inFlight' = inFlight \cup {points + 1}
    /\ UNCHANGED <<logVars, kv, writes, expired, checkpointVars, fileVars, historyVars>>

\* The end of record: the points are logged, then the gate is released.
LogPoints(x) ==
    /\ x \in inFlight
    /\ AppendOp(TsWrite(x))
    /\ inFlight' = inFlight \ {x}
    /\ UNCHANGED <<kv, writes, expired, ts, points, checkpointVars, fileVars, historyVars>>

\* An fsync returned: nothing earlier may be lost any more, except what an
\* earlier process left unsynced in the segments it wrote.
Settle ==
    /\ recent' = IF \A g \in Generations : g < born => synced[g] = Len(segs[g])
                 THEN [k \in Key |-> {kv[k]}] ELSE recent
    /\ UNCHANGED born

\* The sync thread.
Sync ==
    /\ \/ SyncSwap /\ UNCHANGED historyVars
       \/ SyncData /\ Settle
    /\ UNCHANGED <<engineVars, checkpointVars, fileVars>>

-----------------------------------------------------------------------------
(* save_to_disk.  The mutex keeps checkpoints apart, so one pc is enough.  *)

\* Mutant: the gate is not taken.
CutWithoutGate ==
    /\ pc = "idle"
    /\ gen < MaxGen
    /\ Rotate
    /\ Settle
    /\ pc' = "cut"
    /\ covered' = gen
    /\ UNCHANGED <<engineVars, kvCopy, tsCopy, fileVars>>

\* cut waits for the gate: no write of points is between its two steps, and
\* none starts until the capture is done.
Cut ==
    /\ pc = "idle"
    /\ gen < MaxGen
    /\ inFlight = {}
    /\ Rotate
    /\ Settle
    /\ pc' = "cut"
    /\ covered' = gen
    /\ UNCHANGED <<engineVars, kvCopy, tsCopy, fileVars>>

Capture ==
    /\ pc = "cut"
    /\ CutClean
    /\ tsCopy' = ts
    /\ pc' = "captured"
    /\ UNCHANGED <<engineVars, covered, kvCopy, fileVars, historyVars>>

\* kv_store.list: a copy, without the expired entries, under the read lock.
ListKv ==
    /\ pc = "captured"
    /\ kvCopy' = [k \in Key |-> Visible(kv[k])]
    /\ pc' = "listed"
    /\ UNCHANGED <<logVars, engineVars, covered, tsCopy, fileVars, historyVars>>

\* Mutant: save_to_disk goes on when the file cannot be written.
SaveKvOrNot ==
    /\ pc = "listed"
    /\ kvFile' \in {kvCopy, kvFile}
    /\ pc' = "kvSaved"
    /\ UNCHANGED <<logVars, engineVars, covered, kvCopy, tsCopy, tsFile, tsCovers, historyVars>>

SaveKv ==
    /\ pc = "listed"
    /\ kvFile' = kvCopy
    /\ pc' = "kvSaved"
    /\ UNCHANGED <<logVars, engineVars, covered, kvCopy, tsCopy, tsFile, tsCovers, historyVars>>

\* Mutant: it goes on when the timeseries cannot be written.
SaveTsOrNot ==
    /\ pc = "kvSaved"
    /\ tsFile' \in {tsCopy, tsFile}
    /\ tsCovers' = covered
    /\ pc' = "retire"
    /\ UNCHANGED <<logVars, engineVars, covered, kvCopy, tsCopy, kvFile, historyVars>>

SaveTs ==
    /\ pc = "kvSaved"
    /\ tsFile' = tsCopy
    /\ tsCovers' = covered
    /\ pc' = "retire"
    /\ UNCHANGED <<logVars, engineVars, covered, kvCopy, tsCopy, kvFile, historyVars>>

\* save_to_disk returns, and its locals are gone.
Return ==
    /\ pc' = "idle"
    /\ covered' = 0
    /\ kvCopy' = [k \in Key |-> NoEntry]
    /\ tsCopy' = [x \in Point |-> 0]

Retire ==
    /\ pc = "retire"
    /\ RetireOldest(covered)
    /\ UNCHANGED <<engineVars, checkpointVars, fileVars, historyVars>>

RetireDone ==
    /\ pc = "retire"
    /\ \A g \in Generations : g > covered
    /\ Return
    /\ UNCHANGED <<logVars, engineVars, fileVars, historyVars>>

\* A file cannot be written or deleted: save_to_disk returns the error.
CheckpointError ==
    /\ pc \in {"listed", "kvSaved", "retire"}
    /\ Return
    /\ UNCHANGED <<logVars, engineVars, fileVars, historyVars>>

-----------------------------------------------------------------------------
(* The process ends and starts again: with_secrets opens the log, loads    *)
(* the checkpoint files and replays the records on top of them.            *)

Restart ==
    /\ gen < MaxGen
    /\ inFlight' = {}
    /\ Return
    /\ UNCHANGED <<writes, expired, points, fileVars>>
    /\ kv' = [k \in Key |-> RecoveredKv(k)']
    /\ ts' = [x \in Point |-> RecoveredTs(x)']

Kill ==
    /\ ReopenAfterKill
    /\ Restart
    /\ UNCHANGED recent
    /\ born' = gen + 1

PowerLoss ==
    /\ \E left \in PowerLossOutcomes : ReopenAfterPowerLoss(left)
    /\ Restart
    /\ recent' = [k \in Key |-> {kv'[k]}]
    /\ born' = gen + 1

Next ==
    \/ \E k \in Key : KvSet(k) \/ KvDelete(k) \/ KvGet(k)
    \/ \E w \in TtlWrites : Expire(w)
    \/ WritePoints
    \/ \E x \in Point : LogPoints(x)
    \/ Sync
    \/ Cut \/ Capture \/ ListKv \/ SaveKv \/ SaveTs \/ Retire \/ RetireDone \/ CheckpointError
    \/ Kill \/ PowerLoss

Spec == Init /\ [][Next]_vars

-----------------------------------------------------------------------------
(* Properties.                                                             *)

Op == [kind : {"KvPut", "KvDelete"}, key : Key, value : Write \cup {NoEntry}]
        \cup [kind : {"TsWrite"}, point : Point]
Entries == [Key -> Write \cup {NoEntry}]

\* The segment being written is the newest on disk, and what is fsynced of a
\* segment is a prefix of its records.
LogTypeOK ==
    /\ gen \in Nat
    /\ gen \in Generations
    /\ \A g \in Generations : /\ g \in 1..gen
                             /\ segs[g] \in Seq(Op)
                             /\ synced[g] \in 0..Len(segs[g])
    /\ DOMAIN synced = Generations

\* Memory, files and the log hold values of their types.
TypeOK ==
    /\ LogTypeOK
    /\ dirty \in BOOLEAN /\ syncer \in {"idle", "fsync"}
    /\ kv \in Entries /\ kvCopy \in Entries /\ kvFile \in Entries
    /\ writes \in 0..MaxWrites /\ expired \subseteq 1..writes
    /\ ts \in [Point -> Nat] /\ tsCopy \in [Point -> Nat] /\ tsFile \in [Point -> Nat]
    /\ points \in 0..MaxPoints /\ inFlight \subseteq 1..points
    /\ pc \in {"idle", "cut", "captured", "listed", "kvSaved", "retire"}
    /\ covered \in Nat /\ tsCovers \in Nat
    /\ born \in Nat
    /\ recent \in [Key -> SUBSET (Write \cup {NoEntry})]

\* A process killed at any moment, in the middle of a checkpoint too, loses no
\* write to the store and brings back no deleted or expired entry: what replay
\* rebuilds is what a reader of the store sees now.
KvRecovered == \A k \in Key : Visible(RecoveredKv(k)) = Visible(kv[k])

\* What makes KvRecovered inductive.  Once the store was listed, a key of which
\* no record is newer than the cut is in the copy as a reader sees it, and the
\* file holds the copy before the first generation goes; what the checkpoint
\* covers ends before the segment being written.
CopyCurrent ==
    pc \in {"listed", "kvSaved", "retire"} =>
        \A k \in Key : (\A p \in KvPositions(k) : p[1] <= covered) =>
                            Visible(kvCopy[k]) = Visible(kv[k])
FileIsCopy == pc \in {"kvSaved", "retire"} => kvFile = kvCopy
CoveredClosed == pc # "idle" => covered < gen
KvInv == KvRecovered /\ CopyCurrent /\ FileIsCopy /\ CoveredClosed

\* How many times the engine holds a point whose write has returned.
Logged(x) == ts[x] - (IF x \in inFlight THEN 1 ELSE 0)

\* A kill loses no point whose write has returned.
PointsKept == \A x \in Point \ inFlight : RecoveredTs(x) >= ts[x]

\* A point is rebuilt exactly as often as the engine holds it (one that is
\* still to be logged excepted), unless the checkpoint that saved it has not
\* deleted its generations yet.
PointsExact ==
    (\A g \in Generations : g > tsCovers) =>
        \A x \in Point : RecoveredTs(x) = Logged(x)

\* Points survive a kill at any moment, in the middle of a checkpoint too, and
\* come back once: write_points applies and logs in two steps, and the gate
\* keeps the cut and the capture of save_to_disk out of between.
PointsRecovered == PointsKept /\ PointsExact

\* What makes PointsRecovered inductive.  A file and the records after the
\* generation it was captured at give every logged point exactly; of the file
\* on disk that holds, or else it holds for the file and all the records: so
\* it is after a restart, which counts again what was saved and not yet
\* deleted.  The capture is taken when nothing is after the cut, and before the
\* first generation goes the file is the capture.
TsSince(x, g) == {p \in TsPositions(x) : p[1] > g}
SavedUpTo(file, g) == \A x \in Point : file[x] + Cardinality(TsSince(x, g)) = Logged(x)
PointsInv ==
    /\ SavedUpTo(tsFile, 0) \/ SavedUpTo(tsFile, tsCovers)
    /\ tsCovers < gen
    /\ pc = "cut" => inFlight = {} /\ \A x \in Point : TsSince(x, covered) = {}
    /\ pc \in {"captured", "listed", "kvSaved"} => SavedUpTo(tsCopy, covered)
    /\ pc = "retire" => tsCovers = covered /\ SavedUpTo(tsFile, tsCovers)

\* After a power loss a key holds something it held since the last fsync
\* returned (unless an earlier process left records unsynced): no combination
\* of lost records, checkpoint files and deleted generations takes it back
\* further, or brings back what was overwritten before that.
PowerLossBounded ==
    \A left \in PowerLossOutcomes, k \in Key :
        LET mine == {p \in KvPositions(k) : p[2] <= Len(left[p[1]])}
            value == IF mine = {} THEN kvFile[k]
                     ELSE Record(CHOOSE p \in mine : IsLast(p, mine)).value
        IN  Visible(value) \in {Visible(w) : w \in recent[k]}

\* What makes PowerLossBounded inductive.  A power loss may take the records
\* that are not fsynced; in the segments this process has left there are none.
\* So it ends a key at a record after which all are loose, or at the file when
\* all are, and what is there the key has held; the copy a checkpoint is about
\* to make the file of holds as much for the records after its cut.
Loose(p) == p[2] > synced[p[1]]
Held(k) == {Visible(w) : w \in recent[k]}
LeftSynced ==
    born <= gen /\ \A g \in Generations : born <= g /\ g < gen => synced[g] = Len(segs[g])
RecordHeld(k) ==
    \A p \in KvPositions(k) :
        (\A q \in KvPositions(k) : Before(p, q) => Loose(q)) => Visible(Record(p).value) \in Held(k)
FileHeld(k) == (\A q \in KvPositions(k) : Loose(q)) => Visible(kvFile[k]) \in Held(k)
CopyHeld(k) ==
    /\ pc \in {"listed", "kvSaved", "retire"}
    /\ \A q \in KvPositions(k) : q[1] > covered => Loose(q)
    => Visible(kvCopy[k]) \in Held(k)
LossInv == LeftSynced /\ \A k \in Key : RecordHeld(k) /\ FileHeld(k) /\ CopyHeld(k)
=============================================================================
