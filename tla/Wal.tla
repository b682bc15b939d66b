-------------------------------- MODULE Wal ---------------------------------
(***************************************************************************)
(* The write-ahead log of aegis-storage, WriteAheadLog.  Transactions call *)
(* it from their own threads: a record gets its LSN before the buffer lock *)
(* is taken, a full segment is rotated with the lock released in between,  *)
(* and a commit flushes in a step of its own.  Numbered segments are       *)
(* wal_<n>.log, the one being written is wal_current.log.  The process may *)
(* be killed or the machine lose power at any time; the next start scans   *)
(* the segments (recover_from_directory) and goes on writing.              *)
(*                                                                         *)
(* sync_on_commit is on, as the server has it.  A record has size one, and *)
(* the payload of a data record is its LSN.  Transaction identifiers come  *)
(* from the caller, who does not use one twice.  flushed_lsn, which nothing *)
(* in the repository reads, is left out.                                   *)
(***************************************************************************)
EXTENDS Integers, Sequences, FiniteSets, FiniteSetsExt

CONSTANTS
    Txn,          \* transactions
    Nobody,       \* the transaction of a checkpoint record, TransactionId(0)
    SegmentSize,  \* WAL_SEGMENT_SIZE, in records
    MaxLsn,       \* bound: records that get an LSN
    MaxData,      \* bound: data records of one transaction
    MaxCkpt,      \* bound: checkpoints are made up to this LSN
    MaxFaults     \* bound: crashes and failed writes

ASSUME WalAssumption ==
    /\ Nobody \notin Txn
    /\ SegmentSize \in Nat \ {0}
    /\ MaxLsn \in Nat /\ MaxData \in Nat /\ MaxCkpt \in Nat /\ MaxFaults \in Nat

VARIABLES
    files,    \* the numbered segments: number -> frames
    current,  \* the frames of wal_current.log, the ones in the BufWriter last
    synced,   \* how many of them a crash cannot take
    seg,      \* WalBuffer::current_segment
    lsn,      \* current_lsn, the next one to give out
    ckpt,     \* checkpoint_lsn
    job,      \* the call each thread is in: pc and the record it appends
    tx,       \* what the caller knows of each transaction
    logged,   \* the data records each transaction has had appended (history)
    gone,     \* transactions with a record that a rotation wrote over, that lies
              \* behind a torn frame, or whose segment was truncated (history)
    faults

fileVars == <<files, current, synced>>
counterVars == <<seg, lsn, ckpt>>
txnVars == <<tx, logged>>
walVars == <<fileVars, counterVars, job, txnVars, gone, faults>>

Thread == Txn \cup {Nobody}
Idle == [pc |-> "idle"]
Torn == [type |-> "torn", tx |-> Nobody, lsn |-> 0]
At(t, pc) == job[t].pc = pc
Goes(t, pc) == job' = [job EXCEPT ![t].pc = pc]
Return(t) == job' = [job EXCEPT ![t] = Idle]

TxnsIn(frames) == {frames[i].tx : i \in DOMAIN frames} \ {Nobody}

Put(f, k, v) == [x \in DOMAIN f \cup {k} |-> IF x = k THEN v ELSE f[x]]
Without(f, k) == [x \in DOMAIN f \ {k} |-> f[x]]

-----------------------------------------------------------------------------
(* Recovery.  A log is what it reads: records at places, a place being the  *)
(* number of a segment with that of a frame in it.                          *)

Precedes(p, q) == p[1] < q[1] \/ (p[1] = q[1] /\ p[2] < q[2])

\* read_segment stops at the first frame that does not parse.
Readable(frames) == {i \in DOMAIN frames : \A j \in 1..i : frames[j] # Torn}

LogIn(segments) ==
    [p \in UNION {{g} \X Readable(segments[g]) : g \in DOMAIN segments} |-> segments[p[1]][p[2]]]

\* The segments by name, wal_current.log after the numbered ones, when it has
\* its first n frames.
LogOf(n) == LogIn(Put(files, seg + 1, SubSeq(current, 1, n)))

Of(log, x, types) == {p \in DOMAIN log : log[p].tx = x /\ log[p].type \in types}
Final(places) == {p \in places : \A q \in places : ~ Precedes(p, q)}

\* Mutant: a transaction counts as committed from its first record on.
StatusByRecords(log, x) == Of(log, x, {"begin", "data", "commit"}) # {}

\* Whether tx_status says true of x in the end.
StatusTrue(log, x) == \E p \in Final(Of(log, x, {"begin", "commit", "abort"})) : log[p].type = "commit"

\* Mutant: a checkpoint record replaces what was known of transactions.
StatusFromCheckpoint(log, x) ==
    \E p \in DOMAIN log :
        /\ \/ log[p].tx = x /\ log[p].type \in {"begin", "commit"}
           \/ log[p].type = "checkpoint" /\ x \in log[p].active
        /\ \A q \in Of(log, x, {"abort"}) \cup Of(log, Nobody, {"checkpoint"}) : q = p \/ Precedes(q, p)

\* Whether tx_status has x in the end: a begin, a commit or a checkpoint at which
\* it was active has put it in, and no abort after that has taken it out.
StatusKnown(log, x) ==
    \E p \in DOMAIN log :
        /\ \/ log[p].tx = x /\ log[p].type \in {"begin", "commit"}
           \/ log[p].type = "checkpoint" /\ x \in log[p].active
        /\ \A q \in Of(log, x, {"abort"}) : Precedes(q, p)

\* tx_records: it has x from a begin to an abort, with the data records since.
Collected(log, x) == \E p \in Final(Of(log, x, {"begin", "abort"})) : log[p].type = "begin"
Records(log, x) ==
    {log[q].lsn : q \in {r \in Of(log, x, {"data"}) :
                           \A p \in Of(log, x, {"begin", "abort"}) : Precedes(p, r)}}

\* redo_records (of each transaction), incomplete_transactions and max_lsn.
RecoverFrom(log) ==
    [redo |-> [x \in {y \in Txn : StatusTrue(log, y) /\ Collected(log, y)} |-> Records(log, x)],
     incomplete |-> {x \in Txn : StatusKnown(log, x) /\ ~ StatusTrue(log, x)},
     maxLsn |-> Max({log[p].lsn : p \in DOMAIN log} \cup {0})]

\* How many frames of wal_current.log a crash in this state may leave.
Surviving == synced..Len(current)

-----------------------------------------------------------------------------
WalInit ==
    /\ files = <<>>
    /\ current = <<>>
    /\ synced = 0
    /\ seg = 0
    /\ lsn = 1
    /\ ckpt = 0
    /\ job = [t \in Thread |-> Idle]
    /\ tx = [x \in Txn |-> "new"]
    /\ logged = [x \in Txn |-> {}]
    /\ gone = {}
    /\ faults = 0

\* next_lsn and the record built from it.
Call(t, rec) ==
    /\ At(t, "idle")
    /\ lsn <= MaxLsn
    /\ lsn' = lsn + 1
    /\ job' = [job EXCEPT ![t] = [pc |-> "append", rec |-> rec]]

Fault == faults < MaxFaults /\ faults' = faults + 1

Record(type, x) == [type |-> type, tx |-> x, lsn |-> lsn]

LogBegin(x) ==
    /\ tx[x] = "new"
    /\ Call(x, Record("begin", x))
    /\ tx' = [tx EXCEPT ![x] = "beginning"]
    /\ UNCHANGED <<fileVars, seg, ckpt, logged, gone, faults>>

\* log_insert, log_update and log_delete.
LogData(x) ==
    /\ tx[x] = "active"
    /\ Cardinality(logged[x]) < MaxData
    /\ Call(x, Record("data", x))
    /\ UNCHANGED <<fileVars, seg, ckpt, txnVars, gone, faults>>

LogCommit(x) ==
    /\ tx[x] = "active"
    /\ Call(x, Record("commit", x))
    /\ tx' = [tx EXCEPT ![x] = "committing"]
    /\ UNCHANGED <<fileVars, seg, ckpt, logged, gone, faults>>

LogAbort(x) ==
    /\ tx[x] = "active"
    /\ Call(x, Record("abort", x))
    /\ tx' = [tx EXCEPT ![x] = "aborting"]
    /\ UNCHANGED <<fileVars, seg, ckpt, logged, gone, faults>>

\* The caller lists the transactions that are active when it calls.
LogCheckpoint ==
    /\ ckpt = 0 /\ lsn <= MaxCkpt
    /\ Call(Nobody, [type |-> "checkpoint", tx |-> Nobody, lsn |-> lsn,
                     active |-> {x \in Txn : tx[x] \in {"active", "committing", "aborting"}}])
    /\ UNCHANGED <<fileVars, seg, ckpt, txnVars, gone, faults>>

-----------------------------------------------------------------------------
(* append, under the buffer lock.                                          *)

\* A segment that is full is rotated first, with the lock released.
AppendFull(t) ==
    /\ At(t, "append")
    /\ Len(current) + 1 > SegmentSize
    /\ Goes(t, "rotate")
    /\ UNCHANGED <<fileVars, counterVars, txnVars, gone, faults>>

\* rotate_segment flushes and syncs the old segment and renames it to the
\* number the log is at, over whatever has that name.  It does not ask again
\* whether the segment is still full.
Rotate(t) ==
    /\ At(t, "rotate")
    /\ files' = Put(files, seg, current)
    /\ current' = <<>>
    /\ synced' = 0
    /\ seg' = seg + 1
    /\ gone' = gone \cup (IF seg \in DOMAIN files THEN TxnsIn(files[seg]) ELSE {})
    /\ Goes(t, "write")
    /\ UNCHANGED <<lsn, ckpt, txnVars, faults>>

\* What the caller learns when the call on x returns.
Outcome(x, type) ==
    tx' = [tx EXCEPT ![x] = CASE type = "begin" -> "active"
                              [] type = "abort" -> "aborted"
                              [] type = "commit" -> "committed"
                              [] OTHER -> @]

\* Mutant: log_commit returns without a flush.
WrittenReturns(t) ==
    /\ Return(t)
    /\ IF t = Nobody THEN UNCHANGED tx ELSE Outcome(t, job[t].rec.type)

\* Only a commit and a checkpoint go on to flush.
Written(t) ==
    IF job[t].rec.type \in {"commit", "checkpoint"}
    THEN Goes(t, "flush") /\ UNCHANGED tx
    ELSE Return(t) /\ Outcome(t, job[t].rec.type)

Write(t) ==
    /\ \/ At(t, "append") /\ Len(current) + 1 <= SegmentSize
       \/ At(t, "write")
    /\ current' = Append(current, job[t].rec)
    /\ gone' = IF t # Nobody /\ \E i \in DOMAIN current : current[i] = Torn THEN gone \cup {t} ELSE gone
    /\ logged' = IF job[t].rec.type = "data"
                 THEN [logged EXCEPT ![t] = @ \cup {job[t].rec.lsn}] ELSE logged
    /\ Written(t)
    /\ UNCHANGED <<files, synced, counterVars, faults>>

\* The file cannot be written, or not flushed before a rotation: the record is not in it and the call fails.
WriteError(t) ==
    /\ Fault
    /\ \/ At(t, "append") /\ Len(current) + 1 <= SegmentSize
       \/ At(t, "rotate") \/ At(t, "write")
    /\ Return(t)
    /\ tx' = IF t = Nobody THEN tx ELSE [tx EXCEPT ![t] = "failed"]
    /\ UNCHANGED <<fileVars, counterVars, logged, gone>>

Flush(t) ==
    /\ At(t, "flush")
    /\ synced' = Len(current)
    /\ Return(t)
    /\ IF t = Nobody
       THEN ckpt' = job[t].rec.lsn /\ UNCHANGED tx
       ELSE Outcome(t, "commit") /\ UNCHANGED ckpt
    /\ UNCHANGED <<files, current, seg, lsn, logged, gone, faults>>

\* The flush of a commit fails: its record may be read after a crash or not.
FlushError(t) ==
    /\ Fault
    /\ At(t, "flush")
    /\ Return(t)
    /\ tx' = IF t = Nobody THEN tx ELSE [tx EXCEPT ![t] = "failed"]
    /\ UNCHANGED <<fileVars, counterVars, logged, gone>>

\* truncate_before_checkpoint, one file of it: files go by their number.
Truncate(n) ==
    /\ ckpt # 0
    /\ n \in DOMAIN files
    /\ n + 2 < seg
    /\ files' = Without(files, n)
    /\ gone' = gone \cup TxnsIn(files[n])
    /\ UNCHANGED <<current, synced, counterVars, job, txnVars, faults>>

-----------------------------------------------------------------------------
(* A crash and open_and_recover.                                           *)

NextLsn(log) == RecoverFrom(log).maxLsn + 1

\* A transaction that was under way is over, without an answer; one that had
\* not begun can still be.  What is left of wal_current.log, a frame that was
\* cut in two included, is appended to; find_latest_segment takes up the
\* highest number there is.
CrashRestart(n, torn) ==
    /\ Fault
    /\ n \in Surviving
    /\ torn => n < Len(current)
    /\ current' = SubSeq(current, 1, n) \o (IF torn THEN <<Torn>> ELSE <<>>)
    /\ synced' = Len(current')
    /\ seg' = Max(DOMAIN files \cup {0})
    /\ lsn' = NextLsn(LogOf(n))
    /\ ckpt' = 0
    /\ job' = [t \in Thread |-> Idle]
    /\ tx' = [x \in Txn |-> IF tx[x] \in {"new", "committed", "aborted"} THEN tx[x] ELSE "failed"]
    /\ UNCHANGED <<files, logged, gone>>

WalNext ==
    \/ \E x \in Txn : LogBegin(x) \/ LogData(x) \/ LogCommit(x) \/ LogAbort(x)
    \/ LogCheckpoint
    \/ \E t \in Thread : \/ AppendFull(t) \/ Rotate(t)
                         \/ Write(t) \/ WriteError(t)
                         \/ Flush(t) \/ FlushError(t)
    \/ \E n \in DOMAIN files : Truncate(n)
    \/ \E n \in 0..Len(current), torn \in BOOLEAN : CrashRestart(n, torn)

WalSpec == WalInit /\ [][WalNext]_walVars

-----------------------------------------------------------------------------
(* Properties.                                                             *)

Recoveries == {RecoverFrom(LogOf(n)) : n \in Surviving}

\* A transaction whose log_commit has returned is redone after a crash at any
\* moment, with everything it logged, however the appends, rotations and
\* flushes of the other threads fell in between.
CommittedIsRedone ==
    \A x \in Txn \ gone : tx[x] = "committed" =>
        \A r \in Recoveries : x \in DOMAIN r.redo /\ r.redo[x] = logged[x]

\* No LSN is given to two records that recovery reads, across restarts too:
\* sorting by LSN puts the redo records in one order.
LsnsDistinct(log) == \A p, q \in DOMAIN log : log[p].lsn = log[q].lsn => p = q

\* Recovery redoes a transaction as a whole, in one order, and only one that
\* asked for its commit: no aborted transaction, and none the crash caught
\* before the commit.
RedoIsWhole ==
    \A n \in Surviving :
        LET log == LogOf(n)
            redo == RecoverFrom(log).redo
        IN  /\ LsnsDistinct(log)
            /\ \A x \in DOMAIN redo \ gone :
                  tx[x] \in {"committing", "committed", "failed"} /\ redo[x] = logged[x]

\* What recovery redoes is the committed transactions, each with all it logged,
\* and nothing else but a commit that was under way.
RedoExact == CommittedIsRedone /\ RedoIsWhole

\* A transaction of which the log holds a change, and neither commit nor
\* abort, is among those recovery reports for rollback, even when it began
\* while the checkpoint was collecting the active ones.
UndoComplete ==
    \A n \in Surviving :
        LET log == LogOf(n)
        IN  \A x \in Txn \ gone :
              Of(log, x, {"data"}) # {} /\ Of(log, x, {"commit", "abort"}) = {}
                => x \in RecoverFrom(log).incomplete

-----------------------------------------------------------------------------
(* The inductive invariant of the proofs.                                   *)

TxnRecord == [type : {"begin", "data", "commit", "abort"}, tx : Txn, lsn : Nat \ {0}]
CheckpointRecord == [type : {"checkpoint"}, tx : {Nobody}, lsn : Nat \ {0}, active : SUBSET Txn]
Frame == TxnRecord \cup CheckpointRecord \cup {Torn}
Appending(t) == job[t].pc \in {"append", "rotate", "write"}

JobTypeOK(t) ==
    \/ job[t] = Idle
    \/ /\ job[t] \in [pc : {"append", "rotate", "write", "flush"}, rec : TxnRecord \cup CheckpointRecord]
       /\ job[t].rec.tx = t
       /\ job[t].pc = "flush" => job[t].rec.type \in {"commit", "checkpoint"}

WalTypeOK ==
    /\ files \in [DOMAIN files -> Seq(Frame)] /\ DOMAIN files \subseteq 0..seg
    /\ current \in Seq(Frame) /\ synced \in 0..Len(current)
    /\ seg \in Nat /\ lsn \in Nat \ {0}
    /\ job = [t \in Thread |-> job[t]] /\ \A t \in Thread : JobTypeOK(t)
    /\ tx \in [Txn -> {"new", "beginning", "active", "committing", "aborting",
                       "committed", "aborted", "failed"}]
    /\ logged \in [Txn -> SUBSET Nat] /\ gone \in SUBSET Txn

\* The call a transaction is in.
CallOK(x) ==
    /\ tx[x] \in {"new", "committed", "aborted", "failed"} => job[x] = Idle
    /\ tx[x] = "beginning" => Appending(x) /\ job[x].rec.type = "begin"
    /\ tx[x] = "aborting" => Appending(x) /\ job[x].rec.type = "abort"
    /\ tx[x] = "committing" => job[x] # Idle /\ job[x].rec.type = "commit"
    /\ tx[x] = "active" => job[x] = Idle \/ (Appending(x) /\ job[x].rec.type = "data")

CallInv == \A x \in Txn : CallOK(x)

\* All that is written, synced or not; what of it is behind a torn frame is
\* never read again.
FullLog == LogOf(Len(current))

\* No LSN is in the log, or about to be, twice.
LsnInv ==
    /\ LsnsDistinct(FullLog)
    /\ \A p \in DOMAIN FullLog : FullLog[p].lsn < lsn
    /\ \A t \in Thread : Appending(t) =>
          /\ job[t].rec.lsn < lsn
          /\ \A p \in DOMAIN FullLog : FullLog[p].lsn # job[t].rec.lsn
          /\ \A u \in Thread : Appending(u) /\ job[u].rec.lsn = job[t].rec.lsn => u = t

\* A log has the records of x in the order of their LSNs: a begin, data, an end.
OfTxn(log, x) == {p \in DOMAIN log : log[p].tx = x}
Lsns(log, places) == {log[p].lsn : p \in places}
InOrder(log, x) ==
    /\ \A p, q \in OfTxn(log, x) : log[p].lsn < log[q].lsn => Precedes(p, q)
    /\ \A p \in Of(log, x, {"begin"}), q \in OfTxn(log, x) : q = p \/ log[p].lsn < log[q].lsn
    /\ \A p \in Of(log, x, {"commit", "abort"}), q \in OfTxn(log, x) : q = p \/ log[q].lsn < log[p].lsn
    /\ OfTxn(log, x) # {} => Of(log, x, {"begin"}) # {}

\* With a commit it has all the data.
Complete(log, x, data) ==
    /\ Lsns(log, Of(log, x, {"data"})) \subseteq data
    /\ Of(log, x, {"commit"}) # {} => Lsns(log, Of(log, x, {"data"})) = data

TxnOK(x) ==
    /\ InOrder(FullLog, x) /\ Complete(FullLog, x, logged[x])
    /\ Appending(x) => \A p \in OfTxn(FullLog, x) : FullLog[p].lsn < job[x].rec.lsn
    /\ tx[x] \in {"new", "beginning"} => OfTxn(FullLog, x) = {} /\ logged[x] = {}
    /\ tx[x] \in {"active", "committing", "aborting"} => Of(FullLog, x, {"begin"}) # {}
    /\ tx[x] \in {"active", "committing"} => Lsns(FullLog, Of(FullLog, x, {"data"})) = logged[x]
    /\ tx[x] \in {"active", "aborting"} \/ (tx[x] = "committing" /\ Appending(x))
         => Of(FullLog, x, {"commit", "abort"}) = {}
    /\ tx[x] = "committing" /\ ~ Appending(x) => Of(FullLog, x, {"commit"}) # {}
    /\ tx[x] = "aborted" => Of(FullLog, x, {"commit"}) = {}
    /\ tx[x] = "committed" =>
         \E p \in Of(FullLog, x, {"commit"}) : p[1] \in DOMAIN files \/ p[2] <= synced

TxnInv == \A x \in Txn \ gone : TxnOK(x)

WalInv == WalTypeOK /\ CallInv /\ LsnInv /\ TxnInv
=============================================================================
