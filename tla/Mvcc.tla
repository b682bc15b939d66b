-------------------------------- MODULE Mvcc --------------------------------
(***************************************************************************)
(* The transaction manager of aegis-storage (transaction.rs): version      *)
(* chains read through snapshots, exclusive key locks, garbage collection. *)
(*                                                                         *)
(* Every transaction has a thread of its own that makes its calls one      *)
(* after the other; a call is as many steps as it takes locks, because     *)
(* `transactions`, `versions` and the lock table are three locks and the   *)
(* timestamps are atomic counters.  A read changes nothing (read_set is    *)
(* never filled), so it is an operator, Read, that the properties ask in   *)
(* every state.  A chain of versions is the set of them, numbered in the   *)
(* order they were put on it: the head has the largest number, and         *)
(* prev_version is the next smaller one.  The number stands for the data   *)
(* too, every write having data of its own.                                *)
(*                                                                         *)
(* All transactions have the default isolation level, RepeatableRead.      *)
(* ReadUncommitted and ReadCommitted are not told apart by the code, and   *)
(* the commit of a Serializable one never returns: commit holds            *)
(* `transactions` for writing when validate_serializable asks for it       *)
(* again.                                                                  *)
(***************************************************************************)
EXTENDS Integers, FiniteSets, FiniteSetsExt

CONSTANTS
    Tx,         \* transactions, each begun once
    Key,        \* VersionKey
    MaxWrites,  \* bound: writes and deletes
    MaxGc       \* bound: runs of the garbage collector

ASSUME MvccAssumption == MaxWrites \in Nat /\ MaxGc \in Nat

VARIABLES
    pc,        \* where the thread of a transaction is
    state,     \* Transaction::state; "none": not in the map
    start,     \* start_timestamp
    commitTs,  \* commit_timestamp, from the moment commit fetches it
    active,    \* snapshot.active_transactions
    writeSet,  \* write_set
    wkey,      \* the key of the write a thread is in
    versions,  \* [Key -> SUBSET version]
    holders,   \* [Key -> SUBSET Tx]: holders of the exclusive lock
    waiters,   \* [Key -> SUBSET Tx]
    ts,        \* next_timestamp
    writes,    \* writes so far
    gc,        \* the collector: "idle", "marked" or "pruned", runs so far,
               \* and the watermark it read
    seen,      \* what was committed when start_timestamp was fetched
    clean      \* no commit and no collection was under way in begin

txVars == <<state, start, commitTs, active, writeSet>>
lockVars == <<holders, waiters>>
ghostVars == <<seen, clean>>
vars == <<pc, txVars, wkey, versions, lockVars, ts, writes, gc, ghostVars>>

Absent == 0          \* read returns None
NoTs == -1           \* no timestamp yet
MaxTs == 1000000     \* u64::MAX, above every timestamp

Init ==
    /\ pc = [t \in Tx |-> "new"]
    /\ state = [t \in Tx |-> "none"]
    /\ start = [t \in Tx |-> NoTs] /\ commitTs = [t \in Tx |-> NoTs]
    /\ active = [t \in Tx |-> {}] /\ writeSet = [t \in Tx |-> {}]
    /\ wkey \in [Tx -> Key]
    /\ versions = [k \in Key |-> {}]
    /\ holders = [k \in Key |-> {}] /\ waiters = [k \in Key |-> {}]
    /\ ts = 1 /\ writes = 0
    /\ gc = [at |-> "idle", runs |-> 0, min |-> MaxTs]
    /\ seen = [t \in Tx |-> [k \in Key |-> Absent]]
    /\ clean = [t \in Tx |-> TRUE]

Goto(t, label) == pc' = [pc EXCEPT ![t] = label]

-----------------------------------------------------------------------------
(* Chains and visibility.                                                   *)

HeadOf(chain) == CHOOSE v \in chain : \A w \in chain : w.at <= v.at

\* What is behind a version: prev_version, its prev_version, and so on.
Behind(chain, v) == {w \in chain : w.at < v.at}

IsVisible(t, v) ==
    v.state = "Committed" /\ v.ts <= start[t] /\ v.by \notin active[t]

\* The first of these versions a walk from the head meets.
FirstOf(chain) == IF chain = {} THEN Absent ELSE HeadOf(chain).at

\* read: the chain is walked from its head.
Read(t, k) == FirstOf({v \in versions[k] : IsVisible(t, v)})

\* The committed versions of a key.
Committed(k) == {v \in versions[k] : v.state = "Committed"}

-----------------------------------------------------------------------------
(* begin: the timestamp, the active set and the entry in the map are three  *)
(* steps.                                                                   *)

Committing(t) == pc[t] \in {"commitPrepare", "commitVersions", "commitState"}

BeginTimestamp(t) ==
    /\ pc[t] = "new"
    /\ start' = [start EXCEPT ![t] = ts]
    /\ ts' = ts + 1
    /\ seen' = [seen EXCEPT ![t] =
                  [k \in Key |-> FirstOf(Committed(k))]]
    /\ clean' = [clean EXCEPT ![t] = gc.at = "idle" /\ ~ \E u \in Tx : Committing(u)]
    /\ Goto(t, "beginActive")
    /\ UNCHANGED <<state, commitTs, active, writeSet, wkey, versions, lockVars, writes, gc>>

BeginActive(t) ==
    /\ pc[t] = "beginActive"
    /\ active' = [active EXCEPT ![t] = {u \in Tx : state[u] = "Active"}]
    /\ Goto(t, "beginInsert")
    /\ UNCHANGED <<state, start, commitTs, writeSet, wkey, versions, lockVars, ts, writes, gc,
                   ghostVars>>

BeginInsert(t) ==
    /\ pc[t] = "beginInsert"
    /\ state' = [state EXCEPT ![t] = "Active"]
    /\ Goto(t, "ready")
    /\ UNCHANGED <<start, commitTs, active, writeSet, wkey, versions, lockVars, ts, writes, gc,
                   ghostVars>>

-----------------------------------------------------------------------------
(* write and delete, with LockManager::acquire.                             *)

WriteStart(t, k) ==
    /\ pc[t] = "ready" /\ state[t] = "Active"
    /\ writes < MaxWrites
    /\ writes' = writes + 1
    /\ writeSet' = [writeSet EXCEPT ![t] = @ \cup {k}]
    /\ wkey' = [wkey EXCEPT ![t] = k]
    /\ Goto(t, "locking")
    /\ UNCHANGED <<state, start, commitTs, active, versions, lockVars, ts, gc, ghostVars>>

\* Mutant: whoever waits is let in.
GrantWaiters(t, k) == holders[k] \subseteq {t} \/ t \in waiters[k]

\* Exclusive locks are compatible with nobody else's.
CanGrant(t, k) == holders[k] \subseteq {t}

\* A round of the loop in acquire: the lock is taken, or the transaction is
\* put among the waiters, where it changes nothing to look again.
Acquire(t) ==
    LET k == wkey[t]
    IN  /\ pc[t] = "locking"
        /\ \/ /\ CanGrant(t, k)
              /\ holders' = [holders EXCEPT ![k] = @ \cup {t}]
              /\ Goto(t, "granted")
              /\ UNCHANGED waiters
           \/ /\ ~ CanGrant(t, k)
              /\ t \notin waiters[k]
              /\ waiters' = [waiters EXCEPT ![k] = @ \cup {t}]
              /\ UNCHANGED <<pc, holders>>
        /\ UNCHANGED <<txVars, wkey, versions, ts, writes, gc, ghostVars>>

\* The timeout is looked at after a round that failed; the write returns an
\* error and the transaction goes on.
LockTimeout(t) ==
    /\ pc[t] = "locking"
    /\ t \in waiters[wkey[t]]
    /\ waiters' = [waiters EXCEPT ![wkey[t]] = @ \ {t}]
    /\ Goto(t, "ready")
    /\ UNCHANGED <<txVars, wkey, versions, holders, ts, writes, gc, ghostVars>>

NewVersion(t, chain) ==
    [by |-> t, state |-> "Active", ts |-> NoTs,
     at |-> IF chain = {} THEN 1 ELSE HeadOf(chain).at + 1]

WriteVersion(t) ==
    /\ pc[t] = "granted"
    /\ versions' = [versions EXCEPT ![wkey[t]] = @ \cup {NewVersion(t, @)}]
    /\ Goto(t, "ready")
    /\ UNCHANGED <<txVars, wkey, lockVars, ts, writes, gc, ghostVars>>

-----------------------------------------------------------------------------
(* commit and abort.                                                        *)

\* The head of every chain the transaction wrote, if the head is its own.
Own(t, k) == k \in writeSet[t] /\ versions[k] # {} /\ HeadOf(versions[k]).by = t

Marked(v, st, when) == [by |-> v.by, state |-> st, ts |-> when, at |-> v.at]

Mark(t, st, when) ==
    [k \in Key |->
        IF Own(t, k)
          THEN Behind(versions[k], HeadOf(versions[k])) \cup {Marked(HeadOf(versions[k]), st, when)}
          ELSE versions[k]]

CommitTimestamp(t) ==
    /\ pc[t] = "ready"
    /\ commitTs' = [commitTs EXCEPT ![t] = ts]
    /\ ts' = ts + 1
    /\ Goto(t, "commitPrepare")
    /\ UNCHANGED <<state, start, active, writeSet, wkey, versions, lockVars, writes, gc, ghostVars>>

CommitPrepare(t) ==
    /\ pc[t] = "commitPrepare" /\ state[t] = "Active"
    /\ state' = [state EXCEPT ![t] = "Preparing"]
    /\ Goto(t, "commitVersions")
    /\ UNCHANGED <<start, commitTs, active, writeSet, wkey, versions, lockVars, ts, writes, gc,
                   ghostVars>>

CommitVersions(t) ==
    /\ pc[t] = "commitVersions"
    /\ versions' = Mark(t, "Committed", commitTs[t])
    /\ Goto(t, "commitState")
    /\ UNCHANGED <<txVars, wkey, lockVars, ts, writes, gc, ghostVars>>

CommitState(t) ==
    /\ pc[t] = "commitState"
    /\ state' = [state EXCEPT ![t] = "Committed"]
    /\ Goto(t, "release")
    /\ UNCHANGED <<start, commitTs, active, writeSet, wkey, versions, lockVars, ts, writes, gc,
                   ghostVars>>

\* Mutant: abort skips the versions.
AbortLeavesVersions(t) ==
    /\ pc[t] = "ready"
    /\ state' = [state EXCEPT ![t] = "Aborted"]
    /\ Goto(t, "release")
    /\ UNCHANGED <<start, commitTs, active, writeSet, wkey, versions, lockVars, ts, writes, gc,
                   ghostVars>>

AbortState(t) ==
    /\ pc[t] = "ready"
    /\ state' = [state EXCEPT ![t] = "Aborted"]
    /\ Goto(t, "abortVersions")
    /\ UNCHANGED <<start, commitTs, active, writeSet, wkey, versions, lockVars, ts, writes, gc,
                   ghostVars>>

\* "Transaction disappeared during abort": the collector has removed it.
AbortVersions(t) ==
    /\ pc[t] = "abortVersions"
    /\ \/ /\ state[t] # "none"
          /\ versions' = Mark(t, "Aborted", NoTs)
          /\ Goto(t, "release")
       \/ /\ state[t] = "none"
          /\ Goto(t, "failed")
          /\ UNCHANGED versions
    /\ UNCHANGED <<txVars, wkey, lockVars, ts, writes, gc, ghostVars>>

ReleaseAll(t) ==
    /\ pc[t] = "release"
    /\ holders' = [k \in Key |-> holders[k] \ {t}]
    /\ waiters' = [k \in Key |-> waiters[k] \ {t}]
    /\ Goto(t, "done")
    /\ UNCHANGED <<txVars, wkey, versions, ts, writes, gc, ghostVars>>

-----------------------------------------------------------------------------
(* run_gc: the watermark, the chains and the map are three steps.           *)

\* Mutant: the watermark is the time of the run.
TimestampNow == ts

MinActiveTimestamp ==
    LET running == {start[t] : t \in {u \in Tx : state[u] = "Active"}}
    IN  IF running = {} THEN MaxTs ELSE Min(running)

GcWatermark ==
    /\ gc.at = "idle" /\ gc.runs < MaxGc
    /\ gc' = [at |-> "marked", runs |-> gc.runs + 1, min |-> MinActiveTimestamp]
    /\ clean' = [t \in Tx |-> clean[t] /\ pc[t] \notin {"beginActive", "beginInsert"}]
    /\ UNCHANGED <<pc, txVars, wkey, versions, lockVars, ts, writes, seen>>

Old(v, min) == v.state = "Committed" /\ v.ts < min

\* An old version in front of an old version: the chain ends with the first.
Cuts(chain, v, min) ==
    LET behind == Behind(chain, v)
    IN  Old(v, min) /\ behind # {} /\ Old(HeadOf(behind), min)

\* What the recursion leaves: nothing behind a version that cuts the chain, and
\* no aborted version behind another.
GcVersionChain(chain, min) ==
    {v \in chain : /\ v.state # "Aborted" \/ v = HeadOf(chain)
                   /\ \A u \in chain : v \in Behind(chain, u) => ~ Cuts(chain, u, min)}

GcPrune ==
    /\ gc.at = "marked"
    /\ versions' = [k \in Key |-> GcVersionChain(versions[k], gc.min)]
    /\ gc' = [gc EXCEPT !.at = "pruned"]
    /\ UNCHANGED <<pc, txVars, wkey, lockVars, ts, writes, ghostVars>>

\* commit_timestamp.unwrap_or(start_timestamp) < min_ts
Collectable(t, min) ==
    /\ state[t] \in {"Committed", "Aborted"}
    /\ (IF state[t] = "Committed" THEN commitTs[t] ELSE start[t]) < min

GcTransactions ==
    /\ gc.at = "pruned"
    /\ state' = [t \in Tx |-> IF Collectable(t, gc.min) THEN "none" ELSE state[t]]
    /\ gc' = [gc EXCEPT !.at = "idle"]
    /\ UNCHANGED <<pc, start, commitTs, active, writeSet, wkey, versions, lockVars, ts, writes,
                   ghostVars>>

-----------------------------------------------------------------------------
Next ==
    \/ \E t \in Tx :
          \/ BeginTimestamp(t) \/ BeginActive(t) \/ BeginInsert(t)
          \/ \E k \in Key : WriteStart(t, k)
          \/ Acquire(t) \/ LockTimeout(t) \/ WriteVersion(t)
          \/ CommitTimestamp(t) \/ CommitPrepare(t) \/ CommitVersions(t) \/ CommitState(t)
          \/ AbortState(t) \/ AbortVersions(t) \/ ReleaseAll(t)
    \/ GcWatermark \/ GcPrune \/ GcTransactions

Spec == Init /\ [][Next]_vars

-----------------------------------------------------------------------------
(* Correctness.                                                             *)

\* Snapshot isolation: as long as a transaction is active it reads what was
\* committed when its timestamp was fetched, whatever is written, committed,
\* aborted or collected meanwhile; for the transactions that did not begin
\* while a commit or a collection was under way, the two races that break it.
SnapshotReads ==
    \A t \in Tx : pc[t] = "ready" /\ state[t] = "Active" /\ clean[t] =>
        \A k \in Key : Read(t, k) = seen[t][k]

\* The committed versions of a chain are in the order of their commit
\* timestamps, although timestamps are fetched outside every lock: the first
\* visible version is then the latest one.
ChainOrdered(k) == \A v, w \in Committed(k) : v.at < w.at => v.ts < w.ts

\* The locks serialize the writers of a key: two transactions never have its
\* lock at the same time; a version that is still being written belongs to a
\* holder of the lock, so that nobody stacks a version on the unfinished one of
\* another; and the chain that comes of it is ordered.
WritersExclude ==
    \A k \in Key :
        /\ Cardinality(holders[k]) <= 1
        /\ \A v \in versions[k] :
              v.state = "Active" /\ pc[v.by] \notin {"done", "release"} => v.by \in holders[k]
        /\ ChainOrdered(k)

\* A transaction whose commit or abort returned Ok has left nothing behind: no
\* lock, no place among the waiters, and no chain that starts with a version
\* of its that is neither committed nor aborted.
NothingLeftBehind ==
    \A t \in Tx : pc[t] = "done" =>
        \A k \in Key :
            /\ t \notin holders[k] \cup waiters[k]
            /\ versions[k] # {} /\ HeadOf(versions[k]).by = t =>
                 HeadOf(versions[k]).state # "Active"

-----------------------------------------------------------------------------
(* The inductive invariant behind them.                                     *)

Version ==
    [by : Tx, state : {"Active", "Committed", "Aborted"}, ts : Nat \cup {NoTs}, at : Nat \ {0}]

Opening == {"new", "beginActive", "beginInsert"}
Labels == Opening \cup {"ready", "locking", "granted", "commitPrepare", "commitVersions",
                        "commitState", "abortVersions", "release", "done", "failed"}

TypeOK ==
    /\ pc \in [Tx -> Labels]
    /\ state \in [Tx -> {"none", "Active", "Preparing", "Committed", "Aborted"}]
    /\ start \in [Tx -> Nat \cup {NoTs}] /\ commitTs \in [Tx -> Nat \cup {NoTs}]
    /\ active \in [Tx -> SUBSET Tx] /\ writeSet \in [Tx -> SUBSET Key]
    /\ wkey \in [Tx -> Key]
    /\ versions \in [Key -> SUBSET Version]
    /\ holders \in [Key -> SUBSET Tx] /\ waiters \in [Key -> SUBSET Tx]
    /\ ts \in Nat /\ writes \in Nat
    /\ gc \in [at : {"idle", "marked", "pruned"}, runs : Nat, min : Nat]
    /\ seen \in [Tx -> [Key -> Nat]] /\ clean \in [Tx -> BOOLEAN]

\* The numbers of a chain tell its versions apart, and one of them is the head.
Numbers(chain) == \A v, w \in chain : v.at = w.at => v = w
IsHead(h, chain) == h \in chain /\ \A w \in chain : w.at <= h.at
ChainInv ==
    \A k \in Key :
        /\ Numbers(versions[k])
        /\ versions[k] # {} => \E h \in versions[k] : IsHead(h, versions[k])

\* Where a transaction is and what it has: its timestamps, its locks.
PhaseInv ==
    \A t \in Tx :
        /\ start[t] < ts /\ commitTs[t] < ts
        /\ pc[t] \in {"commitPrepare", "commitVersions", "commitState"} => commitTs[t] # NoTs
        /\ commitTs[t] # NoTs =>
             pc[t] \in {"commitPrepare", "commitVersions", "commitState", "release", "done"}
        /\ pc[t] \notin {"new"} => start[t] # NoTs
        /\ pc[t] \in {"new", "beginActive"} => active[t] = {}
        /\ state[t] = "Active" => pc[t] \in {"ready", "locking", "granted", "commitPrepare"}
        /\ pc[t] \in {"locking", "granted"} => wkey[t] \in writeSet[t]
        /\ pc[t] = "granted" => t \in holders[wkey[t]]
        /\ pc[t] = "done" => \A k \in Key : t \notin holders[k] \cup waiters[k]

\* A lock has one holder, a transaction that has begun.
LockInv ==
    \A k \in Key : \A t \in holders[k] : pc[t] \notin Opening /\ \A u \in holders[k] : u = t

\* A version is on a key its transaction wrote and has locked until it is done;
\* it is committed by the commit of its transaction, with its timestamp.
VersionInv ==
    \A k \in Key : \A v \in versions[k] :
        /\ k \in writeSet[v.by]
        /\ pc[v.by] # "done" => v.by \in holders[k]
        /\ v.state = "Committed" =>
             v.ts = commitTs[v.by] /\ v.ts # NoTs /\ pc[v.by] \in {"commitState", "release", "done"}

\* A holder that commits has a timestamp above the versions it found.
OrderInv ==
    \A k \in Key :
        /\ ChainOrdered(k)
        /\ \A v \in Committed(k), t \in holders[k] :
              commitTs[t] # NoTs /\ t # v.by => v.ts < commitTs[t]

\* A commit or an abort that has passed the versions left none of its heads open.
LeftInv ==
    \A t \in Tx, k \in Key :
        (/\ pc[t] \in {"commitState", "release", "done"}
         /\ versions[k] # {}
         /\ HeadOf(versions[k]).by = t)
            => HeadOf(versions[k]).state # "Active"

\* A transaction with a clean snapshot: the collector leaves what it reads, the
\* commits before it are over and not in its active set, and of the versions
\* committed up to its start the first is the one it saw.
Reads(t) == pc[t] \in {"beginActive", "beginInsert"} \/ state[t] = "Active"
Before(t, k) == {v \in Committed(k) : v.ts <= start[t]}
SnapshotInv ==
    \A t \in Tx : clean[t] /\ Reads(t) =>
        /\ gc.at # "idle" => gc.min <= start[t]
        /\ \A u \in Tx : commitTs[u] # NoTs /\ commitTs[u] <= start[t] =>
              pc[u] \in {"release", "done"} /\ u \notin active[t]
        /\ \A k \in Key : FirstOf(Before(t, k)) = seen[t][k]

MvccInv == ChainInv /\ PhaseInv /\ LockInv /\ VersionInv /\ OrderInv /\ LeftInv /\ SnapshotInv
=============================================================================
