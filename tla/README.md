# Verification of Aegis-DB

TLA+ models of the parts of Aegis-DB that are hard to get right and hard to test: consensus,
two-phase commit and the replicated data types of `aegis-replication`; the redo log of
`aegis-server` with the key-value store, the timeseries and the documents that recover from it;
the server's backups, its SQL engine and the operators of `aegis-query`; the transactions and the
write-ahead log of `aegis-storage`; the indexes of `aegis-document`; the channels of
`aegis-streaming`; the connection pool of `aegis-client`. TLC checks the models on small
instances; TLAPS proves the properties that matter most for every value of the constants.

## 1. The system

Aegis-DB is a multi-model database in Rust: one server process (`aegis-server`) with an HTTP
API in front of a dozen engines, and libraries for storage, replication, queries and streaming.
Paths below are relative to `src/crates/`.

### Components

| Component | State it keeps | Operations | Hard behaviour | What makes it correct | Module |
|---|---|---|---|---|---|
| Raft consensus (`aegis-replication/src/raft.rs`, `log.rs`) | term, vote, role, known leader, votes, log, commit and apply index, per-peer indices, lease | elections, vote handling, propose, AppendEntries and its answers, apply, lease check, snapshots | lost, late, repeated messages; competing candidates; restarts; log conflicts | one leader per term, logs agree, committed entries stay | `Raft`, `ReplicatedLog`, `LogRepair` |
| Replication engine, transport (`engine.rs`, `transport.rs`) | inbox, node, state machine | `tick`, `process_message`, `propose` | delivery order | a node handles one message at a time | actions of `Raft` |
| Cluster membership (`cluster.rs`, `node.rs`) | members, health, heartbeats | join, leave, heartbeat, failure check | timeouts racing heartbeats | a live member is not declared down | planned |
| Two-phase commit (`transaction.rs`) | coordinator: transaction states, votes, acknowledgements; participant: prepared operations, locked keys, committed | prepare, vote, commit, abort, acks, timeout, cleanup | late and lost messages, timeouts, requests a node handles side by side | no participant commits what another aborts; conflicting transactions in one order | `TwoPhase`, `AtomicCommit` |
| Shards, router, hash ring | ring, shard map | place, route, move | moves against requests | every key has one owner | planned |
| CRDTs, vector clocks (`crdt.rs`, `vector_clock.rs`) | counters, sets, registers, maps; vector, Lamport and hybrid clocks | update, merge, tick, receive | order and repetition of merges, clocks that disagree | merge is a join; timestamps follow causality | `Crdt` |
| Redo log (`aegis-server/src/oplog.rs`) | segments by generation, dirty flag, gate | `append`, `sync`, `cut`, `retire`, `open` | kill, power loss, failed writes, fsync against append | what was acknowledged is replayed | `OpLog` |
| Key-value store (`state.rs`, `KvStore`) | entries with TTL | `set`, `get`, `delete`, `list`, replay | checkpoint against writers, expiry against replay | a restart restores what readers saw | `RedoLog` |
| Timeseries durability (`state.rs`, `aegis-timeseries/src/engine.rs`) | points | `write_points`, `capture`, `save_captured`, `load_from_disk` | appending is not idempotent | each point once | `RedoLog` |
| Timeseries tiers (`aegis-timeseries/src/engine.rs`, `cold.rs`) | points and sealed blocks in memory, frames on disk, two series indexes | write, query, evict, compact, checkpoint, restart | points between the tiers; appends that fail or are killed; windows by the clock | a point is found until it is too old | `TimeTiers` |
| Document engine (`aegis-document`, `handlers.rs`) | collections, documents, indexes | insert, update, delete, create, drop, compress, indexes, queries | mutation and record under different locks, and so documents and indexes | a restart restores what was acknowledged; an index changes no answer | `DocRedo` (durability), `DocIndex` |
| Checkpoints (`AppState::save_to_disk`, `main.rs`) | checkpoint mutex, files | cut, save each engine, retire | kill between any two files, error at any file | covered generations go last | `RedoLog`, `DocRedo` |
| SQL engine of the server (`QueryEngine`) | one `ExecutionContext` shared by all requests: row versions, version clock, snapshot version; the database file | execute, BEGIN, COMMIT, ROLLBACK, persist, replication of statements to peers | requests between BEGIN and ROLLBACK; persists that overlap; restarts | keys unique, scans see live rows (the documentation promises more, see `sql_isolation`), acknowledged is durable, rollback undoes its transaction | `SqlEngine` |
| SQL operators (`aegis-query/src/executor.rs`) | position, batch and match state of each operator between two calls | scan, filter, sort, joins, grouping, set operations, limit; predicates | batch boundaries, early returns, NULLs | results equal the relational definition | `QueryOps`, `Expressions` |
| Storage transactions (`aegis-storage/src/transaction.rs`) | transactions, locks, version chains, timestamps | begin, read, write, delete, commit, abort, GC | lock waits and timeouts, GC against readers, calls of several locks | snapshot reads, one writer, ordered chains | `Mvcc` |
| Storage WAL (`aegis-storage/src/wal.rs`) | LSNs, segments, buffer | log calls, append, rotate, flush, checkpoint, truncate, recover | crash and failed writes anywhere, concurrent appends | committed work is redone, the rest undone | `Wal` |
| Pages, buffer pool | frames, pins, dirty bits | fetch, unpin, flush, evict | eviction against pins | no pinned or dirty page is lost | planned |
| Streaming, CDC (`aegis-streaming`) | channels, rings, subscribers, acknowledgements | create, delete, publish, subscribe, unsubscribe, receive, ack | slow readers, deletion under readers | no event lost in silence; a reader catches up and learns of the end | `Streaming` |
| Client pool (`aegis-client/src/pool.rs`) | idle connections, permits, counters, closed flag | get, give back, close | timeouts, callers that give up, failing connections, close against all of them | no permit leaks, no connection has two users | `ClientPool` |
| Backup and restore (`aegis-server/src/backup.rs`) | the copies of the files | create, restore, and the restart the handler asks for | files replaced under a running server | a restart loads what was restored | `Backup` |
| Rolling updates (`aegis-updates`) | plan, node states | step, health check, rollback | failure half way | never too few healthy nodes | planned |
| Vault, shield, other engines, graph, API, dashboard, CLI, SDKs | see `PROJECT.json` | | | | not modelled |

How they interact. An HTTP handler changes an engine and then makes the change durable through
`AppState`: the key-value store logs under its own write lock, `write_points` applies and logs
inside `OpLog::record` (which holds the checkpoint gate shared), documents are read back and
logged under `doc_log` after the engine has changed. A background thread calls `OpLog::sync`;
`main` calls `save_to_disk` on a timer and at shutdown. On start `AppState::with_secrets` loads
the files and replays the log. `aegis-replication` is a library on its own: the server replicates
SQL statements to its peers by plain HTTP posts, not through Raft.

The hazards this leads to, each at the line where it bites and with the properties that would
catch it, are listed in `PROJECT.json`.

## 2. Modules and what they model

### Consensus

`ReplicatedLog` has the pure operators of `log.rs` and of the handlers that use it: `IsUpToDate`,
`TruncateConflict`, `AppendTo`, `FindFirstIndexOfTerm`, `EntriesFrom`.

`Raft` is one module for `RaftNode`. Its variables are the fields of `RaftState`, `RaftNode` and
`ReplicatedLog`; the two commit indices of the code, the one in `RaftState` and the one in the
log that `apply_committed` reads, are two variables.

| Action | Code |
|---|---|
| `BroadcastElection` | `ReplicationEngine::broadcast_election` with `start_election` |
| `HandleVoteRequest`, `GrantsVote` | `handle_vote_request` |
| `HandleVoteResponse`, `BecomeLeader` | `handle_vote_response`, `become_leader_with_term` |
| `Propose`, `SendAppendEntries` | `propose`, `create_append_entries` |
| `HandleAppendEntries` and its parts `RejectStaleLeader`, `FollowLeader`, `RejectMissingPrev`, `RejectPrevTerm`, `AcceptEntries` | `handle_append_entries`, one part per return of the function |
| `HandleAppendEntriesResponse`, `LeaderCommit`, `BackOff` | `handle_append_entries_response` with `try_advance_commit_index` |
| `ApplyCommitted`, `CheckLease` | `apply_committed` as called by `tick`; `check_lease`, public and called by no code of the repository but its tests |
| `ProcessMessage` | `ReplicationEngine::process_message` |

A handler is one step because `process_message` takes the engine by `&mut`. The network is a set
that only grows, so any message may be lost, delayed, reordered or delivered again. Clocks are
left out: an election timeout may elapse and a lease may run out at any moment, which only adds
behaviours. Snapshots and compaction are left out because the engine never takes a snapshot and
`process_message` routes no snapshot message; the index of an entry is its position.

`LogRepair` has one leader and one follower alone, exchanging AppendEntries until
the logs agree, with every pair of logs earlier leaders can have left as an initial state (checked
through `MCParts`).
`MCRaft` and `MCRaftMatch` hold what TLC needs: symmetry, a view, constraints.

### Durability

`OpLog` is the log itself: the records of every segment on disk, how many of them are fsynced,
the generation being written, the dirty flag and where the sync thread is. Its operators
(`AppendOp`, `SyncSwap`, `SyncData`, `Rotate`, `CutClean`, `RetireOldest`, `ReopenAfterKill`,
`ReopenAfterPowerLoss`) become actions in the modules that extend it. A record is written by one
`write` call and so survives the process at once and the machine once fsynced; after a power loss
each segment may keep any number of its records past the fsynced ones. `cut` is two steps because
the code clears the dirty flag after it released the writer's lock.

`RedoLog` puts `KvStore` and the timeseries on it, and `save_to_disk` as a program counter with
one step per lock or file: `Cut`, `Capture`, `ListKv`, `SaveKv`, `SaveTs`, `Retire`,
`RetireDone`, and `CheckpointError` wherever the code returns an error. `Kill` and `PowerLoss`
are possible at every step and include the restart. What a restart would rebuild is an operator
of the current state (`RecoveredKv`, `RecoveredTs`), so the properties speak of a kill *now*
without waiting for one. A value is the number of the write that made it, so two writes are never
confused; a TTL is the possibility of expiring, at any time.

`DocRedo` puts the document engine on it. A request is several steps, as in the code: the engine
changes, then `persist_docs` takes `doc_log` and reads the document back (`PersistRead`), then it
logs what it read (`PersistLog`); creations and drops are logged as what was requested
(`LogCreate`, `LogDrop`), a drop then deletes the file (`RemoveFile`), and `compress_collection`
writes a file it read earlier (`WriteCompressed`). The checkpoint finds and writes one collection
after the other.

`Backup` extends `RedoLog` with the two handlers of `backup.rs` for the key-value store. A backup
is a checkpoint (`CreateBackup`) and then a copy of the file (`CopyFiles`); a restore writes the
copy over the file and touches neither the store in memory nor the log (`RestoreBackup`); the
restart it asks for is a checkpoint (`ShutdownSignal`) and then the end of the process and the next
start (`ExitAndStart`). Nothing fails in this module.

### Distributed transactions

`TwoPhase` has the coordinator (`state`, `vote`, `acked`), a `ParticipantHandler` on every node
(`pending`, `locked`, `committed`, and `applied`, what its commit callback was called for) and the
messages between them, each delivered at most once, in any order, or lost. Every method of the
coordinator is an action; `check_timeouts` only names transactions, and what follows from it,
`Abort`, may happen at any moment. The methods of the handler take `&self` and one lock after the
other, so a node may be handling several requests: `calls` has them by the step they have come to.

| Step | Code |
|---|---|
| `HandlePrepare` | `basic_validation`, under the read locks of both maps (transaction.rs:786-828); a refusal is answered at once |
| `PrepareLock`, `PrepareStore` | the two insertions of `handle_prepare` (757-770), each under a lock of its own; the answer is sent with the second one |
| `HandleCommit`, `CommitApply` | `handle_commit` takes the operations out (865-869) and calls the commit callback with them, if there were any (871-883) |
| `HandleAbort` | `handle_abort` takes the operations out (919-922) |
| `Unlock` | the end of both: the keys, the set `committed`, the answer |

`prepared` has the same transactions as `pending` at every step that matters and is not a variable.
`raced` is a ghost: the pairs of transactions of which one passed the validation of a node while it
was preparing the other one.

The library leaves open who sends its messages and what is done with a vote that comes late. The
constant `Careful` says which caller is meant: a careful one hands a vote over only while the
transaction is Preparing and never aborts one it has begun to commit. A second round of prepare
requests (`MaxAttempts`) models a retry; no other message is sent again.
`handle_prepare_with_validation` and a validation callback vote by rules of their own and lock no keys
the handler would know; both are left out.

`AtomicCommit` is what the protocol promises: a transaction is decided once, committed only while
every node holds its operations, and a node runs them only after that decision. `TwoPhase`
implements it (`CommitIsAtomic`), with the decision read off the requests the caller has sent.

### Replicated data types

`Crdt` is about one type per behaviour (`kind`): counters, two-phase and observed-remove sets,
last-writer and multi-value registers, the last-writer map, and the clocks. Replicas update,
snapshots of their state are sent, and merged anywhere, any number of times or never. The history
`log` and `seen` say which updates a replica has the effect of; the properties compare replicas
and timestamps with it. `Past` of an update is what was known where it was made. A multi-value register is a map
from values to clocks, as in the code: a write, and a merge, which sets the other's values one after
the other in the order of its hash map (`MvMerges`: any), overwrite the clock of an equal value
(`MvSet`). The values of such a register are few (`MvValue`), so that equal ones are written at once.

### The SQL engine

`SqlEngine` is `QueryEngine::execute` over one `ExecutionContext`: rows with their creation and
deletion versions, the version clock and the snapshot version, shared by all requests, and each
request's script of statements with its copy for ROLLBACK. A statement runs under the table's lock
and is a step; `persist` reads the context in one step (`PersistRead`) and replaces the file in
another (`PersistWrite`), or fails to, which is only logged (`PersistFails`): the request goes on
as if it had. UPDATE changes a row in place, its key column too (`AssignKey`), and looks at no other
key; `moved` marks the rows whose key it assigned. `EarlyReturn` is the `?` that leaves `execute` in the middle of a
transaction, `Restart` a kill with the next start. A row stays where it was put: `rows` maps the
places that are taken, the number of the statement and of the row within it, to rows, so that
removing rows moves none.

`QueryOps` has the operators below: `ScanNext`, `JoinFetch`, `JoinProbe`, `JoinNextLeft`,
`JoinBatchDone`, `AggregateNext`, `Materialize` and `MaterializedNext` (sorting and set operations,
which drain their input first), with `Ask` and `Deliver` for LIMIT and OFFSET and `Gather` for
`execute_query`. One step is one iteration of a loop in a `next_batch`; the variables are what an
operator keeps from one call to the next. A join goes through the candidates of a left row in their
order (`Candidates`, `IsNext`): all rows on the right in a nested loop, those with the left row's hash
key in a hash join. The initial states are all queries over all small tables, and the properties
compare the result with the relational definition.

`Expressions` evaluates the predicates of a WHERE clause twice: as the executor does (`Evaluate`,
`Passes`, over `CompareValues`) and as SQL's three-valued logic does (`SqlValue`). They are
comparisons, IS NULL, IN and BETWEEN over one column, and NOT, AND and OR over those.

### Storage

`Mvcc` is the transaction manager. Each call is as many steps as it takes locks: `begin` is
`BeginTimestamp`, `BeginActive`, `BeginInsert`; a write is `WriteStart`, `Acquire` (or
`LockTimeout`), `WriteVersion`; commit and abort mark state and versions separately and release
last; the collector reads its watermark, prunes the chains and then the map. A version chain is a set
of numbered versions, the greatest number at its head. `GcVersionChain` says which versions one
pass of the collector keeps; the code is a recursion over the chain, which `MCMvcc` has as well
(`GcRecursively`), and TLC checks that the two agree on every chain of up to five versions. Reading changes
nothing, so the properties ask `Read` in every state.

`Wal` is the write-ahead log with one thread per transaction and one for checkpoints: a log call
takes its LSN first (`Call`), finds room or rotates (`AppendFull`, `Rotate`), writes, and a commit
flushes. `WriteError` and `FlushError` are failing calls; `CrashRestart` keeps any prefix of what
was not fsynced, a cut frame included, and goes on as `open_and_recover` does. What recovery would
report is an operator (`RecoverFrom`) that the properties evaluate for every crash that is
possible *now*. The code folds the records of all segments into two maps; `RecoverFrom` says the
same of the log as a whole, a function of places (segment, frame) in their order: `tx_status` says
true of a transaction whose last begin, commit or abort is a commit (`StatusTrue`), it has one that
a begin, a commit or a checkpoint put in after the last abort (`StatusKnown`), and `tx_records`
has the data records behind the last begin (`Collected`, `Records`).

### Document indexes

`DocIndex` is one `Collection` with its indexes. Documents and indexes are under two locks: insert
and update store the document in one step (`InsertDoc`, `UpdateDoc`) and index it in another
(`FinishStore`), while `create_index` keeps the documents from being written between filling the
new index (`CreateIndex`) and adding it (`FinishCreate`). `Find` answers from the indexes as
`find_indexed_candidates` and the filter after it do, `Scan` by looking at every document.

### Timeseries tiers

`TimeTiers` is one series of the timeseries engine. A block is the sequence of its points and has
the bounds the compressor records, the first and the last point put in. The retention task is
`EnforceRetention` (points leave memory under the lock), `AppendFrames`, `AppendIndex` or
`AppendFails` (the cold tier, afterwards), and `CompactFile`, `CompactIndex`, `Unregister` (once a
day); a write is `RegisterSeries` and `InsertPoint`, a checkpoint `CaptureHot`, `SaveHot`,
`RetireRedo`. `KillServer` loads the file, replays the redo log and knows the series of the saved
cold index. `Query` is an operator the property evaluates over every range, with every limit and
without one (`NoLimit`): a query with a limit decodes a block only if it has not met that many points
in the blocks that end later (`Met`), as the loop in `query` stops.

### Streaming, the client pool, and the run of the parts

`Streaming` is a channel name of the engine with the channel objects that have it one after the
other, each with a ring of the last `Capacity` events (tokio's broadcast channel, external), and
receivers with their filter, position and acknowledgement state. `subscribe` is three steps, as in
the code; `recv` is one of `Lagged`, `Skip`, `Deliver`, `End`.

`ClientPool` is `ConnectionPool` with tasks that call `get` and drop what they got, connections
that break at any moment, and a task that closes the pool. `get` is one step for each place where
it waits (permit, receiver's lock, new connection) and one for each connection it looks at; its
caller may give up at any of these places. `close` waits for the receiver's lock (`Close`,
`CloseLock`), takes a connection out (`CloseDrain`), waits while it is logged out, and counts it off
(`CloseConnection`); its caller may give up at both waits (`CloseGivenUp`), which leaves
`current_size` too high by a connection that is out (`forgotten`). Giving back is two steps, the permit (`ReleasePermit`)
and then the connection (`GiveBack`).

`LogRepair`, `Streaming`, `ClientPool`, `DocIndex` and `TimeTiers` share no state. `MCParts` puts
them into one specification whose behaviours are behaviours of one of the five, chosen in the
initial state. `MCStorage` does the same with `Mvcc` and `Wal`; at most two threads at a time
are inside a call of the one that runs (`FewCalls`, `FewLogCalls`).

## 3. What TLC checks

### Runs whose properties hold

| Run | Instance | Properties |
|---|---|---|
| `raft_safety` | 3 nodes, 2 terms, logs of 2 entries before a proposal is refused, at most 2 AppendEntries in the network; about 109 000 states | `TypeOK`, `ElectionSafety`, `LeaderHintsAgree`, `LogMatching`, `StateMachineSafety`, `LeaderCompleteness`, `VoteOncePerTerm` |
| `redo_recovery` | one key, 2 writes of which one may expire, one point, 3 generations; about 540 000 states | `TypeOK`, `KvRecovered`, `PowerLossBounded`, `PointsRecovered` (`PointsKept` and `PointsExact`) |
| `doc_recovery` | 2 clients, one document, all six requests, 4 of them, 4 generations, checkpoints and kills; 1.7 million states | `DocsRecovered`, `DroppedStaysDropped` |
| `two_phase` | 2 transactions with a common key, 2 nodes, 2 requests handled at a time at a node, and one upset: prepare requests of one transaction sent twice, 1 message lost, or requests handled side by side; 375 000 states | `NoMixedOutcome`, `SameOrder`, `CommitCompletes`, `CommitIsAtomic` (refinement) |
| `storage`, transactions | 3 transactions, 1 key, 2 writes, 1 collection, 2 calls under way at a time | `SnapshotReads`, `WritersExclude`, `NothingLeftBehind` |
| `storage`, log | 2 transactions and a checkpointer, segments of 2 records, 5 records, 2 calls under way at a time, 1 crash or failure; 624 000 states for the two together | `RedoExact` (`CommittedIsRedone` and `RedoIsWhole`), `UndoComplete` |
| `sql_engine` | 2 requests side by side, 2 keys, 4 statements, 1 restart; 1.4 million states | `PrimaryKeyUnique`, `ScanSeesLiveRows`, `AckedIsDurable`, `AllOrNothing` |
| `query_ops` | every query of 15 operators over all tables of up to 3 rows with values NULL, 1, 1.0, 2, and every kind of predicate; batches of 2 and 3 rows; 1.0 million states | `JoinExact` (`JoinSound` and `JoinComplete`), `ResultExact` (`LimitExact`, `SortExact`, `SetAlgebra` and `GroupsPartition`), `QueryEnds` (liveness) |
| `crdt` | 3 replicas, 3 updates, 3 snapshots, registers of 2 values, clocks that read 1 or 2; 1.26 million states | `Converges`, `ValueExact` (`CounterExact`, `ConflictsKept`, `AddsDistinct`), `CausalOrder` |
| `parts`, log repair | every pair of logs of up to 4 entries of 3 earlier terms | `OneTermReconciled` (liveness) |
| `parts`, channel | 1 consumer, 2 kinds of event, ring of 2, 4 events, channel created twice | `NoSilentLoss`, `AckAccounting`, `ReceiverCatchesUp` (liveness) |
| `parts`, pool | 2 users, 1 connection at least and at most, 4 opened in all, close at any time, and given up | `PoolAccounting`, `PoolBounded` |
| `parts`, documents | 1 document with 2 fields, 2 callers, 3 stores, 2 indexes, all queries of up to 2 filters | `FindComplete` |
| `parts`, timeseries tiers | 3 points, blocks of 2, a hot window of 1 and a cold window of 2 time units out of 5, 1 checkpoint, 1 kill; 223 000 states for the five together | `PointsFound` |

*Why the bounds are enough.* Two terms and three nodes are what it takes for two candidates to
compete, for a deposed leader's messages to arrive late and for entries of one term to be
overwritten in another. The cap `MaxEntries` of `raft_safety` is not reached, which is deliberate:
with a cap that is reached, `LeaderCompleteness` fails (run `raft_match`). The view of `MCRaft`
identifies states that differ in votes of non-candidates and peer indices of non-leaders, both
reset before they are read, and in messages whose delivery changes nothing any more. Three
generations are two checkpoints, or a checkpoint and a restart, and the recovery properties look
at the restart after that one as well, because they evaluate replay in every state. Keys and
points do not interact except through the log, so one of each shows what there is to show; the
theorem on the store is for any number of keys. Two transactions on one key are a conflict, two
nodes disagree if any do, and a second round of prepare requests is what comes late after the
decision; two requests handled side by side are a race. `MCTwoPhase` lets only one of lost message,
second round and overlapping handlers happen in a behaviour (`OneUpset`), because each is a way to
break the protocol by itself, keeps handlers of different nodes apart, which share nothing
(`FewCalls`), and drops from its view what a careful caller no longer looks at. In `storage`
three transactions are a writer, a second one and a reader; `MCMvcc` compares timestamps by their
order only. Segments of two records are rotated twice within five records. In `query_ops` three
rows are one full batch and a rest, and a result of three rows fills a call. Two receivers of a
channel share only its subscriber count. With one permit and two users the second one's `get`
meets the first one's return half way. An index has entries of a document whatever other
documents there are, so one document stands for all; two fields make an index that helps and one
that does not. The bounds are the constants named `Max...`, and
`SegmentSize`, `ScanBatch`, `ResultLimit` and `Capacity` are small values of the code's own limits.

Deadlock checking is off: every model stops at its bounds, or when its query is answered, although
the system would go on.

*Fairness.* `MCParts` assumes weak fairness of `Exchange`: a leader sends to every peer at each
heartbeat, and a message that is not lost is answered. `QueryOps` assumes that a query that is
running gets on, being one thread in a loop. For the channel `MCParts` assumes that a consumer calls `recv` again
and again, as the handler behind a server-sent event stream does, and that a thread inside
`subscribe` gets on; publishers, deletions and acknowledgements are under no obligation.

*What the properties except.* Where the code is known to break a property in one situation, the
property is stated for the others and the situation is named in the module:

| Property | Excepts | Because |
|---|---|---|
| `PointsExact` | the moment between the new timeseries file and the deletion of the covered generations | a kill there replays points the file already holds (state.rs:870-885), although state.rs:732 says the checkpoint must hold "exactly the logged points before its cut" |
| `DocsRecovered`, `DroppedStaysDropped` | drops and compressions beside other requests or a checkpoint (`DropsAlone`) | a drop is logged after an insert that recreated the collection, and `compress_collection` writes an older copy over the file of a newer checkpoint |
| the same | collections whose drop was killed between its record and the removal of the file (`orphans`) | a later checkpoint retires the record, and the file brings the collection back |
| `SameOrder`, `KeysExclusive` | pairs of transactions of which one passed the validation of a node between validation and insertion of the other (`raced`) | `basic_validation` releases its locks before `handle_prepare` inserts (transaction.rs:757-770): both get a vote to commit, and two nodes may run them in different orders |
| `NoMixedOutcome`, `CommitIsAtomic`, `CommitCompletes` | callers that are not careful (`Careful`) | `handle_prepare_response` and `handle_abort_ack` change the state of a decided transaction, and `can_abort` allows an abort while Committing |
| `SnapshotReads` | transactions that began while a commit or a collection was under way (`clean`) | the three steps of `begin` are not one |
| `NothingLeftBehind` | aborts that returned an error | the collector removes an aborted transaction before `abort` has marked its versions and released its locks |
| `PrimaryKeyUnique`, `ScanSeesLiveRows` | states after a restart that put the clock behind the rows (`skewed`) | `from_snapshot` starts the version clock at 1 |
| `PrimaryKeyUnique` | rows whose key column an UPDATE has assigned (`moved`) | `update_rows` assigns any column and checks no key (executor.rs:1033): `UPDATE t SET id = 1` may leave two live rows with key 1 |
| `AckedIsDurable` | requests whose file could not be written (`unsaved`) | `persist` logs the error and returns (state.rs:1983-1992), and the statement is acknowledged |
| `AckedIsDurable`, `AllOrNothing` | requests beside which another one ran (`alone`) | overlapping persists may write the older image last; ROLLBACK restores the whole context |
| `JoinComplete` | hash joins above the size of one batch, columns of mixed numeric types, conditions other than equality | the rest of a left batch is dropped at an early return (executor.rs:2532); hash keys are debug texts; other conditions yield no candidates (`Resumable`) |
| `LimitExact` | filters with IN, BETWEEN, NOT or OR where the row or a literal is NULL (`WhereDecided`) | `compare_values` takes NULL as equal to everything (executor.rs:4118), so `x IN (1)` keeps rows where `x` is NULL; OR with one side NULL is NULL, NOT of NULL is true |
| `SortExact` | the order, not the rows, where the column has NULLs | the same comparison is not transitive: rows around a NULL stay unsorted |
| `PointsFound` | points between the tiers, and those an append that failed or was killed did not bring to the cold tier (`lost`) | evicted blocks are in no tier until `append` has written them, a checkpoint may leave them out meanwhile, and an error is only printed (engine.rs:742); frames behind a cut one are not read |
| the same | a series that a write had registered when `compact_cold` took it from the index (`unindexed`) | `write_batch` registers before it takes the lock under which `compact_cold` looks |
| the same | what follows a kill between checkpoint and retirement (`twice`) | points written twice may end up in one block, out of order, and its bounds are those of its first and last point |
| the same | queries with a limit after a restart (`kills`) | a point that the replay has brought back to memory while it is in the cold file counts twice towards the limit (engine.rs:354), before `dedup_by_key` |
| `Converges`, `AddsDistinct` | observed-remove sets and maps after a remove | `remove` leaves no tombstone |
| `Converges`, `ConflictsKept` | multi-value registers that have seen two concurrent writes of one value (`NoClash`) | the register has one clock for a value (crdt.rs:355-418): merged crosswise, replicas keep different clocks for ever, and a later write that knows of one of the two removes both |
| `PoolAccounting` | the connections of a `close` that was given up while it waited for their logout (`forgotten`) | the connection is dropped and `current_size` not decremented (pool.rs:207-210); the size is too high for good |
| `CommittedIsRedone`, `RedoIsWhole`, `UndoComplete` | transactions with a record that was written over, lies behind a cut frame or was truncated (`gone`) | the segment number after a restart is taken (wal.rs:310), `open_segment` appends behind a cut frame, truncation goes by number |

### Runs that show a disagreement between the code and what is said of it

`raft_match`: a follower answers with its last index, not with the last index the request covered.
If requests are capped below the missing suffix, old entries count as replicated and a later leader
lacks a committed entry. `MCRaftMatch` follows one history of elections to reach it; its
constraints only leave out behaviours.

`sql_isolation`: "Multi-statement transactions with snapshot isolation" (README.md:223, and 348; the
comments at state.rs:2094, executor.rs:173 and 200 say the same). A BEGIN puts the version clock into
the one context as its snapshot version, and the clock moves only with a COMMIT: a row that another
request inserts later has that version and is visible. An UPDATE by another request changes a row
in place, and the COMMIT or ROLLBACK of any request ends the snapshot for all. `SnapshotIsolation`
says only that a transaction that has changed nothing sees the rows there were at BEGIN; TLC needs a
BEGIN and an INSERT of another request. `ScanSeesLiveRows` is what the code does keep.

`restore`: a client writes while a backup is taken, behind what the backup copies, and the backup is
restored. The handler
answers "Please restart the server to load restored data" (backup.rs:1004). The server that is
stopped for it takes a last checkpoint (main.rs:766, handlers.rs:2824), which writes the store in
memory over the restored file, and it starts again without the restored data. One key and four
generations show it; TLC needs a single write.

### Known from the code, not the subject of a run

* `RaftState` is documented as persistent (docs/crates/aegis-replication.md:49) and never written:
  a restarted node votes again, and a term can have two leaders.
* `find_first_index_of_term` walks back from the end and may return an index past the conflict;
  with foreign entries of two terms leader and follower repeat two refusals for ever.
* After an append to the redo log that failed part way the writer goes on behind the torn frame;
  replay stops at it.
* `cut` clears the dirty flag after releasing the lock, and `open` never fsyncs the segments a
  killed process left. Both delay an fsync; `PowerLossBounded` therefore counts from the last fsync
  after which nothing older was unsynced.
* A block's bounds are its first and last point as they were put in, although `prune_before` speaks
  of "whole compressed blocks whose newest point predates" the cutoff (engine.rs:890): with points
  that come late, queries skip, eviction moves and compaction drops blocks that hold points in
  range. `TimeTiers` writes points in order.
* A query with a limit counts a point it meets twice, after a replay or while a block is in both
  tiers, before it removes duplicates, and may stop with fewer points than the limit.
* `delete_metric` logs nothing, so a deleted metric returns with a restart.
* A serializable commit of the storage engine waits for a lock its own thread holds.
* `Transaction::begin` of the client sends BEGIN as a request of its own, which ends with it.
* A stream handler never unsubscribes, so registrations accumulate up to `max_subscribers`.
* SELECT DISTINCT and COUNT(DISTINCT) are parsed and then ignored, as are NULLS FIRST and LAST; a
  subquery in an expression always fails, because no operator evaluates with an executor.
* Secondary indexes are built when they are created and not kept up by INSERT, UPDATE and DELETE;
  `execute_update_indexed_fn` and `execute_transfer_indexed` find rows through them, and a transfer
  of an account to itself adds the amount.
* A document index tells 0.0 from -0.0, the filter after it does not. A `Unique` index enforces
  nothing, although index.rs:26 says "no duplicates allowed". An insert that is indexed after its
  document was deleted leaves an index entry for ever; `find` ignores it. The server's handlers
  never create an index.
* A `close` of the pool that is dropped while it waits leaves `current_size` too high for good, and the
  connections behind the one it was closing in the channel. The bound on connections does not depend
  on `current_size`, only on permits and the channel.
* A connection that was handed out before `close` and comes back after it is queued and stays
  open: it goes by the flag as it was when it was handed out.
* `create_backup` goes on when its checkpoint failed, and copies the older files (backup.rs:882).
* A rolling update whose download fails stays in the state Staging, and the endpoints it posts to
  on the nodes (`/api/v1/admin/stage-binary`, `apply-update`, `drain`, `restart`) are not in the
  server's router.
* The buffer pool takes its two locks in both orders, and evicts dirty pages.

The hazards in `PROJECT.json` have these and more, at their lines.

### Mutants

Every property of a passing run has a mutant in `PROJECT.json`: a plausible slip in the
definition that translates the code (a dropped guard, a missing fsync, a lock not taken) under
which TLC finds the property violated. The mutated forms stand in the modules, each before the
definition it changes.

## 4. What is proved

`RaftProofs`, for every finite set of nodes, every set of values and every value of the bounds
(`NodeAssumption`, `BoundAssumption`):

* `TypeCorrect`: `Spec => []TypeOK`. The work is in the operators: truncating, appending and
  the index `FindFirstIndexOfTerm` chooses keep logs and indices in their types.
* `VoteOnce`: `Spec => VoteOncePerTerm`, one lemma per handler.
* `ElectionInvariant`, `ElectionSafe`, `HintsAgree`. `ElectionSafety` alone is not inductive:
  nothing in it ties a leader to the votes that made it one. `ElectionInv` adds that messages are
  honest (an AppendEntries comes from a node elected in its term), that a ballot in the network is
  remembered by its voter as long as it stays in the term, that no voter has ballots for two
  candidates in a term, and that every candidate, leader and known leader earned its role by
  ballots. Two quorums of a finite set meet (`QuorumsMeet`), so a term elects one node
  (`ElectedUnique`).

* `LogInvariant`, `LogsMatch`. `LogMatching` compares two logs; what makes it inductive compares
  *links*. A link is an entry with its index and the term of the entry before it, and every log
  and every AppendEntries in the network is a set of links (`Links`). `LogInv` says that the index and
  term of an entry settle its link (`LinksUnique`), that a term's entries come from a node elected
  in it that is past its candidacy (`TermsEarned`), and that none of them stands beyond the end of
  the log of that leader while it leads (`LeadersAhead`), so that what it appends is new. No step
  but an append by a leader makes a link that was not there: truncating, appending what a message
  carries and cutting a request out of a log only move links about. Two logs that agree on one link
  then agree on the one before it, down to the first.

`RedoLogProofs`, for every set of keys and every value of the bounds (`RedoAssumption`):

* `RedoTypeCorrect`: `Spec => []TypeOK`. It needs `CoveredClosed`: a checkpoint covers
  generations before the one being written, so retiring never deletes the open segment.
* `KvSurvivesKill`: `Spec => []KvRecovered`, through kills, power losses, failed and interrupted
  checkpoints. The last record of a key decides what replay gives it (`RecoveredIsLast`); an
  append is last and newer than any cut; retiring removes either records that are not the last of
  their key or, by `CopyCurrent` and `FileIsCopy`, the last record of a key that the checkpoint file
  holds as readers see it. `KvInv` is the conjunction.
* `PointsSurviveKill`: `Spec => []PointsRecovered`. Points are counted, not overwritten, so the
  invariant is an equation (`SavedUpTo`): what the file has of a point and the records after some
  generation make up what was logged. It holds for no generation or for the covered ones, and
  `PointsInv` follows which of the two while a checkpoint captures, writes and retires. The counting
  is cardinalities of sets of positions.
* `PowerLossIsBounded`: `Spec => []PowerLossBounded`. The property speaks of every way a power
  loss can cut every segment; `LossInv` replaces that by the records that are not fsynced (`Loose`):
  a key ends at a record after which all are loose, at the file when all are, or, once the
  checkpoint is written, at its copy, and each of these is something the key has held since the last
  fsync.

`TwoPhaseProofs`, for any transactions, nodes, keys, operations and bounds (`TwoPhaseAssumption`):

* `TwoPhaseTypeCorrect` and `KeysStayExclusive`, for every caller, with any number of requests handled
  side by side. What is exclusive is all a node has passed (`Held`: the prepared transactions and those
  it is preparing, `HeldInv`). The validation of a transaction rules out conflicts with the prepared
  ones; those being prepared it cannot see, and they make the pairs in `raced`, which are excepted. A
  handler's request stays on the net until it ends and is at one step (`CallInv`).
* `CommitInvariant`, and from it `CommittedApplied`, `OutcomeNotMixed` and `Refinement`, for a
  careful caller. None of these is inductive alone: that no commit follows an abort needs the
  coordinator's state to tell what was decided (`DecisionInv`); that a commit finds the operations
  needs every vote, in the network or counted, to bind its node until an abort is decided
  (`MessageInv`, `VoteInv`); that nothing runs twice needs a commit request to be on its way only to
  nodes that have not run the transaction, or to be at its last step (`StorageInv` with `MessageInv`).
* `OrderAgreed`: nodes run conflicting transactions in one order, unless a node has validated one while
  it was preparing the other. `OrderInv` compares decisions: of two conflicting transactions the one
  decided first has been run at every node that holds or has run the other (`First`). When the second
  is decided every node holds it, so by `HeldInv` none still holds the first. Between taking
  the operations out and running the callback, `handle_commit` holds only the keys: `LockInv` says that
  they are locked until then, so validation passes no conflicting transaction meanwhile.
* `Refinement`: `Spec => AC!Spec`; `GetReady`, `GiveUp`, `Decide` and `TakeEffect` are what a
  prepare, an abort, a request of the caller and a commit are mapped to.

* `CommitsComplete`: `CommitCompletes`, for a careful caller. `DeliveryInv` says for every node told
  to commit that either it has, or the request is still on its way or being handled, and the same of its
  acknowledgement, as long as nothing was lost; `CommittingInv` ties the coordinator's state to the
  acknowledgements it has counted.

`StorageProofs`, first for the transaction manager with any transactions and keys and any number of writes and collections
(`MvccAssumption`): `MvccInvariant`, and from it `SnapshotsHold`, `WritersAreExclusive` and
`NothingIsLeftBehind`. Each property needs all of the others' invariants. That what a clean
transaction reads does not change (`SnapshotInv`) rests on the order of the timestamps in a chain;
the order (`OrderInv`) on a lock's holder being the only one that commits versions to the chain,
with a timestamp fetched while it held the lock; that (`VersionInv`, `LockInv`) on locks that are
kept to the very end. For the collector the proof shows that, of the versions up to
its watermark, the newest committed one stays, and a clean transaction holds the watermark down.

`StorageProofs`, then for the write-ahead log with any transactions, segment size and bounds
(`WalAssumption`): `WalInvariant`, and from it `RedoIsExact` and `UndoIsComplete`. Neither property
is inductive: they look only at what a crash would leave, and say nothing of the call a
transaction is in. `WalInv` adds which call that is (`CallInv`), that records have distinct LSNs
below the next one, those to be written included (`LsnInv`), and of every transaction whose
records are all in the log that they are in order, the begin first, and complete once the commit
is written (`TxnInv`); after a commit returned they are below `synced`. The log is a function of
places, so the proof goes by what a step does to the places: an append adds one behind all others,
a rotation moves the frames of `wal_current.log` to a segment of the same number (`MovedAll`), a
truncation and a crash take places away, for a crash the last ones, and transactions that lose a
record are `gone`. What recovery makes of a log in which a transaction's records are in order and complete are
lemmas about `RecoverFrom` (`RecoveredCommit`, `RecoveredRedo`, `RecoveredUndo`).

`SqlProofs`, for any clients, keys and bounds (`SqlAssumption`): `SqlInvariant`, and from it
`KeysStayUnique`, `ScansSeeLiveRows`, `AckedStays`, `UndoneAsAWhole`; rows whose key an UPDATE has
assigned are excepted from the uniqueness of keys, and requests whose file could not be written from
what is durable. The check of a primary key by INSERT
looks only at rows the snapshot shows; it suffices because a snapshot is always of the present, since
whoever moves the clock ends it (`ClockInv`), and because all that the rows are ever replaced by,
the copy for ROLLBACK, the image a persist has read and the file, has unique keys too (`KeysInv`).
`AloneInv` follows a request beside which no other one runs.

Of the queries, for any tables, batch sizes and limits (`QueryAssumption`): `JoinInvariant`, and from
it `JoinsAreExact`. A join is at a place, a left row and a candidate, which its steps only move
forward (`PlaceOK`, `StaysBehind`). All it has given out, to the caller or into the rows of the running
call, lies behind that place, each row once (`GivenOnce`), so a call that resumes repeats nothing; and
no row behind it is missing (`NothingMissing`), in a cross join because an early return keeps batch and
indices, in the other complete joins because the rows given out, being different rows of the result,
are too few for one (`NeverFull`). For an outer join it needs that `matched` says whether the left
row has found a partner, which an early return would forget.

`DocRedoProofs`, for any collections, documents, clients and bounds (`DocAssumption`) and for
drops and compressions that run alone (`DropsAlone`, without which both properties fail):
`DocInvariant`, and from it `SettledDocsRecovered` and `DropsLast`. Replay is what the last
record of a document says, or the file where there is none (`DocsInv`). A request in
progress excuses a document (`Pending`) until its record is in the log, and the lock on
`doc_log` makes the value it logs the newest, or leaves another request to log a newer one
(`LockInv`). Retiring is covered as for the key-value store: what a checkpoint has read (`CopyInv`)
and written (`FileInv`) is up to date, or a record newer than the cut says better, or a request
will. A checkpoint skips collections that are gone, hence `CollInv` and `ExistsInv`.

`PartsProofs` has five parts that share no state:

* `PoolInvariant`, `PoolAccountingHolds`, `PoolBoundedHolds`, for any finite set of users and all
  bounds (`PoolAssumption`). `PoolInv` says for every place in `get`, give back and close where the
  task's permit and connection are, and that `close` keeps the receiver locked while it has a connection
out (`ReceiverLocked`), so that nobody finds the channel empty meanwhile; the number of connections is bounded by counting the tasks
  that hold a permit, are connecting or are giving back.
* `StreamInvariant`, `NoSilentLossHolds`, `AckAccountingHolds`, for any consumers, capacity and
  number of events (`StreamingAssumption`). `StreamInv` places every receiver in the history of its
  channel: what it got, what it was told it missed and what the ring still has are the whole.
* `DocIndexInvariant`, `FindCompleteHolds`, for any documents, contents, threads, fields and indexes
  (`DocIndexAssumption`). `Covers` is what an index, added or being built, has of a document: the entry
  of its present contents, unless a call that stored them is still to index them, or a thread is
  about to.
* `CrdtInvariant`, `ReplicasConverge`, `ValuesAreExact`, `ClocksTellCausality`, for every type, any
  number of nodes, elements, updates and snapshots (`CrdtAssumption`). The invariant of each type
  says what a replica, or a snapshot under way, holds as a function of the updates it has seen, so
  two that saw the same are equal: a counter or a vector clock has how many updates of each node,
  a register the newest write (`Latest`), a multi-value register the writes none of the others came
  after (`Maximal`), as long as no two concurrent ones seen are of one value (`NoClash`), a set the tags of its adds. A merge is then the function of the union
  (`JoinedCounts`, `LatestJoin`, `MaximalJoin`). That the larger of two counts is the count of the
  union rests on `HistoryInv`: what a replica has seen is closed under the past, and a node has
  seen its own updates, so of the updates of one node one replica always knows all that the other
  does (`KnownNested`). The invariant of OR-sets and maps speaks of elements that no remove is known
  of, as `Converges` does. `TotalCounts` is the sum of a counter, by the least place where two sums
  would differ.
* `TiersInvariant`, `PointsAreFound`, for every block size, both windows and any number of points,
  checkpoints and kills (`TimeTiersAssumption`). `PlacedInv` says where a point is that is neither on
  its way nor too old: in memory, or in the cold file of a series the cold index knows; and, for the
  next restart, in the file or the log, or in the copy of a checkpoint under way or the log behind
  it. It needs that blocks are in the order of time (`OrderInv`), since eviction, compaction and
  queries look only at the first and the last point of one. A restart keeps this order because the log
  begins where the file ends, unless the kill was between checkpoint and retirement (`twice`). A limit
  counts what a query meets, so for limits `FirstRun` says that before a restart no point is in two
  places; what is met before a block is then one to one with newer points in the range (`MetIsNewer`).

`OrderFacts` holds what several of these rest on: least and greatest numbers, and records in
numbered segments of which one is the last, also after an append, a cut or the removal of the oldest
segment.

*Assumptions.* The constants' assumptions say that bounds are numbers, that sets of nodes and tasks
are finite where they are counted, and that a marker such as `Nil` or `None` is none of the values
it stands beside. `TimeTiersAssumption` has the window of the cold tier longer than that of the hot
one, as the server's defaults, 7 and 365 days, have it (state.rs:186). Nothing else is assumed of
the bounds: with no bound on them these are theorems about the code's unbounded counters, as far as
the models go.

*Only model-checked.* `StateMachineSafety` and `LeaderCompleteness` hold within the bounds of
`raft_safety` and fail beyond them (`raft_match` shows it for capped requests; an answer to a request
of an earlier term, when a leader was elected twice, would do as well), so there is no theorem to
prove. `ResultExact` compares what sorting, grouping, filters and set operations make of a whole table
with relational definitions: induction over data, which the prover cannot do.
`TypeOK` in `redo_recovery` and `raft_safety` is proved. Liveness under fairness
(`OneTermReconciled`, `QueryEnds`, `ReceiverCatchesUp`) and `ENABLED` are out of the prover's reach.
The three runs that end in a violation are about the code, not about theorems.

## 5. What is not modelled, and the plan

Within the modelled parts: Raft restarts, snapshots and lease times, vote handling at the grain of
single locks, participants
that vote by a validation callback or `handle_prepare_with_validation`, failing writes and fsyncs of the redo log, bulk and patch requests and schemas of
documents, the mode without a data directory, the snapshot files of the engines that do not log,
DDL and indexes of the SQL engine and the replication of its statements, functions, LIKE, CASE and
casts in queries, serializable storage transactions, dotted version vectors, history and
consumer groups of channels, sorting, paging and full-text search of documents, the client's
transactions, backups of the engines other than the key-value store, late points, tags and deletion
of timeseries.

In this order:

1. Cluster membership, failure detection, shards and routing; rolling updates.
2. Raft with restarts and snapshots, and the lease with clocks.
3. Documents: bulk and patch requests; an abstract durable map that `RedoLog` and `DocRedo` are
   shown to implement.
4. `TimeTiers` with late points, several series and deletion, and its queries between the copy of the hot
   tier and the reading of the cold one.

Not planned: parsing and planning of SQL, compression and encodings, cryptography, request
plumbing, user interfaces and SDKs. They are sequential transformations of data or pure I/O, with
no protocol for a model checker to explore. They are also most of the repository's lines, which is
why the models stand for a small share of them.
