------------------------------ MODULE SqlEngine ------------------------------
(***************************************************************************)
(* The SQL engine of the server: QueryEngine::execute (state.rs) over one  *)
(* ExecutionContext (aegis-query, executor.rs), its row versions, and the  *)
(* file a database is persisted to.                                        *)
(*                                                                         *)
(* A request is a script of statements.  The context is one per database   *)
(* and shared by all requests: BEGIN copies the tables and sets the        *)
(* context's snapshot version, COMMIT advances the version clock, ROLLBACK *)
(* and errors put the copy back.  A statement runs under the table's lock  *)
(* and is one step; to_snapshot and write_atomic in persist are two, both  *)
(* under shared locks, so requests interleave there.                       *)
(*                                                                         *)
(* One table with a primary key stands for the database; a value is the    *)
(* number of the statement that wrote it.  A row is known by the place it  *)
(* was inserted at, the statement and its number there: places are in the  *)
(* order of the table's vectors, and one that delete_rows removes is       *)
(* empty.  DDL, indexes, queries beyond a scan and the replication of      *)
(* statements to peers are left out.                                       *)
(***************************************************************************)
EXTENDS Naturals

CONSTANTS
    Client,     \* requests that run side by side
    Key,        \* primary keys
    None,       \* no snapshot version, no copy
    MaxOps,     \* bound: statements
    MaxCrash    \* bound: restarts

ASSUME SqlAssumption == MaxOps \in Nat /\ MaxCrash \in Nat /\ None \notin Nat

VARIABLES
    rows,     \* TableData: [key, val, created, deleted] for each place, and
              \* moved, a ghost: an UPDATE has assigned its key
    clock,    \* version_clock
    snap,     \* snapshot_version
    disk,     \* rows in the database file
    pc,       \* where a request is
    saved,    \* txn_snapshot, the copy made by BEGIN
    dirty,    \* had_mutation
    image,    \* what persist is about to write
    ops,      \* statements so far
    crashes,  \* restarts so far
    alone,    \* ghost: no other request has run beside this one
    base,     \* ghost: [rows, disk] when the transaction began
    skewed    \* ghost: a restart set the clock behind the rows' versions

ctxVars == <<rows, clock, snap>>
ghostVars == <<alone, base, skewed>>
vars == <<ctxVars, disk, pc, saved, dirty, image, ops, crashes, ghostVars>>

NoRows == [p \in {} |-> {}]

Init ==
    /\ rows = NoRows /\ clock = 1 /\ snap = None /\ disk = NoRows
    /\ pc = [c \in Client |-> "idle"]
    /\ saved = [c \in Client |-> None]
    /\ dirty = [c \in Client |-> FALSE]
    /\ image = [c \in Client |-> None]
    /\ ops = 0 /\ crashes = 0
    /\ alone = [c \in Client |-> TRUE] /\ base = [c \in Client |-> None]
    /\ skewed = FALSE

Goto(c, label) == pc' = [pc EXCEPT ![c] = label]

-----------------------------------------------------------------------------
(* Rows and their visibility.                                               *)

\* Mutant: a row is visible to snapshots after the one it was created at.
VisibleLater(r) ==
    IF snap = None THEN r.deleted = 0
                   ELSE r.created < snap /\ (r.deleted = 0 \/ r.deleted > snap)

IsRowVisible(r) ==
    IF snap = None THEN r.deleted = 0
                   ELSE r.created <= snap /\ (r.deleted = 0 \/ r.deleted > snap)

Live(r) == r.deleted = 0

NewRow(k) == [key |-> k, val |-> ops + 1, created |-> clock, deleted |-> 0, moved |-> FALSE]

KeyTaken(rs, k) == \E p \in DOMAIN rs : rs[p].key = k /\ IsRowVisible(rs[p])

\* insert_rows: the rows in front of the one that violates the key stay.
Insert(rs, k, n) ==
    IF KeyTaken(rs, k)
    THEN [rows |-> rs, ok |-> FALSE]
    ELSE [rows |-> [p \in DOMAIN rs \cup {<<ops + 1, n>>} |->
                      IF p \in DOMAIN rs THEN rs[p] ELSE NewRow(k)],
          ok |-> TRUE]

InsertRows(k1, k2) ==
    LET one == Insert(rows, k1, 1) IN IF one.ok THEN Insert(one.rows, k2, 2) ELSE one

UpdateRows(k) ==
    [p \in DOMAIN rows |->
        IF IsRowVisible(rows[p]) /\ rows[p].key = k THEN [rows[p] EXCEPT !.val = ops + 1]
                                                    ELSE rows[p]]

\* The key column is assigned like any other, and no key is checked.
Moved(r, l) == [r EXCEPT !.key = l, !.val = ops + 1, !.moved = TRUE]

AssignKey(k, l) ==
    [p \in DOMAIN rows |->
        IF IsRowVisible(rows[p]) /\ rows[p].key = k THEN Moved(rows[p], l) ELSE rows[p]]

\* delete_rows marks; without a snapshot it also removes every marked row.
Marked(k) ==
    [p \in DOMAIN rows |->
        IF IsRowVisible(rows[p]) /\ rows[p].key = k THEN [rows[p] EXCEPT !.deleted = clock]
                                                    ELSE rows[p]]
DeleteRows(k) ==
    LET left == {p \in DOMAIN rows : snap = None => Live(Marked(k)[p])}
    IN  [p \in left |-> Marked(k)[p]]

\* What a mutating statement can do: the rows after it, and whether it
\* returned Ok.
Statement ==
    {Insert(rows, k, 1) : k \in Key} \cup {InsertRows(k[1], k[2]) : k \in Key \X Key}
      \cup {[rows |-> UpdateRows(k), ok |-> TRUE] : k \in Key}
      \cup {[rows |-> AssignKey(k[1], k[2]), ok |-> TRUE] : k \in Key \X Key}
      \cup {[rows |-> DeleteRows(k), ok |-> TRUE] : k \in Key}

-----------------------------------------------------------------------------
(* Requests.                                                                *)

Running(c) == pc[c] # "idle"

\* persist holds the context's read lock while it writes the file; BEGIN,
\* COMMIT and ROLLBACK take the write lock, statements only the read lock.
WriteLockFree == \A c \in Client : pc[c] # "write"

\* A statement of a script outside a transaction: the first one, or the next.
Outside(c) == pc[c] \in {"idle", "next"}

\* Bookkeeping when a script may start with this step.
Enter(c) ==
    alone' = [d \in Client |->
                IF d = c THEN (pc[c] = "idle" \/ alone[c]) /\ \A e \in Client \ {c} : ~ Running(e)
                         ELSE alone[d] /\ ~ Running(d)]

\* Mutant: the image is taken before the statement runs.
AutocommitPersistsFirst(c) ==
    /\ Outside(c)
    /\ ops < MaxOps
    /\ ops' = ops + 1
    /\ image' = [image EXCEPT ![c] = rows]
    /\ \E s \in Statement :
          /\ s.ok
          /\ rows' = s.rows
          /\ dirty' = [dirty EXCEPT ![c] = TRUE]
          /\ Goto(c, "write")
    /\ Enter(c)
    /\ UNCHANGED <<clock, snap, disk, saved, crashes, base, skewed>>

\* A statement outside a transaction is persisted at once if it returned Ok.
Autocommit(c) ==
    /\ Outside(c)
    /\ ops < MaxOps
    /\ ops' = ops + 1
    /\ \E s \in Statement :
          /\ rows' = s.rows
          /\ dirty' = [dirty EXCEPT ![c] = s.ok]
          /\ Goto(c, IF s.ok THEN "persist" ELSE "idle")
    /\ Enter(c)
    /\ UNCHANGED <<clock, snap, disk, saved, image, crashes, base, skewed>>

Begin(c) ==
    /\ Outside(c) /\ WriteLockFree
    /\ ops < MaxOps
    /\ ops' = ops + 1
    /\ saved' = [saved EXCEPT ![c] = rows]
    /\ snap' = clock
    /\ Goto(c, "txn")
    /\ Enter(c)
    /\ base' = [base EXCEPT ![c] = [rows |-> rows, disk |-> disk]]
    /\ UNCHANGED <<rows, clock, disk, dirty, image, crashes, skewed>>

\* Mutant: only the snapshot version is released.
RestoreVersionOnly(c) ==
    /\ WriteLockFree
    /\ snap' = None
    /\ saved' = [saved EXCEPT ![c] = None]
    /\ dirty' = [dirty EXCEPT ![c] = FALSE]
    /\ UNCHANGED <<rows, clock>>

\* restore_from_snapshot and rollback_snapshot; the clock stays.
Restore(c) ==
    /\ WriteLockFree
    /\ rows' = saved[c]
    /\ snap' = None
    /\ saved' = [saved EXCEPT ![c] = None]
    /\ dirty' = [dirty EXCEPT ![c] = FALSE]
    /\ UNCHANGED clock

\* A statement in a transaction; an error while it executes rolls back.
TxnStatement(c) ==
    /\ pc[c] = "txn"
    /\ ops < MaxOps
    /\ ops' = ops + 1
    /\ \E s \in Statement :
          IF s.ok
            THEN /\ rows' = s.rows
                 /\ dirty' = [dirty EXCEPT ![c] = TRUE]
                 /\ UNCHANGED <<pc, saved, snap, clock>>
            ELSE /\ Restore(c)
                 /\ Goto(c, "undone")
    /\ UNCHANGED <<disk, image, crashes, ghostVars>>

\* Mutant: the snapshot version stays.
CommitKeepsSnapshot(c) ==
    /\ pc[c] = "txn" /\ WriteLockFree
    /\ clock' = clock + 1
    /\ saved' = [saved EXCEPT ![c] = None]
    /\ Goto(c, IF dirty[c] THEN "persist" ELSE "next")
    /\ UNCHANGED <<rows, snap, disk, dirty, image, ops, crashes, ghostVars>>

Commit(c) ==
    /\ pc[c] = "txn" /\ WriteLockFree
    /\ clock' = clock + 1
    /\ snap' = None
    /\ saved' = [saved EXCEPT ![c] = None]
    /\ Goto(c, IF dirty[c] THEN "persist" ELSE "next")
    /\ UNCHANGED <<rows, disk, dirty, image, ops, crashes, ghostVars>>

\* ROLLBACK, or the end of the script without COMMIT.
Rollback(c) ==
    /\ pc[c] = "txn"
    /\ Restore(c)
    /\ Goto(c, "undone")
    /\ UNCHANGED <<disk, image, ops, crashes, ghostVars>>

\* A second BEGIN, or a statement that cannot be planned: execute returns the
\* error there and then, and the copy is dropped.
EarlyReturn(c) ==
    /\ pc[c] = "txn"
    /\ saved' = [saved EXCEPT ![c] = None]
    /\ dirty' = [dirty EXCEPT ![c] = FALSE]
    /\ Goto(c, "idle")
    /\ UNCHANGED <<ctxVars, disk, image, ops, crashes, ghostVars>>

\* persist: to_snapshot, then write_blob_json, under one read lock.
PersistRead(c) ==
    /\ pc[c] = "persist"
    /\ image' = [image EXCEPT ![c] = rows]
    /\ Goto(c, "write")
    /\ UNCHANGED <<ctxVars, disk, saved, dirty, ops, crashes, ghostVars>>

PersistWrite(c) ==
    /\ pc[c] = "write"
    /\ disk' = image[c]
    /\ image' = [image EXCEPT ![c] = None]
    /\ Goto(c, "acked")
    /\ UNCHANGED <<ctxVars, saved, dirty, ops, crashes, ghostVars>>

\* The file cannot be written: that is logged, and the statement is
\* acknowledged all the same.
PersistFails(c) ==
    /\ pc[c] = "write"
    /\ image' = [image EXCEPT ![c] = None]
    /\ Goto(c, "unsaved")
    /\ UNCHANGED <<ctxVars, disk, saved, dirty, ops, crashes, ghostVars>>

\* The script goes on, or its result is returned.
Proceed(c) ==
    /\ pc[c] \in {"acked", "unsaved", "undone"}
    /\ Goto(c, "next")
    /\ UNCHANGED <<ctxVars, disk, saved, dirty, image, ops, crashes, ghostVars>>

Return(c) ==
    /\ pc[c] = "next"
    /\ Goto(c, "idle")
    /\ dirty' = [dirty EXCEPT ![c] = FALSE]
    /\ UNCHANGED <<ctxVars, disk, saved, image, ops, crashes, ghostVars>>

\* The process dies and starts again: with_persistence builds the context
\* with from_snapshot, and the version clock of a new context is 1.
Restart ==
    /\ crashes < MaxCrash
    /\ crashes' = crashes + 1
    /\ rows' = disk
    /\ clock' = 1 /\ snap' = None
    /\ pc' = [c \in Client |-> "idle"]
    /\ saved' = [c \in Client |-> None]
    /\ dirty' = [c \in Client |-> FALSE]
    /\ image' = [c \in Client |-> None]
    /\ skewed' = (skewed \/ \E p \in DOMAIN disk : disk[p].created > 1 \/ disk[p].deleted > 1)
    /\ UNCHANGED <<disk, ops, alone, base>>

Next ==
    \/ \E c \in Client :
          \/ Autocommit(c) \/ Begin(c) \/ TxnStatement(c) \/ Commit(c) \/ Rollback(c)
          \/ EarlyReturn(c) \/ PersistRead(c) \/ PersistWrite(c)
          \/ PersistFails(c) \/ Proceed(c) \/ Return(c)
    \/ Restart

Spec == Init /\ [][Next]_vars

-----------------------------------------------------------------------------
(* Correctness.                                                             *)

\* No two live rows have the same key, unless an UPDATE has assigned it to one.
KeysUnique(rs) ==
    \A p, q \in DOMAIN rs :
        Live(rs[p]) /\ Live(rs[q]) /\ rs[p].key = rs[q].key => p = q \/ rs[p].moved \/ rs[q].moved

\* PRIMARY KEY: no two live rows have the same key, but for those whose key an
\* UPDATE has assigned, however requests and their transactions interleave on
\* the one context, until a restart has set the version clock back.
\* The check in insert_rows skips the rows the current
\* snapshot hides, so it needs the snapshot to hide no live row, whichever
\* request began it and whichever commits moved the clock since.
PrimaryKeyUnique ==
    ~ skewed => KeysUnique(rows)

\* A scan returns the live rows, in a transaction and outside: what the
\* transaction wrote is seen, what it deleted is not, and rows that ROLLBACK
\* brought back have no version beyond the clock.  It is read committed at
\* most: rows of other requests are seen, later ones and uncommitted ones too
\* (SnapshotIsolation fails).
ScanSeesLiveRows ==
    ~ skewed => \A p \in DOMAIN rows : IsRowVisible(rows[p]) <=> Live(rows[p])

\* What the documentation promises of a transaction (README.md:223, 348): as
\* long as it has changed nothing itself, it sees the rows there were at BEGIN.
SnapshotIsolation ==
    \A c \in Client : pc[c] = "txn" /\ ~ dirty[c] =>
        LET shown == {p \in DOMAIN rows : IsRowVisible(rows[p])}
            then == base[c].rows
        IN  shown = {p \in DOMAIN then : Live(then[p])} /\ \A p \in shown : rows[p] = then[p]

\* A mutation that is acknowledged is in the file, if no other request ran
\* beside it and the file could be written (pc is "unsaved" otherwise): a
\* restart loads the rows the request left.
AckedIsDurable ==
    \A c \in Client : pc[c] = "acked" /\ alone[c] => disk = rows

\* A transaction that no other request ran beside touches the file only once
\* it commits, and one that is rolled back leaves rows and file as they were
\* at BEGIN ("all changes since BEGIN are undone", state.rs:2055).
AllOrNothing ==
    \A c \in Client :
        alone[c] => /\ pc[c] = "txn" => disk = base[c].disk
                    /\ pc[c] = "undone" => rows = base[c].rows /\ disk = base[c].disk

-----------------------------------------------------------------------------
(* The inductive invariant of the proofs in SqlProofs.                      *)

Row == [key : Key, val : Nat, created : Nat, deleted : Nat, moved : BOOLEAN]
IsTable(rs) == rs \in [DOMAIN rs -> Row]

Phases == {"idle", "next", "txn", "undone", "persist", "write", "acked", "unsaved"}

SqlTypeOK ==
    /\ IsTable(rows) /\ IsTable(disk)
    /\ clock \in Nat \ {0}
    /\ pc \in [Client -> Phases]
    /\ DOMAIN saved = Client /\ saved = [c \in Client |-> saved[c]]
    /\ DOMAIN image = Client /\ image = [c \in Client |-> image[c]]
    /\ DOMAIN base = Client /\ base = [c \in Client |-> base[c]]
    /\ dirty \in [Client -> BOOLEAN] /\ alone \in [Client -> BOOLEAN]
    /\ ops \in Nat /\ crashes \in Nat /\ skewed \in BOOLEAN
    /\ \A c \in Client : /\ pc[c] = "txn" => IsTable(saved[c])
                         /\ pc[c] = "write" => IsTable(image[c])

\* No version in a table is beyond the clock.
WithinClock(rs) == \A p \in DOMAIN rs : rs[p].created <= clock /\ rs[p].deleted <= clock

\* A snapshot is of the present: whoever moves the clock ends it.  So the rows,
\* and those a transaction can put back, have no version it hides.
ClockInv ==
    /\ snap \in {None, clock}
    /\ ~ skewed => /\ WithinClock(rows)
                   /\ \A c \in Client : pc[c] = "txn" => WithinClock(saved[c])

\* Everything the rows are ever replaced by has unique keys.
KeysInv ==
    ~ skewed => /\ KeysUnique(rows) /\ KeysUnique(disk)
                /\ \A c \in Client : /\ pc[c] = "txn" => KeysUnique(saved[c])
                                     /\ pc[c] = "write" => KeysUnique(image[c])

\* What a request that runs alone finds where it left it.
AloneInv ==
    \A c \in Client : alone[c] /\ Running(c) =>
        /\ \A d \in Client \ {c} : ~ Running(d)
        /\ pc[c] = "txn" => saved[c] = base[c].rows /\ disk = base[c].disk
        /\ pc[c] = "undone" => rows = base[c].rows /\ disk = base[c].disk
        /\ pc[c] = "write" => image[c] = rows
        /\ pc[c] = "acked" => disk = rows

SqlInv == SqlTypeOK /\ ClockInv /\ KeysInv /\ AloneInv
=============================================================================
