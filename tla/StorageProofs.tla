--------------------------- MODULE StorageProofs ----------------------------
(***************************************************************************)
(* Proofs about aegis-storage.  The transaction manager, for any set of    *)
(* transactions and of keys and any bounds: the writers of a key exclude   *)
(* each other, a transaction that has ended leaves nothing behind, and one *)
(* with a clean snapshot reads what was committed when it began.  The      *)
(* write-ahead log, for any transactions, size of a segment and bounds:    *)
(* recovery redoes exactly the committed transactions, each with all it    *)
(* logged, and knows of every one it has to roll back.                     *)
(***************************************************************************)
EXTENDS Mvcc, Wal, OrderFacts, FiniteSetTheorems

-----------------------------------------------------------------------------
(* Chains.                                                                  *)

\* The version with the largest number is the head.
LEMMA HeadUnique ==
    ASSUME NEW S, Numbers(S), NEW h, IsHead(h, S), \A v \in S : v.at \in Nat
    PROVE  HeadOf(S) = h
<1>1. ASSUME NEW v \in S, \A w \in S : w.at <= v.at PROVE v = h
  <2>1. v.at = h.at
    BY <1>1 DEF IsHead
  <2> QED
    BY <2>1 DEF IsHead, Numbers
<1> QED
  BY <1>1 DEF HeadOf, IsHead

\* What is left of a chain has a head too.
LEMMA HeadExists ==
    ASSUME TypeOK, ChainInv, NEW k \in Key, NEW S, S \subseteq versions[k], S # {}
    PROVE  Numbers(S) /\ IsHead(HeadOf(S), S)
<1>1. \A v \in versions[k] : v.at \in Nat
  BY DEF TypeOK, Version
<1>2. PICK h \in versions[k] : \A w \in versions[k] : w.at <= h.at
  BY DEF ChainInv, IsHead
<1>3. Numbers(S)
  BY DEF ChainInv, Numbers
<1> DEFINE T == {v.at : v \in S}
<1>4. T \in SUBSET Nat /\ T # {} /\ h.at \in Nat /\ \A n \in T : n <= h.at
  BY <1>1, <1>2
<1>5. PICK x \in T : \A y \in T : y <= x
  <2> HIDE DEF T
  <2> QED
    BY <1>4, GreatestNat
<1>6. PICK g \in S : g.at = x
  BY <1>5
<1>7. IsHead(g, S)
  BY <1>5, <1>6 DEF IsHead
<1> QED
  BY <1>1, <1>3, <1>7, HeadUnique

-----------------------------------------------------------------------------
(* Types.                                                                   *)

\* The head of a chain is one of its versions.
LEMMA HeadVersion ==
    ASSUME TypeOK, ChainInv, NEW k \in Key, NEW S, S \subseteq versions[k], S # {}
    PROVE  /\ HeadOf(S) \in S /\ HeadOf(S) \in Version
           /\ HeadOf(S).at \in Nat \ {0} /\ HeadOf(S).by \in Tx
<1>1. HeadOf(S) \in S
  BY HeadExists DEF IsHead
<1>2. HeadOf(S) \in Version
  BY <1>1 DEF TypeOK
<1> QED
  BY <1>1, <1>2 DEF Version

LEMMA FirstOfType ==
    ASSUME TypeOK, ChainInv, NEW k \in Key, NEW S, S \subseteq versions[k]
    PROVE  FirstOf(S) \in Nat
<1>1. CASE S = {}
  BY <1>1 DEF FirstOf, Absent
<1>2. CASE S # {}
  BY <1>2, HeadVersion DEF FirstOf
<1> QED
  BY <1>1, <1>2

\* The watermark is at or below the start of every active transaction.
LEMMA Watermark ==
    ASSUME TypeOK, PhaseInv
    PROVE  /\ MinActiveTimestamp \in Nat
           /\ \A t \in Tx : state[t] = "Active" => MinActiveTimestamp <= start[t]
<1> DEFINE running == {start[t] : t \in {u \in Tx : state[u] = "Active"}}
<1>1. running \in SUBSET Nat
  <2>1. \A t \in Tx : state[t] = "Active" => pc[t] # "new" /\ start[t] # NoTs
    BY DEF PhaseInv
  <2>2. \A t \in Tx : state[t] = "Active" => start[t] \in Nat
    BY <2>1 DEF TypeOK
  <2> QED
    BY <2>2
<1>2. CASE running = {}
  BY <1>2 DEF MinActiveTimestamp, MaxTs
<1>3. CASE running # {}
  <2>1. MinActiveTimestamp = Min(running)
    BY <1>3 DEF MinActiveTimestamp
  <2> HIDE DEF running
  <2>2. PICK x \in running : \A y \in running : x <= y
    BY <1>1, <1>3, LeastNat
  <2>3. Min(running) \in running /\ \A y \in running : Min(running) <= y
    BY <2>2 DEF Min
  <2> USE DEF running
  <2> QED
    BY <1>1, <2>1, <2>3
<1> QED
  BY <1>2, <1>3

\* The collector keeps versions, and a commit or abort makes versions.
LEMMA PruneType ==
    ASSUME NEW chain, NEW min
    PROVE  GcVersionChain(chain, min) \subseteq chain
BY DEF GcVersionChain

LEMMA MarkType ==
    ASSUME TypeOK, ChainInv, NEW t \in Tx, NEW st \in {"Committed", "Aborted"},
           NEW when \in Nat \cup {NoTs}
    PROVE  Mark(t, st, when) \in [Key -> SUBSET Version]
<1> SUFFICES ASSUME NEW k \in Key
             PROVE  Mark(t, st, when)[k] \in SUBSET Version
  BY DEF Mark
<1>1. CASE Own(t, k)
  <2>1. HeadOf(versions[k]) \in Version
    BY <1>1, HeadVersion DEF Own
  <2>2. Marked(HeadOf(versions[k]), st, when) \in Version
    BY <2>1 DEF Marked, Version
  <2> QED
    BY <1>1, <2>2 DEF Mark, Behind, TypeOK
<1>2. CASE ~ Own(t, k)
  BY <1>2 DEF Mark, TypeOK
<1> QED
  BY <1>1, <1>2

LEMMA NewVersionType ==
    ASSUME TypeOK, ChainInv, NEW t \in Tx, NEW k \in Key
    PROVE  NewVersion(t, versions[k]) \in Version
<1>1. CASE versions[k] = {}
  BY <1>1 DEF NewVersion, Version
<1>2. CASE versions[k] # {}
  <2>1. HeadOf(versions[k]).at \in Nat \ {0}
    BY <1>2, HeadVersion
  <2> QED
    BY <1>2, <2>1 DEF NewVersion, Version
<1> QED
  BY <1>1, <1>2

LEMMA TypeNext ==
    ASSUME TypeOK, ChainInv, PhaseInv, [Next]_vars
    PROVE  TypeOK'
<1> USE DEF Goto, lockVars, txVars, ghostVars
<1>1. ASSUME NEW t \in Tx, BeginTimestamp(t) PROVE TypeOK'
  <2>1. seen' \in [Tx -> [Key -> Nat]]
    <3>1. \A k \in Key : FirstOf(Committed(k)) \in Nat
      BY FirstOfType DEF Committed
    <3> QED
      BY <1>1, <3>1 DEF BeginTimestamp, TypeOK
  <2>2. clean' \in [Tx -> BOOLEAN]
    BY <1>1, Zenon DEF BeginTimestamp, TypeOK
  <2> QED
    BY <1>1, <2>1, <2>2 DEF BeginTimestamp, TypeOK, Labels, Opening
<1>2. ASSUME NEW t \in Tx, BeginActive(t) PROVE TypeOK'
  BY <1>2 DEF BeginActive, TypeOK, Labels, Opening
<1>3. ASSUME NEW t \in Tx, BeginInsert(t) PROVE TypeOK'
  BY <1>3 DEF BeginInsert, TypeOK, Labels
<1>4. ASSUME NEW t \in Tx, NEW k \in Key, WriteStart(t, k) PROVE TypeOK'
  BY <1>4 DEF WriteStart, TypeOK, Labels
<1>5. ASSUME NEW t \in Tx, Acquire(t) PROVE TypeOK'
  <2>1. wkey[t] \in Key /\ "granted" \in Labels
    BY DEF TypeOK, Labels
  <2>2. holders' = holders \/ holders' = [holders EXCEPT ![wkey[t]] = @ \cup {t}]
    BY <1>5 DEF Acquire
  <2>3. waiters' = waiters \/ waiters' = [waiters EXCEPT ![wkey[t]] = @ \cup {t}]
    BY <1>5 DEF Acquire
  <2>4. pc' = pc \/ pc' = [pc EXCEPT ![t] = "granted"]
    BY <1>5 DEF Acquire
  <2>5. holders' \in [Key -> SUBSET Tx]
    <3>1. [holders EXCEPT ![wkey[t]] = @ \cup {t}] \in [Key -> SUBSET Tx]
      BY <2>1 DEF TypeOK
    <3> QED
      BY <2>2, <3>1 DEF TypeOK
  <2>6. waiters' \in [Key -> SUBSET Tx]
    <3>1. [waiters EXCEPT ![wkey[t]] = @ \cup {t}] \in [Key -> SUBSET Tx]
      BY <2>1 DEF TypeOK
    <3> QED
      BY <2>3, <3>1 DEF TypeOK
  <2>7. pc' \in [Tx -> Labels]
    BY <2>1, <2>4 DEF TypeOK
  <2> QED
    BY <1>5, <2>5, <2>6, <2>7 DEF Acquire, TypeOK
<1>6. ASSUME NEW t \in Tx, LockTimeout(t) PROVE TypeOK'
  BY <1>6 DEF LockTimeout, TypeOK, Labels
<1>7. ASSUME NEW t \in Tx, WriteVersion(t) PROVE TypeOK'
  <2>1. wkey[t] \in Key
    BY DEF TypeOK
  <2>2. NewVersion(t, versions[wkey[t]]) \in Version
    BY <2>1, NewVersionType
  <2>3. versions' \in [Key -> SUBSET Version]
    BY <1>7, <2>1, <2>2 DEF WriteVersion, TypeOK
  <2> QED
    BY <1>7, <2>3 DEF WriteVersion, TypeOK, Labels
<1>8. ASSUME NEW t \in Tx, CommitTimestamp(t) PROVE TypeOK'
  BY <1>8 DEF CommitTimestamp, TypeOK, Labels
<1>9. ASSUME NEW t \in Tx, CommitPrepare(t) PROVE TypeOK'
  BY <1>9 DEF CommitPrepare, TypeOK, Labels
<1>10. ASSUME NEW t \in Tx, CommitVersions(t) PROVE TypeOK'
  <2>1. versions' \in [Key -> SUBSET Version]
    BY <1>10, MarkType DEF CommitVersions, TypeOK
  <2> QED
    BY <1>10, <2>1 DEF CommitVersions, TypeOK, Labels
<1>11. ASSUME NEW t \in Tx, CommitState(t) PROVE TypeOK'
  BY <1>11 DEF CommitState, TypeOK, Labels
<1>12. ASSUME NEW t \in Tx, AbortState(t) PROVE TypeOK'
  BY <1>12 DEF AbortState, TypeOK, Labels
<1>13. ASSUME NEW t \in Tx, AbortVersions(t) PROVE TypeOK'
  <2>1. versions' \in [Key -> SUBSET Version]
    <3>1. Mark(t, "Aborted", NoTs) \in [Key -> SUBSET Version]
      BY MarkType
    <3> QED
      BY <1>13, <3>1 DEF AbortVersions, TypeOK
  <2> QED
    BY <1>13, <2>1 DEF AbortVersions, TypeOK, Labels
<1>14. ASSUME NEW t \in Tx, ReleaseAll(t) PROVE TypeOK'
  BY <1>14 DEF ReleaseAll, TypeOK, Labels
<1>15. CASE GcWatermark
  <2>1. clean' \in [Tx -> BOOLEAN]
    BY <1>15, Zenon DEF GcWatermark, TypeOK
  <2> QED
    BY <1>15, <2>1, Watermark DEF GcWatermark, TypeOK
<1>16. CASE GcPrune
  <2>1. versions' \in [Key -> SUBSET Version]
    BY <1>16, PruneType DEF GcPrune, TypeOK
  <2> QED
    BY <1>16, <2>1 DEF GcPrune, TypeOK
<1>17. CASE GcTransactions
  BY <1>17 DEF GcTransactions, TypeOK
<1>18. CASE UNCHANGED vars
  BY <1>18 DEF vars, TypeOK
<1> QED
  BY <1>1, <1>2, <1>3, <1>4, <1>5, <1>6, <1>7, <1>8, <1>9, <1>10, <1>11, <1>12, <1>13,
     <1>14, <1>15, <1>16, <1>17, <1>18 DEF Next

-----------------------------------------------------------------------------
(* Steps that leave the chains alone.                                       *)

\* They keep what is said of the chains.
LEMMA SameChains ==
    ASSUME ChainInv, versions' = versions
    PROVE  /\ ChainInv'
           /\ \A k : Committed(k)' = Committed(k) /\ ChainOrdered(k)' = ChainOrdered(k)
<1>1. \A k : Committed(k)' = Committed(k)
  BY DEF Committed
<1> QED
  BY <1>1 DEF ChainInv, ChainOrdered

\* The snapshots of those that still read stay what they were when the
\* committed versions and the starts do.
LEMMA CommittedSnapshots ==
    ASSUME \A k \in Key : Committed(k)' = Committed(k),
           NEW u \in Tx, start'[u] = start[u], seen'[u] = seen[u],
           \A k \in Key : FirstOf(Before(u, k)) = seen[u][k]
    PROVE  \A k \in Key : FirstOf(Before(u, k)') = seen'[u][k]
<1>1. \A k \in Key : Before(u, k)' = Before(u, k)
  BY DEF Before
<1> QED
  BY <1>1

LEMMA SameSnapshots ==
    ASSUME versions' = versions, NEW u \in Tx, start'[u] = start[u], seen'[u] = seen[u],
           \A k \in Key : FirstOf(Before(u, k)) = seen[u][k]
    PROVE  \A k \in Key : FirstOf(Before(u, k)') = seen'[u][k]
<1>1. \A k \in Key : Committed(k)' = Committed(k)
  BY DEF Committed
<1> QED
  BY <1>1, CommittedSnapshots

\* The active set has only transactions that have not fetched a commit timestamp
\* before this one's start.
LEMMA BeginActiveInv ==
    ASSUME TypeOK, MvccInv, NEW t \in Tx, BeginActive(t)
    PROVE  MvccInv'
<1> USE DEF MvccInv
<1>1. UNCHANGED <<state, start, commitTs, writeSet, wkey, versions, holders, waiters, ts,
                writes, gc, seen, clean>>
  BY DEF BeginActive, txVars, lockVars, ghostVars
<1>2. \A u \in Tx : /\ pc'[u] = IF u = t THEN "beginInsert" ELSE pc[u]
                    /\ u # t => active'[u] = active[u]
  BY DEF BeginActive, Goto, TypeOK
<1>3. pc[t] = "beginActive"
  BY DEF BeginActive
<1>4. ChainInv' /\ \A c : Committed(c)' = Committed(c) /\ ChainOrdered(c)' = ChainOrdered(c)
  BY <1>1, SameChains
<1>5. PhaseInv'
  BY <1>1, <1>2, <1>3 DEF PhaseInv
<1>6. LockInv'
  BY <1>1, <1>2, <1>3 DEF LockInv, TypeOK, Opening
<1>7. VersionInv'
  <2> SUFFICES ASSUME NEW c \in Key, NEW v \in versions[c]
               PROVE  /\ c \in writeSet'[v.by]
                      /\ pc'[v.by] # "done" => v.by \in holders'[c]
                      /\ v.state = "Committed" =>
                           /\ v.ts = commitTs'[v.by] /\ v.ts # NoTs
                           /\ pc'[v.by] \in {"commitState", "release", "done"}
    BY <1>1 DEF VersionInv
  <2>1. v.by \in Tx
    BY DEF TypeOK, Version
  <2> QED
    BY <1>1, <1>2, <1>3, <2>1 DEF VersionInv
<1>8. OrderInv'
  BY <1>1, <1>2, <1>3, <1>4 DEF OrderInv, TypeOK
<1>9. LeftInv'
  BY <1>1, <1>2, <1>3 DEF LeftInv
<1>10. SnapshotInv'
  <2> SUFFICES ASSUME NEW u \in Tx, clean'[u], Reads(u)'
               PROVE  /\ gc'.at # "idle" => gc'.min <= start'[u]
                      /\ \A w \in Tx : commitTs'[w] # NoTs /\ commitTs'[w] <= start'[u] =>
                            pc'[w] \in {"release", "done"} /\ w \notin active'[u]
                      /\ \A c \in Key : FirstOf(Before(u, c)') = seen'[u][c]
    BY DEF SnapshotInv
  <2>1. clean[u] /\ Reads(u)
    BY <1>1, <1>2, <1>3 DEF Reads
  <2>2. \A c \in Key : FirstOf(Before(u, c)') = seen'[u][c]
    BY <1>1, <2>1, SameSnapshots DEF SnapshotInv
  <2>3. \A w \in Tx : commitTs'[w] # NoTs /\ commitTs'[w] <= start'[u] =>
          pc'[w] \in {"release", "done"} /\ w \notin active'[u]
    <3> SUFFICES ASSUME NEW w \in Tx, commitTs[w] # NoTs, commitTs[w] <= start[u]
                 PROVE  pc'[w] \in {"release", "done"} /\ w \notin active'[u]
      BY <1>1
    <3>1. pc[w] \in {"release", "done"} /\ w \notin active[u]
      BY <2>1 DEF SnapshotInv
    <3>2. state[w] # "Active"
      BY <3>1 DEF PhaseInv
    <3>3. active'[t] = {x \in Tx : state[x] = "Active"}
      BY DEF BeginActive, TypeOK
    <3> QED
      BY <1>2, <1>3, <3>1, <3>2, <3>3
  <2> QED
    BY <1>1, <2>1, <2>2, <2>3 DEF SnapshotInv
<1> QED
  BY <1>4, <1>5, <1>6, <1>7, <1>8, <1>9, <1>10

\* The transaction is entered.
LEMMA BeginInsertInv ==
    ASSUME TypeOK, MvccInv, NEW t \in Tx, BeginInsert(t)
    PROVE  MvccInv'
<1> USE DEF MvccInv
<1>1. UNCHANGED <<start, commitTs, active, writeSet, wkey, versions, holders, waiters, ts,
                writes, gc, seen, clean>>
  BY DEF BeginInsert, txVars, lockVars, ghostVars
<1>2. \A u \in Tx : /\ pc'[u] = IF u = t THEN "ready" ELSE pc[u]
                    /\ state'[u] = IF u = t THEN "Active" ELSE state[u]
  BY DEF BeginInsert, Goto, TypeOK
<1>3. pc[t] = "beginInsert"
  BY DEF BeginInsert
<1>4. ChainInv' /\ \A c : Committed(c)' = Committed(c) /\ ChainOrdered(c)' = ChainOrdered(c)
  BY <1>1, SameChains
<1>5. PhaseInv'
  BY <1>1, <1>2, <1>3 DEF PhaseInv
<1>6. LockInv'
  BY <1>1, <1>2, <1>3 DEF LockInv, TypeOK, Opening
<1>7. VersionInv'
  BY <1>1, <1>2, <1>3 DEF VersionInv, TypeOK, Version
<1>8. OrderInv'
  BY <1>1, <1>2, <1>3, <1>4 DEF OrderInv, TypeOK
<1>9. LeftInv'
  BY <1>1, <1>2, <1>3 DEF LeftInv
<1>10. SnapshotInv'
  <2> SUFFICES ASSUME NEW u \in Tx, clean'[u], Reads(u)'
               PROVE  /\ gc'.at # "idle" => gc'.min <= start'[u]
                      /\ \A w \in Tx : commitTs'[w] # NoTs /\ commitTs'[w] <= start'[u] =>
                            pc'[w] \in {"release", "done"} /\ w \notin active'[u]
                      /\ \A c \in Key : FirstOf(Before(u, c)') = seen'[u][c]
    BY DEF SnapshotInv
  <2>1. clean[u] /\ Reads(u)
    BY <1>1, <1>2, <1>3 DEF Reads
  <2>2. \A c \in Key : FirstOf(Before(u, c)') = seen'[u][c]
    BY <1>1, <2>1, SameSnapshots DEF SnapshotInv
  <2>3. \A w \in Tx : commitTs'[w] # NoTs /\ commitTs'[w] <= start'[u] =>
          pc'[w] \in {"release", "done"} /\ w \notin active'[u]
    BY <1>1, <1>2, <1>3, <2>1 DEF SnapshotInv, PhaseInv, TypeOK
  <2> QED
    BY <1>1, <2>1, <2>2, <2>3 DEF SnapshotInv
<1> QED
  BY <1>4, <1>5, <1>6, <1>7, <1>8, <1>9, <1>10

\* A write adds its key to the write set.
LEMMA WriteStartInv ==
    ASSUME TypeOK, MvccInv, NEW t \in Tx, NEW k \in Key, WriteStart(t, k)
    PROVE  MvccInv'
<1> USE DEF MvccInv
<1>1. UNCHANGED <<state, start, commitTs, active, versions, holders, waiters, ts, gc, seen, clean>>
  BY DEF WriteStart, txVars, lockVars, ghostVars
<1>2. \A u \in Tx : /\ pc'[u] = IF u = t THEN "locking" ELSE pc[u]
                    /\ wkey'[u] = IF u = t THEN k ELSE wkey[u]
                    /\ u # t => writeSet'[u] = writeSet[u]
                    /\ writeSet[u] \subseteq writeSet'[u]
                    /\ k \in writeSet'[t]
  <2>1. writeSet'[t] = writeSet[t] \cup {k}
    BY DEF WriteStart, TypeOK
  <2>2. \A u \in Tx : u # t => writeSet'[u] = writeSet[u]
    BY DEF WriteStart, TypeOK
  <2>3. \A u \in Tx : /\ pc'[u] = IF u = t THEN "locking" ELSE pc[u]
                      /\ wkey'[u] = IF u = t THEN k ELSE wkey[u]
    BY DEF WriteStart, Goto, TypeOK
  <2> QED
    BY <2>1, <2>2, <2>3
<1>3. pc[t] = "ready"
  BY DEF WriteStart
<1>4. ChainInv' /\ \A c : Committed(c)' = Committed(c) /\ ChainOrdered(c)' = ChainOrdered(c)
  BY <1>1, SameChains
<1>5. PhaseInv'
  BY <1>1, <1>2, <1>3 DEF PhaseInv
<1>6. LockInv'
  BY <1>1, <1>2, <1>3 DEF LockInv, TypeOK, Opening
<1>7. VersionInv'
  <2> SUFFICES ASSUME NEW c \in Key, NEW v \in versions[c]
               PROVE  /\ c \in writeSet'[v.by]
                      /\ pc'[v.by] # "done" => v.by \in holders'[c]
                      /\ v.state = "Committed" =>
                           /\ v.ts = commitTs'[v.by] /\ v.ts # NoTs
                           /\ pc'[v.by] \in {"commitState", "release", "done"}
    BY <1>1 DEF VersionInv
  <2>1. v.by \in Tx
    BY DEF TypeOK, Version
  <2> QED
    BY <1>1, <1>2, <1>3, <2>1 DEF VersionInv
<1>8. OrderInv'
  BY <1>1, <1>2, <1>3, <1>4 DEF OrderInv, TypeOK
<1>9. LeftInv'
  BY <1>1, <1>2, <1>3 DEF LeftInv
<1>10. SnapshotInv'
  <2> SUFFICES ASSUME NEW u \in Tx, clean'[u], Reads(u)'
               PROVE  /\ gc'.at # "idle" => gc'.min <= start'[u]
                      /\ \A w \in Tx : commitTs'[w] # NoTs /\ commitTs'[w] <= start'[u] =>
                            pc'[w] \in {"release", "done"} /\ w \notin active'[u]
                      /\ \A c \in Key : FirstOf(Before(u, c)') = seen'[u][c]
    BY DEF SnapshotInv
  <2>1. clean[u] /\ Reads(u)
    BY <1>1, <1>2, <1>3 DEF Reads
  <2>2. \A c \in Key : FirstOf(Before(u, c)') = seen'[u][c]
    BY <1>1, <2>1, SameSnapshots DEF SnapshotInv
  <2>3. \A w \in Tx : commitTs'[w] # NoTs /\ commitTs'[w] <= start'[u] =>
          pc'[w] \in {"release", "done"} /\ w \notin active'[u]
    BY <1>1, <1>2, <1>3, <2>1 DEF SnapshotInv, PhaseInv, TypeOK
  <2> QED
    BY <1>1, <2>1, <2>2, <2>3 DEF SnapshotInv
<1> QED
  BY <1>4, <1>5, <1>6, <1>7, <1>8, <1>9, <1>10

\* A commit that is prepared no longer reads.
LEMMA CommitPrepareInv ==
    ASSUME TypeOK, MvccInv, NEW t \in Tx, CommitPrepare(t)
    PROVE  MvccInv'
<1> USE DEF MvccInv
<1>1. UNCHANGED <<start, commitTs, active, writeSet, wkey, versions, holders, waiters, ts,
                writes, gc, seen, clean>>
  BY DEF CommitPrepare, txVars, lockVars, ghostVars
<1>2. \A u \in Tx : /\ pc'[u] = IF u = t THEN "commitVersions" ELSE pc[u]
                    /\ state'[u] = IF u = t THEN "Preparing" ELSE state[u]
  BY DEF CommitPrepare, Goto, TypeOK
<1>3. pc[t] = "commitPrepare"
  BY DEF CommitPrepare
<1>4. ChainInv' /\ \A c : Committed(c)' = Committed(c) /\ ChainOrdered(c)' = ChainOrdered(c)
  BY <1>1, SameChains
<1>5. PhaseInv'
  BY <1>1, <1>2, <1>3 DEF PhaseInv
<1>6. LockInv'
  BY <1>1, <1>2, <1>3 DEF LockInv, TypeOK, Opening
<1>7. VersionInv'
  BY <1>1, <1>2, <1>3 DEF VersionInv, TypeOK, Version
<1>8. OrderInv'
  BY <1>1, <1>2, <1>3, <1>4 DEF OrderInv, TypeOK
<1>9. LeftInv'
  BY <1>1, <1>2, <1>3 DEF LeftInv
<1>10. SnapshotInv'
  <2> SUFFICES ASSUME NEW u \in Tx, clean'[u], Reads(u)'
               PROVE  /\ gc'.at # "idle" => gc'.min <= start'[u]
                      /\ \A w \in Tx : commitTs'[w] # NoTs /\ commitTs'[w] <= start'[u] =>
                            pc'[w] \in {"release", "done"} /\ w \notin active'[u]
                      /\ \A c \in Key : FirstOf(Before(u, c)') = seen'[u][c]
    BY DEF SnapshotInv
  <2>1. clean[u] /\ Reads(u)
    BY <1>1, <1>2, <1>3 DEF Reads
  <2>2. \A c \in Key : FirstOf(Before(u, c)') = seen'[u][c]
    BY <1>1, <2>1, SameSnapshots DEF SnapshotInv
  <2>3. \A w \in Tx : commitTs'[w] # NoTs /\ commitTs'[w] <= start'[u] =>
          pc'[w] \in {"release", "done"} /\ w \notin active'[u]
    BY <1>1, <1>2, <1>3, <2>1 DEF SnapshotInv, PhaseInv, TypeOK
  <2> QED
    BY <1>1, <2>1, <2>2, <2>3 DEF SnapshotInv
<1> QED
  BY <1>4, <1>5, <1>6, <1>7, <1>8, <1>9, <1>10

\* A commit that has passed the versions.
LEMMA CommitStateInv ==
    ASSUME TypeOK, MvccInv, NEW t \in Tx, CommitState(t)
    PROVE  MvccInv'
<1> USE DEF MvccInv
<1>1. UNCHANGED <<start, commitTs, active, writeSet, wkey, versions, holders, waiters, ts,
                writes, gc, seen, clean>>
  BY DEF CommitState, txVars, lockVars, ghostVars
<1>2. \A u \in Tx : /\ pc'[u] = IF u = t THEN "release" ELSE pc[u]
                    /\ state'[u] = IF u = t THEN "Committed" ELSE state[u]
  BY DEF CommitState, Goto, TypeOK
<1>3. pc[t] = "commitState"
  BY DEF CommitState
<1>4. ChainInv' /\ \A c : Committed(c)' = Committed(c) /\ ChainOrdered(c)' = ChainOrdered(c)
  BY <1>1, SameChains
<1>5. PhaseInv'
  BY <1>1, <1>2, <1>3 DEF PhaseInv
<1>6. LockInv'
  BY <1>1, <1>2, <1>3 DEF LockInv, TypeOK, Opening
<1>7. VersionInv'
  BY <1>1, <1>2, <1>3 DEF VersionInv, TypeOK, Version
<1>8. OrderInv'
  BY <1>1, <1>2, <1>3, <1>4 DEF OrderInv, TypeOK
<1>9. LeftInv'
  BY <1>1, <1>2, <1>3 DEF LeftInv
<1>10. SnapshotInv'
  <2> SUFFICES ASSUME NEW u \in Tx, clean'[u], Reads(u)'
               PROVE  /\ gc'.at # "idle" => gc'.min <= start'[u]
                      /\ \A w \in Tx : commitTs'[w] # NoTs /\ commitTs'[w] <= start'[u] =>
                            pc'[w] \in {"release", "done"} /\ w \notin active'[u]
                      /\ \A c \in Key : FirstOf(Before(u, c)') = seen'[u][c]
    BY DEF SnapshotInv
  <2>1. clean[u] /\ Reads(u)
    BY <1>1, <1>2, <1>3 DEF Reads
  <2>2. \A c \in Key : FirstOf(Before(u, c)') = seen'[u][c]
    BY <1>1, <2>1, SameSnapshots DEF SnapshotInv
  <2>3. \A w \in Tx : commitTs'[w] # NoTs /\ commitTs'[w] <= start'[u] =>
          pc'[w] \in {"release", "done"} /\ w \notin active'[u]
    BY <1>1, <1>2, <1>3, <2>1 DEF SnapshotInv, PhaseInv, TypeOK
  <2> QED
    BY <1>1, <2>1, <2>2, <2>3 DEF SnapshotInv
<1> QED
  BY <1>4, <1>5, <1>6, <1>7, <1>8, <1>9, <1>10

\* An abort that has yet to pass the versions.
LEMMA AbortStateInv ==
    ASSUME TypeOK, MvccInv, NEW t \in Tx, AbortState(t)
    PROVE  MvccInv'
<1> USE DEF MvccInv
<1>1. UNCHANGED <<start, commitTs, active, writeSet, wkey, versions, holders, waiters, ts,
                writes, gc, seen, clean>>
  BY DEF AbortState, txVars, lockVars, ghostVars
<1>2. \A u \in Tx : /\ pc'[u] = IF u = t THEN "abortVersions" ELSE pc[u]
                    /\ state'[u] = IF u = t THEN "Aborted" ELSE state[u]
  BY DEF AbortState, Goto, TypeOK
<1>3. pc[t] = "ready"
  BY DEF AbortState
<1>4. ChainInv' /\ \A c : Committed(c)' = Committed(c) /\ ChainOrdered(c)' = ChainOrdered(c)
  BY <1>1, SameChains
<1>5. PhaseInv'
  BY <1>1, <1>2, <1>3 DEF PhaseInv
<1>6. LockInv'
  BY <1>1, <1>2, <1>3 DEF LockInv, TypeOK, Opening
<1>7. VersionInv'
  BY <1>1, <1>2, <1>3 DEF VersionInv, TypeOK, Version
<1>8. OrderInv'
  BY <1>1, <1>2, <1>3, <1>4 DEF OrderInv, TypeOK
<1>9. LeftInv'
  BY <1>1, <1>2, <1>3 DEF LeftInv
<1>10. SnapshotInv'
  <2> SUFFICES ASSUME NEW u \in Tx, clean'[u], Reads(u)'
               PROVE  /\ gc'.at # "idle" => gc'.min <= start'[u]
                      /\ \A w \in Tx : commitTs'[w] # NoTs /\ commitTs'[w] <= start'[u] =>
                            pc'[w] \in {"release", "done"} /\ w \notin active'[u]
                      /\ \A c \in Key : FirstOf(Before(u, c)') = seen'[u][c]
    BY DEF SnapshotInv
  <2>1. clean[u] /\ Reads(u)
    BY <1>1, <1>2, <1>3 DEF Reads
  <2>2. \A c \in Key : FirstOf(Before(u, c)') = seen'[u][c]
    BY <1>1, <2>1, SameSnapshots DEF SnapshotInv
  <2>3. \A w \in Tx : commitTs'[w] # NoTs /\ commitTs'[w] <= start'[u] =>
          pc'[w] \in {"release", "done"} /\ w \notin active'[u]
    BY <1>1, <1>2, <1>3, <2>1 DEF SnapshotInv, PhaseInv, TypeOK
  <2> QED
    BY <1>1, <2>1, <2>2, <2>3 DEF SnapshotInv
<1> QED
  BY <1>4, <1>5, <1>6, <1>7, <1>8, <1>9, <1>10

\* A commit timestamp is above every start and every committed version.
LEMMA CommitTimestampInv ==
    ASSUME TypeOK, MvccInv, NEW t \in Tx, CommitTimestamp(t)
    PROVE  MvccInv'
<1> USE DEF MvccInv
<1>1. UNCHANGED <<state, start, active, writeSet, wkey, versions, holders, waiters, writes,
                gc, seen, clean>> /\ ts' = ts + 1
  BY DEF CommitTimestamp, txVars, lockVars, ghostVars
<1>2. \A u \in Tx : /\ pc'[u] = IF u = t THEN "commitPrepare" ELSE pc[u]
                    /\ commitTs'[u] = IF u = t THEN ts ELSE commitTs[u]
  BY DEF CommitTimestamp, Goto, TypeOK
<1>3. pc[t] = "ready"
  BY DEF CommitTimestamp
<1>4. ChainInv' /\ \A c : Committed(c)' = Committed(c) /\ ChainOrdered(c)' = ChainOrdered(c)
  BY <1>1, SameChains
<1>5. PhaseInv'
  <2>1. \A u \in Tx : start[u] < ts' /\ commitTs'[u] < ts'
    <3>1. ts \in Int /\ \A u \in Tx : start[u] \in Int /\ commitTs[u] \in Int
      BY DEF TypeOK, NoTs
    <3>2. \A u \in Tx : start[u] < ts /\ commitTs[u] < ts
      BY DEF PhaseInv
    <3> QED
      BY <1>1, <1>2, <3>1, <3>2
  <2>2. commitTs'[t] # NoTs
    BY <1>1, <1>2 DEF TypeOK, NoTs
  <2> QED
    BY <1>1, <1>2, <1>3, <2>1, <2>2 DEF PhaseInv
<1>6. LockInv'
  BY <1>1, <1>2, <1>3 DEF LockInv, TypeOK, Opening
<1>7. VersionInv'
  <2> SUFFICES ASSUME NEW c \in Key, NEW v \in versions[c]
               PROVE  /\ c \in writeSet'[v.by]
                      /\ pc'[v.by] # "done" => v.by \in holders'[c]
                      /\ v.state = "Committed" =>
                           /\ v.ts = commitTs'[v.by] /\ v.ts # NoTs
                           /\ pc'[v.by] \in {"commitState", "release", "done"}
    BY <1>1 DEF VersionInv
  <2>1. v.by \in Tx
    BY DEF TypeOK, Version
  <2> QED
    BY <1>1, <1>2, <1>3, <2>1 DEF VersionInv
<1>8. OrderInv'
  <2> SUFFICES ASSUME NEW c \in Key, NEW v \in Committed(c), NEW u \in holders[c],
                      commitTs'[u] # NoTs, u # v.by
               PROVE  v.ts < commitTs'[u]
    BY <1>1, <1>4 DEF OrderInv
  <2>1. v \in versions[c] /\ v.by \in Tx /\ v.ts = commitTs[v.by] /\ u \in Tx
    BY DEF Committed, VersionInv, TypeOK, Version
  <2>2. CASE u = t
    BY <1>2, <2>1, <2>2 DEF PhaseInv
  <2>3. CASE u # t
    BY <1>2, <2>1, <2>3 DEF OrderInv
  <2> QED
    BY <2>2, <2>3
<1>9. LeftInv'
  BY <1>1, <1>2, <1>3 DEF LeftInv
<1>10. SnapshotInv'
  <2> SUFFICES ASSUME NEW u \in Tx, clean'[u], Reads(u)'
               PROVE  /\ gc'.at # "idle" => gc'.min <= start'[u]
                      /\ \A w \in Tx : commitTs'[w] # NoTs /\ commitTs'[w] <= start'[u] =>
                            pc'[w] \in {"release", "done"} /\ w \notin active'[u]
                      /\ \A c \in Key : FirstOf(Before(u, c)') = seen'[u][c]
    BY DEF SnapshotInv
  <2>1. clean[u] /\ Reads(u)
    BY <1>1, <1>2, <1>3 DEF Reads
  <2>2. \A c \in Key : FirstOf(Before(u, c)') = seen'[u][c]
    BY <1>1, <2>1, SameSnapshots DEF SnapshotInv
  <2>3. \A w \in Tx : commitTs'[w] # NoTs /\ commitTs'[w] <= start'[u] =>
          pc'[w] \in {"release", "done"} /\ w \notin active'[u]
    <3> SUFFICES ASSUME NEW w \in Tx, commitTs'[w] # NoTs, commitTs'[w] <= start[u]
                 PROVE  pc'[w] \in {"release", "done"} /\ w \notin active[u]
      BY <1>1
    <3>1. w # t
      <4>1. ts \in Int /\ start[u] \in Int
        BY DEF TypeOK, NoTs
      <4>2. start[u] < ts
        BY DEF PhaseInv
      <4> QED
        BY <1>2, <4>1, <4>2
    <3> QED
      BY <1>2, <2>1, <3>1 DEF SnapshotInv
  <2> QED
    BY <1>1, <2>1, <2>2, <2>3 DEF SnapshotInv
<1> QED
  BY <1>4, <1>5, <1>6, <1>7, <1>8, <1>9, <1>10

\* A snapshot begins: what is committed is what it sees, and unless a commit or
\* a collection is under way all of it stays so.
LEMMA BeginTimestampInv ==
    ASSUME TypeOK, MvccInv, NEW t \in Tx, BeginTimestamp(t)
    PROVE  MvccInv'
<1> USE DEF MvccInv
<1>1. UNCHANGED <<state, commitTs, active, writeSet, wkey, versions, holders, waiters, writes, gc>>
        /\ ts' = ts + 1
  BY DEF BeginTimestamp, lockVars
<1>2. \A u \in Tx : /\ pc'[u] = IF u = t THEN "beginActive" ELSE pc[u]
                    /\ start'[u] = IF u = t THEN ts ELSE start[u]
                    /\ u # t => seen'[u] = seen[u] /\ clean'[u] = clean[u]
  BY DEF BeginTimestamp, Goto, TypeOK
<1>3. pc[t] = "new"
  BY DEF BeginTimestamp
<1>4. ChainInv' /\ \A c : Committed(c)' = Committed(c) /\ ChainOrdered(c)' = ChainOrdered(c)
  BY <1>1, SameChains
<1>5. PhaseInv'
  BY <1>1, <1>2, <1>3 DEF PhaseInv, TypeOK, NoTs
<1>6. LockInv'
  BY <1>1, <1>2, <1>3 DEF LockInv, TypeOK, Opening
<1>7. VersionInv'
  <2> SUFFICES ASSUME NEW c \in Key, NEW v \in versions[c]
               PROVE  /\ c \in writeSet[v.by]
                      /\ pc'[v.by] # "done" => v.by \in holders[c]
                      /\ v.state = "Committed" =>
                           /\ v.ts = commitTs[v.by] /\ v.ts # NoTs
                           /\ pc'[v.by] \in {"commitState", "release", "done"}
    BY <1>1 DEF VersionInv
  <2>1. v.by \in Tx
    BY DEF TypeOK, Version
  <2> QED
    BY <1>1, <1>2, <1>3, <2>1 DEF VersionInv
<1>8. OrderInv'
  BY <1>1, <1>4 DEF OrderInv
<1>9. LeftInv'
  BY <1>1, <1>2, <1>3 DEF LeftInv
<1>10. SnapshotInv'
  <2> SUFFICES ASSUME NEW u \in Tx, clean'[u], Reads(u)'
               PROVE  /\ gc'.at # "idle" => gc'.min <= start'[u]
                      /\ \A w \in Tx : commitTs'[w] # NoTs /\ commitTs'[w] <= start'[u] =>
                            pc'[w] \in {"release", "done"} /\ w \notin active'[u]
                      /\ \A c \in Key : FirstOf(Before(u, c)') = seen'[u][c]
    BY DEF SnapshotInv
  <2>1. CASE u # t
    <3>1. clean[u] /\ Reads(u)
      BY <1>1, <1>2, <1>3, <2>1 DEF Reads
    <3>2. \A c \in Key : FirstOf(Before(u, c)') = seen'[u][c]
      BY <1>1, <1>2, <2>1, <3>1, SameSnapshots DEF SnapshotInv
    <3>3. \A w \in Tx : commitTs'[w] # NoTs /\ commitTs'[w] <= start'[u] =>
            pc'[w] \in {"release", "done"} /\ w \notin active'[u]
      BY <1>1, <1>2, <1>3, <2>1, <3>1 DEF SnapshotInv
    <3> QED
      BY <1>1, <1>2, <2>1, <3>1, <3>2, <3>3 DEF SnapshotInv
  <2>2. CASE u = t
    <3>1. gc.at = "idle" /\ \A w \in Tx : ~ Committing(w)
      <4>1. clean'[t] = (gc.at = "idle" /\ ~ \E w \in Tx : Committing(w))
        BY Zenon DEF BeginTimestamp, TypeOK
      <4> QED
        BY <2>2, <4>1
    <3>2. \A w \in Tx : commitTs[w] # NoTs => pc[w] \in {"release", "done"} /\ w # t
      BY <1>3, <3>1 DEF PhaseInv, Committing
    <3>3. active[t] = {}
      BY <1>3 DEF PhaseInv
    <3>4. \A w \in Tx : commitTs'[w] # NoTs /\ commitTs'[w] <= start'[u] =>
            pc'[w] \in {"release", "done"} /\ w \notin active'[u]
      BY <1>1, <1>2, <2>2, <3>2, <3>3
    <3>5. ASSUME NEW c \in Key PROVE FirstOf(Before(t, c)') = seen'[t][c]
      <4>1. \A v \in Committed(c) : v.ts <= ts
        BY DEF Committed, VersionInv, PhaseInv, TypeOK, Version
      <4>2. Before(t, c)' = Committed(c)
        BY <1>2, <1>4, <4>1 DEF Before
      <4>3. seen'[t] = [d \in Key |-> FirstOf(Committed(d))]
        BY DEF BeginTimestamp, TypeOK
      <4> QED
        BY <4>2, <4>3
    <3> QED
      BY <1>1, <2>2, <3>1, <3>4, <3>5
  <2> QED
    BY <2>1, <2>2
<1> QED
  BY <1>4, <1>5, <1>6, <1>7, <1>8, <1>9, <1>10

\* A lock is taken by a transaction that has no commit timestamp yet.
LEMMA AcquireInv ==
    ASSUME TypeOK, MvccInv, NEW t \in Tx, Acquire(t)
    PROVE  MvccInv'
<1> USE DEF MvccInv
<1>1. UNCHANGED <<state, start, commitTs, active, writeSet, wkey, versions, ts, writes, gc,
                seen, clean>>
  BY DEF Acquire, txVars, ghostVars
<1> DEFINE k == wkey[t]
<1>2. k \in Key /\ pc[t] = "locking" /\ k \in writeSet[t] /\ commitTs[t] = NoTs
  BY DEF Acquire, TypeOK, PhaseInv
<1>3. \/ /\ holders[k] \subseteq {t}
         /\ pc' = [pc EXCEPT ![t] = "granted"]
         /\ holders' = [holders EXCEPT ![k] = holders[k] \cup {t}]
         /\ waiters' = waiters
      \/ /\ UNCHANGED <<pc, holders>>
         /\ waiters' = [waiters EXCEPT ![k] = waiters[k] \cup {t}]
  BY DEF Acquire, CanGrant, Goto
<1>4. ChainInv' /\ \A c : Committed(c)' = Committed(c) /\ ChainOrdered(c)' = ChainOrdered(c)
  BY <1>1, SameChains
<1>5. /\ \A u \in Tx : u # t => pc'[u] = pc[u]
      /\ pc'[t] \in {"locking", "granted"}
      /\ pc'[t] = "granted" => t \in holders'[k]
      /\ \A c \in Key : /\ holders[c] \subseteq holders'[c]
                        /\ holders'[c] \subseteq holders[c] \cup {t}
      /\ \A c \in Key : waiters'[c] \subseteq waiters[c] \cup {t}
      /\ \A c \in Key : holders'[c] = holders[c] \/ holders'[c] \subseteq {t}
  <2>1. CASE /\ holders[k] \subseteq {t}
             /\ pc' = [pc EXCEPT ![t] = "granted"]
             /\ holders' = [holders EXCEPT ![k] = holders[k] \cup {t}]
             /\ waiters' = waiters
    <3>1. holders'[k] = holders[k] \cup {t} /\ \A c \in Key : c # k => holders'[c] = holders[c]
      BY <1>2, <2>1 DEF TypeOK
    <3>2. pc'[t] = "granted" /\ \A u \in Tx : u # t => pc'[u] = pc[u]
      BY <2>1 DEF TypeOK
    <3> HIDE DEF k
    <3> QED
      BY <2>1, <3>1, <3>2
  <2>2. CASE /\ UNCHANGED <<pc, holders>>
             /\ waiters' = [waiters EXCEPT ![k] = waiters[k] \cup {t}]
    <3>1. waiters'[k] = waiters[k] \cup {t} /\ \A c \in Key : c # k => waiters'[c] = waiters[c]
      BY <1>2, <2>2 DEF TypeOK
    <3> QED
      BY <1>2, <2>2, <3>1
  <2> QED
    BY <1>3, <2>1, <2>2
<1>6. PhaseInv'
  <2>1. \A u \in Tx : wkey[u] \in Key
    BY DEF TypeOK
  <2> QED
    BY <1>1, <1>2, <1>5, <2>1 DEF PhaseInv
<1>7. LockInv'
  <2> SUFFICES ASSUME NEW c \in Key, NEW u \in holders'[c]
               PROVE  pc'[u] \notin Opening /\ \A w \in holders'[c] : w = u
    BY DEF LockInv
  <2>1. CASE holders'[c] = holders[c]
    <3>1. pc[u] \notin Opening /\ u \in Tx
      BY <2>1 DEF LockInv, TypeOK
    <3> QED
      BY <1>5, <2>1, <3>1 DEF LockInv, Opening
  <2>2. CASE holders'[c] \subseteq {t}
    BY <1>5, <2>2 DEF Opening
  <2> QED
    BY <1>5, <2>1, <2>2
<1>8. VersionInv'
  <2> SUFFICES ASSUME NEW c \in Key, NEW v \in versions[c]
               PROVE  /\ c \in writeSet[v.by]
                      /\ pc'[v.by] # "done" => v.by \in holders'[c]
                      /\ v.state = "Committed" =>
                           /\ v.ts = commitTs[v.by] /\ v.ts # NoTs
                           /\ pc'[v.by] \in {"commitState", "release", "done"}
    BY <1>1 DEF VersionInv
  <2>1. v.by \in Tx
    BY DEF TypeOK, Version
  <2> QED
    BY <1>1, <1>2, <1>5, <2>1 DEF VersionInv
<1>9. OrderInv'
  BY <1>1, <1>2, <1>4, <1>5 DEF OrderInv
<1>10. LeftInv'
  BY <1>1, <1>2, <1>5 DEF LeftInv
<1>11. SnapshotInv'
  <2> SUFFICES ASSUME NEW u \in Tx, clean[u], Reads(u)'
               PROVE  /\ gc.at # "idle" => gc.min <= start[u]
                      /\ \A w \in Tx : commitTs[w] # NoTs /\ commitTs[w] <= start[u] =>
                            pc'[w] \in {"release", "done"} /\ w \notin active[u]
                      /\ \A c \in Key : FirstOf(Before(u, c)') = seen'[u][c]
    BY <1>1 DEF SnapshotInv
  <2>1. Reads(u)
    BY <1>1, <1>2, <1>5 DEF Reads
  <2>2. \A c \in Key : FirstOf(Before(u, c)') = seen'[u][c]
    BY <1>1, <2>1, SameSnapshots DEF SnapshotInv
  <2> QED
    BY <1>1, <1>2, <1>5, <2>1, <2>2 DEF SnapshotInv
<1> QED
  BY <1>4, <1>6, <1>7, <1>8, <1>9, <1>10, <1>11

\* A wait that times out.
LEMMA LockTimeoutInv ==
    ASSUME TypeOK, MvccInv, NEW t \in Tx, LockTimeout(t)
    PROVE  MvccInv'
<1> USE DEF MvccInv
<1>1. UNCHANGED <<state, start, commitTs, active, writeSet, wkey, versions, holders, ts,
                writes, gc, seen, clean>>
  BY DEF LockTimeout, txVars, lockVars, ghostVars
<1>2. /\ \A u \in Tx : pc'[u] = IF u = t THEN "ready" ELSE pc[u]
      /\ \A c \in Key : waiters'[c] \subseteq waiters[c]
  <2>1. wkey[t] \in Key
    BY DEF TypeOK
  <2>2. waiters' = [waiters EXCEPT ![wkey[t]] = waiters[wkey[t]] \ {t}]
    BY DEF LockTimeout
  <2>3. \A c \in Key : waiters'[c] \subseteq waiters[c]
    BY <2>1, <2>2 DEF TypeOK
  <2> QED
    BY <2>3 DEF LockTimeout, Goto, TypeOK
<1>3. pc[t] = "locking"
  BY DEF LockTimeout
<1>4. ChainInv' /\ \A c : Committed(c)' = Committed(c) /\ ChainOrdered(c)' = ChainOrdered(c)
  BY <1>1, SameChains
<1>5. PhaseInv'
  BY <1>1, <1>2, <1>3 DEF PhaseInv
<1>6. LockInv'
  BY <1>1, <1>2, <1>3 DEF LockInv, TypeOK, Opening
<1>7. VersionInv'
  <2> SUFFICES ASSUME NEW c \in Key, NEW v \in versions[c]
               PROVE  /\ c \in writeSet[v.by]
                      /\ pc'[v.by] # "done" => v.by \in holders'[c]
                      /\ v.state = "Committed" =>
                           /\ v.ts = commitTs[v.by] /\ v.ts # NoTs
                           /\ pc'[v.by] \in {"commitState", "release", "done"}
    BY <1>1 DEF VersionInv
  <2>1. v.by \in Tx
    BY DEF TypeOK, Version
  <2> QED
    BY <1>1, <1>2, <1>3, <2>1 DEF VersionInv
<1>8. OrderInv'
  BY <1>1, <1>2, <1>3, <1>4 DEF OrderInv
<1>9. LeftInv'
  BY <1>1, <1>2, <1>3 DEF LeftInv
<1>10. SnapshotInv'
  <2> SUFFICES ASSUME NEW u \in Tx, clean'[u], Reads(u)'
               PROVE  /\ gc'.at # "idle" => gc'.min <= start[u]
                      /\ \A w \in Tx : commitTs[w] # NoTs /\ commitTs[w] <= start[u] =>
                            pc'[w] \in {"release", "done"} /\ w \notin active[u]
                      /\ \A c \in Key : FirstOf(Before(u, c)') = seen'[u][c]
    BY <1>1 DEF SnapshotInv
  <2>1. clean[u] /\ Reads(u)
    BY <1>1, <1>2, <1>3 DEF Reads
  <2>2. \A c \in Key : FirstOf(Before(u, c)') = seen'[u][c]
    BY <1>1, <2>1, SameSnapshots DEF SnapshotInv
  <2>3. gc'.at # "idle" => gc'.min <= start[u]
    BY <1>1, <1>2, <1>3, <2>1 DEF SnapshotInv
  <2> QED
    BY <1>1, <1>2, <1>3, <2>1, <2>2, <2>3 DEF SnapshotInv
<1> QED
  BY <1>4, <1>5, <1>6, <1>7, <1>8, <1>9, <1>10

\* The locks are given up last.
LEMMA ReleaseAllInv ==
    ASSUME TypeOK, MvccInv, NEW t \in Tx, ReleaseAll(t)
    PROVE  MvccInv'
<1> USE DEF MvccInv
<1>1. UNCHANGED <<state, start, commitTs, active, writeSet, wkey, versions, ts, writes, gc,
                seen, clean>>
  BY DEF ReleaseAll, txVars, lockVars, ghostVars
<1>2. /\ \A u \in Tx : pc'[u] = IF u = t THEN "done" ELSE pc[u]
      /\ \A c \in Key : holders'[c] = holders[c] \ {t} /\ waiters'[c] = waiters[c] \ {t}
  BY DEF ReleaseAll, Goto, TypeOK
<1>3. pc[t] = "release"
  BY DEF ReleaseAll
<1>4. ChainInv' /\ \A c : Committed(c)' = Committed(c) /\ ChainOrdered(c)' = ChainOrdered(c)
  BY <1>1, SameChains
<1>5. PhaseInv'
  <2>1. \A u \in Tx : wkey[u] \in Key
    BY DEF TypeOK
  <2> QED
    BY <1>1, <1>2, <1>3, <2>1 DEF PhaseInv
<1>6. LockInv'
  BY <1>1, <1>2, <1>3 DEF LockInv, TypeOK, Opening
<1>7. VersionInv'
  <2> SUFFICES ASSUME NEW c \in Key, NEW v \in versions[c]
               PROVE  /\ c \in writeSet[v.by]
                      /\ pc'[v.by] # "done" => v.by \in holders'[c]
                      /\ v.state = "Committed" =>
                           /\ v.ts = commitTs[v.by] /\ v.ts # NoTs
                           /\ pc'[v.by] \in {"commitState", "release", "done"}
    BY <1>1 DEF VersionInv
  <2>1. v.by \in Tx
    BY DEF TypeOK, Version
  <2> QED
    BY <1>1, <1>2, <1>3, <2>1 DEF VersionInv
<1>8. OrderInv'
  BY <1>1, <1>2, <1>3, <1>4 DEF OrderInv
<1>9. LeftInv'
  BY <1>1, <1>2, <1>3 DEF LeftInv
<1>10. SnapshotInv'
  <2> SUFFICES ASSUME NEW u \in Tx, clean'[u], Reads(u)'
               PROVE  /\ gc'.at # "idle" => gc'.min <= start[u]
                      /\ \A w \in Tx : commitTs[w] # NoTs /\ commitTs[w] <= start[u] =>
                            pc'[w] \in {"release", "done"} /\ w \notin active[u]
                      /\ \A c \in Key : FirstOf(Before(u, c)') = seen'[u][c]
    BY <1>1 DEF SnapshotInv
  <2>1. clean[u] /\ Reads(u)
    BY <1>1, <1>2, <1>3 DEF Reads
  <2>2. \A c \in Key : FirstOf(Before(u, c)') = seen'[u][c]
    BY <1>1, <2>1, SameSnapshots DEF SnapshotInv
  <2>3. gc'.at # "idle" => gc'.min <= start[u]
    BY <1>1, <1>2, <1>3, <2>1 DEF SnapshotInv
  <2> QED
    BY <1>1, <1>2, <1>3, <2>1, <2>2, <2>3 DEF SnapshotInv
<1> QED
  BY <1>4, <1>5, <1>6, <1>7, <1>8, <1>9, <1>10

\* Transactions that have ended are forgotten.
LEMMA GcTransactionsInv ==
    ASSUME TypeOK, MvccInv, GcTransactions
    PROVE  MvccInv'
<1> USE DEF MvccInv
<1>1. UNCHANGED <<pc, start, commitTs, active, writeSet, wkey, versions, holders, waiters,
                ts, writes, seen, clean>>
  BY DEF GcTransactions, txVars, lockVars, ghostVars
<1>2. \A u \in Tx : state'[u] = "Active" => state[u] = "Active"
  BY DEF GcTransactions, TypeOK
<1>3. gc'.at = "idle"
  BY DEF GcTransactions, TypeOK
<1>4. ChainInv' /\ \A c : Committed(c)' = Committed(c) /\ ChainOrdered(c)' = ChainOrdered(c)
  BY <1>1, SameChains
<1>5. PhaseInv'
  BY <1>1, <1>2, <1>3 DEF PhaseInv
<1>6. LockInv'
  BY <1>1, <1>2, <1>3 DEF LockInv, TypeOK, Opening
<1>7. VersionInv'
  <2> SUFFICES ASSUME NEW c \in Key, NEW v \in versions[c]
               PROVE  /\ c \in writeSet[v.by]
                      /\ pc'[v.by] # "done" => v.by \in holders'[c]
                      /\ v.state = "Committed" =>
                           /\ v.ts = commitTs[v.by] /\ v.ts # NoTs
                           /\ pc'[v.by] \in {"commitState", "release", "done"}
    BY <1>1 DEF VersionInv
  <2>1. v.by \in Tx
    BY DEF TypeOK, Version
  <2> QED
    BY <1>1, <1>2, <1>3, <2>1 DEF VersionInv
<1>8. OrderInv'
  BY <1>1, <1>2, <1>3, <1>4 DEF OrderInv
<1>9. LeftInv'
  BY <1>1, <1>2, <1>3 DEF LeftInv
<1>10. SnapshotInv'
  <2> SUFFICES ASSUME NEW u \in Tx, clean'[u], Reads(u)'
               PROVE  /\ gc'.at # "idle" => gc'.min <= start[u]
                      /\ \A w \in Tx : commitTs[w] # NoTs /\ commitTs[w] <= start[u] =>
                            pc'[w] \in {"release", "done"} /\ w \notin active[u]
                      /\ \A c \in Key : FirstOf(Before(u, c)') = seen'[u][c]
    BY <1>1 DEF SnapshotInv
  <2>1. clean[u] /\ Reads(u)
    BY <1>1, <1>2, <1>3 DEF Reads
  <2>2. \A c \in Key : FirstOf(Before(u, c)') = seen'[u][c]
    BY <1>1, <2>1, SameSnapshots DEF SnapshotInv
  <2>3. gc'.at # "idle" => gc'.min <= start[u]
    BY <1>1, <1>2, <1>3, <2>1 DEF SnapshotInv
  <2> QED
    BY <1>1, <1>2, <1>3, <2>1, <2>2, <2>3 DEF SnapshotInv
<1> QED
  BY <1>4, <1>5, <1>6, <1>7, <1>8, <1>9, <1>10

\* The watermark is at or below the start of every clean snapshot.
LEMMA GcWatermarkInv ==
    ASSUME TypeOK, MvccInv, GcWatermark
    PROVE  MvccInv'
<1> USE DEF MvccInv
<1>1. UNCHANGED <<pc, state, start, commitTs, active, writeSet, wkey, versions, holders,
                waiters, ts, writes, seen>>
  BY DEF GcWatermark, txVars, lockVars, ghostVars
<1>2. \A u \in Tx : clean'[u] => clean[u] /\ pc[u] \notin {"beginActive", "beginInsert"}
  BY Zenon DEF GcWatermark, TypeOK
<1>3. \A u \in Tx : state[u] = "Active" => gc'.min <= start[u]
  BY Watermark DEF GcWatermark
<1>4. ChainInv' /\ \A c : Committed(c)' = Committed(c) /\ ChainOrdered(c)' = ChainOrdered(c)
  BY <1>1, SameChains
<1>5. PhaseInv'
  BY <1>1, <1>2, <1>3 DEF PhaseInv
<1>6. LockInv'
  BY <1>1, <1>2, <1>3 DEF LockInv, TypeOK, Opening
<1>7. VersionInv'
  <2> SUFFICES ASSUME NEW c \in Key, NEW v \in versions[c]
               PROVE  /\ c \in writeSet[v.by]
                      /\ pc'[v.by] # "done" => v.by \in holders'[c]
                      /\ v.state = "Committed" =>
                           /\ v.ts = commitTs[v.by] /\ v.ts # NoTs
                           /\ pc'[v.by] \in {"commitState", "release", "done"}
    BY <1>1 DEF VersionInv
  <2>1. v.by \in Tx
    BY DEF TypeOK, Version
  <2> QED
    BY <1>1, <1>2, <1>3, <2>1 DEF VersionInv
<1>8. OrderInv'
  BY <1>1, <1>2, <1>3, <1>4 DEF OrderInv
<1>9. LeftInv'
  BY <1>1, <1>2, <1>3 DEF LeftInv
<1>10. SnapshotInv'
  <2> SUFFICES ASSUME NEW u \in Tx, clean'[u], Reads(u)'
               PROVE  /\ gc'.at # "idle" => gc'.min <= start[u]
                      /\ \A w \in Tx : commitTs[w] # NoTs /\ commitTs[w] <= start[u] =>
                            pc'[w] \in {"release", "done"} /\ w \notin active[u]
                      /\ \A c \in Key : FirstOf(Before(u, c)') = seen'[u][c]
    BY <1>1 DEF SnapshotInv
  <2>1. clean[u] /\ Reads(u)
    BY <1>1, <1>2, <1>3 DEF Reads
  <2>2. \A c \in Key : FirstOf(Before(u, c)') = seen'[u][c]
    BY <1>1, <2>1, SameSnapshots DEF SnapshotInv
  <2>3. gc'.at # "idle" => gc'.min <= start[u]
    BY <1>1, <1>2, <1>3, <2>1 DEF Reads
  <2> QED
    BY <1>1, <1>2, <1>3, <2>1, <2>2, <2>3 DEF SnapshotInv
<1> QED
  BY <1>4, <1>5, <1>6, <1>7, <1>8, <1>9, <1>10

-----------------------------------------------------------------------------
(* Steps that change the chains.                                            *)

\* A write puts an unfinished version on the chain of a key it has locked.
LEMMA WriteVersionInv ==
    ASSUME TypeOK, MvccInv, NEW t \in Tx, WriteVersion(t)
    PROVE  MvccInv'
<1> USE DEF MvccInv
<1>1. UNCHANGED <<state, start, commitTs, active, writeSet, wkey, holders, waiters, ts,
                writes, gc, seen, clean>>
  BY DEF WriteVersion, txVars, lockVars, ghostVars
<1>2. \A u \in Tx : pc'[u] = IF u = t THEN "ready" ELSE pc[u]
  BY DEF WriteVersion, Goto, TypeOK
<1>3. PICK k \in Key : k = wkey[t] /\ k \in writeSet[t] /\ t \in holders[k] /\ pc[t] = "granted"
  BY DEF WriteVersion, TypeOK, PhaseInv
<1>4. PICK n : n = NewVersion(t, versions[k])
  OBVIOUS
<1>5. n.by = t /\ n.state = "Active" /\ n \in Version
  BY <1>4, NewVersionType DEF NewVersion
<1>6. versions'[k] = versions[k] \cup {n} /\ \A c \in Key : c # k => versions'[c] = versions[c]
  BY <1>3, <1>4 DEF WriteVersion, TypeOK
<1>7. \A v \in versions[k] : v.at < n.at /\ v.at \in Nat
  <2> SUFFICES ASSUME NEW v \in versions[k] PROVE v.at < n.at /\ v.at \in Nat
    OBVIOUS
  <2>1. n.at = HeadOf(versions[k]).at + 1
    BY <1>4 DEF NewVersion
  <2>2. v.at <= HeadOf(versions[k]).at
    BY HeadExists DEF IsHead
  <2>3. v.at \in Nat /\ HeadOf(versions[k]).at \in Nat
    BY HeadVersion DEF TypeOK, Version
  <2> QED
    BY <2>1, <2>2, <2>3
<1>8. Numbers(versions'[k]) /\ IsHead(n, versions'[k]) /\ HeadOf(versions'[k]) = n
  <2>1. n.at \in Nat
    BY <1>5 DEF Version
  <2>2. Numbers(versions[k])
    BY DEF ChainInv
  <2>3. Numbers(versions'[k])
    BY <1>6, <1>7, <2>1, <2>2 DEF Numbers
  <2>4. IsHead(n, versions'[k])
    BY <1>6, <1>7, <2>1 DEF IsHead
  <2>5. \A v \in versions'[k] : v.at \in Nat
    BY <1>6, <1>7, <2>1
  <2> QED
    BY <2>3, <2>4, <2>5, HeadUnique
<1>9. ChainInv'
  <2> SUFFICES ASSUME NEW c \in Key
               PROVE  /\ Numbers(versions'[c])
                      /\ versions'[c] # {} => \E h \in versions'[c] : IsHead(h, versions'[c])
    BY DEF ChainInv, Numbers, IsHead
  <2>1. CASE c = k
    BY <1>6, <1>8, <2>1
  <2>2. CASE c # k
    BY <1>6, <2>2 DEF ChainInv
  <2> QED
    BY <2>1, <2>2
<1>10. \A c \in Key : Committed(c)' = Committed(c)
  BY <1>5, <1>6 DEF Committed
<1>11. PhaseInv'
  BY <1>1, <1>2, <1>3 DEF PhaseInv
<1>12. LockInv'
  BY <1>1, <1>2, <1>3 DEF LockInv, TypeOK, Opening
<1>13. VersionInv'
  <2> SUFFICES ASSUME NEW c \in Key, NEW v \in versions'[c]
               PROVE  /\ c \in writeSet[v.by]
                      /\ pc'[v.by] # "done" => v.by \in holders[c]
                      /\ v.state = "Committed" =>
                           /\ v.ts = commitTs[v.by] /\ v.ts # NoTs
                           /\ pc'[v.by] \in {"commitState", "release", "done"}
    BY <1>1 DEF VersionInv
  <2>1. CASE v \in versions[c]
    <3>1. v.by \in Tx
      BY <2>1 DEF TypeOK, Version
    <3> QED
      BY <1>2, <1>3, <2>1, <3>1 DEF VersionInv
  <2>2. CASE v \notin versions[c]
    <3>1. c = k /\ v = n
      BY <1>6, <2>2
    <3> QED
      BY <1>3, <1>5, <3>1
  <2> QED
    BY <2>1, <2>2
<1>14. OrderInv'
  BY <1>1, <1>10 DEF OrderInv, ChainOrdered
<1>15. LeftInv'
  <2> SUFFICES ASSUME NEW u \in Tx, NEW c \in Key,
                      pc'[u] \in {"commitState", "release", "done"}, versions'[c] # {},
                      HeadOf(versions'[c]).by = u
               PROVE  HeadOf(versions'[c]).state # "Active"
    BY DEF LeftInv
  <2>1. CASE c = k
    BY <1>2, <1>5, <1>8, <2>1
  <2>2. CASE c # k
    BY <1>2, <1>6, <2>2 DEF LeftInv
  <2> QED
    BY <2>1, <2>2
<1>16. SnapshotInv'
  <2> SUFFICES ASSUME NEW u \in Tx, clean[u], Reads(u)'
               PROVE  /\ gc'.at # "idle" => gc'.min <= start[u]
                      /\ \A w \in Tx : commitTs[w] # NoTs /\ commitTs[w] <= start[u] =>
                            pc'[w] \in {"release", "done"} /\ w \notin active[u]
                      /\ \A c \in Key : FirstOf(Before(u, c)') = seen'[u][c]
    BY <1>1 DEF SnapshotInv
  <2>1. Reads(u)
    BY <1>1, <1>2, <1>3 DEF Reads
  <2>2. \A c \in Key : FirstOf(Before(u, c)') = seen'[u][c]
    BY <1>1, <1>10, <2>1, CommittedSnapshots DEF SnapshotInv
  <2> QED
    BY <1>1, <1>2, <1>3, <2>1, <2>2 DEF SnapshotInv
<1> QED
  BY <1>9, <1>11, <1>12, <1>13, <1>14, <1>15, <1>16

\* Marking a chain changes the state of its head, if that is the transaction's.
LEMMA MarkedChain ==
    ASSUME TypeOK, ChainInv, NEW t \in Tx, NEW st, NEW when, versions' = Mark(t, st, when),
           NEW k \in Key, Own(t, k)
    PROVE  \E h \in versions[k], m \in versions'[k] :
              /\ IsHead(h, versions[k]) /\ h.by = t
              /\ m = Marked(h, st, when) /\ versions'[k] = (versions[k] \ {h}) \cup {m}
              /\ Numbers(versions'[k]) /\ IsHead(m, versions'[k]) /\ HeadOf(versions'[k]) = m
<1>1. PICK h : h = HeadOf(versions[k])
  OBVIOUS
<1>2. h \in versions[k] /\ IsHead(h, versions[k]) /\ h.by = t /\ h.at \in Nat
  BY <1>1, HeadVersion, HeadExists DEF Own
<1>3. PICK m : m = Marked(h, st, when)
  OBVIOUS
<1>4. m.at = h.at
  BY <1>3 DEF Marked
<1>5. versions'[k] = Behind(versions[k], h) \cup {m}
  BY <1>1, <1>3 DEF Mark
<1>6. /\ \A v, w \in versions[k] : v.at = w.at => v = w
      /\ \A v \in versions[k] : v.at \in Nat /\ v.at <= h.at
  BY <1>2 DEF ChainInv, Numbers, IsHead, TypeOK, Version
<1>7. Behind(versions[k], h) = versions[k] \ {h}
  BY <1>2, <1>6 DEF Behind
<1>8. /\ \A v \in versions'[k] : v.at \in Nat /\ v.at <= m.at
      /\ m \in versions'[k]
  BY <1>2, <1>4, <1>5, <1>6, <1>7
<1>9. \A v, w \in versions'[k] : v.at = w.at => v = w
  BY <1>2, <1>4, <1>5, <1>6, <1>7
<1>10. Numbers(versions'[k]) /\ IsHead(m, versions'[k])
  BY <1>8, <1>9 DEF Numbers, IsHead
<1>11. HeadOf(versions'[k]) = m
  BY <1>8, <1>10, HeadUnique
<1> QED
  BY <1>2, <1>3, <1>5, <1>7, <1>10, <1>11

\* The steps of commit and abort that mark, with all that does not depend on
\* whether the versions become committed.
LEMMA MarkInv ==
    ASSUME TypeOK, MvccInv, NEW t \in Tx, NEW st \in {"Committed", "Aborted"}, NEW when,
           versions' = Mark(t, st, when),
           UNCHANGED <<state, start, commitTs, active, writeSet, wkey, holders, waiters, ts, writes,
                       gc, seen, clean>>,
           pc[t] \in {"commitVersions", "abortVersions"},
           NEW label \in {"commitState", "release"}, pc' = [pc EXCEPT ![t] = label],
           pc[t] = "commitVersions" <=> label = "commitState",
           st = "Committed" <=> label = "commitState",
           st = "Committed" => when = commitTs[t]
    PROVE  /\ ChainInv' /\ PhaseInv' /\ LockInv' /\ VersionInv' /\ LeftInv'
           /\ \A k \in Key : \A v \in Committed(k)' \ Committed(k) :
                 /\ st = "Committed" /\ v.ts = commitTs[t] /\ v.by = t /\ t \in holders[k]
                 /\ v.at \in Nat /\ \A w \in versions[k] : w.at <= v.at
                 /\ \A w \in Committed(k)' \ Committed(k) : w = v
           /\ \A k \in Key : Committed(k) \subseteq Committed(k)'
<1> USE DEF MvccInv
<1>1. \A u \in Tx : pc'[u] = IF u = t THEN label ELSE pc[u]
  BY DEF TypeOK
<1>2. \A k \in Key : ~ Own(t, k) => versions'[k] = versions[k]
  BY DEF Mark
<1>3. \A k \in Key : \A v \in versions[k] :
        v.by = t => v.state # "Committed" /\ k \in writeSet[t] /\ t \in holders[k]
  BY DEF VersionInv
<1>4. ASSUME NEW k \in Key, Own(t, k)
      PROVE  \E h \in versions[k], m \in versions'[k] :
                /\ IsHead(h, versions[k]) /\ h.by = t /\ h.state # "Committed"
                /\ m.by = t /\ m.state = st /\ m.ts = when /\ m.at = h.at
                /\ versions'[k] = (versions[k] \ {h}) \cup {m}
                /\ Numbers(versions'[k]) /\ IsHead(m, versions'[k]) /\ HeadOf(versions'[k]) = m
  <2>1. PICK h \in versions[k], m \in versions'[k] :
              /\ IsHead(h, versions[k]) /\ h.by = t
              /\ m = Marked(h, st, when) /\ versions'[k] = (versions[k] \ {h}) \cup {m}
              /\ Numbers(versions'[k]) /\ IsHead(m, versions'[k]) /\ HeadOf(versions'[k]) = m
    BY <1>4, MarkedChain
  <2>2. m.by = t /\ m.state = st /\ m.ts = when /\ m.at = h.at
    BY <2>1 DEF Marked
  <2> QED
    BY <1>3, <2>1, <2>2
<1>5. ChainInv'
  <2> SUFFICES ASSUME NEW k \in Key
               PROVE  /\ Numbers(versions'[k])
                      /\ versions'[k] # {} => \E h \in versions'[k] : IsHead(h, versions'[k])
    BY DEF ChainInv, Numbers, IsHead
  <2>1. CASE Own(t, k)
    BY <1>4, <2>1 DEF IsHead
  <2>2. CASE ~ Own(t, k)
    BY <1>2, <2>2 DEF ChainInv
  <2> QED
    BY <2>1, <2>2
<1>6. PhaseInv'
  <2>1. label = "release" => commitTs[t] = NoTs
    BY DEF PhaseInv
  <2> QED
    BY <1>1, <2>1 DEF PhaseInv
<1>7. LockInv'
  BY <1>1 DEF LockInv, TypeOK, Opening
<1>8. VersionInv'
  <2> SUFFICES ASSUME NEW c \in Key, NEW v \in versions'[c]
               PROVE  /\ c \in writeSet[v.by]
                      /\ pc'[v.by] # "done" => v.by \in holders[c]
                      /\ v.state = "Committed" =>
                           /\ v.ts = commitTs[v.by] /\ v.ts # NoTs
                           /\ pc'[v.by] \in {"commitState", "release", "done"}
    BY DEF VersionInv
  <2>1. CASE v \in versions[c]
    <3>1. v.by \in Tx
      BY <2>1 DEF TypeOK, Version
    <3> QED
      BY <1>1, <2>1, <3>1 DEF VersionInv
  <2>2. CASE v \notin versions[c]
    <3>1. Own(t, c)
      BY <1>2, <2>2
    <3>2. v.by = t /\ v.state = st /\ v.ts = when
      BY <1>4, <2>2, <3>1
    <3>3. c \in writeSet[t] /\ t \in holders[c]
      BY <1>3, <1>4, <3>1
    <3>4. st = "Committed" => commitTs[t] # NoTs
      BY DEF PhaseInv
    <3> QED
      BY <1>1, <3>2, <3>3, <3>4
  <2> QED
    BY <2>1, <2>2
<1>9. LeftInv'
  <2> SUFFICES ASSUME NEW u \in Tx, NEW c \in Key,
                      pc'[u] \in {"commitState", "release", "done"}, versions'[c] # {},
                      HeadOf(versions'[c]).by = u
               PROVE  HeadOf(versions'[c]).state # "Active"
    BY DEF LeftInv
  <2>1. CASE Own(t, c)
    BY <1>4, <2>1
  <2>2. CASE ~ Own(t, c)
    <3>1. versions'[c] = versions[c]
      BY <1>2, <2>2
    <3>2. HeadOf(versions[c]) \in versions[c]
      BY <3>1, HeadVersion
    <3>3. u # t
      BY <1>3, <2>2, <3>1, <3>2 DEF Own
    <3> QED
      BY <1>1, <3>1, <3>3 DEF LeftInv
  <2> QED
    BY <2>1, <2>2
<1>10. ASSUME NEW k \in Key
       PROVE  /\ \A v \in Committed(k)' \ Committed(k) :
                    /\ st = "Committed" /\ v.ts = commitTs[t] /\ v.by = t /\ t \in holders[k]
                    /\ v.at \in Nat /\ \A w \in versions[k] : w.at <= v.at
                    /\ \A w \in Committed(k)' \ Committed(k) : w = v
              /\ Committed(k) \subseteq Committed(k)'
  <2>1. CASE Own(t, k)
    <3>1. PICK h \in versions[k], m \in versions'[k] :
                /\ IsHead(h, versions[k]) /\ h.by = t /\ h.state # "Committed"
                /\ m.by = t /\ m.state = st /\ m.ts = when /\ m.at = h.at
                /\ versions'[k] = (versions[k] \ {h}) \cup {m}
      BY <1>4, <2>1
    <3>2. /\ Committed(k) \subseteq Committed(k)'
          /\ \A v \in Committed(k)' \ Committed(k) : v = m /\ st = "Committed"
      BY <3>1 DEF Committed
    <3>3. t \in holders[k] /\ h.at \in Nat
      BY <1>3, <3>1 DEF TypeOK, Version
    <3> QED
      BY <3>1, <3>2, <3>3 DEF IsHead
  <2>2. CASE ~ Own(t, k)
    BY <1>2, <2>2 DEF Committed
  <2> QED
    BY <2>1, <2>2
<1> QED
  BY <1>5, <1>6, <1>7, <1>8, <1>9, <1>10

\* The versions of a commit come after all that is committed on their keys, and
\* after every clean snapshot.
LEMMA CommitVersionsInv ==
    ASSUME TypeOK, MvccInv, NEW t \in Tx, CommitVersions(t)
    PROVE  MvccInv'
<1> USE DEF MvccInv
<1>1. UNCHANGED <<state, start, commitTs, active, writeSet, wkey, holders, waiters, ts,
                writes, gc, seen, clean>>
  BY DEF CommitVersions, txVars, lockVars, ghostVars
<1>2. /\ pc[t] = "commitVersions" /\ pc' = [pc EXCEPT ![t] = "commitState"]
      /\ versions' = Mark(t, "Committed", commitTs[t])
  BY DEF CommitVersions, Goto
<1>3. /\ ChainInv' /\ PhaseInv' /\ LockInv' /\ VersionInv' /\ LeftInv'
      /\ \A k \in Key : \A v \in Committed(k)' \ Committed(k) :
            /\ v.ts = commitTs[t] /\ v.by = t /\ t \in holders[k]
            /\ v.at \in Nat /\ \A w \in versions[k] : w.at <= v.at
            /\ \A w \in Committed(k)' \ Committed(k) : w = v
      /\ \A k \in Key : Committed(k) \subseteq Committed(k)'
  BY <1>1, <1>2, MarkInv
<1>4. OrderInv'
  <2> SUFFICES ASSUME NEW k \in Key
               PROVE  /\ \A v, w \in Committed(k)' : v.at < w.at => v.ts < w.ts
                      /\ \A v \in Committed(k)', u \in holders[k] :
                            commitTs[u] # NoTs /\ u # v.by => v.ts < commitTs[u]
    BY <1>1 DEF OrderInv, ChainOrdered
  <2>1. \A v \in Committed(k) : v \in versions[k] /\ v.by # t /\ v.at \in Nat
    <3> SUFFICES ASSUME NEW v \in Committed(k)
                 PROVE  v \in versions[k] /\ v.by # t /\ v.at \in Nat
      OBVIOUS
    <3>1. v \in versions[k] /\ v.state = "Committed"
      BY DEF Committed
    <3>2. v.at \in Nat
      BY <3>1 DEF TypeOK, Version
    <3>3. pc[v.by] \in {"commitState", "release", "done"}
      BY <3>1 DEF VersionInv
    <3> QED
      BY <1>2, <3>1, <3>2, <3>3
  <2>2. commitTs[t] # NoTs
    BY <1>2 DEF PhaseInv
  <2>3. ASSUME NEW v \in Committed(k)', NEW w \in Committed(k)', v.at < w.at PROVE v.ts < w.ts
    <3>1. CASE w \in Committed(k)
      <4>1. v \in Committed(k)
        <5> SUFFICES ASSUME v \notin Committed(k) PROVE FALSE
          OBVIOUS
        <5>1. v.at \in Nat /\ w.at \in Nat /\ w.at <= v.at
          BY <1>3, <2>1, <3>1
        <5> QED
          BY <2>3, <5>1
      <4> QED
        BY <2>3, <3>1, <4>1 DEF OrderInv, ChainOrdered
    <3>2. CASE w \notin Committed(k)
      <4>1. w.ts = commitTs[t] /\ t \in holders[k] /\ w.by = t
        BY <1>3, <3>2
      <4>2. CASE v \in Committed(k)
        BY <2>1, <2>2, <4>1, <4>2 DEF OrderInv
      <4>3. CASE v \notin Committed(k)
        <5>1. v = w /\ w.at \in Nat
          BY <1>3, <3>2, <4>3
        <5> QED
          BY <2>3, <5>1
      <4> QED
        BY <4>2, <4>3
    <3> QED
      BY <3>1, <3>2
  <2>4. ASSUME NEW v \in Committed(k)', NEW u \in holders[k], commitTs[u] # NoTs, u # v.by
        PROVE  v.ts < commitTs[u]
    <3>1. CASE v \in Committed(k)
      BY <2>4, <3>1 DEF OrderInv
    <3>2. CASE v \notin Committed(k)
      BY <1>3, <2>4, <3>2 DEF LockInv
    <3> QED
      BY <3>1, <3>2
  <2> QED
    BY <2>3, <2>4
<1>5. SnapshotInv'
  <2> SUFFICES ASSUME NEW u \in Tx, clean[u], Reads(u)'
               PROVE  /\ gc'.at # "idle" => gc'.min <= start[u]
                      /\ \A w \in Tx : commitTs[w] # NoTs /\ commitTs[w] <= start[u] =>
                            pc'[w] \in {"release", "done"} /\ w \notin active[u]
                      /\ \A c \in Key : FirstOf(Before(u, c)') = seen'[u][c]
    BY <1>1 DEF SnapshotInv
  <2>1. Reads(u)
    BY <1>1, <1>2 DEF Reads, TypeOK
  <2>2. ~ (commitTs[t] <= start[u])
    BY <1>2, <2>1 DEF SnapshotInv, PhaseInv
  <2>3. \A c \in Key : Before(u, c)' = Before(u, c)
    BY <1>1, <1>3, <2>2 DEF Before
  <2>4. \A w \in Tx : commitTs[w] # NoTs /\ commitTs[w] <= start[u] =>
          pc'[w] \in {"release", "done"} /\ w \notin active[u]
    BY <1>2, <2>1, <2>2 DEF SnapshotInv, TypeOK
  <2> QED
    BY <1>1, <2>1, <2>3, <2>4 DEF SnapshotInv
<1> QED
  BY <1>3, <1>4, <1>5

\* An abort commits nothing.
LEMMA AbortVersionsInv ==
    ASSUME TypeOK, MvccInv, NEW t \in Tx, AbortVersions(t)
    PROVE  MvccInv'
<1> USE DEF MvccInv
<1>1. UNCHANGED <<state, start, commitTs, active, writeSet, wkey, holders, waiters, ts,
                writes, gc, seen, clean>>
  BY DEF AbortVersions, txVars, lockVars, ghostVars
<1>2. pc[t] = "abortVersions"
  BY DEF AbortVersions
<1>3. /\ ChainInv' /\ PhaseInv' /\ LockInv' /\ VersionInv' /\ LeftInv'
      /\ \A k \in Key : Committed(k)' = Committed(k)
  <2>1. CASE versions' = Mark(t, "Aborted", NoTs) /\ pc' = [pc EXCEPT ![t] = "release"]
    <3>1. /\ ChainInv' /\ PhaseInv' /\ LockInv' /\ VersionInv' /\ LeftInv'
          /\ \A k \in Key : \A v \in Committed(k)' \ Committed(k) : "Aborted" = "Committed"
          /\ \A k \in Key : Committed(k) \subseteq Committed(k)'
      BY <1>1, <1>2, <2>1, MarkInv
    <3>2. "Aborted" # "Committed"
      OBVIOUS
    <3>3. \A k \in Key : Committed(k)' = Committed(k)
      BY <3>1, <3>2
    <3> QED
      BY <3>1, <3>3
  <2>2. CASE versions' = versions /\ pc' = [pc EXCEPT ![t] = "failed"]
    <3>1. \A u \in Tx : pc'[u] = IF u = t THEN "failed" ELSE pc[u]
      BY <2>2 DEF TypeOK
    <3>2. ChainInv' /\ \A k : Committed(k)' = Committed(k)
      BY <2>2, SameChains
    <3>3. PhaseInv'
      BY <1>1, <1>2, <3>1 DEF PhaseInv
    <3>4. LockInv'
      BY <1>1, <3>1 DEF LockInv, TypeOK, Opening
    <3>5. VersionInv'
      <4>1. \A c \in Key : \A v \in versions[c] : v.by \in Tx
        BY DEF TypeOK, Version
      <4> QED
        BY <1>1, <1>2, <2>2, <3>1, <4>1 DEF VersionInv
    <3>6. LeftInv'
      BY <2>2, <3>1 DEF LeftInv
    <3> QED
      BY <3>2, <3>3, <3>4, <3>5, <3>6
  <2> QED
    BY <2>1, <2>2 DEF AbortVersions, Goto
<1>4. OrderInv'
  BY <1>1, <1>3 DEF OrderInv, ChainOrdered
<1>5. \A u \in Tx : u # t => pc'[u] = pc[u]
  BY DEF AbortVersions, Goto, TypeOK
<1>6. pc'[t] \notin {"beginActive", "beginInsert"}
  BY DEF AbortVersions, Goto, TypeOK
<1>7. SnapshotInv'
  <2> SUFFICES ASSUME NEW u \in Tx, clean[u], Reads(u)'
               PROVE  /\ gc'.at # "idle" => gc'.min <= start[u]
                      /\ \A w \in Tx : commitTs[w] # NoTs /\ commitTs[w] <= start[u] =>
                            pc'[w] \in {"release", "done"} /\ w \notin active[u]
                      /\ \A c \in Key : FirstOf(Before(u, c)') = seen'[u][c]
    BY <1>1 DEF SnapshotInv
  <2>1. Reads(u)
    BY <1>1, <1>5, <1>6 DEF Reads
  <2>2. \A c \in Key : FirstOf(Before(u, c)') = seen'[u][c]
    BY <1>1, <1>3, <2>1, CommittedSnapshots DEF SnapshotInv
  <2>3. commitTs[t] = NoTs
    BY <1>2 DEF PhaseInv
  <2> QED
    BY <1>1, <1>5, <2>1, <2>2, <2>3 DEF SnapshotInv
<1> QED
  BY <1>3, <1>4, <1>7

\* The collector keeps the head of every chain, and the version that a clean
\* snapshot reads: what it cuts off is behind a version that is as old.
LEMMA GcPruneInv ==
    ASSUME TypeOK, MvccInv, GcPrune
    PROVE  MvccInv'
<1> USE DEF MvccInv
<1>1. UNCHANGED <<pc, state, start, commitTs, active, writeSet, wkey, holders, waiters, ts,
                writes, seen, clean>>
  BY DEF GcPrune, txVars, lockVars, ghostVars
<1>2. gc.at = "marked" /\ gc'.min = gc.min
  BY DEF GcPrune, TypeOK
<1>3. \A k \in Key : versions'[k] = GcVersionChain(versions[k], gc.min)
  BY DEF GcPrune
<1>4. \A k \in Key : versions'[k] \subseteq versions[k]
  BY <1>3, PruneType
<1>5. ASSUME NEW k \in Key, versions[k] # {}
      PROVE  /\ IsHead(HeadOf(versions[k]), versions'[k])
             /\ HeadOf(versions'[k]) = HeadOf(versions[k])
  <2>1. PICK h : h = HeadOf(versions[k])
    OBVIOUS
  <2>2. IsHead(h, versions[k]) /\ Numbers(versions[k])
    BY <1>5, <2>1, HeadExists
  <2>3. \A v \in versions[k] : v.at \in Nat
    BY DEF TypeOK, Version
  <2>4. \A u \in versions[k] : h \notin Behind(versions[k], u)
    BY <2>2, <2>3 DEF IsHead, Behind
  <2>5. h \in versions'[k]
    BY <1>3, <2>1, <2>2, <2>4 DEF GcVersionChain, IsHead
  <2>6. IsHead(h, versions'[k]) /\ Numbers(versions'[k])
    BY <1>4, <2>2, <2>5 DEF IsHead, Numbers
  <2>7. HeadOf(versions'[k]) = h
    BY <1>4, <2>3, <2>6, HeadUnique
  <2> QED
    BY <2>1, <2>6, <2>7
<1>6. ChainInv'
  <2> SUFFICES ASSUME NEW k \in Key
               PROVE  /\ Numbers(versions'[k])
                      /\ versions'[k] # {} => \E h \in versions'[k] : IsHead(h, versions'[k])
    BY DEF ChainInv, Numbers, IsHead
  <2>1. Numbers(versions'[k])
    BY <1>4 DEF ChainInv, Numbers
  <2>2. versions'[k] # {} => \E h \in versions'[k] : IsHead(h, versions'[k])
    BY <1>4, <1>5 DEF IsHead
  <2> QED
    BY <2>1, <2>2
<1>7. PhaseInv' /\ LockInv'
  BY <1>1 DEF PhaseInv, LockInv
<1>8. VersionInv'
  BY <1>1, <1>4 DEF VersionInv
<1>9. \A k \in Key : Committed(k)' \subseteq Committed(k)
  BY <1>4 DEF Committed
<1>10. OrderInv'
  BY <1>1, <1>9 DEF OrderInv, ChainOrdered
<1>11. LeftInv'
  <2> SUFFICES ASSUME NEW u \in Tx, NEW c \in Key,
                      pc'[u] \in {"commitState", "release", "done"}, versions'[c] # {},
                      HeadOf(versions'[c]).by = u
               PROVE  HeadOf(versions'[c]).state # "Active"
    BY DEF LeftInv
  <2>1. versions[c] # {} /\ HeadOf(versions'[c]) = HeadOf(versions[c])
    BY <1>4, <1>5
  <2> QED
    BY <1>1, <2>1 DEF LeftInv
<1>12. SnapshotInv'
  <2> SUFFICES ASSUME NEW u \in Tx, clean[u], Reads(u)'
               PROVE  /\ gc'.at # "idle" => gc'.min <= start[u]
                      /\ \A w \in Tx : commitTs[w] # NoTs /\ commitTs[w] <= start[u] =>
                            pc'[w] \in {"release", "done"} /\ w \notin active[u]
                      /\ \A c \in Key : FirstOf(Before(u, c)') = seen'[u][c]
    BY <1>1 DEF SnapshotInv
  <2>1. Reads(u)
    BY <1>1 DEF Reads
  <2>2. gc.min <= start[u] /\ start[u] \in Int /\ gc.min \in Int
    BY <1>2, <2>1 DEF SnapshotInv, TypeOK, NoTs
  <2>3. ASSUME NEW c \in Key PROVE FirstOf(Before(u, c)') = FirstOf(Before(u, c))
    <3>1. Before(u, c) \subseteq versions[c] /\ Before(u, c)' \subseteq Before(u, c)
      BY <1>1, <1>9 DEF Before, Committed
    <3>2. CASE Before(u, c) = {}
      BY <3>1, <3>2
    <3>3. CASE Before(u, c) # {}
      <4>1. PICK h : h = HeadOf(Before(u, c))
        OBVIOUS
      <4>2. IsHead(h, Before(u, c)) /\ Numbers(Before(u, c))
        BY <3>1, <3>3, <4>1, HeadExists
      <4>3. h \in versions[c] /\ h.state = "Committed" /\ h.ts <= start[u]
        BY <4>2 DEF IsHead, Before, Committed
      <4>4. ASSUME NEW v \in versions[c], h \in Behind(versions[c], v)
            PROVE  ~ Cuts(versions[c], v, gc.min)
        <5> SUFFICES ASSUME Old(v, gc.min) PROVE FALSE
          BY DEF Cuts
        <5>1. v.ts \in Int /\ v.at \in Nat /\ h.at \in Nat
          BY <4>3 DEF TypeOK, Version, NoTs
        <5>2. v \in Before(u, c)
          BY <2>2, <5>1 DEF Old, Before, Committed
        <5>3. v.at <= h.at /\ h.at < v.at
          BY <4>2, <4>4, <5>2 DEF IsHead, Behind
        <5> QED
          BY <5>1, <5>3
      <4>5. h \in versions'[c]
        BY <1>3, <4>3, <4>4 DEF GcVersionChain
      <4>6. h \in Before(u, c)'
        BY <1>1, <4>3, <4>5 DEF Before, Committed
      <4>7. IsHead(h, Before(u, c)') /\ Numbers(Before(u, c)')
        BY <3>1, <4>2, <4>6 DEF IsHead, Numbers
      <4>8. \A v \in Before(u, c)' : v.at \in Nat
        BY <3>1 DEF TypeOK, Version
      <4>9. HeadOf(Before(u, c)') = h
        BY <4>7, <4>8, HeadUnique
      <4> QED
        BY <3>3, <4>1, <4>6, <4>9 DEF FirstOf
    <3> QED
      BY <3>2, <3>3
  <2> QED
    BY <1>1, <1>2, <2>1, <2>2, <2>3 DEF SnapshotInv
<1> QED
  BY <1>6, <1>7, <1>8, <1>10, <1>11, <1>12

-----------------------------------------------------------------------------
(* The invariant of the specification, and what follows from it.            *)

LEMMA MvccNext ==
    ASSUME TypeOK, MvccInv, [Next]_vars
    PROVE  MvccInv'
<1>1. ASSUME NEW t \in Tx, NEW k \in Key, WriteStart(t, k) PROVE MvccInv'
  BY <1>1, WriteStartInv
<1>2. CASE UNCHANGED vars
  <2>1. UNCHANGED <<pc, state, start, commitTs, active, writeSet, wkey, versions, holders, waiters,
                    ts, writes, gc, seen, clean>>
    BY <1>2 DEF vars, txVars, lockVars, ghostVars
  <2>2. ChainInv' /\ \A k : Committed(k)' = Committed(k) /\ ChainOrdered(k)' = ChainOrdered(k)
    BY <2>1, SameChains DEF MvccInv
  <2>3. PhaseInv' /\ LockInv' /\ VersionInv' /\ LeftInv'
    BY <2>1 DEF MvccInv, PhaseInv, LockInv, VersionInv, LeftInv
  <2>4. OrderInv'
    BY <2>1, <2>2 DEF MvccInv, OrderInv
  <2>5. SnapshotInv'
    <3>1. \A u, k : Before(u, k)' = Before(u, k)
      BY <2>1, <2>2 DEF Before
    <3> QED
      BY <2>1, <3>1 DEF MvccInv, SnapshotInv, Reads
  <2> QED
    BY <2>2, <2>3, <2>4, <2>5 DEF MvccInv
<1> QED
  BY <1>1, <1>2, BeginTimestampInv, BeginActiveInv, BeginInsertInv, AcquireInv, LockTimeoutInv,
     WriteVersionInv, CommitTimestampInv, CommitPrepareInv, CommitVersionsInv, CommitStateInv,
     AbortStateInv, AbortVersionsInv, ReleaseAllInv, GcWatermarkInv, GcPruneInv,
     GcTransactionsInv DEF Next

LEMMA MvccStart ==
    ASSUME Init
    PROVE  TypeOK /\ MvccInv
<1>1. TypeOK
  BY MvccAssumption DEF Init, TypeOK, Labels, Opening, NoTs, MaxTs, Absent
<1>2. ChainInv
  BY DEF Init, ChainInv, Numbers
<1>3. PhaseInv
  BY DEF Init, PhaseInv, NoTs
<1>4. LockInv /\ VersionInv /\ OrderInv /\ LeftInv
  BY DEF Init, LockInv, VersionInv, OrderInv, ChainOrdered, Committed, LeftInv
<1>5. SnapshotInv
  BY DEF Init, SnapshotInv, Reads
<1> QED
  BY <1>1, <1>2, <1>3, <1>4, <1>5 DEF MvccInv

\* Whatever the transactions and the collector do and in whatever order they
\* take their locks, types and invariant hold.
THEOREM MvccInvariant == Spec => [](TypeOK /\ MvccInv)
<1>1. Init => TypeOK /\ MvccInv
  BY MvccStart
<1>2. TypeOK /\ MvccInv /\ [Next]_vars => (TypeOK /\ MvccInv)'
  BY MvccNext, TypeNext DEF MvccInv
<1> QED
  BY <1>1, <1>2, PTL DEF Spec

\* A transaction with a clean snapshot reads, as long as it is active, what was
\* committed when its timestamp was fetched, whatever is written, committed,
\* aborted or collected meanwhile.
THEOREM SnapshotsHold == Spec => []SnapshotReads
<1>1. TypeOK /\ MvccInv => SnapshotReads
  <2> SUFFICES ASSUME TypeOK, MvccInv, NEW t \in Tx, state[t] = "Active", clean[t], NEW k \in Key
               PROVE  Read(t, k) = seen[t][k]
    BY DEF SnapshotReads
  <2> USE DEF MvccInv
  <2>1. FirstOf(Before(t, k)) = seen[t][k]
    BY DEF SnapshotInv, Reads
  <2>2. ASSUME NEW v \in versions[k] PROVE IsVisible(t, v) <=> v \in Before(t, k)
    <3>1. v \in Before(t, k) => v.by \notin active[t]
      <4> SUFFICES ASSUME v \in Before(t, k) PROVE v.by \notin active[t]
        OBVIOUS
      <4>1. v.state = "Committed" /\ v.ts <= start[t]
        BY DEF Before, Committed
      <4>2. v.ts = commitTs[v.by] /\ v.ts # NoTs
        BY <4>1 DEF VersionInv
      <4>3. v.by \in Tx
        BY DEF TypeOK, Version
      <4> QED
        BY <4>1, <4>2, <4>3 DEF SnapshotInv, Reads
    <3> QED
      BY <3>1 DEF IsVisible, Before, Committed
  <2>3. {v \in versions[k] : IsVisible(t, v)} = Before(t, k)
    BY <2>2 DEF Before, Committed
  <2> QED
    BY <2>1, <2>3 DEF Read
<1> QED
  BY <1>1, MvccInvariant, PTL

\* The writers of a key exclude each other: its lock has one holder, a version
\* that is being written is a holder's, and the committed versions of the chain
\* are in the order of their timestamps.
THEOREM WritersAreExclusive == Spec => []WritersExclude
<1>1. ASSUME NEW S, \A t, u \in S : t = u PROVE Cardinality(S) <= 1
  <2>1. CASE S = {}
    BY <2>1, FS_EmptySet
  <2>2. ASSUME NEW t \in S PROVE Cardinality(S) <= 1
    <3>1. S = {t}
      BY <1>1
    <3>2. Cardinality(S) = 1
      BY <3>1, FS_Singleton
    <3> QED
      BY <3>2
  <2> QED
    BY <2>1, <2>2
<1>2. TypeOK /\ MvccInv => WritersExclude
  <2> SUFFICES ASSUME MvccInv, NEW k \in Key
               PROVE  /\ Cardinality(holders[k]) <= 1
                      /\ \A v \in versions[k] :
                            v.state = "Active" /\ pc[v.by] \notin {"done", "release"} =>
                                v.by \in holders[k]
                      /\ ChainOrdered(k)
    BY DEF WritersExclude
  <2>1. Cardinality(holders[k]) <= 1
    BY <1>1 DEF MvccInv, LockInv
  <2> QED
    BY <2>1 DEF MvccInv, VersionInv, OrderInv
<1> QED
  BY <1>2, MvccInvariant, PTL

\* A transaction whose commit or abort returned holds no lock, waits for none,
\* and no chain starts with a version of its that is still open.
THEOREM NothingIsLeftBehind == Spec => []NothingLeftBehind
<1>1. TypeOK /\ MvccInv => NothingLeftBehind
  BY DEF MvccInv, PhaseInv, LeftInv, NothingLeftBehind
<1> QED
  BY <1>1, MvccInvariant, PTL

-----------------------------------------------------------------------------
(* The write-ahead log: what a log reads.                                   *)

LogType(L) ==
    \A p \in DOMAIN L : /\ p = <<p[1], p[2]>> /\ p[1] \in Nat /\ p[2] \in Nat
                        /\ L[p] \in TxnRecord \cup CheckpointRecord

\* Segments numbered by natural numbers.
SegmentsOK(s) == \A g \in DOMAIN s : g \in Nat /\ s[g] \in Seq(Frame)

\* The places of a log are those of the readable frames.
LEMMA LogPlaces ==
    ASSUME NEW s
    PROVE  /\ \A g \in DOMAIN s : \A i \in Readable(s[g]) :
                <<g, i>> \in DOMAIN LogIn(s) /\ LogIn(s)[<<g, i>>] = s[g][i]
           /\ \A p \in DOMAIN LogIn(s) :
                /\ p = <<p[1], p[2]>> /\ p[1] \in DOMAIN s /\ p[2] \in Readable(s[p[1]])
                /\ LogIn(s)[p] = s[p[1]][p[2]]
<1> DEFINE D == UNION {{g} \X Readable(s[g]) : g \in DOMAIN s}
<1>1. DOMAIN LogIn(s) = D /\ \A p \in D : LogIn(s)[p] = s[p[1]][p[2]]
  BY DEF LogIn
<1>2. ASSUME NEW g \in DOMAIN s, NEW i \in Readable(s[g])
      PROVE  <<g, i>> \in D
  OBVIOUS
<1>3. ASSUME NEW p \in D
      PROVE  p = <<p[1], p[2]>> /\ p[1] \in DOMAIN s /\ p[2] \in Readable(s[p[1]])
  <2>1. PICK g \in DOMAIN s : p \in {g} \X Readable(s[g])
    OBVIOUS
  <2> QED
    BY <2>1
<1> HIDE DEF D
<1> QED
  BY <1>1, <1>2, <1>3

LEMMA LogInType ==
    ASSUME NEW s, SegmentsOK(s)
    PROVE  LogType(LogIn(s))
<1> SUFFICES ASSUME NEW p \in DOMAIN LogIn(s)
             PROVE  /\ p = <<p[1], p[2]>> /\ p[1] \in Nat /\ p[2] \in Nat
                    /\ LogIn(s)[p] \in TxnRecord \cup CheckpointRecord
  BY DEF LogType
<1>1. /\ p = <<p[1], p[2]>> /\ p[1] \in DOMAIN s /\ p[2] \in Readable(s[p[1]])
      /\ LogIn(s)[p] = s[p[1]][p[2]]
  BY LogPlaces
<1>2. s[p[1]] \in Seq(Frame) /\ p[1] \in Nat
  BY <1>1 DEF SegmentsOK
<1>3. p[2] \in 1..Len(s[p[1]]) /\ \A j \in 1..p[2] : s[p[1]][j] # Torn
  BY <1>1, <1>2 DEF Readable
<1>4. s[p[1]][p[2]] \in Frame /\ s[p[1]][p[2]] # Torn
  BY <1>2, <1>3
<1> QED
  BY <1>1, <1>2, <1>3, <1>4 DEF Frame

\* What is readable is what is before the first torn frame.
LEMMA ReadableAppend ==
    ASSUME NEW c \in Seq(Frame), NEW r \in Frame, r # Torn
    PROVE  /\ (\E i \in DOMAIN c : c[i] = Torn) => Readable(Append(c, r)) = Readable(c)
           /\ (\A i \in DOMAIN c : c[i] # Torn)
                => Readable(Append(c, r)) = Readable(c) \cup {Len(c) + 1}
           /\ \A i \in Readable(c) : i \in 1..Len(c) /\ Append(c, r)[i] = c[i]
<1>1. /\ DOMAIN c = 1..Len(c) /\ DOMAIN Append(c, r) = 1..(Len(c) + 1) /\ Len(c) \in Nat
      /\ \A i \in 1..Len(c) : Append(c, r)[i] = c[i]
      /\ Append(c, r)[Len(c) + 1] = r
  OBVIOUS
<1>2. ASSUME NEW i \in Int
      PROVE  /\ i \in Readable(c) <=> i \in 1..Len(c) /\ \A j \in 1..i : c[j] # Torn
             /\ i \in Readable(Append(c, r))
                  <=> i \in 1..(Len(c) + 1) /\ \A j \in 1..i : Append(c, r)[j] # Torn
  BY <1>1 DEF Readable
<1>3. Readable(c) \subseteq Int /\ Readable(Append(c, r)) \subseteq Int
  BY <1>1 DEF Readable
<1>4. \A i \in 1..Len(c) : i \in Readable(c) <=> i \in Readable(Append(c, r))
  BY <1>1, <1>2
<1>5. Len(c) + 1 \in Readable(Append(c, r)) <=> \A j \in 1..Len(c) : c[j] # Torn
  BY <1>1, <1>2
<1>6. \A i \in Readable(c) : i \in 1..Len(c)
  BY <1>2, <1>3
<1>7. \A i \in Readable(Append(c, r)) : i \in 1..Len(c) \/ i = Len(c) + 1
  BY <1>1, <1>2, <1>3
<1>8. Len(c) + 1 \notin Readable(c)
  BY <1>1, <1>6
<1> QED
  BY <1>1, <1>4, <1>5, <1>6, <1>7

LEMMA ReadableCut ==
    ASSUME NEW c \in Seq(Frame), NEW n \in 0..Len(c)
    PROVE  /\ Readable(SubSeq(c, 1, n)) = {i \in Readable(c) : i <= n}
           /\ Readable(SubSeq(c, 1, n) \o <<Torn>>) = Readable(SubSeq(c, 1, n))
           /\ \A i \in 1..n : SubSeq(c, 1, n)[i] = c[i] /\ (SubSeq(c, 1, n) \o <<Torn>>)[i] = c[i]
           /\ SubSeq(c, 1, n) \in Seq(Frame) /\ SubSeq(c, 1, n) \o <<Torn>> \in Seq(Frame)
           /\ Len(SubSeq(c, 1, n)) = n /\ SubSeq(c, 1, Len(c)) = c
<1> DEFINE d == SubSeq(c, 1, n)
           e == d \o <<Torn>>
<1>1. /\ d \in Seq(Frame) /\ Len(d) = n /\ \A i \in 1..n : d[i] = c[i]
      /\ SubSeq(c, 1, Len(c)) = c /\ Len(c) \in Nat /\ n \in Nat /\ n <= Len(c)
      /\ DOMAIN c = 1..Len(c) /\ DOMAIN d = 1..n
  OBVIOUS
<1>2. Torn \in Frame
  BY DEF Frame
<1> HIDE DEF d
<1>3. /\ e \in Seq(Frame) /\ Len(e) = n + 1 /\ \A i \in 1..n : e[i] = d[i]
      /\ e[n + 1] = Torn /\ DOMAIN e = 1..(n + 1)
  BY <1>1, <1>2
<1> HIDE DEF e
<1>4. ASSUME NEW i
      PROVE  /\ i \in Readable(c) <=> i \in 1..Len(c) /\ \A j \in 1..i : c[j] # Torn
             /\ i \in Readable(d) <=> i \in 1..n /\ \A j \in 1..i : d[j] # Torn
             /\ i \in Readable(e) <=> i \in 1..(n + 1) /\ \A j \in 1..i : e[j] # Torn
  BY <1>1, <1>3 DEF Readable
<1>5. \A i \in 1..n : /\ i \in Readable(d) <=> i \in Readable(c)
                      /\ i \in Readable(e) <=> i \in Readable(d)
  <2> SUFFICES ASSUME NEW i \in 1..n
               PROVE  /\ i \in Readable(d) <=> i \in Readable(c)
                      /\ i \in Readable(e) <=> i \in Readable(d)
    OBVIOUS
  <2>1. i \in 1..Len(c) /\ i \in 1..(n + 1) /\ \A j \in 1..i : j \in 1..n
    BY <1>1
  <2>2. \A j \in 1..i : d[j] = c[j] /\ e[j] = d[j]
    BY <1>1, <1>3, <2>1
  <2> QED
    BY <1>4, <2>1, <2>2, Zenon
<1>6. n + 1 \notin Readable(e)
  BY <1>1, <1>3, <1>4
<1>7. /\ \A i \in Readable(d) : i \in 1..n
      /\ \A i \in Readable(e) : i \in 1..n \/ i = n + 1
      /\ \A i \in Readable(c) : i \in Nat /\ (i <= n => i \in 1..n)
      /\ \A i \in 1..n : i <= n
  BY <1>1, <1>4
<1>8. Readable(d) = {i \in Readable(c) : i <= n}
  BY <1>5, <1>7
<1>9. Readable(e) = Readable(d)
  BY <1>5, <1>6, <1>7
<1> QED
  BY <1>1, <1>3, <1>8, <1>9 DEF d, e

-----------------------------------------------------------------------------
(* Parts of a log.                                                          *)

\* L has records of M, at places m[p] of it, in the same order.
PartOf(L, M, m) ==
    /\ \A p \in DOMAIN L : m[p] \in DOMAIN M /\ L[p] = M[m[p]]
    /\ \A p, q \in DOMAIN L : (m[p] = m[q] => p = q) /\ (Precedes(m[p], m[q]) => Precedes(p, q))

\* With a record it has those of x before it; it has all of x.
HasBefore(L, M, m, x) ==
    \A q \in DOMAIN L, p \in OfTxn(M, x) : Precedes(p, m[q]) => \E r \in DOMAIN L : m[r] = p
HasAll(L, M, m, x) == \A p \in OfTxn(M, x) : \E r \in DOMAIN L : m[r] = p

LEMMA PartDistinct ==
    ASSUME NEW L, NEW M, NEW m, PartOf(L, M, m), LsnsDistinct(M)
    PROVE  LsnsDistinct(L)
<1> SUFFICES ASSUME NEW p \in DOMAIN L, NEW q \in DOMAIN L, L[p].lsn = L[q].lsn
             PROVE  p = q
  BY DEF LsnsDistinct
<1>1. m[p] \in DOMAIN M /\ m[q] \in DOMAIN M /\ M[m[p]].lsn = M[m[q]].lsn
  BY DEF PartOf
<1>2. m[p] = m[q]
  BY <1>1 DEF LsnsDistinct
<1> QED
  BY <1>2 DEF PartOf

LEMMA PartInOrder ==
    ASSUME NEW L, NEW M, NEW m, NEW x, PartOf(L, M, m), HasBefore(L, M, m, x), InOrder(M, x)
    PROVE  InOrder(L, x)
<1>1. \A p \in OfTxn(L, x) : /\ p \in DOMAIN L /\ m[p] \in OfTxn(M, x) /\ L[p] = M[m[p]]
  BY DEF OfTxn, PartOf
<1>2. \A T : \A p \in Of(L, x, T) : p \in OfTxn(L, x) /\ m[p] \in Of(M, x, T)
  BY DEF OfTxn, Of, PartOf
<1>3. \A p, q \in OfTxn(L, x) : L[p].lsn < L[q].lsn => Precedes(p, q)
  BY <1>1 DEF InOrder, PartOf
<1>4. \A p \in Of(L, x, {"begin"}), q \in OfTxn(L, x) : q = p \/ L[p].lsn < L[q].lsn
  BY <1>1, <1>2 DEF InOrder, PartOf
<1>5. \A p \in Of(L, x, {"commit", "abort"}), q \in OfTxn(L, x) : q = p \/ L[q].lsn < L[p].lsn
  BY <1>1, <1>2 DEF InOrder, PartOf
<1>6. ASSUME NEW q \in OfTxn(L, x) PROVE Of(L, x, {"begin"}) # {}
  <2>1. m[q] \in OfTxn(M, x)
    BY <1>1
  <2>2. PICK b \in Of(M, x, {"begin"}) : TRUE
    BY <2>1 DEF InOrder
  <2>3. b \in OfTxn(M, x) /\ b \in DOMAIN M /\ M[b].tx = x /\ M[b].type = "begin"
    BY <2>2 DEF Of, OfTxn
  <2>4. m[q] = b \/ M[b].lsn < M[m[q]].lsn
    BY <2>1, <2>2 DEF InOrder
  <2>5. m[q] = b \/ Precedes(b, m[q])
    BY <2>1, <2>3, <2>4 DEF InOrder
  <2>6. PICK r \in DOMAIN L : m[r] = b
    BY <1>1, <2>3, <2>5 DEF HasBefore
  <2>7. L[r] = M[b]
    BY <2>6 DEF PartOf
  <2>8. r \in Of(L, x, {"begin"})
    BY <2>3, <2>6, <2>7 DEF Of
  <2> QED
    BY <2>8
<1> QED
  BY <1>3, <1>4, <1>5, <1>6 DEF InOrder

LEMMA PartComplete ==
    ASSUME NEW L, NEW M, NEW m, NEW x, NEW S,
           PartOf(L, M, m), HasBefore(L, M, m, x), InOrder(M, x), Complete(M, x, S)
    PROVE  Complete(L, x, S)
<1>1. ASSUME NEW p \in Of(L, x, {"data"})
      PROVE  L[p].lsn \in Lsns(M, Of(M, x, {"data"}))
  <2>1. m[p] \in Of(M, x, {"data"}) /\ L[p].lsn = M[m[p]].lsn
    BY DEF Of, PartOf
  <2> QED
    BY <2>1 DEF Lsns
<1>2. Lsns(L, Of(L, x, {"data"})) \subseteq Lsns(M, Of(M, x, {"data"}))
  BY <1>1 DEF Lsns
<1>3. ASSUME NEW c \in Of(L, x, {"commit"}), NEW d \in Of(M, x, {"data"})
      PROVE  M[d].lsn \in Lsns(L, Of(L, x, {"data"}))
  <2>1. /\ c \in DOMAIN L /\ m[c] \in Of(M, x, {"commit", "abort"}) /\ m[c] \in OfTxn(M, x)
        /\ M[m[c]].type = "commit"
    BY DEF Of, OfTxn, PartOf
  <2>2. d \in OfTxn(M, x) /\ d \in DOMAIN M /\ M[d].tx = x /\ M[d].type = "data"
    BY DEF Of, OfTxn
  <2>3. M[d].lsn < M[m[c]].lsn
    BY <2>1, <2>2 DEF InOrder
  <2>4. Precedes(d, m[c])
    BY <2>1, <2>2, <2>3 DEF InOrder
  <2>5. PICK r \in DOMAIN L : m[r] = d
    BY <2>1, <2>2, <2>4 DEF HasBefore
  <2>6. L[r] = M[d]
    BY <2>5 DEF PartOf
  <2>7. r \in Of(L, x, {"data"})
    BY <2>2, <2>5, <2>6 DEF Of
  <2> QED
    BY <2>6, <2>7 DEF Lsns
<1>4. ASSUME NEW c \in Of(L, x, {"commit"})
      PROVE  Lsns(L, Of(L, x, {"data"})) = S
  <2>1. m[c] \in Of(M, x, {"commit"})
    BY DEF Of, PartOf
  <2>2. Lsns(M, Of(M, x, {"data"})) = S
    BY <2>1 DEF Complete
  <2>3. \A y \in S : y \in Lsns(L, Of(L, x, {"data"}))
    BY <1>3, <2>2 DEF Lsns
  <2> QED
    BY <1>2, <2>2, <2>3
<1> QED
  BY <1>2, <1>4 DEF Complete

\* What a log without some of another transaction's records has of x is all.
LEMMA PartSame ==
    ASSUME NEW L, NEW M, NEW m, NEW x, PartOf(L, M, m), HasAll(L, M, m, x)
    PROVE  /\ HasBefore(L, M, m, x)
           /\ OfTxn(L, x) = {} <=> OfTxn(M, x) = {}
           /\ \A T : Of(L, x, T) = {} <=> Of(M, x, T) = {}
           /\ \A T : \A p \in Of(M, x, T) : \E q \in Of(L, x, T) : m[q] = p
           /\ Lsns(L, Of(L, x, {"data"})) = Lsns(M, Of(M, x, {"data"}))
           /\ Lsns(L, OfTxn(L, x)) = Lsns(M, OfTxn(M, x))
<1>1. HasBefore(L, M, m, x)
  BY DEF HasBefore, HasAll
<1>2. \A p \in OfTxn(L, x) : m[p] \in OfTxn(M, x) /\ L[p] = M[m[p]]
  BY DEF OfTxn, PartOf
<1>3. \A T : \A p \in Of(L, x, T) : m[p] \in Of(M, x, T) /\ L[p] = M[m[p]]
  BY DEF Of, PartOf
<1>4. ASSUME NEW p \in OfTxn(M, x) PROVE \E q \in OfTxn(L, x) : m[q] = p
  <2>1. PICK q \in DOMAIN L : m[q] = p
    BY DEF HasAll
  <2>2. L[q] = M[p]
    BY <2>1 DEF PartOf
  <2> QED
    BY <2>1, <2>2 DEF OfTxn
<1>5. ASSUME NEW T, NEW p \in Of(M, x, T) PROVE \E q \in Of(L, x, T) : m[q] = p
  <2>1. p \in OfTxn(M, x)
    BY DEF Of, OfTxn
  <2>2. PICK q \in OfTxn(L, x) : m[q] = p
    BY <1>4, <2>1
  <2>3. L[q] = M[p] /\ q \in DOMAIN L
    BY <2>2 DEF PartOf, OfTxn
  <2> QED
    BY <2>2, <2>3 DEF Of
<1>6. Lsns(L, Of(L, x, {"data"})) = Lsns(M, Of(M, x, {"data"}))
  <2>1. \A p \in Of(L, x, {"data"}) : \E q \in Of(M, x, {"data"}) : L[p].lsn = M[q].lsn
    BY <1>3
  <2>2. \A q \in Of(M, x, {"data"}) : \E p \in Of(L, x, {"data"}) : M[q].lsn = L[p].lsn
    BY <1>3, <1>5
  <2> QED
    BY <2>1, <2>2 DEF Lsns
<1>7. Lsns(L, OfTxn(L, x)) = Lsns(M, OfTxn(M, x))
  <2>1. \A p \in OfTxn(L, x) : \E q \in OfTxn(M, x) : L[p].lsn = M[q].lsn
    BY <1>2
  <2>2. \A q \in OfTxn(M, x) : \E p \in OfTxn(L, x) : M[q].lsn = L[p].lsn
    BY <1>2, <1>4
  <2> QED
    BY <2>1, <2>2 DEF Lsns
<1> QED
  BY <1>1, <1>2, <1>3, <1>4, <1>5, <1>6, <1>7, Zenon

-----------------------------------------------------------------------------
(* What recovery makes of a log.                                            *)

LEMMA RecoveredCommit ==
    ASSUME NEW L, NEW x \in Txn, NEW S, LogType(L), InOrder(L, x), Complete(L, x, S),
           Of(L, x, {"commit"}) # {}
    PROVE  x \in DOMAIN RecoverFrom(L).redo /\ RecoverFrom(L).redo[x] = S
<1>1. PICK c \in DOMAIN L : L[c].tx = x /\ L[c].type = "commit"
  BY DEF Of
<1>2. c \in OfTxn(L, x) /\ c \in Of(L, x, {"commit", "abort"})
  BY <1>1 DEF OfTxn, Of
<1>3. PICK b \in DOMAIN L : L[b].tx = x /\ L[b].type = "begin"
  <2>1. Of(L, x, {"begin"}) # {}
    BY <1>2 DEF InOrder
  <2> QED
    BY <2>1 DEF Of
<1>4. b \in OfTxn(L, x) /\ b \in Of(L, x, {"begin"})
  BY <1>3 DEF OfTxn, Of
<1>5. \A p \in OfTxn(L, x) : /\ L[p].lsn \in Nat /\ p[1] \in Nat /\ p[2] \in Nat
  BY DEF OfTxn, LogType, TxnRecord, CheckpointRecord
<1>6. \A p \in OfTxn(L, x) : p = c \/ Precedes(p, c)
  BY <1>2 DEF InOrder
<1>7. \A p \in OfTxn(L, x) : p = b \/ Precedes(b, p)
  BY <1>4 DEF InOrder
<1>8. \A p \in OfTxn(L, x) : L[p].type # "abort"
  <2> SUFFICES ASSUME NEW p \in OfTxn(L, x), L[p].type = "abort" PROVE FALSE
    OBVIOUS
  <2>1. p \in Of(L, x, {"commit", "abort"}) /\ p # c
    BY <1>1 DEF Of, OfTxn
  <2>2. L[p].lsn < L[c].lsn /\ L[c].lsn < L[p].lsn
    BY <1>2, <2>1 DEF InOrder
  <2> QED
    BY <1>2, <1>5, <2>2
<1>9. \A p \in OfTxn(L, x) : L[p].type = "begin" => p = b
  <2> SUFFICES ASSUME NEW p \in OfTxn(L, x), L[p].type = "begin", p # b PROVE FALSE
    OBVIOUS
  <2>1. p \in Of(L, x, {"begin"})
    BY DEF Of, OfTxn
  <2>2. L[p].lsn < L[b].lsn /\ L[b].lsn < L[p].lsn
    BY <1>4, <2>1 DEF InOrder
  <2> QED
    BY <1>4, <1>5, <2>2
<1>10. \A p, q \in OfTxn(L, x) : ~ (Precedes(p, q) /\ Precedes(q, p))
  BY <1>5 DEF Precedes
<1>11. StatusTrue(L, x)
  <2>1. c \in Final(Of(L, x, {"begin", "commit", "abort"}))
    BY <1>1, <1>2, <1>6, <1>10 DEF Final, Of, OfTxn
  <2> QED
    BY <1>1, <2>1 DEF StatusTrue
<1>12. Collected(L, x)
  <2>1. Of(L, x, {"begin", "abort"}) = {b}
    BY <1>3, <1>8, <1>9 DEF Of, OfTxn
  <2>2. b \in Final({b})
    BY <1>4, <1>10 DEF Final
  <2> QED
    BY <1>3, <2>1, <2>2 DEF Collected
<1>13. Records(L, x) = S
  <2>1. ASSUME NEW r \in Of(L, x, {"data"}), NEW p \in Of(L, x, {"begin", "abort"})
        PROVE  Precedes(p, r)
    <3>1. p \in OfTxn(L, x) /\ r \in OfTxn(L, x) /\ L[r].type = "data"
          /\ L[p].type \in {"begin", "abort"}
      BY DEF Of, OfTxn
    <3>2. p = b
      BY <1>8, <1>9, <3>1
    <3> QED
      BY <1>3, <1>7, <3>1, <3>2
  <2>2. {r \in Of(L, x, {"data"}) : \A p \in Of(L, x, {"begin", "abort"}) : Precedes(p, r)}
          = Of(L, x, {"data"})
    BY <2>1
  <2>3. Records(L, x) = Lsns(L, Of(L, x, {"data"}))
    BY <2>2, Zenon DEF Records, Lsns
  <2> QED
    BY <2>3 DEF Complete
<1> QED
  BY <1>11, <1>12, <1>13 DEF RecoverFrom

LEMMA RecoveredRedo ==
    ASSUME NEW L, NEW x \in DOMAIN RecoverFrom(L).redo
    PROVE  x \in Txn /\ Of(L, x, {"commit"}) # {}
<1>1. x \in Txn /\ StatusTrue(L, x)
  BY DEF RecoverFrom
<1> QED
  BY <1>1 DEF StatusTrue, Final, Of

LEMMA RecoveredUndo ==
    ASSUME NEW L, NEW x \in Txn, InOrder(L, x),
           Of(L, x, {"data"}) # {}, Of(L, x, {"commit", "abort"}) = {}
    PROVE  x \in RecoverFrom(L).incomplete
<1>1. Of(L, x, {"begin"}) # {}
  BY DEF InOrder, Of, OfTxn
<1>2. \A p \in DOMAIN L : L[p].tx = x => L[p].type \notin {"commit", "abort"}
  BY DEF Of
<1>3. PICK b \in DOMAIN L : L[b].tx = x /\ L[b].type = "begin"
  BY <1>1 DEF Of
<1>4. StatusKnown(L, x)
  BY <1>2, <1>3 DEF StatusKnown, Of
<1>5. ~ StatusTrue(L, x)
  BY <1>2 DEF StatusTrue, Final, Of
<1> QED
  BY <1>4, <1>5 DEF RecoverFrom

-----------------------------------------------------------------------------
(* Segments under other numbers.                                            *)

\* What segments s hold, t holds under the numbers k, in the same order.
Renumbers(s, t, k) ==
    /\ \A g \in DOMAIN s : /\ k[g] \in Nat
                           /\ \A i \in Readable(s[g]) :
                                k[g] \in DOMAIN t /\ i \in Readable(t[k[g]]) /\ s[g][i] = t[k[g]][i]
    /\ \A g, h \in DOMAIN s : (k[g] = k[h] => g = h) /\ (k[g] < k[h] => g < h)

Moved(s, k) == [p \in DOMAIN LogIn(s) |-> <<k[p[1]], p[2]>>]

LEMMA MovedPart ==
    ASSUME NEW s, NEW t, NEW k, SegmentsOK(s), Renumbers(s, t, k)
    PROVE  PartOf(LogIn(s), LogIn(t), Moved(s, k))
<1> DEFINE L == LogIn(s)
           M == LogIn(t)
           m == Moved(s, k)
<1>1. \A p \in DOMAIN L : m[p] = <<k[p[1]], p[2]>>
  BY DEF Moved
<1>2. \A p \in DOMAIN L : /\ p = <<p[1], p[2]>> /\ p[1] \in DOMAIN s /\ p[2] \in Readable(s[p[1]])
                          /\ L[p] = s[p[1]][p[2]]
  BY LogPlaces
<1>3. \A p \in DOMAIN L : p[1] \in Nat /\ p[2] \in Nat
  BY LogInType DEF LogType
<1>4. \A g \in DOMAIN t : \A i \in Readable(t[g]) : <<g, i>> \in DOMAIN M /\ M[<<g, i>>] = t[g][i]
  BY LogPlaces
<1> HIDE DEF L, M, m
<1>5. ASSUME NEW p \in DOMAIN L PROVE m[p] \in DOMAIN M /\ L[p] = M[m[p]]
  <2>1. /\ k[p[1]] \in DOMAIN t /\ p[2] \in Readable(t[k[p[1]]])
        /\ s[p[1]][p[2]] = t[k[p[1]]][p[2]]
    BY <1>2 DEF Renumbers
  <2> QED
    BY <1>1, <1>2, <1>4, <2>1
<1>6. ASSUME NEW p \in DOMAIN L, NEW q \in DOMAIN L
      PROVE  (m[p] = m[q] => p = q) /\ (Precedes(m[p], m[q]) => Precedes(p, q))
  <2>1. /\ m[p] = <<k[p[1]], p[2]>> /\ m[q] = <<k[q[1]], q[2]>>
        /\ p[1] \in DOMAIN s /\ q[1] \in DOMAIN s
        /\ k[p[1]] = k[q[1]] => p[1] = q[1]
        /\ k[p[1]] < k[q[1]] => p[1] < q[1]
    BY <1>1, <1>2 DEF Renumbers
  <2>2. m[p] = m[q] => p = q
    BY <1>2, <2>1
  <2>3. Precedes(m[p], m[q]) => Precedes(p, q)
    BY <2>1 DEF Precedes
  <2> QED
    BY <2>2, <2>3
<1> QED
  BY <1>5, <1>6 DEF PartOf, L, M, m

LEMMA MovedBefore ==
    ASSUME NEW s, NEW t, NEW k, NEW x, SegmentsOK(s), Renumbers(s, t, k),
           \A h \in DOMAIN s : \A j \in Readable(s[h]) :
             \A g \in DOMAIN t : \A i \in Readable(t[g]) :
               t[g][i].tx = x /\ Precedes(<<g, i>>, <<k[h], j>>)
                 => \E f \in DOMAIN s : k[f] = g /\ i \in Readable(s[f])
    PROVE  HasBefore(LogIn(s), LogIn(t), Moved(s, k), x)
<1> SUFFICES ASSUME NEW q \in DOMAIN LogIn(s), NEW p \in OfTxn(LogIn(t), x),
                    Precedes(p, Moved(s, k)[q])
             PROVE  \E r \in DOMAIN LogIn(s) : Moved(s, k)[r] = p
  BY DEF HasBefore
<1>1. /\ q[1] \in DOMAIN s /\ q[2] \in Readable(s[q[1]])
      /\ Moved(s, k)[q] = <<k[q[1]], q[2]>>
  BY LogPlaces DEF Moved
<1>2. p \in DOMAIN LogIn(t) /\ LogIn(t)[p].tx = x
  BY DEF OfTxn
<1>3. /\ p = <<p[1], p[2]>> /\ p[1] \in DOMAIN t /\ p[2] \in Readable(t[p[1]])
      /\ LogIn(t)[p] = t[p[1]][p[2]]
  BY <1>2, LogPlaces
<1>4. Precedes(<<p[1], p[2]>>, <<k[q[1]], q[2]>>)
  BY <1>1, <1>3
<1>5. PICK f \in DOMAIN s : k[f] = p[1] /\ p[2] \in Readable(s[f])
  BY <1>1, <1>2, <1>3, <1>4
<1>6. <<f, p[2]>> \in DOMAIN LogIn(s)
  BY <1>5, LogPlaces
<1>7. Moved(s, k)[<<f, p[2]>>] = p
  BY <1>3, <1>5, <1>6 DEF Moved
<1> QED
  BY <1>6, <1>7

LEMMA MovedAll ==
    ASSUME NEW s, NEW t, NEW k, NEW x, SegmentsOK(s), Renumbers(s, t, k),
           \A g \in DOMAIN t : \A i \in Readable(t[g]) :
             t[g][i].tx = x => \E f \in DOMAIN s : k[f] = g /\ i \in Readable(s[f])
    PROVE  HasAll(LogIn(s), LogIn(t), Moved(s, k), x)
<1> SUFFICES ASSUME NEW p \in OfTxn(LogIn(t), x)
             PROVE  \E r \in DOMAIN LogIn(s) : Moved(s, k)[r] = p
  BY DEF HasAll
<1>2. p \in DOMAIN LogIn(t) /\ LogIn(t)[p].tx = x
  BY DEF OfTxn
<1>3. /\ p = <<p[1], p[2]>> /\ p[1] \in DOMAIN t /\ p[2] \in Readable(t[p[1]])
      /\ LogIn(t)[p] = t[p[1]][p[2]]
  BY <1>2, LogPlaces
<1>5. PICK f \in DOMAIN s : k[f] = p[1] /\ p[2] \in Readable(s[f])
  BY <1>2, <1>3
<1>6. <<f, p[2]>> \in DOMAIN LogIn(s)
  BY <1>5, LogPlaces
<1>7. Moved(s, k)[<<f, p[2]>>] = p
  BY <1>3, <1>5, <1>6 DEF Moved
<1> QED
  BY <1>6, <1>7

-----------------------------------------------------------------------------
(* The log of a state, and the part of it a crash leaves.                   *)

Full == Put(files, seg + 1, current)

LEMMA FullLogIs ==
    ASSUME WalTypeOK
    PROVE  /\ FullLog = LogIn(Full) /\ SegmentsOK(Full) /\ LogType(FullLog)
           /\ DOMAIN Full = DOMAIN files \cup {seg + 1} /\ seg + 1 \notin DOMAIN files
           /\ Full[seg + 1] = current /\ \A g \in DOMAIN files : Full[g] = files[g]
           /\ \A g \in DOMAIN files : g \in Nat /\ g <= seg /\ files[g] \in Seq(Frame)
           /\ current \in Seq(Frame) /\ seg \in Nat /\ Len(current) \in Nat
<1>1. /\ \A g \in DOMAIN files : g \in Nat /\ g <= seg /\ files[g] \in Seq(Frame)
      /\ current \in Seq(Frame) /\ seg \in Nat
  BY DEF WalTypeOK
<1>2. Len(current) \in Nat /\ SubSeq(current, 1, Len(current)) = current
  <2>1. Len(current) \in 0..Len(current) /\ Len(current) \in Nat
    BY <1>1
  <2> QED
    BY <1>1, <2>1, ReadableCut
<1>3. FullLog = LogIn(Full)
  BY <1>2 DEF FullLog, LogOf, Full
<1>4. seg + 1 \notin DOMAIN files
  BY <1>1
<1>5. /\ DOMAIN Full = DOMAIN files \cup {seg + 1}
      /\ Full[seg + 1] = current /\ \A g \in DOMAIN files : Full[g] = files[g]
  BY <1>4 DEF Full, Put
<1>6. SegmentsOK(Full)
  BY <1>1, <1>5 DEF SegmentsOK
<1> QED
  BY <1>1, <1>2, <1>3, <1>4, <1>5, <1>6, LogInType

LEMMA CutLog ==
    ASSUME WalTypeOK, NEW n \in 0..Len(current)
    PROVE  /\ LogType(LogOf(n))
           /\ \A p \in DOMAIN LogOf(n) : p \in DOMAIN FullLog /\ LogOf(n)[p] = FullLog[p]
           /\ \A p \in DOMAIN FullLog :
                p[1] \in DOMAIN files \/ p[2] <= n => p \in DOMAIN LogOf(n)
           /\ \E m : PartOf(LogOf(n), FullLog, m) /\ \A x : HasBefore(LogOf(n), FullLog, m, x)
<1> DEFINE s == Put(files, seg + 1, SubSeq(current, 1, n))
           k == [g \in DOMAIN s |-> g]
<1>1. LogOf(n) = LogIn(s)
  BY DEF LogOf
<1>2. /\ FullLog = LogIn(Full) /\ SegmentsOK(Full)
      /\ DOMAIN Full = DOMAIN files \cup {seg + 1} /\ seg + 1 \notin DOMAIN files
      /\ Full[seg + 1] = current /\ \A g \in DOMAIN files : Full[g] = files[g]
      /\ \A g \in DOMAIN files : g \in Nat /\ g <= seg /\ files[g] \in Seq(Frame)
      /\ current \in Seq(Frame) /\ seg \in Nat
  BY FullLogIs
<1>3. /\ DOMAIN s = DOMAIN Full
      /\ s[seg + 1] = SubSeq(current, 1, n) /\ \A g \in DOMAIN files : s[g] = files[g]
  BY <1>2 DEF Put
<1>4. \A g \in DOMAIN s : k[g] = g
  OBVIOUS
<1> HIDE DEF s, k
<1>5. /\ Readable(SubSeq(current, 1, n)) = {i \in Readable(current) : i <= n}
      /\ \A i \in 1..n : SubSeq(current, 1, n)[i] = current[i]
      /\ SubSeq(current, 1, n) \in Seq(Frame)
  BY <1>2, ReadableCut
<1>6. SegmentsOK(s)
  BY <1>2, <1>3, <1>5 DEF SegmentsOK
<1>7. \A i \in Readable(current) : i \in Nat \ {0}
  BY <1>2 DEF Readable
<1>8. \A g \in DOMAIN s : \A i \in Readable(s[g]) : i \in Readable(Full[g]) /\ s[g][i] = Full[g][i]
  <2>1. ASSUME NEW i \in Readable(s[seg + 1])
        PROVE  i \in Readable(current) /\ s[seg + 1][i] = current[i]
    <3>1. i \in Readable(current) /\ i <= n
      BY <1>3, <1>5
    <3>2. i \in 1..n
      BY <1>7, <3>1
    <3> QED
      BY <1>3, <1>5, <3>1, <3>2
  <2> QED
    BY <1>2, <1>3, <2>1
<1>9. Renumbers(s, Full, k)
  <2>1. ASSUME NEW g \in DOMAIN s, NEW i \in Readable(s[g])
        PROVE  k[g] \in DOMAIN Full /\ i \in Readable(Full[k[g]]) /\ s[g][i] = Full[k[g]][i]
    <3>1. k[g] = g /\ g \in DOMAIN Full /\ i \in Readable(Full[g]) /\ s[g][i] = Full[g][i]
      BY <1>3, <1>4, <1>8
    <3> QED
      BY <3>1
  <2>2. \A g \in DOMAIN s : k[g] \in Nat
    BY <1>4, <1>6 DEF SegmentsOK
  <2>3. \A g, h \in DOMAIN s : (k[g] = k[h] => g = h) /\ (k[g] < k[h] => g < h)
    BY <1>4
  <2> QED
    BY <2>1, <2>2, <2>3 DEF Renumbers
<1>10. PartOf(LogIn(s), LogIn(Full), Moved(s, k))
  BY <1>6, <1>9, MovedPart
<1>11. ASSUME NEW g \in DOMAIN Full, NEW i \in Readable(Full[g]), g \in DOMAIN files \/ i <= n
       PROVE  i \in Readable(s[g])
  BY <1>2, <1>3, <1>5, <1>11
<1>12. ASSUME NEW x PROVE HasBefore(LogIn(s), LogIn(Full), Moved(s, k), x)
  <2>1. ASSUME NEW h \in DOMAIN s, NEW j \in Readable(s[h]),
               NEW g \in DOMAIN Full, NEW i \in Readable(Full[g]),
               Precedes(<<g, i>>, <<k[h], j>>)
        PROVE  k[g] = g /\ g \in DOMAIN s /\ i \in Readable(s[g])
    <3>1. g \in DOMAIN files \/ (g = seg + 1 /\ h = seg + 1 /\ i < j)
      <4>1. g < h \/ (g = h /\ i < j)
        BY <1>4, <2>1 DEF Precedes
      <4> QED
        BY <1>2, <1>3, <4>1
    <3>2. CASE g \in DOMAIN files
      BY <1>2, <1>3, <1>4, <1>11, <3>2
    <3>3. CASE g = seg + 1 /\ h = seg + 1 /\ i < j
      <4>1. j \in Readable(current) /\ j <= n
        BY <1>3, <1>5, <3>3
      <4>2. i \in Readable(current) /\ i \in Nat /\ j \in Nat /\ n \in Nat
        BY <1>2, <1>7, <3>3, <4>1
      <4>3. i <= n
        BY <3>3, <4>1, <4>2
      <4> QED
        BY <1>3, <1>4, <1>11, <4>3
    <3> QED
      BY <3>1, <3>2, <3>3
  <2> QED
    BY <1>6, <1>9, <2>1, MovedBefore
<1>13. ASSUME NEW p \in DOMAIN LogIn(s)
       PROVE  p \in DOMAIN FullLog /\ LogIn(s)[p] = FullLog[p]
  <2>1. /\ p = <<p[1], p[2]>> /\ p[1] \in DOMAIN s /\ p[2] \in Readable(s[p[1]])
        /\ LogIn(s)[p] = s[p[1]][p[2]]
    BY LogPlaces
  <2>2. p[2] \in Readable(Full[p[1]]) /\ p[1] \in DOMAIN Full /\ s[p[1]][p[2]] = Full[p[1]][p[2]]
    BY <1>3, <1>8, <2>1
  <2> QED
    BY <1>2, <2>1, <2>2, LogPlaces
<1>14. ASSUME NEW p \in DOMAIN FullLog, p[1] \in DOMAIN files \/ p[2] <= n
       PROVE  p \in DOMAIN LogIn(s)
  <2>1. p = <<p[1], p[2]>> /\ p[1] \in DOMAIN Full /\ p[2] \in Readable(Full[p[1]])
    BY <1>2, LogPlaces
  <2>2. p[2] \in Readable(s[p[1]]) /\ p[1] \in DOMAIN s
    BY <1>3, <1>11, <1>14, <2>1
  <2> QED
    BY <2>1, <2>2, LogPlaces
<1> QED
  BY <1>1, <1>2, <1>6, <1>10, <1>12, <1>13, <1>14, LogInType

-----------------------------------------------------------------------------
(* Types.                                                                   *)

LEMMA JobIs ==
    ASSUME WalTypeOK, NEW t \in Thread, ~ At(t, "idle")
    PROVE  /\ job[t] # Idle
           /\ job[t] \in [pc : {"append", "rotate", "write", "flush"}, rec : TxnRecord \cup CheckpointRecord]
           /\ job[t].rec.tx = t /\ job[t].rec.lsn \in Nat \ {0}
           /\ job[t].pc = "flush" => job[t].rec.type \in {"commit", "checkpoint"}
           /\ t \in Txn => job[t].rec \in TxnRecord
           /\ t = Nobody => job[t].rec.type = "checkpoint"
           /\ job[t].rec \in Frame /\ job[t].rec # Torn
<1>1. job[t] # Idle
  BY DEF At, Idle
<1>2. /\ job[t] \in [pc : {"append", "rotate", "write", "flush"}, rec : TxnRecord \cup CheckpointRecord]
      /\ job[t].rec.tx = t
      /\ job[t].pc = "flush" => job[t].rec.type \in {"commit", "checkpoint"}
  BY <1>1 DEF WalTypeOK, JobTypeOK
<1>3. job[t].rec \in TxnRecord \/ job[t].rec \in CheckpointRecord
  BY <1>2
<1>4. t \in Txn => job[t].rec \in TxnRecord
  BY <1>2, <1>3, WalAssumption DEF CheckpointRecord
<1>5. t = Nobody => job[t].rec.type = "checkpoint"
  BY <1>2, <1>3, WalAssumption DEF TxnRecord, CheckpointRecord
<1>6. job[t].rec.type # "torn" /\ job[t].rec.lsn \in Nat \ {0}
  BY <1>3 DEF TxnRecord, CheckpointRecord
<1> QED
  BY <1>1, <1>2, <1>3, <1>4, <1>5, <1>6 DEF Frame, Torn

LEMMA CallJob ==
    ASSUME WalTypeOK, NEW t \in Thread, NEW rec, Call(t, rec)
    PROVE  /\ job' = [u \in Thread |-> job'[u]] /\ job'[t] = [pc |-> "append", rec |-> rec]
           /\ \A u \in Thread : u # t => job'[u] = job[u]
           /\ job[t] = Idle /\ lsn' = lsn + 1
<1>1. job = [u \in Thread |-> job[u]] /\ JobTypeOK(t)
  BY DEF WalTypeOK
<1>2. job' = [job EXCEPT ![t] = [pc |-> "append", rec |-> rec]] /\ At(t, "idle") /\ lsn' = lsn + 1
  BY DEF Call
<1>3. job[t] = Idle
  BY <1>1, <1>2 DEF JobTypeOK, At
<1> QED
  BY <1>1, <1>2, <1>3, Zenon

LEMMA GoesJob ==
    ASSUME WalTypeOK, NEW t \in Thread, NEW at, Goes(t, at), ~ At(t, "idle")
    PROVE  /\ job' = [u \in Thread |-> job'[u]]
           /\ job'[t].pc = at /\ job'[t].rec = job[t].rec
           /\ job'[t] = [pc |-> at, rec |-> job[t].rec]
           /\ \A u \in Thread : u # t => job'[u] = job[u]
<1>1. job = [u \in Thread |-> job[u]]
  BY DEF WalTypeOK
<1>2. job' = [job EXCEPT ![t] = [job[t] EXCEPT !.pc = at]]
  BY DEF Goes
<1>3. job[t] \in [pc : {"append", "rotate", "write", "flush"}, rec : TxnRecord \cup CheckpointRecord]
  BY JobIs
<1>4. [job[t] EXCEPT !.pc = at] = [pc |-> at, rec |-> job[t].rec]
  BY <1>3
<1>5. /\ job' = [u \in Thread |-> job'[u]] /\ job'[t] = [job[t] EXCEPT !.pc = at]
      /\ \A u \in Thread : u # t => job'[u] = job[u]
  BY <1>1, <1>2, Zenon
<1> QED
  BY <1>4, <1>5

LEMMA ReturnJob ==
    ASSUME WalTypeOK, NEW t \in Thread, Return(t)
    PROVE  /\ job' = [u \in Thread |-> job'[u]] /\ job'[t] = Idle
           /\ \A u \in Thread : u # t => job'[u] = job[u]
<1>1. job = [u \in Thread |-> job[u]]
  BY DEF WalTypeOK
<1> QED
  BY <1>1, Zenon DEF Return

\* Jobs keep their type when one thread's does.
LEMMA JobsType ==
    ASSUME WalTypeOK, NEW t \in Thread, job' = [u \in Thread |-> job'[u]],
           \A u \in Thread : u # t => job'[u] = job[u],
           \/ job'[t] = Idle
           \/ /\ job'[t] \in [pc : {"append", "rotate", "write", "flush"},
                              rec : TxnRecord \cup CheckpointRecord]
              /\ job'[t].rec.tx = t
              /\ job'[t].pc = "flush" => job'[t].rec.type \in {"commit", "checkpoint"}
    PROVE  \A u \in Thread : JobTypeOK(u)'
<1> SUFFICES ASSUME NEW u \in Thread PROVE JobTypeOK(u)'
  OBVIOUS
<1>1. CASE u = t
  BY <1>1 DEF JobTypeOK
<1>2. CASE u # t
  <2>1. job'[u] = job[u] /\ JobTypeOK(u)
    BY <1>2 DEF WalTypeOK
  <2> QED
    BY <2>1 DEF JobTypeOK
<1> QED
  BY <1>1, <1>2

\* A call gets the next LSN.
LEMMA CallType ==
    ASSUME WalTypeOK, NEW t \in Thread, NEW rec \in TxnRecord \cup CheckpointRecord, rec.tx = t,
           Call(t, rec)
    PROVE  /\ job' = [u \in Thread |-> job'[u]] /\ \A u \in Thread : JobTypeOK(u)'
           /\ lsn' \in Nat \ {0}
<1>1. /\ job' = [u \in Thread |-> job'[u]] /\ job'[t] = [pc |-> "append", rec |-> rec]
      /\ \A u \in Thread : u # t => job'[u] = job[u]
      /\ lsn' = lsn + 1 /\ lsn \in Nat \ {0}
  BY CallJob DEF WalTypeOK
<1>2. \A u \in Thread : JobTypeOK(u)'
  BY <1>1, JobsType
<1> QED
  BY <1>1, <1>2

LEMMA RecordType ==
    ASSUME WalTypeOK, NEW x \in Txn, NEW type \in {"begin", "data", "commit", "abort"}
    PROVE  /\ x \in Thread /\ Record(type, x) \in TxnRecord \cup CheckpointRecord
           /\ Record(type, x).tx = x /\ Record(type, x).type = type /\ Record(type, x).lsn = lsn
<1>1. lsn \in Nat \ {0}
  BY DEF WalTypeOK
<1> QED
  BY <1>1 DEF Record, TxnRecord, Thread

LEMMA ReturnType ==
    ASSUME WalTypeOK, NEW t \in Thread, Return(t)
    PROVE  job' = [u \in Thread |-> job'[u]] /\ \A u \in Thread : JobTypeOK(u)'
BY ReturnJob, JobsType

LEMMA GoesType ==
    ASSUME WalTypeOK, NEW t \in Thread, NEW at \in {"append", "rotate", "write", "flush"},
           Goes(t, at), ~ At(t, "idle"),
           at = "flush" => job[t].rec.type \in {"commit", "checkpoint"}
    PROVE  job' = [u \in Thread |-> job'[u]] /\ \A u \in Thread : JobTypeOK(u)'
<1>1. /\ job' = [u \in Thread |-> job'[u]]
      /\ job'[t] = [pc |-> at, rec |-> job[t].rec] /\ job'[t].pc = at /\ job'[t].rec = job[t].rec
      /\ \A u \in Thread : u # t => job'[u] = job[u]
  BY GoesJob
<1>2. /\ job[t] \in [pc : {"append", "rotate", "write", "flush"}, rec : TxnRecord \cup CheckpointRecord]
      /\ job[t].rec.tx = t
  BY JobIs
<1>3. job'[t] \in [pc : {"append", "rotate", "write", "flush"}, rec : TxnRecord \cup CheckpointRecord]
  BY <1>1, <1>2
<1> QED
  BY <1>1, <1>2, <1>3, JobsType

TxStates == {"new", "beginning", "active", "committing", "aborting", "committed", "aborted", "failed"}

LEMMA OutcomeType ==
    ASSUME WalTypeOK, NEW x \in Txn, NEW type, Outcome(x, type)
    PROVE  /\ tx' \in [Txn -> TxStates] /\ \A y \in Txn : y # x => tx'[y] = tx[y]
           /\ tx'[x] = CASE type = "begin" -> "active"
                         [] type = "abort" -> "aborted"
                         [] type = "commit" -> "committed"
                         [] OTHER -> tx[x]
<1>1. tx \in [Txn -> TxStates]
  BY DEF WalTypeOK, TxStates
<1> DEFINE v == CASE type = "begin" -> "active"
                  [] type = "abort" -> "aborted"
                  [] type = "commit" -> "committed"
                  [] OTHER -> tx[x]
<1>2. v \in TxStates
  BY <1>1 DEF TxStates
<1>3. tx' = [tx EXCEPT ![x] = v]
  BY DEF Outcome
<1> HIDE DEF v
<1>4. /\ tx' \in [Txn -> TxStates] /\ \A y \in Txn : y # x => tx'[y] = tx[y]
      /\ tx'[x] = v
  BY <1>1, <1>2, <1>3
<1> QED
  BY <1>4 DEF v

LEMMA TxnsInFrames ==
    ASSUME NEW frames \in Seq(Frame)
    PROVE  TxnsIn(frames) \subseteq Txn
<1>1. \A i \in DOMAIN frames : frames[i] \in Frame
  OBVIOUS
<1>2. \A i \in DOMAIN frames : frames[i].tx \in Txn \cup {Nobody}
  BY <1>1 DEF Frame, TxnRecord, CheckpointRecord, Torn
<1> QED
  BY <1>2 DEF TxnsIn

LEMMA MaxOfNat ==
    ASSUME NEW S \in SUBSET Nat, NEW b \in Nat, \A x \in S : x <= b
    PROVE  /\ Max(S \cup {0}) \in Nat /\ Max(S \cup {0}) <= b
           /\ \A x \in S : x <= Max(S \cup {0})
<1> DEFINE U == S \cup {0}
<1>1. U \in SUBSET Nat /\ U # {} /\ \A x \in U : x <= b
  OBVIOUS
<1> HIDE DEF U
<1>2. \E x \in U : \A y \in U : y <= x
  BY <1>1, GreatestNat
<1>3. \E x \in U : \A y \in U : x >= y
  BY <1>1, <1>2
<1>4. Max(U) \in U /\ \A y \in U : Max(U) >= y
  BY <1>3, Zenon DEF Max
<1>5. Max(U) \in Nat /\ Max(U) <= b /\ \A y \in U : y <= Max(U)
  BY <1>1, <1>4
<1> QED
  BY <1>5 DEF U

\* The log goes on with the highest number of a segment, and above all its LSNs.
LEMMA RestartSeg ==
    ASSUME WalTypeOK
    PROVE  /\ Max(DOMAIN files \cup {0}) \in Nat /\ Max(DOMAIN files \cup {0}) <= seg
           /\ \A g \in DOMAIN files : g <= Max(DOMAIN files \cup {0})
<1>1. DOMAIN files \in SUBSET Nat /\ seg \in Nat /\ \A g \in DOMAIN files : g <= seg
  BY DEF WalTypeOK
<1> QED
  BY <1>1, MaxOfNat

LEMMA RestartLsn ==
    ASSUME WalTypeOK, LsnInv, NEW n \in 0..Len(current)
    PROVE  /\ NextLsn(LogOf(n)) \in Nat \ {0}
           /\ \A p \in DOMAIN LogOf(n) : LogOf(n)[p].lsn < NextLsn(LogOf(n))
<1> DEFINE S == {LogOf(n)[p].lsn : p \in DOMAIN LogOf(n)}
<1>1. \A p \in DOMAIN LogOf(n) : LogOf(n)[p].lsn \in Nat /\ LogOf(n)[p].lsn < lsn
  <2> SUFFICES ASSUME NEW p \in DOMAIN LogOf(n)
               PROVE  LogOf(n)[p].lsn \in Nat /\ LogOf(n)[p].lsn < lsn
    OBVIOUS
  <2>1. p \in DOMAIN FullLog /\ LogOf(n)[p] = FullLog[p] /\ LogType(LogOf(n))
    BY CutLog
  <2>2. LogOf(n)[p] \in TxnRecord \cup CheckpointRecord
    BY <2>1 DEF LogType
  <2>3. LogOf(n)[p].lsn \in Nat
    BY <2>2 DEF TxnRecord, CheckpointRecord
  <2> QED
    BY <2>1, <2>3 DEF LsnInv
<1>2. lsn \in Nat
  BY DEF WalTypeOK
<1>3. S \in SUBSET Nat /\ \A x \in S : x <= lsn
  BY <1>1, <1>2
<1>4. \A p \in DOMAIN LogOf(n) : LogOf(n)[p].lsn \in S
  OBVIOUS
<1>5. NextLsn(LogOf(n)) = Max(S \cup {0}) + 1
  BY DEF NextLsn, RecoverFrom
<1> HIDE DEF S
<1>6. Max(S \cup {0}) \in Nat /\ \A x \in S : x <= Max(S \cup {0})
  BY <1>2, <1>3, MaxOfNat
<1>7. \A p \in DOMAIN LogOf(n) : LogOf(n)[p].lsn <= Max(S \cup {0})
  BY <1>4, <1>6
<1>8. \A a, z \in Nat : z + 1 \in Nat \ {0} /\ (a <= z => a < z + 1)
  OBVIOUS
<1>9. NextLsn(LogOf(n)) \in Nat \ {0}
  BY <1>5, <1>6, <1>8
<1>10. ASSUME NEW p \in DOMAIN LogOf(n) PROVE LogOf(n)[p].lsn < Max(S \cup {0}) + 1
  BY <1>1, <1>6, <1>7, <1>8, Zenon
<1> QED
  BY <1>5, <1>9, <1>10, Zenon

FilesOK == /\ files \in [DOMAIN files -> Seq(Frame)] /\ DOMAIN files \subseteq 0..seg
           /\ current \in Seq(Frame) /\ synced \in 0..Len(current) /\ seg \in Nat
JobsOK == job = [t \in Thread |-> job[t]] /\ \A t \in Thread : JobTypeOK(t)
CallerOK == tx \in [Txn -> TxStates] /\ logged \in [Txn -> SUBSET Nat]

LEMMA TypeParts ==
    /\ WalTypeOK <=> FilesOK /\ lsn \in Nat \ {0} /\ JobsOK /\ CallerOK /\ gone \in SUBSET Txn
    /\ WalTypeOK' <=> /\ FilesOK' /\ lsn' \in Nat \ {0} /\ JobsOK' /\ CallerOK'
                      /\ gone' \in SUBSET Txn
<1>1. WalTypeOK <=> FilesOK /\ lsn \in Nat \ {0} /\ JobsOK /\ CallerOK /\ gone \in SUBSET Txn
  BY Zenon DEF WalTypeOK, FilesOK, JobsOK, CallerOK, TxStates
<1>2. WalTypeOK' <=> /\ FilesOK' /\ lsn' \in Nat \ {0} /\ JobsOK' /\ CallerOK'
                     /\ gone' \in SUBSET Txn
  BY Zenon DEF WalTypeOK, FilesOK, JobsOK, CallerOK, TxStates
<1> QED
  BY <1>1, <1>2

LEMMA FilesSame ==
    ASSUME FilesOK, UNCHANGED fileVars, seg' = seg
    PROVE  FilesOK'
BY DEF FilesOK, fileVars

LEMMA CallTypeNext ==
    ASSUME WalTypeOK, WalNext,
           \/ \E x \in Txn : LogBegin(x) \/ LogData(x) \/ LogCommit(x) \/ LogAbort(x)
           \/ LogCheckpoint
    PROVE  WalTypeOK'
<1>1. FilesOK /\ lsn \in Nat \ {0} /\ JobsOK /\ CallerOK /\ gone \in SUBSET Txn
  BY TypeParts
<1>2. ASSUME NEW x \in Txn, NEW type \in {"begin", "data", "commit", "abort"},
             Call(x, Record(type, x))
      PROVE  JobsOK' /\ lsn' \in Nat \ {0}
  <2>1. /\ x \in Thread /\ Record(type, x) \in TxnRecord \cup CheckpointRecord
        /\ Record(type, x).tx = x
    BY RecordType
  <2>2. /\ job' = [u \in Thread |-> job'[u]] /\ \A u \in Thread : JobTypeOK(u)'
        /\ lsn' \in Nat \ {0}
    BY <1>2, <2>1, CallType
  <2> QED
    BY <2>2 DEF JobsOK
<1>3. CASE \E x \in Txn : LogBegin(x)
  <2>1. PICK x \in Txn : LogBegin(x)
    BY <1>3
  <2>2. UNCHANGED fileVars /\ seg' = seg /\ logged' = logged /\ gone' = gone
        /\ tx' = [tx EXCEPT ![x] = "beginning"] /\ Call(x, Record("begin", x))
    BY <2>1 DEF LogBegin
  <2>3. CallerOK'
    BY <1>1, <2>2 DEF CallerOK, TxStates
  <2> QED
    BY <1>1, <1>2, <2>2, <2>3, FilesSame, TypeParts
<1>4. CASE \E x \in Txn : LogData(x)
  <2>1. PICK x \in Txn : LogData(x)
    BY <1>4
  <2>2. UNCHANGED fileVars /\ seg' = seg /\ tx' = tx /\ logged' = logged /\ gone' = gone
        /\ Call(x, Record("data", x))
    BY <2>1 DEF LogData, txnVars
  <2>3. CallerOK'
    BY <1>1, <2>2 DEF CallerOK
  <2> QED
    BY <1>1, <1>2, <2>2, <2>3, FilesSame, TypeParts
<1>5. CASE \E x \in Txn : LogCommit(x)
  <2>1. PICK x \in Txn : LogCommit(x)
    BY <1>5
  <2>2. UNCHANGED fileVars /\ seg' = seg /\ logged' = logged /\ gone' = gone
        /\ tx' = [tx EXCEPT ![x] = "committing"] /\ Call(x, Record("commit", x))
    BY <2>1 DEF LogCommit
  <2>3. CallerOK'
    BY <1>1, <2>2 DEF CallerOK, TxStates
  <2> QED
    BY <1>1, <1>2, <2>2, <2>3, FilesSame, TypeParts
<1>6. CASE \E x \in Txn : LogAbort(x)
  <2>1. PICK x \in Txn : LogAbort(x)
    BY <1>6
  <2>2. UNCHANGED fileVars /\ seg' = seg /\ logged' = logged /\ gone' = gone
        /\ tx' = [tx EXCEPT ![x] = "aborting"] /\ Call(x, Record("abort", x))
    BY <2>1 DEF LogAbort
  <2>3. CallerOK'
    BY <1>1, <2>2 DEF CallerOK, TxStates
  <2> QED
    BY <1>1, <1>2, <2>2, <2>3, FilesSame, TypeParts
<1>7. CASE LogCheckpoint
  <2> DEFINE A == {x \in Txn : tx[x] \in {"active", "committing", "aborting"}}
             rec == [type |-> "checkpoint", tx |-> Nobody, lsn |-> lsn, active |-> A]
  <2>1. UNCHANGED fileVars /\ seg' = seg /\ tx' = tx /\ logged' = logged /\ gone' = gone
        /\ Call(Nobody, rec)
    BY <1>7 DEF LogCheckpoint, txnVars
  <2>2. rec \in CheckpointRecord /\ rec.tx = Nobody /\ Nobody \in Thread
    <3>1. A \in SUBSET Txn
      OBVIOUS
    <3> HIDE DEF A
    <3> QED
      BY <1>1, <3>1 DEF CheckpointRecord, Thread
  <2> HIDE DEF rec
  <2>3. JobsOK' /\ lsn' \in Nat \ {0}
    BY <2>1, <2>2, CallType DEF JobsOK
  <2>4. CallerOK'
    BY <1>1, <2>1 DEF CallerOK
  <2> QED
    BY <1>1, <2>1, <2>3, <2>4, FilesSame, TypeParts
<1> QED
  BY <1>3, <1>4, <1>5, <1>6, <1>7

LEMMA ThreadTypeNext ==
    ASSUME WalTypeOK, NEW t \in Thread,
           \/ AppendFull(t) \/ Rotate(t) \/ Write(t) \/ WriteError(t) \/ Flush(t) \/ FlushError(t)
    PROVE  WalTypeOK'
<1>1. FilesOK /\ lsn \in Nat \ {0} /\ JobsOK /\ CallerOK /\ gone \in SUBSET Txn
  BY TypeParts
<1>2. Return(t) => JobsOK'
  BY ReturnType DEF JobsOK
<1>3. \A at \in {"append", "rotate", "write", "flush"} :
        /\ Goes(t, at) /\ ~ At(t, "idle")
        /\ at = "flush" => job[t].rec.type \in {"commit", "checkpoint"}
        => JobsOK'
  BY GoesType DEF JobsOK
<1>4. t # Nobody => t \in Txn
  BY DEF Thread
<1>5. CASE AppendFull(t)
  <2>1. UNCHANGED fileVars /\ seg' = seg /\ lsn' = lsn /\ tx' = tx /\ logged' = logged
        /\ gone' = gone /\ Goes(t, "rotate") /\ ~ At(t, "idle")
    BY <1>5 DEF AppendFull, counterVars, txnVars, At
  <2> QED
    BY <1>1, <1>3, <2>1, FilesSame, TypeParts DEF CallerOK
<1>6. CASE Rotate(t)
  <2>1. /\ files' = Put(files, seg, current) /\ current' = <<>> /\ synced' = 0 /\ seg' = seg + 1
        /\ gone' = gone \cup (IF seg \in DOMAIN files THEN TxnsIn(files[seg]) ELSE {})
        /\ lsn' = lsn /\ tx' = tx /\ logged' = logged /\ Goes(t, "write") /\ ~ At(t, "idle")
    BY <1>6 DEF Rotate, txnVars, At
  <2>2. gone' \in SUBSET Txn
    <3>1. seg \in DOMAIN files => TxnsIn(files[seg]) \subseteq Txn
      BY <1>1, TxnsInFrames DEF FilesOK
    <3> QED
      BY <1>1, <2>1, <3>1
  <2>3. FilesOK'
    <3>1. /\ DOMAIN files' = DOMAIN files \cup {seg}
          /\ \A g \in DOMAIN files' : files'[g] \in Seq(Frame)
          /\ files' = [g \in DOMAIN files' |-> files'[g]]
      BY <1>1, <2>1 DEF Put, FilesOK
    <3>2. files' \in [DOMAIN files' -> Seq(Frame)]
      BY <3>1, Zenon
    <3>3. DOMAIN files' \subseteq 0..seg'
      BY <1>1, <2>1, <3>1 DEF FilesOK
    <3>4. current' \in Seq(Frame) /\ synced' \in 0..Len(current') /\ seg' \in Nat
      BY <1>1, <2>1 DEF FilesOK
    <3> QED
      BY <3>2, <3>3, <3>4 DEF FilesOK
  <2> QED
    BY <1>1, <1>3, <2>1, <2>2, <2>3, TypeParts DEF CallerOK
<1>7. CASE Write(t)
  <2>1. /\ current' = Append(current, job[t].rec) /\ files' = files /\ synced' = synced
        /\ seg' = seg /\ lsn' = lsn /\ Written(t) /\ ~ At(t, "idle")
        /\ gone' = gone \/ (t # Nobody /\ gone' = gone \cup {t})
        /\ logged' = IF job[t].rec.type = "data"
                     THEN [logged EXCEPT ![t] = @ \cup {job[t].rec.lsn}] ELSE logged
    BY <1>7 DEF Write, counterVars, At
  <2>2. /\ job[t].rec \in Frame /\ job[t].rec.lsn \in Nat
        /\ t \notin Txn => job[t].rec.type = "checkpoint"
    BY <1>4, <2>1, JobIs
  <2>3. FilesOK'
    <3>1. current' \in Seq(Frame) /\ Len(current') = Len(current) + 1
      BY <1>1, <2>1, <2>2 DEF FilesOK
    <3> QED
      BY <1>1, <2>1, <3>1 DEF FilesOK
  <2>4. logged' \in [Txn -> SUBSET Nat]
    <3>1. CASE job[t].rec.type = "data"
      <4>1. t \in Txn
        BY <2>2, <3>1
      <4>2. logged' = [logged EXCEPT ![t] = logged[t] \cup {job[t].rec.lsn}]
        BY <2>1, <3>1
      <4>3. logged[t] \cup {job[t].rec.lsn} \in SUBSET Nat
        BY <1>1, <2>2, <4>1 DEF CallerOK
      <4> QED
        BY <1>1, <4>1, <4>2, <4>3, Zenon DEF CallerOK
    <3>2. CASE job[t].rec.type # "data"
      BY <1>1, <2>1, <3>2 DEF CallerOK
    <3> QED
      BY <3>1, <3>2
  <2>5. JobsOK' /\ tx' \in [Txn -> TxStates]
    <3>1. CASE job[t].rec.type \in {"commit", "checkpoint"}
      <4>1. Goes(t, "flush") /\ tx' = tx
        BY <2>1, <3>1 DEF Written
      <4> QED
        BY <1>1, <1>3, <2>1, <3>1, <4>1 DEF CallerOK
    <3>2. CASE job[t].rec.type \notin {"commit", "checkpoint"}
      <4>1. Return(t) /\ Outcome(t, job[t].rec.type) /\ t \in Txn
        BY <2>1, <2>2, <3>2 DEF Written
      <4> QED
        BY <1>2, <4>1, OutcomeType
    <3> QED
      BY <3>1, <3>2
  <2>6. gone' \in SUBSET Txn
    BY <1>1, <1>4, <2>1
  <2> QED
    BY <1>1, <2>1, <2>3, <2>4, <2>5, <2>6, TypeParts DEF CallerOK
<1>8. CASE WriteError(t) \/ FlushError(t)
  <2>1. /\ UNCHANGED fileVars /\ seg' = seg /\ lsn' = lsn /\ logged' = logged /\ gone' = gone
        /\ Return(t) /\ tx' = IF t = Nobody THEN tx ELSE [tx EXCEPT ![t] = "failed"]
    BY <1>8 DEF WriteError, FlushError, counterVars
  <2>2. CallerOK'
    BY <1>1, <1>4, <2>1 DEF CallerOK, TxStates
  <2> QED
    BY <1>1, <1>2, <2>1, <2>2, FilesSame, TypeParts
<1>9. CASE Flush(t)
  <2>1. /\ files' = files /\ current' = current /\ synced' = Len(current) /\ seg' = seg /\ lsn' = lsn
        /\ Return(t) /\ logged' = logged /\ gone' = gone
        /\ tx' = tx \/ (t \in Txn /\ Outcome(t, "commit"))
    BY <1>4, <1>9 DEF Flush
  <2>2. tx' \in [Txn -> TxStates]
    BY <1>1, <2>1, OutcomeType DEF CallerOK
  <2>3. Len(current) \in Nat
    BY <1>1 DEF FilesOK
  <2>4. FilesOK'
    BY <1>1, <2>1, <2>3 DEF FilesOK
  <2> QED
    BY <1>1, <1>2, <2>1, <2>2, <2>4, TypeParts DEF CallerOK
<1> QED
  BY <1>5, <1>6, <1>7, <1>8, <1>9

LEMMA TruncateType ==
    ASSUME WalTypeOK, NEW n \in DOMAIN files, Truncate(n)
    PROVE  WalTypeOK'
<1>1. FilesOK /\ lsn \in Nat \ {0} /\ JobsOK /\ CallerOK /\ gone \in SUBSET Txn
  BY TypeParts
<1>2. /\ files' = Without(files, n) /\ gone' = gone \cup TxnsIn(files[n])
      /\ current' = current /\ synced' = synced /\ seg' = seg /\ lsn' = lsn
      /\ job' = job /\ tx' = tx /\ logged' = logged
  BY DEF Truncate, counterVars, txnVars
<1>3. gone' \in SUBSET Txn
  BY <1>1, <1>2, TxnsInFrames DEF FilesOK
<1>4. /\ DOMAIN files' = DOMAIN files \ {n} /\ \A g \in DOMAIN files' : files'[g] = files[g]
      /\ files' = [g \in DOMAIN files' |-> files'[g]]
  BY <1>2 DEF Without
<1>5. FilesOK'
  <2>1. \A g \in DOMAIN files' : files'[g] \in Seq(Frame)
    BY <1>1, <1>4 DEF FilesOK
  <2>2. files' \in [DOMAIN files' -> Seq(Frame)]
    BY <1>4, <2>1, Zenon
  <2> QED
    BY <1>1, <1>2, <1>4, <2>2 DEF FilesOK
<1>6. JobsOK' /\ CallerOK'
  BY <1>1, <1>2 DEF JobsOK, JobTypeOK, CallerOK
<1> QED
  BY <1>1, <1>2, <1>3, <1>5, <1>6, TypeParts

LEMMA CrashType ==
    ASSUME WalTypeOK, LsnInv, NEW n \in 0..Len(current), NEW torn \in BOOLEAN, CrashRestart(n, torn)
    PROVE  WalTypeOK'
<1>1. FilesOK /\ lsn \in Nat \ {0} /\ JobsOK /\ CallerOK /\ gone \in SUBSET Txn
  BY TypeParts
<1>2. /\ current' = SubSeq(current, 1, n) \o (IF torn THEN <<Torn>> ELSE <<>>)
      /\ synced' = Len(current') /\ seg' = Max(DOMAIN files \cup {0}) /\ lsn' = NextLsn(LogOf(n))
      /\ job' = [t \in Thread |-> Idle] /\ files' = files /\ logged' = logged /\ gone' = gone
      /\ tx' = [x \in Txn |-> IF tx[x] \in {"new", "committed", "aborted"} THEN tx[x] ELSE "failed"]
  BY DEF CrashRestart
<1>3. current' \in Seq(Frame)
  <2>1. /\ SubSeq(current, 1, n) \in Seq(Frame) /\ SubSeq(current, 1, n) \o <<Torn>> \in Seq(Frame)
    BY <1>1, ReadableCut DEF FilesOK
  <2>2. SubSeq(current, 1, n) \o <<>> = SubSeq(current, 1, n)
    BY <2>1
  <2> QED
    BY <1>2, <2>1, <2>2
<1>4. seg' \in Nat /\ \A g \in DOMAIN files : g <= seg'
  BY <1>2, RestartSeg
<1>5. FilesOK'
  <2>1. Len(current') \in Nat
    BY <1>3
  <2>2. synced' \in 0..Len(current')
    BY <1>2, <2>1
  <2>3. DOMAIN files' \subseteq 0..seg'
    <3>1. \A g \in DOMAIN files : g \in Nat
      BY <1>1 DEF FilesOK
    <3>2. \A g \in DOMAIN files : g \in 0..seg'
      BY <1>4, <3>1
    <3> QED
      BY <1>2, <3>2
  <2> QED
    BY <1>1, <1>2, <1>3, <1>4, <2>2, <2>3 DEF FilesOK
<1>6. lsn' \in Nat \ {0}
  BY <1>2, RestartLsn
<1>7. JobsOK'
  BY <1>2 DEF JobsOK, JobTypeOK
<1>8. CallerOK'
  <2>1. \A x \in Txn : tx'[x] \in TxStates
    BY <1>1, <1>2 DEF CallerOK, TxStates
  <2>2. tx' \in [Txn -> TxStates]
    BY <1>2, <2>1
  <2> QED
    BY <1>1, <1>2, <2>2 DEF CallerOK
<1> QED
  BY <1>1, <1>2, <1>5, <1>6, <1>7, <1>8, TypeParts

-----------------------------------------------------------------------------
(* The call a transaction is in.                                            *)

LEMMA CallOther ==
    ASSUME NEW x, CallOK(x), tx'[x] = tx[x], job'[x] = job[x]
    PROVE  CallOK(x)'
BY DEF CallOK, Appending

\* Enough that the transaction of the thread is right.
LEMMA CallRest ==
    ASSUME CallInv, NEW t, \A x \in Txn : x # t => tx'[x] = tx[x] /\ job'[x] = job[x],
           t \in Txn => CallOK(t)'
    PROVE  CallInv'
<1> SUFFICES ASSUME NEW x \in Txn PROVE CallOK(x)'
  BY DEF CallInv
<1>1. CASE x = t
  BY <1>1
<1>2. CASE x # t
  BY <1>2, CallOther DEF CallInv
<1> QED
  BY <1>1, <1>2

LEMMA AppendingIs ==
    ASSUME WalTypeOK, NEW t \in Thread
    PROVE  /\ Appending(t) <=> At(t, "append") \/ At(t, "rotate") \/ At(t, "write")
           /\ Appending(t) => ~ At(t, "idle")
           /\ ~ At(t, "idle") /\ ~ At(t, "flush") => Appending(t)
           /\ At(t, "idle") <=> job[t] = Idle
<1>1. ~ At(t, "idle") => job[t].pc \in {"append", "rotate", "write", "flush"} /\ job[t] # Idle
  <2>1. ASSUME ~ At(t, "idle") PROVE job[t].pc \in {"append", "rotate", "write", "flush"} /\ job[t] # Idle
    <3>1. job[t] \in [pc : {"append", "rotate", "write", "flush"}, rec : TxnRecord \cup CheckpointRecord]
          /\ job[t] # Idle
      BY <2>1, JobIs
    <3> QED
      BY <3>1
  <2> QED
    BY <2>1
<1>2. Idle.pc = "idle"
  BY DEF Idle
<1>3. At(t, "idle") => job[t] = Idle
  BY DEF At, WalTypeOK, JobTypeOK
<1> QED
  BY <1>1, <1>2, <1>3 DEF At, Appending

LEMMA CallInvNext ==
    ASSUME WalTypeOK, CallInv, WalNext
    PROVE  CallInv'
<1>0. tx \in [Txn -> TxStates] /\ Txn \subseteq Thread /\ Nobody \notin Txn
  BY WalAssumption DEF WalTypeOK, TxStates, Thread
<1>1. ASSUME NEW x \in Txn, NEW rec, Call(x, rec),
             \/ rec.type = "begin" /\ tx' = [tx EXCEPT ![x] = "beginning"]
             \/ rec.type = "abort" /\ tx' = [tx EXCEPT ![x] = "aborting"]
             \/ rec.type = "commit" /\ tx' = [tx EXCEPT ![x] = "committing"]
             \/ rec.type = "data" /\ tx' = tx /\ tx[x] = "active"
      PROVE  CallInv'
  <2>1. /\ job'[x] = [pc |-> "append", rec |-> rec]
        /\ \A u \in Thread : u # x => job'[u] = job[u]
    BY <1>0, <1>1, CallJob
  <2>2. \A y \in Txn : y # x => tx'[y] = tx[y] /\ job'[y] = job[y]
    BY <1>0, <1>1, <2>1
  <2>3. job'[x].pc = "append" /\ job'[x].rec = rec /\ job'[x] # Idle
    BY <2>1 DEF Idle
  <2>4. CallOK(x)'
    BY <1>0, <1>1, <2>3 DEF CallOK, Appending
  <2> QED
    BY <2>2, <2>4, CallRest
<1>2. CASE \E x \in Txn : LogBegin(x) \/ LogData(x) \/ LogCommit(x) \/ LogAbort(x)
  <2>1. PICK x \in Txn : LogBegin(x) \/ LogData(x) \/ LogCommit(x) \/ LogAbort(x)
    BY <1>2
  <2>2. \A type \in {"begin", "data", "commit", "abort"} : Record(type, x).type = type
    BY DEF Record
  <2>3. CASE LogBegin(x)
    BY <1>1, <2>2, <2>3 DEF LogBegin
  <2>4. CASE LogData(x)
    BY <1>1, <2>2, <2>4 DEF LogData, txnVars
  <2>5. CASE LogCommit(x)
    BY <1>1, <2>2, <2>5 DEF LogCommit
  <2>6. CASE LogAbort(x)
    BY <1>1, <2>2, <2>6 DEF LogAbort
  <2> QED
    BY <2>1, <2>3, <2>4, <2>5, <2>6
<1>3. CASE LogCheckpoint
  <2>1. tx' = tx /\ \E rec : Call(Nobody, rec)
    BY <1>3 DEF LogCheckpoint, txnVars
  <2>2. Nobody \in Thread
    BY DEF Thread
  <2>3. \A u \in Thread : u # Nobody => job'[u] = job[u]
    BY <2>1, <2>2, CallJob
  <2> QED
    BY <1>0, <2>1, <2>3, CallRest
<1>4. ASSUME NEW t \in Thread, AppendFull(t) \/ Rotate(t) PROVE CallInv'
  <2>1. /\ ~ At(t, "idle") /\ Appending(t) /\ tx' = tx
        /\ Goes(t, "rotate") \/ Goes(t, "write")
    BY <1>4 DEF AppendFull, Rotate, At, Appending, txnVars
  <2>2. /\ job'[t].pc \in {"rotate", "write"} /\ job'[t].rec = job[t].rec
        /\ \A u \in Thread : u # t => job'[u] = job[u]
    BY <2>1, GoesJob
  <2>3. job'[t] # Idle /\ job[t] # Idle
    BY <2>1, <2>2, JobIs DEF Idle
  <2>4. t \in Txn => CallOK(t)'
    BY <2>1, <2>2, <2>3 DEF CallOK, CallInv, Appending
  <2> QED
    BY <1>0, <2>1, <2>2, <2>4, CallRest
<1>5. ASSUME NEW t \in Thread, Write(t) PROVE CallInv'
  <2>1. ~ At(t, "idle") /\ Appending(t) /\ Written(t)
    BY <1>5 DEF Write, At, Appending
  <2>2. job[t] # Idle /\ (t \notin Txn => job[t].rec.type = "checkpoint")
    BY <2>1, JobIs DEF Thread
  <2>3. CASE job[t].rec.type \in {"commit", "checkpoint"}
    <3>1. Goes(t, "flush") /\ tx' = tx
      BY <2>1, <2>3 DEF Written
    <3>2. /\ job'[t].pc = "flush" /\ job'[t].rec = job[t].rec
          /\ \A u \in Thread : u # t => job'[u] = job[u]
      BY <2>1, <3>1, GoesJob
    <3>3. job'[t] # Idle
      BY <3>2 DEF Idle
    <3>4. t \in Txn => CallOK(t)'
      BY <2>1, <2>2, <2>3, <3>1, <3>2, <3>3 DEF CallOK, CallInv
    <3> QED
      BY <1>0, <3>1, <3>2, <3>4, CallRest
  <2>4. CASE job[t].rec.type \notin {"commit", "checkpoint"}
    <3>1. Return(t) /\ Outcome(t, job[t].rec.type) /\ t \in Txn
      BY <2>1, <2>2, <2>4 DEF Written
    <3>2. job'[t] = Idle /\ \A u \in Thread : u # t => job'[u] = job[u]
      BY <3>1, ReturnJob
    <3>3. /\ \A y \in Txn : y # t => tx'[y] = tx[y]
          /\ tx'[t] = CASE job[t].rec.type = "begin" -> "active"
                        [] job[t].rec.type = "abort" -> "aborted"
                        [] job[t].rec.type = "commit" -> "committed"
                        [] OTHER -> tx[t]
      BY <3>1, OutcomeType
    <3>4. CallOK(t) /\ tx[t] \in TxStates
      BY <1>0, <3>1 DEF CallInv
    <3>5. tx'[t] \in {"active", "aborted"}
      BY <2>1, <2>2, <2>4, <3>3, <3>4 DEF CallOK, TxStates
    <3>6. CallOK(t)'
      BY <3>2, <3>5 DEF CallOK
    <3> QED
      BY <1>0, <3>2, <3>3, <3>6, CallRest
  <2> QED
    BY <2>3, <2>4
<1>6. ASSUME NEW t \in Thread, WriteError(t) \/ FlushError(t) \/ Flush(t) PROVE CallInv'
  <2>1. /\ Return(t)
        /\ \/ t \notin Txn /\ tx' = tx
           \/ t \in Txn /\ tx' = [tx EXCEPT ![t] = "failed"]
           \/ t \in Txn /\ Outcome(t, "commit")
    BY <1>0, <1>6 DEF WriteError, FlushError, Flush, Thread
  <2>2. job'[t] = Idle /\ \A u \in Thread : u # t => job'[u] = job[u]
    BY <2>1, ReturnJob
  <2>3. \A y \in Txn : y # t => tx'[y] = tx[y]
    BY <1>0, <2>1, OutcomeType
  <2>4. t \in Txn => tx'[t] \in {"failed", "committed"}
    BY <1>0, <2>1, OutcomeType
  <2>5. t \in Txn => CallOK(t)'
    BY <2>2, <2>4 DEF CallOK
  <2> QED
    BY <1>0, <2>2, <2>3, <2>5, CallRest
<1>7. CASE \E n \in DOMAIN files : Truncate(n)
  <2>1. tx' = tx /\ job' = job
    BY <1>7 DEF Truncate, txnVars
  <2> QED
    BY <2>1, CallOther DEF CallInv
<1>8. CASE \E n \in 0..Len(current), torn \in BOOLEAN : CrashRestart(n, torn)
  <2>1. /\ job' = [t \in Thread |-> Idle]
        /\ tx' = [x \in Txn |-> IF tx[x] \in {"new", "committed", "aborted"} THEN tx[x] ELSE "failed"]
    BY <1>8 DEF CrashRestart
  <2>2. \A x \in Txn : job'[x] = Idle /\ tx'[x] \in {"new", "committed", "aborted", "failed"}
    BY <1>0, <2>1
  <2> QED
    BY <2>2 DEF CallInv, CallOK
<1> QED
  BY <1>2, <1>3, <1>4, <1>5, <1>6, <1>7, <1>8 DEF WalNext

-----------------------------------------------------------------------------
(* Steps that add nothing to the log.                                       *)

Itself(M) == [p \in DOMAIN M |-> p]

LEMMA ItselfPart ==
    ASSUME NEW M
    PROVE  /\ PartOf(M, M, Itself(M)) /\ \A x : HasAll(M, M, Itself(M), x)
           /\ \A p \in DOMAIN M : Itself(M)[p] = p
<1>1. \A p \in DOMAIN M : Itself(M)[p] = p
  BY DEF Itself
<1>2. PartOf(M, M, Itself(M))
  BY <1>1, Zenon DEF PartOf
<1>3. \A x : HasAll(M, M, Itself(M), x)
  BY <1>1 DEF HasAll, OfTxn
<1> QED
  BY <1>1, <1>2, <1>3

LEMMA SameLog ==
    ASSUME files' = files, current' = current, seg' = seg
    PROVE  FullLog' = FullLog
BY DEF FullLog, LogOf

LEMMA LsnPart ==
    ASSUME LsnInv, NEW m, PartOf(FullLog', FullLog, m), lsn' = lsn,
           \A t \in Thread : Appending(t)' => Appending(t) /\ job'[t].rec = job[t].rec
    PROVE  LsnInv'
<1>1. LsnsDistinct(FullLog)'
  BY PartDistinct DEF LsnInv
<1>2. ASSUME NEW p \in DOMAIN FullLog'
      PROVE  m[p] \in DOMAIN FullLog /\ FullLog'[p] = FullLog[m[p]]
  BY DEF PartOf
<1>3. \A p \in DOMAIN FullLog' : FullLog'[p].lsn < lsn'
  BY <1>2 DEF LsnInv
<1>4. ASSUME NEW t \in Thread, Appending(t)'
      PROVE  /\ job'[t].rec.lsn < lsn'
             /\ \A p \in DOMAIN FullLog' : FullLog'[p].lsn # job'[t].rec.lsn
             /\ \A u \in Thread : Appending(u)' /\ job'[u].rec.lsn = job'[t].rec.lsn => u = t
  <2>1. Appending(t) /\ job'[t].rec = job[t].rec
    BY <1>4
  <2> QED
    BY <1>2, <2>1 DEF LsnInv
<1> QED
  BY <1>1, <1>3, <1>4 DEF LsnInv

LEMMA LsnCall ==
    ASSUME WalTypeOK, LsnInv, NEW t \in Thread, NEW rec, rec.lsn = lsn, Call(t, rec),
           FullLog' = FullLog
    PROVE  LsnInv'
<1>1. /\ job'[t] = [pc |-> "append", rec |-> rec] /\ lsn' = lsn + 1
      /\ \A u \in Thread : u # t => job'[u] = job[u]
  BY CallJob
<1>2. lsn \in Nat /\ LogType(FullLog)
  BY FullLogIs DEF WalTypeOK
<1>3. \A p \in DOMAIN FullLog : FullLog[p].lsn \in Nat /\ FullLog[p].lsn < lsn
  <2>1. \A p \in DOMAIN FullLog : FullLog[p].lsn \in Nat
    BY <1>2 DEF LogType, TxnRecord, CheckpointRecord
  <2> QED
    BY <2>1 DEF LsnInv
<1>4. \A u \in Thread : Appending(u) => job[u].rec.lsn \in Nat /\ job[u].rec.lsn < lsn
  <2>1. \A u \in Thread : Appending(u) => job[u].rec.lsn \in Nat
    BY AppendingIs, JobIs
  <2> QED
    BY <2>1 DEF LsnInv
<1>5. \A u \in Thread : Appending(u)' => u = t \/ (Appending(u) /\ job'[u] = job[u])
  BY <1>1 DEF Appending
<1>6. job'[t].rec.lsn = lsn
  BY <1>1
<1>7. LsnsDistinct(FullLog)'
  BY DEF LsnInv
<1>8. \A p \in DOMAIN FullLog' : FullLog'[p].lsn < lsn'
  BY <1>1, <1>2, <1>3
<1>9. ASSUME NEW u \in Thread, Appending(u)'
      PROVE  /\ job'[u].rec.lsn < lsn'
             /\ \A p \in DOMAIN FullLog' : FullLog'[p].lsn # job'[u].rec.lsn
             /\ \A v \in Thread : Appending(v)' /\ job'[v].rec.lsn = job'[u].rec.lsn => v = u
  <2>1. CASE u = t
    <3>1. \A p \in DOMAIN FullLog' : FullLog'[p].lsn # job'[u].rec.lsn
      BY <1>2, <1>3, <1>6, <2>1
    <3>2. \A v \in Thread : Appending(v)' /\ job'[v].rec.lsn = job'[u].rec.lsn => v = u
      BY <1>2, <1>4, <1>5, <1>6, <2>1
    <3> QED
      BY <1>1, <1>2, <1>6, <2>1, <3>1, <3>2
  <2>2. CASE u # t
    <3>1. Appending(u) /\ job'[u] = job[u] /\ job[u].rec.lsn \in Nat /\ job[u].rec.lsn < lsn
      BY <1>4, <1>5, <1>9, <2>2
    <3>2. \A p \in DOMAIN FullLog' : FullLog'[p].lsn # job'[u].rec.lsn
      BY <3>1 DEF LsnInv
    <3>3. ASSUME NEW v \in Thread, Appending(v)', job'[v].rec.lsn = job'[u].rec.lsn PROVE v = u
      <4>1. v # t
        BY <1>2, <1>6, <3>1, <3>3
      <4>2. Appending(v) /\ job'[v] = job[v]
        BY <1>5, <3>3, <4>1
      <4> QED
        BY <3>1, <3>3, <4>2 DEF LsnInv
    <3>4. job'[u].rec.lsn < lsn'
      BY <1>1, <1>2, <3>1
    <3> QED
      BY <3>2, <3>3, <3>4
  <2> QED
    BY <2>1, <2>2
<1> QED
  BY <1>7, <1>8, <1>9 DEF LsnInv

\* A transaction whose records stay, perhaps under another number.
LEMMA TxnMoved ==
    ASSUME NEW x, TxnOK(x), NEW m, PartOf(FullLog', FullLog, m), HasAll(FullLog', FullLog, m, x),
           tx'[x] = tx[x], logged'[x] = logged[x],
           Appending(x)' <=> Appending(x), Appending(x) => job'[x].rec = job[x].rec,
           \A p \in DOMAIN FullLog' :
             FullLog'[p].tx = x /\ (m[p][1] \in DOMAIN files \/ m[p][2] <= synced)
               => p[1] \in DOMAIN files' \/ p[2] <= synced'
    PROVE  TxnOK(x)'
<1> DEFINE L == FullLog'
           M == FullLog
<1>1. /\ HasBefore(L, M, m, x)
      /\ OfTxn(L, x) = {} <=> OfTxn(M, x) = {}
      /\ \A T : Of(L, x, T) = {} <=> Of(M, x, T) = {}
      /\ \A T : \A p \in Of(M, x, T) : \E q \in Of(L, x, T) : m[q] = p
      /\ Lsns(L, Of(L, x, {"data"})) = Lsns(M, Of(M, x, {"data"}))
  BY PartSame
<1>2. InOrder(M, x) /\ Complete(M, x, logged[x])
  BY DEF TxnOK
<1>3. InOrder(L, x) /\ Complete(L, x, logged'[x])
  BY <1>1, <1>2, PartInOrder, PartComplete
<1>4. Appending(x)' => \A p \in OfTxn(L, x) : L[p].lsn < job'[x].rec.lsn
  <2>1. \A p \in OfTxn(L, x) : m[p] \in OfTxn(M, x) /\ L[p] = M[m[p]]
    BY DEF OfTxn, PartOf
  <2> QED
    BY <2>1 DEF TxnOK
<1>5. tx'[x] = "committed" =>
        \E p \in Of(L, x, {"commit"}) : p[1] \in DOMAIN files' \/ p[2] <= synced'
  <2> SUFFICES ASSUME tx'[x] = "committed"
               PROVE  \E p \in Of(L, x, {"commit"}) : p[1] \in DOMAIN files' \/ p[2] <= synced'
    OBVIOUS
  <2>1. PICK q \in Of(M, x, {"commit"}) : q[1] \in DOMAIN files \/ q[2] <= synced
    BY DEF TxnOK
  <2>2. PICK p \in Of(L, x, {"commit"}) : m[p] = q
    BY <1>1
  <2>3. p \in DOMAIN L /\ L[p].tx = x
    BY <2>2 DEF Of
  <2>4. p[1] \in DOMAIN files' \/ p[2] <= synced'
    BY <2>1, <2>2, <2>3, Zenon
  <2> QED
    BY <2>2, <2>4
<1>6. /\ tx'[x] \in {"new", "beginning"} => OfTxn(L, x) = {} /\ logged'[x] = {}
      /\ tx'[x] \in {"active", "committing", "aborting"} => Of(L, x, {"begin"}) # {}
      /\ tx'[x] \in {"active", "committing"} => Lsns(L, Of(L, x, {"data"})) = logged'[x]
      /\ tx'[x] \in {"active", "aborting"} \/ (tx'[x] = "committing" /\ Appending(x)')
           => Of(L, x, {"commit", "abort"}) = {}
      /\ tx'[x] = "committing" /\ ~ Appending(x)' => Of(L, x, {"commit"}) # {}
      /\ tx'[x] = "aborted" => Of(L, x, {"commit"}) = {}
  BY <1>1 DEF TxnOK
<1> QED
  BY <1>3, <1>4, <1>5, <1>6 DEF TxnOK

\* Nothing that concerns x happens.
LEMMA TxnSame ==
    ASSUME NEW x, TxnOK(x), FullLog' = FullLog, files' = files, synced' = synced,
           tx'[x] = tx[x], logged'[x] = logged[x],
           Appending(x)' <=> Appending(x), Appending(x) => job'[x].rec = job[x].rec
    PROVE  TxnOK(x)'
BY ItselfPart, TxnMoved

LEMMA CallLogInv ==
    ASSUME WalInv, NEW x \in Txn, LogBegin(x) \/ LogData(x) \/ LogCommit(x) \/ LogAbort(x)
    PROVE  LsnInv' /\ TxnInv'
<1>0. /\ WalTypeOK /\ CallInv /\ LsnInv /\ TxnInv /\ x \in Thread /\ Txn \subseteq Thread
      /\ tx \in [Txn -> TxStates]
  BY DEF WalInv, Thread, WalTypeOK, TxStates
<1>1. PICK type \in {"begin", "data", "commit", "abort"} :
        /\ Call(x, Record(type, x))
        /\ \/ tx[x] = "new" /\ tx' = [tx EXCEPT ![x] = "beginning"]
           \/ tx[x] = "active" /\ tx' = tx
           \/ tx[x] = "active" /\ tx' = [tx EXCEPT ![x] = "committing"]
           \/ tx[x] = "active" /\ tx' = [tx EXCEPT ![x] = "aborting"]
        /\ files' = files /\ current' = current /\ synced' = synced /\ seg' = seg
        /\ logged' = logged /\ gone' = gone
  BY DEF LogBegin, LogData, LogCommit, LogAbort, fileVars, txnVars
<1>2. Record(type, x).lsn = lsn
  BY DEF Record
<1>3. /\ job'[x] = [pc |-> "append", rec |-> Record(type, x)]
      /\ \A u \in Thread : u # x => job'[u] = job[u]
  BY <1>0, <1>1, CallJob
<1>4. FullLog' = FullLog
  BY <1>1, SameLog
<1>5. LsnInv'
  BY <1>0, <1>1, <1>2, <1>4, LsnCall
<1>6. ASSUME NEW y \in Txn \ gone, y # x PROVE TxnOK(y)'
  <2>1. tx'[y] = tx[y] /\ job'[y] = job[y] /\ TxnOK(y)
    BY <1>0, <1>1, <1>3, <1>6 DEF TxnInv
  <2> QED
    BY <1>1, <1>4, <2>1, TxnSame DEF Appending
<1>7. ASSUME x \notin gone PROVE TxnOK(x)'
  <2>1. TxnOK(x)
    BY <1>0, <1>7 DEF TxnInv
  <2>2. job'[x].rec.lsn = lsn /\ Appending(x)'
    BY <1>2, <1>3 DEF Appending
  <2>3. \A p \in OfTxn(FullLog', x) : FullLog'[p].lsn < job'[x].rec.lsn
    BY <1>0, <1>4, <2>2 DEF OfTxn, LsnInv
  <2>4. \/ tx[x] = "new" /\ tx'[x] = "beginning"
        \/ tx[x] = "active" /\ tx'[x] \in {"active", "committing", "aborting"}
    BY <1>0, <1>1
  <2> QED
    BY <1>1, <1>4, <2>1, <2>2, <2>3, <2>4 DEF TxnOK
<1> QED
  BY <1>1, <1>5, <1>6, <1>7 DEF TxnInv

LEMMA CheckpointInv ==
    ASSUME WalInv, LogCheckpoint
    PROVE  LsnInv' /\ TxnInv'
<1>0. WalTypeOK /\ LsnInv /\ TxnInv /\ Nobody \in Thread /\ Txn \subseteq Thread /\ Nobody \notin Txn
  BY WalAssumption DEF WalInv, Thread
<1>1. PICK rec : rec.lsn = lsn /\ Call(Nobody, rec)
  BY DEF LogCheckpoint
<1>2. /\ files' = files /\ current' = current /\ synced' = synced /\ seg' = seg
      /\ tx' = tx /\ logged' = logged /\ gone' = gone
  BY DEF LogCheckpoint, fileVars, txnVars
<1>3. \A u \in Thread : u # Nobody => job'[u] = job[u]
  BY <1>0, <1>1, CallJob
<1>4. FullLog' = FullLog
  BY <1>2, SameLog
<1>5. LsnInv'
  BY <1>0, <1>1, <1>4, LsnCall
<1>6. ASSUME NEW y \in Txn \ gone PROVE TxnOK(y)'
  <2>1. job'[y] = job[y] /\ TxnOK(y)
    BY <1>0, <1>3 DEF TxnInv
  <2> QED
    BY <1>2, <1>4, <2>1, TxnSame DEF Appending
<1> QED
  BY <1>2, <1>5, <1>6 DEF TxnInv

LEMMA AppendFullInv ==
    ASSUME WalInv, NEW t \in Thread, AppendFull(t)
    PROVE  LsnInv' /\ TxnInv'
<1>0. WalTypeOK /\ LsnInv /\ TxnInv /\ Txn \subseteq Thread
  BY DEF WalInv, Thread
<1>1. /\ files' = files /\ current' = current /\ synced' = synced /\ seg' = seg /\ lsn' = lsn
      /\ tx' = tx /\ logged' = logged /\ gone' = gone
      /\ Goes(t, "rotate") /\ ~ At(t, "idle") /\ Appending(t)
  BY DEF AppendFull, fileVars, counterVars, txnVars, At, Appending
<1>2. /\ job'[t].pc = "rotate" /\ job'[t].rec = job[t].rec
      /\ \A u \in Thread : u # t => job'[u] = job[u]
  BY <1>0, <1>1, GoesJob
<1>3. \A u \in Thread : (Appending(u)' <=> Appending(u)) /\ job'[u].rec = job[u].rec
  BY <1>1, <1>2 DEF Appending
<1>4. FullLog' = FullLog
  BY <1>1, SameLog
<1>5. LsnInv'
  BY <1>0, <1>1, <1>3, <1>4, ItselfPart, LsnPart
<1>6. ASSUME NEW y \in Txn \ gone PROVE TxnOK(y)'
  BY <1>0, <1>1, <1>3, <1>4, TxnSame DEF TxnInv
<1> QED
  BY <1>1, <1>5, <1>6 DEF TxnInv

LEMMA ErrorInv ==
    ASSUME WalInv, NEW t \in Thread, WriteError(t) \/ FlushError(t)
    PROVE  LsnInv' /\ TxnInv'
<1>0. /\ WalTypeOK /\ LsnInv /\ TxnInv /\ Txn \subseteq Thread /\ tx \in [Txn -> TxStates]
      /\ \A x \in Txn : x # Nobody
  BY WalAssumption DEF WalInv, Thread, WalTypeOK, TxStates
<1>1. /\ files' = files /\ current' = current /\ synced' = synced /\ seg' = seg /\ lsn' = lsn
      /\ logged' = logged /\ gone' = gone /\ Return(t)
      /\ tx' = IF t = Nobody THEN tx ELSE [tx EXCEPT ![t] = "failed"]
  BY DEF WriteError, FlushError, fileVars, counterVars
<1>2. job'[t] = Idle /\ \A u \in Thread : u # t => job'[u] = job[u]
  BY <1>0, <1>1, ReturnJob
<1>3. ~ Appending(t)'
  BY <1>2 DEF Appending, Idle
<1>4. \A u \in Thread : u # t => (Appending(u)' <=> Appending(u)) /\ job'[u].rec = job[u].rec
  BY <1>2 DEF Appending
<1>5. FullLog' = FullLog
  BY <1>1, SameLog
<1>6. LsnInv'
  BY <1>0, <1>1, <1>3, <1>4, <1>5, ItselfPart, LsnPart
<1>7. ASSUME NEW y \in Txn \ gone, y # t PROVE TxnOK(y)'
  <2>1. tx'[y] = tx[y] /\ TxnOK(y)
    BY <1>0, <1>1, <1>7 DEF TxnInv
  <2> QED
    BY <1>0, <1>1, <1>4, <1>5, <1>7, <2>1, TxnSame
<1>8. ASSUME t \in Txn \ gone PROVE TxnOK(t)'
  <2>1. TxnOK(t) /\ tx'[t] = "failed"
    BY <1>0, <1>1, <1>8 DEF TxnInv
  <2> QED
    BY <1>1, <1>3, <1>5, <2>1 DEF TxnOK
<1> QED
  BY <1>1, <1>6, <1>7, <1>8 DEF TxnInv

LEMMA FlushInv ==
    ASSUME WalInv, NEW t \in Thread, Flush(t)
    PROVE  LsnInv' /\ TxnInv'
<1>0. /\ WalTypeOK /\ CallInv /\ LsnInv /\ TxnInv /\ Txn \subseteq Thread
      /\ \A x \in Txn : x # Nobody
      /\ synced <= Len(current) /\ synced \in Nat /\ Len(current) \in Nat
  BY WalAssumption, FullLogIs DEF WalInv, Thread, WalTypeOK
<1>1. /\ files' = files /\ current' = current /\ synced' = Len(current) /\ seg' = seg /\ lsn' = lsn
      /\ logged' = logged /\ gone' = gone /\ Return(t) /\ At(t, "flush")
      /\ IF t = Nobody THEN tx' = tx ELSE Outcome(t, "commit")
  BY DEF Flush
<1>2. job'[t] = Idle /\ \A u \in Thread : u # t => job'[u] = job[u]
  BY <1>0, <1>1, ReturnJob
<1>3. ~ Appending(t)' /\ ~ Appending(t)
  BY <1>1, <1>2 DEF Appending, Idle, At
<1>4. \A u \in Thread : u # t => (Appending(u)' <=> Appending(u)) /\ job'[u].rec = job[u].rec
  BY <1>2 DEF Appending
<1>5. FullLog' = FullLog
  BY <1>1, SameLog
<1>6. LsnInv'
  BY <1>0, <1>1, <1>3, <1>4, <1>5, ItselfPart, LsnPart
<1>7. /\ \A y \in Txn : y # t => tx'[y] = tx[y]
      /\ t \in Txn => tx'[t] = "committed"
  <2>1. CASE t = Nobody
    BY <1>0, <1>1, <2>1
  <2>2. CASE t # Nobody
    <3>1. t \in Txn /\ Outcome(t, "commit")
      BY <1>1, <2>2 DEF Thread
    <3> QED
      BY <1>0, <3>1, OutcomeType
  <2> QED
    BY <2>1, <2>2
<1>8. \A p \in DOMAIN FullLog : /\ p[2] \in Nat /\ (p[2] <= synced => p[2] <= Len(current))
                                /\ p[1] \in DOMAIN files \/ p[2] <= Len(current)
  <2> SUFFICES ASSUME NEW p \in DOMAIN FullLog
               PROVE  /\ p[2] \in Nat /\ (p[2] <= synced => p[2] <= Len(current))
                      /\ p[1] \in DOMAIN files \/ p[2] <= Len(current)
    OBVIOUS
  <2>1. FullLog = LogIn(Full) /\ LogType(FullLog) /\ DOMAIN Full = DOMAIN files \cup {seg + 1}
        /\ Full[seg + 1] = current /\ current \in Seq(Frame)
    BY <1>0, FullLogIs
  <2>2. p[2] \in Nat /\ p[1] \in DOMAIN Full /\ p[2] \in Readable(Full[p[1]])
    BY <2>1, LogPlaces DEF LogType
  <2>3. p[1] = seg + 1 => p[2] \in DOMAIN current
    BY <2>1, <2>2 DEF Readable
  <2> QED
    BY <1>0, <2>1, <2>2, <2>3
<1>9. ASSUME NEW y \in Txn \ gone, y # t PROVE TxnOK(y)'
  <2>1. tx'[y] = tx[y] /\ TxnOK(y) /\ logged'[y] = logged[y]
    BY <1>0, <1>1, <1>7, <1>9 DEF TxnInv
  <2>2. /\ PartOf(FullLog', FullLog, Itself(FullLog)) /\ HasAll(FullLog', FullLog, Itself(FullLog), y)
        /\ \A p \in DOMAIN FullLog' : Itself(FullLog)[p] = p
    BY <1>5, ItselfPart
  <2>3. \A p \in DOMAIN FullLog' :
          FullLog'[p].tx = y /\ (Itself(FullLog)[p][1] \in DOMAIN files \/ Itself(FullLog)[p][2] <= synced)
            => p[1] \in DOMAIN files' \/ p[2] <= synced'
    BY <1>1, <1>5, <1>8, <2>2
  <2>4. (Appending(y)' <=> Appending(y)) /\ job'[y].rec = job[y].rec
    BY <1>0, <1>4, <1>9
  <2> QED
    BY <2>1, <2>2, <2>3, <2>4, TxnMoved
<1>10. ASSUME t \in Txn \ gone PROVE TxnOK(t)'
  <2>1. TxnOK(t) /\ tx'[t] = "committed" /\ CallOK(t) /\ tx[t] \in TxStates
    BY <1>0, <1>7, <1>10 DEF TxnInv, CallInv, WalTypeOK, TxStates
  <2>2. job[t] # Idle
    BY <1>0, <1>1, <1>10 DEF At, Idle
  <2>3. tx[t] = "committing"
    BY <1>3, <2>1, <2>2 DEF CallOK, TxStates
  <2>4. PICK p \in Of(FullLog, t, {"commit"}) : TRUE
    BY <1>3, <2>1, <2>3 DEF TxnOK
  <2>5. p[1] \in DOMAIN files \/ p[2] <= Len(current)
    BY <1>8, <2>4 DEF Of
  <2>6. \E q \in Of(FullLog', t, {"commit"}) : q[1] \in DOMAIN files' \/ q[2] <= synced'
    BY <1>1, <1>5, <2>4, <2>5
  <2> QED
    BY <1>1, <1>3, <1>5, <2>1, <2>6 DEF TxnOK
<1> QED
  BY <1>1, <1>6, <1>9, <1>10 DEF TxnInv

-----------------------------------------------------------------------------
(* A record is written.                                                     *)

\* L is M with a record at its end.
Extends(L, M, P, r) ==
    /\ DOMAIN L = DOMAIN M \cup {P} /\ P \notin DOMAIN M /\ L[P] = r
    /\ \A p \in DOMAIN M : L[p] = M[p] /\ Precedes(p, P)

LEMMA WriteLog ==
    ASSUME WalTypeOK, NEW r \in Frame, r # Torn, current' = Append(current, r),
           files' = files, seg' = seg
    PROVE  /\ (\E i \in DOMAIN current : current[i] = Torn) => FullLog' = FullLog
           /\ (\A i \in DOMAIN current : current[i] # Torn)
                => Extends(FullLog', FullLog, <<seg + 1, Len(current) + 1>>, r)
<1> DEFINE s == Full
           z == Put(files, seg + 1, Append(current, r))
           P == <<seg + 1, Len(current) + 1>>
<1>1. /\ FullLog = LogIn(s) /\ DOMAIN s = DOMAIN files \cup {seg + 1}
      /\ s[seg + 1] = current /\ seg + 1 \notin DOMAIN files
      /\ \A g \in DOMAIN files : s[g] = files[g] /\ g \in Nat /\ g <= seg
      /\ current \in Seq(Frame) /\ Len(current) \in Nat /\ seg \in Nat
  BY FullLogIs
<1>2. Append(current, r) \in Seq(Frame) /\ Len(Append(current, r)) = Len(current) + 1
      /\ Append(current, r)[Len(current) + 1] = r
  BY <1>1
<1>3. FullLog' = LogIn(z)
  <2>1. SubSeq(current', 1, Len(current')) = Append(current, r)
    <3>1. Len(current') \in 0..Len(current')
      BY <1>1, <1>2
    <3> QED
      BY <1>2, <3>1, ReadableCut
  <2> QED
    BY <2>1 DEF FullLog, LogOf
<1>4. /\ DOMAIN z = DOMAIN s /\ z[seg + 1] = Append(current, r)
      /\ \A g \in DOMAIN files : z[g] = s[g]
  BY <1>1 DEF Put
<1> HIDE DEF s, z
<1>5. /\ (\E i \in DOMAIN current : current[i] = Torn) => Readable(Append(current, r)) = Readable(current)
      /\ (\A i \in DOMAIN current : current[i] # Torn)
           => Readable(Append(current, r)) = Readable(current) \cup {Len(current) + 1}
      /\ \A i \in Readable(current) : i \in 1..Len(current) /\ Append(current, r)[i] = current[i]
  BY <1>1, ReadableAppend
<1>6. /\ \A g \in DOMAIN s : \A i \in Readable(s[g]) :
           <<g, i>> \in DOMAIN FullLog /\ FullLog[<<g, i>>] = s[g][i]
      /\ \A p \in DOMAIN FullLog : /\ p = <<p[1], p[2]>> /\ p[1] \in DOMAIN s /\ p[2] \in Readable(s[p[1]])
                                   /\ FullLog[p] = s[p[1]][p[2]]
      /\ \A g \in DOMAIN z : \A i \in Readable(z[g]) :
           <<g, i>> \in DOMAIN FullLog' /\ FullLog'[<<g, i>>] = z[g][i]
      /\ \A p \in DOMAIN FullLog' : /\ p = <<p[1], p[2]>> /\ p[1] \in DOMAIN z /\ p[2] \in Readable(z[p[1]])
                                    /\ FullLog'[p] = z[p[1]][p[2]]
  BY <1>1, <1>3, LogPlaces
<1>7. ASSUME NEW p \in DOMAIN FullLog PROVE p \in DOMAIN FullLog' /\ FullLog'[p] = FullLog[p]
  <2>1. p = <<p[1], p[2]>> /\ p[1] \in DOMAIN s /\ p[2] \in Readable(s[p[1]]) /\ FullLog[p] = s[p[1]][p[2]]
    BY <1>6
  <2>2. p[2] \in Readable(z[p[1]]) /\ z[p[1]][p[2]] = s[p[1]][p[2]]
    <3>1. CASE p[1] \in DOMAIN files
      BY <1>4, <2>1, <3>1
    <3>2. CASE p[1] = seg + 1
      <4>1. Readable(current) \subseteq Readable(Append(current, r))
        BY <1>5
      <4>2. s[p[1]] = current /\ z[p[1]] = Append(current, r) /\ p[2] \in Readable(current)
        BY <1>1, <1>4, <2>1, <3>2
      <4>3. Append(current, r)[p[2]] = current[p[2]] /\ p[2] \in Readable(Append(current, r))
        BY <1>5, <4>1, <4>2
      <4> QED
        BY <4>2, <4>3
    <3> QED
      BY <1>1, <2>1, <3>1, <3>2
  <2> QED
    BY <1>4, <1>6, <2>1, <2>2
<1>8. ASSUME NEW p \in DOMAIN FullLog'
      PROVE  \/ p \in DOMAIN FullLog
             \/ (\A i \in DOMAIN current : current[i] # Torn) /\ p = P
  <2>1. p = <<p[1], p[2]>> /\ p[1] \in DOMAIN s /\ p[2] \in Readable(z[p[1]])
    BY <1>4, <1>6
  <2>2. CASE p[1] \in DOMAIN files
    BY <1>4, <1>6, <2>1, <2>2
  <2>3. CASE p[1] = seg + 1
    <3>1. p[2] \in Readable(Append(current, r))
      BY <1>4, <2>1, <2>3
    <3>2. \/ p[2] \in Readable(current)
          \/ (\A i \in DOMAIN current : current[i] # Torn) /\ p[2] = Len(current) + 1
      BY <1>5, <3>1
    <3>3. p[2] \in Readable(current) => p \in DOMAIN FullLog
      BY <1>1, <1>6, <2>1, <2>3
    <3> QED
      BY <2>1, <2>3, <3>2, <3>3
  <2> QED
    BY <1>1, <2>1, <2>2, <2>3
<1>9. ASSUME \E i \in DOMAIN current : current[i] = Torn PROVE FullLog' = FullLog
  <2>1. DOMAIN FullLog' = DOMAIN FullLog /\ \A p \in DOMAIN FullLog : FullLog'[p] = FullLog[p]
    BY <1>7, <1>8, <1>9
  <2>2. FullLog' = [p \in DOMAIN FullLog' |-> FullLog'[p]] /\ FullLog = [p \in DOMAIN FullLog |-> FullLog[p]]
    BY <1>1, <1>3 DEF LogIn
  <2> QED
    BY <2>1, <2>2, Zenon
<1>10. ASSUME \A i \in DOMAIN current : current[i] # Torn
       PROVE  Extends(FullLog', FullLog, P, r)
  <2>1. P \in DOMAIN FullLog' /\ FullLog'[P] = r
    <3>1. Len(current) + 1 \in Readable(z[seg + 1]) /\ seg + 1 \in DOMAIN z
      BY <1>1, <1>4, <1>5, <1>10
    <3>2. P \in DOMAIN FullLog' /\ FullLog'[P] = z[seg + 1][Len(current) + 1]
      BY <1>6, <3>1
    <3> QED
      BY <1>2, <1>4, <3>2
  <2>2. ASSUME NEW p \in DOMAIN FullLog PROVE Precedes(p, P) /\ p # P
    <3>1. p = <<p[1], p[2]>> /\ p[1] \in DOMAIN s /\ p[2] \in Readable(s[p[1]])
      BY <1>6
    <3>2. CASE p[1] \in DOMAIN files
      <4>1. p[1] \in Nat /\ p[1] <= seg
        BY <1>1, <3>2
      <4>2. p[1] < seg + 1
        BY <1>1, <4>1
      <4> QED
        BY <1>1, <4>1, <4>2 DEF Precedes
    <3>3. CASE p[1] = seg + 1
      <4>1. p[2] \in 1..Len(current)
        BY <1>1, <1>5, <3>1, <3>3
      <4> QED
        BY <1>1, <3>3, <4>1 DEF Precedes
    <3> QED
      BY <1>1, <3>1, <3>2, <3>3
  <2>3. DOMAIN FullLog' = DOMAIN FullLog \cup {P}
    BY <1>7, <1>8, <2>1
  <2> HIDE DEF P
  <2> QED
    BY <1>7, <2>1, <2>2, <2>3 DEF Extends
<1> QED
  BY <1>9, <1>10

LEMMA ExtendsOf ==
    ASSUME NEW L, NEW M, NEW P, NEW r, Extends(L, M, P, r), NEW x
    PROVE  /\ \A T : Of(M, x, T) \subseteq Of(L, x, T)
           /\ \A T : \A p \in Of(L, x, T) :
                p \in Of(M, x, T) \/ (p = P /\ r.tx = x /\ r.type \in T)
           /\ \A T : r.tx = x /\ r.type \in T => P \in Of(L, x, T)
           /\ \A p \in OfTxn(L, x) : p \in OfTxn(M, x) \/ (p = P /\ r.tx = x)
           /\ OfTxn(M, x) \subseteq OfTxn(L, x) /\ (r.tx = x => P \in OfTxn(L, x))
           /\ \A p \in OfTxn(M, x) : p \in DOMAIN M /\ L[p] = M[p] /\ Precedes(p, P) /\ p # P
           /\ L[P] = r
<1>1. /\ DOMAIN L = DOMAIN M \cup {P} /\ P \notin DOMAIN M /\ L[P] = r
      /\ \A p \in DOMAIN M : L[p] = M[p] /\ Precedes(p, P)
  BY DEF Extends
<1> QED
  BY <1>1, Zenon DEF Of, OfTxn

\* The others' records are as they were.
LEMMA ExtendsOther ==
    ASSUME NEW L, NEW M, NEW P, NEW r, Extends(L, M, P, r), NEW x, r.tx # x
    PROVE  /\ \A T : Of(L, x, T) = Of(M, x, T)
           /\ OfTxn(L, x) = OfTxn(M, x) /\ \A p \in OfTxn(M, x) : L[p] = M[p]
           /\ Lsns(L, Of(L, x, {"data"})) = Lsns(M, Of(M, x, {"data"}))
           /\ InOrder(M, x) => InOrder(L, x)
           /\ \A S : Complete(M, x, S) => Complete(L, x, S)
<1>1. /\ DOMAIN L = DOMAIN M \cup {P} /\ P \notin DOMAIN M /\ L[P] = r
      /\ \A p \in DOMAIN M : L[p] = M[p] /\ Precedes(p, P)
  BY DEF Extends
<1>2. \A p \in DOMAIN L : L[p].tx = x => p \in DOMAIN M
  BY <1>1
<1>3. OfTxn(L, x) = OfTxn(M, x) /\ \A p \in OfTxn(M, x) : L[p] = M[p]
  BY <1>1, <1>2 DEF OfTxn
<1>4. ASSUME NEW T PROVE Of(L, x, T) = Of(M, x, T)
  BY <1>1, <1>2 DEF Of
<1>5. \A T : \A p \in Of(M, x, T) : L[p] = M[p]
  BY <1>1 DEF Of
<1>6. Lsns(L, Of(L, x, {"data"})) = Lsns(M, Of(M, x, {"data"}))
  <2>1. Of(L, x, {"data"}) = Of(M, x, {"data"})
    BY <1>4
  <2>2. \A p \in Of(M, x, {"data"}) : L[p].lsn = M[p].lsn
    BY <1>5
  <2> QED
    BY <2>1, <2>2 DEF Lsns
<1>7. InOrder(M, x) => InOrder(L, x)
  <2>1. /\ Of(L, x, {"begin"}) = Of(M, x, {"begin"})
        /\ Of(L, x, {"commit", "abort"}) = Of(M, x, {"commit", "abort"})
        /\ \A p \in Of(M, x, {"begin"}) : L[p] = M[p]
        /\ \A p \in Of(M, x, {"commit", "abort"}) : L[p] = M[p]
    BY <1>4, <1>5
  <2> QED
    BY <1>3, <2>1 DEF InOrder
<1>8. ASSUME NEW S, Complete(M, x, S) PROVE Complete(L, x, S)
  BY <1>4, <1>6, <1>8 DEF Complete
<1> QED
  BY <1>3, <1>4, <1>6, <1>7, <1>8

\* A record of x is written after its begin and before its end.
LEMMA ExtendsOrder ==
    ASSUME NEW L, NEW M, NEW P, NEW r, Extends(L, M, P, r), NEW x, r.tx = x,
           InOrder(M, x), LogType(M), r.lsn \in Nat, \A p \in OfTxn(M, x) : M[p].lsn < r.lsn,
           Of(M, x, {"commit", "abort"}) = {},
           \/ r.type = "begin" /\ OfTxn(M, x) = {}
           \/ r.type # "begin" /\ Of(M, x, {"begin"}) # {}
    PROVE  InOrder(L, x)
<1>1. /\ \A T : Of(M, x, T) \subseteq Of(L, x, T)
      /\ \A T : \A p \in Of(L, x, T) : p \in Of(M, x, T) \/ (p = P /\ r.tx = x /\ r.type \in T)
      /\ \A T : r.tx = x /\ r.type \in T => P \in Of(L, x, T)
      /\ \A p \in OfTxn(L, x) : p \in OfTxn(M, x) \/ (p = P /\ r.tx = x)
      /\ \A p \in OfTxn(M, x) : p \in DOMAIN M /\ L[p] = M[p] /\ Precedes(p, P) /\ p # P
      /\ L[P] = r
  BY ExtendsOf
<1>2. \A p \in OfTxn(M, x) : M[p].lsn \in Nat
  BY DEF OfTxn, LogType, TxnRecord, CheckpointRecord
<1>3. ASSUME NEW p \in OfTxn(L, x), NEW q \in OfTxn(L, x), L[p].lsn < L[q].lsn
      PROVE  Precedes(p, q)
  <2>1. CASE p = P
    <3>1. q \in OfTxn(M, x) => L[q].lsn < L[p].lsn /\ L[q].lsn \in Nat /\ L[p].lsn \in Nat
      BY <1>1, <1>2, <2>1
    <3>2. q = P => FALSE
      BY <1>1, <1>3, <2>1
    <3> QED
      BY <1>1, <1>3, <3>1, <3>2
  <2>2. CASE p \in OfTxn(M, x) /\ q = P
    BY <1>1, <2>2
  <2>3. CASE p \in OfTxn(M, x) /\ q \in OfTxn(M, x)
    BY <1>1, <1>3, <2>3 DEF InOrder
  <2> QED
    BY <1>1, <2>1, <2>2, <2>3
<1>4. ASSUME NEW p \in Of(L, x, {"begin"}), NEW q \in OfTxn(L, x)
      PROVE  q = p \/ L[p].lsn < L[q].lsn
  <2>1. p \in Of(M, x, {"begin"}) \/ (p = P /\ r.type = "begin")
    BY <1>1
  <2>2. q \in OfTxn(M, x) \/ q = P
    BY <1>1
  <2>3. CASE p \in Of(M, x, {"begin"})
    <3>1. p \in OfTxn(M, x)
      BY <2>3 DEF Of, OfTxn
    <3> QED
      BY <1>1, <2>2, <2>3, <3>1 DEF InOrder
  <2>4. CASE p = P /\ r.type = "begin"
    BY <2>2, <2>4
  <2> QED
    BY <2>1, <2>3, <2>4
<1>5. ASSUME NEW p \in Of(L, x, {"commit", "abort"}), NEW q \in OfTxn(L, x)
      PROVE  q = p \/ L[q].lsn < L[p].lsn
  <2>1. p = P
    BY <1>1
  <2> QED
    BY <1>1, <2>1
<1>6. Of(L, x, {"begin"}) # {}
  <2>1. CASE r.type = "begin"
    <3>1. P \in Of(L, x, {"begin"})
      BY <1>1, <2>1
    <3> QED
      BY <3>1
  <2>2. CASE Of(M, x, {"begin"}) # {}
    <3>1. Of(M, x, {"begin"}) \subseteq Of(L, x, {"begin"})
      BY <1>1
    <3> QED
      BY <2>2, <3>1
  <2> QED
    BY <2>1, <2>2
<1> QED
  BY <1>3, <1>4, <1>5, <1>6 DEF InOrder

LEMMA ExtendsLsns ==
    ASSUME NEW L, NEW M, NEW P, NEW r, Extends(L, M, P, r), NEW x, r.tx = x
    PROVE  /\ r.type = "data" =>
                Lsns(L, Of(L, x, {"data"})) = Lsns(M, Of(M, x, {"data"})) \cup {r.lsn}
           /\ r.type # "data" => Lsns(L, Of(L, x, {"data"})) = Lsns(M, Of(M, x, {"data"}))
<1>1. /\ \A p \in Of(M, x, {"data"}) : p \in Of(L, x, {"data"})
      /\ \A p \in Of(L, x, {"data"}) : p \in Of(M, x, {"data"}) \/ (p = P /\ r.type = "data")
      /\ r.type = "data" => P \in Of(L, x, {"data"})
      /\ L[P] = r
  BY ExtendsOf
<1>2. \A p \in Of(M, x, {"data"}) : L[p].lsn = M[p].lsn
  BY DEF Of, Extends
<1>3. \A p \in Of(M, x, {"data"}) : L[p].lsn \in Lsns(M, Of(M, x, {"data"}))
                                    /\ M[p].lsn \in Lsns(L, Of(L, x, {"data"}))
  BY <1>1, <1>2 DEF Lsns
<1>4. /\ r.type = "data" => r.lsn \in Lsns(L, Of(L, x, {"data"}))
      /\ \A y \in Lsns(L, Of(L, x, {"data"})) :
           y \in Lsns(M, Of(M, x, {"data"})) \/ (r.type = "data" /\ y = r.lsn)
      /\ \A y \in Lsns(M, Of(M, x, {"data"})) : y \in Lsns(L, Of(L, x, {"data"}))
  BY <1>1, <1>3 DEF Lsns
<1> QED
  BY <1>4

LEMMA WriteLsnInv ==
    ASSUME WalTypeOK, LsnInv, NEW t \in Thread, Appending(t), NEW P,
           \/ FullLog' = FullLog
           \/ Extends(FullLog', FullLog, P, job[t].rec),
           lsn' = lsn, ~ Appending(t)', \A u \in Thread : u # t => job'[u] = job[u]
    PROVE  LsnInv'
<1>1. \A u \in Thread : Appending(u)' => u # t /\ Appending(u) /\ job'[u].rec = job[u].rec
  BY DEF Appending
<1>2. CASE FullLog' = FullLog
  BY <1>1, <1>2, ItselfPart, LsnPart
<1>3. CASE Extends(FullLog', FullLog, P, job[t].rec)
  <2> DEFINE r == job[t].rec
  <2>1. /\ DOMAIN FullLog' = DOMAIN FullLog \cup {P} /\ P \notin DOMAIN FullLog /\ FullLog'[P] = r
        /\ \A p \in DOMAIN FullLog : FullLog'[p] = FullLog[p]
    BY <1>3 DEF Extends
  <2>2. /\ r.lsn < lsn /\ \A p \in DOMAIN FullLog : FullLog[p].lsn # r.lsn
        /\ \A p \in DOMAIN FullLog : FullLog[p].lsn < lsn
        /\ \A p, q \in DOMAIN FullLog : FullLog[p].lsn = FullLog[q].lsn => p = q
    BY DEF LsnInv, LsnsDistinct
  <2>3. \A p, q \in DOMAIN FullLog' : FullLog'[p].lsn = FullLog'[q].lsn => p = q
    <3> HIDE DEF r
    <3> QED
      BY <2>1, <2>2
  <2>4. \A p \in DOMAIN FullLog' : FullLog'[p].lsn < lsn'
    BY <2>1, <2>2
  <2>5. ASSUME NEW u \in Thread, Appending(u)'
        PROVE  /\ job'[u].rec.lsn < lsn'
               /\ \A p \in DOMAIN FullLog' : FullLog'[p].lsn # job'[u].rec.lsn
               /\ \A v \in Thread : Appending(v)' /\ job'[v].rec.lsn = job'[u].rec.lsn => v = u
    <3>1. u # t /\ Appending(u) /\ job'[u].rec = job[u].rec
      BY <1>1, <2>5
    <3>2. job[u].rec.lsn # r.lsn
      BY <3>1 DEF LsnInv
    <3>3. job[u].rec.lsn < lsn /\ \A p \in DOMAIN FullLog : FullLog[p].lsn # job[u].rec.lsn
      BY <3>1 DEF LsnInv
    <3>4. \A p \in DOMAIN FullLog' : FullLog'[p].lsn # job[u].rec.lsn
      BY <2>1, <3>2, <3>3
    <3>5. \A v \in Thread : Appending(v) /\ job[v].rec.lsn = job[u].rec.lsn => v = u
      BY <3>1 DEF LsnInv
    <3> QED
      BY <1>1, <3>1, <3>3, <3>4, <3>5
  <2> QED
    BY <2>3, <2>4, <2>5 DEF LsnInv, LsnsDistinct
<1> QED
  BY <1>2, <1>3

\* The transaction whose record it is.
LEMMA WriteTxnOK ==
    ASSUME WalTypeOK, LsnInv, NEW x \in Txn, CallOK(x), TxnOK(x), Appending(x), NEW P,
           Extends(FullLog', FullLog, P, job[x].rec), Written(x),
           logged' = IF job[x].rec.type = "data"
                     THEN [logged EXCEPT ![x] = @ \cup {job[x].rec.lsn}] ELSE logged
    PROVE  TxnOK(x)'
<1> DEFINE L == FullLog'
           M == FullLog
           r == job[x].rec
<1>0. /\ x \in Thread /\ tx \in [Txn -> TxStates] /\ logged \in [Txn -> SUBSET Nat]
      /\ LogType(FullLog)
  BY FullLogIs DEF Thread, WalTypeOK, TxStates
<1>1. ~ At(x, "idle") /\ job[x] # Idle /\ r.tx = x /\ r.lsn \in Nat
  BY <1>0, AppendingIs, JobIs
<1>2. \/ tx[x] = "beginning" /\ r.type = "begin"
      \/ tx[x] = "active" /\ r.type = "data"
      \/ tx[x] = "committing" /\ r.type = "commit"
      \/ tx[x] = "aborting" /\ r.type = "abort"
  BY <1>0, <1>1 DEF CallOK, TxStates
<1>3. Of(M, x, {"commit", "abort"}) = {} /\ \A p \in OfTxn(M, x) : M[p].lsn < r.lsn
  <2>1. tx[x] = "beginning" => OfTxn(M, x) = {}
    BY DEF TxnOK
  <2>2. tx[x] = "beginning" => Of(M, x, {"commit", "abort"}) = {}
    BY <2>1 DEF Of, OfTxn
  <2> QED
    BY <1>2, <2>2 DEF TxnOK
<1>4. \/ r.type = "begin" /\ OfTxn(M, x) = {}
      \/ r.type # "begin" /\ Of(M, x, {"begin"}) # {}
  BY <1>2 DEF TxnOK
<1>5. InOrder(L, x)
  BY <1>0, <1>1, <1>3, <1>4, ExtendsOrder DEF TxnOK
<1>6. ~ Appending(x)' /\ logged'[x] = (IF r.type = "data" THEN logged[x] \cup {r.lsn} ELSE logged[x])
      /\ tx'[x] = CASE r.type = "begin" -> "active"
                    [] r.type = "abort" -> "aborted"
                    [] OTHER -> tx[x]
  <2>1. CASE r.type = "commit"
    <3>1. Goes(x, "flush") /\ tx' = tx
      BY <2>1 DEF Written
    <3>2. job'[x].pc = "flush"
      BY <1>0, <1>1, <3>1, GoesJob
    <3> QED
      BY <2>1, <3>1, <3>2 DEF Appending
  <2>2. CASE r.type \in {"begin", "data", "abort"}
    <3>1. Return(x) /\ Outcome(x, r.type)
      BY <2>2 DEF Written
    <3>2. job'[x] = Idle
      BY <1>0, <3>1, ReturnJob
    <3>3. tx'[x] = CASE r.type = "begin" -> "active"
                     [] r.type = "abort" -> "aborted"
                     [] r.type = "commit" -> "committed"
                     [] OTHER -> tx[x]
      BY <3>1, OutcomeType
    <3>4. ~ Appending(x)'
      BY <3>2 DEF Appending, Idle
    <3>5. logged'[x] = (IF r.type = "data" THEN logged[x] \cup {r.lsn} ELSE logged[x])
      BY <1>0
    <3> QED
      BY <2>2, <3>3, <3>4, <3>5
  <2> QED
    BY <1>2, <2>1, <2>2
<1>7. /\ \A T : Of(M, x, T) \subseteq Of(L, x, T)
      /\ \A T : \A p \in Of(L, x, T) : p \in Of(M, x, T) \/ r.type \in T
      /\ \A T : r.type \in T => P \in Of(L, x, T)
  BY <1>1, ExtendsOf
<1>8. /\ r.type = "data" => Lsns(L, Of(L, x, {"data"})) = Lsns(M, Of(M, x, {"data"})) \cup {r.lsn}
      /\ r.type # "data" => Lsns(L, Of(L, x, {"data"})) = Lsns(M, Of(M, x, {"data"}))
  BY <1>1, ExtendsLsns
<1>9. Of(M, x, {"commit"}) = {}
  BY <1>3 DEF Of
<1>10. Of(L, x, {"begin"}) # {}
  <2>1. CASE r.type = "begin"
    <3>1. P \in Of(L, x, {"begin"})
      BY <1>7, <2>1
    <3> QED
      BY <3>1
  <2>2. CASE Of(M, x, {"begin"}) # {}
    <3>1. Of(M, x, {"begin"}) \subseteq Of(L, x, {"begin"})
      BY <1>7
    <3> QED
      BY <2>2, <3>1
  <2> QED
    BY <1>4, <2>1, <2>2
<1>11. r.type \notin {"commit", "abort"} => Of(L, x, {"commit", "abort"}) = {}
  <2>1. \A p \in Of(L, x, {"commit", "abort"}) :
          p \in Of(M, x, {"commit", "abort"}) \/ r.type \in {"commit", "abort"}
    BY <1>7
  <2> QED
    BY <1>3, <2>1
<1>12. /\ r.type # "commit" => Of(L, x, {"commit"}) = {}
       /\ r.type = "commit" => Of(L, x, {"commit"}) # {}
  <2>1. /\ \A p \in Of(L, x, {"commit"}) : p \in Of(M, x, {"commit"}) \/ r.type \in {"commit"}
        /\ r.type \in {"commit"} => P \in Of(L, x, {"commit"})
    BY <1>7
  <2> QED
    BY <1>9, <2>1
<1>13. CASE tx[x] = "beginning" /\ r.type = "begin"
  <2>1. Of(M, x, {"data"}) = {} /\ logged[x] = {}
    BY <1>13 DEF TxnOK, Of, OfTxn
  <2>2. Lsns(L, Of(L, x, {"data"})) = {} /\ logged'[x] = {} /\ tx'[x] = "active"
    BY <1>6, <1>8, <1>13, <2>1 DEF Lsns
  <2>3. Complete(L, x, logged'[x])
    BY <2>2 DEF Complete
  <2> HIDE DEF L, r
  <2> QED
    BY <1>5, <1>6, <1>10, <1>11, <1>13, <2>2, <2>3 DEF TxnOK, L
<1>14. CASE tx[x] = "active" /\ r.type = "data"
  <2>1. Lsns(M, Of(M, x, {"data"})) = logged[x]
    BY <1>14 DEF TxnOK
  <2>2. Lsns(L, Of(L, x, {"data"})) = logged'[x] /\ tx'[x] = "active"
    BY <1>6, <1>8, <1>14, <2>1
  <2>3. Complete(L, x, logged'[x])
    BY <2>2 DEF Complete
  <2> HIDE DEF L, r
  <2> QED
    BY <1>5, <1>6, <1>10, <1>11, <1>14, <2>2, <2>3 DEF TxnOK, L
<1>15. CASE tx[x] = "committing" /\ r.type = "commit"
  <2>1. Lsns(M, Of(M, x, {"data"})) = logged[x]
    BY <1>15 DEF TxnOK
  <2>2. Lsns(L, Of(L, x, {"data"})) = logged'[x] /\ tx'[x] = "committing"
    BY <1>6, <1>8, <1>15, <2>1
  <2>3. Complete(L, x, logged'[x])
    BY <2>2 DEF Complete
  <2> HIDE DEF L, r
  <2> QED
    BY <1>5, <1>6, <1>10, <1>12, <1>15, <2>2, <2>3 DEF TxnOK, L
<1>16. CASE tx[x] = "aborting" /\ r.type = "abort"
  <2>1. Lsns(M, Of(M, x, {"data"})) \subseteq logged[x]
    BY DEF TxnOK, Complete
  <2>2. Lsns(L, Of(L, x, {"data"})) \subseteq logged'[x] /\ tx'[x] = "aborted"
    BY <1>6, <1>8, <1>16, <2>1
  <2>3. Complete(L, x, logged'[x])
    BY <1>12, <1>16, <2>2 DEF Complete
  <2> HIDE DEF L, r
  <2> QED
    BY <1>5, <1>6, <1>12, <1>16, <2>2, <2>3 DEF TxnOK, L
<1> QED
  BY <1>2, <1>13, <1>14, <1>15, <1>16

\* Another one.
LEMMA WriteOtherOK ==
    ASSUME NEW x, TxnOK(x), NEW P, NEW r, r.tx # x, Extends(FullLog', FullLog, P, r),
           files' = files, synced' = synced, tx'[x] = tx[x], job'[x] = job[x], logged'[x] = logged[x]
    PROVE  TxnOK(x)'
<1> DEFINE L == FullLog'
           M == FullLog
<1>1. /\ \A T : Of(L, x, T) = Of(M, x, T)
      /\ OfTxn(L, x) = OfTxn(M, x) /\ \A p \in OfTxn(M, x) : L[p] = M[p]
      /\ Lsns(L, Of(L, x, {"data"})) = Lsns(M, Of(M, x, {"data"}))
      /\ InOrder(M, x) => InOrder(L, x)
      /\ \A S : Complete(M, x, S) => Complete(L, x, S)
  BY ExtendsOther
<1>2. InOrder(L, x) /\ Complete(L, x, logged'[x])
  BY <1>1 DEF TxnOK
<1>3. Appending(x)' => \A p \in OfTxn(L, x) : L[p].lsn < job'[x].rec.lsn
  BY <1>1 DEF TxnOK, Appending
<1>4. /\ tx'[x] \in {"new", "beginning"} => OfTxn(L, x) = {} /\ logged'[x] = {}
      /\ tx'[x] \in {"active", "committing", "aborting"} => Of(L, x, {"begin"}) # {}
      /\ tx'[x] \in {"active", "committing"} => Lsns(L, Of(L, x, {"data"})) = logged'[x]
      /\ tx'[x] \in {"active", "aborting"} \/ (tx'[x] = "committing" /\ Appending(x)')
           => Of(L, x, {"commit", "abort"}) = {}
      /\ tx'[x] = "committing" /\ ~ Appending(x)' => Of(L, x, {"commit"}) # {}
      /\ tx'[x] = "aborted" => Of(L, x, {"commit"}) = {}
      /\ tx'[x] = "committed" => \E p \in Of(L, x, {"commit"}) : p[1] \in DOMAIN files' \/ p[2] <= synced'
  BY <1>1 DEF TxnOK, Appending
<1> QED
  BY <1>2, <1>3, <1>4 DEF TxnOK

LEMMA WriteInv ==
    ASSUME WalInv, NEW t \in Thread, Write(t)
    PROVE  LsnInv' /\ TxnInv'
<1>0. /\ WalTypeOK /\ CallInv /\ LsnInv /\ TxnInv /\ Txn \subseteq Thread
      /\ \A x \in Txn : x # Nobody
      /\ logged \in [Txn -> SUBSET Nat]
  BY WalAssumption DEF WalInv, Thread, WalTypeOK
<1>1. /\ current' = Append(current, job[t].rec)
      /\ gone' = IF t # Nobody /\ \E i \in DOMAIN current : current[i] = Torn THEN gone \cup {t} ELSE gone
      /\ logged' = IF job[t].rec.type = "data"
                   THEN [logged EXCEPT ![t] = @ \cup {job[t].rec.lsn}] ELSE logged
      /\ Written(t) /\ files' = files /\ synced' = synced /\ seg' = seg /\ lsn' = lsn
      /\ Appending(t) /\ ~ At(t, "idle")
  BY DEF Write, counterVars, At, Appending
<1>2. /\ job[t].rec \in Frame /\ job[t].rec # Torn /\ job[t].rec.tx = t
      /\ t \notin Txn => job[t].rec.type = "checkpoint"
  BY <1>0, <1>1, JobIs DEF Thread
<1> DEFINE P == <<seg + 1, Len(current) + 1>>
           torn == \E i \in DOMAIN current : current[i] = Torn
<1>3. /\ torn => FullLog' = FullLog
      /\ ~ torn => Extends(FullLog', FullLog, P, job[t].rec)
  BY <1>0, <1>1, <1>2, WriteLog
<1>4. /\ ~ Appending(t)' /\ \A u \in Thread : u # t => job'[u] = job[u]
      /\ \A y \in Txn : y # t => tx'[y] = tx[y] /\ logged'[y] = logged[y]
  <2>1. CASE job[t].rec.type \in {"commit", "checkpoint"}
    <3>1. Goes(t, "flush") /\ tx' = tx /\ logged' = logged
      BY <1>1, <2>1 DEF Written
    <3>2. job'[t].pc = "flush" /\ \A u \in Thread : u # t => job'[u] = job[u]
      BY <1>0, <1>1, <3>1, GoesJob
    <3> QED
      BY <3>1, <3>2 DEF Appending
  <2>2. CASE job[t].rec.type \notin {"commit", "checkpoint"}
    <3>1. Return(t) /\ Outcome(t, job[t].rec.type) /\ t \in Txn
      BY <1>1, <1>2, <2>2 DEF Written
    <3>2. job'[t] = Idle /\ \A u \in Thread : u # t => job'[u] = job[u]
      BY <1>0, <3>1, ReturnJob
    <3>3. \A y \in Txn : y # t => tx'[y] = tx[y]
      BY <1>0, <3>1, OutcomeType
    <3>4. \A y \in Txn : y # t => logged'[y] = logged[y]
      BY <1>0, <1>1
    <3>5. ~ Appending(t)'
      BY <3>2 DEF Appending, Idle
    <3> QED
      BY <3>2, <3>3, <3>4, <3>5
  <2> QED
    BY <2>1, <2>2
<1> HIDE DEF P, torn
<1>5. LsnInv'
  BY <1>0, <1>1, <1>3, <1>4, WriteLsnInv
<1>6. ASSUME NEW y \in Txn \ gone', y # t PROVE TxnOK(y)'
  <2>1. tx'[y] = tx[y] /\ logged'[y] = logged[y] /\ job'[y] = job[y]
    BY <1>0, <1>4, <1>6
  <2>2. TxnOK(y)
    BY <1>0, <1>1, <1>6 DEF TxnInv
  <2>3. CASE torn
    BY <1>1, <1>3, <2>1, <2>2, <2>3, TxnSame DEF Appending
  <2>4. CASE ~ torn
    BY <1>1, <1>2, <1>3, <1>6, <2>1, <2>2, <2>4, WriteOtherOK
  <2> QED
    BY <2>3, <2>4
<1>7. ASSUME t \in Txn \ gone' PROVE TxnOK(t)'
  <2>1. t \in Txn /\ ~ torn /\ t \notin gone
    BY <1>0, <1>1, <1>7 DEF torn
  <2>2. TxnOK(t) /\ CallOK(t)
    BY <1>0, <2>1 DEF TxnInv, CallInv
  <2> QED
    BY <1>0, <1>1, <1>3, <2>1, <2>2, WriteTxnOK
<1> QED
  BY <1>5, <1>6, <1>7 DEF TxnInv

-----------------------------------------------------------------------------
(* Segments are renamed, removed and read again.                            *)

LEMMA InFrames ==
    ASSUME NEW frames, NEW i \in Readable(frames), NEW x, frames[i].tx = x, x # Nobody
    PROVE  x \in TxnsIn(frames)
<1>1. i \in DOMAIN frames
  BY DEF Readable
<1> QED
  BY <1>1 DEF TxnsIn

LEMMA EmptyFrames == Readable(<<>>) = {} /\ SubSeq(<<>>, 1, Len(<<>>)) = <<>>
BY DEF Readable

LEMMA RotateInv ==
    ASSUME WalInv, NEW t \in Thread, Rotate(t)
    PROVE  LsnInv' /\ TxnInv'
<1>0. /\ WalTypeOK /\ LsnInv /\ TxnInv /\ Txn \subseteq Thread
      /\ \A x \in Txn : x # Nobody
  BY WalAssumption DEF WalInv, Thread
<1>1. /\ files' = Put(files, seg, current) /\ current' = <<>> /\ synced' = 0 /\ seg' = seg + 1
      /\ gone' = gone \cup (IF seg \in DOMAIN files THEN TxnsIn(files[seg]) ELSE {})
      /\ lsn' = lsn /\ tx' = tx /\ logged' = logged /\ Goes(t, "write")
      /\ ~ At(t, "idle") /\ Appending(t)
  BY DEF Rotate, txnVars, At, Appending
<1>2. /\ job'[t].pc = "write" /\ job'[t].rec = job[t].rec
      /\ \A u \in Thread : u # t => job'[u] = job[u]
  BY <1>0, <1>1, GoesJob
<1>3. \A u \in Thread : (Appending(u)' <=> Appending(u)) /\ job'[u].rec = job[u].rec
  BY <1>1, <1>2 DEF Appending
<1> DEFINE s == Put(Put(files, seg, current), seg + 2, <<>>)
           k == [g \in DOMAIN s |-> IF g = seg THEN seg + 1 ELSE g]
<1>4. /\ FullLog = LogIn(Full) /\ SegmentsOK(Full)
      /\ DOMAIN Full = DOMAIN files \cup {seg + 1} /\ seg + 1 \notin DOMAIN files
      /\ Full[seg + 1] = current /\ \A g \in DOMAIN files : Full[g] = files[g]
      /\ \A g \in DOMAIN files : g \in Nat /\ g <= seg /\ files[g] \in Seq(Frame)
      /\ current \in Seq(Frame) /\ seg \in Nat
  BY <1>0, FullLogIs
<1>5. seg' + 1 = seg + 2
  BY <1>1, <1>4
<1>6. FullLog' = LogIn(s)
  BY <1>1, <1>5, EmptyFrames DEF FullLog, LogOf
<1>7. /\ DOMAIN s = DOMAIN files \cup {seg, seg + 2} /\ s[seg] = current /\ s[seg + 2] = <<>>
      /\ \A g \in DOMAIN files : g # seg => s[g] = files[g]
      /\ DOMAIN files' = DOMAIN files \cup {seg}
  <2>1. seg + 2 \notin DOMAIN files /\ seg # seg + 2
    BY <1>4
  <2> QED
    BY <1>1, <2>1 DEF Put
<1>8. /\ \A g \in DOMAIN s : g # seg => k[g] = g
      /\ k[seg] = seg + 1
  BY <1>7
<1> HIDE DEF s, k
<1>9. \A g \in DOMAIN s : g \in Nat /\ (g < seg \/ g = seg \/ g = seg + 2)
  BY <1>4, <1>7
<1>10. SegmentsOK(s)
  <2>1. <<>> \in Seq(Frame)
    OBVIOUS
  <2>2. \A g \in DOMAIN s : s[g] \in Seq(Frame)
    BY <1>4, <1>7, <2>1
  <2> QED
    BY <1>9, <2>2 DEF SegmentsOK
<1>11. \A g \in DOMAIN s : g # seg + 2 => k[g] \in DOMAIN Full /\ s[g] = Full[k[g]]
  BY <1>4, <1>7, <1>8
<1>12. Readable(s[seg + 2]) = {}
  BY <1>7, EmptyFrames
<1>13. Renumbers(s, Full, k)
  <2>1. \A g \in DOMAIN s : k[g] \in Nat
    BY <1>4, <1>8, <1>9
  <2>2. \A g \in DOMAIN s : \A i \in Readable(s[g]) :
          k[g] \in DOMAIN Full /\ i \in Readable(Full[k[g]]) /\ s[g][i] = Full[k[g]][i]
    BY <1>11, <1>12
  <2>3. ASSUME NEW g \in DOMAIN s, NEW h \in DOMAIN s
        PROVE  (k[g] = k[h] => g = h) /\ (k[g] < k[h] => g < h)
    <3>1. CASE g = seg
      BY <1>4, <1>8, <1>9, <3>1
    <3>2. CASE h = seg
      BY <1>4, <1>8, <1>9, <3>2
    <3>3. CASE g # seg /\ h # seg
      BY <1>8, <3>3
    <3> QED
      BY <3>1, <3>2, <3>3
  <2> QED
    BY <2>1, <2>2, <2>3 DEF Renumbers
<1>14. PartOf(FullLog', FullLog, Moved(s, k))
  BY <1>4, <1>6, <1>10, <1>13, MovedPart
<1>15. LsnInv'
  BY <1>0, <1>1, <1>3, <1>14, LsnPart
<1>16. ASSUME NEW y \in Txn \ gone' PROVE TxnOK(y)'
  <2>1. TxnOK(y)
    BY <1>0, <1>1, <1>16 DEF TxnInv
  <2>2. ASSUME NEW g \in DOMAIN Full, NEW i \in Readable(Full[g]), Full[g][i].tx = y
        PROVE  \E f \in DOMAIN s : k[f] = g /\ i \in Readable(s[f])
    <3>1. CASE g = seg + 1
      <4>1. seg \in DOMAIN s /\ k[seg] = g /\ i \in Readable(s[seg])
        BY <1>4, <1>7, <1>8, <2>2, <3>1
      <4> QED
        BY <4>1
    <3>2. CASE g \in DOMAIN files /\ g # seg
      <4>1. g \in DOMAIN s /\ k[g] = g /\ i \in Readable(s[g])
        BY <1>4, <1>7, <1>8, <2>2, <3>2
      <4> QED
        BY <4>1
    <3>3. CASE g = seg /\ seg \in DOMAIN files
      <4>1. y \in TxnsIn(files[seg])
        <5>1. i \in Readable(files[seg]) /\ files[seg][i].tx = y /\ y # Nobody
          BY <1>0, <1>4, <1>16, <2>2, <3>3
        <5> QED
          BY <5>1, InFrames
      <4> QED
        BY <1>1, <1>16, <3>3, <4>1
    <3> QED
      BY <1>4, <2>2, <3>1, <3>2, <3>3
  <2>3. HasAll(FullLog', FullLog, Moved(s, k), y)
    BY <1>4, <1>6, <1>10, <1>13, <2>2, MovedAll
  <2>4. ASSUME NEW p \in DOMAIN FullLog' PROVE p[1] \in DOMAIN files'
    <3>1. p[1] \in DOMAIN s /\ p[2] \in Readable(s[p[1]])
      BY <1>6, LogPlaces
    <3> QED
      BY <1>7, <1>12, <3>1
  <2>5. y \in Thread
    BY <1>0, <1>16
  <2> QED
    BY <1>1, <1>3, <1>14, <2>1, <2>3, <2>4, <2>5, TxnMoved
<1> QED
  BY <1>15, <1>16 DEF TxnInv

LEMMA TruncateInv ==
    ASSUME WalInv, NEW n \in DOMAIN files, Truncate(n)
    PROVE  LsnInv' /\ TxnInv'
<1>0. /\ WalTypeOK /\ LsnInv /\ TxnInv /\ Txn \subseteq Thread
      /\ \A x \in Txn : x # Nobody
  BY WalAssumption DEF WalInv, Thread
<1>1. /\ files' = Without(files, n) /\ gone' = gone \cup TxnsIn(files[n])
      /\ current' = current /\ synced' = synced /\ seg' = seg /\ lsn' = lsn
      /\ job' = job /\ tx' = tx /\ logged' = logged
  BY DEF Truncate, counterVars, txnVars
<1> DEFINE s == Put(Without(files, n), seg + 1, current)
           k == Itself(s)
<1>2. /\ FullLog = LogIn(Full) /\ SegmentsOK(Full)
      /\ DOMAIN Full = DOMAIN files \cup {seg + 1} /\ seg + 1 \notin DOMAIN files
      /\ Full[seg + 1] = current /\ \A g \in DOMAIN files : Full[g] = files[g]
      /\ \A g \in DOMAIN files : g \in Nat /\ g <= seg /\ files[g] \in Seq(Frame)
      /\ current \in Seq(Frame) /\ seg \in Nat /\ Len(current) \in Nat
  BY <1>0, FullLogIs
<1>3. FullLog' = LogIn(s)
  <2>1. Len(current) \in 0..Len(current)
    BY <1>2
  <2>2. SubSeq(current', 1, Len(current')) = current
    BY <1>1, <1>2, <2>1, ReadableCut
  <2> QED
    BY <1>1, <2>2 DEF FullLog, LogOf
<1>4. /\ DOMAIN s = (DOMAIN files \ {n}) \cup {seg + 1} /\ s[seg + 1] = current
      /\ \A g \in DOMAIN files \ {n} : s[g] = files[g]
      /\ DOMAIN files' = DOMAIN files \ {n}
  BY <1>1, <1>2 DEF Put, Without
<1>5. \A g \in DOMAIN s : k[g] = g
  BY DEF Itself
<1> HIDE DEF s, k
<1>6. \A g \in DOMAIN s : g \in DOMAIN Full /\ s[g] = Full[g] /\ g \in Nat /\ s[g] \in Seq(Frame)
  BY <1>2, <1>4 DEF SegmentsOK
<1>7. SegmentsOK(s)
  BY <1>6 DEF SegmentsOK
<1>8. Renumbers(s, Full, k)
  <2>1. \A g \in DOMAIN s : k[g] \in Nat
    BY <1>5, <1>6
  <2>2. \A g \in DOMAIN s : \A i \in Readable(s[g]) :
          k[g] \in DOMAIN Full /\ i \in Readable(Full[k[g]]) /\ s[g][i] = Full[k[g]][i]
    BY <1>5, <1>6
  <2>3. \A g, h \in DOMAIN s : (k[g] = k[h] => g = h) /\ (k[g] < k[h] => g < h)
    BY <1>5
  <2> QED
    BY <2>1, <2>2, <2>3 DEF Renumbers
<1>9. PartOf(FullLog', FullLog, Moved(s, k))
  BY <1>2, <1>3, <1>7, <1>8, MovedPart
<1>10. LsnInv'
  BY <1>0, <1>1, <1>9, LsnPart DEF Appending
<1>11. ASSUME NEW y \in Txn \ gone' PROVE TxnOK(y)'
  <2>1. TxnOK(y)
    BY <1>0, <1>1, <1>11 DEF TxnInv
  <2>2. ASSUME NEW g \in DOMAIN Full, NEW i \in Readable(Full[g]), Full[g][i].tx = y
        PROVE  \E f \in DOMAIN s : k[f] = g /\ i \in Readable(s[f])
    <3>1. CASE g # n
      <4>1. g \in DOMAIN s
        BY <1>2, <1>4, <3>1
      <4> QED
        BY <1>5, <1>6, <2>2, <4>1
    <3>2. CASE g = n
      <4>1. i \in Readable(files[n]) /\ files[n][i].tx = y /\ y # Nobody
        BY <1>0, <1>2, <1>11, <2>2, <3>2
      <4>2. y \in TxnsIn(files[n])
        BY <4>1, InFrames
      <4> QED
        BY <1>1, <1>11, <4>2
    <3> QED
      BY <3>1, <3>2
  <2>3. HasAll(FullLog', FullLog, Moved(s, k), y)
    BY <1>2, <1>3, <1>7, <1>8, <2>2, MovedAll
  <2>4. ASSUME NEW p \in DOMAIN FullLog',
               Moved(s, k)[p][1] \in DOMAIN files \/ Moved(s, k)[p][2] <= synced
        PROVE  p[1] \in DOMAIN files' \/ p[2] <= synced'
    <3>1. p[1] \in DOMAIN s /\ p = <<p[1], p[2]>>
      BY <1>3, LogPlaces
    <3>2. Moved(s, k)[p] = <<k[p[1]], p[2]>>
      BY <1>3 DEF Moved
    <3>3. Moved(s, k)[p][1] = p[1] /\ Moved(s, k)[p][2] = p[2]
      BY <1>5, <3>1, <3>2
    <3> QED
      BY <1>1, <1>2, <1>4, <2>4, <3>1, <3>3
  <2> QED
    BY <1>1, <1>9, <2>1, <2>3, <2>4, TxnMoved DEF Appending
<1> QED
  BY <1>10, <1>11 DEF TxnInv

LEMMA CrashInv ==
    ASSUME WalInv, NEW n \in 0..Len(current), NEW torn \in BOOLEAN, CrashRestart(n, torn)
    PROVE  LsnInv' /\ TxnInv'
<1>0. /\ WalTypeOK /\ LsnInv /\ TxnInv
      /\ Len(current) \in Nat /\ n \in Nat /\ synced \in Nat /\ tx \in [Txn -> TxStates]
  BY FullLogIs DEF WalInv, WalTypeOK, TxStates
<1>1. /\ current' = SubSeq(current, 1, n) \o (IF torn THEN <<Torn>> ELSE <<>>)
      /\ synced' = Len(current') /\ seg' = Max(DOMAIN files \cup {0}) /\ lsn' = NextLsn(LogOf(n))
      /\ job' = [t \in Thread |-> Idle] /\ files' = files /\ logged' = logged /\ gone' = gone
      /\ tx' = [x \in Txn |-> IF tx[x] \in {"new", "committed", "aborted"} THEN tx[x] ELSE "failed"]
      /\ n \in Surviving
  BY DEF CrashRestart
<1>2. synced <= n
  BY <1>0, <1>1 DEF Surviving
<1>3. /\ FullLog = LogIn(Full) /\ SegmentsOK(Full)
      /\ DOMAIN Full = DOMAIN files \cup {seg + 1} /\ seg + 1 \notin DOMAIN files
      /\ Full[seg + 1] = current /\ \A g \in DOMAIN files : Full[g] = files[g]
      /\ \A g \in DOMAIN files : g \in Nat /\ g <= seg /\ files[g] \in Seq(Frame)
      /\ current \in Seq(Frame) /\ seg \in Nat
  BY <1>0, FullLogIs
<1>4. /\ current' \in Seq(Frame) /\ Len(current') \in Nat /\ n <= Len(current')
      /\ Readable(current') = {i \in Readable(current) : i <= n}
      /\ \A i \in 1..n : current'[i] = current[i]
  <2>1. /\ Readable(SubSeq(current, 1, n)) = {i \in Readable(current) : i <= n}
        /\ Readable(SubSeq(current, 1, n) \o <<Torn>>) = Readable(SubSeq(current, 1, n))
        /\ \A i \in 1..n : SubSeq(current, 1, n)[i] = current[i] /\ (SubSeq(current, 1, n) \o <<Torn>>)[i] = current[i]
        /\ SubSeq(current, 1, n) \in Seq(Frame) /\ SubSeq(current, 1, n) \o <<Torn>> \in Seq(Frame)
        /\ Len(SubSeq(current, 1, n)) = n
    BY <1>3, ReadableCut
  <2> DEFINE c == SubSeq(current, 1, n)
  <2>2. c \o <<>> = c /\ Len(c \o <<Torn>>) = n + 1
    BY <2>1
  <2>3. CASE torn
    <3>1. current' = c \o <<Torn>>
      BY <1>1, <2>3
    <3> HIDE DEF c
    <3> QED
      BY <1>0, <2>1, <2>2, <3>1 DEF c
  <2>4. CASE ~ torn
    <3>1. current' = c
      BY <1>1, <2>2, <2>4
    <3> HIDE DEF c
    <3> QED
      BY <1>0, <2>1, <3>1 DEF c
  <2> QED
    BY <2>3, <2>4
<1>5. seg' \in Nat /\ seg' <= seg /\ \A g \in DOMAIN files : g <= seg'
  BY <1>0, <1>1, RestartSeg
<1> DEFINE s == Put(files, seg' + 1, current')
           k == [g \in DOMAIN s |-> IF g = seg' + 1 THEN seg + 1 ELSE g]
           m == Moved(s, k)
<1>6. FullLog' = LogIn(s)
  <2>1. Len(current') \in 0..Len(current')
    BY <1>4
  <2>2. SubSeq(current', 1, Len(current')) = current'
    BY <1>4, <2>1, ReadableCut
  <2> QED
    BY <1>1, <2>2 DEF FullLog, LogOf
<1>7. /\ DOMAIN s = DOMAIN files \cup {seg' + 1} /\ s[seg' + 1] = current'
      /\ seg' + 1 \notin DOMAIN files /\ \A g \in DOMAIN files : s[g] = files[g]
  <2>1. seg' + 1 \notin DOMAIN files
    BY <1>3, <1>5
  <2> QED
    BY <2>1 DEF Put
<1>8. k[seg' + 1] = seg + 1 /\ \A g \in DOMAIN files : k[g] = g
  BY <1>7
<1>9. \A p \in DOMAIN LogIn(s) : m[p] = <<k[p[1]], p[2]>>
  BY DEF Moved
<1> HIDE DEF s, k, m
<1>10. \A g \in DOMAIN s : g \in Nat /\ s[g] \in Seq(Frame)
  BY <1>3, <1>4, <1>5, <1>7
<1>11. SegmentsOK(s)
  BY <1>10 DEF SegmentsOK
<1>12. \A i \in Readable(current) : i \in Nat \ {0}
  BY <1>3 DEF Readable
<1>13. ASSUME NEW g \in DOMAIN s, NEW i \in Readable(s[g])
       PROVE  /\ k[g] \in DOMAIN Full /\ i \in Readable(Full[k[g]]) /\ s[g][i] = Full[k[g]][i]
              /\ k[g] \in DOMAIN files \/ i <= n
  <2>1. CASE g \in DOMAIN files
    BY <1>3, <1>7, <1>8, <1>13, <2>1
  <2>2. CASE g = seg' + 1
    <3>1. i \in Readable(current) /\ i <= n
      BY <1>4, <1>7, <1>13, <2>2
    <3>2. i \in 1..n
      BY <1>0, <1>12, <3>1
    <3>3. s[g][i] = current[i]
      BY <1>4, <1>7, <2>2, <3>2
    <3> QED
      BY <1>3, <1>8, <2>2, <3>1, <3>3
  <2> QED
    BY <1>7, <2>1, <2>2
<1>14. Renumbers(s, Full, k)
  <2>1. \A g \in DOMAIN s : k[g] \in Nat
    BY <1>3, <1>7, <1>8
  <2>2. ASSUME NEW g \in DOMAIN s, NEW h \in DOMAIN s
        PROVE  (k[g] = k[h] => g = h) /\ (k[g] < k[h] => g < h)
    <3>1. CASE g = seg' + 1 /\ h = seg' + 1
      BY <1>3, <1>8, <3>1
    <3>2. CASE g = seg' + 1 /\ h \in DOMAIN files
      BY <1>3, <1>8, <3>2
    <3>3. CASE g \in DOMAIN files /\ h = seg' + 1
      BY <1>3, <1>5, <1>8, <3>3
    <3>4. CASE g \in DOMAIN files /\ h \in DOMAIN files
      BY <1>8, <3>4
    <3> QED
      BY <1>7, <3>1, <3>2, <3>3, <3>4
  <2> QED
    BY <1>13, <2>1, <2>2 DEF Renumbers
<1>15. PartOf(FullLog', FullLog, m)
  BY <1>3, <1>6, <1>11, <1>14, MovedPart DEF m
<1>16. ASSUME NEW g \in DOMAIN Full, NEW i \in Readable(Full[g]), g \in DOMAIN files \/ i <= n
       PROVE  \E f \in DOMAIN s : k[f] = g /\ i \in Readable(s[f])
  <2>1. CASE g \in DOMAIN files
    <3>1. g \in DOMAIN s /\ k[g] = g /\ i \in Readable(s[g])
      BY <1>3, <1>7, <1>8, <1>16, <2>1
    <3> QED
      BY <3>1
  <2>2. CASE g = seg + 1 /\ i <= n
    <3>1. seg' + 1 \in DOMAIN s /\ k[seg' + 1] = g /\ i \in Readable(s[seg' + 1])
      BY <1>3, <1>4, <1>7, <1>8, <1>16, <2>2
    <3> QED
      BY <3>1
  <2> QED
    BY <1>3, <1>16, <2>1, <2>2
<1>17. ASSUME NEW x PROVE HasBefore(FullLog', FullLog, m, x)
  <2>1. ASSUME NEW h \in DOMAIN s, NEW j \in Readable(s[h]),
               NEW g \in DOMAIN Full, NEW i \in Readable(Full[g]),
               Precedes(<<g, i>>, <<k[h], j>>)
        PROVE  g \in DOMAIN files \/ i <= n
    <3>1. g < k[h] \/ (g = k[h] /\ i < j)
      BY <2>1 DEF Precedes
    <3>2. k[h] \in DOMAIN Full /\ j \in Readable(Full[k[h]]) /\ (k[h] \in DOMAIN files \/ j <= n)
      BY <1>13, <2>1
    <3>3. CASE g = seg + 1
      <4>1. k[h] = seg + 1
        BY <1>3, <3>1, <3>2, <3>3
      <4>2. i < j /\ j <= n
        BY <1>3, <3>1, <3>2, <3>3, <4>1
      <4>3. i \in Nat /\ j \in Nat
        BY <1>3, <1>12, <2>1, <3>2, <3>3, <4>1
      <4> QED
        BY <1>0, <4>2, <4>3
    <3> QED
      BY <1>3, <3>3
  <2>2. \A h \in DOMAIN s : \A j \in Readable(s[h]) :
          \A g \in DOMAIN Full : \A i \in Readable(Full[g]) :
            Full[g][i].tx = x /\ Precedes(<<g, i>>, <<k[h], j>>)
              => \E f \in DOMAIN s : k[f] = g /\ i \in Readable(s[f])
    BY <1>16, <2>1
  <2> QED
    BY <1>3, <1>6, <1>11, <1>14, <2>2, MovedBefore DEF m
<1>18. LsnInv'
  <2>1. LsnsDistinct(FullLog')
    BY <1>0, <1>15, PartDistinct DEF LsnInv
  <2>2. ASSUME NEW p \in DOMAIN FullLog' PROVE FullLog'[p].lsn < lsn'
    <3>1. p = <<p[1], p[2]>> /\ p[1] \in DOMAIN s /\ p[2] \in Readable(s[p[1]])
      BY <1>6, LogPlaces
    <3>2. m[p] = <<k[p[1]], p[2]>> /\ (k[p[1]] \in DOMAIN files \/ p[2] <= n)
      BY <1>6, <1>9, <1>13, <3>1
    <3>3. m[p] \in DOMAIN FullLog /\ FullLog'[p] = FullLog[m[p]]
      BY <1>15 DEF PartOf
    <3>4. m[p] \in DOMAIN LogOf(n) /\ LogOf(n)[m[p]] = FullLog[m[p]]
      <4>1. m[p][1] \in DOMAIN files \/ m[p][2] <= n
        BY <3>2
      <4>2. m[p] \in DOMAIN LogOf(n)
        BY <1>0, <3>3, <4>1, CutLog
      <4> QED
        BY <1>0, <4>2, CutLog
    <3>5. LogOf(n)[m[p]].lsn < NextLsn(LogOf(n))
      BY <1>0, <3>4, RestartLsn
    <3> QED
      BY <1>1, <3>3, <3>4, <3>5
  <2>3. \A t \in Thread : ~ Appending(t)'
    BY <1>1 DEF Appending, Idle
  <2> QED
    BY <2>1, <2>2, <2>3 DEF LsnInv
<1>19. ASSUME NEW x \in Txn \ gone' PROVE TxnOK(x)'
  <2>1. TxnOK(x) /\ x \in Txn /\ x \in Thread
    BY <1>0, <1>1, <1>19 DEF TxnInv, Thread
  <2>2. /\ ~ Appending(x)' /\ logged'[x] = logged[x]
        /\ tx'[x] \in {"new", "committed", "aborted", "failed"}
        /\ tx'[x] # "failed" => tx'[x] = tx[x]
    BY <1>1, <2>1 DEF Appending, Idle
  <2>3. InOrder(FullLog, x) /\ Complete(FullLog, x, logged[x])
    BY <2>1 DEF TxnOK
  <2>4. InOrder(FullLog', x) /\ Complete(FullLog', x, logged'[x])
    BY <1>15, <1>17, <2>2, <2>3, PartInOrder, PartComplete
  <2>5. /\ \A p \in OfTxn(FullLog', x) : m[p] \in OfTxn(FullLog, x)
        /\ \A p \in Of(FullLog', x, {"commit"}) : m[p] \in Of(FullLog, x, {"commit"})
    BY <1>15 DEF OfTxn, Of, PartOf
  <2>6. /\ tx'[x] = "new" => OfTxn(FullLog', x) = {} /\ logged'[x] = {}
        /\ tx'[x] = "aborted" => Of(FullLog', x, {"commit"}) = {}
    BY <2>1, <2>2, <2>5 DEF TxnOK
  <2>7. ASSUME tx'[x] = "committed"
        PROVE  \E p \in Of(FullLog', x, {"commit"}) : p[1] \in DOMAIN files' \/ p[2] <= synced'
    <3>1. PICK p \in Of(FullLog, x, {"commit"}) : p[1] \in DOMAIN files \/ p[2] <= synced
      BY <2>1, <2>2, <2>7 DEF TxnOK
    <3>2. p \in DOMAIN FullLog /\ FullLog[p].tx = x /\ FullLog[p].type = "commit"
      BY <3>1 DEF Of
    <3>3. p = <<p[1], p[2]>> /\ p[1] \in DOMAIN Full /\ p[2] \in Readable(Full[p[1]])
      BY <1>3, <3>2, LogPlaces
    <3>4. LogType(FullLog)
      BY <1>0, FullLogIs
    <3>5. p[1] \in DOMAIN files \/ p[2] <= n
      <4>1. p[2] \in Nat
        BY <3>2, <3>4 DEF LogType
      <4> QED
        BY <1>0, <1>2, <3>1, <4>1
    <3>6. PICK f \in DOMAIN s : k[f] = p[1] /\ p[2] \in Readable(s[f])
      BY <1>16, <3>3, <3>5
    <3> DEFINE q == <<f, p[2]>>
    <3>7. q \in DOMAIN FullLog'
      BY <1>6, <3>6, LogPlaces
    <3>8. m[q] = p
      BY <1>6, <1>9, <3>3, <3>6, <3>7
    <3>9. FullLog'[q] = FullLog[p]
      BY <1>15, <3>7, <3>8 DEF PartOf
    <3>10. q \in Of(FullLog', x, {"commit"})
      BY <3>2, <3>7, <3>9 DEF Of
    <3>11. q[1] \in DOMAIN files' \/ q[2] <= synced'
      <4>1. CASE f \in DOMAIN files
        BY <1>1, <4>1
      <4>2. CASE f = seg' + 1
        <5>1. p[2] \in DOMAIN current'
          BY <1>7, <3>6, <4>2 DEF Readable
        <5> QED
          BY <1>1, <1>4, <5>1
      <4> QED
        BY <1>7, <3>6, <4>1, <4>2
    <3> QED
      BY <3>10, <3>11
  <2> QED
    BY <2>2, <2>4, <2>6, <2>7 DEF TxnOK
<1> QED
  BY <1>18, <1>19 DEF TxnInv

-----------------------------------------------------------------------------
(* The theorems.                                                            *)

LEMMA WalStart == WalInit => WalInv
<1> SUFFICES ASSUME WalInit PROVE WalInv
  OBVIOUS
<1>1. /\ files = <<>> /\ current = <<>> /\ synced = 0 /\ seg = 0 /\ lsn = 1
      /\ job = [t \in Thread |-> Idle] /\ tx = [x \in Txn |-> "new"]
      /\ logged = [x \in Txn |-> {}] /\ gone = {}
  BY DEF WalInit
<1>2. WalTypeOK
  <2>1. files \in [DOMAIN files -> Seq(Frame)] /\ DOMAIN files \subseteq 0..seg /\ current \in Seq(Frame)
    BY <1>1
  <2>2. synced \in 0..Len(current)
    BY <1>1
  <2>3. \A t \in Thread : JobTypeOK(t)
    BY <1>1 DEF JobTypeOK
  <2>4. job = [t \in Thread |-> job[t]]
    BY <1>1
  <2>5. tx \in [Txn -> TxStates] /\ logged \in [Txn -> SUBSET Nat]
    BY <1>1 DEF TxStates
  <2> QED
    BY <1>1, <2>1, <2>2, <2>3, <2>4, <2>5 DEF WalTypeOK, TxStates
<1>3. CallInv
  BY <1>1 DEF CallInv, CallOK, Thread
<1>4. DOMAIN FullLog = {}
  <2>1. FullLog = LogIn(Full) /\ DOMAIN Full = DOMAIN files \cup {seg + 1} /\ Full[seg + 1] = current
    BY <1>2, FullLogIs
  <2>2. DOMAIN files = {}
    BY <1>1
  <2>3. ASSUME NEW p \in DOMAIN FullLog PROVE FALSE
    <3>1. p[1] \in DOMAIN Full /\ p[2] \in Readable(Full[p[1]])
      BY <2>1, LogPlaces
    <3>2. p[2] \in Readable(<<>>)
      BY <1>1, <2>1, <2>2, <3>1
    <3> QED
      BY <3>2, EmptyFrames
  <2> QED
    BY <2>3
<1>5. \A t \in Thread : ~ Appending(t)
  BY <1>1 DEF Appending, Idle
<1>6. LsnInv
  BY <1>4, <1>5 DEF LsnInv, LsnsDistinct
<1>7. ASSUME NEW x \in Txn PROVE TxnOK(x)
  <2>1. OfTxn(FullLog, x) = {} /\ \A T : Of(FullLog, x, T) = {}
    BY <1>4 DEF OfTxn, Of
  <2>2. InOrder(FullLog, x) /\ Complete(FullLog, x, logged[x])
    BY <2>1 DEF InOrder, Complete, Lsns
  <2>3. tx[x] = "new" /\ logged[x] = {} /\ ~ Appending(x)
    BY <1>1, <1>5 DEF Thread
  <2> QED
    BY <2>1, <2>2, <2>3 DEF TxnOK
<1> QED
  BY <1>2, <1>3, <1>6, <1>7 DEF WalInv, TxnInv

LEMMA WalStep == WalInv /\ [WalNext]_walVars => WalInv'
<1> SUFFICES ASSUME WalInv, [WalNext]_walVars PROVE WalInv'
  OBVIOUS
<1>0. WalTypeOK /\ CallInv /\ LsnInv /\ TxnInv
  BY DEF WalInv
<1>1. CASE UNCHANGED walVars
  <2>1. /\ files' = files /\ current' = current /\ synced' = synced /\ seg' = seg /\ lsn' = lsn
        /\ job' = job /\ tx' = tx /\ logged' = logged /\ gone' = gone
    BY <1>1 DEF walVars, fileVars, counterVars, txnVars
  <2>2. FullLog' = FullLog
    BY <2>1, SameLog
  <2>3. WalTypeOK'
    BY <1>0, <2>1 DEF WalTypeOK, JobTypeOK
  <2>4. CallInv'
    BY <1>0, <2>1, CallOther DEF CallInv
  <2>5. LsnInv'
    BY <1>0, <2>1, <2>2 DEF LsnInv, Appending
  <2>6. TxnInv'
    BY <1>0, <2>1, <2>2, TxnSame DEF TxnInv, Appending
  <2> QED
    BY <2>3, <2>4, <2>5, <2>6 DEF WalInv
<1>2. CASE WalNext
  <2>1. CallInv'
    BY <1>0, <1>2, CallInvNext
  <2>2. CASE \E x \in Txn : LogBegin(x) \/ LogData(x) \/ LogCommit(x) \/ LogAbort(x)
    BY <1>0, <1>2, <2>1, <2>2, CallTypeNext, CallLogInv DEF WalInv
  <2>3. CASE LogCheckpoint
    BY <1>0, <1>2, <2>1, <2>3, CallTypeNext, CheckpointInv DEF WalInv
  <2>4. ASSUME NEW t \in Thread,
               \/ AppendFull(t) \/ Rotate(t) \/ Write(t) \/ WriteError(t) \/ Flush(t) \/ FlushError(t)
        PROVE  WalInv'
    <3>1. WalTypeOK'
      BY <1>0, <2>4, ThreadTypeNext
    <3>2. LsnInv' /\ TxnInv'
      BY <2>4, AppendFullInv, RotateInv, WriteInv, ErrorInv, FlushInv
    <3> QED
      BY <2>1, <3>1, <3>2 DEF WalInv
  <2>5. CASE \E n \in DOMAIN files : Truncate(n)
    BY <1>0, <2>1, <2>5, TruncateType, TruncateInv DEF WalInv
  <2>6. CASE \E n \in 0..Len(current), torn \in BOOLEAN : CrashRestart(n, torn)
    BY <1>0, <2>1, <2>6, CrashType, CrashInv DEF WalInv
  <2> QED
    BY <1>2, <2>2, <2>3, <2>4, <2>5, <2>6 DEF WalNext
<1> QED
  BY <1>1, <1>2

\* The calls, the LSNs and what the log holds of each transaction are as WalInv
\* says in every state of the log, crashes included.
THEOREM WalInvariant == WalSpec => []WalInv
<1>1. WalInit => WalInv
  BY WalStart
<1>2. WalInv /\ [WalNext]_walVars => WalInv'
  BY WalStep
<1> QED
  BY <1>1, <1>2, PTL DEF WalSpec

\* What a crash leaves of the log has a transaction's records in order, and all
\* of its data with its commit.
LEMMA SurvivingLog ==
    ASSUME WalInv, NEW n \in Surviving
    PROVE  /\ LogType(LogOf(n)) /\ LsnsDistinct(LogOf(n))
           /\ \A x \in Txn \ gone : InOrder(LogOf(n), x) /\ Complete(LogOf(n), x, logged[x])
           /\ \A p \in DOMAIN LogOf(n) : p \in DOMAIN FullLog /\ LogOf(n)[p] = FullLog[p]
           /\ \A p \in DOMAIN FullLog :
                p[1] \in DOMAIN files \/ p[2] <= synced => p \in DOMAIN LogOf(n)
<1>1. WalTypeOK /\ LsnInv /\ TxnInv /\ n \in 0..Len(current) /\ synced \in Nat /\ synced <= n
      /\ n \in Nat
  <2>1. synced \in 0..Len(current) /\ Len(current) \in Nat
    BY FullLogIs DEF WalInv, WalTypeOK
  <2> QED
    BY <2>1 DEF WalInv, Surviving
<1>2. /\ LogType(LogOf(n))
      /\ \A p \in DOMAIN LogOf(n) : p \in DOMAIN FullLog /\ LogOf(n)[p] = FullLog[p]
      /\ \A p \in DOMAIN FullLog :
           p[1] \in DOMAIN files \/ p[2] <= n => p \in DOMAIN LogOf(n)
  BY <1>1, CutLog
<1>3. PICK m : PartOf(LogOf(n), FullLog, m) /\ \A x : HasBefore(LogOf(n), FullLog, m, x)
  BY <1>1, CutLog
<1>4. LsnsDistinct(LogOf(n))
  BY <1>1, <1>3, PartDistinct DEF LsnInv
<1>5. ASSUME NEW x \in Txn \ gone
      PROVE  InOrder(LogOf(n), x) /\ Complete(LogOf(n), x, logged[x])
  <2>1. InOrder(FullLog, x) /\ Complete(FullLog, x, logged[x])
    BY <1>1 DEF TxnInv, TxnOK
  <2> QED
    BY <1>3, <2>1, PartInOrder, PartComplete
<1>6. \A p \in DOMAIN FullLog : p[2] \in Nat
  BY <1>1, FullLogIs DEF LogType
<1>7. ASSUME NEW p \in DOMAIN FullLog, p[1] \in DOMAIN files \/ p[2] <= synced
      PROVE  p \in DOMAIN LogOf(n)
  <2>1. p[2] <= synced => p[2] <= n
    BY <1>1, <1>6
  <2> QED
    BY <1>2, <1>7, <2>1
<1> QED
  BY <1>2, <1>4, <1>5, <1>7

LEMMA RedoFromInv == WalInv => RedoExact
<1> SUFFICES ASSUME WalInv PROVE RedoExact
  OBVIOUS
<1>1. tx \in [Txn -> TxStates] /\ TxnInv
  BY DEF WalInv, WalTypeOK, TxStates
<1>2. ASSUME NEW x \in Txn \ gone, tx[x] = "committed", NEW n \in Surviving
      PROVE  x \in DOMAIN RecoverFrom(LogOf(n)).redo /\ RecoverFrom(LogOf(n)).redo[x] = logged[x]
  <2>1. PICK p \in Of(FullLog, x, {"commit"}) : p[1] \in DOMAIN files \/ p[2] <= synced
    BY <1>1, <1>2 DEF TxnInv, TxnOK
  <2>2. p \in DOMAIN FullLog /\ FullLog[p].tx = x /\ FullLog[p].type = "commit"
    BY <2>1 DEF Of
  <2>3. p \in DOMAIN LogOf(n) /\ LogOf(n)[p] = FullLog[p]
    BY <2>1, <2>2, SurvivingLog
  <2>4. p \in Of(LogOf(n), x, {"commit"})
    BY <2>2, <2>3 DEF Of
  <2>5. LogType(LogOf(n)) /\ InOrder(LogOf(n), x) /\ Complete(LogOf(n), x, logged[x])
    BY SurvivingLog
  <2> QED
    BY <2>4, <2>5, RecoveredCommit
<1>3. CommittedIsRedone
  BY <1>2 DEF CommittedIsRedone, Recoveries
<1>4. ASSUME NEW n \in Surviving, NEW x \in DOMAIN RecoverFrom(LogOf(n)).redo, x \notin gone
      PROVE  /\ tx[x] \in {"committing", "committed", "failed"}
             /\ RecoverFrom(LogOf(n)).redo[x] = logged[x]
  <2>1. x \in Txn /\ Of(LogOf(n), x, {"commit"}) # {}
    BY RecoveredRedo
  <2>2. PICK p \in DOMAIN LogOf(n) : LogOf(n)[p].tx = x /\ LogOf(n)[p].type = "commit"
    BY <2>1 DEF Of
  <2>3. p \in DOMAIN FullLog /\ FullLog[p] = LogOf(n)[p]
    BY SurvivingLog
  <2>4. p \in Of(FullLog, x, {"commit"}) /\ p \in Of(FullLog, x, {"commit", "abort"}) /\ p \in OfTxn(FullLog, x)
    BY <2>2, <2>3 DEF Of, OfTxn
  <2>5. TxnOK(x) /\ tx[x] \in TxStates
    BY <1>1, <1>4, <2>1 DEF TxnInv
  <2>6. tx[x] \in {"committing", "committed", "failed"}
    BY <2>4, <2>5 DEF TxnOK, TxStates
  <2>7. LogType(LogOf(n)) /\ InOrder(LogOf(n), x) /\ Complete(LogOf(n), x, logged[x])
    BY <1>4, <2>1, SurvivingLog
  <2> QED
    BY <2>1, <2>6, <2>7, RecoveredCommit
<1>5. RedoIsWhole
  BY <1>4, SurvivingLog DEF RedoIsWhole
<1> QED
  BY <1>3, <1>5 DEF RedoExact

\* RedoExact: whatever a crash leaves of the log, recovery redoes the
\* transactions whose log_commit has returned, each with all it logged, and
\* besides them only one that asked for its commit.
THEOREM RedoIsExact == WalSpec => []RedoExact
BY WalInvariant, RedoFromInv, PTL

LEMMA UndoFromInv == WalInv => UndoComplete
<1> SUFFICES ASSUME WalInv, NEW n \in Surviving, NEW x \in Txn \ gone,
                    Of(LogOf(n), x, {"data"}) # {}, Of(LogOf(n), x, {"commit", "abort"}) = {}
             PROVE  x \in RecoverFrom(LogOf(n)).incomplete
  BY DEF UndoComplete
<1>1. InOrder(LogOf(n), x)
  BY SurvivingLog
<1> QED
  BY <1>1, RecoveredUndo

\* UndoComplete: a transaction of which the log holds a change, and neither
\* commit nor abort, is reported for rollback.
THEOREM UndoIsComplete == WalSpec => []UndoComplete
BY WalInvariant, UndoFromInv, PTL
=============================================================================
