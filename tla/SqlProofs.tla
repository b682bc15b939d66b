------------------------------ MODULE SqlProofs ------------------------------
(***************************************************************************)
(* Theorems about the SQL engine.  SqlEngine, for any requests, any keys   *)
(* and any values of the bounds: unique keys, scans that see the live      *)
(* rows, acknowledged statements in the file, and transactions that are    *)
(* undone as a whole.  QueryOps, for any tables, batch sizes and limits:   *)
(* what a join returns.                                                    *)
(***************************************************************************)
EXTENDS SqlEngine, QueryOps, FiniteSetTheorems, SequenceTheorems, TLAPS

-----------------------------------------------------------------------------
(* Rows.                                                                    *)

\* While no restart has set the clock back, the snapshot hides no live row and
\* shows no deleted one.
LEMMA VisibleIsLive ==
    ASSUME ClockInv, SqlTypeOK, NEW r \in Row, r.created <= clock, r.deleted <= clock
    PROVE  IsRowVisible(r) <=> Live(r)
<1>1. r.created \in Nat /\ r.deleted \in Nat /\ clock \in Nat
  BY DEF Row, SqlTypeOK
<1>2. snap = None \/ snap = clock
  BY DEF ClockInv
<1> QED
  BY <1>1, <1>2 DEF IsRowVisible, Live

\* What insert_rows does with one row.
LEMMA RowInserted ==
    ASSUME SqlTypeOK, ClockInv, NEW rs, IsTable(rs), NEW k \in Key, NEW n
    PROVE  LET s == Insert(rs, k, n)
           IN  /\ IsTable(s.rows)
               /\ WithinClock(rs) => WithinClock(s.rows)
               /\ WithinClock(rs) /\ KeysUnique(rs) => KeysUnique(s.rows)
<1> DEFINE new == <<ops + 1, n>>
           added == [p \in DOMAIN rs \cup {new} |-> IF p \in DOMAIN rs THEN rs[p] ELSE NewRow(k)]
<1>1. NewRow(k) \in Row /\ NewRow(k).created = clock /\ NewRow(k).deleted = 0 /\ NewRow(k).key = k
  BY DEF NewRow, Row, SqlTypeOK
<1>2. CASE KeyTaken(rs, k)
  BY <1>2 DEF Insert
<1>3. CASE ~ KeyTaken(rs, k)
  <2>1. Insert(rs, k, n).rows = added
    BY <1>3 DEF Insert
  <2>2. DOMAIN added = DOMAIN rs \cup {new}
    OBVIOUS
  <2>3. \A p \in DOMAIN rs : added[p] = rs[p] /\ rs[p] \in Row
    BY DEF IsTable
  <2>4. \A p \in DOMAIN added : p \in DOMAIN rs \/ (p = new /\ added[p] = NewRow(k))
    OBVIOUS
  <2> HIDE DEF added, new
  <2>5. IsTable(added)
    <3>1. added = [p \in DOMAIN added |-> added[p]]
      BY DEF added
    <3>2. \A p \in DOMAIN added : added[p] \in Row
      BY <2>3, <2>4, <1>1
    <3> QED
      BY <3>1, <3>2 DEF IsTable
  <2>6. ASSUME WithinClock(rs) PROVE WithinClock(added)
    <3> SUFFICES ASSUME NEW p \in DOMAIN added
                 PROVE  added[p].created <= clock /\ added[p].deleted <= clock
      BY DEF WithinClock
    <3>1. CASE p \in DOMAIN rs
      BY <3>1, <2>3, <2>6 DEF WithinClock
    <3>2. CASE added[p] = NewRow(k)
      BY <3>2, <1>1 DEF SqlTypeOK
    <3> QED
      BY <3>1, <3>2, <2>4
  <2>7. ASSUME WithinClock(rs), KeysUnique(rs) PROVE KeysUnique(added)
    <3>1. \A p \in DOMAIN rs : Live(rs[p]) => rs[p].key # k
      <4> SUFFICES ASSUME NEW p \in DOMAIN rs, Live(rs[p]), rs[p].key = k PROVE FALSE
        OBVIOUS
      <4>1. IsRowVisible(rs[p])
        BY <2>3, <2>7, VisibleIsLive DEF WithinClock
      <4> QED
        BY <4>1, <1>3 DEF KeyTaken
    <3> SUFFICES ASSUME NEW p \in DOMAIN added, NEW p2 \in DOMAIN added,
                        Live(added[p]), Live(added[p2]), added[p].key = added[p2].key
                 PROVE  p = p2 \/ added[p].moved \/ added[p2].moved
      BY DEF KeysUnique
    <3>2. CASE p \in DOMAIN rs /\ p2 \in DOMAIN rs
      BY <3>2, <2>3, <2>7 DEF KeysUnique
    <3>3. CASE p \in DOMAIN rs /\ added[p2] = NewRow(k) /\ p2 = new
      BY <3>3, <3>1, <2>3, <1>1
    <3>4. CASE p2 \in DOMAIN rs /\ added[p] = NewRow(k) /\ p = new
      BY <3>4, <3>1, <2>3, <1>1
    <3> QED
      BY <3>2, <3>3, <3>4, <2>4
  <2> QED
    BY <2>1, <2>5, <2>6, <2>7
<1> QED
  BY <1>2, <1>3

\* A statement that gives rows other values or marks them as deleted, removes
\* some of them and tells of every key it assigns, leaves no two live rows with
\* a key that did not have it before.
LEMMA ChangeRows ==
    ASSUME NEW rs, NEW to,
           DOMAIN to \subseteq DOMAIN rs,
           \A p \in DOMAIN to : Live(to[p]) =>
              Live(rs[p]) /\ (to[p].moved \/ (to[p].key = rs[p].key /\ to[p].moved = rs[p].moved)),
           KeysUnique(rs)
    PROVE  KeysUnique(to)
BY DEF KeysUnique

\* What a row keeps when its value is set, and when it is marked as deleted.
LEMMA ValueSet ==
    ASSUME NEW r \in Row, NEW v \in Nat, NEW t, t = r \/ t = [r EXCEPT !.val = v]
    PROVE  /\ t \in Row /\ t.key = r.key /\ t.created = r.created /\ t.deleted = r.deleted
           /\ t.moved = r.moved
<1>1. CASE t = r
  BY <1>1 DEF Row
<1>2. CASE t = [r EXCEPT !.val = v]
  BY <1>2 DEF Row
<1> QED
  BY <1>1, <1>2

LEMMA DeletedSet ==
    ASSUME NEW r \in Row, NEW v \in Nat, NEW t, t = r \/ t = [r EXCEPT !.deleted = v]
    PROVE  /\ t \in Row /\ t.key = r.key /\ t.created = r.created /\ t.moved = r.moved
           /\ t.deleted = r.deleted \/ t.deleted = v
<1>1. CASE t = r
  BY <1>1 DEF Row
<1>2. CASE t = [r EXCEPT !.deleted = v]
  BY <1>2 DEF Row
<1> QED
  BY <1>1, <1>2

LEMMA KeySet ==
    ASSUME NEW r \in Row, ops \in Nat, NEW l \in Key, NEW t, t = r \/ t = Moved(r, l)
    PROVE  /\ t \in Row /\ t.created = r.created /\ t.deleted = r.deleted
           /\ t = r \/ t.moved
<1>1. CASE t = r
  BY <1>1
<1>2. CASE t = Moved(r, l)
  <2> DEFINE r1 == [r EXCEPT !.key = l]
             r2 == [r1 EXCEPT !.val = ops + 1]
  <2>1. r1 \in Row /\ r1.created = r.created /\ r1.deleted = r.deleted
    BY DEF Row
  <2>2. r2 = [r1 EXCEPT !.val = ops + 1] /\ t = [r2 EXCEPT !.moved = TRUE]
    BY <1>2 DEF Moved
  <2> HIDE DEF r1, r2
  <2>3. r2 \in Row /\ r2.created = r1.created /\ r2.deleted = r1.deleted
    BY <2>1, <2>2 DEF Row
  <2>4. t \in Row /\ t.created = r2.created /\ t.deleted = r2.deleted /\ t.moved
    BY <2>2, <2>3 DEF Row
  <2> QED
    BY <2>1, <2>3, <2>4
<1> QED
  BY <1>1, <1>2

\* Every statement keeps the rows a table whose versions are within the clock
\* and whose keys are unique.
LEMMA StatementKeeps ==
    ASSUME SqlTypeOK, ClockInv, NEW s \in Statement
    PROVE  /\ IsTable(s.rows)
           /\ WithinClock(rows) => WithinClock(s.rows)
           /\ WithinClock(rows) /\ KeysUnique(rows) => KeysUnique(s.rows)
<1>1. IsTable(rows) /\ clock \in Nat \ {0} /\ ops \in Nat
  BY DEF SqlTypeOK
<1>2. \A p \in DOMAIN rows : /\ rows[p] \in Row /\ rows[p].key \in Key
                             /\ rows[p].created \in Nat /\ rows[p].deleted \in Nat
  BY <1>1 DEF IsTable, Row
<1>3. CASE \E k \in Key : s = Insert(rows, k, 1)
  BY <1>3, <1>1, RowInserted
<1>4. CASE \E k \in Key \X Key : s = InsertRows(k[1], k[2])
  <2>1. PICK k1 \in Key, k2 \in Key : s = InsertRows(k1, k2)
    BY <1>4
  <2> DEFINE one == Insert(rows, k1, 1)
  <2>2. /\ IsTable(one.rows)
        /\ WithinClock(rows) => WithinClock(one.rows)
        /\ WithinClock(rows) /\ KeysUnique(rows) => KeysUnique(one.rows)
    BY <1>1, RowInserted
  <2>3. s = one \/ s = Insert(one.rows, k2, 2)
    BY <2>1 DEF InsertRows
  <2> HIDE DEF one
  <2>4. LET t == Insert(one.rows, k2, 2)
        IN  /\ IsTable(t.rows)
            /\ WithinClock(one.rows) => WithinClock(t.rows)
            /\ WithinClock(one.rows) /\ KeysUnique(one.rows) => KeysUnique(t.rows)
    BY <2>2, RowInserted
  <2> QED
    BY <2>2, <2>3, <2>4
<1>5. CASE \E k \in Key : s = [rows |-> UpdateRows(k), ok |-> TRUE]
  <2>1. PICK k \in Key : s = [rows |-> UpdateRows(k), ok |-> TRUE]
    BY <1>5
  <2> DEFINE to == UpdateRows(k)
  <2>2. DOMAIN to = DOMAIN rows /\ to = [p \in DOMAIN rows |-> to[p]]
    BY DEF UpdateRows
  <2>3. \A p \in DOMAIN rows : to[p] = rows[p] \/ to[p] = [rows[p] EXCEPT !.val = ops + 1]
    BY DEF UpdateRows
  <2> HIDE DEF to
  <2>4. \A p \in DOMAIN rows : /\ to[p] \in Row
                               /\ to[p].key = rows[p].key /\ to[p].created = rows[p].created
                               /\ to[p].deleted = rows[p].deleted /\ to[p].moved = rows[p].moved
    <3> SUFFICES ASSUME NEW p \in DOMAIN rows
                 PROVE  /\ to[p] \in Row
                        /\ to[p].key = rows[p].key /\ to[p].created = rows[p].created
                        /\ to[p].deleted = rows[p].deleted /\ to[p].moved = rows[p].moved
      OBVIOUS
    <3> DEFINE r == rows[p]
    <3>1. r \in Row /\ ops + 1 \in Nat /\ (to[p] = r \/ to[p] = [r EXCEPT !.val = ops + 1])
      BY <2>3, <1>1, <1>2
    <3> HIDE DEF r
    <3>2. /\ to[p] \in Row
          /\ to[p].key = r.key /\ to[p].created = r.created /\ to[p].deleted = r.deleted
          /\ to[p].moved = r.moved
      BY <3>1, ValueSet
    <3> QED
      BY <3>2 DEF r
  <2>5. IsTable(to)
    BY <2>2, <2>4 DEF IsTable
  <2>6. WithinClock(rows) => WithinClock(to)
    BY <2>2, <2>4 DEF WithinClock
  <2>7. KeysUnique(rows) => KeysUnique(to)
    BY <2>2, <2>4, ChangeRows DEF Live
  <2>8. s.rows = to
    BY <2>1 DEF to
  <2> QED
    BY <2>5, <2>6, <2>7, <2>8
<1>6. CASE \E k \in Key : s = [rows |-> DeleteRows(k), ok |-> TRUE]
  <2>1. PICK k \in Key : s = [rows |-> DeleteRows(k), ok |-> TRUE]
    BY <1>6
  <2> DEFINE m == Marked(k)
             to == DeleteRows(k)
  <2>2. \A p \in DOMAIN rows : m[p] = rows[p] \/ m[p] = [rows[p] EXCEPT !.deleted = clock]
    BY DEF Marked
  <2>3. /\ DOMAIN to \subseteq DOMAIN rows /\ to = [p \in DOMAIN to |-> to[p]]
        /\ \A p \in DOMAIN to : to[p] = m[p]
    BY DEF DeleteRows
  <2> HIDE DEF m, to
  <2>4. \A p \in DOMAIN rows : /\ m[p] \in Row
                               /\ m[p].key = rows[p].key /\ m[p].created = rows[p].created
                               /\ m[p].moved = rows[p].moved
                               /\ m[p].deleted = rows[p].deleted \/ m[p].deleted = clock
    <3> SUFFICES ASSUME NEW p \in DOMAIN rows
                 PROVE  /\ m[p] \in Row
                        /\ m[p].key = rows[p].key /\ m[p].created = rows[p].created
                        /\ m[p].moved = rows[p].moved
                        /\ m[p].deleted = rows[p].deleted \/ m[p].deleted = clock
      OBVIOUS
    <3> DEFINE r == rows[p]
    <3>1. r \in Row /\ clock \in Nat /\ (m[p] = r \/ m[p] = [r EXCEPT !.deleted = clock])
      BY <2>2, <1>1, <1>2
    <3> HIDE DEF r
    <3>2. /\ m[p] \in Row
          /\ m[p].key = r.key /\ m[p].created = r.created /\ m[p].moved = r.moved
          /\ m[p].deleted = r.deleted \/ m[p].deleted = clock
      BY <3>1, DeletedSet
    <3> QED
      BY <3>2 DEF r
  <2>5. IsTable(to)
    BY <2>3, <2>4 DEF IsTable
  <2>6. WithinClock(rows) => WithinClock(to)
    BY <2>3, <2>4, <1>1 DEF WithinClock
  <2>7. KeysUnique(rows) => KeysUnique(to)
    <3>1. \A p \in DOMAIN to : Live(to[p]) =>
             Live(rows[p]) /\ to[p].key = rows[p].key /\ to[p].moved = rows[p].moved
      BY <2>3, <2>4, <1>1 DEF Live
    <3> QED
      BY <3>1, <2>3, ChangeRows
  <2>8. s.rows = to
    BY <2>1 DEF to
  <2> QED
    BY <2>5, <2>6, <2>7, <2>8
<1>7. CASE \E k \in Key \X Key : s = [rows |-> AssignKey(k[1], k[2]), ok |-> TRUE]
  <2>1. PICK k \in Key, l \in Key : s = [rows |-> AssignKey(k, l), ok |-> TRUE]
    BY <1>7
  <2> DEFINE to == AssignKey(k, l)
  <2>2. DOMAIN to = DOMAIN rows /\ to = [p \in DOMAIN rows |-> to[p]]
    BY DEF AssignKey
  <2>3. \A p \in DOMAIN rows :
           to[p] = rows[p] \/ to[p] = Moved(rows[p], l)
    BY DEF AssignKey
  <2> HIDE DEF to
  <2>4. \A p \in DOMAIN rows : /\ to[p] \in Row
                               /\ to[p].created = rows[p].created /\ to[p].deleted = rows[p].deleted
                               /\ to[p] = rows[p] \/ to[p].moved
    <3> SUFFICES ASSUME NEW p \in DOMAIN rows
                 PROVE  /\ to[p] \in Row
                        /\ to[p].created = rows[p].created /\ to[p].deleted = rows[p].deleted
                        /\ to[p] = rows[p] \/ to[p].moved
      OBVIOUS
    <3> DEFINE r == rows[p]
    <3>1. r \in Row /\ ops \in Nat /\ (to[p] = r \/ to[p] = Moved(r, l))
      BY <2>3, <1>1, <1>2
    <3> HIDE DEF r
    <3>2. /\ to[p] \in Row /\ to[p].created = r.created /\ to[p].deleted = r.deleted
          /\ to[p] = r \/ to[p].moved
      BY <3>1, KeySet
    <3> QED
      BY <3>2 DEF r
  <2>5. IsTable(to)
    BY <2>2, <2>4 DEF IsTable
  <2>6. WithinClock(rows) => WithinClock(to)
    BY <2>2, <2>4 DEF WithinClock
  <2>7. KeysUnique(rows) => KeysUnique(to)
    <3>1. \A p \in DOMAIN to : Live(to[p]) =>
             Live(rows[p]) /\ (to[p].moved \/ (to[p].key = rows[p].key /\ to[p].moved = rows[p].moved))
      BY <2>2, <2>4 DEF Live
    <3> QED
      BY <3>1, <2>2, ChangeRows
  <2>8. s.rows = to
    BY <2>1 DEF to
  <2> QED
    BY <2>5, <2>6, <2>7, <2>8
<1> QED
  BY <1>3, <1>4, <1>5, <1>6, <1>7 DEF Statement

-----------------------------------------------------------------------------
(* The invariant.                                                           *)

LEMMA SqlInit == Init => SqlInv
<1> SUFFICES ASSUME Init PROVE SqlInv
  OBVIOUS
<1>1. DOMAIN NoRows = {} /\ IsTable(NoRows)
  BY DEF NoRows, IsTable
<1> QED
  <2>1. SqlTypeOK
    <3>1. \A v : LET f == [c \in Client |-> v] IN DOMAIN f = Client /\ f = [c \in Client |-> f[c]]
      OBVIOUS
    <3>2. /\ rows = NoRows /\ disk = NoRows /\ clock = 1 /\ ops = 0 /\ crashes = 0
          /\ skewed = FALSE /\ pc \in [Client -> {"idle"}]
          /\ dirty \in [Client -> BOOLEAN] /\ alone \in [Client -> BOOLEAN]
      BY DEF Init
    <3>3. /\ DOMAIN saved = Client /\ saved = [c \in Client |-> saved[c]]
          /\ DOMAIN image = Client /\ image = [c \in Client |-> image[c]]
          /\ DOMAIN base = Client /\ base = [c \in Client |-> base[c]]
      BY <3>1 DEF Init
    <3>4. pc \in [Client -> Phases] /\ \A c \in Client : pc[c] = "idle"
      BY <3>2 DEF Phases
    <3>5. clock \in Nat \ {0} /\ ops \in Nat /\ crashes \in Nat
      BY <3>2
    <3>6. \A c \in Client : pc[c] # "txn" /\ pc[c] # "write"
      BY <3>4
    <3>7. skewed \in BOOLEAN /\ IsTable(rows) /\ IsTable(disk)
      BY <1>1, <3>2
    <3> QED
      BY <3>2, <3>3, <3>4, <3>5, <3>6, <3>7, Zenon DEF SqlTypeOK
  <2>2. ClockInv /\ KeysInv /\ AloneInv
    BY <1>1 DEF Init, ClockInv, KeysInv, AloneInv, WithinClock, KeysUnique, Running
  <2> QED
    BY <2>1, <2>2 DEF SqlInv

\* Types.
LEMMA SqlTypeStep == SqlInv /\ [Next]_vars => SqlTypeOK'
<1> SUFFICES ASSUME SqlInv, [Next]_vars PROVE SqlTypeOK'
  OBVIOUS
<1> USE DEF SqlInv
<1>1. ASSUME NEW c \in Client, Autocommit(c) PROVE SqlTypeOK'
  <2>1. PICK s \in Statement : /\ rows' = s.rows
                               /\ dirty' = [dirty EXCEPT ![c] = s.ok]
                               /\ Goto(c, IF s.ok THEN "persist" ELSE "idle")
    BY <1>1 DEF Autocommit
  <2>2. IsTable(rows')
    BY <2>1, StatementKeeps
  <2>3. s.ok \in BOOLEAN
    <3>1. \A rs, k, n : Insert(rs, k, n).ok \in BOOLEAN
      BY DEF Insert
    <3>2. \A k1, k2 : InsertRows(k1, k2).ok \in BOOLEAN
      BY <3>1 DEF InsertRows
    <3>3. \A k \in Key : /\ [rows |-> UpdateRows(k), ok |-> TRUE].ok \in BOOLEAN
                         /\ [rows |-> DeleteRows(k), ok |-> TRUE].ok \in BOOLEAN
      OBVIOUS
    <3>4. \A k \in Key \X Key : [rows |-> AssignKey(k[1], k[2]), ok |-> TRUE].ok \in BOOLEAN
      OBVIOUS
    <3>5. CASE s \in {Insert(rows, k, 1) : k \in Key}
      BY <3>5, <3>1
    <3>6. CASE s \in {InsertRows(k[1], k[2]) : k \in Key \X Key}
      BY <3>6, <3>2, Zenon
    <3>7. CASE s \in {[rows |-> AssignKey(k[1], k[2]), ok |-> TRUE] : k \in Key \X Key}
      BY <3>7, <3>4, Zenon
    <3> QED
      BY <3>3, <3>5, <3>6, <3>7 DEF Statement
  <2>4. pc' = [pc EXCEPT ![c] = IF s.ok THEN "persist" ELSE "idle"]
    BY <2>1 DEF Goto
  <2>5. /\ UNCHANGED <<clock, snap, disk, saved, image, crashes, base, skewed>>
        /\ ops' = ops + 1
        /\ alone' \in [Client -> BOOLEAN]
    BY <1>1 DEF Autocommit, Enter, Running, SqlTypeOK
  <2>6. pc' \in [Client -> Phases] /\ dirty' \in [Client -> BOOLEAN]
    BY <2>1, <2>3, <2>4 DEF SqlTypeOK, Phases
  <2>7. \A d \in Client : pc'[d] \in {"txn", "write"} => pc[d] = pc'[d]
    BY <2>4 DEF SqlTypeOK, Phases
  <2> QED
    BY <2>2, <2>5, <2>6, <2>7 DEF SqlTypeOK
<1>2. ASSUME NEW c \in Client, Begin(c) PROVE SqlTypeOK'
  <2>1. /\ UNCHANGED <<rows, clock, disk, dirty, image, crashes, skewed>>
        /\ ops' = ops + 1
        /\ saved' = [saved EXCEPT ![c] = rows]
        /\ base' = [base EXCEPT ![c] = [rows |-> rows, disk |-> disk]]
        /\ pc' = [pc EXCEPT ![c] = "txn"]
        /\ alone' \in [Client -> BOOLEAN]
    BY <1>2 DEF Begin, Goto, Enter, Running, SqlTypeOK
  <2>2. ops' \in Nat /\ pc' \in [Client -> Phases]
    BY <2>1 DEF SqlTypeOK, Phases
  <2>3. /\ DOMAIN saved' = Client /\ saved' = [d \in Client |-> saved'[d]]
        /\ DOMAIN base' = Client /\ base' = [d \in Client |-> base'[d]]
    BY <2>1 DEF SqlTypeOK
  <2>4. ASSUME NEW d \in Client
        PROVE  /\ pc'[d] = "txn" => IsTable(saved'[d])
               /\ pc'[d] = "write" => IsTable(image'[d])
    BY <2>1, <2>4 DEF SqlTypeOK
  <2> QED
    BY <2>1, <2>2, <2>3, <2>4, Zenon DEF SqlTypeOK
<1>3. ASSUME NEW c \in Client, TxnStatement(c) PROVE SqlTypeOK'
  <2>1. PICK s \in Statement :
             IF s.ok
               THEN /\ rows' = s.rows
                    /\ dirty' = [dirty EXCEPT ![c] = TRUE]
                    /\ UNCHANGED <<pc, saved, snap, clock>>
               ELSE /\ Restore(c)
                    /\ Goto(c, "undone")
    BY <1>3 DEF TxnStatement
  <2>2. IsTable(s.rows)
    BY StatementKeeps
  <2>3. /\ UNCHANGED <<disk, image, crashes, alone, base, skewed>>
        /\ ops' = ops + 1 /\ pc[c] = "txn"
    BY <1>3 DEF TxnStatement, ghostVars
  <2>4. CASE s.ok
    <3>1. rows' = s.rows /\ dirty' = [dirty EXCEPT ![c] = TRUE] /\ UNCHANGED <<pc, saved, clock>>
      BY <2>1, <2>4
    <3>2. dirty' \in [Client -> BOOLEAN] /\ ops' \in Nat
      BY <2>3, <3>1 DEF SqlTypeOK
    <3> QED
      BY <2>2, <2>3, <3>1, <3>2, Zenon DEF SqlTypeOK
  <2>5. CASE ~ s.ok
    <3>1. /\ rows' = saved[c] /\ IsTable(saved[c])
          /\ saved' = [saved EXCEPT ![c] = None] /\ dirty' = [dirty EXCEPT ![c] = FALSE]
          /\ clock' = clock /\ pc' = [pc EXCEPT ![c] = "undone"]
      BY <2>1, <2>3, <2>5 DEF Restore, Goto, SqlTypeOK
    <3> QED
      BY <2>3, <3>1 DEF SqlTypeOK, Phases
  <2> QED
    BY <2>4, <2>5
<1>4. ASSUME NEW c \in Client, Commit(c) PROVE SqlTypeOK'
  <2>1. /\ UNCHANGED <<rows, disk, dirty, image, ops, crashes, alone, base, skewed>>
        /\ clock' = clock + 1
        /\ saved' = [saved EXCEPT ![c] = None]
        /\ pc' = [pc EXCEPT ![c] = IF dirty[c] THEN "persist" ELSE "next"]
    BY <1>4 DEF Commit, Goto, ghostVars
  <2> QED
    BY <2>1 DEF SqlTypeOK, Phases
<1>5. ASSUME NEW c \in Client, Rollback(c) PROVE SqlTypeOK'
  BY <1>5 DEF Rollback, SqlTypeOK, IsTable, ctxVars, ghostVars, Goto, Enter, Restore, Outside, Phases
<1>6. ASSUME NEW c \in Client, EarlyReturn(c) PROVE SqlTypeOK'
  BY <1>6 DEF EarlyReturn, SqlTypeOK, IsTable, ctxVars, ghostVars, Goto, Enter, Restore, Outside, Phases
<1>7. ASSUME NEW c \in Client, PersistRead(c) PROVE SqlTypeOK'
  BY <1>7 DEF PersistRead, SqlTypeOK, IsTable, ctxVars, ghostVars, Goto, Enter, Restore, Outside, Phases
<1>8. ASSUME NEW c \in Client, PersistWrite(c) PROVE SqlTypeOK'
  BY <1>8 DEF PersistWrite, SqlTypeOK, IsTable, ctxVars, ghostVars, Goto, Enter, Restore, Outside, Phases
<1>13. ASSUME NEW c \in Client, PersistFails(c) PROVE SqlTypeOK'
  BY <1>13 DEF PersistFails, SqlTypeOK, IsTable, ctxVars, ghostVars, Goto, Enter, Restore, Outside, Phases
<1>9. ASSUME NEW c \in Client, Proceed(c) PROVE SqlTypeOK'
  BY <1>9 DEF Proceed, SqlTypeOK, IsTable, ctxVars, ghostVars, Goto, Enter, Restore, Outside, Phases
<1>10. ASSUME NEW c \in Client, Return(c) PROVE SqlTypeOK'
  BY <1>10 DEF Return, SqlTypeOK, IsTable, ctxVars, ghostVars, Goto, Enter, Restore, Outside, Phases
<1>11. CASE Restart
  BY <1>11 DEF Restart, SqlTypeOK, IsTable, ctxVars, ghostVars, Goto, Enter, Restore, Outside, Phases
<1>12. CASE UNCHANGED vars
  BY <1>12 DEF vars, ctxVars, ghostVars, SqlTypeOK, IsTable, ctxVars, ghostVars, Goto, Enter, Restore, Outside, Phases
<1> QED
  BY <1>1, <1>2, <1>3, <1>4, <1>5, <1>6, <1>7, <1>8, <1>9, <1>10, <1>11, <1>12, <1>13 DEF Next

\* Versions and the clock.
LEMMA ClockStep == SqlInv /\ [Next]_vars => ClockInv'
<1> SUFFICES ASSUME SqlInv, [Next]_vars PROVE ClockInv'
  OBVIOUS
<1> USE DEF SqlInv
<1>1. ASSUME NEW c \in Client, Autocommit(c) PROVE ClockInv'
  <2>1. PICK s \in Statement : rows' = s.rows
    BY <1>1 DEF Autocommit
  <2>2. WithinClock(rows) => WithinClock(s.rows)
    BY StatementKeeps
  <2>3. UNCHANGED <<clock, snap, saved, skewed>>
    BY <1>1 DEF Autocommit
  <2>4. \A d \in Client : pc'[d] = "txn" => pc[d] = "txn"
    BY <1>1 DEF Autocommit, Goto, SqlTypeOK
  <2> QED
    BY <2>1, <2>2, <2>3, <2>4 DEF ClockInv, WithinClock
<1>2. ASSUME NEW c \in Client, Begin(c) PROVE ClockInv'
  BY <1>2 DEF Begin, ClockInv, SqlTypeOK, WithinClock, ctxVars, ghostVars, Goto, Enter, Restore, Outside, Phases
<1>3. ASSUME NEW c \in Client, TxnStatement(c) PROVE ClockInv'
  <2>1. PICK s \in Statement :
             IF s.ok
               THEN /\ rows' = s.rows
                    /\ UNCHANGED <<pc, saved, snap, clock>>
               ELSE /\ Restore(c)
                    /\ Goto(c, "undone")
    BY <1>3 DEF TxnStatement
  <2>2. WithinClock(rows) => WithinClock(s.rows)
    BY StatementKeeps
  <2>3. skewed' = skewed /\ pc[c] = "txn"
    BY <1>3 DEF TxnStatement, ghostVars
  <2>4. CASE s.ok
    BY <2>1, <2>2, <2>3, <2>4 DEF ClockInv, WithinClock
  <2>5. CASE ~ s.ok
    <3>1. /\ rows' = saved[c] /\ snap' = None /\ clock' = clock
          /\ \A d \in Client : pc'[d] = "txn" => pc[d] = "txn" /\ saved'[d] = saved[d]
      BY <2>1, <2>5 DEF Restore, Goto, SqlTypeOK
    <3> QED
      BY <2>3, <3>1 DEF ClockInv, WithinClock
  <2> QED
    BY <2>4, <2>5
<1>4. ASSUME NEW c \in Client, Commit(c) PROVE ClockInv'
  <2>1. /\ rows' = rows /\ skewed' = skewed /\ clock' = clock + 1 /\ snap' = None
        /\ \A d \in Client : pc'[d] = "txn" => pc[d] = "txn" /\ saved'[d] = saved[d]
    BY <1>4 DEF Commit, Goto, ghostVars, SqlTypeOK
  <2>2. ASSUME NEW rs, IsTable(rs), WithinClock(rs)
        PROVE  \A p \in DOMAIN rs : rs[p].created <= clock' /\ rs[p].deleted <= clock'
    <3>1. \A p \in DOMAIN rs : rs[p].created \in Nat /\ rs[p].deleted \in Nat
      BY <2>2 DEF IsTable, Row
    <3> QED
      BY <2>1, <2>2, <3>1 DEF WithinClock, SqlTypeOK
  <2>3. /\ IsTable(rows)
        /\ \A d \in Client : pc[d] = "txn" => IsTable(saved[d])
    BY DEF SqlTypeOK
  <2>4. ~ skewed' => /\ WithinClock(rows)
                     /\ \A d \in Client : pc'[d] = "txn" => WithinClock(saved'[d])
    BY <2>1 DEF ClockInv
  <2>5. ~ skewed' => \A p \in DOMAIN rows : rows[p].created <= clock' /\ rows[p].deleted <= clock'
    BY <2>2, <2>3, <2>4
  <2>6. ASSUME ~ skewed', NEW d \in Client, pc'[d] = "txn"
        PROVE  \A p \in DOMAIN saved'[d] :
                   saved'[d][p].created <= clock' /\ saved'[d][p].deleted <= clock'
    <3>1. IsTable(saved[d]) /\ saved'[d] = saved[d] /\ WithinClock(saved[d])
      BY <2>1, <2>3, <2>4, <2>6
    <3> QED
      BY <2>2, <3>1
  <2> QED
    BY <2>1, <2>5, <2>6 DEF ClockInv, WithinClock
<1>5. ASSUME NEW c \in Client, Rollback(c) PROVE ClockInv'
  BY <1>5 DEF Rollback, ClockInv, SqlTypeOK, WithinClock, ctxVars, ghostVars, Goto, Enter, Restore, Outside, Phases
<1>6. ASSUME NEW c \in Client, EarlyReturn(c) PROVE ClockInv'
  BY <1>6 DEF EarlyReturn, ClockInv, SqlTypeOK, WithinClock, ctxVars, ghostVars, Goto, Enter, Restore, Outside, Phases
<1>7. ASSUME NEW c \in Client, PersistRead(c) PROVE ClockInv'
  BY <1>7 DEF PersistRead, ClockInv, SqlTypeOK, WithinClock, ctxVars, ghostVars, Goto, Enter, Restore, Outside, Phases
<1>8. ASSUME NEW c \in Client, PersistWrite(c) PROVE ClockInv'
  BY <1>8 DEF PersistWrite, ClockInv, SqlTypeOK, WithinClock, ctxVars, ghostVars, Goto, Enter, Restore, Outside, Phases
<1>13. ASSUME NEW c \in Client, PersistFails(c) PROVE ClockInv'
  BY <1>13 DEF PersistFails, ClockInv, SqlTypeOK, WithinClock, ctxVars, ghostVars, Goto, Enter, Restore, Outside, Phases
<1>9. ASSUME NEW c \in Client, Proceed(c) PROVE ClockInv'
  BY <1>9 DEF Proceed, ClockInv, SqlTypeOK, WithinClock, ctxVars, ghostVars, Goto, Enter, Restore, Outside, Phases
<1>10. ASSUME NEW c \in Client, Return(c) PROVE ClockInv'
  BY <1>10 DEF Return, ClockInv, SqlTypeOK, WithinClock, ctxVars, ghostVars, Goto, Enter, Restore, Outside, Phases
<1>11. CASE Restart
  <2>1. /\ snap' = None /\ clock' = 1 /\ rows' = disk
        /\ ~ skewed' => \A p \in DOMAIN disk : ~ (disk[p].created > 1) /\ ~ (disk[p].deleted > 1)
        /\ \A d \in Client : pc'[d] # "txn"
    BY <1>11 DEF Restart
  <2>2. \A p \in DOMAIN disk : disk[p].created \in Nat /\ disk[p].deleted \in Nat
    BY DEF SqlTypeOK, IsTable, Row
  <2> QED
    BY <2>1, <2>2 DEF ClockInv, WithinClock
<1>12. CASE UNCHANGED vars
  BY <1>12 DEF vars, ctxVars, ghostVars, ClockInv, SqlTypeOK, WithinClock, ctxVars, ghostVars, Goto, Enter, Restore, Outside, Phases
<1> QED
  BY <1>1, <1>2, <1>3, <1>4, <1>5, <1>6, <1>7, <1>8, <1>9, <1>10, <1>11, <1>12, <1>13 DEF Next

\* Keys.
LEMMA KeysStep == SqlInv /\ [Next]_vars => KeysInv'
<1> SUFFICES ASSUME SqlInv, [Next]_vars PROVE KeysInv'
  OBVIOUS
<1> USE DEF SqlInv
<1>1. ASSUME NEW c \in Client, Autocommit(c) PROVE KeysInv'
  <2>1. PICK s \in Statement : rows' = s.rows
    BY <1>1 DEF Autocommit
  <2>2. WithinClock(rows) /\ KeysUnique(rows) => KeysUnique(s.rows)
    BY StatementKeeps
  <2>3. UNCHANGED <<disk, saved, image, skewed>>
    BY <1>1 DEF Autocommit
  <2>4. \A d \in Client : pc'[d] \in {"txn", "write"} => pc[d] = pc'[d]
    BY <1>1 DEF Autocommit, Goto, SqlTypeOK
  <2> QED
    BY <2>1, <2>2, <2>3, <2>4 DEF KeysInv, ClockInv
<1>2. ASSUME NEW c \in Client, Begin(c) PROVE KeysInv'
  BY <1>2 DEF Begin, KeysInv, KeysUnique, SqlTypeOK, ctxVars, ghostVars, Goto, Enter, Restore, Outside, Phases
<1>3. ASSUME NEW c \in Client, TxnStatement(c) PROVE KeysInv'
  <2>1. PICK s \in Statement :
             IF s.ok
               THEN /\ rows' = s.rows
                    /\ UNCHANGED <<pc, saved, snap, clock>>
               ELSE /\ Restore(c)
                    /\ Goto(c, "undone")
    BY <1>3 DEF TxnStatement
  <2>2. WithinClock(rows) /\ KeysUnique(rows) => KeysUnique(s.rows)
    BY StatementKeeps
  <2>3. UNCHANGED <<disk, image, skewed>> /\ pc[c] = "txn"
    BY <1>3 DEF TxnStatement, ghostVars
  <2>4. CASE s.ok
    BY <2>1, <2>2, <2>3, <2>4 DEF KeysInv, ClockInv
  <2>5. CASE ~ s.ok
    <3>1. /\ rows' = saved[c]
          /\ \A d \in Client : pc'[d] = "txn" => pc[d] = "txn" /\ saved'[d] = saved[d]
          /\ \A d \in Client : pc'[d] = "write" => pc[d] = "write"
      BY <2>1, <2>5 DEF Restore, Goto, SqlTypeOK
    <3> QED
      BY <2>3, <3>1 DEF KeysInv
  <2> QED
    BY <2>4, <2>5
<1>4. ASSUME NEW c \in Client, Commit(c) PROVE KeysInv'
  BY <1>4 DEF Commit, KeysInv, KeysUnique, SqlTypeOK, ctxVars, ghostVars, Goto, Enter, Restore, Outside, Phases
<1>5. ASSUME NEW c \in Client, Rollback(c) PROVE KeysInv'
  BY <1>5 DEF Rollback, KeysInv, KeysUnique, SqlTypeOK, ctxVars, ghostVars, Goto, Enter, Restore, Outside, Phases
<1>6. ASSUME NEW c \in Client, EarlyReturn(c) PROVE KeysInv'
  BY <1>6 DEF EarlyReturn, KeysInv, KeysUnique, SqlTypeOK, ctxVars, ghostVars, Goto, Enter, Restore, Outside, Phases
<1>7. ASSUME NEW c \in Client, PersistRead(c) PROVE KeysInv'
  BY <1>7 DEF PersistRead, KeysInv, KeysUnique, SqlTypeOK, ctxVars, ghostVars, Goto, Enter, Restore, Outside, Phases
<1>8. ASSUME NEW c \in Client, PersistWrite(c) PROVE KeysInv'
  BY <1>8 DEF PersistWrite, KeysInv, KeysUnique, SqlTypeOK, ctxVars, ghostVars, Goto, Enter, Restore, Outside, Phases
<1>13. ASSUME NEW c \in Client, PersistFails(c) PROVE KeysInv'
  BY <1>13 DEF PersistFails, KeysInv, KeysUnique, SqlTypeOK, ctxVars, ghostVars, Goto, Enter, Restore, Outside, Phases
<1>9. ASSUME NEW c \in Client, Proceed(c) PROVE KeysInv'
  BY <1>9 DEF Proceed, KeysInv, KeysUnique, SqlTypeOK, ctxVars, ghostVars, Goto, Enter, Restore, Outside, Phases
<1>10. ASSUME NEW c \in Client, Return(c) PROVE KeysInv'
  BY <1>10 DEF Return, KeysInv, KeysUnique, SqlTypeOK, ctxVars, ghostVars, Goto, Enter, Restore, Outside, Phases
<1>11. CASE Restart
  BY <1>11 DEF Restart, KeysInv, KeysUnique, SqlTypeOK, ctxVars, ghostVars, Goto, Enter, Restore, Outside, Phases
<1>12. CASE UNCHANGED vars
  BY <1>12 DEF vars, ctxVars, ghostVars, KeysInv, KeysUnique, SqlTypeOK, ctxVars, ghostVars, Goto, Enter, Restore, Outside, Phases
<1> QED
  BY <1>1, <1>2, <1>3, <1>4, <1>5, <1>6, <1>7, <1>8, <1>9, <1>10, <1>11, <1>12, <1>13 DEF Next

\* Requests that run alone.
LEMMA AloneStep == SqlInv /\ [Next]_vars => AloneInv'
<1> SUFFICES ASSUME SqlInv, [Next]_vars PROVE AloneInv'
  OBVIOUS
<1> USE DEF SqlInv
<1>1. ASSUME NEW c \in Client, Autocommit(c) PROVE AloneInv'
  <2>1. PICK s \in Statement : Goto(c, IF s.ok THEN "persist" ELSE "idle")
    BY <1>1 DEF Autocommit
  <2>2. pc'[c] \in {"persist", "idle"} /\ \A d \in Client \ {c} : pc'[d] = pc[d]
    BY <2>1 DEF Goto, SqlTypeOK
  <2>3. Enter(c)
    BY <1>1 DEF Autocommit
  <2>4. ASSUME NEW d \in Client, alone'[d], pc'[d] # "idle"
        PROVE  d = c /\ \A e \in Client \ {c} : pc'[e] = "idle"
    BY <2>2, <2>3, <2>4 DEF Enter, Running
  <2> QED
    BY <2>2, <2>4 DEF AloneInv, Running
<1>2. ASSUME NEW c \in Client, Begin(c) PROVE AloneInv'
  BY <1>2 DEF Begin, AloneInv, Running, SqlTypeOK, ctxVars, ghostVars, Goto, Enter, Restore, Outside, Phases
<1>3. ASSUME NEW c \in Client, TxnStatement(c) PROVE AloneInv'
  BY <1>3 DEF TxnStatement, AloneInv, Running, SqlTypeOK, ctxVars, ghostVars, Goto, Enter, Restore, Outside, Phases
<1>4. ASSUME NEW c \in Client, Commit(c) PROVE AloneInv'
  BY <1>4 DEF Commit, AloneInv, Running, SqlTypeOK, ctxVars, ghostVars, Goto, Enter, Restore, Outside, Phases
<1>5. ASSUME NEW c \in Client, Rollback(c) PROVE AloneInv'
  BY <1>5 DEF Rollback, AloneInv, Running, SqlTypeOK, ctxVars, ghostVars, Goto, Enter, Restore, Outside, Phases
<1>6. ASSUME NEW c \in Client, EarlyReturn(c) PROVE AloneInv'
  BY <1>6 DEF EarlyReturn, AloneInv, Running, SqlTypeOK, ctxVars, ghostVars, Goto, Enter, Restore, Outside, Phases
<1>7. ASSUME NEW c \in Client, PersistRead(c) PROVE AloneInv'
  BY <1>7 DEF PersistRead, AloneInv, Running, SqlTypeOK, ctxVars, ghostVars, Goto, Enter, Restore, Outside, Phases
<1>8. ASSUME NEW c \in Client, PersistWrite(c) PROVE AloneInv'
  BY <1>8 DEF PersistWrite, AloneInv, Running, SqlTypeOK, ctxVars, ghostVars, Goto, Enter, Restore, Outside, Phases
<1>13. ASSUME NEW c \in Client, PersistFails(c) PROVE AloneInv'
  BY <1>13 DEF PersistFails, AloneInv, Running, SqlTypeOK, ctxVars, ghostVars, Goto, Enter, Restore, Outside, Phases
<1>9. ASSUME NEW c \in Client, Proceed(c) PROVE AloneInv'
  BY <1>9 DEF Proceed, AloneInv, Running, SqlTypeOK, ctxVars, ghostVars, Goto, Enter, Restore, Outside, Phases
<1>10. ASSUME NEW c \in Client, Return(c) PROVE AloneInv'
  BY <1>10 DEF Return, AloneInv, Running, SqlTypeOK, ctxVars, ghostVars, Goto, Enter, Restore, Outside, Phases
<1>11. CASE Restart
  BY <1>11 DEF Restart, AloneInv, Running, SqlTypeOK, ctxVars, ghostVars, Goto, Enter, Restore, Outside, Phases
<1>12. CASE UNCHANGED vars
  BY <1>12 DEF vars, ctxVars, ghostVars, AloneInv, Running, SqlTypeOK, ctxVars, ghostVars, Goto, Enter, Restore, Outside, Phases
<1> QED
  BY <1>1, <1>2, <1>3, <1>4, <1>5, <1>6, <1>7, <1>8, <1>9, <1>10, <1>11, <1>12, <1>13 DEF Next

-----------------------------------------------------------------------------
(* The theorems.                                                            *)

\* The inductive invariant: a snapshot is of the present, versions are within
\* the clock, everything the rows are replaced by has unique keys, and a
\* request that runs alone finds what it left.
THEOREM SqlInvariant == Spec => []SqlInv
<1>1. SqlInv /\ [Next]_vars => SqlInv'
  BY SqlTypeStep, ClockStep, KeysStep, AloneStep DEF SqlInv
<1> QED
  BY <1>1, SqlInit, PTL DEF Spec

\* PRIMARY KEY of insert_rows: whatever transactions overlap on the one context,
\* no two live rows have the same key, until a restart sets the clock back.
THEOREM KeysStayUnique == Spec => []PrimaryKeyUnique
<1>1. SqlInv => PrimaryKeyUnique
  BY DEF SqlInv, KeysInv, PrimaryKeyUnique
<1> QED
  BY <1>1, SqlInvariant, PTL

\* is_row_visible: a scan sees the live rows and no others.
THEOREM ScansSeeLiveRows == Spec => []ScanSeesLiveRows
<1>1. SqlInv => ScanSeesLiveRows
  <2> SUFFICES ASSUME SqlInv, ~ skewed, NEW p \in DOMAIN rows
               PROVE  IsRowVisible(rows[p]) <=> Live(rows[p])
    BY DEF ScanSeesLiveRows
  <2>1. rows[p] \in Row
    BY DEF SqlInv, SqlTypeOK, IsTable
  <2>2. rows[p].created <= clock /\ rows[p].deleted <= clock
    BY DEF SqlInv, ClockInv, WithinClock
  <2> QED
    BY <2>1, <2>2, VisibleIsLive DEF SqlInv
<1> QED
  BY <1>1, SqlInvariant, PTL

\* persist: an acknowledged statement of a request that ran alone is in the file.
THEOREM AckedStays == Spec => []AckedIsDurable
<1>1. SqlInv => AckedIsDurable
  BY DEF SqlInv, AloneInv, AckedIsDurable, Running
<1> QED
  BY <1>1, SqlInvariant, PTL

\* BEGIN, COMMIT and ROLLBACK: a transaction that runs alone touches the file only
\* with COMMIT, and one that is undone leaves rows and file as it found them.
THEOREM UndoneAsAWhole == Spec => []AllOrNothing
<1>1. SqlInv => AllOrNothing
  BY DEF SqlInv, AloneInv, AllOrNothing, Running
<1> QED
  BY <1>1, SqlInvariant, PTL

-----------------------------------------------------------------------------
(* The joins of QueryOps.                                                   *)

\* What a join is asked for.
LEMMA JoinQuery ==
    ASSUME QueryInit, q.op \in Joins
    PROVE  q.left \in Seq(Number \cup {Null}) /\ q.right \in Seq(Number \cup {Null}) /\ q.limit = Absent /\ q.offset = 0
<1>1. \A c \in Column : c \in Seq(Number \cup {Null})
  <2>1. MaxRows \in Nat
    BY QueryAssumption
  <2>2. \A n \in 0..MaxRows : \A c \in [1..n -> Number \cup {Null}] : c \in Seq(Number \cup {Null})
    BY <2>1
  <2> QED
    BY <2>2 DEF Column
<1>2. q \in Query
  BY DEF QueryInit
<1> DEFINE Plain(names, right, where) ==
             [op : names \cap Ops, left : Column, right : right, where : where,
              limit : {Absent}, offset : {0}]
<1>3. q \in Plain(Joins \cup SetOps, Column, {Absent})
  BY <1>2 DEF Query, Joins, NestedLoop, HashJoin, Sorts, SetOps
<1> QED
  BY <1>1, <1>3

\* The query does not change while it runs.
LEMMA QueryKept ==
    ASSUME q' = q
    PROVE  /\ JoinRow' = JoinRow /\ JoinResult' = JoinResult
           /\ Resumable' = Resumable
           /\ \A l, r : Condition(l, r)' = Condition(l, r)
<1>1. \A l, r : Condition(l, r)' = Condition(l, r)
  BY DEF Condition
<1>2. Pairs' = Pairs
  BY <1>1 DEF Pairs
<1>3. Alone' = Alone
  BY <1>1 DEF Alone
<1>4. JoinRow' = JoinRow /\ JoinResult' = JoinResult
  BY <1>2, <1>3 DEF JoinRow, JoinResult
<1> QED
  BY <1>1, <1>4 DEF Resumable

\* Rows are no marker, nor are sequences of them.
LEMMA RowsPresent ==
    ASSUME q.left \in Seq(Number \cup {Null}), q.right \in Seq(Number \cup {Null})
    PROVE  /\ JoinRow \subseteq Nat \X (Nat \cup {Null})
           /\ JoinResult \subseteq JoinRow
           /\ Absent \notin Seq(JoinRow) \cup Seq(Nat)
<1>1. Len(q.left) \in Nat /\ Len(q.right) \in Nat
  OBVIOUS
<1>2. JoinRow \subseteq Nat \X (Nat \cup {Null})
  BY <1>1 DEF JoinRow, Pairs
<1>3. JoinResult \subseteq JoinRow
  BY DEF JoinResult, JoinRow, Alone
<1>4. \A s \in Seq(JoinRow) : s \in Seq(Nat \X (Nat \cup {Null}))
  BY <1>2
<1>5. Absent \notin Seq(JoinRow) \cup Seq(Nat)
  BY <1>4, QueryAssumption
<1> QED
  BY <1>2, <1>3, <1>5

\* What the limit and execute_query do with rows of a join.
LEMMA Gathered ==
    ASSUME PlaceOK, out \in Seq(JoinRow),
           NEW found \in Seq(JoinRow), found # <<>>, Deliver(found)
    PROVE  /\ skipped' = 0 /\ returned' \in Nat
           /\ \/ /\ Len(out \o found) > MaxResult
                 /\ out' = SubSeq(out \o found, 1, MaxResult) /\ call' = "end"
              \/ /\ Len(out \o found) <= MaxResult
                 /\ out' = out \o found /\ call' = "top"
<1>1. found # Absent /\ q.limit = Absent /\ q.offset = 0 /\ skipped = 0 /\ returned \in Nat
  BY RowsPresent DEF PlaceOK
<1> DEFINE toSkip == IF skipped < q.offset THEN q.offset - skipped ELSE 0
           rest == SubSeq(found, toSkip + 1, Len(found))
           taken == IF q.limit # Absent /\ Len(rest) > q.limit - returned
                      THEN SubSeq(rest, 1, q.limit - returned) ELSE rest
<1>2. toSkip = 0 /\ Len(found) \in Nat /\ Len(found) > 0
  BY <1>1
<1>3. taken = found
  <2>1. SubSeq(found, 1, Len(found)) = found
    OBVIOUS
  <2>2. rest = found
    BY <1>2, <2>1
  <2> HIDE DEF rest
  <2> QED
    BY <1>1, <2>2
<1>4. IF toSkip > 0 /\ toSkip >= Len(found)
      THEN skipped' = skipped + Len(found) /\ call' = "op" /\ UNCHANGED <<returned, out>>
      ELSE /\ skipped' = skipped + toSkip
           /\ IF taken = <<>> THEN call' = "op" /\ UNCHANGED <<returned, out>>
              ELSE returned' = returned + Len(taken) /\ Gather(taken)
  BY <1>1, Zenon DEF Deliver
<1> HIDE DEF toSkip, rest, taken
<1>5. skipped' = skipped /\ returned' = returned + Len(found) /\ Gather(found)
  BY <1>1, <1>2, <1>3, <1>4
<1> QED
  BY <1>1, <1>2, <1>5, QueryAssumption DEF Gather

\* Rows without a duplicate have none after a new one, or a cut.
LEMMA OnceKept ==
    ASSUME NEW R, NEW g \in Seq(R), NEW h \in Seq(R), NEW row,
           \A i, j \in DOMAIN g : g[i] = g[j] => i = j,
           \A i \in DOMAIN g : g[i] # row,
           Len(h) <= Len(g) + 1, \A i \in DOMAIN h : h[i] = Append(g, row)[i]
    PROVE  \A i, j \in DOMAIN h : h[i] = h[j] => i = j
<1>1. /\ DOMAIN g = 1..Len(g) /\ DOMAIN h = 1..Len(h) /\ Len(g) \in Nat /\ Len(h) \in Nat
  OBVIOUS
<1>2. \A i \in 1..Len(g) : Append(g, row)[i] = g[i]
  BY <1>1
<1>3. Append(g, row)[Len(g) + 1] = row
  BY <1>1
<1> QED
  BY <1>1, <1>2, <1>3

\* There are as many rows as the sequence is long, and no more than in any set
\* they are of.
LEMMA OnceCounts ==
    ASSUME NEW R, NEW g \in Seq(R), \A i, j \in DOMAIN g : g[i] = g[j] => i = j
    PROVE  /\ Cardinality(ToSet(g)) = Len(g)
           /\ \A S : IsFiniteSet(S) /\ ToSet(g) \subseteq S => Len(g) <= Cardinality(S)
<1>1. DOMAIN g = 1..Len(g) /\ Len(g) \in Nat /\ g \in [1..Len(g) -> R]
  OBVIOUS
<1>2. g \in [1..Len(g) -> ToSet(g)]
  BY <1>1 DEF ToSet
<1>3. g \in Bijection(1..Len(g), ToSet(g))
  BY <1>1, <1>2 DEF ToSet, Bijection, Injection, Surjection, IsInjective
<1>4. Cardinality(ToSet(g)) = Len(g)
  BY <1>1, <1>3, FS_CountingElements DEF ExistsBijection
<1>5. ASSUME NEW S, IsFiniteSet(S), ToSet(g) \subseteq S
      PROVE  Len(g) <= Cardinality(S)
  BY <1>4, <1>5, FS_Subset
<1> QED
  BY <1>4, <1>5

\* Sequences.
LEMMA AppendBehind ==
    ASSUME NEW R, NEW s \in Seq(R), NEW t \in Seq(R), NEW row \in R
    PROVE  /\ s \o Append(t, row) = Append(s \o t, row)
           /\ s \o t \in Seq(R) /\ Len(s \o t) = Len(s) + Len(t)
           /\ s \o <<>> = s
           /\ Append(s \o t, row) \in Seq(R)
<1>1. s \o Append(t, row) = Append(s \o t, row)
  OBVIOUS
<1>2. s \o <<>> = s
  OBVIOUS
<1> QED
  BY <1>1, <1>2

\* One candidate: the row of a pair that satisfies the condition comes behind
\* the others, unless the result is cut.
LEMMA ProbeGives ==
    ASSUME q.op \in Joins, PlaceOK, GivenOnce, JoinProbe
    PROVE  \E right \in Candidates(Left) :
             /\ batch # Absent /\ li <= Len(batch) /\ IsNext(right) /\ ri' = right + 1
             /\ skipped' = 0 /\ returned' \in Nat
             /\ UNCHANGED <<q, data, pos, li>>
             /\ \/ /\ ~ Condition(Left, right)
                   /\ UNCHANGED <<call, out, buf, batch, matched>>
                \/ /\ Condition(Left, right)
                   /\ out' \in Seq(JoinRow) /\ buf' \in Seq(JoinRow)
                   /\ Len(Given') <= Len(Given) + 1
                   /\ \A i \in DOMAIN Given' : Given'[i] = Append(Given, <<Left, right>>)[i]
                   /\ \/ Given' = Append(Given, <<Left, right>>)
                      \/ call' = "end" /\ Len(out') = MaxResult
                   /\ \/ Len(buf) + 1 < ResultLimit /\ UNCHANGED <<batch, call>> /\ matched'
                      \/ /\ Len(buf) + 1 >= ResultLimit /\ batch' = KeptBatch /\ ~ matched' /\ buf' = <<>>
                         /\ call' = "end" => Len(out') = MaxResult
<1>1. PICK right \in Candidates(Left) :
        LET found == IF Condition(Left, right) THEN Append(buf, <<Left, right>>) ELSE buf
            full == Condition(Left, right) /\ Len(found) >= ResultLimit
        IN  /\ IsNext(right)
            /\ ri' = right + 1
            /\ IF full
                 THEN /\ Deliver(found) /\ buf' = <<>> /\ matched' = FALSE
                      /\ batch' = KeptBatch
                 ELSE /\ buf' = found /\ matched' = (matched \/ found # buf)
                      /\ UNCHANGED <<call, limitVars, batch>>
  BY DEF JoinProbe
<1>2. batch # Absent /\ li <= Len(batch) /\ UNCHANGED <<q, data, pos, li>>
  BY DEF JoinProbe
<1> DEFINE row == <<Left, right>>
<1>3. JoinRow' = JoinRow /\ out \in Seq(JoinRow) /\ buf \in Seq(JoinRow)
  BY <1>2, QueryKept DEF GivenOnce
<1>4. skipped = 0 /\ returned \in Nat
  BY DEF PlaceOK
<1>5. CASE ~ Condition(Left, right)
  <2>1. matched' = matched
    BY <1>1, <1>5 DEF PlaceOK
  <2> QED
    BY <1>1, <1>2, <1>4, <1>5, <2>1 DEF limitVars
<1>6. CASE Condition(Left, right)
  <2>1. row \in JoinRow
    <3>1. Left \in 1..Len(q.left)
      BY <1>2 DEF PlaceOK, Left
    <3>2. right \in 1..Len(q.right)
      BY DEF Candidates, Joins, NestedLoop, HashJoin
    <3> QED
      BY <1>6, <3>1, <3>2 DEF JoinRow, Pairs
  <2> DEFINE found == Append(buf, row)
  <2>2. found \in Seq(JoinRow) /\ found # <<>> /\ found # buf /\ Len(found) = Len(buf) + 1
    <3> HIDE DEF row
    <3>1. found \in Seq(JoinRow) /\ Len(found) = Len(buf) + 1 /\ Len(buf) \in Nat
      BY <1>3, <2>1
    <3>2. found # buf
      BY <3>1
    <3>3. Len(<<>>) = 0
      OBVIOUS
    <3> QED
      BY <3>1, <3>2, <3>3
  <2>3. /\ out \o found = Append(Given, row) /\ Given \in Seq(JoinRow)
        /\ Append(Given, row) \in Seq(JoinRow) /\ Len(Append(Given, row)) = Len(Given) + 1
    BY <1>3, <2>1, AppendBehind DEF Given
  <2>4. CASE ~ Len(found) >= ResultLimit
    <3>1. buf' = found /\ matched' /\ UNCHANGED <<call, limitVars, batch>>
      BY <1>1, <1>6, <2>2, <2>4
    <3>2. Given' = Append(Given, row)
      BY <2>3, <3>1 DEF Given, limitVars
    <3>3. Len(buf) + 1 < ResultLimit
      BY <1>3, <2>2, <2>4, QueryAssumption
    <3>4. /\ out' \in Seq(JoinRow) /\ buf' \in Seq(JoinRow) /\ skipped' = 0 /\ returned' \in Nat
          /\ UNCHANGED <<batch, call>> /\ matched'
      BY <1>3, <1>4, <2>2, <3>1 DEF limitVars
    <3>5. Len(Given') <= Len(Given) + 1 /\ \A i \in DOMAIN Given' : Given'[i] = Append(Given, row)[i]
      <4> HIDE DEF row
      <4> QED
        BY <2>3, <3>2
    <3> QED
      BY <1>1, <1>2, <1>6, <3>2, <3>3, <3>4, <3>5
  <2>5. CASE Len(found) >= ResultLimit
    <3>1. Deliver(found) /\ buf' = <<>> /\ matched' = FALSE /\ batch' = KeptBatch
      BY <1>1, <1>6, <2>5
    <3> HIDE DEF found
    <3>2. /\ skipped' = 0 /\ returned' \in Nat
          /\ \/ /\ Len(out \o found) > MaxResult
                /\ out' = SubSeq(out \o found, 1, MaxResult) /\ call' = "end"
             \/ /\ Len(out \o found) <= MaxResult
                /\ out' = out \o found /\ call' = "top"
      BY <1>3, <2>2, <3>1, Gathered
    <3>3. MaxResult \in Nat
      BY QueryAssumption
    <3> DEFINE all == Append(Given, row)
    <3>4. \/ /\ Len(all) > MaxResult
             /\ out' = SubSeq(all, 1, MaxResult) /\ call' = "end"
          \/ /\ Len(all) <= MaxResult
             /\ out' = all /\ call' = "top"
      BY <2>3, <3>2
    <3>5. all \in Seq(JoinRow) /\ Len(all) = Len(Given) + 1
      BY <2>3
    <3> HIDE DEF all
    <3>6. /\ out' \in Seq(JoinRow) /\ Len(out') <= Len(all)
          /\ \A i \in DOMAIN out' : out'[i] = all[i]
          /\ \/ out' = all
             \/ call' = "end" /\ Len(out') = MaxResult
          /\ call' = "end" => Len(out') = MaxResult
      BY <3>3, <3>4, <3>5
    <3>7. Given' = out'
      BY <3>1, <3>6 DEF Given
    <3>8. /\ Len(Given') <= Len(Given) + 1 /\ \A i \in DOMAIN Given' : Given'[i] = all[i]
          /\ \/ Given' = all
             \/ call' = "end" /\ Len(out') = MaxResult
      BY <3>5, <3>6, <3>7
    <3>9. Len(buf) + 1 >= ResultLimit /\ buf' \in Seq(JoinRow) /\ ~ matched'
      BY <2>2, <2>5, <3>1
    <3>10. IsNext(right) /\ ri' = right + 1
      BY <1>1
    <3> USE DEF all
    <3> QED
      BY <1>2, <1>6, <3>1, <3>2, <3>6, <3>8, <3>9, <3>10
  <2> QED
    BY <2>4, <2>5
<1> QED
  BY <1>5, <1>6

\* Where a join is.
LEMMA PlaceIs ==
    PlaceOK =>
           /\ Here \in Nat \ {0} /\ Here <= pos + 1 /\ pos \in Nat /\ Len(q.left) \in Nat /\ Len(q.right) \in Nat
           /\ batch # Absent => Len(batch) \in Nat
           /\ batch # Absent /\ li <= Len(batch) => Left = Here /\ Here <= pos
           /\ batch # Absent /\ li > Len(batch) => Here = pos + 1
           /\ batch = Absent => Here = pos + 1
<1> SUFFICES ASSUME PlaceOK
             PROVE  /\ Here \in Nat \ {0} /\ Here <= pos + 1 /\ pos \in Nat /\ Len(q.left) \in Nat /\ Len(q.right) \in Nat
                    /\ batch # Absent => Len(batch) \in Nat
                    /\ batch # Absent /\ li <= Len(batch) => Left = Here /\ Here <= pos
                    /\ batch # Absent /\ li > Len(batch) => Here = pos + 1
                    /\ batch = Absent => Here = pos + 1
  OBVIOUS
<1>1. Len(q.left) \in Nat /\ Len(q.right) \in Nat /\ pos \in Nat
  BY DEF PlaceOK
<1>2. CASE batch = Absent
  BY <1>1, <1>2 DEF Here
<1>3. CASE batch # Absent
  <2> DEFINE n == Len(batch)
  <2>1. /\ n \in Nat /\ n <= pos /\ li <= n + 1 /\ li \in Nat \ {0}
        /\ \A i \in 1..n : batch[i] = pos - n + i
    BY <1>3 DEF PlaceOK
  <2>2. Here = pos - n + li
    BY <1>3 DEF Here
  <2> HIDE DEF n
  <2>3. li <= n => Left = pos - n + li
    BY <2>1 DEF Left
  <2>4. Here \in Nat \ {0} /\ Here <= pos + 1 /\ (li <= n => Left = Here /\ Here <= pos)
        /\ (li > n => Here = pos + 1)
    BY <1>1, <2>1, <2>2, <2>3
  <2> USE DEF n
  <2> QED
    BY <1>1, <1>3, <2>1, <2>4
<1> QED
  BY <1>1, <1>2, <1>3

\* A batch holds the positions behind those given out.
LEMMA Numbered ==
    ASSUME NEW p \in Nat, NEW n \in Nat, NEW s, s = [i \in 1..n |-> p + i]
    PROVE  s \in Seq(Nat) /\ Len(s) = n /\ \A i \in 1..n : s[i] = p + i
OBVIOUS

\* Arithmetic.
LEMMA Difference ==
    ASSUME NEW a \in Nat, NEW b \in Nat, NEW n \in Nat, n = b - a
    PROVE  b - n = a /\ n <= b /\ 1 <= n + 1
OBVIOUS

\* JoinFetch.
LEMMA FetchGives ==
    ASSUME q.op \in Joins, PlaceOK, GivenOnce, JoinFetch
    PROVE  /\ UNCHANGED <<q, data>> /\ li' = 1 /\ ri' = 1 /\ matched' = FALSE /\ batch = Absent
           /\ skipped' = 0 /\ returned' \in Nat
           /\ \/ /\ pos' \in Nat /\ pos' > pos /\ pos' <= Len(q.left) /\ UNCHANGED <<call, buf, out>>
                 /\ batch' \in Seq(Nat) /\ Len(batch') = pos' - pos
                 /\ \A i \in 1..Len(batch') : batch'[i] = pos + i
              \/ /\ pos' = pos /\ pos = Len(q.left) /\ batch' = batch /\ buf' = <<>>
                 /\ out' \in Seq(JoinRow) /\ Len(out') <= Len(Given)
                 /\ \A i \in DOMAIN out' : out'[i] = Given[i]
                 /\ \/ out' = Given
                    \/ call' = "end" /\ Len(out') = MaxResult
<1>1. /\ UNCHANGED <<q, data>> /\ li' = 1 /\ ri' = 1 /\ matched' = FALSE /\ batch = Absent
      /\ skipped = 0 /\ returned \in Nat /\ pos \in 0..Len(q.left) /\ Len(q.left) \in Nat
      /\ out \in Seq(JoinRow) /\ buf \in Seq(JoinRow)
  BY DEF JoinFetch, PlaceOK, GivenOnce
<1>2. CASE pos < Len(q.left)
  <2> DEFINE end == Upto(ScanBatch, Len(q.left))
  <2>1. /\ batch' = [i \in 1..(end - pos) |-> pos + i] /\ pos' = end
        /\ UNCHANGED <<call, buf, limitVars>>
    BY <1>2 DEF JoinFetch
  <2>2. end \in pos + 1..Len(q.left)
    BY <1>1, <1>2, QueryAssumption DEF Upto
  <2> HIDE DEF end
  <2>3. end \in Nat /\ end - pos \in Nat /\ pos \in Nat /\ end > pos /\ end <= Len(q.left)
    BY <1>1, <2>2
  <2>4. /\ batch' \in Seq(Nat) /\ Len(batch') = end - pos
        /\ \A i \in 1..(end - pos) : batch'[i] = pos + i
    <3> DEFINE n == end - pos
    <3>1. n \in Nat /\ pos \in Nat /\ batch' = [i \in 1..n |-> pos + i]
      BY <2>1, <2>3
    <3> HIDE DEF n
    <3>2. batch' \in Seq(Nat) /\ Len(batch') = n /\ \A i \in 1..n : batch'[i] = pos + i
      BY <3>1, Numbered
    <3> QED
      BY <3>2 DEF n
  <2> QED
    BY <1>1, <2>1, <2>3, <2>4 DEF limitVars
<1>3. CASE ~ pos < Len(q.left)
  <2>1. /\ Deliver(IF buf = <<>> THEN Absent ELSE buf) /\ buf' = <<>> /\ UNCHANGED <<batch, pos>>
    BY <1>3 DEF JoinFetch
  <2>2. pos = Len(q.left)
    BY <1>1, <1>3
  <2>3. CASE buf = <<>>
    <3>1. Deliver(Absent)
      BY <2>1, <2>3
    <3>2. call' = "end" /\ UNCHANGED limitVars
      BY <3>1 DEF Deliver
    <3>3. Given = out
      BY <1>1, <2>3 DEF Given
    <3> QED
      BY <1>1, <2>1, <2>2, <3>2, <3>3 DEF limitVars
  <2>4. CASE buf # <<>>
    <3>1. Deliver(buf)
      BY <2>1, <2>4
    <3>2. /\ skipped' = 0 /\ returned' \in Nat
          /\ \/ /\ Len(Given) > MaxResult
                /\ out' = SubSeq(Given, 1, MaxResult) /\ call' = "end"
             \/ /\ Len(Given) <= MaxResult
                /\ out' = Given /\ call' = "top"
      BY <1>1, <2>4, <3>1, Gathered DEF Given
    <3>3. MaxResult \in Nat /\ Given \in Seq(JoinRow)
      BY <1>1, QueryAssumption DEF Given
    <3>4. /\ out' \in Seq(JoinRow) /\ Len(out') <= Len(Given)
          /\ \A i \in DOMAIN out' : out'[i] = Given[i]
          /\ \/ out' = Given
             \/ call' = "end" /\ Len(out') = MaxResult
      BY <3>2, <3>3
    <3> QED
      BY <1>1, <2>1, <2>2, <3>2, <3>4
  <2> QED
    BY <2>3, <2>4
<1> QED
  BY <1>2, <1>3

\* JoinNextLeft.
LEMMA NextLeftGives ==
    ASSUME q.op \in Joins, PlaceOK, GivenOnce, JoinNextLeft
    PROVE  /\ UNCHANGED <<q, call, data, pos, batch, out, skipped, returned>>
           /\ batch # Absent /\ li <= Len(batch) /\ \A r \in Candidates(Left) : r < ri
           /\ li' = li + 1 /\ ri' = 1 /\ matched' = FALSE
           /\ buf' \in Seq(JoinRow)
           /\ IF ~ matched /\ q.op \in {"left", "left_all"}
                THEN <<Left, Null>> \in JoinRow /\ Given' = Append(Given, <<Left, Null>>)
                ELSE Given' = Given
<1>1. /\ UNCHANGED <<q, call, data, pos, batch, out, skipped, returned>>
      /\ batch # Absent /\ li <= Len(batch) /\ \A r \in Candidates(Left) : r < ri
      /\ li' = li + 1 /\ ri' = 1 /\ matched' = FALSE
      /\ buf' = IF ~ matched /\ q.op \in {"left", "left_all"} THEN Append(buf, <<Left, Null>>) ELSE buf
  BY DEF JoinNextLeft, limitVars
<1>2. out \in Seq(JoinRow) /\ buf \in Seq(JoinRow) /\ JoinRow' = JoinRow
  BY <1>1, QueryKept DEF GivenOnce
<1>3. Left \in 1..Len(q.left)
  <2>1. Left = Here /\ Here \in Nat \ {0} /\ Here <= pos
    BY <1>1, PlaceIs
  <2>2. pos \in 0..Len(q.left)
    BY DEF PlaceOK
  <2> QED
    BY <2>1, <2>2, PlaceIs
<1>4. <<Left, Null>> \in JoinRow
  BY <1>3 DEF JoinRow
<1> HIDE DEF JoinRow
<1>5. CASE ~ matched /\ q.op \in {"left", "left_all"}
  <2>1. buf' = Append(buf, <<Left, Null>>)
    BY <1>1, <1>5
  <2>2. Given' = Append(Given, <<Left, Null>>) /\ buf' \in Seq(JoinRow)
    BY <1>1, <1>2, <1>4, <2>1, AppendBehind DEF Given
  <2> QED
    BY <1>1, <1>2, <1>4, <1>5, <2>2
<1>6. CASE ~ (~ matched /\ q.op \in {"left", "left_all"})
  BY <1>1, <1>2, <1>6 DEF Given
<1> QED
  BY <1>5, <1>6

-----------------------------------------------------------------------------
(* The place after a step.                                                  *)

\* Every step leaves the join in a place it may be in.
LEMMA PlaceKept ==
    ASSUME q.op \in Joins, PlaceOK, GivenOnce,
           Ask \/ JoinFetch \/ JoinProbe \/ JoinNextLeft \/ JoinBatchDone
    PROVE  PlaceOK'
<1> DEFINE Placed(b, p, l) == b # Absent =>
             /\ b \in Seq(Nat) /\ l <= Len(b) + 1 /\ Len(b) <= p
             /\ \A i \in 1..Len(b) : b[i] = p - Len(b) + i
<1>1. SUFFICES ASSUME q' = q, data' = data,
                      skipped' = 0, returned' \in Nat, pos' \in 0..Len(q.left),
                      li' \in Nat \ {0}, ri' \in Nat \ {0}, matched' \in BOOLEAN,
                      Placed(batch, pos, li)
               PROVE  Placed(batch', pos', li')
  <2>1. q' = q /\ data' = data
    BY DEF Ask, JoinFetch, JoinProbe, JoinNextLeft, JoinBatchDone
  <2>2. skipped' = 0 /\ returned' \in Nat
    <3>1. skipped = 0 /\ returned \in Nat
      BY DEF PlaceOK
    <3>2. Ask \/ JoinNextLeft \/ JoinBatchDone => UNCHANGED limitVars
      BY DEF Ask, JoinNextLeft, JoinBatchDone
    <3>3. UNCHANGED limitVars => skipped' = skipped /\ returned' = returned
      BY DEF limitVars
    <3> QED
      BY <3>1, <3>2, <3>3, FetchGives, ProbeGives
  <2>3. pos' \in 0..Len(q.left)
    <3>1. pos \in 0..Len(q.left)
      BY DEF PlaceOK
    <3>2. Ask \/ JoinProbe \/ JoinNextLeft \/ JoinBatchDone => pos' = pos
      BY DEF Ask, JoinProbe, JoinNextLeft, JoinBatchDone
    <3>3. JoinFetch => pos' = pos \/ (pos' \in Nat /\ pos' <= Len(q.left))
      BY FetchGives
    <3>4. Len(q.left) \in Nat
      BY PlaceIs
    <3> QED
      BY <3>1, <3>2, <3>3, <3>4
  <2>4. matched' \in BOOLEAN
    <3>1. matched \in BOOLEAN
      BY DEF PlaceOK
    <3> QED
      BY <3>1 DEF Ask, JoinFetch, JoinProbe, JoinNextLeft, JoinBatchDone, joinVars
  <2>5. li' \in Nat \ {0}
    <3>1. li \in Nat \ {0}
      BY DEF PlaceOK
    <3>2. li' \in {li, 1, li + 1}
      BY DEF Ask, JoinFetch, JoinProbe, JoinNextLeft, JoinBatchDone, joinVars
    <3> QED
      BY <3>1, <3>2
  <2>6. ri' \in Nat \ {0}
    <3>1. ri \in Nat \ {0}
      BY DEF PlaceOK
    <3>2. \A right \in Candidates(Left) : right \in Nat
      BY PlaceIs DEF Candidates, Joins, NestedLoop, HashJoin
    <3>3. ri' \in {ri, 1} \/ \E right \in Candidates(Left) : ri' = right + 1
      BY DEF Ask, JoinFetch, JoinProbe, JoinNextLeft, JoinBatchDone, joinVars
    <3> QED
      BY <3>1, <3>2, <3>3
  <2>7. Placed(batch, pos, li)
    BY DEF PlaceOK
  <2> HIDE DEF Placed
  <2>8. Placed(batch', pos', li')
    BY <1>1, <2>1, <2>2, <2>3, <2>4, <2>5, <2>6, <2>7
  <2>9. /\ q.left \in Seq(Number \cup {Null}) /\ q.right \in Seq(Number \cup {Null})
        /\ q.limit = Absent /\ q.offset = 0 /\ data = Absent
    BY DEF PlaceOK
  <2> USE DEF Placed
  <2> QED
    BY <2>1, <2>2, <2>3, <2>4, <2>5, <2>6, <2>8, <2>9, Zenon DEF PlaceOK
<1>2. CASE Ask \/ JoinBatchDone
  <2>1. UNCHANGED <<pos, li>> /\ (batch' = batch \/ batch' = Absent)
    BY <1>2 DEF Ask, JoinBatchDone, joinVars
  <2> QED
    BY <1>1, <2>1
<1>3. CASE JoinNextLeft
  <2>1. UNCHANGED <<pos, batch>> /\ batch # Absent /\ li <= Len(batch) /\ li' = li + 1
    BY <1>3, NextLeftGives
  <2>2. li' <= Len(batch) + 1
    BY <2>1, PlaceIs DEF PlaceOK
  <2> QED
    BY <1>1, <2>1, <2>2
<1>4. CASE JoinProbe
  <2>1. UNCHANGED <<pos, li>> /\ (batch' = batch \/ batch' = Absent)
    BY <1>4, ProbeGives DEF KeptBatch
  <2> QED
    BY <1>1, <2>1
<1>5. CASE JoinFetch
  <2>1. CASE pos' = pos /\ batch' = batch
    <3>1. batch = Absent
      BY <1>5, FetchGives
    <3> QED
      BY <2>1, <3>1
  <2>2. CASE ~ (pos' = pos /\ batch' = batch)
    <3>1. /\ pos' \in Nat /\ pos' > pos /\ li' = 1
          /\ batch' \in Seq(Nat) /\ Len(batch') = pos' - pos
          /\ \A i \in 1..Len(batch') : batch'[i] = pos + i
      BY <1>5, <2>2, FetchGives
    <3>2. pos \in Nat
      BY PlaceIs
    <3> DEFINE n == Len(batch')
    <3>3. pos' - n = pos /\ li' <= n + 1 /\ n <= pos'
      <4>1. n \in Nat /\ n = pos' - pos /\ pos' \in Nat /\ li' = 1
        BY <3>1
      <4> HIDE DEF n
      <4> QED
        BY <3>2, <4>1, Difference
    <3> QED
      BY <3>1, <3>3
  <2> QED
    BY <2>1, <2>2
<1> QED
  BY <1>2, <1>3, <1>4, <1>5

\* A row that lies behind the place after the step.
BehindNext(row) ==
    \/ row[1] < Here'
    \/ batch' # Absent /\ li' <= Len(batch') /\ row[1] = Here' /\ row[2] \in 1..(ri' - 1)

\* What lay behind stays behind.
LEMMA StaysBehind ==
    ASSUME q.op \in Joins, PlaceOK, GivenOnce,
           Ask \/ JoinFetch \/ JoinProbe \/ JoinNextLeft \/ JoinBatchDone,
           NEW row \in Nat \X (Nat \cup {Null}), Behind(row)
    PROVE  BehindNext(row)
<1>1. PlaceOK' /\ row[1] \in Nat
  BY PlaceKept
<1>2. Here \in Nat /\ Here' \in Nat /\ row[1] <= Here /\ pos \in Nat /\ ri \in Nat
  <2>1. (Here \in Nat \ {0})'
    BY <1>1, PlaceIs, PTL
  <2>2. QED
    <3>1. Here \in Nat /\ pos \in Nat /\ ri \in Nat
      BY PlaceIs DEF PlaceOK
    <3>2. row[1] <= Here
      BY <1>1, <3>1 DEF Behind
    <3> QED
      BY <2>1, <3>1, <3>2
<1>3. CASE Here' > Here
  BY <1>1, <1>2, <1>3 DEF BehindNext
<1> DEFINE Ahead == batch' # Absent /\ batch' = batch /\ li' <= Len(batch') /\ li' = li /\ ri' \in Nat /\ ri' >= ri
<1>4. CASE Here' = Here /\ (row[1] < Here \/ Ahead)
  BY <1>1, <1>2, <1>4 DEF Behind, BehindNext
<1>5. CASE Ask
  <2>1. UNCHANGED <<pos, batch, li, ri>>
    BY <1>5 DEF Ask, joinVars
  <2> QED
    BY <1>2, <2>1 DEF Behind, BehindNext, Here
<1>6. CASE JoinBatchDone
  <2>1. UNCHANGED <<pos, li, ri>> /\ batch # Absent /\ li > Len(batch) /\ batch' = Absent
    BY <1>6 DEF JoinBatchDone
  <2>2. Here' = Here
    BY <2>1, PlaceIs DEF Here
  <2>3. ~ li <= Len(batch)
    BY <2>1, PlaceIs DEF PlaceOK
  <2> QED
    BY <1>4, <2>2, <2>3 DEF Behind
<1>7. CASE JoinNextLeft
  <2>1. UNCHANGED <<pos, batch>> /\ batch # Absent /\ li <= Len(batch) /\ li' = li + 1
    BY <1>7, NextLeftGives
  <2>2. Here' = Here + 1
    BY <2>1, PlaceIs DEF Here, PlaceOK
  <2> QED
    BY <1>2, <1>3, <2>2
<1>8. CASE JoinFetch
  <2>1. /\ batch = Absent
        /\ \/ /\ pos' \in Nat /\ pos' > pos
              /\ batch' \in Seq(Nat) /\ Len(batch') = pos' - pos
           \/ pos' = pos /\ batch' = batch
        /\ li' = 1
    BY <1>8, FetchGives
  <2>2. row[1] < Here /\ Here = pos + 1
    BY <2>1 DEF Behind, Here
  <2>3. Here' = Here
    <3>1. CASE pos' = pos /\ batch' = batch
      BY <2>1, <2>2, <3>1 DEF Here
    <3>2. CASE pos' \in Nat /\ pos' > pos /\ batch' \in Seq(Nat) /\ Len(batch') = pos' - pos
      <4>3. batch' # Absent
        BY <3>2, QueryAssumption
      <4>4. Here' = pos' - Len(batch') + 1
        BY <2>1, <4>3 DEF Here
      <4> DEFINE n == Len(batch')
      <4>5. n \in Nat /\ n = pos' - pos /\ pos' \in Nat /\ Here' = pos' - n + 1
        BY <3>2, <4>4
      <4> HIDE DEF n
      <4> QED
        BY <1>2, <2>2, <4>5, Difference
    <3> QED
      BY <2>1, <3>1, <3>2
  <2> QED
    BY <1>4, <2>2, <2>3
<1>9. CASE JoinProbe
  <2>1. PICK right \in Candidates(Left) :
          /\ batch # Absent /\ li <= Len(batch) /\ IsNext(right)
          /\ ri' = right + 1 /\ UNCHANGED <<pos, li>>
          /\ batch' = batch \/ batch' = Absent
    BY <1>9, ProbeGives DEF KeptBatch
  <2>2. right \in Nat /\ right >= ri
    BY <2>1, PlaceIs DEF Candidates, Joins, NestedLoop, HashJoin, IsNext
  <2>3. ri' \in Nat /\ ri' >= ri
    BY <1>2, <2>1, <2>2
  <2>4. CASE batch' = batch
    <3>1. Here' = Here
      BY <2>1, <2>4 DEF Here
    <3> QED
      BY <1>4, <2>1, <2>3, <2>4, <3>1
  <2>5. CASE batch' = Absent
    <3>1. Here' = pos + 1 /\ Here <= pos
      BY <2>1, <2>5, PlaceIs DEF Here
    <3> QED
      BY <1>2, <1>3, <3>1
  <2> QED
    BY <2>1, <2>4, <2>5
<1> QED
  BY <1>5, <1>6, <1>7, <1>8, <1>9

\* What has been given out lies behind the place, and none of it twice.
LEMMA KeptOnce ==
    ASSUME q.op \in Joins, PlaceOK, GivenOnce,
           Ask \/ JoinFetch \/ JoinProbe \/ JoinNextLeft \/ JoinBatchDone, q' = q,
           out' \in Seq(JoinRow), buf' \in Seq(JoinRow),
           Len(Given') <= Len(Given), \A i \in DOMAIN Given' : Given'[i] = Given[i]
    PROVE  GivenOnce'
<1>1. JoinRow' = JoinRow /\ JoinRow \subseteq Nat \X (Nat \cup {Null})
  BY QueryKept, RowsPresent DEF PlaceOK
<1>2. Given \in Seq(JoinRow) /\ Given' \in Seq(JoinRow)
  BY DEF GivenOnce, Given
<1> DEFINE g == Given
           h == Given'
<1>3. DOMAIN h \subseteq DOMAIN g
  <2>1. g \in Seq(JoinRow) /\ h \in Seq(JoinRow) /\ Len(h) <= Len(g)
    BY <1>2
  <2> HIDE DEF g, h
  <2> QED
    BY <2>1
<1>4. \A i \in DOMAIN Given : Given[i] \in JoinRow /\ Behind(Given[i])
  BY <1>2 DEF GivenOnce
<1>5. \A row \in JoinRow : Behind(row) => BehindNext(row)
  BY <1>1, StaysBehind
<1>6. \A i \in DOMAIN Given' : BehindNext(Given'[i])
  BY <1>3, <1>4, <1>5
<1>7. \A i, j \in DOMAIN Given' : Given'[i] = Given'[j] => i = j
  BY <1>3 DEF GivenOnce
<1>8. (\A i \in DOMAIN Given : Behind(Given[i]))'
  BY <1>6 DEF Behind, BehindNext
<1> QED
  BY <1>1, <1>7, <1>8 DEF GivenOnce

\* The same of a step that adds one row, which was not behind the place.
LEMMA AddedOnce ==
    ASSUME q.op \in Joins, PlaceOK, GivenOnce,
           Ask \/ JoinFetch \/ JoinProbe \/ JoinNextLeft \/ JoinBatchDone, q' = q,
           out' \in Seq(JoinRow), buf' \in Seq(JoinRow),
           NEW row \in JoinRow, ~ Behind(row), BehindNext(row),
           Len(Given') <= Len(Given) + 1, \A i \in DOMAIN Given' : Given'[i] = Append(Given, row)[i]
    PROVE  GivenOnce'
<1>1. JoinRow' = JoinRow /\ JoinRow \subseteq Nat \X (Nat \cup {Null})
  BY QueryKept, RowsPresent DEF PlaceOK
<1>2. Given \in Seq(JoinRow) /\ Given' \in Seq(JoinRow)
  BY DEF GivenOnce, Given
<1>3. \A i \in DOMAIN Given : Given[i] \in JoinRow /\ Behind(Given[i])
  BY <1>2 DEF GivenOnce
<1>4. \A i \in DOMAIN Given : Given[i] # row
  BY <1>3
<1>5. \A i, j \in DOMAIN Given : Given[i] = Given[j] => i = j
  BY DEF GivenOnce
<1>6. \A i, j \in DOMAIN Given' : Given'[i] = Given'[j] => i = j
  BY <1>2, <1>4, <1>5, OnceKept
<1> DEFINE g == Given
           h == Given'
<1>7. \A i \in DOMAIN Given' : (i \in DOMAIN Given /\ Given'[i] = Given[i]) \/ Given'[i] = row
  <2>1. g \in Seq(JoinRow) /\ h \in Seq(JoinRow) /\ Len(h) <= Len(g) + 1 /\ \A i \in DOMAIN h : h[i] = Append(g, row)[i]
    BY <1>2
  <2> HIDE DEF g, h
  <2>3. DOMAIN g = 1..Len(g) /\ DOMAIN h = 1..Len(h) /\ Len(g) \in Nat /\ Len(h) \in Nat
    BY <2>1
  <2>4. /\ \A i \in 1..Len(g) : Append(g, row)[i] = g[i]
        /\ Append(g, row)[Len(g) + 1] = row
    BY <2>1
  <2>2. \A i \in DOMAIN h : (i \in DOMAIN g /\ h[i] = g[i]) \/ h[i] = row
    BY <2>1, <2>3, <2>4
  <2> QED
    BY <2>2 DEF g, h
<1>8. \A r \in JoinRow : Behind(r) => BehindNext(r)
  BY <1>1, StaysBehind
<1>9. \A i \in DOMAIN Given' : BehindNext(Given'[i])
  BY <1>3, <1>7, <1>8
<1>10. (\A i \in DOMAIN Given : Behind(Given[i]))'
  BY <1>9 DEF Behind, BehindNext
<1> QED
  BY <1>1, <1>6, <1>10 DEF GivenOnce

\* The row a candidate gives is not behind before the step and is after it.
LEMMA PairNew ==
    ASSUME q.op \in Joins, PlaceOK, GivenOnce, JoinProbe,
           NEW right \in Candidates(Left), batch # Absent, li <= Len(batch), IsNext(right),
           ri' = right + 1, UNCHANGED <<q, pos, li>>, batch' = batch \/ batch' = Absent
    PROVE  ~ Behind(<<Left, right>>) /\ BehindNext(<<Left, right>>)
<1>1. Left = Here /\ Here \in Nat /\ Here <= pos /\ pos \in Nat
  BY PlaceIs
<1>2. right \in Nat \ {0} /\ right >= ri /\ ri \in Nat \ {0}
  BY PlaceIs DEF Candidates, Joins, NestedLoop, HashJoin, IsNext, PlaceOK
<1>3. ~ Behind(<<Left, right>>)
  BY <1>1, <1>2 DEF Behind
<1>4. CASE batch' = batch
  <2>1. Here' = Here
    BY <1>4 DEF Here
  <2>2. right \in 1..(ri' - 1)
    BY <1>2
  <2> QED
    BY <1>1, <1>3, <1>4, <2>1, <2>2 DEF BehindNext
<1>5. CASE batch' = Absent
  <2>1. Here' = pos + 1
    BY <1>5 DEF Here
  <2> QED
    BY <1>1, <1>3, <2>1 DEF BehindNext
<1> QED
  BY <1>4, <1>5

\* The same of the row of a left row without partner.
LEMMA LoneNew ==
    ASSUME q.op \in Joins, PlaceOK, GivenOnce, JoinNextLeft
    PROVE  /\ ~ Behind(<<Left, Null>>) /\ BehindNext(<<Left, Null>>)
           /\ Left = Here /\ Here' = Here + 1 /\ Here \in Nat
<1>1. batch # Absent /\ li <= Len(batch) /\ UNCHANGED <<pos, batch>> /\ li' = li + 1
  BY NextLeftGives
<1>2. Left = Here /\ Here \in Nat
  BY <1>1, PlaceIs
<1>3. Here' = Here + 1
  BY <1>1, PlaceIs DEF Here, PlaceOK
<1>4. Null \notin 1..(ri - 1)
  BY QueryAssumption
<1> QED
  BY <1>2, <1>3, <1>4 DEF Behind, BehindNext

\* No step gives a row a second time.
LEMMA OnceStep ==
    ASSUME q.op \in Joins, PlaceOK, GivenOnce,
           Ask \/ JoinFetch \/ JoinProbe \/ JoinNextLeft \/ JoinBatchDone
    PROVE  GivenOnce'
<1>0. q' = q /\ JoinRow' = JoinRow /\ out \in Seq(JoinRow) /\ buf \in Seq(JoinRow)
  BY QueryKept DEF Ask, JoinFetch, JoinProbe, JoinNextLeft, JoinBatchDone, GivenOnce
<1>1. CASE Ask \/ JoinBatchDone
  <2>1. out' = out /\ buf' = buf
    BY <1>1 DEF Ask, JoinBatchDone, joinVars, limitVars
  <2>2. Given' = Given /\ Len(Given) \in Nat
    BY <1>0, <2>1 DEF Given
  <2> QED
    BY <1>0, <1>1, <2>1, <2>2, KeptOnce
<1>2. CASE JoinFetch
  <2>1. CASE UNCHANGED <<buf, out>>
    <3>1. Given' = Given /\ Len(Given) \in Nat
      BY <1>0, <2>1 DEF Given
    <3> QED
      BY <1>0, <1>2, <2>1, <3>1, KeptOnce
  <2>2. CASE ~ UNCHANGED <<buf, out>>
    <3>1. /\ buf' = <<>> /\ out' \in Seq(JoinRow) /\ Len(out') <= Len(Given)
          /\ \A i \in DOMAIN out' : out'[i] = Given[i]
      BY <1>2, <2>2, FetchGives
    <3>2. Given' = out' /\ buf' \in Seq(JoinRow)
      BY <3>1 DEF Given
    <3> QED
      BY <1>0, <1>2, <3>1, <3>2, KeptOnce
  <2> QED
    BY <2>1, <2>2
<1>3. CASE JoinNextLeft
  <2>1. out' = out /\ buf' \in Seq(JoinRow)
    BY <1>3, NextLeftGives
  <2>2. CASE ~ matched /\ q.op \in {"left", "left_all"}
    <3>1. <<Left, Null>> \in JoinRow /\ Given' = Append(Given, <<Left, Null>>)
      BY <1>3, <2>2, NextLeftGives
    <3>2. Len(Given') <= Len(Given) + 1
      <4>1. Given \in Seq(JoinRow)
        BY <1>0 DEF Given
      <4> QED
        BY <3>1, <4>1
    <3> QED
      BY <1>0, <1>3, <2>1, <3>1, <3>2, LoneNew, AddedOnce
  <2>3. CASE ~ (~ matched /\ q.op \in {"left", "left_all"})
    <3>1. Given' = Given
      BY <1>3, <2>3, NextLeftGives
    <3>2. Len(Given) \in Nat
      BY <1>0 DEF Given
    <3> QED
      BY <1>0, <1>3, <2>1, <3>1, <3>2, KeptOnce
  <2> QED
    BY <2>2, <2>3
<1>4. CASE JoinProbe
  <2>1. PICK right \in Candidates(Left) :
             /\ batch # Absent /\ li <= Len(batch) /\ IsNext(right) /\ ri' = right + 1
             /\ UNCHANGED <<q, data, pos, li>>
             /\ \/ /\ ~ Condition(Left, right)
                   /\ UNCHANGED <<call, out, buf, batch, matched>>
                \/ /\ Condition(Left, right)
                   /\ out' \in Seq(JoinRow) /\ buf' \in Seq(JoinRow)
                   /\ Len(Given') <= Len(Given) + 1
                   /\ \A i \in DOMAIN Given' : Given'[i] = Append(Given, <<Left, right>>)[i]
                   /\ batch' = batch \/ batch' = Absent
    BY <1>4, ProbeGives DEF KeptBatch
  <2>2. CASE ~ Condition(Left, right)
    <3>1. out' = out /\ buf' = buf
      BY <2>1, <2>2
    <3>2. Given' = Given /\ Len(Given) \in Nat
      BY <1>0, <3>1 DEF Given
    <3> QED
      BY <1>0, <1>4, <3>1, <3>2, KeptOnce
  <2>3. CASE Condition(Left, right)
    <3>1. <<Left, right>> \in JoinRow
      <4>1. Left \in 1..Len(q.left)
        BY <2>1, PlaceIs DEF PlaceOK, Left
      <4>2. right \in 1..Len(q.right)
        BY DEF Candidates, Joins, NestedLoop, HashJoin
      <4> QED
        BY <2>3, <4>1, <4>2 DEF JoinRow, Pairs
    <3>2. ~ Behind(<<Left, right>>) /\ BehindNext(<<Left, right>>)
      BY <1>4, <2>1, <2>3, PairNew
    <3> QED
      BY <1>0, <1>4, <2>1, <2>3, <3>1, <3>2, AddedOnce
  <2> QED
    BY <2>2, <2>3
<1> QED
  BY <1>1, <1>2, <1>3, <1>4

-----------------------------------------------------------------------------
(* Nothing is missing behind the place.                                     *)

\* In a join that is complete a row meets every row it matches.
LEMMA CandidatesAll ==
    ASSUME q.op \in Joins, q.left \in Seq(Number \cup {Null}), q.right \in Seq(Number \cup {Null})
    PROVE  \A l \in 1..Len(q.left) :
             /\ Candidates(l) \subseteq 1..Len(q.right)
             /\ Resumable => \A r \in 1..Len(q.right) : Condition(l, r) => r \in Candidates(l)
<1>1. ASSUME NEW l \in 1..Len(q.left), NEW r \in 1..Len(q.right), Resumable, Condition(l, r)
      PROVE  r \in Candidates(l)
  <2>1. CASE q.op \in NestedLoop
    BY <2>1 DEF Candidates, NestedLoop
  <2>2. CASE q.op \in {"inner", "left"}
    <3>1. q.op \notin NestedLoop
      BY <2>2 DEF NestedLoop
    <3>2. Equal(q.left[l], q.right[r])
      BY <1>1, <2>2, <3>1 DEF Condition
    <3>3. q.left[l].type = q.right[r].type
      BY <1>1, <2>2, <3>2 DEF Resumable
    <3>4. q.left[l] \in Number /\ q.right[r] \in Number /\ q.left[l].n = q.right[r].n
      BY <3>2 DEF Equal
    <3>5. \A v, w \in [type : STRING, n : Int] : v.type = w.type /\ v.n = w.n => v = w
      OBVIOUS
    <3>6. q.left[l] = q.right[r]
      BY <3>3, <3>4, <3>5, QueryAssumption
    <3> QED
      BY <2>2, <3>1, <3>6 DEF Candidates
  <2>3. q.op # "less"
    BY <1>1 DEF Resumable
  <2> QED
    BY <2>1, <2>2, <2>3 DEF Joins, HashJoin
<1>2. ASSUME NEW l \in 1..Len(q.left)
      PROVE  Candidates(l) \subseteq 1..Len(q.right)
  BY DEF Candidates, Joins, NestedLoop, HashJoin
<1> QED
  BY <1>1, <1>2

\* A join has finitely many rows.
LEMMA ResultFinite ==
    ASSUME q.left \in Seq(Number \cup {Null}), q.right \in Seq(Number \cup {Null})
    PROVE  IsFiniteSet(JoinResult) /\ Cardinality(JoinResult) \in Nat
<1> DEFINE L == 1..Len(q.left)
           R == 1..Len(q.right)
<1>1. IsFiniteSet(L) /\ IsFiniteSet(R)
  BY FS_Interval
<1>2. IsFiniteSet(R \cup {Null})
  BY <1>1, FS_AddElement
<1>3. IsFiniteSet(L \X (R \cup {Null}))
  BY <1>1, <1>2, FS_Product
<1>4. JoinResult \subseteq L \X (R \cup {Null})
  BY DEF JoinResult, Pairs, Alone
<1>5. IsFiniteSet(JoinResult)
  BY <1>3, <1>4, FS_Subset
<1> QED
  BY <1>5, FS_CardinalityType

\* A complete join other than a cross join never has so many rows that a call
\* returns early.
LEMMA NeverFull ==
    ASSUME q.op \in Joins, q.op # "cross", PlaceOK, GivenOnce, Resumable, ToSet(Given) \subseteq JoinResult,
           NEW row \in JoinResult, ~ Behind(row)
    PROVE  Len(buf) + 1 < ResultLimit
<1>1. JoinResult \subseteq JoinRow
  BY RowsPresent DEF PlaceOK
<1>2. out \in Seq(JoinRow) /\ buf \in Seq(JoinRow)
  BY DEF GivenOnce
<1>3. Given \in Seq(JoinRow) /\ Len(Given) = Len(out) + Len(buf) /\ Len(out) \in Nat /\ Len(buf) \in Nat
  BY <1>2 DEF Given
<1>4. /\ \A i, j \in DOMAIN Given : Given[i] = Given[j] => i = j
      /\ \A i \in DOMAIN Given : Given[i] # row
  BY DEF GivenOnce
<1> DEFINE g == Given
           h == Append(g, row)
<1>5. h \in Seq(JoinRow) /\ Len(h) = Len(g) + 1
  BY <1>1, <1>3
<1>6. \A i, j \in DOMAIN h : h[i] = h[j] => i = j
  <2>1. Len(h) <= Len(g) + 1 /\ \A i \in DOMAIN h : h[i] = Append(g, row)[i]
    BY <1>3, <1>5
  <2> HIDE DEF h, g
  <2>2. g \in Seq(JoinRow) /\ h \in Seq(JoinRow)
    BY <1>3, <1>5 DEF g
  <2> QED
    BY <1>4, <2>1, <2>2, OnceKept DEF g
<1>7. ToSet(h) \subseteq JoinResult
  <2>1. \A i \in DOMAIN h : h[i] = row \/ (i \in DOMAIN g /\ h[i] = g[i])
    <3>1. g \in Seq(JoinRow)
      BY <1>3
    <3> HIDE DEF g
    <3> QED
      BY <3>1
  <2>2. \A i \in DOMAIN g : g[i] \in JoinResult
    BY DEF ToSet
  <2> HIDE DEF h, g
  <2> QED
    BY <2>1, <2>2 DEF ToSet
<1>8. IsFiniteSet(JoinResult) /\ Cardinality(JoinResult) \in Nat
  BY ResultFinite DEF PlaceOK
<1>9. Len(h) <= Cardinality(JoinResult)
  <2> HIDE DEF h
  <2> QED
    BY <1>5, <1>6, <1>7, <1>8, OnceCounts
<1>10. Cardinality(JoinResult) < ResultLimit
  BY DEF Resumable
<1> HIDE DEF h
<1> QED
  BY <1>3, <1>5, <1>8, <1>9, <1>10, QueryAssumption

\* NothingMissing after a step.
LEMMA MissingNext ==
    ASSUME q' = q,
           Resumable =>
             /\ call' = "end" /\ Len(out') < MaxResult => batch' = Absent /\ pos' = Len(q.left) /\ buf' = <<>>
             /\ (call' = "end" => Len(out') < MaxResult) =>
                   \A row \in JoinResult : BehindNext(row) => \E i \in DOMAIN Given' : Given'[i] = row
             /\ \A i \in DOMAIN Given' : Given'[i] \in JoinResult
             /\ q.op # "cross" /\ batch' # Absent /\ li' <= Len(batch') =>
                   (matched' <=> \E r \in 1..Len(q.right) : r < ri' /\ Condition(Here', r))
    PROVE  NothingMissing'
<1>1. JoinResult' = JoinResult /\ Resumable' = Resumable
  BY QueryKept
<1>2. SUFFICES ASSUME Resumable'
               PROVE  /\ call' = "end" /\ Len(out') < MaxResult => batch' = Absent /\ pos' = Len(q.left)' /\ buf' = <<>>
                      /\ (call' = "end" => Len(out') < MaxResult) =>
                            (\A row \in JoinResult : Behind(row) => row \in ToSet(Given))'
                      /\ (ToSet(Given) \subseteq JoinResult)'
                      /\ (q.op # "cross" /\ batch # Absent /\ li <= Len(batch) =>
                            (matched <=> \E r \in 1..Len(q.right) : r < ri /\ Condition(Here, r)))'
  BY DEF NothingMissing
<1>3. (call' = "end" => Len(out') < MaxResult) =>
          (\A row \in JoinResult : Behind(row) => row \in ToSet(Given))'
  BY <1>1, <1>2 DEF ToSet, Behind, BehindNext
<1>4. (ToSet(Given) \subseteq JoinResult)'
  BY <1>1, <1>2 DEF ToSet
<1>5. (q.op # "cross" /\ batch # Absent /\ li <= Len(batch) =>
                            (matched <=> \E r \in 1..Len(q.right) : r < ri /\ Condition(Here, r)))'
  BY <1>1, <1>2 DEF Condition
<1> QED
  BY <1>1, <1>2, <1>3, <1>4, <1>5


\* Ask and JoinBatchDone give out nothing and stay where they are.
LEMMA MissingAsk ==
    ASSUME q.op \in Joins, PlaceOK, GivenOnce, NothingMissing, Ask \/ JoinBatchDone
    PROVE  NothingMissing'
<1>1. /\ UNCHANGED <<q, pos, li, ri, matched, buf, out>> /\ call' # "end" /\ call # "end"
      /\ \/ batch' = batch
         \/ batch' = Absent /\ batch # Absent /\ li > Len(batch)
  BY DEF Ask, JoinBatchDone, joinVars, limitVars, PlaceOK
<1>2. Given' = Given /\ Here' = Here
  BY <1>1, PlaceIs DEF Given, Here
<1>3. \A row : BehindNext(row) => Behind(row)
  BY <1>1, <1>2 DEF Behind, BehindNext
<1> QED
  BY <1>1, <1>2, <1>3, MissingNext DEF NothingMissing, ToSet

\* Nor does fetching a batch skip a left row.
LEMMA MissingFetch ==
    ASSUME q.op \in Joins, PlaceOK, GivenOnce, NothingMissing, JoinFetch
    PROVE  NothingMissing'
<1>1. /\ q' = q /\ li' = 1 /\ ri' = 1 /\ matched' = FALSE /\ batch = Absent /\ call # "end"
  BY FetchGives DEF JoinFetch
<1>2. \A row : row[1] < Here <=> Behind(row)
  BY <1>1 DEF Behind
<1>3. Here' = Here
  <2>1. pos \in Nat
    BY PlaceIs
  <2>2. CASE pos' = pos /\ batch' = batch
    BY <1>1, <2>2 DEF Here
  <2>3. CASE pos' \in Nat /\ pos' > pos /\ batch' \in Seq(Nat) /\ Len(batch') = pos' - pos
    <3>1. batch' # Absent
      BY <2>3, QueryAssumption
    <3>2. Here' = pos' - Len(batch') + 1 /\ Here = pos + 1
      BY <1>1, <3>1 DEF Here
    <3> DEFINE n == Len(batch')
    <3>3. n \in Nat /\ n = pos' - pos /\ pos' \in Nat /\ Here' = pos' - n + 1
      BY <2>3, <3>2
    <3> HIDE DEF n
    <3> QED
      BY <2>1, <3>2, <3>3, Difference
  <2> QED
    BY <2>2, <2>3, FetchGives
<1>4. \A row : BehindNext(row) => Behind(row)
  BY <1>1, <1>2, <1>3 DEF BehindNext
<1>5. out \in Seq(JoinRow) /\ buf \in Seq(JoinRow)
  BY DEF GivenOnce
<1>6. CASE UNCHANGED <<call, buf, out>>
  <2>1. Given' = Given /\ call' # "end"
    BY <1>1, <1>6 DEF Given
  <2> QED
    BY <1>1, <1>4, <2>1, MissingNext DEF NothingMissing, ToSet
<1>7. CASE ~ UNCHANGED <<call, buf, out>>
  <2>1. /\ pos' = pos /\ pos = Len(q.left) /\ batch' = batch /\ buf' = <<>>
        /\ out' \in Seq(JoinRow) /\ Len(out') <= Len(Given)
        /\ \A i \in DOMAIN out' : out'[i] = Given[i]
        /\ \/ out' = Given
           \/ call' = "end" /\ Len(out') = MaxResult
    BY <1>7, FetchGives
  <2>2. Given' = out'
    BY <2>1 DEF Given
  <2>3. Given \in Seq(JoinRow)
    BY <1>5 DEF Given
  <2>4. \A i \in DOMAIN Given' : i \in DOMAIN Given /\ Given'[i] = Given[i]
    <3> DEFINE g == Given
               h == out'
    <3>1. g \in Seq(JoinRow) /\ h \in Seq(JoinRow) /\ Len(h) <= Len(g)
      BY <2>1, <2>3
    <3> HIDE DEF g, h
    <3>2. DOMAIN h \subseteq DOMAIN g
      BY <3>1
    <3> USE DEF g, h
    <3> QED
      BY <2>1, <2>2, <3>2
  <2>5. (call' = "end" => Len(out') < MaxResult) => Given' = Given
    <3>1. Len(out') \in Nat /\ MaxResult \in Nat
      BY <2>1, QueryAssumption
    <3> QED
      BY <2>1, <2>2, <3>1
  <2> HIDE DEF Given
  <2> QED
    BY <1>1, <1>4, <2>1, <2>4, <2>5, MissingNext DEF NothingMissing, ToSet
<1> QED
  BY <1>6, <1>7

\* A left row is left only when its candidates are used up, and with the row of
\* its own if it found none.
LEMMA MissingNextLeft ==
    ASSUME q.op \in Joins, PlaceOK, GivenOnce, NothingMissing, JoinNextLeft
    PROVE  NothingMissing'
<1>1. /\ UNCHANGED <<q, call, pos, batch, out>> /\ call # "end"
      /\ batch # Absent /\ li <= Len(batch) /\ \A r \in Candidates(Left) : r < ri
      /\ li' = li + 1 /\ ri' = 1 /\ matched' = FALSE
  BY NextLeftGives DEF JoinNextLeft
<1>2. Left = Here /\ Here' = Here + 1 /\ Here \in Nat
  BY LoneNew
<1>3. Here \in 1..Len(q.left)
  BY <1>1, PlaceIs DEF PlaceOK
<1>4. q.left \in Seq(Number \cup {Null}) /\ q.right \in Seq(Number \cup {Null}) /\ ri \in Nat \ {0}
  BY DEF PlaceOK
<1>5. Resumable => \A r \in 1..Len(q.right) : Condition(Here, r) => r < ri
  BY <1>1, <1>2, <1>3, <1>4, CandidatesAll
<1>6. \A row : row[1] \in Nat /\ BehindNext(row) => row[1] <= Here
  BY <1>1, <1>2, <1>4 DEF BehindNext
<1>7. Given \in Seq(JoinRow)
  BY DEF GivenOnce, Given
<1> DEFINE lone == <<Left, Null>>
           Adds == ~ matched /\ q.op \in {"left", "left_all"}
<1>8. /\ Adds => \E i \in DOMAIN Given' : Given'[i] = lone
      /\ \A i \in DOMAIN Given : \E k \in DOMAIN Given' : Given'[k] = Given[i]
      /\ \A k \in DOMAIN Given' : (Adds /\ Given'[k] = lone) \/ \E i \in DOMAIN Given : Given'[k] = Given[i]
  <2>1. CASE ~ Adds
    BY <2>1, NextLeftGives
  <2>2. CASE Adds
    <3>1. Given' = Append(Given, lone)
      BY <2>2, NextLeftGives
    <3> DEFINE g == Given
               h == Append(g, lone)
    <3>2. g \in Seq(JoinRow)
      BY <1>7
    <3> HIDE DEF g, lone
    <3>3. /\ DOMAIN g = 1..Len(g) /\ DOMAIN h = 1..(Len(g) + 1) /\ Len(g) \in Nat
          /\ \A i \in 1..Len(g) : h[i] = g[i]
          /\ h[Len(g) + 1] = lone
      BY <3>2
    <3> HIDE DEF h
    <3>4. /\ \E i \in DOMAIN h : h[i] = lone
          /\ \A i \in DOMAIN g : \E k \in DOMAIN h : h[k] = g[i]
          /\ \A k \in DOMAIN h : h[k] = lone \/ \E i \in DOMAIN g : h[k] = g[i]
      BY <3>3
    <3> USE DEF g, h, lone
    <3> QED
      BY <2>2, <3>1, <3>4
  <2> QED
    BY <2>1, <2>2
<1>9. SUFFICES ASSUME Resumable
               PROVE  /\ \A row \in JoinResult : BehindNext(row) => \E i \in DOMAIN Given' : Given'[i] = row
                      /\ \A i \in DOMAIN Given' : Given'[i] \in JoinResult
  BY <1>1, MissingNext
<1>10. /\ \A row \in JoinResult : Behind(row) => \E i \in DOMAIN Given : Given[i] = row
       /\ \A i \in DOMAIN Given : Given[i] \in JoinResult
       /\ q.op # "cross" => (matched <=> \E r \in 1..Len(q.right) : r < ri /\ Condition(Here, r))
  BY <1>1, <1>9 DEF NothingMissing, ToSet
<1>11. ASSUME NEW row \in JoinResult, BehindNext(row)
       PROVE  \E i \in DOMAIN Given' : Given'[i] = row
  <2>1. row[1] \in 1..Len(q.left) /\ row[1] <= Here
    BY <1>6, <1>11, <1>4 DEF JoinResult, Pairs, Alone
  <2>2. CASE Behind(row)
    BY <1>8, <1>10, <2>2
  <2>3. CASE ~ Behind(row)
    <3>1. row[1] = Here
      BY <1>3, <2>1, <2>3 DEF Behind
    <3>2. row \notin Pairs
      <4>1. SUFFICES ASSUME row \in Pairs PROVE FALSE
        OBVIOUS
      <4>2. row[2] \in 1..Len(q.right) /\ Condition(Here, row[2])
        BY <3>1, <4>1 DEF Pairs
      <4>3. row[2] < ri
        BY <1>5, <1>9, <4>2
      <4> QED
        BY <1>1, <1>4, <2>3, <3>1, <4>2, <4>3 DEF Behind
    <3>3. row \in Alone /\ q.op \in {"left", "left_all"}
      BY <3>2 DEF JoinResult
    <3>4. row = lone /\ \A r \in 1..Len(q.right) : ~ Condition(Here, r)
      BY <1>2, <3>1, <3>3 DEF Alone
    <3>5. Adds
      BY <1>10, <3>3, <3>4
    <3> QED
      BY <1>8, <3>4, <3>5
  <2> QED
    BY <2>2, <2>3
<1>12. Adds => lone \in JoinResult
  <2>1. SUFFICES ASSUME Adds PROVE \A r \in 1..Len(q.right) : ~ Condition(Here, r)
    BY <1>2, <1>3 DEF JoinResult, Alone
  <2> QED
    BY <1>5, <1>9, <1>10, <2>1
<1> QED
  BY <1>8, <1>10, <1>11, <1>12

\* A candidate passed over does not match.
LEMMA MissingProbe ==
    ASSUME q.op \in Joins, PlaceOK, GivenOnce, NothingMissing, JoinProbe
    PROVE  NothingMissing'
<1>1. PICK right \in Candidates(Left) :
             /\ batch # Absent /\ li <= Len(batch) /\ IsNext(right) /\ ri' = right + 1
             /\ UNCHANGED <<q, data, pos, li>>
             /\ \/ /\ ~ Condition(Left, right)
                   /\ UNCHANGED <<call, out, buf, batch, matched>>
                \/ /\ Condition(Left, right)
                   /\ out' \in Seq(JoinRow) /\ buf' \in Seq(JoinRow)
                   /\ Len(Given') <= Len(Given) + 1
                   /\ \A i \in DOMAIN Given' : Given'[i] = Append(Given, <<Left, right>>)[i]
                   /\ \/ Given' = Append(Given, <<Left, right>>)
                      \/ call' = "end" /\ Len(out') = MaxResult
                   /\ \/ Len(buf) + 1 < ResultLimit /\ UNCHANGED <<batch, call>> /\ matched'
                      \/ /\ Len(buf) + 1 >= ResultLimit /\ batch' = KeptBatch /\ ~ matched' /\ buf' = <<>>
                         /\ call' = "end" => Len(out') = MaxResult
  BY ProbeGives
<1>2. call # "end"
  BY DEF JoinProbe
<1>3. Left = Here /\ Here \in 1..Len(q.left) /\ ri \in Nat \ {0}
  BY <1>1, PlaceIs DEF PlaceOK
<1>4. q.left \in Seq(Number \cup {Null}) /\ q.right \in Seq(Number \cup {Null})
  BY DEF PlaceOK
<1>5. right \in 1..Len(q.right) /\ right >= ri
  BY <1>1, <1>3, <1>4, CandidatesAll DEF IsNext
<1> DEFINE pair == <<Left, right>>
<1>6. Resumable => \A r \in 1..Len(q.right) : r >= ri /\ Condition(Here, r) => right <= r
  BY <1>1, <1>3, <1>4, CandidatesAll DEF IsNext
<1>7. SUFFICES ASSUME Resumable
               PROVE
             /\ call' = "end" /\ Len(out') < MaxResult => batch' = Absent /\ pos' = Len(q.left) /\ buf' = <<>>
             /\ (call' = "end" => Len(out') < MaxResult) =>
                   \A row \in JoinResult : BehindNext(row) => \E i \in DOMAIN Given' : Given'[i] = row
             /\ \A i \in DOMAIN Given' : Given'[i] \in JoinResult
             /\ q.op # "cross" /\ batch' # Absent /\ li' <= Len(batch') =>
                   (matched' <=> \E r \in 1..Len(q.right) : r < ri' /\ Condition(Here', r))
  BY <1>1, MissingNext
<1>8. /\ \A row \in JoinResult : Behind(row) => \E i \in DOMAIN Given : Given[i] = row
      /\ \A i \in DOMAIN Given : Given[i] \in JoinResult
      /\ q.op # "cross" => (matched <=> \E r \in 1..Len(q.right) : r < ri /\ Condition(Here, r))
  BY <1>1, <1>2, <1>7 DEF NothingMissing, ToSet
<1>9. /\ batch' = batch
      /\ call' = "end" => Len(out') = MaxResult
      /\ q.op # "cross" /\ Condition(Left, right) => matched'
  <2>1. CASE ~ Condition(Left, right)
    BY <1>1, <1>2, <2>1
  <2>2. CASE Condition(Left, right)
    <3>1. q.op # "cross" => Len(buf) + 1 < ResultLimit
      <4>1. ~ Behind(pair)
        BY <1>3, <1>5 DEF Behind
      <4>2. pair \in JoinResult
        BY <1>3, <1>5, <2>2 DEF JoinResult, Pairs
      <4>3. ToSet(Given) \subseteq JoinResult
        BY <1>8 DEF ToSet
      <4> QED
        BY <1>7, <4>1, <4>2, <4>3, NeverFull
    <3>2. Len(buf) \in Nat /\ ResultLimit \in Nat
      BY QueryAssumption DEF GivenOnce
    <3>3. q.op = "cross" => KeptBatch = batch
      BY DEF KeptBatch, HashJoin
    <3> QED
      BY <1>1, <1>2, <2>2, <3>1, <3>2, <3>3
  <2> QED
    BY <2>1, <2>2
<1>10. Here' = Here
  BY <1>1, <1>9 DEF Here
<1>11. \A row \in JoinResult : BehindNext(row) => Behind(row) \/ (Condition(Left, right) /\ row = pair)
  <2>1. TAKE row \in JoinResult
  <2>2. HAVE BehindNext(row) 
  <2>3. SUFFICES ASSUME ~ Behind(row) PROVE Condition(Left, right) /\ row = pair
    OBVIOUS
  <2>4. row[1] = Here /\ row[2] \in 1..right /\ row[2] \notin 1..(ri - 1)
    BY <1>1, <1>5, <1>9, <1>10, <2>2, <2>3 DEF Behind, BehindNext
  <2>5. row \in Pairs
    BY <2>4, QueryAssumption DEF JoinResult, Alone
  <2>6. Condition(Here, row[2]) /\ row[2] \in 1..Len(q.right) /\ row = <<row[1], row[2]>>
    BY <2>4, <2>5 DEF Pairs
  <2>7. row[2] = right
    BY <1>3, <1>5, <1>6, <1>7, <2>4, <2>6
  <2> QED
    BY <1>3, <2>4, <2>6, <2>7
<1>12. (\E r \in 1..Len(q.right) : r < ri' /\ Condition(Here, r))
         <=> (\E r \in 1..Len(q.right) : r < ri /\ Condition(Here, r)) \/ Condition(Left, right)
  BY <1>1, <1>3, <1>4, <1>5, <1>6, <1>7
<1>13. q.op # "cross" => (matched' <=> matched \/ Condition(Left, right))
  BY <1>1, <1>9
<1>14. q.op # "cross" => (matched' <=> \E r \in 1..Len(q.right) : r < ri' /\ Condition(Here', r))
  BY <1>8, <1>10, <1>12, <1>13
<1>15. Len(out') # MaxResult \/ ~ Len(out') < MaxResult
  BY QueryAssumption
<1>16. CASE ~ Condition(Left, right)
  <2>1. Given' = Given
    BY <1>1, <1>16 DEF Given
  <2> QED
    BY <1>8, <1>9, <1>11, <1>14, <1>15, <1>16, <2>1
<1>17. CASE Condition(Left, right)
  <2>1. pair \in JoinResult
    BY <1>3, <1>5, <1>17 DEF JoinResult, Pairs
  <2>2. /\ \A i \in DOMAIN Given' : Given'[i] = pair \/ \E k \in DOMAIN Given : Given'[i] = Given[k]
        /\ (call' = "end" => Len(out') < MaxResult) =>
             /\ \A i \in DOMAIN Given : \E k \in DOMAIN Given' : Given'[k] = Given[i]
             /\ \E k \in DOMAIN Given' : Given'[k] = pair
    <3>1. Given \in Seq(JoinRow) /\ Given' \in Seq(JoinRow)
      <4>1. JoinRow' = JoinRow
        BY <1>1, QueryKept
      <4> QED
        BY <1>1, <1>17, <4>1 DEF GivenOnce, Given
    <3>2. /\ Len(Given') <= Len(Given) + 1 /\ \A i \in DOMAIN Given' : Given'[i] = Append(Given, pair)[i]
          /\ (call' = "end" => Len(out') < MaxResult) => Given' = Append(Given, pair)
      BY <1>1, <1>15, <1>17
    <3> DEFINE g == Given
               h == Given'
               a == Append(g, pair)
    <3>3. g \in Seq(JoinRow) /\ h \in Seq(JoinRow)
      BY <3>1
    <3>4. Len(h) <= Len(g) + 1 /\ \A i \in DOMAIN h : h[i] = a[i]
      BY <3>2
    <3> HIDE DEF g, h, pair
    <3>5. /\ DOMAIN g = 1..Len(g) /\ DOMAIN a = 1..(Len(g) + 1) /\ Len(g) \in Nat /\ DOMAIN h = 1..Len(h) /\ Len(h) \in Nat
          /\ \A i \in 1..Len(g) : a[i] = g[i]
          /\ a[Len(g) + 1] = pair
      BY <3>3
    <3> HIDE DEF a
    <3>6. /\ \E i \in DOMAIN a : a[i] = pair
          /\ \A i \in DOMAIN g : \E k \in DOMAIN a : a[k] = g[i]
          /\ \A k \in DOMAIN a : a[k] = pair \/ \E i \in DOMAIN g : a[k] = g[i]
      BY <3>5
    <3>7. DOMAIN h \subseteq DOMAIN a
      BY <3>4, <3>5
    <3>8. \A k \in DOMAIN h : h[k] = pair \/ \E i \in DOMAIN g : h[k] = g[i]
      BY <3>4, <3>6, <3>7
    <3>9. (call' = "end" => Len(out') < MaxResult) => h = a
      BY <3>2 DEF g, h, a
    <3>10. (call' = "end" => Len(out') < MaxResult) =>
             /\ \A i \in DOMAIN g : \E k \in DOMAIN h : h[k] = g[i]
             /\ \E k \in DOMAIN h : h[k] = pair
      BY <3>6, <3>9
    <3> USE DEF g, h
    <3> QED
      BY <3>8, <3>10
  <2> HIDE DEF pair
  <2> QED
    BY <1>8, <1>9, <1>11, <1>14, <1>15, <2>1, <2>2
<1> QED
  BY <1>16, <1>17


\* The invariant holds at the start.
LEMMA JoinBegins == QueryInit => JoinInv
<1> SUFFICES ASSUME QueryInit, q.op \in Joins
             PROVE  PlaceOK /\ GivenOnce /\ NothingMissing
  BY DEF JoinInv
<1>1. /\ call = "top" /\ data = Absent /\ pos = 0 /\ batch = Absent /\ li = 1 /\ ri = 1 /\ matched = FALSE
      /\ buf = <<>> /\ skipped = 0 /\ returned = 0 /\ out = <<>>
  BY DEF QueryInit
<1>2. /\ q.left \in Seq(Number \cup {Null}) /\ q.right \in Seq(Number \cup {Null})
      /\ q.limit = Absent /\ q.offset = 0
  BY JoinQuery
<1>3. Len(q.left) \in Nat /\ Len(q.right) \in Nat
  BY <1>2
<1>4. PlaceOK
  <2>1. pos \in 0..Len(q.left) /\ li \in Nat \ {0} /\ ri \in Nat \ {0} /\ returned \in Nat
    BY <1>1, <1>3
  <2>2. matched \in BOOLEAN
    BY <1>1
  <2> QED
    BY <1>1, <1>2, <2>1, <2>2, Zenon DEF PlaceOK
<1>5. Given = <<>> /\ DOMAIN Given = {}
  BY <1>1 DEF Given
<1>6. GivenOnce
  BY <1>1, <1>5 DEF GivenOnce
<1>7. \A row \in JoinResult : ~ Behind(row)
  <2>1. Here = 1
    BY <1>1 DEF Here
  <2> QED
    BY <1>1, <1>3, <2>1 DEF Behind, JoinResult, Pairs, Alone
<1>8. NothingMissing
  BY <1>1, <1>5, <1>7 DEF NothingMissing, ToSet
<1> QED
  BY <1>4, <1>6, <1>8

\* The steps a join takes.
LEMMA JoinSteps ==
    ASSUME q.op \in Joins, PlaceOK, QueryNext
    PROVE  Ask \/ JoinFetch \/ JoinProbe \/ JoinNextLeft \/ JoinBatchDone
<1>1. ~ ScanNext /\ ~ Materialize /\ ~ AggregateNext
  BY DEF ScanNext, Materialize, AggregateNext, Joins, NestedLoop, HashJoin, SetOps, Sorts
<1>2. ~ MaterializedNext
  BY DEF MaterializedNext, PlaceOK
<1> QED
  BY <1>1, <1>2 DEF QueryNext

\* Every step keeps it.
LEMMA JoinKept == JoinInv /\ [QueryNext]_queryVars => JoinInv'
<1> SUFFICES ASSUME JoinInv, [QueryNext]_queryVars
             PROVE  JoinInv'
  OBVIOUS
<1>1. CASE UNCHANGED queryVars
  <2>1. UNCHANGED <<q, call, data, pos, batch, li, ri, matched, buf, skipped, returned, out>>
    BY <1>1 DEF queryVars, joinVars, limitVars
  <2>2. PlaceOK' <=> PlaceOK
    BY <2>1 DEF PlaceOK
  <2>3. Given' = Given /\ Here' = Here
    BY <2>1 DEF Given, Here
  <2>4. \A row : BehindNext(row) <=> Behind(row)
    BY <2>1, <2>3 DEF Behind, BehindNext
  <2>5. GivenOnce => GivenOnce'
    BY <2>1, <2>3, <2>4, QueryKept DEF GivenOnce, Behind, BehindNext
  <2>6. NothingMissing => NothingMissing'
    BY <2>1, <2>3, <2>4, MissingNext DEF NothingMissing, ToSet
  <2> QED
    BY <2>1, <2>2, <2>5, <2>6 DEF JoinInv
<1>2. CASE QueryNext
  <2>1. q' = q
    BY <1>2 DEF QueryNext, Ask, ScanNext, Materialize, MaterializedNext, AggregateNext,
                JoinFetch, JoinProbe, JoinNextLeft, JoinBatchDone
  <2>2. CASE q.op \notin Joins
    BY <2>1, <2>2 DEF JoinInv
  <2>3. CASE q.op \in Joins
    <3>1. PlaceOK /\ GivenOnce /\ NothingMissing
      BY <2>3 DEF JoinInv
    <3>2. Ask \/ JoinFetch \/ JoinProbe \/ JoinNextLeft \/ JoinBatchDone
      BY <1>2, <2>3, <3>1, JoinSteps
    <3>3. PlaceOK'
      BY <2>3, <3>1, <3>2, PlaceKept
    <3>4. GivenOnce'
      BY <2>3, <3>1, <3>2, OnceStep
    <3>5. NothingMissing'
      BY <2>3, <3>1, <3>2, MissingAsk, MissingFetch, MissingProbe, MissingNextLeft
    <3> QED
      BY <3>3, <3>4, <3>5 DEF JoinInv
  <2> QED
    BY <2>2, <2>3
<1> QED
  BY <1>1, <1>2

\* The inductive invariant of the joins (executor.rs, NestedLoopJoinOperator and
\* HashJoinOperator): in every state what a join has given out is what lies
\* behind the place it is at, each row once.
THEOREM JoinInvariant == QuerySpec => []JoinInv
<1> QED
  BY JoinBegins, JoinKept, PTL DEF QuerySpec

\* It implies what is promised of a join.
LEMMA JoinInvExact == JoinInv => JoinExact
<1> SUFFICES ASSUME JoinInv
             PROVE  JoinExact
  OBVIOUS
<1>1. ASSUME q.op \in Joins
      PROVE  /\ ToSet(out) \subseteq JoinRow
             /\ Cardinality(ToSet(out)) = Len(out)
  <2>1. GivenOnce
    BY <1>1 DEF JoinInv
  <2>2. out \in Seq(JoinRow) /\ buf \in Seq(JoinRow)
    BY <2>1 DEF GivenOnce
  <2>3. \A i \in DOMAIN out : i \in DOMAIN Given /\ Given[i] = out[i]
    BY <2>2 DEF Given
  <2>4. \A i, j \in DOMAIN out : out[i] = out[j] => i = j
    BY <2>1, <2>3 DEF GivenOnce
  <2> QED
    BY <2>2, <2>4, OnceCounts DEF ToSet
<1>2. JoinSound
  BY <1>1 DEF JoinSound, JoinRow
<1>3. ASSUME Finished, Len(out) < MaxResult, Resumable
      PROVE  ToSet(out) = JoinResult
  <2>1. q.op \in Joins
    BY <1>3 DEF Resumable, Joins, NestedLoop, HashJoin
  <2>2. PlaceOK /\ GivenOnce /\ NothingMissing
    BY <2>1 DEF JoinInv
  <2>3. batch = Absent /\ pos = Len(q.left) /\ buf = <<>>
    BY <1>3, <2>2 DEF NothingMissing, Finished
  <2>4. Given = out
    BY <2>2, <2>3 DEF Given, GivenOnce
  <2>5. \A row \in JoinResult : Behind(row)
    <3>1. Here = Len(q.left) + 1 /\ Len(q.left) \in Nat
      BY <2>2, <2>3, PlaceIs DEF Here
    <3>2. \A row \in JoinResult : row[1] \in 1..Len(q.left)
      BY DEF JoinResult, Pairs, Alone
    <3> QED
      BY <3>1, <3>2 DEF Behind
  <2> QED
    BY <1>3, <2>2, <2>4, <2>5 DEF NothingMissing
<1>4. JoinComplete
  BY <1>3 DEF JoinComplete
<1> QED
  BY <1>2, <1>4 DEF JoinExact

\* A join returns only rows SQL gives it, none twice, and a complete one every
\* row there is, for any tables, batch sizes and limits.
THEOREM JoinsAreExact == QuerySpec => []JoinExact
<1> QED
  BY JoinInvariant, JoinInvExact, PTL

=============================================================================
