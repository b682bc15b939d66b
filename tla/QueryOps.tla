------------------------------ MODULE QueryOps ------------------------------
(***************************************************************************)
(* The pull-based operators of the SQL executor (executor.rs): scan,       *)
(* filter, sort, nested-loop and hash join, grouping, set operations, and  *)
(* LIMIT and OFFSET on top, drained by execute_query.                      *)
(*                                                                         *)
(* A query runs alone; what is hard here is the state an operator carries  *)
(* from one next_batch call to the next.  A step is one iteration of a     *)
(* loop in a next_batch.  The operator under the limit pulls batches of    *)
(* ScanBatch rows and returns early when it has ResultLimit rows; both are *)
(* 1024 in the code.                                                       *)
(*                                                                         *)
(* A row is its position in its table, and the one column an operator      *)
(* looks at is q.left or q.right.  A value is Null or a number with its    *)
(* type; comparison looks at the number, hashing at both.  For a grouped   *)
(* query q.left is the GROUP BY column and q.right the aggregated one, of  *)
(* the same table.                                                         *)
(***************************************************************************)
EXTENDS Expressions, Sequences, FiniteSets, SequencesExt

CONSTANTS
    Absent,        \* None: no LIMIT, no batch
    Number,        \* non-null values: [type, n]
    Predicates,    \* WHERE clauses
    Ops,           \* operators a query may have below the limit
    ScanBatch,     \* rows per scanned batch
    ResultLimit,   \* rows at which a join returns early
    MaxResult,     \* MAX_RESULT_ROWS
    MaxRows,       \* bound: rows of a table
    Limits,        \* LIMITs
    Offsets        \* OFFSETs

ASSUME QueryAssumption ==
    /\ ScanBatch \in Nat \ {0} /\ ResultLimit \in Nat \ {0}
    /\ MaxResult \in Nat /\ MaxRows \in Nat
    /\ Limits \subseteq Nat \cup {Absent} /\ Offsets \subseteq Nat
    /\ Number \subseteq [type : STRING, n : Int] /\ Null \notin Nat
    /\ Absent \notin Seq(Nat) \cup Seq(Nat \X (Nat \cup {Null}))

VARIABLES
    q,         \* the query: [op, left, right, where, limit, offset]
    call,      \* "top": execute_query asks; "op": the operator's next_batch
               \* runs; "end": the result is returned
    data,      \* sorted_data, or the result of a set operation; or Absent
    pos,       \* rows of the input, or of data, given out so far
    batch,     \* left_batch, the positions of its rows, or Absent
    li, ri,    \* left_row_idx and right_row_idx, or the place in the bucket, from 1
    matched,   \* the current left row has a match
    buf,       \* result_rows of the running call
    skipped,   \* rows_skipped
    returned,  \* rows_returned
    out        \* all_rows

joinVars == <<batch, li, ri, matched, buf>>
limitVars == <<skipped, returned, out>>
queryVars == <<q, call, data, pos, joinVars, limitVars>>

NestedLoop == {"cross", "left_all"}           \* choose_join_strategy: no condition
HashJoin == {"inner", "left", "less"}         \* every join with a condition
Sorts == {"sort", "sort_desc"}
SetOps == {"union_all", "union", "intersect", "except"}
Joins == NestedLoop \cup HashJoin
Column == UNION {[1..n -> Number \cup {Null}] : n \in 0..MaxRows}

\* Queries that differ in columns an operator does not read are one query; a
\* limit is put on the operators that return several batches whatever they hold.
Query ==
    LET Limited(ops, right, where) ==
            [op : ops \cap Ops, left : Column, right : right, where : where,
             limit : Limits, offset : Offsets]
        Plain(ops, right, where) ==
            [op : ops \cap Ops, left : Column, right : right, where : where,
             limit : {Absent}, offset : {0}]
    IN  UNION {Limited({"scan"} \cup Sorts, {<<>>}, {Absent}),
               Limited({"filter"}, {<<>>}, {p \in Predicates : p.form = "null"}),
               Limited({"union_all"}, Column, {Absent}),
               Plain({"filter"}, {<<>>}, Predicates),
               Plain(Joins \cup SetOps, Column, {Absent}),
               {r \in Plain({"group", "total"}, Column, {Absent}) : Len(r.left) = Len(r.right)}}

QueryInit ==
    /\ q \in Query
    /\ call = "top" /\ data = Absent /\ pos = 0
    /\ batch = Absent /\ li = 1 /\ ri = 1 /\ matched = FALSE /\ buf = <<>>
    /\ skipped = 0 /\ returned = 0 /\ out = <<>>

-----------------------------------------------------------------------------
(* Values.                                                                  *)

\* A comparison of two columns; NULL makes it neither.
Equal(v, w) == v # Null /\ w # Null /\ v.n = w.n
Less(v, w) == v # Null /\ w # Null /\ v.n < w.n

\* The join condition on a pair of rows.
Condition(l, r) ==
    CASE q.op \in NestedLoop       -> TRUE
      [] q.op \in {"inner", "left"} -> Equal(q.left[l], q.right[r])
      [] q.op = "less"             -> Less(q.left[l], q.right[r])

\* The rows of the right side a left row is compared with, in their order: all
\* of them in a nested loop, its bucket in a hash join, and none in a hash join
\* whose condition is not an equality of two columns.
Candidates(l) ==
    CASE q.op \in NestedLoop        -> 1..Len(q.right)
      [] q.op \in {"inner", "left"} -> {r \in 1..Len(q.right) : q.right[r] = q.left[l]}
      [] q.op = "less"              -> {}

-----------------------------------------------------------------------------
(* Operators that compute their whole result on the first call.             *)

\* The first of equal rows, as `seen.insert` keeps them (deduplicate_rows).
KeepFirst(s) ==
    LET New(i) == \A j \in 1..(i - 1) : s[j] # s[i]
        kept == SelectSeq([i \in 1..Len(s) |-> i], New)
    IN  [n \in 1..Len(kept) |-> s[kept[n]]]

SetOperation ==
    LET InRight(v) == Contains(q.right, v)
        NotInRight(v) == ~ Contains(q.right, v)
    IN  CASE q.op = "union_all" -> q.left \o q.right
          [] q.op = "union"     -> KeepFirst(q.left \o q.right)
          [] q.op = "intersect" -> KeepFirst(SelectSeq(q.left, InRight))
          [] q.op = "except"    -> KeepFirst(SelectSeq(q.left, NotInRight))

Fresh == [count |-> 0, sum |-> 0, min |-> Null, max |-> Null]

\* One accumulator stands for COUNT, SUM, MIN and MAX side by side.
Accumulate(acc, v) ==
    IF v = Null THEN acc
    ELSE [count |-> acc.count + 1,
          sum   |-> acc.sum + v.n,
          min   |-> IF acc.min = Null \/ v.n < acc.min.n THEN v ELSE acc.min,
          max   |-> IF acc.max = Null \/ v.n > acc.max.n THEN v ELSE acc.max]

\* The rows of one group, in their order.
Aggregate(group) ==
    FoldLeft(LAMBDA acc, i : IF i \in group THEN Accumulate(acc, q.right[i]) ELSE acc,
             Fresh, [i \in 1..Len(q.right) |-> i])

\* Groups in the order they are first seen; without GROUP BY there is one,
\* over an empty table too.
Grouping ==
    LET keys == KeepFirst(q.left)
        Of(k) == [key |-> k, acc |-> Aggregate({i \in 1..Len(q.left) : q.left[i] = k})]
    IN  IF q.op = "total" THEN <<[key |-> Null, acc |-> Aggregate(1..Len(q.left))]>>
                          ELSE [g \in 1..Len(keys) |-> Of(keys[g])]

\* sort_by puts a row behind the last one it does not precede: an insertion
\* sort, as the standard library does it for up to 20 rows.  For more rows
\* the order it gives is another one if precedence is not transitive, which
\* NULLs make it.
InsertRow(sorted, row) ==
    LET ahead == IF q.op = "sort" THEN "Less" ELSE "Greater"
        Stops(r) == CompareValues(q.left[row], q.left[r]) # ahead
    IN  InsertAt(sorted, SelectLastInSeq(sorted, Stops) + 1, row)

SortedRows ==
    LET first[n \in 0..Len(q.left)] == IF n = 0 THEN <<>> ELSE InsertRow(first[n - 1], n)
    IN  first[Len(q.left)]

-----------------------------------------------------------------------------
(* The limit, and execute_query above it.                                   *)

\* rows gathered so far become the result, cut at MAX_RESULT_ROWS.
Gather(rows) ==
    LET all == out \o rows
    IN  IF Len(all) > MaxResult
          THEN out' = SubSeq(all, 1, MaxResult) /\ call' = "end"
          ELSE out' = all /\ call' = "top"

\* What LimitOperator does with the batch b its input returned.
Deliver(b) ==
    IF b = Absent
      THEN call' = "end" /\ UNCHANGED limitVars
      ELSE LET toSkip == IF skipped < q.offset THEN q.offset - skipped ELSE 0
               rest == SubSeq(b, toSkip + 1, Len(b))
               taken == IF q.limit # Absent /\ Len(rest) > q.limit - returned
                          THEN SubSeq(rest, 1, q.limit - returned) ELSE rest
           IN  IF toSkip > 0 /\ toSkip >= Len(b)
                 THEN /\ skipped' = skipped + Len(b)
                      /\ call' = "op" /\ UNCHANGED <<returned, out>>
                 ELSE /\ skipped' = skipped + toSkip
                      /\ IF taken = <<>> THEN call' = "op" /\ UNCHANGED <<returned, out>>
                         ELSE returned' = returned + Len(taken) /\ Gather(taken)

\* execute_query calls next_batch; a limit that is reached ends it.
Ask ==
    /\ call = "top"
    /\ call' = IF q.limit # Absent /\ returned >= q.limit THEN "end" ELSE "op"
    /\ UNCHANGED <<q, data, pos, joinVars, limitVars>>

-----------------------------------------------------------------------------
(* next_batch of the operator below.                                        *)

Upto(n, rows) == IF pos + n < rows THEN pos + n ELSE rows

\* Mutant: a batch in which no row passes is read again.
ScanStays ==
    /\ call = "op" /\ q.op \in {"scan", "filter"}
    /\ LET end == Upto(ScanBatch, Len(q.left))
           Kept(v) == q.op = "filter" => Passes(q.where, v)
           rows == SelectSeq(SubSeq(q.left, pos + 1, end), Kept)
       IN  /\ pos' = IF rows = <<>> THEN pos ELSE end
           /\ IF pos >= Len(q.left) THEN Deliver(Absent)
              ELSE IF rows = <<>> THEN UNCHANGED <<call, limitVars>>
              ELSE Deliver(rows)
    /\ UNCHANGED <<q, data, joinVars>>

\* ScanOperator, and FilterOperator over it: a batch in which no row passes is
\* skipped.
ScanNext ==
    /\ call = "op" /\ q.op \in {"scan", "filter"}
    /\ LET end == Upto(ScanBatch, Len(q.left))
           Kept(v) == q.op = "filter" => Passes(q.where, v)
           rows == SelectSeq(SubSeq(q.left, pos + 1, end), Kept)
       IN  /\ pos' = end
           /\ IF pos >= Len(q.left) THEN Deliver(Absent)
              ELSE IF rows = <<>> THEN UNCHANGED <<call, limitVars>>
              ELSE Deliver(rows)
    /\ UNCHANGED <<q, data, joinVars>>

\* SetOperationOperator and SortOperator drain their input in the first call.
Materialize ==
    /\ call = "op" /\ q.op \in SetOps \cup Sorts /\ data = Absent
    /\ data' = IF q.op \in Sorts THEN SortedRows ELSE SetOperation
    /\ UNCHANGED <<q, call, pos, joinVars, limitVars>>

\* They give their result out in batches of 1024.
MaterializedNext ==
    /\ call = "op" /\ data # Absent
    /\ LET end == Upto(ResultLimit, Len(data))
       IN  /\ pos' = end
           /\ Deliver(IF pos >= Len(data) THEN Absent ELSE SubSeq(data, pos + 1, end))
    /\ UNCHANGED <<q, data, joinVars>>

\* AggregateOperator gives it out at once, even when it is empty.
AggregateNext ==
    /\ call = "op" /\ q.op \in {"group", "total"}
    /\ pos' = 1
    /\ Deliver(IF pos = 1 THEN Absent ELSE Grouping)
    /\ UNCHANGED <<q, data, joinVars>>

\* A join's call begins a left batch, or ends with what it has gathered.
JoinFetch ==
    /\ call = "op" /\ q.op \in Joins /\ batch = Absent
    /\ IF pos < Len(q.left)
         THEN LET end == Upto(ScanBatch, Len(q.left))
              IN  /\ batch' = [i \in 1..(end - pos) |-> pos + i]
                  /\ pos' = end
                  /\ UNCHANGED <<call, buf, limitVars>>
         ELSE /\ Deliver(IF buf = <<>> THEN Absent ELSE buf)
              /\ buf' = <<>>
              /\ UNCHANGED <<batch, pos>>
    /\ li' = 1 /\ ri' = 1 /\ matched' = FALSE
    /\ UNCHANGED <<q, data>>

Left == batch[li]

\* The loop over the candidates has come to this one.
IsNext(right) == right >= ri /\ \A r \in Candidates(Left) : r >= ri => right <= r

\* The left batch after a call that returns early: the nested loop keeps it in
\* left_batch, the hash join has it in a local.
KeptBatch == IF q.op \in HashJoin THEN Absent ELSE batch

\* Mutant: a call that returns early has not moved on.
ProbeStays ==
    /\ call = "op" /\ q.op \in Joins /\ batch # Absent /\ li <= Len(batch)
    /\ \E right \in Candidates(Left) :
         LET rows == IF Condition(Left, right) THEN Append(buf, <<Left, right>>) ELSE buf
             full == Condition(Left, right) /\ Len(rows) >= ResultLimit
         IN  /\ IsNext(right)
             /\ ri' = IF full THEN right ELSE right + 1
             /\ IF full
                  THEN /\ Deliver(rows) /\ buf' = <<>> /\ matched' = FALSE
                       /\ batch' = KeptBatch
                  ELSE /\ buf' = rows /\ matched' = (matched \/ rows # buf)
                       /\ UNCHANGED <<call, limitVars, batch>>
    /\ UNCHANGED <<q, data, pos, li>>

\* Mutant: the nested loop, too, goes on with the next batch.
ProbeDropsBatch ==
    /\ call = "op" /\ q.op \in Joins /\ batch # Absent /\ li <= Len(batch)
    /\ \E right \in Candidates(Left) :
         LET rows == IF Condition(Left, right) THEN Append(buf, <<Left, right>>) ELSE buf
             full == Condition(Left, right) /\ Len(rows) >= ResultLimit
         IN  /\ IsNext(right)
             /\ ri' = right + 1
             /\ IF full
                  THEN /\ Deliver(rows) /\ buf' = <<>> /\ matched' = FALSE
                       /\ batch' = Absent
                  ELSE /\ buf' = rows /\ matched' = (matched \/ rows # buf)
                       /\ UNCHANGED <<call, limitVars, batch>>
    /\ UNCHANGED <<q, data, pos, li>>

\* One candidate of the right side.  When the call has gathered ResultLimit
\* rows it returns; the nested loop goes on from left_batch, left_row_idx and
\* right_row_idx in the next call, where `matched` is false again, and the
\* hash join with the next batch.
JoinProbe ==
    /\ call = "op" /\ q.op \in Joins /\ batch # Absent /\ li <= Len(batch)
    /\ \E right \in Candidates(Left) :
         LET rows == IF Condition(Left, right) THEN Append(buf, <<Left, right>>) ELSE buf
             full == Condition(Left, right) /\ Len(rows) >= ResultLimit
         IN  /\ IsNext(right)
             /\ ri' = right + 1
             /\ IF full
                  THEN /\ Deliver(rows) /\ buf' = <<>> /\ matched' = FALSE
                       /\ batch' = KeptBatch
                  ELSE /\ buf' = rows /\ matched' = (matched \/ rows # buf)
                       /\ UNCHANGED <<call, limitVars, batch>>
    /\ UNCHANGED <<q, data, pos, li>>

\* The candidates are used up: a left join adds the row that found none.
JoinNextLeft ==
    /\ call = "op" /\ q.op \in Joins /\ batch # Absent
    /\ li <= Len(batch) /\ \A r \in Candidates(Left) : r < ri
    /\ buf' = IF ~ matched /\ q.op \in {"left", "left_all"} THEN Append(buf, <<Left, Null>>) ELSE buf
    /\ li' = li + 1 /\ ri' = 1 /\ matched' = FALSE
    /\ UNCHANGED <<q, call, data, pos, batch, limitVars>>

JoinBatchDone ==
    /\ call = "op" /\ q.op \in Joins /\ batch # Absent
    /\ li > Len(batch)
    /\ batch' = Absent
    /\ UNCHANGED <<q, call, data, pos, li, ri, matched, buf, limitVars>>

QueryNext ==
    \/ Ask \/ ScanNext \/ Materialize \/ MaterializedNext \/ AggregateNext
    \/ JoinFetch \/ JoinProbe \/ JoinNextLeft \/ JoinBatchDone

QuerySpec == QueryInit /\ [][QueryNext]_queryVars

QueryFairSpec == QuerySpec /\ WF_queryVars(QueryNext)

-----------------------------------------------------------------------------
(* Correctness.                                                             *)

Finished == call = "end"

\* What SQL says a join returns: every pair of rows that satisfies the
\* condition, and for an outer join every left row that has no partner.
Pairs == {p \in (1..Len(q.left)) \X (1..Len(q.right)) : Condition(p[1], p[2])}
Alone == {<<l, Null>> : l \in {k \in 1..Len(q.left) : \A r \in 1..Len(q.right) : ~ Condition(k, r)}}
JoinResult == IF q.op \in {"left", "left_all"} THEN Pairs \cup Alone ELSE Pairs

\* A join never returns a pair that does not satisfy the condition, and
\* returns no row twice, however its calls resume.
JoinSound ==
    q.op \in Joins => /\ ToSet(out) \subseteq Pairs \cup {<<l, Null>> : l \in 1..Len(q.left)}
                      /\ Cardinality(ToSet(out)) = Len(out)

\* The joins that are complete: the nested loop; the hash join on columns of
\* one type whose result stays below the size at which a call returns early.
Resumable ==
    \/ q.op = "cross"
    \/ /\ q.op \in {"inner", "left", "left_all"} /\ Cardinality(JoinResult) < ResultLimit
       /\ \A l \in 1..Len(q.left), r \in 1..Len(q.right) :
             Equal(q.left[l], q.right[r]) => q.left[l].type = q.right[r].type

\* Such a join returns every row there is.
JoinComplete == Finished /\ Len(out) < MaxResult /\ Resumable => ToSet(out) = JoinResult

\* What a join returns is right at every step and all of it at the end, however
\* often it returns early and is called again.
JoinExact == JoinSound /\ JoinComplete

\* A predicate keeps the rows for which SQL says it is true; with a NULL in the
\* row or in a literal only if it is built of comparisons, IS NULL and AND.
WhereDecided == NullSafe(q.where) \/ (Null \notin ToSet(q.left) /\ NullFree(q.where))

\* ORDER BY, with rows that compare equal in the order they had.
Ordered ==
    LET Ahead(l, r) == IF q.op = "sort" THEN q.left[l].n < q.left[r].n ELSE q.left[l].n > q.left[r].n
        Place(r) == Cardinality({l \in 1..Len(q.left) : Ahead(l, r) \/ (~ Ahead(r, l) /\ l <= r)})
    IN  [i \in 1..Len(q.left) |-> CHOOSE r \in 1..Len(q.left) : Place(r) = i]

\* Sorting loses no row and puts them in order, if the column has no NULL.
SortExact ==
    Finished /\ q.op \in Sorts /\ q.limit = Absent /\ q.offset = 0 /\ Len(q.left) <= MaxResult =>
        /\ Len(out) = Len(q.left) /\ ToSet(out) = 1..Len(q.left)
        /\ Null \notin ToSet(q.left) => out = Ordered

\* The rows that arrive at LIMIT and OFFSET.
Unlimited ==
    CASE q.op = "scan"   -> q.left
      [] q.op = "filter" -> SelectSeq(q.left, LAMBDA v : SqlValue(q.where, v) = TRUE)
      [] q.op \in Sorts  -> data
      [] q.op \in SetOps -> SetOperation
      [] q.op \in {"group", "total"} -> Grouping

\* LIMIT and OFFSET cut the rows at the right places although they arrive in
\* batches, some of which are skipped, cut or empty (LimitOperator).
LimitExact ==
    Finished /\ q.op \notin Joins /\ (q.op = "filter" => WhereDecided) =>
        LET all == Unlimited
            last == IF q.limit = Absent THEN Len(all) ELSE q.offset + q.limit
            wanted == SubSeq(all, q.offset + 1, IF last < Len(all) THEN last ELSE Len(all))
        IN  out = SubSeq(wanted, 1, IF Len(wanted) < MaxResult THEN Len(wanted) ELSE MaxResult)

\* The set operations return each row once, and are those of set algebra.
SetAlgebra ==
    Finished /\ q.op \in {"union", "intersect", "except"} =>
        LET l == ToSet(q.left)
            r == ToSet(q.right)
        IN  /\ Cardinality(ToSet(out)) = Len(out)
            /\ Len(out) < MaxResult => ToSet(out) = CASE q.op = "union"     -> l \cup r
                                                      [] q.op = "intersect" -> l \cap r
                                                      [] q.op = "except"    -> l \ r

\* Grouping partitions the rows: no group twice or missing, and each
\* aggregate is that of the non-null values of its group.
GroupsPartition ==
    Finished /\ q.op \in {"group", "total"} =>
        LET In(g) == {i \in 1..Len(q.left) : /\ q.op = "group" => q.left[i] = out[g].key
                                             /\ q.right[i] # Null}
            Extreme(v, S, LE(_, _)) == IF S = {} THEN v = Null
                                       ELSE \E i \in S : v = q.right[i] /\ \A j \in S : LE(v.n, q.right[j].n)
        IN  /\ q.op = "group" => /\ {out[g].key : g \in DOMAIN out} = ToSet(q.left)
                                 /\ Cardinality(ToSet(q.left)) = Len(out)
            /\ \A g \in DOMAIN out :
                  LET acc == out[g].acc
                  IN  /\ acc.count = Cardinality(In(g))
                      /\ Extreme(acc.min, In(g), LAMBDA a, b : a <= b)
                      /\ Extreme(acc.max, In(g), LAMBDA a, b : a >= b)

\* A finished query that is no join returned what SQL asks for, although its
\* operators resume from batch to batch: its rows (for WHERE those three-valued
\* logic keeps) cut at LIMIT and OFFSET, ORDER BY a sorted permutation, the set
\* operations those of set algebra, grouping a partition.
ResultExact == LimitExact /\ SortExact /\ SetAlgebra /\ GroupsPartition

\* A query ends: no loop over batches waits for rows that never come.
QueryEnds == <>Finished

-----------------------------------------------------------------------------
(* The inductive invariant of a join: what it has returned is what lies     *)
(* behind the place it is at.                                               *)

Given == out \o buf
JoinRow == Pairs \cup {<<l, Null>> : l \in 1..Len(q.left)}

\* The left row it is at, or will be.
Here == IF batch = Absent THEN pos + 1 ELSE pos - Len(batch) + li
Behind(row) ==
    \/ row[1] < Here
    \/ batch # Absent /\ li <= Len(batch) /\ row[1] = Here /\ row[2] \in 1..(ri - 1)

PlaceOK ==
    /\ q.left \in Seq(Number \cup {Null}) /\ q.right \in Seq(Number \cup {Null})
    /\ q.limit = Absent /\ q.offset = 0
    /\ data = Absent /\ skipped = 0 /\ returned \in Nat
    /\ pos \in 0..Len(q.left)
    /\ li \in Nat \ {0} /\ ri \in Nat \ {0} /\ matched \in BOOLEAN
    /\ batch # Absent => /\ batch \in Seq(Nat) /\ li <= Len(batch) + 1 /\ Len(batch) <= pos
                         /\ \A i \in 1..Len(batch) : batch[i] = pos - Len(batch) + i

GivenOnce ==
    /\ out \in Seq(JoinRow) /\ buf \in Seq(JoinRow)
    /\ \A i \in DOMAIN Given : Behind(Given[i])
    /\ \A i, j \in DOMAIN Given : Given[i] = Given[j] => i = j

\* No row behind the place is missing, and an outer join knows of the left row
\* it is at whether it has found a partner.
NothingMissing ==
    Resumable =>
      /\ call = "end" /\ Len(out) < MaxResult => batch = Absent /\ pos = Len(q.left) /\ buf = <<>>
      /\ (call = "end" => Len(out) < MaxResult) =>
            \A row \in JoinResult : Behind(row) => row \in ToSet(Given)
      /\ ToSet(Given) \subseteq JoinResult
      /\ q.op # "cross" /\ batch # Absent /\ li <= Len(batch) =>
            (matched <=> \E r \in 1..Len(q.right) : r < ri /\ Condition(Here, r))

JoinInv == q.op \in Joins => PlaceOK /\ GivenOnce /\ NothingMissing
=============================================================================
