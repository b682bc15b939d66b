------------------------------- MODULE MCMvcc -------------------------------
(***************************************************************************)
(* What TLC needs to explore Mvcc: transactions are interchangeable, and   *)
(* two states are the same if they differ only in what no later step and   *)
(* no property looks at, or in the distance between timestamps, which the  *)
(* code only compares.                                                     *)
(***************************************************************************)
EXTENDS Mvcc, Sequences, SequencesExt

CONSTANT MaxCalls   \* bound: calls under way at the same time

Beginning(t) == pc[t] \in {"beginActive", "beginInsert"}
Reading(t) == Beginning(t) \/ pc[t] \in {"ready", "locking", "granted"}

\* A start is compared while its transaction may read or holds the watermark
\* back, or when it is collected after an abort; a commit timestamp until its
\* transaction is collected.
StartMatters(t) == Reading(t) \/ state[t] \in {"Active", "Aborted"}
CommitMatters(t) == pc[t] \in {"commitPrepare", "commitVersions"} \/ state[t] = "Committed"
                      \/ pc[t] = "commitState"

LiveTs ==
    {start[t] : t \in {u \in Tx : StartMatters(u)}}
      \cup {commitTs[t] : t \in {u \in Tx : CommitMatters(u)}}
      \cup UNION {{v.ts : v \in versions[k]} : k \in Key}
      \cup (IF gc.at = "idle" THEN {} ELSE {gc.min})

Rank(n) == Cardinality({m \in LiveTs : m < n})

TxView(t) ==
    [pc |-> pc[t], state |-> state[t],
     start |-> IF StartMatters(t) THEN Rank(start[t]) ELSE NoTs,
     commit |-> IF CommitMatters(t) THEN Rank(commitTs[t]) ELSE NoTs,
     reads |-> IF Reading(t) THEN <<active[t], seen[t], clean[t]>> ELSE <<>>,
     writes |-> IF pc[t] \in {"release", "done", "failed", "commitState"} THEN {} ELSE writeSet[t],
     key |-> IF pc[t] \in {"locking", "granted"} THEN wkey[t] ELSE CHOOSE k \in Key : TRUE]

MCView ==
    <<[t \in Tx |-> TxView(t)],
      [k \in Key |-> {[v EXCEPT !.ts = Rank(@)] : v \in versions[k]}],
      holders, waiters, writes,
      [gc EXCEPT !.min = IF gc.at = "idle" THEN 0 ELSE Rank(@)]>>

InCall == {t \in Tx : pc[t] \notin {"new", "ready", "done", "failed"}}

FewCalls == Cardinality(InCall) + (IF gc.at = "idle" THEN 0 ELSE 1) <= MaxCalls

TxSymmetry == Permutations(Tx)

-----------------------------------------------------------------------------
(* gc_version_chain as the code has it, a recursion along prev_version, on a *)
(* chain given as a sequence, its head first.                               *)

GcStep(v, rest, min) ==
    CASE rest = <<>> -> <<v>>
      [] rest # <<>> /\ Head(rest).state = "Aborted" -> <<v>> \o Tail(rest)
      [] rest # <<>> /\ Head(rest).state # "Aborted" ->
           IF v.state = "Committed" /\ Head(rest).state = "Committed"
                /\ Head(rest).ts < min /\ v.ts < min
             THEN <<v>>
             ELSE <<v>> \o rest

GcRecursively(chain, min) == FoldRight(LAMBDA v, rest : GcStep(v, rest, min), chain, <<>>)

GcStates == {[state |-> s, ts |-> n] : s \in {"Committed"}, n \in 1..2}
              \cup {[state |-> "Active", ts |-> NoTs], [state |-> "Aborted", ts |-> NoTs]}

Numbered(chain) ==
    [i \in DOMAIN chain |-> [state |-> chain[i].state, ts |-> chain[i].ts, at |-> Len(chain) - i + 1]]

\* On every chain of up to five versions the recursion leaves what
\* GcVersionChain says.
ASSUME GcAssumption ==
    \A n \in 1..5 : \A chain \in [1..n -> GcStates] :
        LET c == Numbered(chain)
        IN  ToSet(GcRecursively(c, 2)) = GcVersionChain(ToSet(c), 2)
=============================================================================
