----------------------------- MODULE MCTwoPhase -----------------------------
(***************************************************************************)
(* An instance of TwoPhase for TLC: two transactions that write a common   *)
(* key, the second one reading another key as well.                        *)
(***************************************************************************)
EXTENDS TwoPhase, TLC

CONSTANTS
    t1, t2, x, y,
    MaxCalls    \* bound: requests being handled at the same time

MCOps == (t1 :> {[key |-> x, write |-> TRUE]})
           @@ (t2 :> {[key |-> y, write |-> FALSE], [key |-> x, write |-> TRUE]})
\* The prepare requests of the first transaction are sent a second time.
MCAttempts == (t1 :> 2) @@ (t2 :> 1)

\* Two states are the same if they differ in what a careful caller no longer
\* looks at: votes of a transaction that is not Preparing any more, and
\* messages whose delivery changes nothing from now on.
Spent(m) ==
    \/ m.type = "PrepareResponse" /\ state[m.txn] # "Preparing"
    \/ m.type = "AbortAck" /\ state[m.txn] \in {"Aborted", "gone"}
    \/ m.type = "CommitAck" /\ state[m.txn] = "gone"

MCView ==
    <<state, [t \in Txn |-> IF state[t] = "Preparing" THEN vote[t] ELSE <<>>],
      acked, pending, locked, committed, applied, calls, {m \in net : ~ Spent(m)},
      attempts, losses, told, {p \in raced : Cardinality(p) = 2}>>

\* Handlers of different nodes share nothing.
InCall == UNION {calls[s] : s \in Steps}
FewCalls == Cardinality(InCall) <= MaxCalls /\ \A m, p \in InCall : m.node = p.node

\* One thing at a time: a lost message, requests that a node handles side by
\* side, or a second round of prepare requests.
Overlaps == IF Cardinality(InCall) > 1 \/ {t1, t2} \in raced THEN 1 ELSE 0
Repeats == IF attempts[t1] > 1 THEN 1 ELSE 0
OneUpset == losses + Overlaps + Repeats <= 1

NodeSymmetry == Permutations(Node)
=============================================================================
