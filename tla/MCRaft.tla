------------------------------- MODULE MCRaft -------------------------------
(***************************************************************************)
(* Raft on a small cluster of interchangeable nodes.                       *)
(***************************************************************************)
EXTENDS Raft, TLC

CONSTANT MaxAppends  \* bound: AppendEntries messages sent altogether

Symmetry == Permutations(Node)

Constraint == Cardinality({m \in msgs : m.type = "AppendEntries"}) <= MaxAppends

(***************************************************************************)
(* States that differ only in what no later step of the bounded model can  *)
(* notice are one state to TLC: the votes of a node that is no candidate   *)
(* and the peer indices of one that does not lead, which are reset before  *)
(* they are read, and messages that are spent.                             *)
(***************************************************************************)

\* A node in the last term that follows will not lead again.
Retired(n) == currentTerm[n] = MaxTerm /\ role[n] = "Follower"

\* Delivering a spent message changes nothing, now or later.
Spent(m) ==
    CASE m.type = "VoteResponse" ->
           /\ m.term <= currentTerm[m.to]
           /\ m.term = currentTerm[m.to] /\ role[m.to] = "Candidate" => ~ m.granted
      [] m.type = "VoteRequest" ->
           /\ currentTerm[m.from] = MaxTerm
           /\ \/ m.term < currentTerm[m.to]
              \/ m.term = currentTerm[m.to] /\ votedFor[m.to] # Nil
      [] m.type = "AppendEntriesResponse" -> Retired(m.to)
      [] OTHER -> FALSE

View ==
    <<currentTerm, votedFor, role, leaderId, log, commitVars,
      [n \in Node |-> IF role[n] = "Candidate" THEN votes[n] ELSE {}],
      [n \in Node |-> IF role[n] = "Leader" THEN <<nextIndex[n], matchIndex[n]>> ELSE <<>>],
      {m \in msgs : ~ Spent(m)}>>
=============================================================================
