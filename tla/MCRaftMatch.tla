----------------------------- MODULE MCRaftMatch ----------------------------
(***************************************************************************)
(* Raft with one entry per AppendEntries, along one history of elections:  *)
(* a leads the first term, b the second and the fourth, c the third, and   *)
(* the leaders of the first three terms each replicate to one other node.  *)
(* The constraints only leave out behaviours of Raft.                      *)
(***************************************************************************)
EXTENDS Raft, TLC

CONSTANTS a, b, c

LeaderOf == <<a, b, c, b>>
VoterFor == <<b, c, b, a>>
Replicates == {<<a, b, 1>>, <<b, c, 2>>, <<c, a, 3>>}

\* What has to be done before the election of each term is called.
Ready(term) ==
    CASE term = 2 -> Len(log[a]) = MaxLog /\ Len(log[b]) >= 1
      [] term = 3 -> Len(log[c]) >= 2
      [] term = 4 -> Len(applied[c]) = 3
      [] OTHER -> TRUE

History ==
    /\ \A n \in Node : role[n] # "Follower" => n = LeaderOf[currentTerm[n]]
    /\ \A m \in msgs :
         /\ m.type = "VoteRequest" => Ready(m.term)
         /\ m.type = "VoteResponse" => m.from = VoterFor[m.term]
         /\ m.type = "AppendEntries" => <<m.from, m.to, m.term>> \in Replicates
    /\ \A n \in Node \ {c} : applied[n] = <<>>
    /\ \A n \in Node \ {a} : \A i \in 1..Len(log[n]) : log[n][i].value = NoOp
    /\ Len(log[a]) > 1 => Len(log[b]) > 0

\* Leaders give up only when they see a newer term.
Steady ==
    \A n \in Node : role[n] = "Leader" /\ role'[n] # "Leader" => currentTerm'[n] > currentTerm[n]
=============================================================================
