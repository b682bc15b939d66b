----------------------------- MODULE LogRepair ------------------------------
(***************************************************************************)
(* How a newly elected leader brings one follower's log into line: it      *)
(* sends AppendEntries from next_index[p], and each answer moves           *)
(* next_index[p].  The two talk alone: nothing is lost, nothing else is    *)
(* proposed, and one step is a request, its handling and its answer        *)
(* (create_append_entries, handle_append_entries and                       *)
(* handle_append_entries_response of raft.rs).                             *)
(*                                                                         *)
(* An entry is its term: a term has one leader, so two logs that have the  *)
(* same term at an index have the same entry there.                        *)
(***************************************************************************)
EXTENDS ReplicatedLog

CONSTANTS
    MaxTerm,     \* the leader's term; the terms before it are in the logs
    MaxLog,      \* bound: entries in a log
    MaxEntries   \* RaftConfig::max_entries_per_request

ASSUME RepairAssumption ==
    MaxTerm \in Nat \ {0} /\ MaxLog \in Nat \ {0} /\ MaxEntries \in Nat \ {0}

VARIABLES
    leaderLog,    \* the leader's log
    followerLog,  \* the follower's
    next          \* next_index of the follower at the leader

repairVars == <<leaderLog, followerLog, next>>

Logs(terms, len) ==
    UNION {{l \in [1..k -> [term : terms]] :
              \A i \in 1..k, j \in 1..k : i <= j => l[i].term <= l[j].term} : k \in 0..len}

\* What earlier leaders can have left in two logs: the entries of one term
\* follow the same entries in both.
OneLeaderPerTerm(l, f) ==
    \A i \in 1..Len(l), j \in 1..Len(f) :
        l[i].term = f[j].term /\ (i = 1 \/ l[i - 1].term # l[i].term)
                              /\ (j = 1 \/ f[j - 1].term # f[j].term)
            => i = j /\ SubSeq(l, 1, i) = SubSeq(f, 1, j)

\* become_leader_with_term: next_index is the end of the log, then the no-op
\* of the new term is appended.
RepairInit ==
    \E l \in Logs(1..MaxTerm - 1, MaxLog - 1), f \in Logs(1..MaxTerm - 1, MaxLog) :
        /\ OneLeaderPerTerm(l, f)
        /\ leaderLog = Append(l, [term |-> MaxTerm])
        /\ followerLog = f
        /\ next = Len(l) + 1

Exchange ==
    LET prev == next - 1
        prevTerm == PrevTerm(leaderLog, prev)
        entries == EntriesFrom(leaderLog, prev, MaxEntries)
    IN  /\ UNCHANGED leaderLog
        /\ \/ /\ ~ HasTerm(followerLog, prev)
              /\ next' = Len(followerLog) + 1
              /\ UNCHANGED followerLog
           \/ /\ prev > 0 /\ HasTerm(followerLog, prev)
              /\ TermAt(followerLog, prev) # prevTerm
              /\ next' = FindFirstIndexOfTerm(followerLog, TermAt(followerLog, prev))
              /\ UNCHANGED followerLog
           \/ /\ HasTerm(followerLog, prev)
              /\ prev = 0 \/ TermAt(followerLog, prev) = prevTerm
              /\ followerLog' = AppendTo(followerLog, prev, entries)
              /\ next' = Len(followerLog') + 1

-----------------------------------------------------------------------------
(* Properties.                                                             *)

Repaired == followerLog = leaderLog

\* The terms of the follower's entries that the leader does not have.
ForeignTerms ==
    {followerLog[i].term : i \in {j \in 1..Len(followerLog) :
        j > Len(leaderLog) \/ leaderLog[j].term # followerLog[j].term}}

\* The exchange of requests and refusals ends with equal logs where the foreign
\* entries are of one term, the case find_first_index_of_term was written for.
OneTermReconciled == (\A s, t \in ForeignTerms : s = t) => <>Repaired
=============================================================================
