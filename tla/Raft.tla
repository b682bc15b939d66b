-------------------------------- MODULE Raft --------------------------------
(***************************************************************************)
(* The consensus core of the aegis-replication crate: RaftNode (raft.rs)   *)
(* over its ReplicatedLog (log.rs), driven by ReplicationEngine            *)
(* (engine.rs) and joined by the message transport (transport.rs).         *)
(*                                                                         *)
(* Each handler runs as one step: ReplicationEngine::process_message takes *)
(* the engine by &mut, so a node handles one message at a time.  The log   *)
(* is never compacted here, because process_message routes no snapshot     *)
(* message and the engine never takes a snapshot; the index of an entry is *)
(* therefore its position.  The peers of a node are the other members of   *)
(* Node throughout.  Clocks are left out: an election timeout may elapse   *)
(* and a lease may run out at any moment.                                  *)
(*                                                                         *)
(* The network is a set of messages that only grows.  Delivering a message *)
(* leaves it there, so a message may be lost (never delivered), delayed,   *)
(* reordered or delivered again.                                           *)
(***************************************************************************)
EXTENDS ReplicatedLog, FiniteSets

CONSTANTS
    Node,       \* the members of the cluster
    Value,      \* commands a client may propose
    Nil,        \* the None of voted_for and leader_id
    NoOp,       \* what the entry a new leader appends carries
    MaxTerm,    \* bound: no election is started beyond this term
    MaxLog,     \* bound: no proposal makes a log longer than this
    MaxEntries  \* RaftConfig::max_entries_per_request

ASSUME NodeAssumption == IsFiniteSet(Node) /\ Nil \notin Node
ASSUME BoundAssumption == MaxTerm \in Nat /\ MaxLog \in Nat /\ MaxEntries \in Nat \ {0}

VARIABLES
    currentTerm,  \* RaftState::current_term
    votedFor,     \* RaftState::voted_for
    role,         \* RaftNode::role
    leaderId,     \* RaftNode::leader_id
    votes,        \* RaftNode::votes_received
    log,          \* ReplicatedLog::entries
    commitIndex,  \* RaftState::commit_index
    logCommit,    \* ReplicatedLog::commit_index, the one apply_committed reads
    applied,      \* the entries given to the state machine; its length is last_applied
    nextIndex,    \* RaftNode::next_index, kept by every node for every other
    matchIndex,   \* RaftNode::match_index
    msgs          \* every message sent so far

electionVars == <<currentTerm, votedFor, role, leaderId, votes>>
commitVars == <<commitIndex, logCommit, applied>>
peerVars == <<nextIndex, matchIndex>>
vars == <<electionVars, log, commitVars, peerVars, msgs>>

-----------------------------------------------------------------------------
Role == {"Follower", "Candidate", "Leader"}
Entry == [term : Nat, value : Value \cup {NoOp}]

(* Messages.  An absent conflict_index is 0: a present one is at least 1.  *)
(* conflict_term is left out, no handler reads it.                         *)

VoteRequest ==
    [type : {"VoteRequest"}, from : Node, to : Node, term : Nat,
     lastLogIndex : Nat, lastLogTerm : Nat]
VoteResponse ==
    [type : {"VoteResponse"}, from : Node, to : Node, term : Nat, granted : BOOLEAN]
AppendEntriesRequest ==
    [type : {"AppendEntries"}, from : Node, to : Node, term : Nat,
     prevLogIndex : Nat, prevLogTerm : Nat, entries : Seq(Entry), leaderCommit : Nat]
AppendEntriesResponse ==
    [type : {"AppendEntriesResponse"}, from : Node, to : Node, term : Nat,
     success : BOOLEAN, matchIndex : Nat, conflictIndex : Nat]
Message ==
    VoteRequest \cup VoteResponse \cup AppendEntriesRequest \cup AppendEntriesResponse

Send(m) == msgs' = msgs \cup {m}

-----------------------------------------------------------------------------
Peers(n) == Node \ {n}
QuorumSize == (Cardinality(Node) \div 2) + 1

Init ==
    /\ currentTerm = [n \in Node |-> 0]
    /\ votedFor = [n \in Node |-> Nil]
    /\ role = [n \in Node |-> "Follower"]
    /\ leaderId = [n \in Node |-> Nil]
    /\ votes = [n \in Node |-> {}]
    /\ log = [n \in Node |-> <<>>]
    /\ commitIndex = [n \in Node |-> 0]
    /\ logCommit = [n \in Node |-> 0]
    /\ applied = [n \in Node |-> <<>>]
    /\ nextIndex = [n \in Node |-> [p \in Peers(n) |-> 1]]
    /\ matchIndex = [n \in Node |-> [p \in Peers(n) |-> 0]]
    /\ msgs = {}

\* Mutant: the old leader's name survives the change of term.
StepDownKeepsLeader(n, term) ==
    /\ currentTerm' = [currentTerm EXCEPT ![n] = term]
    /\ votedFor' = [votedFor EXCEPT ![n] = Nil]
    /\ role' = [role EXCEPT ![n] = "Follower"]
    /\ UNCHANGED leaderId

\* Seeing a newer term in a vote request, or in any response: step down and
\* forget the vote and the leader.
StepDown(n, term) ==
    /\ currentTerm' = [currentTerm EXCEPT ![n] = term]
    /\ votedFor' = [votedFor EXCEPT ![n] = Nil]
    /\ role' = [role EXCEPT ![n] = "Follower"]
    /\ leaderId' = [leaderId EXCEPT ![n] = Nil]

\* tick asks for an election when the timeout elapses on a node that does
\* not lead, and broadcast_election starts it.
BroadcastElection(n) ==
    /\ role[n] \in {"Follower", "Candidate"}
    /\ currentTerm[n] < MaxTerm
    /\ currentTerm' = [currentTerm EXCEPT ![n] = @ + 1]
    /\ votedFor' = [votedFor EXCEPT ![n] = n]
    /\ role' = [role EXCEPT ![n] = "Candidate"]
    /\ leaderId' = [leaderId EXCEPT ![n] = Nil]
    /\ votes' = [votes EXCEPT ![n] = {n}]
    /\ msgs' = msgs \cup
         {[type |-> "VoteRequest", from |-> n, to |-> p, term |-> currentTerm[n] + 1,
           lastLogIndex |-> Len(log[n]), lastLogTerm |-> LastTerm(log[n])] : p \in Peers(n)}
    /\ UNCHANGED <<log, commitVars, peerVars>>

\* Mutant: the vote already given in this term is not looked at.
GrantsVoteAgain(n, vote, term, m) ==
    m.term >= term /\ IsUpToDate(log[n], m.lastLogIndex, m.lastLogTerm)

\* Mutant: the candidate's log is not compared.
GrantsVoteToAnyLog(n, vote, term, m) == m.term >= term /\ vote \in {Nil, m.from}

\* Whether a node that has adopted the request's term, and then holds
\* the vote vote, grants it.
GrantsVote(n, vote, term, m) ==
    /\ m.term >= term
    /\ vote \in {Nil, m.from}
    /\ IsUpToDate(log[n], m.lastLogIndex, m.lastLogTerm)

HandleVoteRequest(n, m) ==
    LET newer == m.term > currentTerm[n]
        term  == Larger(m.term, currentTerm[n])
        vote  == IF newer THEN Nil ELSE votedFor[n]
        grant == GrantsVote(n, vote, term, m)
    IN  /\ currentTerm' = [currentTerm EXCEPT ![n] = term]
        /\ votedFor' = [votedFor EXCEPT ![n] = IF grant THEN m.from ELSE vote]
        /\ role' = [role EXCEPT ![n] = IF newer THEN "Follower" ELSE @]
        /\ leaderId' = [leaderId EXCEPT ![n] = IF newer THEN Nil ELSE @]
        /\ Send([type |-> "VoteResponse", from |-> n, to |-> m.from,
                 term |-> term, granted |-> grant])
        /\ UNCHANGED <<votes, log, commitVars, peerVars>>

\* become_leader_with_term: start every peer at the end of the log, then
\* append the no-op of the new term.
BecomeLeader(n) ==
    /\ role' = [role EXCEPT ![n] = "Leader"]
    /\ leaderId' = [leaderId EXCEPT ![n] = n]
    /\ nextIndex' = [nextIndex EXCEPT ![n] = [p \in Peers(n) |-> Len(log[n]) + 1]]
    /\ matchIndex' = [matchIndex EXCEPT ![n] = [p \in Peers(n) |-> 0]]
    /\ log' = [log EXCEPT ![n] = Append(@, [term |-> currentTerm[n], value |-> NoOp])]

HandleVoteResponse(n, m) ==
    LET tally == IF m.granted THEN votes[n] \cup {m.from} ELSE votes[n]
    IN  \/ /\ m.term > currentTerm[n]
           /\ StepDown(n, m.term)
           /\ UNCHANGED <<votes, log, commitVars, peerVars, msgs>>
        \/ /\ m.term = currentTerm[n]
           /\ role[n] = "Candidate"
           /\ votes' = [votes EXCEPT ![n] = tally]
           /\ IF Cardinality(tally) >= QuorumSize
              THEN BecomeLeader(n)
              ELSE UNCHANGED <<role, leaderId, log, peerVars>>
           /\ UNCHANGED <<currentTerm, votedFor, commitVars, msgs>>

\* ReplicationEngine::propose on the leader; elsewhere it only returns an error.
Propose(n, v) ==
    /\ role[n] = "Leader"
    /\ Len(log[n]) < MaxLog
    /\ log' = [log EXCEPT ![n] = Append(@, [term |-> currentTerm[n], value |-> v])]
    /\ UNCHANGED <<electionVars, commitVars, peerVars, msgs>>

\* create_append_entries for one peer, as send_heartbeats does at every tick
\* of a leader.
SendAppendEntries(n, p) ==
    LET prev == nextIndex[n][p] - 1
    IN  /\ role[n] = "Leader"
        /\ Send([type |-> "AppendEntries", from |-> n, to |-> p, term |-> currentTerm[n],
                 prevLogIndex |-> prev,
                 prevLogTerm |-> PrevTerm(log[n], prev),
                 entries |-> EntriesFrom(log[n], prev, MaxEntries),
                 leaderCommit |-> commitIndex[n]])
        /\ UNCHANGED <<electionVars, log, commitVars, peerVars>>

AppendEntriesReply(n, m, term, success, match, conflict) ==
    Send([type |-> "AppendEntriesResponse", from |-> n, to |-> m.from, term |-> term,
          success |-> success, matchIndex |-> match, conflictIndex |-> conflict])

\* An old leader is told the newer term and nothing else happens.
RejectStaleLeader(n, m) ==
    /\ m.term < currentTerm[n]
    /\ AppendEntriesReply(n, m, currentTerm[n], FALSE, 0, 0)
    /\ UNCHANGED <<electionVars, log, commitVars, peerVars>>

\* Mutant: an AppendEntries of the present term also clears the vote.
FollowLeaderClearsVote(n, m) ==
    /\ m.term >= currentTerm[n]
    /\ currentTerm' = [currentTerm EXCEPT ![n] = m.term]
    /\ votedFor' = [votedFor EXCEPT ![n] = Nil]
    /\ role' = [role EXCEPT ![n] = "Follower"]
    /\ leaderId' = [leaderId EXCEPT ![n] = m.from]
    /\ UNCHANGED <<votes, peerVars>>

\* What follows in every other case: adopt the term, follow the sender.
FollowLeader(n, m) ==
    /\ m.term >= currentTerm[n]
    /\ currentTerm' = [currentTerm EXCEPT ![n] = m.term]
    /\ votedFor' = [votedFor EXCEPT ![n] = IF m.term > currentTerm[n] THEN Nil ELSE @]
    /\ role' = [role EXCEPT ![n] = "Follower"]
    /\ leaderId' = [leaderId EXCEPT ![n] = m.from]
    /\ UNCHANGED <<votes, peerVars>>

RejectMissingPrev(n, m) ==
    /\ FollowLeader(n, m)
    /\ ~ HasTerm(log[n], m.prevLogIndex)
    /\ AppendEntriesReply(n, m, m.term, FALSE, Len(log[n]), Len(log[n]) + 1)
    /\ UNCHANGED <<log, commitVars>>

RejectPrevTerm(n, m) ==
    LET prevTerm == TermAt(log[n], m.prevLogIndex)
    IN  /\ FollowLeader(n, m)
        /\ m.prevLogIndex > 0
        /\ HasTerm(log[n], m.prevLogIndex)
        /\ prevTerm # m.prevLogTerm
        /\ AppendEntriesReply(n, m, m.term, FALSE, 0, FindFirstIndexOfTerm(log[n], prevTerm))
        /\ UNCHANGED <<log, commitVars>>

\* commit_index becomes the smaller of the leader's and the last index the
\* request covers, even where that is below its present value; the copy in
\* the log only grows.
FollowerCommit(n, m) ==
    IF m.leaderCommit > commitIndex[n]
    THEN Smaller(m.leaderCommit, m.prevLogIndex + Len(m.entries))
    ELSE commitIndex[n]

AcceptEntries(n, m) ==
    LET newLog == AppendTo(log[n], m.prevLogIndex, m.entries)
    IN  /\ FollowLeader(n, m)
        /\ HasTerm(log[n], m.prevLogIndex)
        /\ m.prevLogIndex = 0 \/ TermAt(log[n], m.prevLogIndex) = m.prevLogTerm
        /\ log' = [log EXCEPT ![n] = newLog]
        /\ commitIndex' = [commitIndex EXCEPT ![n] = FollowerCommit(n, m)]
        /\ logCommit' = [logCommit EXCEPT ![n] = Larger(@, FollowerCommit(n, m))]
        /\ AppendEntriesReply(n, m, m.term, TRUE, Len(newLog), 0)
        /\ UNCHANGED applied

HandleAppendEntries(n, m) ==
    \/ RejectStaleLeader(n, m)
    \/ RejectMissingPrev(n, m)
    \/ RejectPrevTerm(n, m)
    \/ AcceptEntries(n, m)

\* try_advance_commit_index sorts the match indices together with the
\* leader's own last index and takes the element at len / 2: the greatest of
\* them that at least N - N \div 2 nodes have reached.
CommitCandidate(n, match) ==
    LET index == [p \in Node |-> IF p = n THEN Len(log[n]) ELSE match[p]]
        reached(k) == {p \in Node : index[p] >= k}
        agreed == {k \in {index[p] : p \in Node} :
                     Cardinality(reached(k)) >= Cardinality(Node) - (Cardinality(Node) \div 2)}
    IN  CHOOSE k \in agreed : \A j \in agreed : j <= k

\* It is taken when it lies beyond the commit index, the log has an entry
\* there, and that entry is of the present term.
LeaderCommit(n, match) ==
    LET new == CommitCandidate(n, match)
    IN  IF new \in (commitIndex[n] + 1)..Len(log[n]) /\ TermAt(log[n], new) = currentTerm[n]
        THEN new ELSE commitIndex[n]

\* Mutant: the lower bound of the retreat is forgotten.
BackOffToZero(next) == next - 1

\* A refusal without a conflict index: one entry back, never before the first.
BackOff(next) == Larger(next - 1, 1)

\* The response carries no echo of the request and its term is not compared
\* from below: an answer to an earlier request, of this or an older term,
\* counts as the present one.
HandleAppendEntriesResponse(n, m) ==
    \/ /\ m.term > currentTerm[n]
       /\ StepDown(n, m.term)
       /\ UNCHANGED <<votes, log, commitVars, peerVars, msgs>>
    \/ /\ m.term <= currentTerm[n]
       /\ role[n] = "Leader"
       /\ m.success
       /\ LET match == [matchIndex[n] EXCEPT ![m.from] = m.matchIndex]
          IN  /\ matchIndex' = [matchIndex EXCEPT ![n] = match]
              /\ commitIndex' = [commitIndex EXCEPT ![n] = LeaderCommit(n, match)]
              /\ logCommit' = [logCommit EXCEPT ![n] = Larger(@, LeaderCommit(n, match))]
       /\ nextIndex' = [nextIndex EXCEPT ![n][m.from] = m.matchIndex + 1]
       /\ UNCHANGED <<electionVars, log, applied, msgs>>
    \/ /\ m.term <= currentTerm[n]
       /\ role[n] = "Leader"
       /\ ~ m.success
       /\ nextIndex' = [nextIndex EXCEPT ![n][m.from] =
                          IF m.conflictIndex > 0 THEN m.conflictIndex ELSE BackOff(@)]
       /\ UNCHANGED <<electionVars, log, commitVars, matchIndex, msgs>>

\* apply_committed, called by every tick, gives the state machine all the
\* entries up to the log's commit index.  Where the log is shorter than
\* that, the loop of the code spins without end once it reaches its last entry.
ApplyCommitted(n) ==
    /\ logCommit[n] > Len(applied[n])
    /\ applied' = [applied EXCEPT ![n] =
                     @ \o SubSeq(log[n], Len(@) + 1, Smaller(logCommit[n], Len(log[n])))]
    /\ UNCHANGED <<electionVars, log, commitIndex, logCommit, peerVars, msgs>>

\* check_lease: a leader whose lease has run out, or that never had one,
\* follows again, in the same term and with the same vote.
CheckLease(n) ==
    /\ role[n] = "Leader"
    /\ role' = [role EXCEPT ![n] = "Follower"]
    /\ leaderId' = [leaderId EXCEPT ![n] = Nil]
    /\ UNCHANGED <<currentTerm, votedFor, votes, log, commitVars, peerVars, msgs>>

\* ReplicationEngine::process_message
ProcessMessage(m) ==
    \/ m.type = "VoteRequest" /\ HandleVoteRequest(m.to, m)
    \/ m.type = "VoteResponse" /\ HandleVoteResponse(m.to, m)
    \/ m.type = "AppendEntries" /\ HandleAppendEntries(m.to, m)
    \/ m.type = "AppendEntriesResponse" /\ HandleAppendEntriesResponse(m.to, m)

Next ==
    \/ \E n \in Node : BroadcastElection(n)
    \/ \E n \in Node, v \in Value : Propose(n, v)
    \/ \E n \in Node : \E p \in Peers(n) : SendAppendEntries(n, p)
    \/ \E n \in Node : ApplyCommitted(n)
    \/ \E n \in Node : CheckLease(n)
    \/ \E m \in msgs : ProcessMessage(m)

Spec == Init /\ [][Next]_vars
-----------------------------------------------------------------------------
(* Properties.                                                             *)

\* Every field of every node and every message in flight has its type.
TypeOK ==
    /\ currentTerm \in [Node -> Nat]
    /\ votedFor \in [Node -> Node \cup {Nil}]
    /\ role \in [Node -> Role]
    /\ leaderId \in [Node -> Node \cup {Nil}]
    /\ votes \in [Node -> SUBSET Node]
    /\ log \in [Node -> Seq(Entry)]
    /\ commitIndex \in [Node -> Nat]
    /\ logCommit \in [Node -> Nat]
    /\ applied \in [Node -> Seq(Entry)]
    /\ DOMAIN nextIndex = Node /\ \A n \in Node : nextIndex[n] \in [Peers(n) -> Nat \ {0}]
    /\ DOMAIN matchIndex = Node /\ \A n \in Node : matchIndex[n] \in [Peers(n) -> Nat]
    /\ msgs \subseteq Message

\* Two nodes never lead the same term: no order of timeouts, lost, late or
\* repeated vote messages and lease expiries lets both collect a quorum.
ElectionSafety ==
    \A i, j \in Node :
        role[i] = "Leader" /\ role[j] = "Leader" /\ currentTerm[i] = currentTerm[j] => i = j

\* Two nodes in the same term that name a leader (leader_id(), the hint a
\* rejected proposal carries back) name the same one, although each learnt it
\* from different messages.
LeaderHintsAgree ==
    \A i, j \in Node :
        currentTerm[i] = currentTerm[j] /\ leaderId[i] # Nil /\ leaderId[j] # Nil
            => leaderId[i] = leaderId[j]

\* Where two logs have the same term at an index they are equal up to that
\* index, through every truncation and repeated or reordered AppendEntries.
LogMatching ==
    \A i, j \in Node : \A k \in 1..Smaller(Len(log[i]), Len(log[j])) :
        log[i][k].term = log[j][k].term => SubSeq(log[i], 1, k) = SubSeq(log[j], 1, k)

\* No two nodes give their state machines different entries at one index.
StateMachineSafety ==
    \A i, j \in Node : \A k \in 1..Smaller(Len(applied[i]), Len(applied[j])) :
        applied[i][k] = applied[j][k]

\* What a node has applied is in the log of every leader of its term or a
\* later one: an election loses nothing that was committed.
LeaderCompleteness ==
    \A i, l \in Node :
        role[l] = "Leader" /\ currentTerm[l] >= currentTerm[i]
            => /\ Len(applied[i]) <= Len(log[l])
               /\ SubSeq(log[l], 1, Len(applied[i])) = applied[i]

\* Terms never go back, and within a term a node that has voted keeps its
\* vote: not one of the handlers that write voted_for frees it for a second
\* candidate.
VoteOncePerTerm ==
    [][\A n \in Node :
         /\ currentTerm'[n] >= currentTerm[n]
         /\ currentTerm'[n] = currentTerm[n] /\ votedFor[n] # Nil => votedFor'[n] = votedFor[n]]_vars

-----------------------------------------------------------------------------
(* What makes ElectionSafety and LeaderHintsAgree inductive.  A ballot is  *)
(* a vote the messages bear witness of: v's granted answer to c, or c's    *)
(* own request, which it sends having voted for itself.                    *)

Ballot(v, c, term) ==
    \/ \E m \in msgs : /\ m.type = "VoteResponse" /\ m.granted
                       /\ m.from = v /\ m.to = c /\ m.term = term
    \/ v = c /\ \E m \in msgs : m.type = "VoteRequest" /\ m.from = c /\ m.term = term

\* c was elected in a term: a quorum cast ballots for it.
Elected(c, term) ==
    \E Q \in SUBSET Node : Cardinality(Q) >= QuorumSize /\ \A v \in Q : Ballot(v, c, term)

\* Messages go to other nodes, and every AppendEntries comes from a node
\* elected in its term.
MessagesHonest ==
    \A m \in msgs :
        /\ m.from # m.to
        /\ m.type = "AppendEntries" => Elected(m.from, m.term)

\* A ballot is remembered by its voter as long as it stays in that term.
BallotsRemembered ==
    \A v, c \in Node, term \in Nat :
        Ballot(v, c, term) => /\ term <= currentTerm[v]
                              /\ term = currentTerm[v] => votedFor[v] = c

\* No node casts ballots for two candidates in one term.
BallotsUnique ==
    \A v, c, d \in Node, term \in Nat :
        Ballot(v, c, term) /\ Ballot(v, d, term) => c = d

\* A candidate counts ballots only; a leader, and a node named as leader,
\* was elected.
RoleEarned(n) ==
    /\ role[n] = "Candidate" /\ Peers(n) # {} =>
         \A v \in votes[n] : Ballot(v, n, currentTerm[n])
    /\ role[n] = "Leader" => Elected(n, currentTerm[n])
    /\ leaderId[n] # Nil => Elected(leaderId[n], currentTerm[n])
RolesEarned == \A n \in Node : RoleEarned(n)

\* The inductive invariant behind ElectionSafety and LeaderHintsAgree.
ElectionInv == MessagesHonest /\ BallotsRemembered /\ BallotsUnique /\ RolesEarned

-----------------------------------------------------------------------------
(* What makes LogMatching inductive.  A link is an entry with the place it *)
(* stands at and the term of the entry before it; the pieces of log that   *)
(* travel in AppendEntries messages are made of links like the logs.       *)

Link(prev, prevTerm, entries, k) ==
    [index |-> prev + k, entry |-> entries[k],
     prevTerm |-> CASE prev + k = 1 -> 0
                    [] k = 1 /\ prev > 0 -> prevTerm
                    [] OTHER -> entries[k - 1].term]
LinksOf(prev, prevTerm, entries) ==
    {Link(prev, prevTerm, entries, k) : k \in 1..Len(entries)}

LogLinks == UNION {LinksOf(0, 0, log[n]) : n \in Node}
MessageLinks ==
    UNION {LinksOf(m.prevLogIndex, m.prevLogTerm, m.entries) :
             m \in {x \in msgs : x.type = "AppendEntries"}}
Links == LogLinks \cup MessageLinks

\* The index and the term of an entry settle its value and the term before it.
LinksUnique ==
    \A x, y \in Links : x.index = y.index /\ x.entry.term = y.entry.term => x = y

\* An entry carries the term of a node that was elected in it and is past
\* its candidacy.
TermsEarned ==
    \A x \in Links : \E c \in Node :
        /\ Elected(c, x.entry.term)
        /\ currentTerm[c] >= x.entry.term
        /\ currentTerm[c] = x.entry.term => role[c] # "Candidate"

\* No entry of the present term stands beyond the end of the leader's log.
LeadersAhead ==
    \A n \in Node, x \in Links :
        role[n] = "Leader" /\ x.entry.term = currentTerm[n] => x.index <= Len(log[n])

\* The inductive invariant behind LogMatching, together with ElectionInv.
LogInv == LinksUnique /\ TermsEarned /\ LeadersAhead
=============================================================================
