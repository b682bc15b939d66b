----------------------------- MODULE RaftProofs -----------------------------
(***************************************************************************)
(* Theorems about Raft, for every finite cluster, every set of commands    *)
(* and every value of the bounds.                                          *)
(***************************************************************************)
EXTENDS Raft, OrderFacts, FiniteSetTheorems, SequenceTheorems, TLAPS

-----------------------------------------------------------------------------
(* Facts about sequences.                                                  *)

\* The index a conflict reply names is a position of the log or one past it.
LEMMA FindFirstIndexOfTermType ==
    ASSUME NEW l \in Seq(Entry), NEW t \in Nat
    PROVE  FindFirstIndexOfTerm(l, t) \in Nat \ {0}
<1> DEFINE others == {i \in 1..Len(l) : l[i].term # t}
<1>1. CASE others = {}
  BY <1>1 DEF FindFirstIndexOfTerm
<1>2. CASE others # {}
  <2>1. others \in SUBSET Nat /\ Len(l) \in Nat /\ \A i \in others : i <= Len(l)
    OBVIOUS
  <2>2. \E i \in others : \A j \in others : j <= i
    BY <1>2, <2>1, GreatestNat
  <2>3. (CHOOSE i \in others : \A j \in others : j <= i) \in others
    BY <2>2
  <2> QED
    BY <1>2, <2>1, <2>3 DEF FindFirstIndexOfTerm
<1> QED
  BY <1>1, <1>2

\* Truncating at the first conflict keeps the log up to the entry the request
\* builds on.
LEMMA TruncateConflictType ==
    ASSUME NEW l \in Seq(Entry), NEW es \in Seq(Entry), NEW prev \in 0..Len(l)
    PROVE  /\ TruncateConflict(l, prev, es) \in Seq(Entry)
           /\ Len(TruncateConflict(l, prev, es)) \in prev..Len(l)
<1> DEFINE C == Conflicts(l, prev, es)
           first == CHOOSE k \in C : \A j \in C : k <= j
<1>1. CASE C = {}
  BY <1>1 DEF TruncateConflict
<1>2. CASE C # {}
  <2>1. C \in SUBSET Nat /\ \A k \in C : k \in 1..Len(es) /\ prev + k <= Len(l)
    BY DEF Conflicts, HasTerm
  <2>2. \E k \in C : \A j \in C : k <= j
    BY <1>2, <2>1, LeastNat
  <2>3. first \in C
    BY <2>2
  <2>4. first \in Nat /\ first >= 1 /\ prev + first <= Len(l)
    BY <2>1, <2>3
  <2>5. TruncateConflict(l, prev, es) = SubSeq(l, 1, prev + first - 1)
    BY <1>2 DEF TruncateConflict
  <2> HIDE DEF first
  <2>6. \A i \in 1..(prev + first - 1) : l[i] \in Entry
    BY <2>4
  <2>7. prev + first - 1 \in Int /\ prev + first - 1 >= prev
    BY <2>4
  <2>8. /\ SubSeq(l, 1, prev + first - 1) \in Seq(Entry)
        /\ Len(SubSeq(l, 1, prev + first - 1)) =
             IF 1 <= prev + first - 1 THEN (prev + first - 1) - 1 + 1 ELSE 0
    BY <2>6, <2>7, SubSeqProperties
  <2> QED
    BY <2>4, <2>5, <2>7, <2>8
<1> QED
  BY <1>1, <1>2

\* What handle_append_entries leaves behind is a log.
LEMMA AppendToType ==
    ASSUME NEW l \in Seq(Entry), NEW es \in Seq(Entry), NEW prev \in 0..Len(l)
    PROVE  AppendTo(l, prev, es) \in Seq(Entry)
<1> DEFINE kept == TruncateConflict(l, prev, es)
           m == Len(kept) - prev + 1
<1>1. kept \in Seq(Entry) /\ Len(kept) \in prev..Len(l)
  BY TruncateConflictType
<1>2. m \in Int /\ m >= 1
  BY <1>1
<1>3. \A i \in m..Len(es) : es[i] \in Entry
  BY <1>2
<1>4. SubSeq(es, m, Len(es)) \in Seq(Entry)
  BY <1>2, <1>3, SubSeqProperties
<1> QED
  BY <1>1, <1>4 DEF AppendTo

-----------------------------------------------------------------------------
(* Type correctness.                                                       *)

\* The type field of a message tells which payload it carries.
LEMMA MessageByType ==
    ASSUME NEW m \in Message
    PROVE  /\ m.type = "VoteRequest" => m \in VoteRequest
           /\ m.type = "VoteResponse" => m \in VoteResponse
           /\ m.type = "AppendEntries" => m \in AppendEntriesRequest
           /\ m.type = "AppendEntriesResponse" => m \in AppendEntriesResponse
BY DEF Message, VoteRequest, VoteResponse, AppendEntriesRequest, AppendEntriesResponse

\* The term of the last entry is a term.
LEMMA LastTermType == ASSUME NEW l \in Seq(Entry) PROVE LastTerm(l) \in Nat
<1>1. CASE l = <<>>
  BY <1>1 DEF LastTerm
<1>2. CASE l # <<>>
  <2>1. Len(l) \in 1..Len(l)
    BY <1>2
  <2>2. l[Len(l)] \in Entry
    BY <2>1
  <2> QED
    BY <1>2, <2>2 DEF LastTerm, Entry
<1> QED
  BY <1>1, <1>2

\* The term at an index the log reaches is a term.
LEMMA TermAtType ==
    ASSUME NEW l \in Seq(Entry), NEW i \in 0..Len(l) PROVE TermAt(l, i) \in Nat
<1>1. CASE i = 0
  BY <1>1 DEF TermAt
<1>2. CASE i # 0
  <2>1. l[i] \in Entry
    BY <1>2
  <2> QED
    BY <1>2, <2>1 DEF TermAt, Entry
<1> QED
  BY <1>1, <1>2

LEMMA TypeInit == Init => TypeOK
BY DEF Init, TypeOK, Role, Peers

LEMMA TypeBroadcastElection ==
    ASSUME TypeOK, NEW n \in Node, BroadcastElection(n) PROVE TypeOK'
<1>1. LastTerm(log[n]) \in Nat /\ Len(log[n]) \in Nat
  BY LastTermType DEF TypeOK
<1>2. msgs' \subseteq Message
  BY <1>1 DEF TypeOK, BroadcastElection, Message, VoteRequest, Peers
<1>3. /\ currentTerm' \in [Node -> Nat] /\ votedFor' \in [Node -> Node \cup {Nil}]
      /\ role' \in [Node -> Role] /\ leaderId' \in [Node -> Node \cup {Nil}]
  BY DEF TypeOK, BroadcastElection, Role
<1>4. votes' \in [Node -> SUBSET Node]
  BY DEF TypeOK, BroadcastElection
<1> QED
  BY <1>2, <1>3, <1>4 DEF TypeOK, BroadcastElection, commitVars, peerVars

LEMMA TypePropose ==
    ASSUME TypeOK, NEW n \in Node, NEW v \in Value, Propose(n, v) PROVE TypeOK'
<1>1. log' \in [Node -> Seq(Entry)]
  <2>1. [term |-> currentTerm[n], value |-> v] \in Entry
    BY DEF TypeOK, Entry
  <2> QED
    BY <2>1 DEF TypeOK, Propose
<1> QED
  BY <1>1 DEF TypeOK, Propose, electionVars, commitVars, peerVars

LEMMA TypeSendAppendEntries ==
    ASSUME TypeOK, NEW n \in Node, NEW p \in Peers(n), SendAppendEntries(n, p) PROVE TypeOK'
<1> DEFINE prev == nextIndex[n][p] - 1
           last == Smaller(Len(log[n]), prev + MaxEntries)
           prevTerm == PrevTerm(log[n], prev)
           es == EntriesFrom(log[n], prev, MaxEntries)
<1>1. prev \in Nat /\ log[n] \in Seq(Entry) /\ p \in Node
  <2>1. nextIndex[n] \in [Peers(n) -> Nat \ {0}]
    BY DEF TypeOK
  <2>2. nextIndex[n][p] \in Nat \ {0}
    BY <2>1
  <2> QED
    BY <2>2 DEF TypeOK, Peers
<1>2. prevTerm \in Nat
  BY <1>1, TermAtType DEF HasTerm, PrevTerm
<1>3. last \in Int /\ last <= Len(log[n])
  BY <1>1, BoundAssumption DEF Smaller
<1>4. \A i \in (prev + 1)..last : log[n][i] \in Entry
  BY <1>1, <1>3
<1>5. es \in Seq(Entry)
  BY <1>1, <1>3, <1>4, SubSeqProperties DEF EntriesFrom
<1>6. msgs' \subseteq Message
  <2>1. currentTerm[n] \in Nat /\ commitIndex[n] \in Nat /\ msgs \subseteq Message
    BY DEF TypeOK
  <2> HIDE DEF prev, prevTerm, es
  <2>2. [type |-> "AppendEntries", from |-> n, to |-> p, term |-> currentTerm[n],
         prevLogIndex |-> prev, prevLogTerm |-> prevTerm,
         entries |-> es, leaderCommit |-> commitIndex[n]] \in AppendEntriesRequest
    BY <1>1, <1>2, <1>5, <2>1 DEF AppendEntriesRequest
  <2> QED
    BY <2>1, <2>2 DEF SendAppendEntries, Send, Message, prev, prevTerm, es
<1> QED
  BY <1>6 DEF TypeOK, SendAppendEntries, electionVars, commitVars, peerVars

LEMMA TypeApplyCommitted ==
    ASSUME TypeOK, NEW n \in Node, ApplyCommitted(n) PROVE TypeOK'
<1> DEFINE a == Len(applied[n]) + 1
           b == Smaller(logCommit[n], Len(log[n]))
<1>1. a \in Int /\ a >= 1 /\ b \in Int /\ b <= Len(log[n])
  BY DEF TypeOK, Smaller
<1>2. \A i \in a..b : log[n][i] \in Entry
  BY <1>1 DEF TypeOK
<1>3. SubSeq(log[n], a, b) \in Seq(Entry)
  BY <1>1, <1>2, SubSeqProperties
<1>4. applied' \in [Node -> Seq(Entry)]
  BY <1>3 DEF TypeOK, ApplyCommitted
<1> QED
  BY <1>4 DEF TypeOK, ApplyCommitted, electionVars, peerVars

LEMMA TypeCheckLease ==
    ASSUME TypeOK, NEW n \in Node, CheckLease(n) PROVE TypeOK'
BY DEF TypeOK, CheckLease, Role, commitVars, peerVars

LEMMA TypeHandleVoteRequest ==
    ASSUME TypeOK, NEW m \in VoteRequest, HandleVoteRequest(m.to, m) PROVE TypeOK'
<1>1. m.to \in Node /\ m.from \in Node /\ m.term \in Nat /\ currentTerm[m.to] \in Nat
  BY DEF TypeOK, VoteRequest
<1>2. msgs' \subseteq Message
  <2>1. ASSUME NEW t \in Nat, NEW g \in BOOLEAN,
               Send([type |-> "VoteResponse", from |-> m.to, to |-> m.from,
                     term |-> t, granted |-> g])
        PROVE  msgs' \subseteq Message
    BY <1>1, <2>1 DEF TypeOK, Send, Message, VoteResponse
  <2>2. \A vote, t : GrantsVote(m.to, vote, t, m) \in BOOLEAN
    BY DEF GrantsVote
  <2>3. Larger(m.term, currentTerm[m.to]) \in Nat
    BY <1>1 DEF Larger
  <2> QED
    BY <2>1, <2>2, <2>3 DEF HandleVoteRequest
<1>3. currentTerm' \in [Node -> Nat] /\ votedFor' \in [Node -> Node \cup {Nil}]
  BY <1>1 DEF TypeOK, HandleVoteRequest, Larger
<1> QED
  BY <1>1, <1>2, <1>3 DEF TypeOK, HandleVoteRequest, Role, commitVars, peerVars

LEMMA TypeHandleVoteResponse ==
    ASSUME TypeOK, NEW m \in VoteResponse, HandleVoteResponse(m.to, m) PROVE TypeOK'
<1> DEFINE n == m.to
<1>1. n \in Node /\ m.from \in Node /\ m.term \in Nat
  BY DEF VoteResponse
<1>2. CASE StepDown(n, m.term) /\ UNCHANGED <<votes, log, commitVars, peerVars, msgs>>
  BY <1>1, <1>2 DEF TypeOK, StepDown, Role, commitVars, peerVars
<1>3. CASE /\ votes' = [votes EXCEPT ![n] = IF m.granted THEN votes[n] \cup {m.from} ELSE votes[n]]
           /\ BecomeLeader(n)
           /\ UNCHANGED <<currentTerm, votedFor, commitVars, msgs>>
  <2>1. [term |-> currentTerm[n], value |-> NoOp] \in Entry
    BY <1>1 DEF TypeOK, Entry
  <2>2. log' \in [Node -> Seq(Entry)]
    BY <1>1, <1>3, <2>1 DEF TypeOK, BecomeLeader
  <2>3. Len(log[n]) + 1 \in Nat \ {0}
    BY <1>1 DEF TypeOK
  <2>4. role' \in [Node -> Role] /\ leaderId' \in [Node -> Node \cup {Nil}]
    BY <1>1, <1>3 DEF TypeOK, BecomeLeader, Role
  <2>5. DOMAIN nextIndex' = Node /\ \A i \in Node : nextIndex'[i] \in [Peers(i) -> Nat \ {0}]
    BY <1>1, <1>3, <2>3 DEF TypeOK, BecomeLeader
  <2>6. DOMAIN matchIndex' = Node /\ \A i \in Node : matchIndex'[i] \in [Peers(i) -> Nat]
    BY <1>1, <1>3 DEF TypeOK, BecomeLeader
  <2>7. votes' \in [Node -> SUBSET Node]
    BY <1>1, <1>3 DEF TypeOK
  <2> QED
    BY <1>3, <2>2, <2>4, <2>5, <2>6, <2>7 DEF TypeOK, commitVars
<1>4. CASE /\ votes' = [votes EXCEPT ![n] = IF m.granted THEN votes[n] \cup {m.from} ELSE votes[n]]
           /\ UNCHANGED <<role, leaderId, log, peerVars>>
           /\ UNCHANGED <<currentTerm, votedFor, commitVars, msgs>>
  BY <1>1, <1>4 DEF TypeOK, commitVars, peerVars
<1> QED
  BY <1>2, <1>3, <1>4 DEF HandleVoteResponse

LEMMA TypeHandleAppendEntries ==
    ASSUME TypeOK, NEW m \in AppendEntriesRequest, HandleAppendEntries(m.to, m) PROVE TypeOK'
<1> DEFINE n == m.to
<1>1. /\ n \in Node /\ m.from \in Node /\ m.term \in Nat /\ m.prevLogIndex \in Nat
      /\ m.leaderCommit \in Nat /\ m.entries \in Seq(Entry) /\ currentTerm[n] \in Nat
      /\ log[n] \in Seq(Entry) /\ Len(log[n]) \in Nat /\ msgs \subseteq Message
      /\ commitIndex[n] \in Nat /\ logCommit[n] \in Nat
  BY DEF TypeOK, AppendEntriesRequest
<1>2. ASSUME NEW t \in Nat, NEW ok \in BOOLEAN, NEW match \in Nat, NEW c \in Nat,
             AppendEntriesReply(n, m, t, ok, match, c)
      PROVE  msgs' \subseteq Message
  BY <1>1, <1>2 DEF AppendEntriesReply, Send, Message, AppendEntriesResponse
<1>3. FollowLeader(n, m) =>
        /\ currentTerm' \in [Node -> Nat] /\ votedFor' \in [Node -> Node \cup {Nil}]
        /\ role' \in [Node -> Role] /\ leaderId' \in [Node -> Node \cup {Nil}]
        /\ UNCHANGED <<votes, nextIndex, matchIndex>>
  BY <1>1 DEF TypeOK, FollowLeader, Role, peerVars
<1>4. CASE RejectStaleLeader(n, m)
  BY <1>1, <1>2, <1>4 DEF TypeOK, RejectStaleLeader, electionVars, commitVars, peerVars
<1>5. CASE RejectMissingPrev(n, m)
  <2>1. Len(log[n]) + 1 \in Nat /\ Len(log[n]) \in Nat
    BY <1>1
  <2>2. AppendEntriesReply(n, m, m.term, FALSE, Len(log[n]), Len(log[n]) + 1)
    BY <1>5 DEF RejectMissingPrev
  <2>3. msgs' \subseteq Message
    BY <1>1, <1>2, <2>1, <2>2
  <2> QED
    BY <1>3, <1>5, <2>3 DEF TypeOK, RejectMissingPrev, commitVars
<1>6. CASE RejectPrevTerm(n, m)
  <2>1. TermAt(log[n], m.prevLogIndex) \in Nat
    BY <1>1, <1>6, TermAtType DEF RejectPrevTerm, HasTerm
  <2>2. FindFirstIndexOfTerm(log[n], TermAt(log[n], m.prevLogIndex)) \in Nat
    BY <1>1, <2>1, FindFirstIndexOfTermType
  <2>3. msgs' \subseteq Message
    BY <1>1, <1>2, <1>6, <2>2 DEF RejectPrevTerm
  <2> QED
    BY <1>3, <1>6, <2>3 DEF TypeOK, RejectPrevTerm, commitVars
<1>7. CASE AcceptEntries(n, m)
  <2>1. m.prevLogIndex \in 0..Len(log[n])
    BY <1>1, <1>7 DEF AcceptEntries, HasTerm
  <2>2. AppendTo(log[n], m.prevLogIndex, m.entries) \in Seq(Entry)
    BY <1>1, <2>1, AppendToType
  <2>3. Len(AppendTo(log[n], m.prevLogIndex, m.entries)) \in Nat
    BY <2>2
  <2>4. FollowerCommit(n, m) \in Nat
    BY <1>1 DEF FollowerCommit, Smaller
  <2>5. msgs' \subseteq Message
    BY <1>1, <1>2, <1>7, <2>3 DEF AcceptEntries
  <2>6. log' \in [Node -> Seq(Entry)]
    BY <1>7, <2>2 DEF TypeOK, AcceptEntries
  <2>7. commitIndex' \in [Node -> Nat] /\ logCommit' \in [Node -> Nat]
    BY <1>1, <1>7, <2>4 DEF TypeOK, AcceptEntries, Larger
  <2> QED
    BY <1>3, <1>7, <2>5, <2>6, <2>7 DEF TypeOK, AcceptEntries
<1> QED
  BY <1>4, <1>5, <1>6, <1>7 DEF HandleAppendEntries

LEMMA TypeHandleAppendEntriesResponse ==
    ASSUME TypeOK, NEW m \in AppendEntriesResponse, HandleAppendEntriesResponse(m.to, m)
    PROVE  TypeOK'
<1> DEFINE n == m.to
           match == [matchIndex[n] EXCEPT ![m.from] = m.matchIndex]
<1>1. /\ n \in Node /\ m.from \in Node /\ m.term \in Nat /\ m.matchIndex \in Nat
      /\ m.conflictIndex \in Nat /\ commitIndex[n] \in Nat /\ logCommit[n] \in Nat
      /\ matchIndex[n] \in [Peers(n) -> Nat] /\ nextIndex[n] \in [Peers(n) -> Nat \ {0}]
  BY DEF TypeOK, AppendEntriesResponse
<1>2. CASE StepDown(n, m.term) /\ UNCHANGED <<votes, log, commitVars, peerVars, msgs>>
  BY <1>1, <1>2 DEF TypeOK, StepDown, Role, commitVars, peerVars
<1>3. CASE /\ matchIndex' = [matchIndex EXCEPT ![n] = match]
           /\ commitIndex' = [commitIndex EXCEPT ![n] = LeaderCommit(n, match)]
           /\ logCommit' = [logCommit EXCEPT ![n] = Larger(@, LeaderCommit(n, match))]
           /\ nextIndex' = [nextIndex EXCEPT ![n][m.from] = m.matchIndex + 1]
           /\ UNCHANGED <<electionVars, log, applied, msgs>>
  <2>1. match \in [Peers(n) -> Nat]
    BY <1>1
  <2>2. LeaderCommit(n, match) \in Nat
    <3>1. Len(log[n]) \in Nat
      BY <1>1 DEF TypeOK
    <3> QED
      BY <1>1, <3>1 DEF LeaderCommit
  <2>3. commitIndex' \in [Node -> Nat] /\ logCommit' \in [Node -> Nat]
    BY <1>1, <1>3, <2>2 DEF TypeOK, Larger
  <2>4. DOMAIN matchIndex' = Node /\ \A i \in Node : matchIndex'[i] \in [Peers(i) -> Nat]
    BY <1>1, <1>3, <2>1 DEF TypeOK
  <2>5. DOMAIN nextIndex' = Node /\ \A i \in Node : nextIndex'[i] \in [Peers(i) -> Nat \ {0}]
    <3>1. nextIndex' = [nextIndex EXCEPT ![n] =
                          [nextIndex[n] EXCEPT ![m.from] = m.matchIndex + 1]]
      BY <1>3
    <3>2. [nextIndex[n] EXCEPT ![m.from] = m.matchIndex + 1] \in [Peers(n) -> Nat \ {0}]
      <4>1. m.matchIndex + 1 \in Nat \ {0}
        BY <1>1
      <4> QED
        BY <1>1, <4>1, Zenon
    <3> QED
      BY <1>1, <3>1, <3>2 DEF TypeOK
  <2> QED
    BY <1>3, <2>3, <2>4, <2>5 DEF TypeOK, electionVars
<1>4. CASE /\ nextIndex' = [nextIndex EXCEPT ![n][m.from] =
                              IF m.conflictIndex > 0 THEN m.conflictIndex ELSE BackOff(@)]
           /\ UNCHANGED <<electionVars, log, commitVars, matchIndex, msgs>>
  <2>1. ASSUME NEW k \in Nat \ {0} PROVE BackOff(k) \in Nat \ {0}
    BY DEF BackOff, Larger
  <2>2. DOMAIN nextIndex' = Node /\ \A i \in Node : nextIndex'[i] \in [Peers(i) -> Nat \ {0}]
    <3> DEFINE new == IF m.conflictIndex > 0 THEN m.conflictIndex
                      ELSE BackOff(nextIndex[n][m.from])
               row == [nextIndex[n] EXCEPT ![m.from] = new]
    <3>1. nextIndex' = [nextIndex EXCEPT ![n] = row]
      BY <1>4
    <3>2. row \in [Peers(n) -> Nat \ {0}]
      <4>1. CASE m.from \in Peers(n)
        BY <1>1, <2>1, <4>1
      <4>2. CASE m.from \notin Peers(n)
        BY <1>1, <4>2
      <4> QED
        BY <4>1, <4>2
    <3> HIDE DEF row
    <3> QED
      BY <1>1, <3>1, <3>2 DEF TypeOK
  <2> QED
    BY <1>4, <2>2 DEF TypeOK, electionVars, commitVars
<1> QED
  BY <1>2, <1>3, <1>4 DEF HandleAppendEntriesResponse

LEMMA TypeNext == TypeOK /\ [Next]_vars => TypeOK'
<1> SUFFICES ASSUME TypeOK, [Next]_vars PROVE TypeOK'
  OBVIOUS
<1>1. ASSUME NEW m \in msgs, ProcessMessage(m) PROVE TypeOK'
  <2>1. m \in Message
    BY DEF TypeOK
  <2> QED
    BY <1>1, <2>1, MessageByType, TypeHandleVoteRequest, TypeHandleVoteResponse,
       TypeHandleAppendEntries, TypeHandleAppendEntriesResponse DEF ProcessMessage
<1>2. CASE UNCHANGED vars
  BY <1>2 DEF TypeOK, vars, electionVars, commitVars, peerVars
<1> QED
  BY <1>1, <1>2, TypeBroadcastElection, TypePropose, TypeSendAppendEntries,
     TypeApplyCommitted, TypeCheckLease DEF Next

\* TypeOK holds in every reachable state: in particular next_index never
\* reaches 0, so create_append_entries never wraps below the first entry.
THEOREM TypeCorrect == Spec => []TypeOK
BY TypeInit, TypeNext, PTL DEF Spec

-----------------------------------------------------------------------------
(* Elections.                                                              *)

\* Two quorums of the cluster share a node.
LEMMA QuorumsMeet ==
    ASSUME NEW Q \in SUBSET Node, NEW R \in SUBSET Node,
           Cardinality(Q) >= QuorumSize, Cardinality(R) >= QuorumSize
    PROVE  \E v \in Node : v \in Q /\ v \in R
<1>1. IsFiniteSet(Node) /\ IsFiniteSet(Q) /\ IsFiniteSet(R) /\ IsFiniteSet(Q \cap R)
  BY NodeAssumption, FS_Subset, FS_Intersection
<1>2. Cardinality(Q \cup R) = Cardinality(Q) + Cardinality(R) - Cardinality(Q \cap R)
  BY <1>1, FS_Union
<1>3. Cardinality(Q \cup R) <= Cardinality(Node)
  BY <1>1, FS_Subset
<1>4. /\ Cardinality(Node) \in Nat /\ Cardinality(Q) \in Nat
      /\ Cardinality(R) \in Nat /\ Cardinality(Q \cap R) \in Nat
  BY <1>1, FS_CardinalityType
<1>5. Cardinality(Q \cap R) # 0
  BY <1>2, <1>3, <1>4 DEF QuorumSize
<1>6. Q \cap R # {}
  BY <1>1, <1>5, FS_EmptySet
<1> QED
  BY <1>6

\* Where every voter casts one ballot a term, a term elects one node.
LEMMA ElectedUnique ==
    ASSUME BallotsUnique, NEW c \in Node, NEW d \in Node, NEW t \in Nat,
           Elected(c, t), Elected(d, t)
    PROVE  c = d
<1>1. PICK Q \in SUBSET Node :
        Cardinality(Q) >= QuorumSize /\ \A v \in Q : Ballot(v, c, t)
  BY DEF Elected
<1>2. PICK R \in SUBSET Node :
        Cardinality(R) >= QuorumSize /\ \A v \in R : Ballot(v, d, t)
  BY DEF Elected
<1>3. PICK v \in Node : v \in Q /\ v \in R
  BY <1>1, <1>2, QuorumsMeet
<1> QED
  BY <1>1, <1>2, <1>3 DEF BallotsUnique

\* What a step does to the vote of a node: terms do not go back, and a vote
\* given stays given in its term.
VoteKept ==
    \A n \in Node :
        /\ currentTerm'[n] >= currentTerm[n]
        /\ currentTerm'[n] = currentTerm[n] /\ votedFor[n] # Nil => votedFor'[n] = votedFor[n]

\* A ballot cast in a step is for the term its voter then has, and for the
\* candidate it then remembers.
BallotsCast ==
    \A v, c \in Node, t \in Nat :
        Ballot(v, c, t)' => Ballot(v, c, t) \/ (t = currentTerm'[v] /\ votedFor'[v] = c)

\* A step that sends no vote message casts no ballot.
LEMMA NoVoteMessages ==
    ASSUME \A m \in msgs' : m \in msgs \/ m.type \in {"AppendEntries", "AppendEntriesResponse"}
    PROVE  BallotsCast
BY DEF BallotsCast, Ballot

\* A step that leaves every term and vote alone keeps the votes.
LEMMA VoteKeptByNone ==
    ASSUME TypeOK, UNCHANGED <<currentTerm, votedFor>> PROVE VoteKept
BY DEF VoteKept, TypeOK

\* A step of one node keeps the votes if it does for that node.
LEMMA VoteKeptByOne ==
    ASSUME TypeOK, NEW n \in Node, NEW t \in Nat, NEW w,
           currentTerm' = [currentTerm EXCEPT ![n] = t],
           votedFor' = [votedFor EXCEPT ![n] = w],
           t >= currentTerm[n],
           t = currentTerm[n] /\ votedFor[n] # Nil => w = votedFor[n]
    PROVE  VoteKept
<1>1. currentTerm'[n] = t /\ votedFor'[n] = w /\ \A i \in Node : currentTerm[i] \in Nat
  BY DEF TypeOK
<1>2. \A i \in Node : i # n => currentTerm'[i] = currentTerm[i] /\ votedFor'[i] = votedFor[i]
  BY DEF TypeOK
<1> QED
  BY <1>1, <1>2 DEF VoteKept

LEMMA VoteBroadcastElection ==
    ASSUME TypeOK, NEW n \in Node, BroadcastElection(n)
    PROVE  VoteKept /\ BallotsCast /\ msgs \subseteq msgs'
<1>1. VoteKept
  BY DEF VoteKept, TypeOK, BroadcastElection
<1>2. currentTerm'[n] = currentTerm[n] + 1 /\ votedFor'[n] = n
  BY DEF TypeOK, BroadcastElection
<1>3. \A m \in msgs' : m \in msgs \/ (m.type = "VoteRequest" /\ m.from = n
                                       /\ m.term = currentTerm'[n])
  BY <1>2 DEF BroadcastElection
<1>4. BallotsCast
  BY <1>2, <1>3 DEF BallotsCast, Ballot
<1> QED
  BY <1>1, <1>4 DEF BroadcastElection

LEMMA VoteHandleVoteRequest ==
    ASSUME TypeOK, NEW m \in VoteRequest, HandleVoteRequest(m.to, m)
    PROVE  VoteKept /\ BallotsCast /\ msgs \subseteq msgs'
<1> DEFINE n == m.to
           term == Larger(m.term, currentTerm[n])
           vote == IF m.term > currentTerm[n] THEN Nil ELSE votedFor[n]
           grant == GrantsVote(n, vote, term, m)
           reply == [type |-> "VoteResponse", from |-> n, to |-> m.from,
                     term |-> term, granted |-> grant]
<1>1. n \in Node /\ m.from \in Node /\ m.term \in Nat /\ currentTerm[n] \in Nat
  BY DEF TypeOK, VoteRequest
<1>2. /\ currentTerm' = [currentTerm EXCEPT ![n] = term]
      /\ votedFor' = [votedFor EXCEPT ![n] = IF grant THEN m.from ELSE vote]
      /\ msgs' = msgs \cup {reply}
  BY DEF HandleVoteRequest, Send
<1>3. grant => vote \in {Nil, m.from}
  BY DEF GrantsVote
<1>4. term \in Nat /\ term >= currentTerm[n] /\ (term = currentTerm[n] => vote = votedFor[n])
  BY <1>1 DEF Larger
<1>5. currentTerm'[n] = term /\ votedFor'[n] = IF grant THEN m.from ELSE vote
  BY <1>1, <1>2 DEF TypeOK
<1> HIDE DEF term, vote, grant
<1>6. VoteKept
  BY <1>1, <1>2, <1>3, <1>4, VoteKeptByOne
<1>7. BallotsCast
  <2> SUFFICES ASSUME NEW v \in Node, NEW c \in Node, NEW t \in Nat,
                      Ballot(v, c, t)', ~ Ballot(v, c, t)
               PROVE  t = currentTerm'[v] /\ votedFor'[v] = c
    BY DEF BallotsCast
  <2>1. /\ reply.type = "VoteResponse" /\ reply.granted = grant /\ reply.from = n
        /\ reply.to = m.from /\ reply.term = term
    OBVIOUS
  <2> HIDE DEF reply
  <2>2. \A x \in msgs' : x \in msgs \/ x = reply
    BY <1>2
  <2>3. grant /\ v = n /\ c = m.from /\ t = term
    BY <2>1, <2>2 DEF Ballot
  <2> QED
    BY <1>5, <2>3
<1> QED
  BY <1>2, <1>6, <1>7

\* Stepping down to a newer term keeps the votes.
LEMMA VoteStepDown ==
    ASSUME TypeOK, NEW n \in Node, NEW t \in Nat, t > currentTerm[n], StepDown(n, t)
    PROVE  VoteKept
<1>1. currentTerm[n] \in Nat
  BY DEF TypeOK
<1>2. t >= currentTerm[n] /\ t # currentTerm[n]
  BY <1>1
<1> QED
  BY <1>2, VoteKeptByOne DEF StepDown

LEMMA VoteHandleVoteResponse ==
    ASSUME TypeOK, NEW m \in VoteResponse, HandleVoteResponse(m.to, m)
    PROVE  VoteKept /\ BallotsCast /\ msgs \subseteq msgs'
<1>1. m.to \in Node /\ m.term \in Nat
  BY DEF VoteResponse
<1>2. msgs' = msgs
  BY DEF HandleVoteResponse
<1>3. \/ UNCHANGED <<currentTerm, votedFor>>
      \/ m.term > currentTerm[m.to] /\ StepDown(m.to, m.term)
  BY DEF HandleVoteResponse
<1>4. VoteKept
  BY <1>1, <1>3, VoteKeptByNone, VoteStepDown
<1> QED
  BY <1>2, <1>4, NoVoteMessages

LEMMA VoteHandleAppendEntries ==
    ASSUME TypeOK, NEW m \in AppendEntriesRequest, HandleAppendEntries(m.to, m)
    PROVE  VoteKept /\ BallotsCast /\ msgs \subseteq msgs'
<1>1. m.to \in Node /\ m.term \in Nat
  BY DEF AppendEntriesRequest
<1>2. \E t, ok, match, c : AppendEntriesReply(m.to, m, t, ok, match, c)
  BY DEF HandleAppendEntries, RejectStaleLeader, RejectMissingPrev, RejectPrevTerm, AcceptEntries
<1>3. /\ msgs \subseteq msgs'
      /\ \A x \in msgs' : x \in msgs \/ x.type \in {"AppendEntries", "AppendEntriesResponse"}
  BY <1>2 DEF AppendEntriesReply, Send
<1>4. UNCHANGED electionVars \/ FollowLeader(m.to, m)
  BY DEF HandleAppendEntries, RejectStaleLeader, RejectMissingPrev, RejectPrevTerm, AcceptEntries
<1>5. VoteKept
  <2>1. CASE UNCHANGED electionVars
    BY <2>1, VoteKeptByNone DEF electionVars
  <2>2. CASE FollowLeader(m.to, m)
    <3> DEFINE w == IF m.term > currentTerm[m.to] THEN Nil ELSE votedFor[m.to]
    <3>1. /\ currentTerm' = [currentTerm EXCEPT ![m.to] = m.term]
          /\ votedFor' = [votedFor EXCEPT ![m.to] = w]
          /\ m.term >= currentTerm[m.to]
      BY <2>2 DEF FollowLeader
    <3>2. currentTerm[m.to] \in Nat
      BY <1>1 DEF TypeOK
    <3>3. m.term = currentTerm[m.to] => w = votedFor[m.to]
      BY <1>1, <3>2
    <3> HIDE DEF w
    <3> QED
      BY <1>1, <3>1, <3>3, VoteKeptByOne
  <2> QED
    BY <1>4, <2>1, <2>2
<1> QED
  BY <1>3, <1>5, NoVoteMessages

LEMMA VoteHandleAppendEntriesResponse ==
    ASSUME TypeOK, NEW m \in AppendEntriesResponse, HandleAppendEntriesResponse(m.to, m)
    PROVE  VoteKept /\ BallotsCast /\ msgs \subseteq msgs'
<1>1. m.to \in Node /\ m.term \in Nat
  BY DEF AppendEntriesResponse
<1>2. msgs' = msgs
  BY DEF HandleAppendEntriesResponse
<1>3. \/ UNCHANGED electionVars
      \/ m.term > currentTerm[m.to] /\ StepDown(m.to, m.term)
  BY DEF HandleAppendEntriesResponse
<1>4. VoteKept
  BY <1>1, <1>3, VoteKeptByNone, VoteStepDown DEF electionVars
<1> QED
  BY <1>2, <1>4, NoVoteMessages

\* Every step keeps the votes given, casts only ballots that are remembered,
\* and loses no message from the record.
LEMMA VoteNext ==
    ASSUME TypeOK, [Next]_vars
    PROVE  VoteKept /\ BallotsCast /\ msgs \subseteq msgs'
<1>1. ASSUME NEW m \in msgs, ProcessMessage(m)
      PROVE  VoteKept /\ BallotsCast /\ msgs \subseteq msgs'
  <2>1. m \in Message
    BY DEF TypeOK
  <2> QED
    BY <1>1, <2>1, MessageByType, VoteHandleVoteRequest, VoteHandleVoteResponse,
       VoteHandleAppendEntries, VoteHandleAppendEntriesResponse DEF ProcessMessage
<1>2. ASSUME NEW n \in Node, NEW p \in Peers(n), SendAppendEntries(n, p)
      PROVE  VoteKept /\ BallotsCast /\ msgs \subseteq msgs'
  <2>1. \A x \in msgs' : x \in msgs \/ x.type \in {"AppendEntries", "AppendEntriesResponse"}
    BY <1>2 DEF SendAppendEntries, Send
  <2>2. UNCHANGED electionVars /\ msgs \subseteq msgs'
    BY <1>2 DEF SendAppendEntries, Send
  <2> QED
    BY <2>1, <2>2, NoVoteMessages DEF VoteKept, TypeOK, electionVars
<1>3. ASSUME UNCHANGED <<currentTerm, votedFor, msgs>>
      PROVE  VoteKept /\ BallotsCast /\ msgs \subseteq msgs'
  BY <1>3, NoVoteMessages DEF VoteKept, TypeOK
<1>4. ASSUME NEW n \in Node,
             (\E v \in Value : Propose(n, v)) \/ ApplyCommitted(n) \/ CheckLease(n)
      PROVE  UNCHANGED <<currentTerm, votedFor, msgs>>
  BY <1>4 DEF Propose, ApplyCommitted, CheckLease, electionVars
<1>5. UNCHANGED vars => UNCHANGED <<currentTerm, votedFor, msgs>>
  BY DEF vars, electionVars
<1> QED
  BY <1>1, <1>2, <1>3, <1>4, <1>5, VoteBroadcastElection DEF Next

\* VoteOncePerTerm: no handler, in any order, frees a vote within its term.
THEOREM VoteOnce == Spec => VoteOncePerTerm
<1>1. TypeOK /\ [Next]_vars => [VoteKept]_vars
  BY VoteNext
<1> QED
  BY <1>1, TypeCorrect, PTL DEF Spec, VoteOncePerTerm, VoteKept

\* Ballots and elections are on record for good.
LEMMA BallotsStay ==
    ASSUME msgs \subseteq msgs', NEW v, NEW c, NEW t, Ballot(v, c, t) PROVE Ballot(v, c, t)'
BY DEF Ballot

LEMMA ElectedStays ==
    ASSUME msgs \subseteq msgs', NEW c, NEW t, Elected(c, t) PROVE Elected(c, t)'
<1>1. \A v : Ballot(v, c, t) => Ballot(v, c, t)'
  BY BallotsStay
<1>2. PICK Q \in SUBSET Node :
        Cardinality(Q) >= QuorumSize /\ \A v \in Q : Ballot(v, c, t)
  BY DEF Elected
<1>3. \A v \in Q : Ballot(v, c, t)'
  BY <1>1, <1>2
<1>4. Cardinality(Q) >= QuorumSize
  BY <1>2
<1> QED
  BY <1>3, <1>4, Zenon DEF Elected

\* The two invariants about ballots follow from what any step does to votes.
LEMMA BallotsInductive ==
    ASSUME TypeOK, TypeOK', BallotsRemembered, BallotsUnique, VoteKept, BallotsCast
    PROVE  BallotsRemembered' /\ BallotsUnique'
<1>1. \A n \in Node : /\ currentTerm[n] \in Nat /\ currentTerm'[n] \in Nat
                      /\ n # Nil
  BY NodeAssumption DEF TypeOK
<1>2. ASSUME NEW v \in Node, NEW c \in Node, NEW t \in Nat, Ballot(v, c, t)'
      PROVE  t <= currentTerm'[v] /\ (t = currentTerm'[v] => votedFor'[v] = c)
  <2>1. CASE Ballot(v, c, t)
    <3>1. t <= currentTerm[v] /\ (t = currentTerm[v] => votedFor[v] = c)
      BY <2>1 DEF BallotsRemembered
    <3>2. /\ currentTerm'[v] >= currentTerm[v]
          /\ currentTerm'[v] = currentTerm[v] /\ votedFor[v] # Nil => votedFor'[v] = votedFor[v]
      BY DEF VoteKept
    <3> QED
      BY <1>1, <3>1, <3>2
  <2>2. CASE t = currentTerm'[v] /\ votedFor'[v] = c
    BY <1>1, <2>2
  <2> QED
    BY <1>2, <2>1, <2>2 DEF BallotsCast
<1>3. BallotsRemembered'
  BY <1>2 DEF BallotsRemembered
<1>4. ASSUME NEW v \in Node, NEW c \in Node, NEW d \in Node, NEW t \in Nat,
             Ballot(v, c, t)', Ballot(v, d, t)'
      PROVE  c = d
  <2>1. CASE t = currentTerm'[v]
    BY <1>2, <1>4, <2>1
  <2>2. CASE t # currentTerm'[v]
    <3>1. Ballot(v, c, t) /\ Ballot(v, d, t)
      BY <1>4, <2>2 DEF BallotsCast
    <3> QED
      BY <3>1 DEF BallotsUnique
  <2> QED
    BY <2>1, <2>2
<1> QED
  BY <1>3, <1>4 DEF BallotsUnique

\* A node whose election state a step leaves alone still deserves its role.
LEMMA RoleEarnedStays ==
    ASSUME msgs \subseteq msgs', NEW n, RoleEarned(n),
           role'[n] = role[n], leaderId'[n] = leaderId[n],
           currentTerm'[n] = currentTerm[n], votes'[n] = votes[n]
    PROVE  RoleEarned(n)'
<1>1. /\ \A v : Ballot(v, n, currentTerm[n]) => Ballot(v, n, currentTerm[n])'
      /\ \A c : Elected(c, currentTerm[n]) => Elected(c, currentTerm[n])'
  BY BallotsStay, ElectedStays
<1> QED
  BY <1>1 DEF RoleEarned

\* A node that follows nobody has no role to earn.
LEMMA FollowerEarned ==
    ASSUME NEW n, role'[n] = "Follower", leaderId'[n] = Nil PROVE RoleEarned(n)'
BY DEF RoleEarned

\* A step of node n alone keeps every role earned if it does so for n.
LEMMA RolesEarnedByOne ==
    ASSUME TypeOK, RolesEarned, msgs \subseteq msgs', NEW n \in Node, RoleEarned(n)',
           \A i \in Node \ {n} : /\ role'[i] = role[i] /\ leaderId'[i] = leaderId[i]
                                 /\ currentTerm'[i] = currentTerm[i] /\ votes'[i] = votes[i]
    PROVE  RolesEarned'
<1>1. ASSUME NEW i \in Node \ {n} PROVE RoleEarned(i)'
  BY RoleEarnedStays DEF RolesEarned
<1> QED
  BY <1>1 DEF RolesEarned

LEMMA RolesEarnedByNone ==
    ASSUME RolesEarned, msgs \subseteq msgs', UNCHANGED electionVars PROVE RolesEarned'
BY RoleEarnedStays DEF RolesEarned, electionVars

\* Messages already sent stay honest.
LEMMA MessagesStayHonest ==
    ASSUME MessagesHonest, msgs \subseteq msgs',
           \A m \in msgs' \ msgs : /\ m.from # m.to
                                   /\ m.type = "AppendEntries" => Elected(m.from, m.term)'
    PROVE  MessagesHonest'
<1>1. ASSUME NEW m \in msgs, m.type = "AppendEntries" PROVE Elected(m.from, m.term)'
  BY <1>1, ElectedStays DEF MessagesHonest
<1> QED
  BY <1>1 DEF MessagesHonest

LEMMA EarnBroadcastElection ==
    ASSUME TypeOK, MessagesHonest, RolesEarned, NEW n \in Node, BroadcastElection(n)
    PROVE  MessagesHonest' /\ RolesEarned'
<1>1. msgs \subseteq msgs'
  BY DEF BroadcastElection
<1>2. \A m \in msgs' \ msgs : m.type = "VoteRequest" /\ m.from = n /\ m.to # n
  BY DEF BroadcastElection, Peers
<1>3. MessagesHonest'
  BY <1>1, <1>2, MessagesStayHonest
<1>4. /\ currentTerm'[n] = currentTerm[n] + 1 /\ votes'[n] = {n}
      /\ role'[n] = "Candidate" /\ leaderId'[n] = Nil
  BY DEF TypeOK, BroadcastElection
<1>5. Peers(n) # {} => Ballot(n, n, currentTerm[n])'
  <2>1. ASSUME NEW p \in Peers(n)
        PROVE  \E m \in msgs' : /\ m.type = "VoteRequest" /\ m.from = n
                                /\ m.term = currentTerm'[n]
    <3> DEFINE r == [type |-> "VoteRequest", from |-> n, to |-> p, term |-> currentTerm[n] + 1,
                     lastLogIndex |-> Len(log[n]), lastLogTerm |-> LastTerm(log[n])]
    <3>1. r \in msgs'
      BY DEF BroadcastElection
    <3>2. r.type = "VoteRequest" /\ r.from = n /\ r.term = currentTerm[n] + 1
      OBVIOUS
    <3> QED
      BY <1>4, <3>1, <3>2
  <2> QED
    BY <2>1 DEF Ballot
<1>6. RoleEarned(n)'
  BY <1>4, <1>5 DEF RoleEarned
<1>7. \A i \in Node \ {n} : /\ role'[i] = role[i] /\ leaderId'[i] = leaderId[i]
                            /\ currentTerm'[i] = currentTerm[i] /\ votes'[i] = votes[i]
  BY DEF TypeOK, BroadcastElection
<1> QED
  BY <1>1, <1>3, <1>6, <1>7, RolesEarnedByOne

\* Stepping down, whatever else is left alone.
LEMMA EarnStepDown ==
    ASSUME TypeOK, RolesEarned, NEW n \in Node, NEW t, StepDown(n, t),
           UNCHANGED <<votes, msgs>>
    PROVE  RolesEarned'
<1>1. role'[n] = "Follower" /\ leaderId'[n] = Nil
  BY DEF TypeOK, StepDown
<1>2. \A i \in Node \ {n} : /\ role'[i] = role[i] /\ leaderId'[i] = leaderId[i]
                            /\ currentTerm'[i] = currentTerm[i] /\ votes'[i] = votes[i]
  BY DEF TypeOK, StepDown
<1> QED
  BY <1>1, <1>2, FollowerEarned, RolesEarnedByOne

LEMMA EarnHandleVoteRequest ==
    ASSUME TypeOK, MessagesHonest, RolesEarned,
           NEW m \in msgs, m \in VoteRequest, HandleVoteRequest(m.to, m)
    PROVE  MessagesHonest' /\ RolesEarned'
<1> DEFINE n == m.to
<1>1. n \in Node /\ m.from # n /\ m.term \in Nat /\ currentTerm[n] \in Nat
  BY DEF TypeOK, VoteRequest, MessagesHonest
<1>2. msgs \subseteq msgs' /\ \A x \in msgs' \ msgs : x.type = "VoteResponse" /\ x.from # x.to
  BY <1>1 DEF HandleVoteRequest, Send
<1>3. MessagesHonest'
  BY <1>2, MessagesStayHonest
<1>4. \A i \in Node \ {n} : /\ role'[i] = role[i] /\ leaderId'[i] = leaderId[i]
                            /\ currentTerm'[i] = currentTerm[i] /\ votes'[i] = votes[i]
  BY DEF TypeOK, HandleVoteRequest
<1>5. CASE m.term > currentTerm[n]
  <2>1. role'[n] = "Follower" /\ leaderId'[n] = Nil
    BY <1>1, <1>5 DEF TypeOK, HandleVoteRequest
  <2> QED
    BY <1>1, <1>2, <1>3, <1>4, <2>1, FollowerEarned, RolesEarnedByOne
<1>6. CASE ~ (m.term > currentTerm[n])
  <2>1. role'[n] = role[n] /\ leaderId'[n] = leaderId[n] /\ votes'[n] = votes[n]
    BY <1>1, <1>6 DEF TypeOK, HandleVoteRequest
  <2>2. currentTerm'[n] = currentTerm[n]
    BY <1>1, <1>6 DEF TypeOK, HandleVoteRequest, Larger
  <2>3. RoleEarned(n)'
    BY <1>1, <1>2, <2>1, <2>2, RoleEarnedStays DEF RolesEarned
  <2> QED
    BY <1>1, <1>2, <1>3, <1>4, <2>3, RolesEarnedByOne
<1> QED
  BY <1>5, <1>6

LEMMA EarnHandleVoteResponse ==
    ASSUME TypeOK, MessagesHonest, RolesEarned,
           NEW m \in msgs, m \in VoteResponse, HandleVoteResponse(m.to, m)
    PROVE  MessagesHonest' /\ RolesEarned'
<1> DEFINE n == m.to
           tally == IF m.granted THEN votes[n] \cup {m.from} ELSE votes[n]
<1>1. n \in Node /\ m.from \in Peers(n) /\ m.term \in Nat /\ m.type = "VoteResponse"
  BY DEF TypeOK, VoteResponse, MessagesHonest, Peers
<1>2. msgs' = msgs
  BY DEF HandleVoteResponse
<1>3. MessagesHonest'
  BY <1>2, MessagesStayHonest
<1>4. CASE StepDown(n, m.term) /\ UNCHANGED votes
  BY <1>1, <1>2, <1>3, <1>4, EarnStepDown
<1>5. CASE /\ m.term = currentTerm[n] /\ role[n] = "Candidate"
           /\ votes' = [votes EXCEPT ![n] = tally] /\ UNCHANGED currentTerm
           /\ IF Cardinality(tally) >= QuorumSize
              THEN BecomeLeader(n)
              ELSE UNCHANGED <<role, leaderId, log, peerVars>>
  <2>1. \A v \in votes[n] : Ballot(v, n, currentTerm[n])
    BY <1>1, <1>5 DEF RolesEarned, RoleEarned
  <2>2. m.granted => Ballot(m.from, n, currentTerm[n])
    BY <1>1, <1>5 DEF Ballot
  <2>3. tally \in SUBSET Node /\ \A v \in tally : Ballot(v, n, currentTerm[n])
    BY <1>1, <2>1, <2>2 DEF TypeOK, Peers
  <2>4. votes'[n] = tally /\ currentTerm'[n] = currentTerm[n]
    BY <1>1, <1>5 DEF TypeOK
  <2> HIDE DEF tally
  <2>5. \A i \in Node \ {n} : /\ role'[i] = role[i] /\ leaderId'[i] = leaderId[i]
                              /\ currentTerm'[i] = currentTerm[i] /\ votes'[i] = votes[i]
    BY <1>5 DEF TypeOK, BecomeLeader
  <2>6. RoleEarned(n)'
    <3>1. CASE Cardinality(tally) >= QuorumSize
      <4>1. Elected(n, currentTerm[n])
        BY <2>3, <3>1 DEF Elected
      <4>2. Elected(n, currentTerm[n])'
        BY <1>2, <2>4, <4>1, ElectedStays
      <4>3. role'[n] = "Leader" /\ leaderId'[n] = n
        BY <1>1, <1>5, <3>1 DEF TypeOK, BecomeLeader
      <4> QED
        BY <4>2, <4>3 DEF RoleEarned
    <3>2. CASE ~ (Cardinality(tally) >= QuorumSize)
      <4>1. role'[n] = "Candidate" /\ leaderId'[n] = leaderId[n]
        BY <1>5, <3>2
      <4>2. \A v \in tally : Ballot(v, n, currentTerm[n])'
        BY <1>2, <2>3, <2>4, BallotsStay
      <4>3. leaderId[n] # Nil => Elected(leaderId[n], currentTerm[n])
        BY <1>1 DEF RolesEarned, RoleEarned
      <4>4. leaderId'[n] # Nil => Elected(leaderId[n], currentTerm[n])'
        BY <1>2, <2>4, <4>1, <4>3, ElectedStays
      <4> QED
        BY <2>4, <4>1, <4>2, <4>4 DEF RoleEarned
    <3> QED
      BY <3>1, <3>2
  <2> QED
    BY <1>1, <1>2, <1>3, <2>5, <2>6, RolesEarnedByOne
<1> QED
  BY <1>4, <1>5 DEF HandleVoteResponse

LEMMA EarnSendAppendEntries ==
    ASSUME TypeOK, MessagesHonest, RolesEarned,
           NEW n \in Node, NEW p \in Peers(n), SendAppendEntries(n, p)
    PROVE  MessagesHonest' /\ RolesEarned'
<1>1. msgs \subseteq msgs' /\ UNCHANGED electionVars
  BY DEF SendAppendEntries, Send
<1>2. Elected(n, currentTerm[n])
  BY DEF SendAppendEntries, RolesEarned, RoleEarned
<1>3. \A m \in msgs' \ msgs : m.from = n /\ m.to = p /\ m.term = currentTerm[n] /\ p # n
  BY DEF SendAppendEntries, Send, Peers
<1>4. \A m \in msgs' \ msgs : m.from # m.to /\ Elected(m.from, m.term)'
  BY <1>1, <1>2, <1>3, ElectedStays
<1> QED
  BY <1>1, <1>4, MessagesStayHonest, RolesEarnedByNone

LEMMA EarnHandleAppendEntries ==
    ASSUME TypeOK, MessagesHonest, RolesEarned,
           NEW m \in msgs, m \in AppendEntriesRequest, HandleAppendEntries(m.to, m)
    PROVE  MessagesHonest' /\ RolesEarned'
<1> DEFINE n == m.to
<1>1. n \in Node /\ m.from # n /\ Elected(m.from, m.term)
  BY DEF AppendEntriesRequest, MessagesHonest
<1>2. \E t, ok, match, c : AppendEntriesReply(n, m, t, ok, match, c)
  BY DEF HandleAppendEntries, RejectStaleLeader, RejectMissingPrev, RejectPrevTerm, AcceptEntries
<1>3. /\ msgs \subseteq msgs'
      /\ \A x \in msgs' \ msgs : x.type = "AppendEntriesResponse" /\ x.from # x.to
  BY <1>1, <1>2 DEF AppendEntriesReply, Send
<1>4. MessagesHonest'
  BY <1>3, MessagesStayHonest
<1>5. CASE UNCHANGED electionVars
  BY <1>3, <1>4, <1>5, RolesEarnedByNone
<1>6. CASE FollowLeader(n, m)
  <2>1. role'[n] = "Follower" /\ leaderId'[n] = m.from /\ currentTerm'[n] = m.term
    BY <1>1, <1>6 DEF TypeOK, FollowLeader
  <2>2. Elected(m.from, m.term)'
    BY <1>1, <1>3, ElectedStays
  <2>3. RoleEarned(n)'
    BY <2>1, <2>2 DEF RoleEarned
  <2>4. \A i \in Node \ {n} : /\ role'[i] = role[i] /\ leaderId'[i] = leaderId[i]
                              /\ currentTerm'[i] = currentTerm[i] /\ votes'[i] = votes[i]
    BY <1>6 DEF TypeOK, FollowLeader
  <2> QED
    BY <1>1, <1>3, <1>4, <2>3, <2>4, RolesEarnedByOne
<1> QED
  BY <1>5, <1>6
  DEF HandleAppendEntries, RejectStaleLeader, RejectMissingPrev, RejectPrevTerm, AcceptEntries

LEMMA EarnHandleAppendEntriesResponse ==
    ASSUME TypeOK, MessagesHonest, RolesEarned,
           NEW m \in msgs, m \in AppendEntriesResponse, HandleAppendEntriesResponse(m.to, m)
    PROVE  MessagesHonest' /\ RolesEarned'
<1>1. m.to \in Node
  BY DEF AppendEntriesResponse
<1>2. msgs' = msgs
  BY DEF HandleAppendEntriesResponse
<1>3. UNCHANGED electionVars \/ (StepDown(m.to, m.term) /\ UNCHANGED votes)
  BY DEF HandleAppendEntriesResponse
<1> QED
  BY <1>1, <1>2, <1>3, MessagesStayHonest, RolesEarnedByNone, EarnStepDown

LEMMA EarnCheckLease ==
    ASSUME TypeOK, MessagesHonest, RolesEarned, NEW n \in Node, CheckLease(n)
    PROVE  MessagesHonest' /\ RolesEarned'
<1>1. msgs' = msgs
  BY DEF CheckLease
<1>2. role'[n] = "Follower" /\ leaderId'[n] = Nil
  BY DEF TypeOK, CheckLease
<1>3. \A i \in Node \ {n} : /\ role'[i] = role[i] /\ leaderId'[i] = leaderId[i]
                            /\ currentTerm'[i] = currentTerm[i] /\ votes'[i] = votes[i]
  BY DEF TypeOK, CheckLease
<1> QED
  BY <1>1, <1>2, <1>3, MessagesStayHonest, FollowerEarned, RolesEarnedByOne

LEMMA ElectionInit == Init => ElectionInv
BY NodeAssumption DEF Init, ElectionInv, MessagesHonest, BallotsRemembered, BallotsUnique,
                      RolesEarned, RoleEarned, Ballot

LEMMA ElectionNext == TypeOK /\ TypeOK' /\ ElectionInv /\ [Next]_vars => ElectionInv'
<1> SUFFICES ASSUME TypeOK, TypeOK', ElectionInv, [Next]_vars PROVE ElectionInv'
  OBVIOUS
<1> USE DEF ElectionInv
<1>1. BallotsRemembered' /\ BallotsUnique'
  BY VoteNext, BallotsInductive
<1>2. ASSUME NEW m \in msgs, ProcessMessage(m) PROVE MessagesHonest' /\ RolesEarned'
  <2>1. m \in Message
    BY DEF TypeOK
  <2> QED
    BY <1>2, <2>1, MessageByType, EarnHandleVoteRequest, EarnHandleVoteResponse,
       EarnHandleAppendEntries, EarnHandleAppendEntriesResponse DEF ProcessMessage
<1>3. ASSUME msgs' = msgs, UNCHANGED electionVars PROVE MessagesHonest' /\ RolesEarned'
  BY <1>3, MessagesStayHonest, RolesEarnedByNone
<1>4. ASSUME NEW n \in Node, (\E v \in Value : Propose(n, v)) \/ ApplyCommitted(n)
      PROVE  msgs' = msgs /\ UNCHANGED electionVars
  BY <1>4 DEF Propose, ApplyCommitted
<1>5. UNCHANGED vars => msgs' = msgs /\ UNCHANGED electionVars
  BY DEF vars
<1>6. MessagesHonest' /\ RolesEarned'
  BY <1>2, <1>3, <1>4, <1>5, EarnBroadcastElection, EarnSendAppendEntries, EarnCheckLease DEF Next
<1> QED
  BY <1>1, <1>6

\* The invariant that carries the election proofs holds in every reachable state.
THEOREM ElectionInvariant == Spec => []ElectionInv
BY TypeCorrect, ElectionInit, ElectionNext, PTL DEF Spec

\* No two nodes lead one term, whatever becomes of the messages between them.
THEOREM ElectionSafe == Spec => []ElectionSafety
<1>1. TypeOK /\ ElectionInv => ElectionSafety
  BY ElectedUnique DEF TypeOK, ElectionInv, RolesEarned, RoleEarned, ElectionSafety
<1> QED
  BY <1>1, TypeCorrect, ElectionInvariant, PTL

\* Nodes of one term that name a leader name the same one.
THEOREM HintsAgree == Spec => []LeaderHintsAgree
<1>1. TypeOK /\ ElectionInv => LeaderHintsAgree
  BY ElectedUnique DEF TypeOK, ElectionInv, RolesEarned, RoleEarned, LeaderHintsAgree
<1> QED
  BY <1>1, TypeCorrect, ElectionInvariant, PTL

-----------------------------------------------------------------------------
(* Logs.                                                                   *)

\* The links of a log appended to are the old ones and the one at its end.
LEMMA LinksAppend ==
    ASSUME NEW l \in Seq(Entry), NEW e \in Entry, NEW x \in LinksOf(0, 0, Append(l, e))
    PROVE  \/ x \in LinksOf(0, 0, l)
           \/ x = Link(0, 0, Append(l, e), Len(l) + 1)
<1> DEFINE a == Append(l, e)
<1>1. Len(a) = Len(l) + 1 /\ a[Len(l) + 1] = e /\ \A i \in 1..Len(l) : a[i] = l[i]
  OBVIOUS
<1>2. Len(l) \in Nat
  OBVIOUS
<1> HIDE DEF a
<1>3. PICK k \in 1..Len(a) : x = Link(0, 0, a, k)
  BY DEF LinksOf, a
<1>4. CASE k = Len(l) + 1
  BY <1>3, <1>4 DEF a
<1>5. CASE k \in 1..Len(l)
  <2>1. a[k] = l[k] /\ (k # 1 => a[k - 1] = l[k - 1])
    BY <1>1, <1>2, <1>5
  <2>2. x = Link(0, 0, l, k)
    BY <1>3, <2>1 DEF Link
  <2> QED
    BY <1>5, <2>2 DEF LinksOf
<1> QED
  BY <1>1, <1>2, <1>4, <1>5

\* The entries create_append_entries takes from a log, and the term it sends
\* with them, are links of that log.
LEMMA LinksSent ==
    ASSUME NEW l \in Seq(Entry), NEW prev \in Nat, NEW max \in Nat,
           NEW x \in LinksOf(prev, PrevTerm(l, prev), EntriesFrom(l, prev, max))
    PROVE  x \in LinksOf(0, 0, l)
<1> DEFINE last == Smaller(Len(l), prev + max)
           es == EntriesFrom(l, prev, max)
<1>1. Len(l) \in Nat /\ last \in Int /\ last <= Len(l)
  BY DEF Smaller
<1>2. \A i \in (prev + 1)..last : l[i] \in Entry
  BY <1>1
<1>3. /\ Len(es) = IF prev + 1 <= last THEN last - (prev + 1) + 1 ELSE 0
      /\ \A i \in 1..(last - (prev + 1) + 1) : es[i] = l[prev + 1 + i - 1]
  BY <1>1, <1>2, SubSeqProperties DEF EntriesFrom
<1> HIDE DEF es, last
<1>4. PICK k \in 1..Len(es) : x = Link(prev, PrevTerm(l, prev), es, k)
  BY DEF LinksOf, es
<1>5. k \in Nat /\ k >= 1 /\ prev + k \in 1..Len(l) /\ k <= last - (prev + 1) + 1
  BY <1>1, <1>3, <1>4
<1>6. es[k] = l[prev + k] /\ (k # 1 => es[k - 1] = l[prev + k - 1])
  <2>1. ASSUME NEW i \in 1..(last - (prev + 1) + 1) PROVE es[i] = l[prev + i]
    <3>1. prev + 1 + i - 1 = prev + i
      OBVIOUS
    <3> QED
      BY <1>3, <3>1
  <2>2. k # 1 => k - 1 \in 1..(last - (prev + 1) + 1) /\ prev + (k - 1) = prev + k - 1
    BY <1>1, <1>5
  <2>3. k \in 1..(last - (prev + 1) + 1)
    BY <1>1, <1>5
  <2>4. k # 1 => es[k - 1] = l[prev + (k - 1)]
    BY <2>1, <2>2
  <2> QED
    BY <2>1, <2>2, <2>3, <2>4
<1>7. k = 1 /\ prev > 0 => PrevTerm(l, prev) = l[prev + k - 1].term
  BY <1>1, <1>5 DEF PrevTerm, HasTerm, TermAt
<1>8. 0 + (prev + k) = prev + k /\ (prev + k = 1 <=> k = 1 /\ ~ prev > 0)
  BY <1>5
<1>9. x = Link(0, 0, l, prev + k)
  BY <1>4, <1>6, <1>7, <1>8 DEF Link
<1> QED
  BY <1>5, <1>9 DEF LinksOf

\* Truncating at the first conflict leaves a prefix of the log that agrees
\* with the request on the terms it shares with it.
LEMMA TruncateConflictKeeps ==
    ASSUME NEW l \in Seq(Entry), NEW es \in Seq(Entry), NEW prev \in 0..Len(l)
    PROVE  /\ \A i \in 1..Len(TruncateConflict(l, prev, es)) : TruncateConflict(l, prev, es)[i] = l[i]
           /\ \A k \in 1..Len(es) :
                prev + k <= Len(TruncateConflict(l, prev, es)) => l[prev + k].term = es[k].term
<1> DEFINE C == Conflicts(l, prev, es)
           first == CHOOSE k \in C : \A j \in C : k <= j
<1>0. prev \in Nat /\ Len(l) \in Nat /\ Len(es) \in Nat
  OBVIOUS
<1>1. ASSUME NEW k \in 1..Len(es), prev + k <= Len(l), k \notin C
      PROVE  l[prev + k].term = es[k].term
  BY <1>0, <1>1 DEF Conflicts, HasTerm, TermAt
<1>2. CASE C = {}
  BY <1>0, <1>1, <1>2 DEF TruncateConflict
<1>3. CASE C # {}
  <2>1. C \in SUBSET Nat /\ \A k \in C : k \in 1..Len(es) /\ prev + k <= Len(l)
    BY DEF Conflicts, HasTerm
  <2>2. \E k \in C : \A j \in C : k <= j
    BY <1>3, <2>1, LeastNat
  <2>3. first \in C /\ \A j \in C : first <= j
    BY <2>2
  <2>4. first \in Nat /\ first >= 1 /\ prev + first <= Len(l)
    BY <2>1, <2>3
  <2>5. TruncateConflict(l, prev, es) = SubSeq(l, 1, prev + first - 1)
    BY <1>3 DEF TruncateConflict
  <2> HIDE DEF first
  <2> DEFINE b == prev + first - 1
  <2>6. b \in Int /\ \A i \in 1..b : l[i] \in Entry
    BY <1>0, <2>4
  <2>7. /\ Len(SubSeq(l, 1, b)) = IF 1 <= b THEN b - 1 + 1 ELSE 0
        /\ \A i \in 1..(b - 1 + 1) : SubSeq(l, 1, b)[i] = l[1 + i - 1]
    BY <2>6, SubSeqProperties
  <2>8. \A i \in 1..Len(SubSeq(l, 1, b)) : SubSeq(l, 1, b)[i] = l[i]
    <3> SUFFICES ASSUME NEW i \in 1..Len(SubSeq(l, 1, b)) PROVE SubSeq(l, 1, b)[i] = l[i]
      OBVIOUS
    <3>1. i \in 1..(b - 1 + 1) /\ 1 + i - 1 = i
      BY <2>6, <2>7
    <3> QED
      BY <2>7, <3>1
  <2>9. ASSUME NEW k \in 1..Len(es), prev + k <= Len(SubSeq(l, 1, b))
        PROVE  l[prev + k].term = es[k].term
    <3>1. k < first
      BY <1>0, <2>4, <2>6, <2>7, <2>9
    <3>2. k \notin C
      BY <2>3, <2>4, <3>1
    <3> QED
      BY <1>0, <1>1, <2>4, <3>1, <3>2
  <2> QED
    BY <2>5, <2>8, <2>9
<1> QED
  BY <1>2, <1>3

\* What a follower makes of its log is made of links of that log and of the
\* request, whose predecessor its log has: none is new.
LEMMA LinksAccepted ==
    ASSUME NEW l \in Seq(Entry), NEW es \in Seq(Entry), NEW prev \in 0..Len(l), NEW t,
           prev = 0 \/ TermAt(l, prev) = t,
           NEW x \in LinksOf(0, 0, AppendTo(l, prev, es))
    PROVE  x \in LinksOf(0, 0, l) \/ x \in LinksOf(prev, t, es)
<1> DEFINE kept == TruncateConflict(l, prev, es)
           c == Len(kept)
           rest == SubSeq(es, c - prev + 1, Len(es))
           a == AppendTo(l, prev, es)
<1>1. kept \in Seq(Entry) /\ c \in prev..Len(l) /\ c \in Nat /\ prev \in Nat /\ Len(l) \in Nat
  BY TruncateConflictType
<1>2. /\ \A i \in 1..c : kept[i] = l[i]
      /\ \A k \in 1..Len(es) : prev + k <= c => l[prev + k].term = es[k].term
  BY TruncateConflictKeeps
<1>3. c - prev + 1 \in Int /\ c - prev + 1 >= 1 /\ Len(es) \in Nat
  BY <1>1
<1>4. \A i \in (c - prev + 1)..Len(es) : es[i] \in Entry
  BY <1>3
<1>5. /\ rest \in Seq(Entry)
      /\ Len(rest) = IF c - prev + 1 <= Len(es) THEN Len(es) - (c - prev + 1) + 1 ELSE 0
      /\ \A i \in 1..(Len(es) - (c - prev + 1) + 1) : rest[i] = es[c - prev + 1 + i - 1]
  BY <1>3, <1>4, SubSeqProperties
<1>6. /\ a = kept \o rest /\ Len(a) = c + Len(rest)
      /\ \A i \in 1..c : a[i] = kept[i]
      /\ \A i \in 1..Len(rest) : a[c + i] = rest[i]
  BY <1>1, <1>5 DEF AppendTo
<1> HIDE DEF a, rest, c, kept
<1>7. PICK i \in 1..Len(a) : x = Link(0, 0, a, i)
  BY DEF LinksOf, a
<1>8. \A j \in 1..c : a[j] = l[j]
  BY <1>2, <1>6
<1>9. ASSUME NEW j \in (c + 1)..Len(a) PROVE j - prev \in 1..Len(es) /\ a[j] = es[j - prev]
  <2>1. j - c \in 1..Len(rest) /\ c + (j - c) = j
    BY <1>1, <1>5, <1>6
  <2>2. a[j] = rest[j - c]
    BY <1>6, <2>1
  <2>3. j - c \in 1..(Len(es) - (c - prev + 1) + 1) /\ c - prev + 1 + (j - c) - 1 = j - prev
    BY <1>1, <1>3, <1>5, <2>1
  <2> QED
    BY <1>1, <1>3, <1>5, <2>2, <2>3
<1>10. CASE i <= c
  <2>1. i \in 1..c /\ (i # 1 => i - 1 \in 1..c)
    BY <1>1, <1>7, <1>10
  <2>2. a[i] = l[i] /\ (i # 1 => a[i - 1] = l[i - 1])
    BY <1>8, <2>1
  <2>3. x = Link(0, 0, l, i)
    BY <1>7, <2>2 DEF Link
  <2> QED
    BY <1>1, <2>1, <2>3 DEF LinksOf
<1>11. CASE i > c
  <2> DEFINE k == i - prev
  <2>1. i \in (c + 1)..Len(a) /\ i \in Nat
    BY <1>1, <1>6, <1>7, <1>11
  <2>2. k \in 1..Len(es) /\ a[i] = es[k] /\ prev + k = i /\ k \in Nat
    BY <1>1, <1>9, <2>1
  <2>3. i # 1 /\ k = 1 => prev > 0 /\ a[i - 1].term = t
    <3> SUFFICES ASSUME i # 1, k = 1 PROVE prev > 0 /\ a[i - 1].term = t
      OBVIOUS
    <3>1. prev > 0 /\ i - 1 = prev /\ prev \in 1..c
      BY <1>1, <2>1, <2>2
    <3> QED
      BY <1>1, <1>8, <3>1 DEF TermAt
  <2>4. i # 1 /\ k # 1 => a[i - 1].term = es[k - 1].term
    <3> SUFFICES ASSUME i # 1, k # 1 PROVE a[i - 1].term = es[k - 1].term
      OBVIOUS
    <3>1. CASE i - 1 > c
      <4>1. i - 1 \in (c + 1)..Len(a) /\ (i - 1) - prev = k - 1
        BY <1>1, <2>1, <3>1
      <4> QED
        BY <1>9, <4>1
    <3>2. CASE ~ (i - 1 > c)
      <4>1. i - 1 \in 1..c /\ k - 1 \in 1..Len(es) /\ prev + (k - 1) = i - 1 /\ prev + (k - 1) <= c
        BY <1>1, <2>1, <2>2, <3>2
      <4>2. a[i - 1] = l[i - 1] /\ l[prev + (k - 1)].term = es[k - 1].term
        BY <1>2, <1>8, <4>1
      <4> QED
        BY <4>1, <4>2
    <3> QED
      BY <3>1, <3>2
  <2>5. i = 1 => ~ (prev > 0)
    BY <1>1, <2>2
  <2> HIDE DEF k
  <2>6. x = Link(prev, t, es, k)
    <3>1. 0 + i = prev + k /\ ~ (i = 1 /\ 0 > 0) /\ i \in Int
      BY <2>1, <2>2
    <3>2. CASE i = 1
      BY <1>7, <2>2, <2>5, <3>1, <3>2 DEF Link
    <3>3. CASE i # 1 /\ k = 1
      BY <1>7, <2>2, <2>3, <3>1, <3>3 DEF Link
    <3>4. CASE i # 1 /\ k # 1
      BY <1>7, <2>2, <2>4, <3>1, <3>4 DEF Link
    <3> QED
      BY <3>2, <3>3, <3>4
  <2> QED
    BY <2>2, <2>6 DEF LinksOf
<1> QED
  BY <1>1, <1>7, <1>10, <1>11

\* A step that brings no link into the cluster and touches no leader's log.
AddsNoLink ==
    /\ Links' \subseteq Links
    /\ \A i \in Node : role'[i] = "Leader" =>
         role[i] = "Leader" /\ currentTerm'[i] = currentTerm[i] /\ log'[i] = log[i]

\* A step in which n, leading or elected just now, appends e of its own term.
Extends(n, e) ==
    /\ role[n] \in {"Candidate", "Leader"} /\ role'[n] = "Leader"
    /\ currentTerm' = currentTerm /\ e.term = currentTerm[n]
    /\ log' = [log EXCEPT ![n] = Append(@, e)]
    /\ \A i \in Node \ {n} : role'[i] = role[i]
    /\ msgs' = msgs

\* A node becomes a candidate only by moving to another term.
CandidacyMoves ==
    \A c \in Node : currentTerm'[c] = currentTerm[c] /\ role'[c] = "Candidate" => role[c] = "Candidate"

\* Where a link comes from.
LEMMA LinkFrom ==
    ASSUME NEW x
    PROVE  x \in Links <=>
             \/ \E n \in Node : x \in LinksOf(0, 0, log[n])
             \/ \E m \in msgs : /\ m.type = "AppendEntries"
                                /\ x \in LinksOf(m.prevLogIndex, m.prevLogTerm, m.entries)
BY DEF Links, LogLinks, MessageLinks

\* With the logs left alone and no AppendEntries sent, the links are the same.
LEMMA LinksLeftAlone ==
    ASSUME log' = log, \A m \in msgs' : m \in msgs \/ m.type # "AppendEntries"
    PROVE  Links' \subseteq Links
BY DEF Links, LogLinks, MessageLinks

LEMMA LinkBroadcastElection ==
    ASSUME TypeOK, NEW n \in Node, BroadcastElection(n) PROVE AddsNoLink /\ CandidacyMoves
<1>1. log' = log /\ \A m \in msgs' : m \in msgs \/ m.type # "AppendEntries"
  BY DEF BroadcastElection
<1>2. \A i \in Node \ {n} : role'[i] = role[i] /\ currentTerm'[i] = currentTerm[i]
  BY DEF TypeOK, BroadcastElection
<1>3. role'[n] = "Candidate" /\ currentTerm'[n] = currentTerm[n] + 1 /\ currentTerm[n] \in Nat
  BY DEF TypeOK, BroadcastElection
<1>4. currentTerm'[n] # currentTerm[n]
  BY <1>3
<1> QED
  BY <1>1, <1>2, <1>3, <1>4, LinksLeftAlone DEF AddsNoLink, CandidacyMoves

LEMMA LinkHandleVoteRequest ==
    ASSUME TypeOK, NEW m \in VoteRequest, HandleVoteRequest(m.to, m)
    PROVE  AddsNoLink /\ CandidacyMoves
<1>1. log' = log /\ \A x \in msgs' : x \in msgs \/ x.type # "AppendEntries"
  BY DEF HandleVoteRequest, Send
<1>2. m.to \in Node /\ m.term \in Nat /\ currentTerm[m.to] \in Nat
  BY DEF TypeOK, VoteRequest
<1>3. \A i \in Node \ {m.to} : role'[i] = role[i] /\ currentTerm'[i] = currentTerm[i]
  BY DEF TypeOK, HandleVoteRequest
<1>4. \/ role'[m.to] = "Follower"
      \/ role'[m.to] = role[m.to] /\ currentTerm'[m.to] = currentTerm[m.to]
  <2>1. /\ role'[m.to] = IF m.term > currentTerm[m.to] THEN "Follower" ELSE role[m.to]
        /\ currentTerm'[m.to] = Larger(m.term, currentTerm[m.to])
    BY <1>2 DEF TypeOK, HandleVoteRequest
  <2> QED
    BY <1>2, <2>1 DEF Larger
<1> QED
  BY <1>1, <1>3, <1>4, LinksLeftAlone DEF AddsNoLink, CandidacyMoves

\* Stepping down, with the log and the messages left alone.
LEMMA LinkStepDown ==
    ASSUME TypeOK, NEW n \in Node, NEW t, StepDown(n, t), UNCHANGED <<log, msgs>>
    PROVE  AddsNoLink /\ CandidacyMoves
<1>1. role'[n] = "Follower"
  BY DEF TypeOK, StepDown
<1>2. \A i \in Node \ {n} : role'[i] = role[i] /\ currentTerm'[i] = currentTerm[i]
  BY DEF TypeOK, StepDown
<1> QED
  BY <1>1, <1>2, LinksLeftAlone DEF AddsNoLink, CandidacyMoves

LEMMA LinkHandleVoteResponse ==
    ASSUME TypeOK, NEW m \in VoteResponse, HandleVoteResponse(m.to, m)
    PROVE  CandidacyMoves /\ (AddsNoLink \/ \E e \in Entry : Extends(m.to, e))
<1> DEFINE n == m.to
<1>1. n \in Node /\ currentTerm[n] \in Nat
  BY DEF TypeOK, VoteResponse
<1>2. CASE StepDown(n, m.term) /\ UNCHANGED <<votes, log, commitVars, peerVars, msgs>>
  BY <1>1, <1>2, LinkStepDown
<1>3. CASE /\ role[n] = "Candidate" /\ BecomeLeader(n)
           /\ UNCHANGED <<currentTerm, votedFor, commitVars, msgs>>
  <2> DEFINE e == [term |-> currentTerm[n], value |-> NoOp]
  <2>1. e \in Entry /\ e.term = currentTerm[n]
    BY <1>1 DEF Entry
  <2>2. role'[n] = "Leader" /\ \A i \in Node \ {n} : role'[i] = role[i]
    BY <1>1, <1>3 DEF TypeOK, BecomeLeader
  <2>3. Extends(n, e)
    BY <1>3, <2>1, <2>2 DEF Extends, BecomeLeader
  <2> QED
    BY <2>1, <2>2, <2>3 DEF CandidacyMoves
<1>4. CASE /\ UNCHANGED <<role, leaderId, log, peerVars>>
           /\ UNCHANGED <<currentTerm, votedFor, commitVars, msgs>>
  BY <1>4, LinksLeftAlone DEF AddsNoLink, CandidacyMoves
<1> QED
  BY <1>2, <1>3, <1>4 DEF HandleVoteResponse

LEMMA LinkPropose ==
    ASSUME TypeOK, NEW n \in Node, NEW v \in Value, Propose(n, v)
    PROVE  CandidacyMoves /\ \E e \in Entry : Extends(n, e)
<1> DEFINE e == [term |-> currentTerm[n], value |-> v]
<1>1. e \in Entry /\ e.term = currentTerm[n]
  BY DEF TypeOK, Entry
<1> QED
  BY <1>1 DEF Propose, Extends, CandidacyMoves, electionVars

LEMMA LinkSendAppendEntries ==
    ASSUME TypeOK, NEW n \in Node, NEW p \in Peers(n), SendAppendEntries(n, p)
    PROVE  AddsNoLink /\ CandidacyMoves
<1> DEFINE prev == nextIndex[n][p] - 1
           t == PrevTerm(log[n], prev)
           es == EntriesFrom(log[n], prev, MaxEntries)
<1>1. prev \in Nat /\ log[n] \in Seq(Entry) /\ MaxEntries \in Nat
  <2>1. nextIndex[n] \in [Peers(n) -> Nat \ {0}]
    BY DEF TypeOK
  <2>2. nextIndex[n][p] \in Nat \ {0}
    BY <2>1
  <2> QED
    BY <2>2, BoundAssumption DEF TypeOK
<1>2. \A x \in LinksOf(prev, t, es) : x \in LinksOf(0, 0, log[n])
  BY <1>1, LinksSent
<1>3. log' = log /\ role' = role /\ currentTerm' = currentTerm
  BY DEF SendAppendEntries, electionVars
<1>4. \A m \in msgs' : m \in msgs \/ (m.prevLogIndex = prev /\ m.prevLogTerm = t /\ m.entries = es)
  BY DEF SendAppendEntries, Send
<1> HIDE DEF prev, t, es
<1>5. ASSUME NEW x \in Links' PROVE x \in Links
  <2>1. CASE \E i \in Node : x \in LinksOf(0, 0, log'[i])
    BY <1>3, <2>1, LinkFrom
  <2>2. CASE \E m \in msgs' : /\ m.type = "AppendEntries"
                              /\ x \in LinksOf(m.prevLogIndex, m.prevLogTerm, m.entries)
    BY <1>2, <1>4, <2>2, LinkFrom
  <2> QED
    BY <2>1, <2>2 DEF Links, LogLinks, MessageLinks
<1> QED
  BY <1>3, <1>5 DEF AddsNoLink, CandidacyMoves

LEMMA LinkHandleAppendEntries ==
    ASSUME TypeOK, NEW m \in msgs, m \in AppendEntriesRequest, HandleAppendEntries(m.to, m)
    PROVE  AddsNoLink /\ CandidacyMoves
<1> DEFINE n == m.to
<1>1. /\ n \in Node /\ m.prevLogIndex \in Nat /\ m.entries \in Seq(Entry)
      /\ log[n] \in Seq(Entry) /\ Len(log[n]) \in Nat /\ m.type = "AppendEntries"
  BY DEF TypeOK, AppendEntriesRequest
<1>2. \A x \in msgs' : x \in msgs \/ x.type # "AppendEntries"
  BY DEF HandleAppendEntries, RejectStaleLeader, RejectMissingPrev, RejectPrevTerm,
         AcceptEntries, AppendEntriesReply, Send
<1>3. CASE UNCHANGED <<electionVars, log>>
  BY <1>2, <1>3, LinksLeftAlone DEF AddsNoLink, CandidacyMoves, electionVars
<1>4. ASSUME FollowLeader(n, m)
      PROVE  /\ role'[n] = "Follower"
             /\ \A i \in Node \ {n} : role'[i] = role[i] /\ currentTerm'[i] = currentTerm[i]
  BY <1>1, <1>4 DEF TypeOK, FollowLeader
<1>5. CASE FollowLeader(n, m) /\ UNCHANGED log
  BY <1>2, <1>4, <1>5, LinksLeftAlone DEF AddsNoLink, CandidacyMoves
<1>6. CASE AcceptEntries(n, m)
  <2> DEFINE new == AppendTo(log[n], m.prevLogIndex, m.entries)
  <2>1. /\ FollowLeader(n, m) /\ log' = [log EXCEPT ![n] = new]
        /\ m.prevLogIndex <= Len(log[n])
        /\ m.prevLogIndex = 0 \/ TermAt(log[n], m.prevLogIndex) = m.prevLogTerm
    BY <1>6 DEF AcceptEntries, HasTerm
  <2>2. m.prevLogIndex \in 0..Len(log[n])
    BY <1>1, <2>1
  <2>3. \A x \in LinksOf(0, 0, new) :
          \/ x \in LinksOf(0, 0, log[n])
          \/ x \in LinksOf(m.prevLogIndex, m.prevLogTerm, m.entries)
    BY <1>1, <2>1, <2>2, LinksAccepted
  <2> HIDE DEF new
  <2>4. ASSUME NEW x \in Links' PROVE x \in Links
    <3>1. CASE x \in LinksOf(0, 0, log'[n])
      <4>1. log'[n] = new
        BY <1>1, <2>1 DEF TypeOK
      <4> QED
        BY <1>1, <2>3, <3>1, <4>1, LinkFrom
    <3>2. CASE \E i \in Node \ {n} : x \in LinksOf(0, 0, log'[i])
      <4>1. \A i \in Node \ {n} : log'[i] = log[i]
        BY <2>1 DEF TypeOK
      <4> QED
        BY <3>2, <4>1, LinkFrom
    <3>3. CASE \E y \in msgs' : /\ y.type = "AppendEntries"
                                /\ x \in LinksOf(y.prevLogIndex, y.prevLogTerm, y.entries)
      BY <1>2, <3>3, LinkFrom
    <3> QED
      BY <3>1, <3>2, <3>3 DEF Links, LogLinks, MessageLinks
  <2>5. \A i \in Node \ {n} : log'[i] = log[i]
    BY <2>1 DEF TypeOK
  <2> QED
    BY <1>4, <2>1, <2>4, <2>5 DEF AddsNoLink, CandidacyMoves
<1> QED
  BY <1>3, <1>5, <1>6
  DEF HandleAppendEntries, RejectStaleLeader, RejectMissingPrev, RejectPrevTerm

\* Every step either brings no link or extends the log of one leader.
LEMMA LinkNext ==
    ASSUME TypeOK, [Next]_vars
    PROVE  CandidacyMoves /\ (AddsNoLink \/ \E n \in Node, e \in Entry : Extends(n, e))
<1>1. ASSUME NEW m \in msgs, m \in AppendEntriesResponse, HandleAppendEntriesResponse(m.to, m)
      PROVE  AddsNoLink /\ CandidacyMoves
  <2>1. m.to \in Node
    BY <1>1 DEF AppendEntriesResponse
  <2>2. \/ UNCHANGED <<electionVars, log, msgs>>
        \/ StepDown(m.to, m.term) /\ UNCHANGED <<log, msgs>>
    BY <1>1 DEF HandleAppendEntriesResponse
  <2>3. CASE UNCHANGED <<electionVars, log, msgs>>
    BY <2>3, LinksLeftAlone DEF AddsNoLink, CandidacyMoves, electionVars
  <2> QED
    BY <2>1, <2>2, <2>3, LinkStepDown
<1>2. ASSUME NEW m \in msgs, ProcessMessage(m)
      PROVE  CandidacyMoves /\ (AddsNoLink \/ \E n \in Node, e \in Entry : Extends(n, e))
  <2>1. m \in Message /\ (m \in VoteResponse => m.to \in Node)
    BY DEF TypeOK, VoteResponse
  <2> QED
    BY <1>1, <1>2, <2>1, MessageByType, LinkHandleVoteRequest, LinkHandleVoteResponse,
       LinkHandleAppendEntries DEF ProcessMessage
<1>3. ASSUME UNCHANGED <<electionVars, log, msgs>> PROVE AddsNoLink /\ CandidacyMoves
  BY <1>3, LinksLeftAlone DEF AddsNoLink, CandidacyMoves, electionVars
<1>4. ASSUME NEW n \in Node, ApplyCommitted(n) PROVE AddsNoLink /\ CandidacyMoves
  BY <1>3, <1>4 DEF ApplyCommitted
<1>5. ASSUME NEW n \in Node, CheckLease(n) PROVE AddsNoLink /\ CandidacyMoves
  <2>1. role'[n] = "Follower" /\ \A i \in Node \ {n} : role'[i] = role[i]
    BY <1>5 DEF TypeOK, CheckLease
  <2>2. UNCHANGED <<currentTerm, log, msgs>>
    BY <1>5 DEF CheckLease
  <2> QED
    BY <2>1, <2>2, LinksLeftAlone DEF AddsNoLink, CandidacyMoves
<1>6. UNCHANGED vars => UNCHANGED <<electionVars, log, msgs>>
  BY DEF vars
<1> QED
  BY <1>2, <1>3, <1>4, <1>5, <1>6, LinkBroadcastElection, LinkPropose, LinkSendAppendEntries
  DEF Next

\* What a step that extends n's log adds to the links.
LEMMA LinksExtended ==
    ASSUME TypeOK, NEW n \in Node, NEW e \in Entry, Extends(n, e), NEW x \in Links'
    PROVE  \/ x \in Links
           \/ x = Link(0, 0, Append(log[n], e), Len(log[n]) + 1)
<1>1. log[n] \in Seq(Entry) /\ log'[n] = Append(log[n], e)
      /\ \A i \in Node \ {n} : log'[i] = log[i]
  BY DEF TypeOK, Extends
<1>2. CASE x \in LinksOf(0, 0, log'[n])
  BY <1>1, <1>2, LinksAppend, LinkFrom
<1>3. CASE \E i \in Node \ {n} : x \in LinksOf(0, 0, log'[i])
  BY <1>1, <1>3, LinkFrom
<1>4. CASE \E m \in msgs' : /\ m.type = "AppendEntries"
                            /\ x \in LinksOf(m.prevLogIndex, m.prevLogTerm, m.entries)
  BY <1>4, LinkFrom DEF Extends
<1> QED
  BY <1>2, <1>3, <1>4 DEF Links, LogLinks, MessageLinks

\* Every link has a place and an entry with a term.
LEMMA LinkType ==
    ASSUME TypeOK, NEW x \in Links PROVE x.index \in Nat /\ x.entry \in Entry /\ x.entry.term \in Nat
<1>1. ASSUME NEW prev \in Nat, NEW t, NEW es \in Seq(Entry), x \in LinksOf(prev, t, es)
      PROVE  x.index \in Nat /\ x.entry \in Entry
  <2>1. PICK k \in 1..Len(es) : x = Link(prev, t, es, k)
    BY <1>1 DEF LinksOf
  <2>2. es[k] \in Entry /\ prev + k \in Nat
    OBVIOUS
  <2> QED
    BY <2>1, <2>2 DEF Link
<1>2. \A n \in Node : log[n] \in Seq(Entry)
  BY DEF TypeOK
<1>3. \A m \in msgs : m.type = "AppendEntries" => m.prevLogIndex \in Nat /\ m.entries \in Seq(Entry)
  BY MessageByType DEF TypeOK, AppendEntriesRequest
<1> QED
  BY <1>1, <1>2, <1>3, LinkFrom DEF Entry

LEMMA LogInit == Init => LogInv
<1> SUFFICES ASSUME Init PROVE Links = {}
  BY DEF LogInv, LinksUnique, TermsEarned, LeadersAhead
<1>1. \A n \in Node : log[n] = <<>>
  BY DEF Init
<1>2. LinksOf(0, 0, <<>>) = {}
  BY DEF LinksOf
<1> QED
  BY <1>1, <1>2 DEF Init, Links, LogLinks, MessageLinks

\* An owner of a term stays one, through every step.
LEMMA TermsStayEarned ==
    ASSUME TypeOK, TypeOK', VoteKept, CandidacyMoves, msgs \subseteq msgs', NEW t \in Nat,
           \E c \in Node : /\ Elected(c, t) /\ currentTerm[c] >= t
                           /\ currentTerm[c] = t => role[c] # "Candidate"
    PROVE  \E c \in Node : /\ Elected(c, t)' /\ currentTerm'[c] >= t
                           /\ currentTerm'[c] = t => role'[c] # "Candidate"
<1>1. PICK c \in Node : /\ Elected(c, t) /\ currentTerm[c] >= t
                        /\ currentTerm[c] = t => role[c] # "Candidate"
  OBVIOUS
<1>2. Elected(c, t)'
  BY <1>1, ElectedStays
<1>3. currentTerm[c] \in Nat /\ currentTerm'[c] \in Nat /\ currentTerm'[c] >= currentTerm[c]
  BY DEF TypeOK, VoteKept
<1>4. currentTerm'[c] >= t /\ (currentTerm'[c] = t => currentTerm[c] = currentTerm'[c])
  BY <1>1, <1>3
<1>5. currentTerm'[c] = t => role'[c] # "Candidate"
  BY <1>1, <1>4 DEF CandidacyMoves
<1> QED
  BY <1>2, <1>4, <1>5

\* A step that adds no link keeps the invariant.
LEMMA LogAddsNoLink ==
    ASSUME TypeOK, TypeOK', LogInv, VoteKept, CandidacyMoves, msgs \subseteq msgs', AddsNoLink
    PROVE  LogInv'
<1>1. LinksUnique'
  BY DEF LogInv, LinksUnique, AddsNoLink
<1>2. TermsEarned'
  <2> SUFFICES ASSUME NEW x \in Links'
               PROVE  \E c \in Node : /\ Elected(c, x.entry.term)' /\ currentTerm'[c] >= x.entry.term
                                      /\ currentTerm'[c] = x.entry.term => role'[c] # "Candidate"
    BY DEF TermsEarned
  <2>1. x \in Links
    BY DEF AddsNoLink
  <2>2. x.entry.term \in Nat
    BY <2>1, LinkType
  <2>3. \E c \in Node : /\ Elected(c, x.entry.term) /\ currentTerm[c] >= x.entry.term
                        /\ currentTerm[c] = x.entry.term => role[c] # "Candidate"
    BY <2>1 DEF LogInv, TermsEarned
  <2> QED
    BY <2>2, <2>3, TermsStayEarned
<1>3. LeadersAhead'
  BY DEF LogInv, LeadersAhead, AddsNoLink
<1> QED
  BY <1>1, <1>2, <1>3 DEF LogInv

\* So does a leader's append: the term had no entry beyond its log's end.
LEMMA LogExtends ==
    ASSUME TypeOK, TypeOK', ElectionInv, ElectionInv', LogInv, VoteKept, CandidacyMoves,
           msgs \subseteq msgs', NEW n \in Node, NEW e \in Entry, Extends(n, e)
    PROVE  LogInv'
<1> DEFINE T == currentTerm[n]
           end == Len(log[n]) + 1
           new == Link(0, 0, Append(log[n], e), end)
<1>1. /\ T \in Nat /\ log[n] \in Seq(Entry) /\ end \in Nat /\ e.term = T
      /\ currentTerm' = currentTerm /\ role'[n] = "Leader"
      /\ log'[n] = Append(log[n], e) /\ Len(log'[n]) = end
  BY DEF TypeOK, Extends
<1>2. new.index = end /\ new.entry = e
  BY <1>1 DEF Link
<1> HIDE DEF new
<1>3. \A x \in Links' : x \in Links \/ x = new
  BY LinksExtended DEF new
<1>4. Elected(n, T)'
  BY <1>1 DEF ElectionInv, RolesEarned, RoleEarned
<1>5. ASSUME NEW x \in Links, x.entry.term = T PROVE x.index < end
  <2>1. CASE role[n] = "Leader"
    <3>1. x.index <= Len(log[n])
      BY <1>5, <2>1 DEF LogInv, LeadersAhead
    <3> QED
      BY <1>1, <3>1, LinkType
  <2>2. CASE role[n] = "Candidate"
    <3>1. PICK c \in Node : Elected(c, T) /\ (currentTerm[c] = T => role[c] # "Candidate")
      BY <1>5 DEF LogInv, TermsEarned
    <3>2. Elected(n, T)
      BY <1>4 DEF Elected, Ballot, Extends
    <3>3. c = n
      BY <1>1, <3>1, <3>2, ElectedUnique DEF ElectionInv
    <3> QED
      BY <2>2, <3>1, <3>3
  <2> QED
    BY <2>1, <2>2 DEF Extends
<1>6. LinksUnique'
  <2> SUFFICES ASSUME NEW x \in Links', NEW y \in Links', x.index = y.index,
                      x.entry.term = y.entry.term
               PROVE  x = y
    BY DEF LinksUnique
  <2>1. CASE x \in Links /\ y \in Links
    BY <2>1 DEF LogInv, LinksUnique
  <2>2. ASSUME NEW z \in Links, z.index = end, z.entry.term = T PROVE FALSE
    BY <1>1, <1>5, <2>2
  <2> QED
    BY <1>1, <1>2, <1>3, <2>1, <2>2
<1>7. TermsEarned'
  <2> SUFFICES ASSUME NEW x \in Links'
               PROVE  \E c \in Node : /\ Elected(c, x.entry.term)' /\ currentTerm'[c] >= x.entry.term
                                      /\ currentTerm'[c] = x.entry.term => role'[c] # "Candidate"
    BY DEF TermsEarned
  <2>1. CASE x \in Links
    <3>1. x.entry.term \in Nat
      BY <2>1, LinkType
    <3>2. \E c \in Node : /\ Elected(c, x.entry.term) /\ currentTerm[c] >= x.entry.term
                          /\ currentTerm[c] = x.entry.term => role[c] # "Candidate"
      BY <2>1 DEF LogInv, TermsEarned
    <3> QED
      BY <3>1, <3>2, TermsStayEarned
  <2>2. CASE x = new
    <3>1. x.entry.term = T /\ currentTerm'[n] = T /\ T >= T
      BY <1>1, <1>2, <2>2
    <3> QED
      BY <1>1, <1>4, <3>1
  <2> QED
    BY <1>3, <2>1, <2>2
<1>8. LeadersAhead'
  <2> SUFFICES ASSUME NEW i \in Node, NEW x \in Links', role'[i] = "Leader",
                      x.entry.term = currentTerm'[i]
               PROVE  x.index <= Len(log'[i])
    BY DEF LeadersAhead
  <2>1. currentTerm'[i] = currentTerm[i] /\ currentTerm[i] \in Nat
    BY <1>1 DEF TypeOK
  <2>2. CASE i = n
    <3>1. x.index < end \/ x.index = end
      BY <1>2, <1>3, <1>5, <2>1, <2>2
    <3>2. x.index \in Nat
      BY <1>1, <1>2, <1>3, LinkType
    <3> QED
      BY <1>1, <2>2, <3>1, <3>2
  <2>3. CASE i # n
    <3>1. role[i] = "Leader" /\ log'[i] = log[i]
      BY <2>3 DEF TypeOK, Extends
    <3>2. CASE x \in Links
      BY <2>1, <3>1, <3>2 DEF LogInv, LeadersAhead
    <3>3. CASE x = new
      <4>1. currentTerm[i] = T
        BY <1>1, <1>2, <2>1, <3>3
      <4>2. Elected(i, T)
        BY <3>1, <4>1 DEF ElectionInv, RolesEarned, RoleEarned
      <4>3. Elected(n, T)
        BY <1>4 DEF Elected, Ballot, Extends
      <4> QED
        BY <1>1, <2>3, <4>2, <4>3, ElectedUnique DEF ElectionInv
    <3> QED
      BY <1>3, <3>2, <3>3
  <2> QED
    BY <2>2, <2>3
<1> QED
  BY <1>6, <1>7, <1>8 DEF LogInv

LEMMA LogNext ==
    TypeOK /\ TypeOK' /\ ElectionInv /\ ElectionInv' /\ LogInv /\ [Next]_vars => LogInv'
<1> SUFFICES ASSUME TypeOK, TypeOK', ElectionInv, ElectionInv', LogInv, [Next]_vars PROVE LogInv'
  OBVIOUS
<1>1. VoteKept /\ msgs \subseteq msgs'
  BY VoteNext
<1> QED
  BY <1>1, LinkNext, LogAddsNoLink, LogExtends

\* The invariant that carries the proof about the logs holds in every
\* reachable state.
THEOREM LogInvariant == Spec => []LogInv
BY TypeCorrect, ElectionInvariant, LogInit, LogNext, PTL DEF Spec

\* Following the links back from an entry two logs share, they share all
\* that stands before it.
LEMMA LinksGiveMatching ==
    ASSUME TypeOK, LinksUnique, NEW i \in Node, NEW j \in Node,
           NEW k \in 1..Smaller(Len(log[i]), Len(log[j])), log[i][k].term = log[j][k].term
    PROVE  \A x \in 1..k : log[i][x] = log[j][x]
<1> DEFINE a == log[i]
           b == log[j]
<1>1. /\ a \in Seq(Entry) /\ b \in Seq(Entry) /\ Len(a) \in Nat /\ Len(b) \in Nat
      /\ k \in 1..Len(a) /\ k \in 1..Len(b) /\ k \in Nat
  BY DEF TypeOK, Smaller
<1>2. ASSUME NEW x \in 1..k, a[x].term = b[x].term
      PROVE  a[x] = b[x] /\ (x # 1 => a[x - 1].term = b[x - 1].term)
  <2>1. Link(0, 0, a, x) \in Links /\ Link(0, 0, b, x) \in Links
    <3>1. x \in 1..Len(a) /\ x \in 1..Len(b)
      BY <1>1
    <3>2. Link(0, 0, a, x) \in LinksOf(0, 0, a) /\ Link(0, 0, b, x) \in LinksOf(0, 0, b)
      BY <3>1 DEF LinksOf
    <3> QED
      BY <3>2, LinkFrom
  <2>2. Link(0, 0, a, x) = Link(0, 0, b, x)
    <3>1. /\ Link(0, 0, a, x).index = Link(0, 0, b, x).index
          /\ Link(0, 0, a, x).entry.term = Link(0, 0, b, x).entry.term
      BY <1>2 DEF Link
    <3> QED
      BY <2>1, <3>1 DEF LinksUnique
  <2>3. Link(0, 0, a, x).entry = a[x] /\ Link(0, 0, b, x).entry = b[x]
    BY DEF Link
  <2>4. x # 1 => /\ Link(0, 0, a, x).prevTerm = a[x - 1].term
                 /\ Link(0, 0, b, x).prevTerm = b[x - 1].term
    BY DEF Link
  <2> QED
    BY <2>2, <2>3, <2>4
<1> DEFINE differ == {x \in 1..k : a[x].term # b[x].term}
<1>3. differ = {}
  <2> SUFFICES ASSUME differ # {} PROVE FALSE
    OBVIOUS
  <2>1. differ \in SUBSET Nat /\ \A x \in differ : x <= k
    BY <1>1
  <2>2. PICK x \in differ : \A y \in differ : y <= x
    BY <1>1, <2>1, GreatestNat
  <2>3. x \in 1..k /\ x # k /\ x + 1 \in 1..k /\ x + 1 \notin differ /\ x + 1 # 1
    BY <1>1, <2>2
  <2>4. a[x + 1].term = b[x + 1].term /\ (x + 1) - 1 = x
    BY <2>3
  <2> QED
    BY <1>2, <2>2, <2>3, <2>4
<1> QED
  BY <1>2, <1>3

\* Where two logs have the same term at an index they are equal up to it,
\* in every cluster and through every loss, repetition and truncation.
THEOREM LogsMatch == Spec => []LogMatching
<1>1. TypeOK /\ LogInv => LogMatching
  <2> SUFFICES ASSUME TypeOK, LogInv, NEW i \in Node, NEW j \in Node,
                      NEW k \in 1..Smaller(Len(log[i]), Len(log[j])),
                      log[i][k].term = log[j][k].term
               PROVE  SubSeq(log[i], 1, k) = SubSeq(log[j], 1, k)
    BY DEF LogMatching
  <2>1. \A x \in 1..k : log[i][x] = log[j][x]
    BY LinksGiveMatching DEF LogInv
  <2>2. log[i] \in Seq(Entry) /\ log[j] \in Seq(Entry) /\ k \in Nat /\ k >= 1
        /\ k <= Len(log[i]) /\ k <= Len(log[j])
    BY DEF TypeOK, Smaller
  <2> QED
    BY <2>1, <2>2
<1> QED
  BY <1>1, TypeCorrect, LogInvariant, PTL
=============================================================================
