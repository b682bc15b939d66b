---------------------------- MODULE ReplicatedLog ---------------------------
(***************************************************************************)
(* ReplicatedLog (log.rs): the questions RaftNode asks of a log that was   *)
(* never compacted, as operators on the sequence of its entries, and what  *)
(* handle_append_entries (raft.rs) makes of a log.  An entry is a record   *)
(* with a field term; its index is its position.                           *)
(***************************************************************************)
EXTENDS Naturals, Sequences

Smaller(a, b) == IF a <= b THEN a ELSE b
Larger(a, b) == IF a <= b THEN b ELSE a

LastTerm(l) == IF l = <<>> THEN 0 ELSE l[Len(l)].term

\* term_at(i) is Some: index 0 always answers, with term 0.
HasTerm(l, i) == i <= Len(l)
TermAt(l, i) == IF i = 0 THEN 0 ELSE l[i].term

IsUpToDate(l, index, term) ==
    \/ term > LastTerm(l)
    \/ term = LastTerm(l) /\ index >= Len(l)

\* Positions in entries (the first of them has index prev + 1) whose term
\* differs from the term the log has at that index.
Conflicts(l, prev, entries) ==
    {k \in 1..Len(entries) : HasTerm(l, prev + k) /\ TermAt(l, prev + k) # entries[k].term}

\* Mutant: the conflicting entries are left in the log.
KeepConflict(l, prev, entries) == l

\* find_conflict and truncate_from: cut the log at the first conflict.
TruncateConflict(l, prev, entries) ==
    IF Conflicts(l, prev, entries) = {} THEN l
    ELSE LET first == CHOOSE k \in Conflicts(l, prev, entries) :
                        \A j \in Conflicts(l, prev, entries) : k <= j
         IN  SubSeq(l, 1, prev + first - 1)

\* What handle_append_entries leaves in the log: the part that agrees, then
\* the entries beyond it.
AppendTo(l, prev, entries) ==
    LET kept == TruncateConflict(l, prev, entries)
    IN  kept \o SubSeq(entries, Len(kept) - prev + 1, Len(entries))

\* Mutant: the walk back stops one entry too early.
FirstIndexOneLate(l, term) ==
    LET others == {i \in 1..Len(l) : l[i].term # term}
    IN  IF others = {} THEN 2
        ELSE 2 + (CHOOSE i \in others : \A j \in others : j <= i)

\* find_first_index_of_term walks back from the END of the log and stops at
\* the first entry of another term, wherever the asked-for term occurs.
FindFirstIndexOfTerm(l, term) ==
    LET others == {i \in 1..Len(l) : l[i].term # term}
    IN  IF others = {} THEN 1
        ELSE 1 + (CHOOSE i \in others : \A j \in others : j <= i)

\* create_append_entries for a peer whose next index is prev + 1: the term it
\* says its log has at prev, 0 when the log does not reach that far, and at most
\* max entries from there on.
PrevTerm(l, prev) == IF HasTerm(l, prev) THEN TermAt(l, prev) ELSE 0
EntriesFrom(l, prev, max) == SubSeq(l, prev + 1, Smaller(Len(l), prev + max))
=============================================================================
