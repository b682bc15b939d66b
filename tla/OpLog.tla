------------------------------- MODULE OpLog --------------------------------
(***************************************************************************)
(* The redo log of aegis-server (oplog.rs): numbered segment files, one    *)
(* record per mutation, an fsync in the background and the rotation a      *)
(* checkpoint starts with.  This module is the log alone; RedoLog and      *)
(* DocRedo put the engines that write to it on top.                        *)
(*                                                                         *)
(* A record is appended with one write call, so it is in the page cache as *)
(* soon as append returns: it outlives the process, and outlives a power   *)
(* loss once it is fsynced.  What is modelled is the log with a sync       *)
(* interval (AEGIS_WAL_SYNC_MS > 0, the default), where append leaves the  *)
(* fsync to the sync thread.                                               *)
(***************************************************************************)
EXTENDS Naturals, Sequences

VARIABLES
    segs,    \* the segment files: for each generation on disk its records
    synced,  \* for each generation, how many of its records are fsynced
    gen,     \* Writer::generation, the segment records are appended to
    dirty,   \* OpLog::dirty
    syncer   \* where the sync thread is: "idle" or "fsync", inside sync

logVars == <<segs, synced, gen, dirty, syncer>>

Generations == DOMAIN segs

\* The place of every record on disk, and the order replay reads them in.
Positions == UNION {{<<g, i>> : i \in 1..Len(segs[g])} : g \in Generations}
Before(p, q) == p[1] < q[1] \/ (p[1] = q[1] /\ p[2] < q[2])
Record(p) == segs[p[1]][p[2]]

\* open on an empty directory.
OpLogInit ==
    /\ segs = [g \in {1} |-> <<>>]
    /\ synced = [g \in {1} |-> 0]
    /\ gen = 1
    /\ dirty = FALSE
    /\ syncer = "idle"

\* append, under the writer's lock.
AppendOp(op) ==
    /\ segs' = [segs EXCEPT ![gen] = Append(@, op)]
    /\ dirty' = TRUE
    /\ UNCHANGED <<synced, gen, syncer>>

\* sync clears the flag before it takes the writer's lock.
SyncSwap ==
    /\ syncer = "idle"
    /\ dirty
    /\ dirty' = FALSE
    /\ syncer' = "fsync"
    /\ UNCHANGED <<segs, synced, gen>>

SyncData ==
    /\ syncer = "fsync"
    /\ synced' = [synced EXCEPT ![gen] = Len(segs[gen])]
    /\ syncer' = "idle"
    /\ UNCHANGED <<segs, gen, dirty>>

\* Mutant: the segment that is left is not fsynced.
RotateWithoutSync ==
    /\ segs' = [g \in Generations \cup {gen + 1} |-> IF g = gen + 1 THEN <<>> ELSE segs[g]]
    /\ synced' = [g \in Generations \cup {gen + 1} |-> IF g = gen + 1 THEN 0 ELSE synced[g]]
    /\ gen' = gen + 1
    /\ UNCHANGED <<dirty, syncer>>

\* cut, up to where it releases the writer's lock.
Rotate ==
    /\ segs' = [g \in Generations \cup {gen + 1} |-> IF g = gen + 1 THEN <<>> ELSE segs[g]]
    /\ synced' = [g \in Generations \cup {gen + 1} |->
                    IF g = gen + 1 THEN 0 ELSE IF g = gen THEN Len(segs[g]) ELSE synced[g]]
    /\ gen' = gen + 1
    /\ UNCHANGED <<dirty, syncer>>

\* The rest of cut: the flag is cleared after the lock was released.
CutClean ==
    /\ dirty' = FALSE
    /\ UNCHANGED <<segs, synced, gen, syncer>>

\* Mutant: the generation after the covered ones goes too.
RetireOneMore(covered) ==
    \E g \in Generations :
        /\ g <= covered + 1
        /\ \A h \in Generations : g <= h
        /\ segs' = [h \in Generations \ {g} |-> segs[h]]
        /\ synced' = [h \in Generations \ {g} |-> synced[h]]
        /\ UNCHANGED <<gen, dirty, syncer>>

\* retire deletes the covered generations, oldest first, one file at a time.
RetireOldest(covered) ==
    \E g \in Generations :
        /\ g <= covered
        /\ \A h \in Generations : g <= h
        /\ segs' = [h \in Generations \ {g} |-> segs[h]]
        /\ synced' = [h \in Generations \ {g} |-> synced[h]]
        /\ UNCHANGED <<gen, dirty, syncer>>

\* open after the process ended with the files left on disk: all of them are
\* read and appends go to a fresh generation.
Reopen(left) ==
    /\ segs' = [g \in Generations \cup {gen + 1} |-> IF g = gen + 1 THEN <<>> ELSE left[g]]
    /\ gen' = gen + 1
    /\ dirty' = FALSE
    /\ syncer' = "idle"

\* A killed process: the page cache, and so every record, outlives it.
ReopenAfterKill ==
    /\ Reopen(segs)
    /\ synced' = [g \in Generations \cup {gen + 1} |-> IF g = gen + 1 THEN 0 ELSE synced[g]]

\* What a power loss may leave of the segments: the fsynced records of each
\* and any number of the ones after them (a torn one ends the reading).
PowerLossOutcomes ==
    LET lengths == UNION {synced[g]..Len(segs[g]) : g \in Generations}
    IN  {[g \in Generations |-> SubSeq(segs[g], 1, n[g])] :
           n \in {f \in [Generations -> lengths] :
                    \A g \in Generations : f[g] \in synced[g]..Len(segs[g])}}

ReopenAfterPowerLoss(left) ==
    /\ Reopen(left)
    /\ synced' = [g \in Generations \cup {gen + 1} |-> IF g = gen + 1 THEN 0 ELSE Len(left[g])]
=============================================================================
