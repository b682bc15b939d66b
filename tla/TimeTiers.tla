----------------------------- MODULE TimeTiers ------------------------------
(***************************************************************************)
(* The two tiers of the timeseries engine: points in memory, sealed into   *)
(* blocks; the retention task of the server, which moves what is older     *)
(* than the hot window into an append-only file of the cold tier and       *)
(* drops what is older than the cold window from that; the query that      *)
(* answers from both; checkpoints, kills and restarts beside all of them.  *)
(*                                                                         *)
(* There is one series, in one metric.  A point is its timestamp, and is   *)
(* written when it is measured, at most one at each time: a block takes    *)
(* its bounds from the first and the last point that were put into it, so  *)
(* with late points every decision by bounds may be wrong.  A write applies*)
(* and logs in one step, cut and capture are another (RedoLog has them     *)
(* apart).  A query is one step: it copies the hot tier before it reads    *)
(* the cold one, so an eviction in between shows a point twice, not less.  *)
(* delete_metric, compress_section and failing saves are left out.         *)
(***************************************************************************)
EXTENDS Integers, Sequences, FiniteSets, SequencesExt

CONSTANTS
    Threshold,   \* compression_threshold
    HotDays,     \* hot_retention_days
    ColdDays,    \* cold_retention_days
    NoLimit,     \* a query without a limit
    MaxTime,     \* bound: the clock
    MaxPoints,   \* bound: points written
    MaxSaves,    \* bound: checkpoints
    MaxKills     \* bound: kills

ASSUME TimeTiersAssumption ==
    /\ Threshold \in Nat \ {0}
    /\ HotDays \in Nat /\ ColdDays \in Nat \ 0..HotDays /\ NoLimit \notin Nat
    /\ MaxTime \in Nat /\ MaxPoints \in Nat /\ MaxSaves \in Nat /\ MaxKills \in Nat

VARIABLES
    clock,      \* Utc::now
    written,    \* history: the points whose write has returned, in order
    writing,    \* the point of a write that has registered its series, or 0
    hot,        \* the SeriesBuffer
    indexed,    \* whether the TimeSeriesIndex has the series
    frames,     \* the frames a reader of the cold file gets
    torn,       \* whether the file ends in a part of a frame
    coldIndex,  \* whether ColdStore::index has the series, in memory and on disk
    keeper,     \* the retention task
    saver,      \* save_to_disk
    file,       \* timeseries.bin
    redo,       \* the points in the redo log, in order
    saves,      \* checkpoints so far
    kills,      \* kills so far
    lost,       \* history: points the cold tier did not get
    unindexed,  \* history: compact_cold took the index entry from under a write
    twice       \* history: points of a checkpoint were written again

tierVars == <<clock, written, writing, hot, indexed, frames, torn, coldIndex, keeper,
              saver, file, redo, saves, kills, lost, unindexed, twice>>

-----------------------------------------------------------------------------
(* SeriesBuffer.  A block is the sequence of its points.                   *)

Empty == [raw |-> <<>>, blocks |-> <<>>]

FirstPoint(block) == Head(block)
LastPoint(block) == block[Len(block)]
PointsOf(bs) == UNION {ToSet(bs[i]) : i \in DOMAIN bs}
Held(buffer) == ToSet(buffer.raw) \cup PointsOf(buffer.blocks)

\* add_point, and compress when there are enough points.
AddPoint(buffer, p) ==
    LET raw == Append(buffer.raw, p)
    IN  IF Len(raw) >= Threshold
        THEN [raw |-> <<>>, blocks |-> Append(buffer.blocks, raw)]
        ELSE [buffer EXCEPT !.raw = raw]

\* The members of s that are in T, in their order.
Those(s, T) ==
    LET places == {i \in DOMAIN s : s[i] \in T}
        nth(n) == CHOOSE i \in places : Cardinality(places \cap 1..i) = n
    IN  [n \in 1..Cardinality(places) |-> s[nth(n)]]

OldPoints(buffer, cutoff) == {p \in ToSet(buffer.raw) : p < cutoff}
OldBlocks(buffer, cutoff) == {b \in ToSet(buffer.blocks) : LastPoint(b) < cutoff}

\* prune_before: what stays, and what is evicted.
Stays(buffer, cutoff) ==
    [raw |-> Those(buffer.raw, ToSet(buffer.raw) \ OldPoints(buffer, cutoff)),
     blocks |-> Those(buffer.blocks, ToSet(buffer.blocks) \ OldBlocks(buffer, cutoff))]

\* Mutant: the points that are not in a block yet are dropped.
EvictedBlocks(buffer, cutoff) == Those(buffer.blocks, OldBlocks(buffer, cutoff))

Evicted(buffer, cutoff) ==
    LET old == Those(buffer.raw, OldPoints(buffer, cutoff))
    IN  Those(buffer.blocks, OldBlocks(buffer, cutoff)) \o (IF old = <<>> THEN <<>> ELSE <<old>>)

-----------------------------------------------------------------------------
(* query                                                                   *)

Overlaps(block, start, end) == LastPoint(block) >= start /\ FirstPoint(block) <= end

\* Mutant: the cold tier is asked only for queries that end before the window.
ReachColdByEnd(start, end) == end < clock - HotDays

\* The cold tier is asked when the query starts before the hot window.
ReachCold(start, end) == start < clock - HotDays

InRange(p, start, end) == p >= start /\ p < end

\* The blocks of both tiers, and those of them that overlap the range.
TierBlocks(start, end) ==
    hot.blocks \o (IF ReachCold(start, end) /\ coldIndex.memory THEN frames ELSE <<>>)
Asked(start, end) ==
    {n \in DOMAIN TierBlocks(start, end) : Overlaps(TierBlocks(start, end)[n], start, end)}

\* They are decoded in this order: those that end last first.
Sooner(bs, i, n) == LastPoint(bs[i]) > LastPoint(bs[n]) \/ (LastPoint(bs[i]) = LastPoint(bs[n]) /\ i < n)

\* The points in the range it has met before block n: those not in a block yet
\* (as of block 0), and those of the blocks before.  A point counts twice when
\* it is met twice.
Met(start, end, n) ==
    LET bs == TierBlocks(start, end)
        points(i) == IF i = 0 THEN hot.raw ELSE bs[i]
        before == {0} \cup {i \in Asked(start, end) : Sooner(bs, i, n)}
    IN  UNION {{i} \X {k \in DOMAIN points(i) : InRange(points(i)[k], start, end)} : i \in before}

\* The points a query finds.  With a limit it decodes blocks until it has met
\* that many.
Decoded(start, end, limit) ==
    LET decodes == {n \in Asked(start, end) : limit # NoLimit => Cardinality(Met(start, end, n)) < limit}
        found == ToSet(hot.raw) \cup UNION {ToSet(TierBlocks(start, end)[n]) : n \in decodes}
    IN  {p \in found : InRange(p, start, end)}

Newest(S, n) == {p \in S : n # NoLimit => Cardinality({q \in S : q > p}) < n}

Query(start, end, limit) ==
    IF indexed THEN Newest(Decoded(start, end, limit), limit) ELSE {}

-----------------------------------------------------------------------------
TiersInit ==
    /\ clock = 1
    /\ written = <<>>
    /\ writing = 0
    /\ hot = Empty
    /\ indexed = FALSE
    /\ frames = <<>>
    /\ torn = FALSE
    /\ coldIndex = [memory |-> FALSE, disk |-> FALSE]
    /\ keeper = [at |-> "idle", blocks |-> <<>>]
    /\ saver = [at |-> "idle", copy |-> Empty, covers |-> 0]
    /\ file = Empty
    /\ redo = <<>>
    /\ saves = 0
    /\ kills = 0
    /\ lost = {}
    /\ unindexed = FALSE
    /\ twice = FALSE

Tick ==
    /\ clock < MaxTime
    /\ clock' = clock + 1
    /\ UNCHANGED <<written, writing, hot, indexed, frames, torn, coldIndex,
                   keeper, saver, file, redo, saves, kills, lost, unindexed,
                   twice>>

\* write_batch registers the series before it takes the lock on the data.
RegisterSeries ==
    /\ writing = 0
    /\ Len(written) < MaxPoints
    /\ written # <<>> => clock > LastPoint(written)
    /\ writing' = clock
    /\ indexed' = TRUE
    /\ unindexed' = FALSE
    /\ UNCHANGED <<clock, written, hot, frames, torn, coldIndex, keeper, saver,
                   file, redo, saves, kills, lost, twice>>

InsertPoint ==
    /\ writing # 0
    /\ hot' = AddPoint(hot, writing)
    /\ redo' = Append(redo, writing)
    /\ written' = Append(written, writing)
    /\ writing' = 0
    /\ UNCHANGED <<clock, indexed, frames, torn, coldIndex, keeper, saver,
                   file, saves, kills, lost, unindexed, twice>>

-----------------------------------------------------------------------------
(* The retention task: enforce_retention, then compact_cold.               *)

EnforceRetention ==
    LET cutoff == clock - HotDays
    IN  /\ keeper.at = "idle"
        /\ Evicted(hot, cutoff) # <<>>
        /\ hot' = Stays(hot, cutoff)
        /\ keeper' = [at |-> "append", blocks |-> Evicted(hot, cutoff)]
        /\ UNCHANGED <<clock, written, writing, indexed, frames, torn,
                       coldIndex, saver, file, redo, saves, kills, lost,
                       unindexed, twice>>

\* An append that stops half way leaves some of its frames, and perhaps a part
\* of the next.
PartOfAppend ==
    \E n \in 0..Len(keeper.blocks) - 1 :
        /\ frames' = IF torn THEN frames ELSE frames \o SubSeq(keeper.blocks, 1, n)
        /\ torn' \in {torn, TRUE}

\* ColdStore::append writes the frames.  Behind a part of a frame they are not
\* found again.
AppendFrames ==
    /\ keeper.at = "append"
    /\ frames' = IF torn THEN frames ELSE frames \o keeper.blocks
    /\ lost' = IF torn THEN lost \cup PointsOf(keeper.blocks) ELSE lost
    /\ keeper' = [keeper EXCEPT !.at = "index"]
    /\ UNCHANGED <<clock, written, writing, hot, indexed, torn, coldIndex,
                   saver, file, redo, saves, kills, unindexed, twice>>

\* The append fails: the blocks are gone, and the file may end in a part of one.
AppendFails ==
    /\ keeper.at = "append"
    /\ lost' = lost \cup PointsOf(keeper.blocks)
    /\ PartOfAppend
    /\ keeper' = [at |-> "idle", blocks |-> <<>>]
    /\ UNCHANGED <<clock, written, writing, hot, indexed, coldIndex, saver,
                   file, redo, saves, kills, unindexed, twice>>

\* Mutant: the series index is not saved.
IndexInMemory ==
    /\ keeper.at = "index"
    /\ coldIndex' = [coldIndex EXCEPT !.memory = TRUE]
    /\ keeper' = [at |-> "idle", blocks |-> <<>>]
    /\ UNCHANGED <<clock, written, writing, hot, indexed, frames, torn, saver,
                   file, redo, saves, kills, lost, unindexed, twice>>

\* The end of append: a series that is new is in the index, which is saved.
AppendIndex ==
    /\ keeper.at = "index"
    /\ coldIndex' = [memory |-> TRUE, disk |-> coldIndex.disk \/ ~ coldIndex.memory]
    /\ keeper' = [at |-> "idle", blocks |-> <<>>]
    /\ UNCHANGED <<clock, written, writing, hot, indexed, frames, torn, saver,
                   file, redo, saves, kills, lost, unindexed, twice>>

\* Mutant: a frame goes when its first point is too old.
ExpiredByFirst(b) == FirstPoint(b) < clock - ColdDays

\* compact: the newest point is older than the cold window.
Expired(b) == LastPoint(b) < clock - ColdDays

\* ColdStore::compact rewrites the file, which ends with the last whole frame,
\* or deletes it.
CompactFile ==
    LET keep == Those(frames, {b \in ToSet(frames) : ~ Expired(b)})
    IN  /\ keeper.at = "idle"
        /\ coldIndex.memory
        /\ keep # frames
        /\ frames' = keep
        /\ torn' = FALSE
        /\ keeper' = IF keep = <<>> THEN [keeper EXCEPT !.at = "compact"] ELSE keeper
        /\ UNCHANGED <<clock, written, writing, hot, indexed, coldIndex, saver,
                       file, redo, saves, kills, lost, unindexed, twice>>

\* compact finds an indexed series without a file.
CompactMissing ==
    /\ keeper.at = "idle"
    /\ coldIndex.memory
    /\ frames = <<>> /\ ~ torn
    /\ coldIndex' = [memory |-> FALSE, disk |-> FALSE]
    /\ UNCHANGED <<clock, written, writing, hot, indexed, frames, torn, keeper,
                   saver, file, redo, saves, kills, lost, unindexed, twice>>

CompactIndex ==
    /\ keeper.at = "compact"
    /\ coldIndex' = [memory |-> FALSE, disk |-> FALSE]
    /\ keeper' = [keeper EXCEPT !.at = "unregister"]
    /\ UNCHANGED <<clock, written, writing, hot, indexed, frames, torn, saver,
                   file, redo, saves, kills, lost, unindexed, twice>>

\* The end of compact_cold: a series in neither tier leaves the index, also
\* when a write has just registered it.
Unregister ==
    /\ keeper.at = "unregister"
    /\ indexed' = (indexed /\ (Held(hot) # {} \/ coldIndex.memory))
    /\ unindexed' = (unindexed \/ (writing # 0 /\ ~ indexed'))
    /\ keeper' = [keeper EXCEPT !.at = "idle"]
    /\ UNCHANGED <<clock, written, writing, hot, frames, torn, coldIndex,
                   saver, file, redo, saves, kills, lost, twice>>

-----------------------------------------------------------------------------
(* Checkpoints.  No write is under way while the copy is taken.            *)

CaptureHot ==
    /\ saver.at = "idle"
    /\ writing = 0
    /\ saves < MaxSaves
    /\ saves' = saves + 1
    /\ saver' = [at |-> "save", copy |-> hot, covers |-> Len(redo)]
    /\ UNCHANGED <<clock, written, writing, hot, indexed, frames, torn,
                   coldIndex, keeper, file, redo, kills, lost, unindexed,
                   twice>>

SaveHot ==
    /\ saver.at = "save"
    /\ file' = saver.copy
    /\ saver' = [saver EXCEPT !.at = "retire"]
    /\ UNCHANGED <<clock, written, writing, hot, indexed, frames, torn,
                   coldIndex, keeper, redo, saves, kills, lost, unindexed,
                   twice>>

RetireRedo ==
    /\ saver.at = "retire"
    /\ redo' = SubSeq(redo, saver.covers + 1, Len(redo))
    /\ saver' = [at |-> "idle", copy |-> Empty, covers |-> 0]
    /\ UNCHANGED <<clock, written, writing, hot, indexed, frames, torn,
                   coldIndex, keeper, file, saves, kills, lost, unindexed,
                   twice>>

\* The redo log is written again, on top of the file.
Replayed ==
    LET after[n \in 0..Len(redo)] == IF n = 0 THEN file ELSE AddPoint(after[n - 1], redo[n])
    IN  after[Len(redo)]

\* The process is killed and started: with_config loads the file and knows the
\* series of the cold tier, and the redo log is replayed.
KillServer ==
    /\ kills < MaxKills
    /\ kills' = kills + 1
    /\ hot' = Replayed
    /\ \/ UNCHANGED <<frames, torn>>
       \/ keeper.at = "append" /\ PartOfAppend
    /\ coldIndex' = [coldIndex EXCEPT !.memory = coldIndex.disk]
    /\ indexed' = (Held(hot') # {} \/ coldIndex.disk)
    /\ lost' = lost \cup (PointsOf(keeper.blocks) \ Held(hot'))
    /\ keeper' = [at |-> "idle", blocks |-> <<>>]
    /\ saver' = [at |-> "idle", copy |-> Empty, covers |-> 0]
    /\ writing' = 0
    /\ unindexed' = FALSE
    /\ twice' = (twice \/ (saver.at = "retire" /\ saver.covers > 0))
    /\ UNCHANGED <<clock, written, file, redo, saves>>

TiersNext ==
    \/ Tick
    \/ RegisterSeries \/ InsertPoint
    \/ EnforceRetention \/ AppendFrames \/ AppendFails \/ AppendIndex
    \/ CompactFile \/ CompactMissing \/ CompactIndex \/ Unregister
    \/ CaptureHot \/ SaveHot \/ RetireRedo
    \/ KillServer

-----------------------------------------------------------------------------
(* Properties.                                                             *)

\* A point whose write has returned is found by every query over its time until
\* it is older than the cold window, wherever evictions, compactions,
\* checkpoints and kills are; by a query with a limit too when fewer points of
\* the range are newer, as long as no restart has made duplicates that count.
\* Excepted are a point on its way from one tier to the other; one the cold
\* tier did not get, because its append failed or was killed when a checkpoint
\* had already left the point out; a series that compact_cold took from the
\* index under a write, until the next; and what follows a kill between a
\* checkpoint and the retirement of its log, whose points are written twice
\* and may leave a block with wrong bounds.
PointsFound ==
    LET current == {p \in ToSet(written) : p >= clock - ColdDays}
        safe == current \ (lost \cup PointsOf(keeper.blocks))
        limits == {NoLimit} \cup (IF kills = 0 THEN 1..MaxPoints ELSE {})
    IN  ~ unindexed /\ ~ twice =>
            \A start \in 1..clock, end \in 2..clock + 1, limit \in limits :
                LET asked == {p \in ToSet(written) : InRange(p, start, end)}
                IN  safe \cap Newest(asked, limit) \subseteq Query(start, end, limit)

-----------------------------------------------------------------------------
(* The inductive invariant.  While no points are written twice, blocks and  *)
(* points are in the order of time, and every point written is in one of    *)
(* the places where a query, or a restart, finds it.                        *)

\* All of S is older than all of T; a sequence, and blocks, in the order of time.
Before(S, T) == \A p \in S, r \in T : p < r
Rising(s) == \A i, j \in DOMAIN s : i < j => s[i] < s[j]
InOrder(bs) == \A i, j \in DOMAIN bs : i < j => Before(ToSet(bs[i]), ToSet(bs[j]))

\* What a SeriesBuffer is, and one whose points are in the order of time.
Buffer == [raw : Seq(Nat), blocks : Seq(Seq(Nat))]
GoodBlocks(bs) == \A i \in DOMAIN bs : bs[i] # <<>> /\ Rising(bs[i])
GoodBuffer(buffer) ==
    /\ Rising(buffer.raw)
    /\ GoodBlocks(buffer.blocks) /\ InOrder(buffer.blocks)
    /\ Before(PointsOf(buffer.blocks), ToSet(buffer.raw))

\* The type invariant.
TiersTypeOK ==
    /\ clock \in Nat /\ written \in Seq(Nat) /\ writing \in Nat
    /\ hot \in Buffer /\ file \in Buffer /\ redo \in Seq(Nat)
    /\ frames \in Seq(Seq(Nat)) /\ torn \in BOOLEAN
    /\ coldIndex \in [memory : BOOLEAN, disk : BOOLEAN]
    /\ keeper \in [at : {"idle", "append", "index", "compact", "unregister"}, blocks : Seq(Seq(Nat))]
    /\ saver \in [at : {"idle", "save", "retire"}, copy : Buffer, covers : Nat]
    /\ indexed \in BOOLEAN /\ unindexed \in BOOLEAN /\ twice \in BOOLEAN
    /\ kills \in Nat

\* The log behind the copy that a checkpoint has taken.
Uncovered == SubSeq(redo, saver.covers + 1, Len(redo))

\* Points are written in the order of time, and nothing else is held anywhere.
WrittenInv ==
    /\ Rising(written) /\ \A p \in ToSet(written) : p <= clock
    /\ writing # 0 => writing <= clock /\ Before(ToSet(written), {writing})
    /\ Held(hot) \cup Held(file) \cup Held(saver.copy) \cup ToSet(redo)
         \cup PointsOf(frames) \cup PointsOf(keeper.blocks) \subseteq ToSet(written)

\* Every buffer and block is in order, so bounds are right; the log goes on
\* where the file, or the copy for the next one, ends.
OrderInv ==
    /\ GoodBuffer(hot) /\ GoodBuffer(file) /\ GoodBuffer(saver.copy)
    /\ GoodBlocks(frames) /\ GoodBlocks(keeper.blocks)
    /\ \A p \in PointsOf(frames) \cup PointsOf(keeper.blocks) : p < clock - HotDays
    /\ Rising(redo)
    /\ saver.at = "retire" => file = saver.copy
    /\ saver.at # "retire" => Before(Held(file), ToSet(redo))
    /\ Before(Held(saver.copy), ToSet(Uncovered))

\* Before the first restart no point is in two places.
FirstRun ==
    /\ ~ twice
    /\ InOrder(frames) /\ InOrder(keeper.blocks)
    /\ Before(PointsOf(frames) \cup PointsOf(keeper.blocks), Held(hot))
    /\ keeper.at = "append" => Before(PointsOf(frames), PointsOf(keeper.blocks))

\* Points that neither the hot tier nor a checkpoint needs to hold.
Away(p) ==
    \/ p \in PointsOf(keeper.blocks)
    \/ p \in lost
    \/ coldIndex.memory /\ p \in PointsOf(frames)
    \/ p < clock - ColdDays

\* Every point is where a query finds it, and where a restart does: in the file
\* or the log, also when the file is replaced and the log retired.
PlacedInv ==
    \A p \in ToSet(written) :
        /\ p \in Held(hot) \/ Away(p)
        /\ p \in Held(file) \cup ToSet(redo) \/ Away(p)
        /\ saver.at # "idle" => p \in Held(saver.copy) \cup ToSet(Uncovered) \/ Away(p)

\* Where the retention task and the checkpoint are.
KeeperInv ==
    /\ keeper.at \in {"idle", "compact", "unregister"} <=> keeper.blocks = <<>>
    /\ keeper.at = "index" => PointsOf(keeper.blocks) \subseteq PointsOf(frames) \cup lost
    /\ keeper.at = "compact" => frames = <<>>
    /\ coldIndex.memory => coldIndex.disk
    /\ saver.covers <= Len(redo)
    /\ saver.at = "idle" => saver.covers = 0

\* A series with points is in the index, but for compact_cold under a write.
IndexedInv ==
    ~ unindexed /\ (Held(hot) # {} \/ keeper.blocks # <<>> \/ coldIndex.memory \/ writing # 0) => indexed

\* The inductive invariant.
TiersInv ==
    /\ TiersTypeOK /\ WrittenInv /\ KeeperInv
    /\ ~ twice => OrderInv /\ PlacedInv /\ IndexedInv
    /\ kills = 0 => FirstRun
=============================================================================
