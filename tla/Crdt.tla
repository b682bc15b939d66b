-------------------------------- MODULE Crdt --------------------------------
(***************************************************************************)
(* The replicated data types of aegis-replication (crdt.rs) and the clocks *)
(* they build on (vector_clock.rs).                                        *)
(*                                                                         *)
(* A behaviour is about one type.  Every node holds a replica; an update   *)
(* changes the local one; the state of a replica is sent and merged later, *)
(* anywhere, any number of times or never: the gossip between nodes is the *)
(* caller's and is modelled by a set of snapshots that may be lost,        *)
(* duplicated, delayed and reordered.  For the clocks a merge is the       *)
(* receipt of a timestamp.                                                 *)
(*                                                                         *)
(* Physical time is whatever the node's system clock reads: clocks differ  *)
(* from node to node and may go back.                                      *)
(***************************************************************************)
EXTENDS Integers, Sequences, FiniteSets, Functions

CONSTANTS
    N,          \* number of nodes; node ids are ordered as 1..N
    Elem,       \* elements of a set
    MvValue,    \* values of a multi-value register
    Unset,      \* Option::None
    Kinds,      \* types a behaviour may be about
    MaxUpdates, \* bound: updates
    MaxSends,   \* bound: snapshots sent
    MaxReading  \* bound: readings of the system clocks

ASSUME CrdtAssumption ==
    /\ {N, MaxUpdates, MaxSends, MaxReading} \subseteq Nat
    /\ Kinds \subseteq {"counter", "twopset", "lww", "mv", "orset", "map", "clock"}

VARIABLES
    kind,       \* the type this behaviour is about
    rep,        \* the replica of each node
    log,        \* ghost: the updates and receipts, in the order they happened
    seen,       \* ghost: the indexes in log whose effect a replica has
    snapshots   \* what was sent: [rep, seen]

crdtVars == <<kind, rep, log, seen, snapshots>>
Node == 1..N
Time == 1..MaxReading

Larger(a, b) == IF a > b THEN a ELSE b

-----------------------------------------------------------------------------
(* Vector clocks: a function on the nodes that have an entry.               *)

VcGet(c, n) == IF n \in DOMAIN c THEN c[n] ELSE 0

VcSet(c, n, v) == [m \in DOMAIN c \cup {n} |-> IF m = n THEN v ELSE c[m]]

VcIncrement(c, n) == VcSet(c, n, VcGet(c, n) + 1)

VcMerge(c, d) == [m \in DOMAIN c \cup DOMAIN d |-> Larger(VcGet(c, m), VcGet(d, m))]

HappenedBefore(c, d) ==
    /\ \A n \in DOMAIN c : c[n] <= VcGet(d, n)
    /\ \/ \E n \in DOMAIN c : c[n] < VcGet(d, n)
       \/ \E n \in DOMAIN d \ DOMAIN c : d[n] > 0

VcEquals(c, d) ==
    /\ Cardinality(DOMAIN c) = Cardinality(DOMAIN d)
    /\ \A n \in DOMAIN c : VcGet(d, n) = c[n]

Compare(c, d) ==
    IF VcEquals(c, d) THEN "equal"
    ELSE IF HappenedBefore(c, d) THEN "before"
    ELSE IF HappenedBefore(d, c) THEN "after" ELSE "concurrent"

-----------------------------------------------------------------------------
(* Hybrid logical clock [physical, logical]; Lamport clock.                 *)

HlcTick(h, now) ==
    IF now > h.physical THEN [physical |-> now, logical |-> 0]
                        ELSE [h EXCEPT !.logical = @ + 1]

\* Mutant: at equal physical times the other's counter is ignored.
HlcReceiveOwn(h, other, now) ==
    IF now > h.physical /\ now > other.physical THEN [physical |-> now, logical |-> 0]
    ELSE IF other.physical > h.physical
           THEN [physical |-> other.physical, logical |-> other.logical + 1]
    ELSE [h EXCEPT !.logical = @ + 1]

HlcReceive(h, other, now) ==
    IF now > h.physical /\ now > other.physical THEN [physical |-> now, logical |-> 0]
    ELSE IF h.physical > other.physical THEN [h EXCEPT !.logical = @ + 1]
    ELSE IF other.physical > h.physical
           THEN [physical |-> other.physical, logical |-> other.logical + 1]
    ELSE [h EXCEPT !.logical = Larger(@, other.logical) + 1]

HlcBefore(g, m, h, n) ==
    \/ g.physical < h.physical
    \/ g.physical = h.physical /\ (g.logical < h.logical \/ (g.logical = h.logical /\ m < n))

LamportReceive(a, b) == Larger(a, b) + 1

-----------------------------------------------------------------------------
(* The types: the empty replica, and merge.                                 *)

EmptyRegister == [value |-> Unset, timestamp |-> 0, node |-> 0]

New ==
    CASE kind = "counter" -> [positive |-> [n \in Node |-> 0], negative |-> [n \in Node |-> 0]]
      [] kind = "twopset" -> [added |-> {}, removed |-> {}]
      [] kind = "lww"     -> EmptyRegister
      [] kind = "mv"      -> {}
      [] kind = "orset"   -> [elements |-> [e \in Elem |-> {}], counters |-> [n \in Node |-> 0]]
      [] kind = "map"     -> [k \in Elem |-> EmptyRegister]
      [] kind = "clock"   -> [vc |-> <<>>, hlc |-> [physical |-> 1, logical |-> 0], lamport |-> 0]

\* Mutant: entries are added up.
SumEach(f, g) == [n \in DOMAIN f |-> f[n] + g[n]]

MaxEach(f, g) == [n \in DOMAIN f |-> Larger(f[n], g[n])]

\* Mutant: of equal timestamps the later merge wins.
NewerOrEqual(r, s) == r.timestamp >= s.timestamp

\* The test set, set_with_timestamp and merge of a register make.
Newer(r, s) == r.timestamp > s.timestamp \/ (r.timestamp = s.timestamp /\ r.node > s.node)

MergeRegister(r, s) == IF Newer(s, r) THEN s ELSE r

\* Mutant: a value is set although a later one is there.
MvSetAnyway(r, w) == {v \in r : ~ HappenedBefore(v.clock, w.clock) /\ v.value # w.value} \cup {w}

\* MVRegister::set.  The map has one clock for a value: that of an equal value
\* that is concurrent is overwritten.
MvSet(r, w) ==
    LET kept == {v \in r : ~ HappenedBefore(v.clock, w.clock)}
    IN  IF \E v \in kept : HappenedBefore(w.clock, v.clock) THEN kept
        ELSE {v \in kept : v.value # w.value} \cup {w}

\* MVRegister::merge sets the other's values one by one, in any order: what
\* there may be in the end.
MvMerges(r, s) ==
    LET K == Cardinality(s)
        orders == {o \in [1..K -> s] : IsInjective(o)}
        After(o) == LET after[i \in 0..K] == IF i = 0 THEN r ELSE MvSet(after[i - 1], o[i])
                    IN  after[K]
    IN  {After(o) : o \in orders}

MergeCounter(r, s) ==
    [positive |-> MaxEach(r.positive, s.positive), negative |-> MaxEach(r.negative, s.negative)]

MergeOrSet(r, s) ==
    [elements |-> [e \in Elem |-> r.elements[e] \cup s.elements[e]],
     counters |-> MaxEach(r.counters, s.counters)]

Merged(r, s) ==
    CASE kind = "counter" -> MergeCounter(r, s)
      [] kind = "twopset" -> [added |-> r.added \cup s.added, removed |-> r.removed \cup s.removed]
      [] kind = "lww"     -> MergeRegister(r, s)
      [] kind = "orset"   -> MergeOrSet(r, s)
      [] kind = "map"     -> [k \in Elem |-> MergeRegister(r[k], s[k])]

Merges(r, s) == IF kind = "mv" THEN MvMerges(r, s) ELSE {Merged(r, s)}

-----------------------------------------------------------------------------
CrdtInit ==
    /\ kind \in Kinds
    /\ rep = [n \in Node |-> New]
    /\ log = <<>>
    /\ seen = [n \in Node |-> {}]
    /\ snapshots = {}

\* The replica of n becomes r by an update that is logged as u.
Update(n, r, u) ==
    /\ Len(log) < MaxUpdates
    /\ rep' = [rep EXCEPT ![n] = r]
    /\ log' = Append(log, [u EXCEPT !.past = seen[n]])
    /\ seen' = [seen EXCEPT ![n] = @ \cup {Len(log) + 1}]
    /\ UNCHANGED <<kind, snapshots>>

\* A log entry: where, what, on which element or with which stamp.
LogEntry(n, op, arg) == [at |-> n, op |-> op, arg |-> arg, past |-> {}]

Count(n) ==
    /\ kind = "counter"
    /\ \E f \in {"positive", "negative"} :
          Update(n, [rep[n] EXCEPT ![f][n] = @ + 1], LogEntry(n, f, Unset))

TwoPAdd(n, e) ==
    /\ kind = "twopset"
    /\ Update(n, IF e \in rep[n].removed THEN rep[n] ELSE [rep[n] EXCEPT !.added = @ \cup {e}],
              LogEntry(n, "add", e))

TwoPRemove(n, e) ==
    /\ kind = "twopset"
    /\ Update(n, IF e \in rep[n].added THEN [rep[n] EXCEPT !.removed = @ \cup {e}] ELSE rep[n],
              LogEntry(n, "remove", e))

\* LWWRegister::set at time t; the value is the number of the update.
Written(n, t) == [value |-> Len(log) + 1, timestamp |-> t, node |-> n]

LwwSet(n, t) ==
    /\ kind = "lww"
    /\ Update(n, MergeRegister(rep[n], Written(n, t)), LogEntry(n, "set", Written(n, t)))

\* The caller stamps a write with what the register shows, and its own tick.
MvWrite(n, e) ==
    /\ kind = "mv"
    /\ LET shown == {v.clock : v \in rep[n]}
           known == [m \in UNION {DOMAIN c : c \in shown} |->
                       CHOOSE v \in {VcGet(c, m) : c \in shown} : \A c \in shown : v >= VcGet(c, m)]
           own == Cardinality({i \in DOMAIN log : log[i].at = n}) + 1
           w == [value |-> e, clock |-> VcSet(known, n, own)]
       IN  Update(n, MvSet(rep[n], w), LogEntry(n, "set", w))

\* The tag is the node with its counter, advanced first.
OrAdd(n, e) ==
    /\ kind = "orset"
    /\ LET c == rep[n].counters[n] + 1
       IN  Update(n, [rep[n] EXCEPT !.elements[e] = @ \cup {<<n, c>>}, !.counters[n] = c],
                  LogEntry(n, "add", [elem |-> e, tag |-> <<n, c>>]))

OrRemove(n, e) ==
    /\ kind = "orset"
    /\ Update(n, [rep[n] EXCEPT !.elements[e] = {}], LogEntry(n, "remove", [elem |-> e, tag |-> Unset]))

MapSet(n, k, t) ==
    /\ kind = "map"
    /\ Update(n, [rep[n] EXCEPT ![k] = MergeRegister(@, Written(n, t))],
              LogEntry(n, "set", [elem |-> k, entry |-> Written(n, t)]))

\* The entry is dropped with its timestamp.
MapRemove(n, k) ==
    /\ kind = "map"
    /\ Update(n, [rep[n] EXCEPT ![k] = EmptyRegister],
              LogEntry(n, "remove", [elem |-> k, entry |-> EmptyRegister]))

ClockTick(n, t) ==
    /\ kind = "clock"
    /\ LET c == [vc |-> VcIncrement(rep[n].vc, n), hlc |-> HlcTick(rep[n].hlc, t),
                 lamport |-> rep[n].lamport + 1]
       IN  Update(n, c, LogEntry(n, "tick", c))

Send(n) ==
    /\ Cardinality(snapshots) < MaxSends
    /\ snapshots' = snapshots \cup {[rep |-> rep[n], seen |-> seen[n]]}
    /\ UNCHANGED <<kind, rep, log, seen>>

Merge(n) ==
    /\ kind # "clock"
    /\ \E s \in snapshots :
          /\ \E r \in Merges(rep[n], s.rep) : rep' = [rep EXCEPT ![n] = r]
          /\ seen' = [seen EXCEPT ![n] = @ \cup s.seen]
    /\ UNCHANGED <<kind, log, snapshots>>

\* The receipt of a timestamp is an event of its own.
ClockReceive(n, t) ==
    /\ kind = "clock"
    /\ Len(log) < MaxUpdates
    /\ \E s \in snapshots :
          LET c == [vc |-> VcIncrement(VcMerge(rep[n].vc, s.rep.vc), n),
                    hlc |-> HlcReceive(rep[n].hlc, s.rep.hlc, t),
                    lamport |-> LamportReceive(rep[n].lamport, s.rep.lamport)]
          IN  /\ rep' = [rep EXCEPT ![n] = c]
              /\ log' = Append(log, [LogEntry(n, "receive", c) EXCEPT !.past = seen[n] \cup s.seen])
              /\ seen' = [seen EXCEPT ![n] = @ \cup s.seen \cup {Len(log) + 1}]
    /\ UNCHANGED <<kind, snapshots>>

CrdtNext ==
    \E n \in Node :
        \/ Count(n) \/ Send(n) \/ Merge(n)
        \/ \E e \in MvValue : MvWrite(n, e)
        \/ \E e \in Elem : TwoPAdd(n, e) \/ TwoPRemove(n, e) \/ OrAdd(n, e) \/ OrRemove(n, e) \/ MapRemove(n, e)
        \/ \E t \in Time : LwwSet(n, t) \/ ClockTick(n, t) \/ ClockReceive(n, t) \/ \E e \in Elem : MapSet(n, e, t)

CrdtSpec == CrdtInit /\ [][CrdtNext]_crdtVars

-----------------------------------------------------------------------------
(* Correctness.                                                             *)

Removes(S) == {i \in S : log[i].op = "remove"}

\* Of a history h: of two writes of one value, one was known to the other.
NoClash(h, S) ==
    \A i, j \in S : i # j /\ h[i].arg.value = h[j].arg.value => i \in h[j].past \/ j \in h[i].past

\* The updates S lead to one state in whatever order they take effect.
Harmless(S) ==
    /\ kind \in {"orset", "map"} => Removes(S) = {}
    /\ kind = "mv" => NoClash(log, S)

\* Strong convergence: replicas that have the effect of the same updates are
\* equal, whatever was lost, repeated or reordered on the way.  It holds for
\* OR-sets and maps only as long as nothing was removed, and for multi-value
\* registers only where no two concurrent writes seen are of one value.
Converges ==
    kind # "clock" =>
        \A m, n \in Node :
            seen[m] = seen[n] /\ Harmless(seen[n]) => rep[m] = rep[n]

Total(f) == LET sum[n \in 0..N] == IF n = 0 THEN 0 ELSE sum[n - 1] + f[n] IN sum[N]

\* A counter's value is the number of increments less the number of
\* decrements it has seen: none is lost, and none counted twice.
CounterExact ==
    kind = "counter" =>
        \A n \in Node :
            Total(rep[n].positive) - Total(rep[n].negative)
              = Cardinality({i \in seen[n] : log[i].op = "positive"})
                  - Cardinality({i \in seen[n] : log[i].op = "negative"})

\* A multi-value register shows exactly the writes it has seen that no other
\* write it has seen came after: no conflict is dropped or made up, unless two
\* concurrent writes it has seen are of one value.
ConflictsKept ==
    kind = "mv" =>
        \A n \in Node : NoClash(log, seen[n]) =>
            rep[n] = {log[i].arg : i \in {j \in seen[n] : \A k \in seen[n] : j \notin log[k].past}}

\* No two adds of an OR-set get the same tag, although counters are merged
\* from stale snapshots; and an add that no remove is known of stays visible.
AddsDistinct ==
    kind = "orset" =>
        /\ \A i, j \in DOMAIN log :
              log[i].op = "add" /\ log[j].op = "add" /\ log[i].arg.tag = log[j].arg.tag => i = j
        /\ \A n \in Node : \A i \in seen[n] :
              log[i].op = "add" /\ (\A j \in Removes(seen[n]) : log[j].arg.elem # log[i].arg.elem)
                => log[i].arg.tag \in rep[n].elements[log[i].arg.elem]

\* A replica's value is the one the updates it has seen give, for each type:
\* counts are exact, conflicts kept, and adds never mistaken for one another.
ValueExact == CounterExact /\ ConflictsKept /\ AddsDistinct

\* Clocks and causality: one event's vector clock is before another's exactly
\* if the event is in the other's past; hybrid and Lamport timestamps of an
\* event are larger than those of all events in its past, even when system
\* clocks disagree or go back.
CausalOrder ==
    kind = "clock" =>
        \A i, j \in DOMAIN log :
            LET a == log[i]
                b == log[j]
            IN  /\ (Compare(a.arg.vc, b.arg.vc) = "before") = (i \in b.past)
                /\ (Compare(a.arg.vc, b.arg.vc) = "equal") = (i = j)
                /\ i \in b.past => /\ HlcBefore(a.arg.hlc, a.at, b.arg.hlc, b.at)
                                   /\ a.arg.lamport < b.arg.lamport
-----------------------------------------------------------------------------
(* The inductive invariant of the proofs: what a replica holds is settled   *)
(* by the updates it has seen.                                              *)

\* The replicas there are and those that are under way.
Replicas == snapshots \cup {[rep |-> rep[n], seen |-> seen[n]] : n \in Node}

\* Of a history h: with an update, everything known where it was made is seen.
PastClosed(h, S) == \A i \in S : h[i].past \subseteq S
Past(h, i) == h[i].past \cup {i}

\* The updates of a kind, those made at a node, and how many they are.
OfOp(h, S, op) == {i \in S : h[i].op = op}
At(h, S, n) == {i \in S : h[i].at = n}
Counts(h, S, op) == [n \in Node |-> Cardinality(At(h, OfOp(h, S, op), n))]

\* A node has seen its own updates, so those of one node are known in the order
\* in which they were made.
HistoryInv ==
    /\ kind \in Kinds
    /\ log \in Seq({log[i] : i \in DOMAIN log})
    /\ rep = [n \in Node |-> rep[n]] /\ seen = [n \in Node |-> seen[n]]
    /\ \A i \in DOMAIN log :
          /\ log[i].at \in Node /\ i \in seen[log[i].at]
          /\ log[i].past \subseteq 1..(i - 1) /\ PastClosed(log, log[i].past)
          /\ \A j \in 1..(i - 1) : log[j].at = log[i].at => j \in log[i].past
    /\ \A x \in Replicas : x.seen \subseteq DOMAIN log /\ PastClosed(log, x.seen)

CounterInv ==
    kind = "counter" =>
        \A x \in Replicas :
            x.rep = [positive |-> Counts(log, x.seen, "positive"), negative |-> Counts(log, x.seen, "negative")]

\* A remove takes effect where the element had been added.
Args(h, S) == {h[i].arg : i \in S}
Effective(h, S) ==
    {i \in OfOp(h, S, "remove") : \E j \in h[i].past : h[j].op = "add" /\ h[j].arg = h[i].arg}
TwoPSetInv ==
    kind = "twopset" =>
        \A x \in Replicas :
            x.rep = [added   |-> Args(log, OfOp(log, x.seen, "add")),
                     removed |-> Args(log, Effective(log, x.seen))]

\* The register the writes W leave: no write is newer, and of those a node made
\* at one time it is the first.
Latest(r, W) ==
    /\ r \in W \cup {EmptyRegister}
    /\ \A w \in W \cup {EmptyRegister} : ~ Newer(w, r)
    /\ \A w \in W : w.timestamp = r.timestamp /\ w.node = r.node => r.value <= w.value
WriteOf(h, i) == [value : {i}, timestamp : Nat \ {0}, node : {h[i].at}]
LwwInv ==
    kind = "lww" =>
        /\ \A i \in DOMAIN log : log[i].arg \in WriteOf(log, i)
        /\ \A x \in Replicas : Latest(x.rep, Args(log, x.seen))

On(h, S, op, e) == {i \in OfOp(h, S, op) : h[i].arg.elem = e}
Entries(h, S, k) == {h[i].arg.entry : i \in On(h, S, "set", k)}
MapInv ==
    kind = "map" =>
        /\ \A i \in OfOp(log, DOMAIN log, "set") : log[i].arg.entry \in WriteOf(log, i)
        /\ \A x \in Replicas :
              /\ x.rep = [k \in Elem |-> x.rep[k]]
              /\ \A k \in Elem : On(log, x.seen, "remove", k) = {} =>
                    Latest(x.rep[k], Entries(log, x.seen, k))

\* A vector clock counts the updates of each node.
ClockOf(h, S) == [n \in {m \in Node : At(h, S, m) # {}} |-> Cardinality(At(h, S, n))]

\* The writes of a register that none of the others came after.
Maximal(h, S) == {i \in S : \A j \in S : i \notin h[j].past}
MvInv ==
    kind = "mv" =>
        /\ \A i \in DOMAIN log : NoClash(log, Past(log, i)) => log[i].arg.clock = ClockOf(log, Past(log, i))
        /\ \A x \in Replicas : NoClash(log, x.seen) => x.rep = Args(log, Maximal(log, x.seen))

\* The counter in a tag is that of the adds its node had made.
TagOf(h, i) == <<h[i].at, Counts(h, Past(h, i), "add")[h[i].at]>>
Tags(h, S, e) == {h[i].arg.tag : i \in On(h, S, "add", e)}
OrSetInv ==
    kind = "orset" =>
        /\ \A i \in OfOp(log, DOMAIN log, "add") : log[i].arg.elem \in Elem /\ log[i].arg.tag = TagOf(log, i)
        /\ \A x \in Replicas :
              /\ x.rep = [elements |-> [e \in Elem |-> x.rep.elements[e]],
                          counters |-> Counts(log, x.seen, "add")]
              /\ \A e \in Elem : On(log, x.seen, "remove", e) = {} =>
                    x.rep.elements[e] = Tags(log, x.seen, e)

\* A replica's timestamps have reached those of all it has seen.
Hlc == [physical : Nat, logical : Nat]
HlcReached(c, d) ==
    d.physical < c.physical \/ (d.physical = c.physical /\ d.logical <= c.logical)
Reached(h, S, c) ==
    \A i \in S : HlcReached(c.hlc, h[i].arg.hlc) /\ h[i].arg.lamport <= c.lamport
Passed(a, b) ==
    HlcBefore(b.arg.hlc, b.at, a.arg.hlc, a.at) /\ b.arg.lamport < a.arg.lamport
ClockInv ==
    kind = "clock" =>
        /\ \A i \in DOMAIN log :
              /\ log[i].arg.hlc \in Hlc /\ log[i].arg.lamport \in Nat
              /\ log[i].arg.vc = ClockOf(log, Past(log, i))
              /\ \A j \in log[i].past : Passed(log[i], log[j])
        /\ \A x \in Replicas :
              /\ x.rep.hlc \in Hlc /\ x.rep.lamport \in Nat
              /\ x.rep.vc = ClockOf(log, x.seen)
              /\ Reached(log, x.seen, x.rep)

CrdtInv ==
    /\ HistoryInv
    /\ CounterInv /\ TwoPSetInv /\ LwwInv /\ MapInv /\ MvInv /\ OrSetInv /\ ClockInv
=============================================================================
