----------------------------- MODULE PartsProofs ----------------------------
(***************************************************************************)
(* Theorems about five parts that share no state.                          *)
(*                                                                         *)
(* ClientPool, for any number of tasks, every bound on the connections and *)
(* every interleaving of get, drop and close.  Streaming, for any number   *)
(* of consumers and events, every capacity of the ring and every           *)
(* interleaving of the engine's calls.  DocIndex, for every set of         *)
(* documents, fields and threads, any number of writes and indexes, and    *)
(* every interleaving of insert, update, delete, clear, create_index and   *)
(* drop_index.  Crdt, for every type, any number of nodes, updates and     *)
(* snapshots, and every order in which snapshots are merged, lost or       *)
(* repeated.  TimeTiers, for every length of the two windows and of a      *)
(* block, any number of points, checkpoints and kills, and every           *)
(* interleaving of writes, queries, the retention task and checkpoints.    *)
(***************************************************************************)
EXTENDS ClientPool, Streaming, DocIndex, Crdt, TimeTiers, OrderFacts, FiniteSetTheorems,
        SequenceTheorems, TLAPS


(***************************************************************************)
(* The connection pool.                                                    *)
(***************************************************************************)

-----------------------------------------------------------------------------
(* Counting tasks.                                                         *)

\* A set of tasks has a size, and putting a task in or out changes it by one.
LEMMA CountTasks ==
    ASSUME NEW S \in SUBSET User
    PROVE  /\ IsFiniteSet(S) /\ Cardinality(S) \in Nat /\ Cardinality(S) <= Cardinality(User)
           /\ \A u \in User \ S : Cardinality(S \cup {u}) = Cardinality(S) + 1
           /\ \A u \in S : Cardinality(S \ {u}) = Cardinality(S) - 1
<1>1. IsFiniteSet(S) /\ Cardinality(S) <= Cardinality(User)
  BY PoolAssumption, FS_Subset
<1>2. Cardinality(S) \in Nat
  BY <1>1, FS_CardinalityType
<1>3. \A u \in User \ S : Cardinality(S \cup {u}) = Cardinality(S) + 1
  BY <1>1, FS_AddElement
<1>4. \A u \in S : Cardinality(S \ {u}) = Cardinality(S) - 1
  BY <1>1, FS_RemoveElement
<1> QED
  BY <1>1, <1>2, <1>3, <1>4

\* Two sets of tasks without a common one fit among the tasks.
LEMMA DisjointTasks ==
    ASSUME NEW S \in SUBSET User, NEW T \in SUBSET User, S \cap T = {}
    PROVE  Cardinality(S) + Cardinality(T) <= Cardinality(User)
<1>1. IsFiniteSet(S) /\ IsFiniteSet(T) /\ Cardinality(S) \in Nat /\ Cardinality(T) \in Nat
  BY CountTasks
<1>2. Cardinality(S \cup T) = Cardinality(S) + Cardinality(T) - Cardinality(S \cap T)
  BY <1>1, FS_Union
<1>3. Cardinality(S \cap T) = 0
  BY FS_EmptySet
<1>4. Cardinality(S \cup T) <= Cardinality(User)
  BY CountTasks
<1> QED
  BY <1>1, <1>2, <1>3, <1>4

\* The bound of PoolBounded is the larger of its two numbers.
LEMMA BoundIsLarger ==
    /\ Max({MinConnections, Cardinality(User)}) \in Nat
    /\ MinConnections <= Max({MinConnections, Cardinality(User)})
    /\ Cardinality(User) <= Max({MinConnections, Cardinality(User)})
<1> DEFINE S == {MinConnections, Cardinality(User)}
<1>1. MinConnections \in Nat /\ Cardinality(User) \in Nat
  BY PoolAssumption, CountTasks
<1>2. \E x \in S : \A y \in S : x >= y
  <2>1. MinConnections >= Cardinality(User) \/ Cardinality(User) >= MinConnections
    BY <1>1
  <2> QED
    BY <1>1, <2>1
<1>3. Max(S) \in S /\ \A y \in S : Max(S) >= y
  BY <1>2 DEF Max
<1> QED
  BY <1>1, <1>3

\* How the sets of tasks change when u goes to another place.
LEMMA TaskMoves ==
    ASSUME ConnectionsKnown, NEW u \in User, NEW p, Goto(u, p)
    PROVE  /\ at'[u] = p /\ \A v \in User \ {u} : at'[v] = at[v]
           /\ Permitted' = IF p \in {"out", "acquire", "giveBack"}
                           THEN Permitted \ {u} ELSE Permitted \cup {u}
           /\ Creating' = IF p = "create" THEN Creating \cup {u} ELSE Creating \ {u}
<1>1. at'[u] = p /\ \A v \in User \ {u} : at'[v] = at[v]
  BY DEF Goto, ConnectionsKnown
<1> QED
  BY <1>1 DEF Permitted, Creating

-----------------------------------------------------------------------------
(* The channel.                                                            *)

\* Taking the first connection out of the channel.
LEMMA TakeFirst ==
    ASSUME NEW K \in Nat, NEW q \in Seq(1..K), q # <<>>, IsInjective(q)
    PROVE  /\ Tail(q) \in Seq(1..K) /\ Len(q) \in Nat /\ Len(q) >= 1
           /\ Len(Tail(q)) = Len(q) - 1
           /\ IsInjective(Tail(q))
           /\ Head(q) \in 1..K /\ Head(q) \in Range(q) /\ Head(q) \notin Range(Tail(q))
           /\ Range(Tail(q)) \subseteq Range(q)
<1>1. /\ Tail(q) \in Seq(1..K) /\ Len(q) \in Nat /\ Len(q) >= 1 /\ Len(Tail(q)) = Len(q) - 1
      /\ Head(q) = q[1] /\ q[1] \in 1..K
      /\ \A i \in 1..(Len(q) - 1) : Tail(q)[i] = q[i + 1]
      /\ DOMAIN q = 1..Len(q) /\ DOMAIN Tail(q) = 1..(Len(q) - 1)
  OBVIOUS
<1>2. \A i \in 1..(Len(q) - 1) : i + 1 \in 1..Len(q) /\ i + 1 # 1
  BY <1>1
<1>3. 1 \in 1..Len(q)
  BY <1>1
<1>4. IsInjective(Tail(q))
  <2> SUFFICES ASSUME NEW a \in 1..(Len(q) - 1), NEW b \in 1..(Len(q) - 1), Tail(q)[a] = Tail(q)[b]
               PROVE  a = b
    BY <1>1 DEF IsInjective
  <2>1. a + 1 = b + 1
    BY <1>1, <1>2 DEF IsInjective
  <2> QED
    BY <2>1
<1>5. Head(q) \in Range(q) /\ Range(Tail(q)) \subseteq Range(q)
  BY <1>1, <1>2, <1>3 DEF Range
<1>6. Head(q) \notin Range(Tail(q))
  <2> SUFFICES ASSUME NEW a \in 1..(Len(q) - 1), Tail(q)[a] = q[1] PROVE FALSE
    BY <1>1 DEF Range
  <2> QED
    BY <1>1, <1>2, <1>3 DEF IsInjective
<1> QED
  BY <1>1, <1>4, <1>5, <1>6

\* Putting back a connection that is not in the channel.
LEMMA PutLast ==
    ASSUME NEW K \in Nat, NEW q \in Seq(1..K), IsInjective(q), NEW c \in 1..K, c \notin Range(q)
    PROVE  /\ Append(q, c) \in Seq(1..K) /\ Len(q) \in Nat
           /\ Len(Append(q, c)) = Len(q) + 1
           /\ IsInjective(Append(q, c))
           /\ Range(Append(q, c)) = Range(q) \cup {c}
<1> DEFINE r == Append(q, c)
<1>1. /\ r \in Seq(1..K) /\ Len(q) \in Nat /\ Len(r) = Len(q) + 1
      /\ DOMAIN q = 1..Len(q) /\ DOMAIN r = 1..(Len(q) + 1)
      /\ r[Len(q) + 1] = c /\ \A i \in 1..Len(q) : r[i] = q[i]
  OBVIOUS
<1>2. \A i \in 1..(Len(q) + 1) : i \in 1..Len(q) \/ i = Len(q) + 1
  BY <1>1
<1>3. Len(q) + 1 \in 1..(Len(q) + 1) /\ \A i \in 1..Len(q) : i \in 1..(Len(q) + 1)
  BY <1>1
<1> HIDE DEF r
<1>4. IsInjective(r)
  BY <1>1, <1>2 DEF IsInjective, Range
<1>5. Range(r) = Range(q) \cup {c}
  BY <1>1, <1>2, <1>3 DEF Range
<1> QED
  BY <1>1, <1>4, <1>5 DEF r

-----------------------------------------------------------------------------
(* The steps.                                                              *)

LEMMA PoolInitially == PoolInit => CountInv
<1> SUFFICES ASSUME PoolInit PROVE CountInv
  OBVIOUS
<1>1. MinConnections \in Nat /\ MaxConnections \in Nat
  BY PoolAssumption
<1>2. returned \in Seq(1..MinConnections) /\ Len(returned) = MinConnections
  BY <1>1, IsASeq DEF PoolInit
<1>3. IsInjective(returned)
  BY DEF PoolInit, IsInjective
<1>4. Permitted = {} /\ Holders = {} /\ Creating = {}
  BY DEF PoolInit, Permitted, Holders, Creating
<1>5. ConnectionsKnown
  BY <1>1, <1>2, <1>4 DEF PoolInit, ConnectionsKnown, Place
<1>6. Cardinality({}) = 0 /\ Open = MinConnections
  BY <1>1, <1>2, <1>4, FS_EmptySet DEF PoolInit, Open
<1>7. taken \notin Range(returned)
  BY <1>1, PoolAssumption DEF PoolInit, Range
<1>8. PoolAccounting
  BY <1>1, <1>2, <1>3, <1>4, <1>6, <1>7 DEF PoolInit, PoolAccounting
<1>9. PoolBounded
  BY <1>1, <1>4, <1>6, BoundIsLarger DEF PoolInit, PoolBounded
<1> QED
  BY <1>5, <1>8, <1>9 DEF CountInv

\* The connections there are can be counted.
LEMMA OpenIsNat ==
    ASSUME ConnectionsKnown PROVE Open \in Nat
<1>1. Holders \in SUBSET User
  BY DEF Holders
<1>2. Cardinality(Holders) \in Nat /\ Len(returned) \in Nat
  BY <1>1, CountTasks DEF ConnectionsKnown
<1> QED
  BY <1>2 DEF Open

\* A step that moves no task and no connection.
LEMMA PoolRests ==
    ASSUME CountInv, UNCHANGED <<permits, returned, at, conn, created, size, taken, forgotten>>,
           closing' = "logout" <=> closing = "logout"
    PROVE  CountInv'
BY DEF CountInv, ConnectionsKnown, PoolAccounting, PoolBounded, Permitted, Holders, Creating, Open

\* A task goes on, and neither gets nor gives a connection.
LEMMA PoolWalks ==
    ASSUME CountInv, NEW u \in User, NEW p \in Place, Goto(u, p),
           UNCHANGED <<returned, conn, created, size, closeVars>>,
           p \in {"have", "use", "giveBack"} <=> at[u] \in {"have", "use", "giveBack"},
           permits' \in Nat, permits' + Cardinality(Permitted') = MaxConnections,
           p # "create"
    PROVE  CountInv'
<1>1. at'[u] = p /\ \A v \in User \ {u} : at'[v] = at[v]
  BY TaskMoves DEF CountInv
<1>2. Holders' = Holders /\ Open' = Open
  BY DEF Holders, Open, closeVars
<1>3. ConnectionsKnown'
  BY <1>1, <1>2 DEF CountInv, ConnectionsKnown, Goto, closeVars
<1>4. PoolAccounting'
  BY <1>2 DEF CountInv, PoolAccounting, closeVars
<1>5. Creating' = Creating \ {u} /\ Creating \in SUBSET User
  BY TaskMoves DEF CountInv, Creating
<1>6. Cardinality(Creating') <= Cardinality(Creating) /\ Cardinality(Creating') \in Nat
  BY <1>5, CountTasks, FS_Subset
<1>7. /\ Cardinality(Creating) \in Nat /\ Open \in Nat
      /\ Open + Cardinality(Creating) <= Max({MinConnections, Cardinality(User)})
  BY <1>5, CountTasks, OpenIsNat DEF CountInv, PoolBounded
<1>8. Open' + Cardinality(Creating') <= Max({MinConnections, Cardinality(User)})
  BY <1>2, <1>6, <1>7, BoundIsLarger
<1>9. PoolBounded'
  BY <1>8 DEF PoolBounded
<1> QED
  BY <1>3, <1>4, <1>9 DEF CountInv

\* The steps of get and drop that only take or release the permit, or pass on.
LEMMA PoolPermit ==
    ASSUME CountInv, NEW u \in User,
           \/ Get(u) \/ AcquirePermit(u) \/ AcquireTimeout(u) \/ LockReceiver(u)
           \/ GetFails(u) \/ HandOut(u) \/ ReleasePermit(u)
    PROVE  CountInv'
<1>1. /\ permits \in Nat /\ at[u] \in Place /\ Permitted \in SUBSET User
      /\ permits + Cardinality(Permitted) = MaxConnections
  BY DEF CountInv, ConnectionsKnown, PoolAccounting, Permitted
<1>2. /\ Cardinality(Permitted) \in Nat
      /\ u \notin Permitted => Cardinality(Permitted \cup {u}) = Cardinality(Permitted) + 1
      /\ u \in Permitted => Cardinality(Permitted \ {u}) = Cardinality(Permitted) - 1
  BY <1>1, CountTasks
<1>3. u \in Permitted <=> at[u] \notin {"out", "acquire", "giveBack"}
  BY DEF Permitted
<1>4. ASSUME NEW p \in Place, Goto(u, p)
      PROVE  Permitted' = IF p \in {"out", "acquire", "giveBack"}
                          THEN Permitted \ {u} ELSE Permitted \cup {u}
  BY <1>4, TaskMoves DEF CountInv
<1>5. ASSUME NEW p \in Place, Goto(u, p), permits' = permits, u \in Permitted,
             p \notin {"out", "acquire", "giveBack"}
      PROVE  permits' \in Nat /\ permits' + Cardinality(Permitted') = MaxConnections
  <2>1. Permitted' = Permitted
    BY <1>4, <1>5
  <2> QED
    BY <1>1, <1>5, <2>1
<1>6. ASSUME NEW p \in Place, Goto(u, p), permits' = permits, u \notin Permitted,
             p \in {"out", "acquire", "giveBack"}
      PROVE  permits' \in Nat /\ permits' + Cardinality(Permitted') = MaxConnections
  <2>1. Permitted' = Permitted
    BY <1>4, <1>6
  <2> QED
    BY <1>1, <1>6, <2>1
<1>7. ASSUME NEW p \in Place, Goto(u, p), permits' = permits + 1, u \in Permitted,
             p \in {"out", "acquire", "giveBack"}
      PROVE  permits' \in Nat /\ permits' + Cardinality(Permitted') = MaxConnections
  <2>1. Permitted' = Permitted \ {u}
    BY <1>4, <1>7
  <2>2. Cardinality(Permitted') = Cardinality(Permitted) - 1
    BY <1>2, <1>7, <2>1
  <2> QED
    BY <1>1, <1>2, <1>7, <2>2
<1>8. ASSUME NEW p \in Place, Goto(u, p), permits' = permits - 1, permits > 0, u \notin Permitted,
             p \notin {"out", "acquire", "giveBack"}
      PROVE  permits' \in Nat /\ permits' + Cardinality(Permitted') = MaxConnections
  <2>1. Permitted' = Permitted \cup {u}
    BY <1>4, <1>8
  <2>2. Cardinality(Permitted') = Cardinality(Permitted) + 1
    BY <1>2, <1>8, <2>1
  <2> QED
    BY <1>1, <1>2, <1>8, <2>2
<1>9. {"out", "acquire", "lock", "receive", "use", "giveBack"} \subseteq Place
  BY DEF Place
<1>10. CASE Get(u)
  BY <1>3, <1>6, <1>9, <1>10, PoolWalks DEF Get, closeVars
<1>11. CASE AcquirePermit(u)
  BY <1>3, <1>8, <1>9, <1>11, PoolWalks DEF AcquirePermit, closeVars
<1>12. CASE AcquireTimeout(u)
  BY <1>3, <1>6, <1>9, <1>12, PoolWalks DEF AcquireTimeout, closeVars
<1>13. CASE LockReceiver(u)
  BY <1>3, <1>5, <1>9, <1>13, PoolWalks DEF LockReceiver, closeVars
<1>14. CASE GetFails(u)
  BY <1>3, <1>7, <1>9, <1>14, PoolWalks DEF GetFails, closeVars
<1>15. CASE HandOut(u)
  BY <1>3, <1>5, <1>9, <1>15, PoolWalks DEF HandOut, closeVars
<1>16. CASE ReleasePermit(u)
  BY <1>3, <1>7, <1>9, <1>16, PoolWalks DEF ReleasePermit, closeVars
<1> QED
  BY <1>10, <1>11, <1>12, <1>13, <1>14, <1>15, <1>16

\* What taking or giving back a connection does to those who hold one.
LEMMA HoldersMove ==
    ASSUME ConnectionsKnown, NEW u \in User, NEW c, conn' = [conn EXCEPT ![u] = c]
    PROVE  /\ conn'[u] = c /\ \A v \in User \ {u} : conn'[v] = conn[v]
           /\ Holders' = IF c = Nobody THEN Holders \ {u} ELSE Holders \cup {u}
<1>1. conn'[u] = c /\ \A v \in User \ {u} : conn'[v] = conn[v]
  BY DEF ConnectionsKnown
<1> QED
  BY <1>1 DEF Holders

\* get hands over the first connection of the channel.
LEMMA PoolReceiveGood ==
    ASSUME CountInv, NEW u \in User, ReceiveGood(u) PROVE CountInv'
<1> DEFINE c == Head(returned)
<1>1. /\ created \in Nat /\ permits \in Nat
      /\ returned \in Seq(1..created) /\ returned # <<>> /\ at[u] = "receive"
      /\ Goto(u, "have") /\ conn' = [conn EXCEPT ![u] = c] /\ returned' = Tail(returned)
      /\ UNCHANGED <<permits, created, size, closing, taken, forgotten>>
      /\ at \in [User -> Place] /\ conn \in [User -> (1..created) \cup {Nobody}]
      /\ \A v \in User : v \in Holders <=> at[v] \in {"have", "use", "giveBack"}
  BY DEF CountInv, ConnectionsKnown, ReceiveGood, closeVars
<1>2. /\ permits + Cardinality(Permitted) = MaxConnections
      /\ IsInjective(returned)
      /\ taken \notin Range(returned)
      /\ \A v \in Holders : conn[v] \notin Range(returned) /\ conn[v] # taken
      /\ \A v, w \in Holders : conn[v] = conn[w] => v = w
      /\ size = Open + forgotten
  BY DEF CountInv, PoolAccounting
<1>3. /\ Tail(returned) \in Seq(1..created) /\ Len(returned) \in Nat
      /\ Len(Tail(returned)) = Len(returned) - 1
      /\ IsInjective(Tail(returned))
      /\ c \in 1..created /\ c \in Range(returned) /\ c \notin Range(Tail(returned))
      /\ Range(Tail(returned)) \subseteq Range(returned)
  BY <1>1, <1>2, TakeFirst
<1> HIDE DEF c
<1>4. c # Nobody
  BY <1>3, PoolAssumption
<1>5. u \notin Holders /\ u \in Permitted /\ u \notin Creating
  BY <1>1 DEF Permitted, Creating
<1>6. /\ at'[u] = "have" /\ \A v \in User \ {u} : at'[v] = at[v]
      /\ Permitted' = Permitted /\ Creating' = Creating
  <2>1. /\ at'[u] = "have" /\ \A v \in User \ {u} : at'[v] = at[v]
        /\ Permitted' = Permitted \cup {u} /\ Creating' = Creating \ {u}
    BY <1>1, TaskMoves DEF CountInv
  <2> QED
    BY <1>5, <2>1
<1>7. /\ conn'[u] = c /\ \A v \in User \ {u} : conn'[v] = conn[v]
      /\ Holders' = Holders \cup {u}
  BY <1>1, <1>4, HoldersMove DEF CountInv
<1>8. ConnectionsKnown'
  <2>1. at' \in [User -> Place]
    BY <1>1 DEF Goto, Place
  <2>2. conn' \in [User -> (1..created) \cup {Nobody}]
    BY <1>1, <1>3
  <2> QED
    BY <1>1, <1>3, <1>6, <1>7, <2>1, <2>2 DEF CountInv, ConnectionsKnown
<1>9. Holders \in SUBSET User
  BY DEF Holders
<1>10. Cardinality(Holders') = Cardinality(Holders) + 1 /\ Cardinality(Holders) \in Nat
  BY <1>5, <1>7, <1>9, CountTasks
<1>11. Open' = Open
  BY <1>1, <1>3, <1>10 DEF Open
<1>12. \A v \in Holders' : conn'[v] \notin Range(returned') /\ conn'[v] # taken
  BY <1>1, <1>2, <1>3, <1>5, <1>7, <1>9
<1>13. \A v, w \in Holders' : conn'[v] = conn'[w] => v = w
  BY <1>2, <1>3, <1>5, <1>7, <1>9
<1>14. PoolAccounting'
  BY <1>1, <1>2, <1>3, <1>6, <1>11, <1>12, <1>13 DEF PoolAccounting
<1>15. PoolBounded'
  BY <1>6, <1>11 DEF CountInv, PoolBounded
<1> QED
  BY <1>8, <1>14, <1>15 DEF CountInv

\* The first connection of the channel is thrown away by get.
LEMMA PoolDiscards ==
    ASSUME CountInv, NEW u \in User, ReceiveStale(u) PROVE CountInv'
<1>1. /\ created \in Nat /\ returned \in Seq(1..created) /\ returned # <<>>
      /\ returned' = Tail(returned) /\ size' = size - 1
      /\ UNCHANGED <<permits, at, conn, created, closing, taken, forgotten>>
  BY DEF CountInv, ConnectionsKnown, ReceiveStale, closeVars
<1>2. /\ Tail(returned) \in Seq(1..created) /\ Len(returned) \in Nat /\ Len(returned) >= 1
      /\ Len(Tail(returned)) = Len(returned) - 1
      /\ IsInjective(Tail(returned)) /\ Range(Tail(returned)) \subseteq Range(returned)
  BY <1>1, TakeFirst DEF CountInv, PoolAccounting
<1>3. Holders' = Holders /\ Permitted' = Permitted /\ Creating' = Creating
  BY <1>1 DEF Holders, Permitted, Creating
<1>4. Cardinality(Holders) \in Nat /\ Cardinality(Creating) \in Nat
  <2>1. Holders \in SUBSET User /\ Creating \in SUBSET User
    BY DEF Holders, Creating
  <2> QED
    BY <2>1, CountTasks
<1>5. size = Open + forgotten /\ Open \in Nat /\ forgotten \in Nat
  BY OpenIsNat DEF CountInv, PoolAccounting, ConnectionsKnown
<1>6. Open' = Open - 1
  BY <1>1, <1>2, <1>3, <1>4 DEF Open
<1>7. ConnectionsKnown'
  BY <1>1, <1>2, <1>3 DEF CountInv, ConnectionsKnown
<1>8. size' = Open' + forgotten'
  BY <1>1, <1>5, <1>6
<1>9. PoolAccounting'
  BY <1>1, <1>2, <1>3, <1>8 DEF CountInv, PoolAccounting
<1>10. Open + Cardinality(Creating) <= Max({MinConnections, Cardinality(User)})
  BY DEF CountInv, PoolBounded
<1>11. Open' + Cardinality(Creating') <= Max({MinConnections, Cardinality(User)})
  BY <1>3, <1>4, <1>5, <1>6, <1>10, BoundIsLarger
<1>12. PoolBounded'
  BY <1>11 DEF PoolBounded
<1> QED
  BY <1>7, <1>9, <1>12 DEF CountInv

\* The channel is empty: every connection there is has a holder, and u, which
\* is about to open one, has none.
LEMMA PoolReceiveNone ==
    ASSUME ReceiverLocked, CountInv, NEW u \in User, ReceiveNone(u) PROVE CountInv'
<1>1. /\ Goto(u, "create") /\ at[u] = "receive" /\ returned = <<>>
      /\ UNCHANGED <<permits, returned, conn, created, size, closing, taken, forgotten>>
  BY DEF ReceiveNone, closeVars
<1>2. u \notin Holders /\ u \in Permitted /\ Holders \in SUBSET User
  BY <1>1 DEF CountInv, ConnectionsKnown, Permitted, Holders
<1>3. /\ at'[u] = "create" /\ \A v \in User \ {u} : at'[v] = at[v]
      /\ Permitted' = Permitted
  BY <1>1, <1>2, TaskMoves DEF CountInv
<1>4. Holders' = Holders /\ Open' = Open
  BY <1>1 DEF Holders, Open
<1>5. ConnectionsKnown'
  BY <1>1, <1>2, <1>3, <1>4 DEF CountInv, ConnectionsKnown, Goto, Place
<1>6. PoolAccounting'
  BY <1>1, <1>3, <1>4 DEF CountInv, PoolAccounting
<1>7. Holders' \cap Creating' = {} /\ Creating' \in SUBSET User
  BY <1>5 DEF ConnectionsKnown, Creating
<1>8. Open' = Cardinality(Holders') /\ Cardinality(Holders') \in Nat
  <2>1. closing # "logout"
    BY <1>1, PoolAssumption DEF ReceiverLocked
  <2>2. taken = Nobody
    BY <2>1 DEF CountInv, ConnectionsKnown
  <2>3. Cardinality(Holders) \in Nat
    BY <1>2, CountTasks
  <2>4. Open = Cardinality(Holders)
    BY <1>1, <2>2, <2>3 DEF Open
  <2> QED
    BY <1>4, <2>3, <2>4
<1>9. Cardinality(Holders') + Cardinality(Creating') <= Cardinality(User)
  BY <1>2, <1>4, <1>7, DisjointTasks
<1>10. PoolBounded'
  <2>1. Cardinality(Creating') \in Nat /\ Cardinality(User) \in Nat
    BY <1>7, CountTasks
  <2> QED
    BY <1>8, <1>9, <2>1, BoundIsLarger DEF PoolBounded
<1> QED
  BY <1>5, <1>6, <1>10 DEF CountInv

\* The new connection has a number of its own, and the place its opener had
\* among those who open one.
LEMMA PoolCreateConnection ==
    ASSUME CountInv, NEW u \in User, CreateConnection(u) PROVE CountInv'
<1> DEFINE c == created + 1
<1>1. /\ created \in Nat /\ permits \in Nat
      /\ returned \in Seq(1..created) /\ at[u] = "create"
      /\ Goto(u, "have") /\ conn' = [conn EXCEPT ![u] = c] /\ created' = c /\ size' = size + 1
      /\ UNCHANGED <<permits, returned, closing, taken, forgotten>>
      /\ taken \in (1..created) \cup {Nobody}
      /\ at \in [User -> Place] /\ conn \in [User -> (1..created) \cup {Nobody}]
      /\ \A v \in User : v \in Holders <=> at[v] \in {"have", "use", "giveBack"}
  BY DEF CountInv, ConnectionsKnown, CreateConnection, closeVars
<1>2. /\ permits + Cardinality(Permitted) = MaxConnections
      /\ IsInjective(returned)
      /\ taken \notin Range(returned)
      /\ \A v \in Holders : conn[v] \notin Range(returned) /\ conn[v] # taken
      /\ \A v, w \in Holders : conn[v] = conn[w] => v = w
      /\ size = Open + forgotten
      /\ Open + Cardinality(Creating) <= Max({MinConnections, Cardinality(User)})
  BY DEF CountInv, PoolAccounting, PoolBounded
<1>3. c \in Nat /\ c \in 1..c /\ c \notin 1..created /\ 1..created \subseteq 1..c
  BY <1>1
<1>4. c # Nobody
  BY <1>3, PoolAssumption
<1> HIDE DEF c
<1>5. /\ u \notin Holders /\ u \in Permitted /\ u \in Creating
      /\ Holders \in SUBSET User /\ Creating \in SUBSET User
  BY <1>1 DEF Permitted, Creating, Holders
<1>6. /\ at'[u] = "have" /\ \A v \in User \ {u} : at'[v] = at[v]
      /\ Permitted' = Permitted \cup {u} /\ Creating' = Creating \ {u}
  BY <1>1, TaskMoves DEF CountInv
<1>7. Permitted' = Permitted
  BY <1>5, <1>6
<1>8. /\ conn'[u] = c /\ \A v \in User \ {u} : conn'[v] = conn[v]
      /\ Holders' = Holders \cup {u}
  BY <1>1, <1>4, HoldersMove DEF CountInv
<1>9. ConnectionsKnown'
  <2>1. at' \in [User -> Place]
    BY <1>1 DEF Goto, Place
  <2>2. conn' \in [User -> (1..c) \cup {Nobody}]
    BY <1>1, <1>3
  <2>3. returned' \in Seq(1..c) /\ taken' \in (1..c) \cup {Nobody}
    BY <1>1, <1>3, SeqMonotonic
  <2> QED
    BY <1>1, <1>3, <1>6, <1>8, <2>1, <2>2, <2>3 DEF CountInv, ConnectionsKnown
<1>10. Len(returned) \in Nat /\ \A x \in Range(returned) : x \in 1..created
  BY <1>1 DEF Range
<1>11. \A v \in Holders : conn[v] \in 1..created
  BY <1>1 DEF Holders
<1>12. \A v \in Holders' : conn'[v] \notin Range(returned') /\ conn'[v] # taken
  BY <1>1, <1>2, <1>3, <1>4, <1>5, <1>8, <1>10
<1>13. \A v, w \in Holders' : conn'[v] = conn'[w] => v = w
  BY <1>2, <1>3, <1>5, <1>8, <1>11
<1>14. /\ Cardinality(Holders') = Cardinality(Holders) + 1 /\ Cardinality(Holders) \in Nat
       /\ Cardinality(Creating') = Cardinality(Creating) - 1 /\ Cardinality(Creating) \in Nat
  BY <1>5, <1>6, <1>8, CountTasks
<1>15. Open \in Nat /\ Open' = Open + 1 /\ forgotten \in Nat /\ size' = Open' + forgotten
  <2>1. Open \in Nat /\ forgotten \in Nat
    BY OpenIsNat DEF CountInv, ConnectionsKnown
  <2>2. Open' = Open + 1
    BY <1>1, <1>10, <1>14 DEF Open
  <2> QED
    BY <1>1, <1>2, <2>1, <2>2
<1>16. PoolAccounting'
  BY <1>1, <1>2, <1>7, <1>12, <1>13, <1>15 DEF PoolAccounting
<1>17. Open' + Cardinality(Creating') <= Max({MinConnections, Cardinality(User)})
  BY <1>2, <1>14, <1>15, BoundIsLarger
<1>18. PoolBounded'
  BY <1>17 DEF PoolBounded
<1> QED
  BY <1>9, <1>16, <1>18 DEF CountInv

\* A connection goes back into the channel, or is dropped.
LEMMA PoolGiveBack ==
    ASSUME CountInv, NEW u \in User, GiveBack(u) PROVE CountInv'
<1> DEFINE c == conn[u]
<1>1. /\ created \in Nat /\ permits \in Nat
      /\ returned \in Seq(1..created) /\ at[u] = "giveBack"
      /\ Goto(u, "out") /\ conn' = [conn EXCEPT ![u] = Nobody]
      /\ UNCHANGED <<permits, created, closing, taken, forgotten>>
      /\ \/ returned' = Append(returned, c) /\ size' = size
         \/ returned' = returned /\ size' = size - 1
      /\ at \in [User -> Place] /\ conn \in [User -> (1..created) \cup {Nobody}]
      /\ \A v \in User : v \in Holders <=> at[v] \in {"have", "use", "giveBack"}
  BY DEF CountInv, ConnectionsKnown, GiveBack, closeVars
<1>2. /\ permits + Cardinality(Permitted) = MaxConnections
      /\ IsInjective(returned)
      /\ taken \notin Range(returned)
      /\ \A v \in Holders : conn[v] \notin Range(returned) /\ conn[v] # taken
      /\ \A v, w \in Holders : conn[v] = conn[w] => v = w
      /\ size = Open + forgotten
      /\ Open + Cardinality(Creating) <= Max({MinConnections, Cardinality(User)})
  BY DEF CountInv, PoolAccounting, PoolBounded
<1>3. /\ u \in Holders /\ u \notin Permitted /\ u \notin Creating
      /\ Holders \in SUBSET User /\ Creating \in SUBSET User
  BY <1>1 DEF Permitted, Creating, Holders
<1>4. c \in 1..created /\ c \notin Range(returned) /\ c # taken
  BY <1>1, <1>2, <1>3 DEF Holders
<1>5. /\ at'[u] = "out" /\ \A v \in User \ {u} : at'[v] = at[v]
      /\ Permitted' = Permitted \ {u} /\ Creating' = Creating \ {u}
  BY <1>1, TaskMoves DEF CountInv
<1>6. Permitted' = Permitted /\ Creating' = Creating
  BY <1>3, <1>5
<1>7. /\ conn'[u] = Nobody /\ \A v \in User \ {u} : conn'[v] = conn[v]
      /\ Holders' = Holders \ {u}
  BY <1>1, HoldersMove DEF CountInv
<1>8. /\ Cardinality(Holders') = Cardinality(Holders) - 1 /\ Cardinality(Holders) \in Nat
      /\ Cardinality(Holders') \in Nat /\ Cardinality(Creating) \in Nat
  <2>1. Holders' \in SUBSET User
    BY <1>3, <1>7
  <2> QED
    BY <1>3, <1>7, <2>1, CountTasks
<1>9. /\ Append(returned, c) \in Seq(1..created) /\ Len(returned) \in Nat
      /\ Len(Append(returned, c)) = Len(returned) + 1
      /\ IsInjective(Append(returned, c))
      /\ Range(Append(returned, c)) = Range(returned) \cup {c}
  BY <1>1, <1>2, <1>4, PutLast
<1>10. \A v \in Holders' : conn'[v] = conn[v] /\ conn[v] # c /\ conn[v] \notin Range(returned) /\ conn[v] # taken
  BY <1>2, <1>3, <1>7
<1> HIDE DEF c
<1>11. /\ returned' \in Seq(1..created) /\ IsInjective(returned')
       /\ Range(returned') \subseteq Range(returned) \cup {c}
       /\ size' = Open' + forgotten' /\ Open' <= Open /\ Open' \in Nat /\ Open \in Nat
  <2>1. Open \in Nat /\ forgotten \in Nat
    BY OpenIsNat DEF CountInv, ConnectionsKnown
  <2>2. CASE returned' = Append(returned, c) /\ size' = size
    <3>1. Open' = Open
      BY <1>1, <1>8, <1>9, <2>2 DEF Open
    <3> QED
      BY <1>1, <1>2, <1>9, <2>1, <2>2, <3>1
  <2>3. CASE returned' = returned /\ size' = size - 1
    <3>1. Open' = Open - 1 /\ Open' \in Nat
      BY <1>1, <1>8, <1>9, <2>3 DEF Open
    <3> QED
      BY <1>1, <1>2, <2>1, <2>3, <3>1
  <2> QED
    BY <1>1, <2>2, <2>3
<1>12. ConnectionsKnown'
  <2>1. at' \in [User -> Place]
    BY <1>1 DEF Goto, Place
  <2>2. conn' \in [User -> (1..created) \cup {Nobody}]
    BY <1>1
  <2> QED
    BY <1>1, <1>5, <1>7, <1>11, <2>1, <2>2 DEF CountInv, ConnectionsKnown
<1>13. /\ taken' \notin Range(returned')
       /\ \A v \in Holders' : conn'[v] \notin Range(returned') /\ conn'[v] # taken'
  BY <1>1, <1>2, <1>4, <1>10, <1>11
<1>14. \A v, w \in Holders' : conn'[v] = conn'[w] => v = w
  BY <1>2, <1>7, <1>10
<1>15. PoolAccounting'
  BY <1>1, <1>2, <1>6, <1>11, <1>13, <1>14 DEF PoolAccounting
<1>16. Open' + Cardinality(Creating') <= Max({MinConnections, Cardinality(User)})
  <2>1. Open' <= Open /\ Open' \in Nat /\ Open \in Nat /\ Cardinality(Creating) \in Nat
    BY <1>8, <1>11
  <2>2. Open + Cardinality(Creating) <= Max({MinConnections, Cardinality(User)})
    BY <1>2
  <2>3. Creating' = Creating /\ Max({MinConnections, Cardinality(User)}) \in Nat
    BY <1>6, BoundIsLarger
  <2> QED
    BY <2>1, <2>2, <2>3
<1>17. PoolBounded'
  BY <1>16 DEF PoolBounded
<1> QED
  BY <1>12, <1>15, <1>17 DEF CountInv

\* close takes the first connection of the channel.
LEMMA PoolCloseDrain == CountInv /\ CloseDrain => CountInv'
<1> SUFFICES ASSUME CountInv, CloseDrain PROVE CountInv'
  OBVIOUS
<1>1. /\ created \in Nat /\ returned \in Seq(1..created) /\ returned # <<>>
      /\ taken = Nobody /\ closing' = "logout"
      /\ returned' = Tail(returned) /\ taken' = Head(returned)
      /\ UNCHANGED <<permits, at, conn, created, size, forgotten>>
  BY DEF CountInv, ConnectionsKnown, CloseDrain
<1>2. /\ Tail(returned) \in Seq(1..created) /\ Len(returned) \in Nat
      /\ Len(Tail(returned)) = Len(returned) - 1
      /\ IsInjective(Tail(returned)) /\ Range(Tail(returned)) \subseteq Range(returned)
      /\ taken' \in 1..created /\ taken' \in Range(returned) /\ taken' \notin Range(returned')
  BY <1>1, TakeFirst DEF CountInv, PoolAccounting
<1>3. Holders' = Holders /\ Permitted' = Permitted /\ Creating' = Creating
  BY <1>1 DEF Holders, Permitted, Creating
<1>4. taken' # Nobody
  BY <1>1, <1>2, PoolAssumption
<1>5. Open' = Open
  <2>1. Holders \in SUBSET User
    BY DEF Holders
  <2>2. Cardinality(Holders) \in Nat
    BY <2>1, CountTasks
  <2> QED
    BY <1>1, <1>2, <1>3, <1>4, <2>2 DEF Open
<1>6. ConnectionsKnown'
  BY <1>1, <1>2, <1>3, <1>4 DEF CountInv, ConnectionsKnown
<1>7. \A u \in Holders' : conn'[u] \notin Range(returned') /\ conn'[u] # taken'
  BY <1>1, <1>2, <1>3 DEF CountInv, PoolAccounting
<1>8. PoolAccounting'
  BY <1>1, <1>2, <1>3, <1>5, <1>7 DEF CountInv, PoolAccounting
<1>9. PoolBounded'
  BY <1>3, <1>5 DEF CountInv, PoolBounded
<1> QED
  BY <1>6, <1>8, <1>9 DEF CountInv

\* The connection close has taken goes: counted, or with the caller forgotten.
LEMMA PoolCloseEnds == CountInv /\ (CloseConnection \/ CloseGivenUp) => CountInv'
<1> SUFFICES ASSUME CountInv, CloseConnection \/ CloseGivenUp PROVE CountInv'
  OBVIOUS
<1>1. /\ created \in Nat /\ returned \in Seq(1..created) /\ forgotten \in Nat
      /\ taken \in (1..created) \cup {Nobody} /\ taken # Nobody <=> closing = "logout"
      /\ taken' = Nobody /\ closing' # "logout"
      /\ UNCHANGED <<permits, returned, at, conn, created>>
  BY DEF CountInv, ConnectionsKnown, CloseConnection, CloseGivenUp
<1>2. CASE taken = Nobody
  <2>1. UNCHANGED <<permits, returned, at, conn, created, size, taken, forgotten>>
    BY <1>1, <1>2 DEF CloseConnection, CloseGivenUp
  <2> QED
    BY <1>1, <1>2, <2>1, PoolRests
<1>3. CASE taken # Nobody
  <2>1. \/ size' = size - 1 /\ forgotten' = forgotten
        \/ size' = size /\ forgotten' = forgotten + 1
    BY <1>1, <1>3 DEF CloseConnection, CloseGivenUp
  <2>2. Holders' = Holders /\ Permitted' = Permitted /\ Creating' = Creating
    BY <1>1 DEF Holders, Permitted, Creating
  <2>3. Holders \in SUBSET User /\ Creating \in SUBSET User
    BY DEF Holders, Creating
  <2>4. /\ Cardinality(Holders) \in Nat /\ Cardinality(Creating) \in Nat
        /\ Len(returned) \in Nat /\ Open \in Nat
    BY <1>1, <2>3, CountTasks, OpenIsNat DEF CountInv
  <2>5. Open' = Open - 1
    BY <1>1, <1>3, <2>2, <2>4 DEF Open
  <2>6. size' = Open' + forgotten' /\ forgotten' \in Nat
    BY <1>1, <2>1, <2>4, <2>5 DEF CountInv, PoolAccounting
  <2>7. \A n \in 1..created : n # Nobody
    BY <1>1, PoolAssumption
  <2>8. /\ Nobody \notin Range(returned)
        /\ \A u \in Holders : conn[u] # Nobody
    BY <1>1, <2>7 DEF Range, Holders
  <2>9. ConnectionsKnown'
    BY <1>1, <2>2, <2>6 DEF CountInv, ConnectionsKnown
  <2>10. PoolAccounting'
    BY <1>1, <2>2, <2>6, <2>8 DEF CountInv, PoolAccounting
  <2>11. Open + Cardinality(Creating) <= Max({MinConnections, Cardinality(User)})
    BY DEF CountInv, PoolBounded
  <2>12. Open' + Cardinality(Creating') <= Max({MinConnections, Cardinality(User)})
    BY <2>2, <2>4, <2>5, <2>11, BoundIsLarger
  <2> QED
    BY <2>9, <2>10, <2>12 DEF CountInv, PoolBounded
<1> QED
  BY <1>2, <1>3

\* Who looks at the channel has the lock of the receiver.
LEMMA LockStep == ReceiverLocked /\ [PoolNext]_poolVars => ReceiverLocked'
<1> SUFFICES ASSUME ReceiverLocked, [PoolNext]_poolVars PROVE ReceiverLocked'
  OBVIOUS
<1> USE PoolAssumption DEF ReceiverLocked
<1>1. ASSUME NEW u \in User, NEW p \in Place \ {"receive"}, Goto(u, p),
             closing' = closing, rxLock' = rxLock \/ at[u] = "receive"
      PROVE  ReceiverLocked'
  <2>1. /\ at' \in [User -> Place] /\ at'[u] = p
        /\ \A v \in User \ {u} : at'[v] = at[v]
    BY <1>1 DEF Goto
  <2>2. \A v \in User : at'[v] = "receive" => rxLock' = v
    BY <1>1, <2>1
  <2> QED
    BY <1>1, <2>1, <2>2
<1>2. {"out", "acquire", "lock", "create", "have", "use", "giveBack"} \subseteq Place \ {"receive"}
  BY DEF Place
<1>3. ASSUME NEW u \in User, LockReceiver(u) PROVE ReceiverLocked'
  <2>1. /\ at' \in [User -> Place] /\ rxLock = Nobody /\ rxLock' = u /\ closing' = closing
        /\ \A v \in User \ {u} : at'[v] = at[v]
    BY <1>3 DEF LockReceiver, Goto, closeVars, Place
  <2>2. closing \notin {"drain", "logout"} /\ \A v \in User : at[v] # "receive"
    BY <2>1
  <2> QED
    BY <2>1, <2>2
<1>4. ASSUME NEW u \in User,
             \/ Get(u) \/ AcquirePermit(u) \/ AcquireTimeout(u) \/ ReceiveGood(u) \/ ReceiveNone(u)
             \/ CreateConnection(u) \/ GetFails(u) \/ HandOut(u) \/ ReleasePermit(u) \/ GiveBack(u)
      PROVE  ReceiverLocked'
  BY <1>1, <1>2, <1>4 DEF Get, AcquirePermit, AcquireTimeout, ReceiveGood, ReceiveNone,
     CreateConnection, GetFails, HandOut, ReleasePermit, GiveBack, closeVars
<1>5. ASSUME \/ \E u \in User : ReceiveStale(u)
             \/ \E c \in 1..MaxCreated : Disconnect(c)
             \/ UNCHANGED poolVars
      PROVE  ReceiverLocked'
  BY <1>5 DEF ReceiveStale, Disconnect, poolVars, closeVars
<1>6. CASE Close \/ CloseLock \/ CloseDrain \/ CloseConnection \/ CloseGivenUp \/ CloseDone
  <2>1. at' = at
    BY <1>6 DEF Close, CloseLock, CloseDrain, CloseConnection, CloseGivenUp, CloseDone
  <2>2. \A u \in User : at[u] = "receive" => rxLock' = u
    BY <1>6 DEF Close, CloseLock, CloseDrain, CloseConnection, CloseGivenUp, CloseDone
  <2>3. closing' \in {"drain", "logout"} => rxLock' = Closer
    BY <1>6 DEF Close, CloseLock, CloseDrain, CloseConnection, CloseGivenUp, CloseDone
  <2> QED
    BY <2>1, <2>2, <2>3
<1>7. CASE PoolNext
  BY <1>3, <1>4, <1>5, <1>6, <1>7 DEF PoolNext
<1> QED
  BY <1>5, <1>7

\* Every step keeps the invariant.
LEMMA PoolSteps == PoolInv /\ [PoolNext]_poolVars => PoolInv'
<1> SUFFICES ASSUME ReceiverLocked, CountInv, [PoolNext]_poolVars PROVE CountInv'
  BY LockStep DEF PoolInv
<1>1. ASSUME NEW u \in User, ReceiveStale(u) PROVE CountInv'
  BY <1>1, PoolDiscards
<1>2. CASE CloseDrain \/ CloseConnection \/ CloseGivenUp
  BY <1>2, PoolCloseDrain, PoolCloseEnds
<1>3. ASSUME NEW c, Disconnect(c) PROVE CountInv'
  BY <1>3, PoolRests DEF Disconnect, closeVars
<1>4. CASE Close \/ CloseLock \/ CloseDone
  BY <1>4, PoolRests DEF Close, CloseLock, CloseDone
<1>5. CASE UNCHANGED poolVars
  BY <1>5, PoolRests DEF poolVars, closeVars
<1> QED
  BY <1>1, <1>2, <1>3, <1>4, <1>5, PoolPermit, PoolReceiveGood, PoolReceiveNone,
     PoolCreateConnection, PoolGiveBack DEF PoolNext

-----------------------------------------------------------------------------
\* The invariant that carries the proofs about the pool holds in every
\* reachable state.
THEOREM PoolInvariant == PoolSpec => []PoolInv
<1>1. PoolInit => PoolInv
  BY PoolInitially DEF PoolInit, PoolInv, ReceiverLocked, Place
<1> QED
  BY <1>1, PoolSteps, PTL DEF PoolSpec

\* PoolAccounting: permits, connections and their count stay exact, for any
\* number of tasks and however get, drop and close interleave, fail or are
\* given up.
THEOREM PoolAccountingHolds == PoolSpec => []PoolAccounting
<1>1. PoolInv => PoolAccounting
  BY DEF PoolInv, CountInv
<1> QED
  BY <1>1, PoolInvariant, PTL

\* PoolBounded: the pool never has, or opens, more connections than there are
\* tasks or than it was started with.
THEOREM PoolBoundedHolds == PoolSpec => []PoolBounded
<1>1. PoolInv => PoolBounded
  BY DEF PoolInv, CountInv
<1> QED
  BY <1>1, PoolInvariant, PTL

(***************************************************************************)
(* Channels.                                                               *)
(***************************************************************************)

-----------------------------------------------------------------------------
(* One receiver.  What NoSilentLoss and AckAccounting say of a receiver r  *)
(* in front of the ring g.                                                 *)

Due(r, g) == {i \in (r.from + 1)..r.pos : g[i].kind \in r.filter}
Offsets(r) == {u[1] : u \in r.unacked}

Placed(r, g) == r.from <= r.pos /\ r.pos <= Len(g) /\ Len(r.got) = r.next

Told(r, g) ==
    /\ Range(r.got) \subseteq Due(r, g)
    /\ \A i, j \in DOMAIN r.got : i < j => r.got[i] < r.got[j]
    /\ Cardinality(Due(r, g) \ Range(r.got)) <= r.lagged

Accounted(r, g) ==
    /\ r.acked \cup Offsets(r) = 0..(r.next - 1)
    /\ r.acked \cap Offsets(r) = {}
    /\ \A u \in r.unacked : u[2] = g[r.got[u[1] + 1]]

Sound(r, g) == Placed(r, g) /\ Told(r, g) /\ Accounted(r, g)

\* StreamInv, receiver by receiver.
LEMMA InvByReceiver ==
    StreamInv <=> /\ StreamTypeOK /\ ChannelThere
                  /\ \A s \in Subscriber : rx[s] # None => Sound(rx[s], sent[rx[s].epoch])
BY DEF StreamInv, ReceiversPlaced, NoSilentLoss, AckAccounting, Attached, Ring,
       Sound, Placed, Told, Accounted, Due, Offsets

\* What is due is a finite set.
LEMMA DueFinite ==
    ASSUME NEW r \in ReceiverType, NEW g
    PROVE  /\ IsFiniteSet(Due(r, g) \ Range(r.got))
           /\ Cardinality(Due(r, g) \ Range(r.got)) \in Nat
<1>1. r.from \in Nat /\ r.pos \in Nat
  BY DEF ReceiverType
<1>2. IsFiniteSet((r.from + 1)..r.pos)
  BY <1>1, FS_Interval
<1>3. Due(r, g) \ Range(r.got) \in SUBSET ((r.from + 1)..r.pos)
  BY DEF Due
<1> QED
  BY <1>2, <1>3, FS_Subset, FS_CardinalityType

\* A new receiver starts at the end of the ring.
LEMMA NewReceiver ==
    ASSUME NEW r \in ReceiverType, NEW g \in Seq(Event),
           r.from = Len(g), r.pos = Len(g), r.next = 0, r.unacked = {}, r.acked = {},
           r.lagged = 0, r.got = <<>>
    PROVE  Sound(r, g)
<1>1. Due(r, g) = {}
  BY DEF Due
<1>2. Offsets(r) = {} /\ Range(r.got) = {}
  BY DEF Offsets, Range
<1>3. Placed(r, g)
  BY DEF Placed
<1>4. Told(r, g)
  BY <1>1, <1>2, FS_EmptySet DEF Told
<1>5. Accounted(r, g)
  BY <1>2 DEF Accounted
<1> QED
  BY <1>3, <1>4, <1>5 DEF Sound

\* The events a receiver was handed are those of its ring.
LEMMA GotInRing ==
    ASSUME NEW r \in ReceiverType, NEW g \in Seq(Event), Sound(r, g)
    PROVE  /\ \A i \in 1..r.next : r.got[i] \in 1..r.pos
           /\ \A u \in r.unacked : u[1] + 1 \in 1..r.next
           /\ DOMAIN r.got = 1..r.next
<1>1. r.from \in Nat /\ r.pos \in Nat /\ r.next \in Nat /\ r.got \in Seq(Nat)
  BY DEF ReceiverType
<1>2. DOMAIN r.got = 1..r.next
  BY <1>1 DEF Sound, Placed
<1>3. \A i \in 1..r.next : r.got[i] \in Due(r, g)
  BY <1>2 DEF Sound, Told, Range
<1>4. \A i \in 1..r.next : r.got[i] \in 1..r.pos
  BY <1>1, <1>3 DEF Due
<1>5. \A u \in r.unacked : u[1] \in 0..(r.next - 1)
  BY DEF Sound, Accounted, Offsets
<1>6. \A u \in r.unacked : u[1] + 1 \in 1..r.next
  BY <1>1, <1>5
<1> QED
  BY <1>2, <1>4, <1>6

\* An event published behind the receiver's position changes nothing for it.
LEMMA RingGrows ==
    ASSUME NEW r \in ReceiverType, NEW g \in Seq(Event), NEW e \in Event, Sound(r, g)
    PROVE  Sound(r, Append(g, e))
<1> DEFINE h == Append(g, e)
<1>1. r.from \in Nat /\ r.pos \in Nat /\ r.next \in Nat
  BY DEF ReceiverType
<1>2. Len(g) \in Nat /\ Len(h) = Len(g) + 1 /\ \A i \in 1..Len(g) : h[i] = g[i]
  OBVIOUS
<1>3. r.pos <= Len(g)
  BY DEF Sound, Placed
<1>4. \A i \in 1..r.pos : h[i] = g[i]
  BY <1>1, <1>2, <1>3
<1> HIDE DEF h
<1>5. Due(r, h) = Due(r, g)
  BY <1>1, <1>4 DEF Due
<1>6. Placed(r, h)
  BY <1>1, <1>2, <1>3 DEF Sound, Placed
<1>7. Told(r, h)
  BY <1>5 DEF Sound, Told
<1>8. \A u \in r.unacked : h[r.got[u[1] + 1]] = g[r.got[u[1] + 1]]
  BY <1>4, GotInRing
<1>9. Accounted(r, h)
  BY <1>8 DEF Sound, Accounted
<1> QED
  BY <1>6, <1>7, <1>9 DEF Sound, h

\* A receiver that lags is told of as many events as it passes over.
LEMMA SoundLagged ==
    ASSUME NEW r \in ReceiverType, NEW g \in Seq(Event), Sound(r, g), NEW p \in Nat,
           r.pos < p, p <= Len(g), NEW q \in ReceiverType,
           q = [r EXCEPT !.pos = p, !.lagged = @ + p - r.pos]
    PROVE  Sound(q, g)
<1>1. r.from \in Nat /\ r.pos \in Nat /\ r.next \in Nat /\ r.lagged \in Nat /\ Len(g) \in Nat
  BY DEF ReceiverType
<1>2. /\ q.from = r.from /\ q.pos = p /\ q.filter = r.filter /\ q.next = r.next
      /\ q.got = r.got /\ q.unacked = r.unacked /\ q.acked = r.acked
      /\ q.lagged = r.lagged + p - r.pos
  BY DEF ReceiverType
<1>3. Placed(q, g)
  BY <1>1, <1>2 DEF Sound, Placed
<1>4. Offsets(q) = Offsets(r)
  BY <1>2 DEF Offsets
<1>5. Accounted(q, g)
  BY <1>2, <1>4 DEF Sound, Accounted
<1> DEFINE missed == Due(r, g) \ Range(r.got)
           passed == (r.pos + 1)..p
<1>6. Due(r, g) \subseteq Due(q, g) /\ Due(q, g) \subseteq Due(r, g) \cup passed
  BY <1>1, <1>2 DEF Due
<1>7. /\ IsFiniteSet(missed) /\ Cardinality(missed) \in Nat
      /\ IsFiniteSet(passed) /\ Cardinality(passed) = p - r.pos
  <2>1. r.pos + 1 \in Int /\ p \in Int /\ ~ (r.pos + 1 > p) /\ p - (r.pos + 1) + 1 = p - r.pos
    BY <1>1
  <2> QED
    BY <2>1, DueFinite, FS_Interval
<1>8. /\ IsFiniteSet(missed \cup passed)
      /\ Cardinality(missed \cup passed) <= Cardinality(missed) + Cardinality(passed)
  <2>1. IsFiniteSet(missed \cap passed)
    BY <1>7, FS_Intersection
  <2>2. Cardinality(missed \cap passed) \in Nat
    BY <2>1, FS_CardinalityType
  <2>3. /\ IsFiniteSet(missed \cup passed)
        /\ Cardinality(missed \cup passed) =
             Cardinality(missed) + Cardinality(passed) - Cardinality(missed \cap passed)
    BY <1>7, FS_Union
  <2> HIDE DEF missed, passed
  <2>4. Cardinality(passed) \in Nat
    BY <1>7, FS_CardinalityType
  <2> QED
    BY <1>7, <2>2, <2>3, <2>4
<1>9. Due(q, g) \ Range(q.got) \in SUBSET (missed \cup passed)
  BY <1>2, <1>6
<1>10. Cardinality(Due(q, g) \ Range(q.got)) <= Cardinality(missed \cup passed)
  BY <1>8, <1>9, FS_Subset
<1>11. Cardinality(missed) <= r.lagged
  BY DEF Sound, Told
<1>12. Cardinality(Due(q, g) \ Range(q.got)) <= q.lagged
  <2>1. Cardinality(Due(q, g) \ Range(q.got)) \in Nat
    BY DueFinite
  <2>2. Cardinality(missed \cup passed) \in Nat
    BY <1>8, FS_CardinalityType
  <2> HIDE DEF missed, passed
  <2> QED
    BY <1>1, <1>2, <1>7, <1>8, <1>10, <1>11, <2>1, <2>2
<1>13. Told(q, g)
  BY <1>2, <1>6, <1>12 DEF Sound, Told
<1> QED
  BY <1>3, <1>5, <1>13 DEF Sound

\* Passing over an event the filter does not let through.
LEMMA SoundSkip ==
    ASSUME NEW r \in ReceiverType, NEW g \in Seq(Event), Sound(r, g),
           r.pos < Len(g), g[r.pos + 1].kind \notin r.filter, NEW q \in ReceiverType,
           q = [r EXCEPT !.pos = @ + 1]
    PROVE  Sound(q, g)
<1>1. r.from \in Nat /\ r.pos \in Nat /\ r.next \in Nat /\ r.lagged \in Nat /\ Len(g) \in Nat
  BY DEF ReceiverType
<1>2. /\ q.from = r.from /\ q.pos = r.pos + 1 /\ q.filter = r.filter /\ q.next = r.next
      /\ q.got = r.got /\ q.unacked = r.unacked /\ q.acked = r.acked /\ q.lagged = r.lagged
  BY DEF ReceiverType
<1>3. Placed(q, g)
  BY <1>1, <1>2 DEF Sound, Placed
<1>4. Offsets(q) = Offsets(r)
  BY <1>2 DEF Offsets
<1>5. Accounted(q, g)
  BY <1>2, <1>4 DEF Sound, Accounted
<1>6. Due(q, g) = Due(r, g)
  <2>1. \A i \in (r.from + 1)..(r.pos + 1) : i \in (r.from + 1)..r.pos \/ i = r.pos + 1
    BY <1>1
  <2>2. \A i \in (r.from + 1)..r.pos : i \in (r.from + 1)..(r.pos + 1)
    BY <1>1
  <2> QED
    BY <1>2, <2>1, <2>2 DEF Due
<1>7. Told(q, g)
  BY <1>2, <1>6 DEF Sound, Told
<1> QED
  BY <1>3, <1>5, <1>7 DEF Sound

\* Handing over an event, under the next offset.
LEMMA SoundDeliver ==
    ASSUME NEW r \in ReceiverType, NEW g \in Seq(Event), Sound(r, g),
           r.pos < Len(g), g[r.pos + 1].kind \in r.filter, NEW q \in ReceiverType,
           q.from = r.from, q.pos = r.pos + 1, q.filter = r.filter, q.next = r.next + 1,
           q.lagged = r.lagged, q.got = Append(r.got, r.pos + 1),
           \/ q.acked = r.acked \cup {r.next} /\ q.unacked = r.unacked
           \/ q.acked = r.acked /\ q.unacked = r.unacked \cup {<<r.next, g[r.pos + 1]>>}
    PROVE  Sound(q, g)
<1>1. /\ r.from \in Nat /\ r.pos \in Nat /\ r.next \in Nat /\ r.lagged \in Nat /\ Len(g) \in Nat
      /\ r.got \in Seq(Nat) /\ r.from <= r.pos /\ Len(r.got) = r.next
  BY DEF ReceiverType, Sound, Placed
<1>2. /\ Len(q.got) = r.next + 1 /\ DOMAIN q.got = 1..(r.next + 1)
      /\ q.got[r.next + 1] = r.pos + 1 /\ \A i \in 1..r.next : q.got[i] = r.got[i]
  BY <1>1
<1>3. Placed(q, g)
  BY <1>1, <1>2 DEF Sound, Placed
<1>4. /\ \A i \in 1..r.next : r.got[i] \in 1..r.pos
      /\ \A u \in r.unacked : u[1] + 1 \in 1..r.next
      /\ DOMAIN r.got = 1..r.next
  BY GotInRing
<1>5. \A i \in 1..(r.next + 1) : i \in 1..r.next \/ i = r.next + 1
  BY <1>1
<1>6. r.next + 1 \in 1..(r.next + 1) /\ \A i \in 1..r.next : i \in 1..(r.next + 1)
  BY <1>1
<1>7. Range(q.got) = Range(r.got) \cup {r.pos + 1}
  BY <1>2, <1>4, <1>5, <1>6 DEF Range
<1>8. Due(q, g) = Due(r, g) \cup {r.pos + 1} /\ r.pos + 1 \notin Due(r, g)
  <2>1. \A i \in (r.from + 1)..(r.pos + 1) : i \in (r.from + 1)..r.pos \/ i = r.pos + 1
    BY <1>1
  <2>2. \A i \in (r.from + 1)..r.pos : i \in (r.from + 1)..(r.pos + 1) /\ i # r.pos + 1
    BY <1>1
  <2>3. r.pos + 1 \in (r.from + 1)..(r.pos + 1)
    BY <1>1
  <2> QED
    BY <2>1, <2>2, <2>3 DEF Due
<1>9. Told(q, g)
  <2>1. Due(q, g) \ Range(q.got) = Due(r, g) \ Range(r.got)
    BY <1>7, <1>8
  <2>2. Range(q.got) \subseteq Due(q, g)
    BY <1>7, <1>8 DEF Sound, Told
  <2>3. ASSUME NEW i \in 1..(r.next + 1), NEW j \in 1..(r.next + 1), i < j
        PROVE  q.got[i] < q.got[j]
    <3>1. i \in 1..r.next
      BY <1>1, <2>3
    <3>2. CASE j \in 1..r.next
      BY <1>2, <1>4, <2>3, <3>1, <3>2 DEF Sound, Told
    <3>3. CASE j = r.next + 1
      <4>1. q.got[i] \in 1..r.pos /\ q.got[j] = r.pos + 1
        BY <1>2, <1>4, <3>1, <3>3
      <4>2. \A a \in 1..r.pos : a < r.pos + 1
        BY <1>1
      <4> QED
        BY <4>1, <4>2
    <3> QED
      BY <1>5, <3>2, <3>3
  <2> QED
    BY <1>2, <2>1, <2>2, <2>3 DEF Sound, Told
<1>10. 0..((r.next + 1) - 1) = (0..(r.next - 1)) \cup {r.next} /\ r.next \notin 0..(r.next - 1)
  BY <1>1
<1>11. /\ r.acked \cup Offsets(r) = 0..(r.next - 1) /\ r.acked \cap Offsets(r) = {}
       /\ \A u \in r.unacked : u[2] = g[r.got[u[1] + 1]]
  BY DEF Sound, Accounted
<1>12. \A u \in r.unacked : u[2] = g[q.got[u[1] + 1]]
  BY <1>2, <1>4, <1>11
<1>13. CASE q.acked = r.acked \cup {r.next} /\ q.unacked = r.unacked
  <2>1. Offsets(q) = Offsets(r)
    BY <1>13 DEF Offsets
  <2> QED
    BY <1>3, <1>9, <1>10, <1>11, <1>12, <1>13, <2>1 DEF Sound, Accounted
<1>14. CASE q.acked = r.acked /\ q.unacked = r.unacked \cup {<<r.next, g[r.pos + 1]>>}
  <2> DEFINE new == <<r.next, g[r.pos + 1]>>
  <2>1. new[1] = r.next /\ new[2] = g[r.pos + 1]
    OBVIOUS
  <2>2. q.unacked = r.unacked \cup {new}
    BY <1>14
  <2> HIDE DEF new
  <2>3. Offsets(q) = Offsets(r) \cup {r.next}
    BY <2>1, <2>2 DEF Offsets
  <2>4. \A u \in q.unacked : u[2] = g[q.got[u[1] + 1]]
    BY <1>2, <1>12, <2>1, <2>2
  <2>5. q.acked \cup Offsets(q) = 0..(q.next - 1)
    BY <1>10, <1>11, <1>14, <2>3
  <2>6. q.acked \cap Offsets(q) = {}
    BY <1>10, <1>11, <1>14, <2>3
  <2> QED
    BY <1>3, <1>9, <2>4, <2>5, <2>6 DEF Sound, Accounted
<1> QED
  BY <1>13, <1>14

\* Acknowledging an offset: no other message is kept under it.
LEMMA SoundAck ==
    ASSUME NEW r \in ReceiverType, NEW g \in Seq(Event), Sound(r, g), NEW u \in r.unacked,
           NEW q \in ReceiverType,
           q = [r EXCEPT !.unacked = @ \ {u}, !.acked = @ \cup {u[1]}]
    PROVE  Sound(q, g)
<1>1. /\ q.from = r.from /\ q.pos = r.pos /\ q.filter = r.filter /\ q.next = r.next
      /\ q.got = r.got /\ q.unacked = r.unacked \ {u} /\ q.acked = r.acked \cup {u[1]}
      /\ q.lagged = r.lagged
  BY DEF ReceiverType
<1>2. Placed(q, g)
  BY <1>1 DEF Sound, Placed
<1>3. Due(q, g) = Due(r, g)
  BY <1>1 DEF Due
<1>4. Told(q, g)
  BY <1>1, <1>3 DEF Sound, Told
<1>5. /\ r.acked \cup Offsets(r) = 0..(r.next - 1) /\ r.acked \cap Offsets(r) = {}
      /\ \A w \in r.unacked : w[2] = g[r.got[w[1] + 1]]
  BY DEF Sound, Accounted
<1>6. ASSUME NEW w \in r.unacked, w[1] = u[1] PROVE w = u
  <2>1. w[2] = u[2]
    BY <1>5, <1>6
  <2>2. w \in Nat \X Event /\ u \in Nat \X Event
    BY DEF ReceiverType
  <2> QED
    BY <1>6, <2>1, <2>2
<1>7. Offsets(q) = Offsets(r) \ {u[1]} /\ u[1] \in Offsets(r)
  BY <1>1, <1>6 DEF Offsets
<1>8. Accounted(q, g)
  BY <1>1, <1>5, <1>7 DEF Accounted
<1> QED
  BY <1>2, <1>4, <1>8 DEF Sound

-----------------------------------------------------------------------------
(* The steps.                                                              *)

LEMMA StreamInitially == StreamInit => StreamInv
<1> SUFFICES ASSUME StreamInit PROVE StreamInv
  OBVIOUS
<1>1. StreamTypeOK
  <2>1. sent \in [1..MaxEpoch -> Seq(Event)]
    BY DEF StreamInit
  <2>2. live \in BOOLEAN /\ epoch \in 0..MaxEpoch /\ events \in Nat
    <3>1. live = FALSE /\ epoch = 0 /\ events = 0
      BY DEF StreamInit
    <3>2. 0 \in 0..MaxEpoch
      BY StreamingAssumption
    <3> QED
      BY <3>1, <3>2
  <2> QED
    BY <2>1, <2>2 DEF StreamInit, StreamTypeOK
<1>2. ChannelThere
  BY DEF StreamInit, ChannelThere, Unshared
<1>3. \A s \in Subscriber : rx[s] = None
  BY DEF StreamInit
<1> QED
  BY <1>1, <1>2, <1>3, InvByReceiver

\* A step that moves no receiver and adds no event.
LEMMA ReceiversRest ==
    ASSUME StreamInv, UNCHANGED <<rx, sent>>, StreamTypeOK', ChannelThere' PROVE StreamInv'
BY DEF StreamInv, ReceiversPlaced, NoSilentLoss, AckAccounting, Attached, Ring

\* A step that gives one subscriber another receiver, and nothing else to any.
LEMMA ReceiverMoves ==
    ASSUME StreamInv, NEW s \in Subscriber, NEW q \in ReceiverType \cup {None},
           rx' = [rx EXCEPT ![s] = q], UNCHANGED <<sent, channelVars, events>>,
           sub' \in [Subscriber -> {"idle", "checked", "attached"}], ChannelThere',
           q # None => Sound(q, sent[q.epoch])
    PROVE  StreamInv'
<1>1. rx \in [Subscriber -> ReceiverType \cup {None}]
  BY DEF StreamInv, StreamTypeOK
<1>2. rx'[s] = q /\ \A v \in Subscriber \ {s} : rx'[v] = rx[v]
  BY <1>1
<1>3. rx' \in [Subscriber -> ReceiverType \cup {None}]
  BY <1>1
<1>4. StreamTypeOK'
  BY <1>3 DEF StreamInv, StreamTypeOK, channelVars
<1>5. \A v \in Subscriber : rx'[v] # None => Sound(rx'[v], sent[rx'[v].epoch])
  BY <1>2, InvByReceiver
<1>6. \A v \in Attached' : Sound(rx'[v], Ring(v)')
  BY <1>5 DEF Attached, Ring
<1> QED
  BY <1>4, <1>6 DEF StreamInv, ReceiversPlaced, NoSilentLoss, AckAccounting,
       Sound, Placed, Told, Accounted, Due, Offsets

LEMMA StreamPublish ==
    ASSUME StreamInv, NEW k \in Kind, Publish(k) PROVE StreamInv'
<1> DEFINE e == [id |-> events + 1, kind |-> k]
<1>1. /\ sent \in [1..MaxEpoch -> Seq(Event)] /\ epoch \in 1..MaxEpoch /\ events \in Nat
      /\ rx \in [Subscriber -> ReceiverType \cup {None}]
  BY StreamingAssumption DEF StreamInv, StreamTypeOK, ChannelThere, Publish
<1>2. e \in Event
  BY <1>1 DEF Event
<1>3. /\ sent' = [sent EXCEPT ![epoch] = Append(@, e)]
      /\ UNCHANGED <<live, epoch, members, count, sub, rx>> /\ events' = events + 1
  BY DEF Publish, channelVars
<1> HIDE DEF e
<1>4. sent' \in [1..MaxEpoch -> Seq(Event)]
  BY <1>1, <1>2, <1>3
<1>5. StreamTypeOK' /\ ChannelThere'
  BY <1>1, <1>3, <1>4 DEF StreamInv, StreamTypeOK, ChannelThere, Unshared
<1>6. /\ sent'[epoch] = Append(sent[epoch], e)
      /\ \A i \in (1..MaxEpoch) \ {epoch} : sent'[i] = sent[i]
  BY <1>1, <1>3
<1>7. ASSUME NEW s \in Subscriber, rx[s] # None PROVE Sound(rx[s], sent'[rx[s].epoch])
  <2>1. rx[s] \in ReceiverType /\ rx[s].epoch \in 1..MaxEpoch
    BY <1>1, <1>7 DEF ReceiverType
  <2>2. Sound(rx[s], sent[rx[s].epoch])
    BY <1>7, InvByReceiver
  <2>3. CASE rx[s].epoch = epoch
    <3>1. sent[epoch] \in Seq(Event) /\ Sound(rx[s], sent[epoch])
      BY <1>1, <2>2, <2>3
    <3>2. Sound(rx[s], Append(sent[epoch], e))
      BY <1>2, <2>1, <3>1, RingGrows
    <3> QED
      BY <1>6, <2>3, <3>2
  <2>4. CASE rx[s].epoch # epoch
    BY <1>6, <2>1, <2>2, <2>4
  <2> QED
    BY <2>3, <2>4
<1>8. \A v \in Attached' : Sound(rx'[v], Ring(v)')
  BY <1>3, <1>7 DEF Attached, Ring
<1> QED
  BY <1>5, <1>8 DEF StreamInv, ReceiversPlaced, NoSilentLoss, AckAccounting,
       Sound, Placed, Told, Accounted, Due, Offsets

LEMMA StreamAttach ==
    ASSUME StreamInv, NEW s \in Subscriber, NEW mode \in Mode, NEW filter \in Filter,
           SubscribeAttach(s, mode, filter)
    PROVE  StreamInv'
<1> DEFINE q == Receiver(epoch, mode, filter)
<1>1. /\ sent \in [1..MaxEpoch -> Seq(Event)] /\ epoch \in 1..MaxEpoch
      /\ sub \in [Subscriber -> {"idle", "checked", "attached"}]
  BY StreamingAssumption DEF StreamInv, StreamTypeOK, ChannelThere, Unshared, SubscribeAttach
<1>2. filter \in SUBSET Kind
  BY DEF Filter
<1>3. Len(sent[epoch]) \in Nat /\ sent[epoch] \in Seq(Event)
  BY <1>1
<1>4. q \in ReceiverType
  <2>1. <<>> \in Seq(Nat)
    OBVIOUS
  <2> QED
    BY <1>1, <1>2, <1>3, <2>1 DEF ReceiverType, Receiver
<1>5. /\ q.from = Len(sent[epoch]) /\ q.pos = Len(sent[epoch]) /\ q.next = 0 /\ q.unacked = {}
      /\ q.acked = {} /\ q.lagged = 0 /\ q.got = <<>> /\ q.epoch = epoch
  BY DEF Receiver
<1> HIDE DEF q
<1>6. Sound(q, sent[q.epoch])
  BY <1>3, <1>4, <1>5, NewReceiver
<1>7. rx' = [rx EXCEPT ![s] = q] /\ UNCHANGED <<sent, channelVars, events>>
      /\ sub' = [sub EXCEPT ![s] = "attached"]
  BY DEF SubscribeAttach, q
<1>8. ChannelThere' /\ sub' \in [Subscriber -> {"idle", "checked", "attached"}]
  BY <1>1, <1>7 DEF StreamInv, ChannelThere, channelVars, Unshared, SubscribeAttach
<1> QED
  BY <1>4, <1>6, <1>7, <1>8, ReceiverMoves

\* One turn of recv's loop.
LEMMA StreamRecv ==
    ASSUME StreamInv, NEW s \in Subscriber, Recv(s) PROVE StreamInv'
<1> DEFINE r == rx[s]
           g == Ring(s)
<1>1. /\ r \in ReceiverType /\ r # None /\ g \in Seq(Event) /\ g = sent[r.epoch]
      /\ rx \in [Subscriber -> ReceiverType \cup {None}]
      /\ UNCHANGED <<channelVars, sent, sub, events>>
  <2>1. r \in ReceiverType /\ r # None
    BY DEF StreamInv, StreamTypeOK, Recv
  <2>2. r.epoch \in 1..MaxEpoch
    BY <2>1 DEF ReceiverType
  <2>3. sent[r.epoch] \in Seq(Event)
    BY <2>2 DEF StreamInv, StreamTypeOK
  <2> QED
    BY <2>1, <2>3 DEF StreamInv, StreamTypeOK, Recv, Ring
<1>2. Sound(r, g)
  BY <1>1, InvByReceiver
<1>3. ChannelThere' /\ sub' \in [Subscriber -> {"idle", "checked", "attached"}]
  BY <1>1 DEF StreamInv, StreamTypeOK, ChannelThere, channelVars, Unshared
<1>4. /\ r.from \in Nat /\ r.pos \in Nat /\ r.next \in Nat /\ r.lagged \in Nat /\ Len(g) \in Nat
      /\ r.got \in Seq(Nat) /\ r.unacked \in SUBSET (Nat \X Event) /\ r.acked \in SUBSET Nat
      /\ r.mode \in Mode /\ Capacity \in Nat
  BY <1>1, StreamingAssumption DEF ReceiverType
<1>5. ASSUME NEW q \in ReceiverType, q.epoch = r.epoch, Sound(q, g), rx' = [rx EXCEPT ![s] = q]
      PROVE  StreamInv'
  BY <1>1, <1>3, <1>5, ReceiverMoves
<1>6. CASE Lagged(s)
  <2> DEFINE p == Oldest(s)
             q == [r EXCEPT !.pos = p, !.lagged = @ + p - r.pos]
  <2>1. p \in Nat /\ r.pos < p /\ p <= Len(g)
    BY <1>4, <1>6 DEF Lagged, Oldest
  <2>2. rx' = [rx EXCEPT ![s] = q]
    BY <1>6 DEF Lagged
  <2> HIDE DEF p
  <2>3. q \in ReceiverType /\ q.epoch = r.epoch
    <3>1. r.lagged + p - r.pos \in Nat
      BY <1>4, <2>1
    <3> QED
      BY <1>1, <2>1, <3>1 DEF ReceiverType
  <2>4. Sound(q, g)
    BY <1>1, <1>2, <2>1, <2>3, SoundLagged
  <2> QED
    BY <1>5, <2>2, <2>3, <2>4
<1>7. CASE Skip(s)
  <2> DEFINE q == [r EXCEPT !.pos = @ + 1]
  <2>1. rx' = [rx EXCEPT ![s] = q]
    BY <1>7 DEF Skip
  <2>2. q \in ReceiverType /\ q.epoch = r.epoch
    <3>1. r.pos + 1 \in Nat
      BY <1>4
    <3> HIDE DEF g
    <3> QED
      BY <1>1, <3>1 DEF ReceiverType
  <2>3. r.pos < Len(g) /\ g[r.pos + 1].kind \notin r.filter
    BY <1>7 DEF Skip, Received
  <2>4. Sound(q, g)
    BY <1>1, <1>2, <2>2, <2>3, SoundSkip
  <2> QED
    BY <1>5, <2>1, <2>2, <2>4
<1>8. CASE Deliver(s)
  <2> DEFINE e == g[r.pos + 1]
             w == Tracked(r, e)
             q == [w EXCEPT !.pos = @ + 1, !.next = @ + 1, !.got = Append(@, r.pos + 1)]
  <2>1. rx' = [rx EXCEPT ![s] = q]
    BY <1>8 DEF Deliver, Received, Handed
  <2>2. r.pos < Len(g) /\ e.kind \in r.filter
    BY <1>8 DEF Deliver, Received
  <2>3. e \in Event
    BY <1>1, <1>4, <2>2
  <2>4. Append(r.got, r.pos + 1) \in Seq(Nat)
    BY <1>4
  <2> HIDE DEF e
  <2>5. /\ w \in ReceiverType /\ w.epoch = r.epoch /\ w.from = r.from /\ w.pos = r.pos
        /\ w.mode = r.mode /\ w.filter = r.filter /\ w.next = r.next /\ w.lagged = r.lagged
        /\ w.got = r.got
        /\ \/ w.acked = r.acked \cup {r.next} /\ w.unacked = r.unacked
           \/ w.acked = r.acked /\ w.unacked = r.unacked \cup {<<r.next, e>>}
    <3>1. CASE r.mode = "Auto"
      <4>1. w = [r EXCEPT !.acked = @ \cup {r.next}]
        BY <3>1 DEF Tracked
      <4>2. r.acked \cup {r.next} \in SUBSET Nat
        BY <1>4
      <4> HIDE DEF w
      <4> QED
        BY <1>1, <4>1, <4>2 DEF ReceiverType
    <3>2. CASE r.mode = "Manual"
      <4>1. w = [r EXCEPT !.unacked = @ \cup {<<r.next, e>>}]
        BY <3>2 DEF Tracked
      <4>2. r.unacked \cup {<<r.next, e>>} \in SUBSET (Nat \X Event)
        BY <1>4, <2>3
      <4> HIDE DEF w
      <4> QED
        BY <1>1, <4>1, <4>2 DEF ReceiverType
    <3> QED
      BY <1>4, <3>1, <3>2 DEF Mode
  <2> HIDE DEF w
  <2>6. /\ q \in ReceiverType /\ q.epoch = r.epoch /\ q.from = r.from /\ q.pos = r.pos + 1
        /\ q.filter = r.filter /\ q.next = r.next + 1 /\ q.lagged = r.lagged
        /\ q.got = Append(r.got, r.pos + 1) /\ q.acked = w.acked /\ q.unacked = w.unacked
    <3>1. r.pos + 1 \in Nat /\ r.next + 1 \in Nat
      BY <1>4
    <3> QED
      BY <2>4, <2>5, <3>1 DEF ReceiverType
  <2> HIDE DEF q
  <2>7. Sound(q, g)
    BY <1>1, <1>2, <2>2, <2>5, <2>6, SoundDeliver DEF e
  <2> QED
    BY <1>5, <2>1, <2>6, <2>7
<1>9. CASE End(s)
  BY <1>1, <1>3, <1>9, ReceiverMoves DEF End
<1> QED
  BY <1>6, <1>7, <1>8, <1>9 DEF Recv

LEMMA StreamAck ==
    ASSUME StreamInv, NEW s \in Subscriber, rx[s] # None, NEW u \in rx[s].unacked, Ack(s, u)
    PROVE  StreamInv'
<1> DEFINE r == rx[s]
           q == [r EXCEPT !.unacked = @ \ {u}, !.acked = @ \cup {u[1]}]
<1>1. r \in ReceiverType
  BY DEF StreamInv, StreamTypeOK
<1>2. /\ r.epoch \in 1..MaxEpoch /\ r.unacked \in SUBSET (Nat \X Event) /\ r.acked \in SUBSET Nat
  BY <1>1 DEF ReceiverType
<1>3. sent[r.epoch] \in Seq(Event)
  BY <1>2 DEF StreamInv, StreamTypeOK
<1>4. r.unacked \ {u} \in SUBSET (Nat \X Event) /\ r.acked \cup {u[1]} \in SUBSET Nat
  BY <1>2
<1>5. q \in ReceiverType /\ q.epoch = r.epoch
  BY <1>1, <1>4 DEF ReceiverType
<1>6. Sound(q, sent[q.epoch])
  BY <1>1, <1>3, <1>5, InvByReceiver, SoundAck
<1>7. rx' = [rx EXCEPT ![s] = q] /\ UNCHANGED <<channelVars, sent, sub, events>>
  BY DEF Ack
<1>8. ChannelThere' /\ sub' \in [Subscriber -> {"idle", "checked", "attached"}]
  BY <1>7 DEF StreamInv, StreamTypeOK, ChannelThere, channelVars, Unshared
<1> HIDE DEF q
<1> QED
  BY <1>5, <1>6, <1>7, <1>8, ReceiverMoves

\* The steps of the engine that move no receiver.
LEMMA StreamEngine ==
    ASSUME StreamInv,
           \/ CreateChannel \/ DeleteChannel
           \/ \E s \in Subscriber : SubscribeCheck(s) \/ SubscribeRegister(s) \/ Unsubscribe(s)
           \/ UNCHANGED streamVars
    PROVE  StreamInv'
<1>1. /\ live \in BOOLEAN /\ epoch \in 0..MaxEpoch /\ MaxEpoch \in Nat
      /\ sub \in [Subscriber -> {"idle", "checked", "attached"}]
      /\ live => epoch # 0
      /\ Unshared \/ live
  BY StreamingAssumption DEF StreamInv, StreamTypeOK, ChannelThere
<1>2. UNCHANGED <<rx, sent, events>>
  BY DEF CreateChannel, DeleteChannel, SubscribeCheck, SubscribeRegister, Unsubscribe,
         streamVars, channelVars
<1>3. ASSUME live' \in BOOLEAN, epoch' \in 0..MaxEpoch, live' => epoch' # 0, Unshared' \/ live',
             sub' \in [Subscriber -> {"idle", "checked", "attached"}]
      PROVE  StreamInv'
  <2>1. StreamTypeOK' /\ ChannelThere'
    BY <1>2, <1>3 DEF StreamInv, StreamTypeOK, ChannelThere
  <2> QED
    BY <1>2, <2>1, ReceiversRest
<1>4. CASE CreateChannel
  <2>1. live' = TRUE /\ epoch' = epoch + 1 /\ epoch < MaxEpoch /\ sub' = sub
    BY <1>4 DEF CreateChannel
  <2>2. epoch' \in 0..MaxEpoch /\ epoch' # 0
    BY <1>1, <2>1
  <2> QED
    BY <1>1, <1>3, <2>1, <2>2
<1>5. CASE DeleteChannel
  BY <1>1, <1>3, <1>5 DEF DeleteChannel, Unshared
<1>6. ASSUME NEW s \in Subscriber, SubscribeCheck(s) PROVE StreamInv'
  BY <1>1, <1>3, <1>6 DEF SubscribeCheck, channelVars
<1>7. ASSUME NEW s \in Subscriber, SubscribeRegister(s) PROVE StreamInv'
  BY <1>1, <1>3, <1>7 DEF SubscribeRegister, Unshared
<1>8. ASSUME NEW s \in Subscriber, Unsubscribe(s) PROVE StreamInv'
  BY <1>1, <1>3, <1>8 DEF Unsubscribe, Unshared
<1>9. CASE UNCHANGED streamVars
  BY <1>1, <1>3, <1>9 DEF streamVars, channelVars, Unshared
<1> QED
  BY <1>4, <1>5, <1>6, <1>7, <1>8, <1>9

LEMMA StreamDrop ==
    ASSUME StreamInv, NEW s \in Subscriber, DropReceiver(s) PROVE StreamInv'
<1>1. rx' = [rx EXCEPT ![s] = None] /\ UNCHANGED <<channelVars, sent, sub, events>>
  BY DEF DropReceiver
<1>2. ChannelThere' /\ sub' \in [Subscriber -> {"idle", "checked", "attached"}]
  BY <1>1 DEF StreamInv, StreamTypeOK, ChannelThere, channelVars, Unshared
<1> QED
  BY <1>1, <1>2, ReceiverMoves

LEMMA StreamSteps == StreamInv /\ [StreamNext]_streamVars => StreamInv'
BY StreamPublish, StreamAttach, StreamRecv, StreamAck, StreamEngine, StreamDrop DEF StreamNext

-----------------------------------------------------------------------------
\* The invariant that carries the proofs about receivers holds in every
\* reachable state.
THEOREM StreamInvariant == StreamSpec => []StreamInv
BY StreamInitially, StreamSteps, PTL DEF StreamSpec

\* NoSilentLoss: whatever the capacity of the ring and however far publishers
\* run ahead, a receiver gets each event that is due, or is told of it.
THEOREM NoSilentLossHolds == StreamSpec => []NoSilentLoss
<1>1. StreamInv => NoSilentLoss
  BY DEF StreamInv
<1> QED
  BY <1>1, StreamInvariant, PTL

\* AckAccounting: the offsets given out are the acknowledged and the
\* unacknowledged ones, each kept with the message delivered under it.
THEOREM AckAccountingHolds == StreamSpec => []AckAccounting
<1>1. StreamInv => AckAccounting
  BY DEF StreamInv
<1> QED
  BY <1>1, StreamInvariant, PTL

(***************************************************************************)
(* Document indexes.                                                       *)
(***************************************************************************)

-----------------------------------------------------------------------------
(* The entries of one document.                                            *)

\* An index key is a scalar, and the entries of a document name it alone.
LEMMA EntryOfDocument ==
    ASSUME NEW d \in DocId, NEW v \in Contents, NEW i, i.field \in Field
    PROVE  /\ Entry(i, d, v) \subseteq Scalar \X DocId
           /\ \A e \in DocId \ {d} : \A k : <<k, e>> \notin Entry(i, d, v)
<1>1. v[i.field] \in Scalar \cup Nested \cup {Absent}
  BY DocIndexAssumption
<1>2. v[i.field] # Absent => IndexKey(v[i.field]) \in Scalar
  BY <1>1, DocIndexAssumption DEF IndexKey
<1> QED
  BY <1>2 DEF Entry

\* Indexing a document and unindexing it leave the field and the type of an
\* index alone, and so the entries a document should have in it.
LEMMA OneIndex ==
    ASSUME NEW i \in IndexType, NEW d \in DocId, NEW v \in Contents
    PROVE  /\ WithDocument(i, d, v) \in IndexType
           /\ WithoutDocument(i, d, v) \in IndexType
           /\ WithDocument(i, d, v).entries = i.entries \cup Entry(i, d, v)
           /\ WithoutDocument(i, d, v).entries = i.entries \ Entry(i, d, v)
           /\ \A e, w : /\ Entry(WithDocument(i, d, v), e, w) = Entry(i, e, w)
                        /\ Entry(WithoutDocument(i, d, v), e, w) = Entry(i, e, w)
<1> DEFINE E == Entry(i, d, v)
<1>1. i.field \in Field /\ i.type \in {"Hash", "FullText"} /\ i.entries \in SUBSET (Scalar \X DocId)
  BY DEF IndexType
<1>2. E \subseteq Scalar \X DocId
  BY <1>1, EntryOfDocument
<1> HIDE DEF E
<1>3. /\ [i EXCEPT !.entries = @ \cup E] \in IndexType
      /\ [i EXCEPT !.entries = @ \cup E].entries = i.entries \cup E
      /\ [i EXCEPT !.entries = @ \cup E].field = i.field
      /\ [i EXCEPT !.entries = @ \cup E].type = i.type
  BY <1>1, <1>2 DEF IndexType
<1>4. /\ [i EXCEPT !.entries = @ \ E] \in IndexType
      /\ [i EXCEPT !.entries = @ \ E].entries = i.entries \ E
      /\ [i EXCEPT !.entries = @ \ E].field = i.field
      /\ [i EXCEPT !.entries = @ \ E].type = i.type
  BY <1>1, <1>2 DEF IndexType
<1>5. /\ WithDocument(i, d, v) = [i EXCEPT !.entries = @ \cup E]
      /\ WithoutDocument(i, d, v) = [i EXCEPT !.entries = @ \ E]
  BY DEF WithDocument, WithoutDocument, E
<1>6. /\ WithDocument(i, d, v).field = i.field /\ WithDocument(i, d, v).type = i.type
      /\ WithoutDocument(i, d, v).field = i.field /\ WithoutDocument(i, d, v).type = i.type
  BY <1>3, <1>4, <1>5
<1>7. \A e, w : /\ Entry(WithDocument(i, d, v), e, w) = Entry(i, e, w)
                /\ Entry(WithoutDocument(i, d, v), e, w) = Entry(i, e, w)
  BY <1>6 DEF Entry
<1> QED
  BY <1>3, <1>4, <1>5, <1>7 DEF E

\* Unindexing a document takes nothing of another document away.
LEMMA UnindexingSpares ==
    ASSUME NEW i \in IndexType, NEW d \in DocId, NEW v \in Contents,
           NEW e \in DocId \ {d}, NEW w \in Contents,
           Entry(i, e, w) \subseteq i.entries
    PROVE  Entry(WithoutDocument(i, d, v), e, w) \subseteq WithoutDocument(i, d, v).entries
<1>1. i.field \in Field
  BY DEF IndexType
<1>2. Entry(i, e, w) \cap Entry(i, d, v) = {}
  <2>1. SUFFICES ASSUME NEW x \in Entry(i, e, w), x \in Entry(i, d, v) PROVE FALSE
    OBVIOUS
  <2>2. x = <<IndexKey(w[i.field]), e>>
    BY <2>1 DEF Entry
  <2> QED
    BY <1>1, <2>1, <2>2, EntryOfDocument
<1> QED
  BY <1>2, OneIndex

\* The index that create_index fills has the entries of every document.
LEMMA FilledIndex ==
    ASSUME DocIndexTypeOK, NEW f \in Field, NEW t \in {"Hash", "FullText"}
    PROVE  IndexOf(f, t) \in IndexType /\ Covers(IndexOf(f, t), Stored)
<1> DEFINE empty == [field |-> f, type |-> t, entries |-> {}]
           all == UNION {Entry(empty, d, docs[d]) : d \in Stored}
<1>1. empty.field = f /\ empty.type = t
  OBVIOUS
<1>2. \A d \in Stored : d \in DocId /\ docs[d] \in Contents
  BY DEF DocIndexTypeOK, Stored
<1>3. \A d \in Stored : Entry(empty, d, docs[d]) \subseteq Scalar \X DocId
  <2> HIDE DEF empty
  <2> QED
    BY <1>1, <1>2, EntryOfDocument
<1>4. all \in SUBSET (Scalar \X DocId)
  <2> HIDE DEF empty
  <2> QED
    BY <1>3
<1>5. \A d \in Stored : Entry(empty, d, docs[d]) \subseteq all
  OBVIOUS
<1>6. IndexOf(f, t) = [empty EXCEPT !.entries = all]
  BY DEF IndexOf
<1> HIDE DEF all
<1>7. /\ IndexOf(f, t) \in IndexType /\ IndexOf(f, t).entries = all
      /\ IndexOf(f, t).field = f /\ IndexOf(f, t).type = t
  BY <1>4, <1>6 DEF IndexType
<1>8. \A d \in Stored : Entry(IndexOf(f, t), d, docs[d]) = Entry(empty, d, docs[d])
  <2> HIDE DEF empty
  <2> QED
    BY <1>1, <1>7 DEF Entry
<1> QED
  BY <1>5, <1>7, <1>8 DEF Covers

-----------------------------------------------------------------------------
(* Calls.                                                                  *)

\* What a thread has still to do is one of three things.
LEMMA KindsOfCall ==
    ASSUME NEW d, NEW v, NEW i
    PROVE  /\ NoCall.op = "none" /\ ToIndex(d, v).op = "index" /\ ToPush(i).op = "push"
           /\ ToPush(i).index = i /\ ToIndex(d, v).doc = d /\ ToIndex(d, v).contents = v
           /\ ToIndex(d, v) # NoCall /\ ToIndex(d, v) # ToPush(i)
<1>1. /\ NoCall.op = "none" /\ ToIndex(d, v).op = "index" /\ ToPush(i).op = "push"
      /\ ToPush(i).index = i /\ ToIndex(d, v).doc = d /\ ToIndex(d, v).contents = v
  BY DEF NoCall, ToIndex, ToPush
<1> QED
  BY <1>1

\* A thread that had nothing to do takes up something: the documents that
\* others are storing are still being stored.
LEMMA StillBeingStored ==
    ASSUME DocIndexTypeOK, NEW c \in Caller, call[c] = NoCall, NEW k,
           call' = [call EXCEPT ![c] = k],
           NEW e \in BeingStored, docs'[e] = docs[e]
    PROVE  e \in BeingStored'
<1>1. e \in DocId
  BY DEF BeingStored
<1>2. PICK b \in Caller : call[b] = ToIndex(e, docs[e])
  BY DEF BeingStored
<1>3. b # c
  BY <1>2, KindsOfCall
<1>4. call'[b] = ToIndex(e, docs'[e])
  BY <1>2, <1>3 DEF DocIndexTypeOK
<1> QED
  BY <1>1, <1>4 DEF BeingStored

-----------------------------------------------------------------------------
(* One lemma for each step.                                                *)

\* insert and the first half of update: the document is being stored, the
\* others keep their entries.
LEMMA StoreKeeps ==
    ASSUME DocIndexInv, NEW c \in Caller, NEW d \in DocId, NEW v \in Contents,
           call[c] = NoCall, ~ DocsShared, Store(c, d, v),
           indexes' = indexes \/ (docs[d] # Absent /\ UnindexDocument(d, docs[d]))
    PROVE  DocIndexInv'
<1>1. /\ docs' = [docs EXCEPT ![d] = v]
      /\ call' = [call EXCEPT ![c] = ToIndex(d, v)]
  BY DEF Store
<1>2. DocIndexTypeOK /\ IndexesCover
  BY DEF DocIndexInv
<1>3. docs' \in [DocId -> Contents \cup {Absent}]
  BY <1>1, <1>2 DEF DocIndexTypeOK
<1>4. call' \in [Caller -> {NoCall} \cup [op : {"index"}, doc : DocId, contents : Contents]
                               \cup [op : {"push"}, index : IndexType]]
  <2>1. ToIndex(d, v) \in [op : {"index"}, doc : DocId, contents : Contents]
    BY DEF ToIndex
  <2> QED
    BY <1>1, <1>2, <2>1 DEF DocIndexTypeOK
<1>5. docs[d] # Absent => docs[d] \in Contents
  BY <1>2 DEF DocIndexTypeOK
<1>6. indexes' \in Seq(IndexType) /\ DOMAIN indexes' = DOMAIN indexes
      /\ \A n \in DOMAIN indexes, e \in DocId \ {d}, w \in Contents :
            Entry(indexes[n], e, w) \subseteq indexes[n].entries
              => Entry(indexes'[n], e, w) \subseteq indexes'[n].entries
  <2>1. indexes \in Seq(IndexType) /\ \A n \in DOMAIN indexes : indexes[n] \in IndexType
    BY <1>2 DEF DocIndexTypeOK
  <2>2. CASE indexes' = indexes
    BY <2>1, <2>2
  <2>3. CASE docs[d] # Absent /\ UnindexDocument(d, docs[d])
    <3>1. indexes' = [n \in DOMAIN indexes |-> WithoutDocument(indexes[n], d, docs[d])]
      BY <2>3 DEF UnindexDocument
    <3>2. \A n \in DOMAIN indexes : WithoutDocument(indexes[n], d, docs[d]) \in IndexType
      BY <1>5, <2>1, <2>3, OneIndex
    <3>3. indexes' \in Seq(IndexType)
      BY <2>1, <3>1, <3>2
    <3> QED
      BY <1>5, <2>1, <2>3, <3>1, <3>3, UnindexingSpares
  <2> QED
    BY <2>2, <2>3
<1>7. DocIndexTypeOK'
  BY <1>3, <1>4, <1>6 DEF DocIndexTypeOK
<1>8. d \in BeingStored'
  <2>1. call'[c] = ToIndex(d, docs'[d])
    BY <1>1, <1>2 DEF DocIndexTypeOK
  <2> QED
    BY <2>1 DEF BeingStored
<1>9. ASSUME NEW n \in DOMAIN indexes', NEW e \in Stored' \ BeingStored'
      PROVE  Entry(indexes'[n], e, docs'[e]) \subseteq indexes'[n].entries
  <2>1. e \in DocId /\ e # d
    BY <1>8, <1>9 DEF Stored
  <2>2. docs'[e] = docs[e] /\ docs[e] # Absent /\ docs[e] \in Contents
    BY <1>1, <1>2, <1>9, <2>1 DEF Stored, DocIndexTypeOK
  <2>3. e \notin BeingStored
    BY <1>1, <1>2, <1>9, <2>2, StillBeingStored
  <2>4. Entry(indexes[n], e, docs[e]) \subseteq indexes[n].entries
    BY <1>2, <1>6, <2>1, <2>2, <2>3 DEF IndexesCover, Covers, Stored
  <2> QED
    BY <1>6, <2>1, <2>2, <2>4
<1>10. \A b \in Caller : call'[b].op # "push"
  <2>1. call'[c].op # "push"
    BY <1>1, <1>2, KindsOfCall DEF DocIndexTypeOK
  <2>2. \A b \in Caller \ {c} : call'[b] = call[b]
    BY <1>1, <1>2 DEF DocIndexTypeOK
  <2> QED
    BY <2>1, <2>2 DEF DocsShared
<1> QED
  BY <1>7, <1>9, <1>10 DEF DocIndexInv, IndexesCover, Covers

\* The second half of insert and update adds the entries of the document the
\* thread was storing; every other document was covered or is still being
\* stored by another thread.
LEMMA FinishStoreKeeps ==
    ASSUME DocIndexInv, NEW c \in Caller, FinishStore(c)
    PROVE  DocIndexInv'
<1> DEFINE d == call[c].doc
           v == call[c].contents
<1>1. DocIndexTypeOK /\ IndexesCover
  BY DEF DocIndexInv
<1>2. call[c] \in [op : {"index"}, doc : DocId, contents : Contents]
  BY <1>1 DEF DocIndexTypeOK, FinishStore, NoCall
<1>3. d \in DocId /\ v \in Contents
  BY <1>2
<1> HIDE DEF d, v
<1>4. /\ indexes' = [n \in DOMAIN indexes |-> WithDocument(indexes[n], d, v)]
      /\ call' = [call EXCEPT ![c] = NoCall]
      /\ docs' = docs
  BY DEF FinishStore, IndexDocument, d, v
<1>5. \A n \in DOMAIN indexes :
         /\ indexes'[n] \in IndexType
         /\ indexes'[n].entries = indexes[n].entries \cup Entry(indexes[n], d, v)
         /\ \A e, w : Entry(indexes'[n], e, w) = Entry(indexes[n], e, w)
  <2>1. \A n \in DOMAIN indexes : indexes[n] \in IndexType
    BY <1>1 DEF DocIndexTypeOK
  <2>2. \A n \in DOMAIN indexes : indexes'[n] = WithDocument(indexes[n], d, v)
    BY <1>4
  <2> QED
    BY <1>3, <2>1, <2>2, OneIndex
<1>6. DocIndexTypeOK'
  <2>1. indexes' \in Seq(IndexType)
    <3>1. indexes \in Seq(IndexType) /\ DOMAIN indexes' = DOMAIN indexes
      BY <1>1, <1>4 DEF DocIndexTypeOK
    <3> QED
      BY <1>4, <1>5, <3>1
  <2> QED
    BY <1>1, <1>4, <2>1 DEF DocIndexTypeOK
<1>7. ASSUME NEW n \in DOMAIN indexes', NEW e \in Stored' \ BeingStored'
      PROVE  Entry(indexes'[n], e, docs'[e]) \subseteq indexes'[n].entries
  <2>1. n \in DOMAIN indexes /\ e \in Stored /\ e \in DocId
    BY <1>4, <1>7 DEF Stored
  <2>2. CASE e \notin BeingStored
    BY <1>1, <1>4, <1>5, <2>1, <2>2 DEF IndexesCover, Covers
  <2>3. CASE e \in BeingStored
    <3>1. PICK b \in Caller : call[b] = ToIndex(e, docs[e])
      BY <2>3 DEF BeingStored
    <3>2. b = c
      <4>1. SUFFICES ASSUME b # c PROVE FALSE
        OBVIOUS
      <4>2. call'[b] = ToIndex(e, docs'[e])
        BY <1>1, <1>4, <3>1, <4>1 DEF DocIndexTypeOK
      <4> QED
        BY <1>7, <2>1, <4>2 DEF BeingStored
    <3>3. d = e /\ v = docs[e]
      BY <3>1, <3>2, KindsOfCall DEF d, v
    <3> QED
      BY <1>4, <1>5, <2>1, <3>3
  <2> QED
    BY <2>2, <2>3
<1>8. ASSUME NEW b \in Caller, call'[b].op = "push"
      PROVE  Covers(call[b].index, Stored)'
  <2>1. b # c
    BY <1>1, <1>4, <1>8, KindsOfCall DEF DocIndexTypeOK
  <2>2. call'[b] = call[b]
    BY <1>1, <1>4, <2>1 DEF DocIndexTypeOK
  <2> QED
    BY <1>1, <1>4, <1>8, <2>2 DEF IndexesCover, Covers, Stored
<1> QED
  BY <1>6, <1>7, <1>8 DEF DocIndexInv, IndexesCover, Covers

\* delete takes the entries of its document and the document away together.
LEMMA DeleteKeeps ==
    ASSUME DocIndexInv, NEW d \in DocId, DeleteDoc(d)
    PROVE  DocIndexInv'
<1>1. DocIndexTypeOK /\ IndexesCover
  BY DEF DocIndexInv
<1>2. /\ docs' = [docs EXCEPT ![d] = Absent] /\ call' = call
      /\ indexes' = [n \in DOMAIN indexes |-> WithoutDocument(indexes[n], d, docs[d])]
      /\ ~ DocsShared
  BY DEF DeleteDoc, UnindexDocument
<1>3. docs[d] \in Contents
  BY <1>1 DEF DocIndexTypeOK, DeleteDoc
<1>4. \A n \in DOMAIN indexes :
         indexes[n] \in IndexType /\ indexes'[n] = WithoutDocument(indexes[n], d, docs[d])
  BY <1>1, <1>2 DEF DocIndexTypeOK
<1>5. indexes' \in Seq(IndexType)
  <2>1. indexes \in Seq(IndexType) /\ DOMAIN indexes' = DOMAIN indexes
    BY <1>1, <1>2 DEF DocIndexTypeOK
  <2>2. \A n \in DOMAIN indexes : WithoutDocument(indexes[n], d, docs[d]) \in IndexType
    BY <1>3, <1>4, OneIndex
  <2> QED
    BY <1>2, <2>1, <2>2
<1>6. DocIndexTypeOK'
  BY <1>1, <1>2, <1>5 DEF DocIndexTypeOK
<1>7. ASSUME NEW n \in DOMAIN indexes', NEW e \in Stored' \ BeingStored'
      PROVE  Entry(indexes'[n], e, docs'[e]) \subseteq indexes'[n].entries
  <2>1. n \in DOMAIN indexes /\ e \in DocId /\ docs'[e] # Absent
    BY <1>2, <1>7 DEF Stored
  <2>2. e # d /\ docs'[e] = docs[e] /\ docs[e] \in Contents /\ e \in Stored
    BY <1>1, <1>2, <2>1 DEF Stored, DocIndexTypeOK
  <2>3. e \notin BeingStored
    BY <1>2, <1>7, <2>1, <2>2 DEF BeingStored
  <2>4. Entry(indexes[n], e, docs[e]) \subseteq indexes[n].entries
    BY <1>1, <2>1, <2>2, <2>3 DEF IndexesCover, Covers
  <2> QED
    BY <1>3, <1>4, <2>1, <2>2, <2>4, UnindexingSpares
<1> QED
  BY <1>2, <1>6, <1>7 DEF DocIndexInv, IndexesCover, Covers, DocsShared

\* clear leaves no document to cover.
LEMMA ClearKeeps ==
    ASSUME DocIndexInv, Clear
    PROVE  DocIndexInv'
<1>1. DocIndexTypeOK /\ IndexesCover
  BY DEF DocIndexInv
<1>2. /\ docs' = [d \in DocId |-> Absent] /\ call' = call
      /\ indexes' = [n \in DOMAIN indexes |-> [indexes[n] EXCEPT !.entries = {}]]
  BY DEF Clear
<1>3. indexes' \in Seq(IndexType)
  <2>1. indexes \in Seq(IndexType) /\ DOMAIN indexes' = DOMAIN indexes
    BY <1>1, <1>2 DEF DocIndexTypeOK
  <2>2. ASSUME NEW i \in IndexType PROVE [i EXCEPT !.entries = {}] \in IndexType
    BY DEF IndexType
  <2> DEFINE emptied(i) == [i EXCEPT !.entries = {}]
  <2>3. indexes' = [n \in DOMAIN indexes |-> emptied(indexes[n])]
    BY <1>2
  <2>4. \A n \in DOMAIN indexes : emptied(indexes[n]) \in IndexType
    BY <2>1, <2>2
  <2> HIDE DEF emptied
  <2> QED
    BY <2>1, <2>3, <2>4
<1>4. DocIndexTypeOK'
  BY <1>1, <1>2, <1>3 DEF DocIndexTypeOK
<1>5. Stored' = {}
  BY <1>2 DEF Stored
<1> QED
  BY <1>4, <1>5 DEF DocIndexInv, IndexesCover, Covers

\* create_index fills its index from every document.
LEMMA CreateKeeps ==
    ASSUME DocIndexInv, NEW c \in Caller, NEW f \in Field, NEW t \in {"Hash", "FullText"},
           CreateIndex(c, f, t)
    PROVE  DocIndexInv'
<1> DEFINE i == IndexOf(f, t)
<1>1. DocIndexTypeOK /\ IndexesCover
  BY DEF DocIndexInv
<1>2. i \in IndexType /\ Covers(i, Stored)
  BY <1>1, FilledIndex
<1> HIDE DEF i
<1>3. /\ call[c] = NoCall /\ call' = [call EXCEPT ![c] = ToPush(i)]
      /\ docs' = docs /\ indexes' = indexes
  BY DEF CreateIndex, i
<1>4. ToPush(i) \in [op : {"push"}, index : IndexType]
  BY <1>2 DEF ToPush
<1>5. DocIndexTypeOK'
  BY <1>1, <1>3, <1>4 DEF DocIndexTypeOK
<1>6. BeingStored \subseteq BeingStored'
  BY <1>1, <1>3, StillBeingStored
<1>7. (\A n \in DOMAIN indexes : Covers(indexes[n], Stored \ BeingStored))'
  BY <1>1, <1>3, <1>6 DEF IndexesCover, Covers, Stored
<1>8. ASSUME NEW b \in Caller, call'[b].op = "push"
      PROVE  Covers(call[b].index, Stored)'
  <2>1. CASE b = c
    <3>1. call'[b].index = i
      BY <1>1, <1>3, <2>1, KindsOfCall DEF DocIndexTypeOK
    <3> QED
      BY <1>2, <1>3, <3>1 DEF Covers, Stored
  <2>2. CASE b # c
    <3>1. call'[b] = call[b]
      BY <1>1, <1>3, <2>2 DEF DocIndexTypeOK
    <3> QED
      BY <1>1, <1>3, <1>8, <3>1 DEF IndexesCover, Covers, Stored
  <2> QED
    BY <2>1, <2>2
<1> QED
  BY <1>5, <1>7, <1>8 DEF DocIndexInv, IndexesCover

\* The index that is added covers every document.
LEMMA FinishCreateKeeps ==
    ASSUME DocIndexInv, NEW c \in Caller, FinishCreate(c)
    PROVE  DocIndexInv'
<1> DEFINE i == call[c].index
<1>1. DocIndexTypeOK /\ IndexesCover
  BY DEF DocIndexInv
<1>2. call[c].op = "push"
  BY DEF FinishCreate
<1>3. call[c] \in [op : {"push"}, index : IndexType]
  BY <1>1, <1>2 DEF DocIndexTypeOK, NoCall
<1>4. i \in IndexType /\ Covers(i, Stored)
  BY <1>1, <1>2, <1>3 DEF IndexesCover
<1> HIDE DEF i
<1>5. /\ indexes' = Append(indexes, i) /\ call' = [call EXCEPT ![c] = NoCall]
      /\ docs' = docs
  BY DEF FinishCreate, i
<1>6. indexes \in Seq(IndexType)
  BY <1>1 DEF DocIndexTypeOK
<1>7. DocIndexTypeOK'
  BY <1>1, <1>4, <1>5, <1>6 DEF DocIndexTypeOK
<1>8. \A n \in DOMAIN indexes' : (n \in DOMAIN indexes /\ indexes'[n] = indexes[n]) \/ indexes'[n] = i
  BY <1>4, <1>5, <1>6
<1>9. Stored' = Stored /\ BeingStored \subseteq BeingStored'
  <2>1. Stored' = Stored
    BY <1>5 DEF Stored
  <2>2. ASSUME NEW e \in BeingStored PROVE e \in BeingStored'
    <3>1. PICK b \in Caller : call[b] = ToIndex(e, docs[e])
      BY <2>2 DEF BeingStored
    <3>2. b # c
      BY <1>2, <3>1, KindsOfCall
    <3>3. call'[b] = ToIndex(e, docs'[e])
      BY <1>1, <1>5, <3>1, <3>2 DEF DocIndexTypeOK
    <3> QED
      BY <3>3 DEF BeingStored
  <2> QED
    BY <2>1, <2>2
<1>10. (\A n \in DOMAIN indexes : Covers(indexes[n], Stored \ BeingStored))'
  <2>1. SUFFICES ASSUME NEW n \in DOMAIN indexes', NEW e \in Stored' \ BeingStored'
                 PROVE  Entry(indexes'[n], e, docs'[e]) \subseteq indexes'[n].entries
    BY DEF Covers
  <2>2. e \in Stored \ BeingStored
    BY <1>9
  <2> QED
    BY <1>1, <1>4, <1>5, <1>8, <2>2 DEF IndexesCover, Covers
<1>11. ASSUME NEW b \in Caller, call'[b].op = "push"
       PROVE  Covers(call[b].index, Stored)'
  <2>1. b # c
    BY <1>1, <1>5, <1>11, KindsOfCall DEF DocIndexTypeOK
  <2>2. call'[b] = call[b]
    BY <1>1, <1>5, <2>1 DEF DocIndexTypeOK
  <2> QED
    BY <1>1, <1>5, <1>9, <1>11, <2>2 DEF IndexesCover, Covers
<1> QED
  BY <1>7, <1>10, <1>11 DEF DocIndexInv, IndexesCover

\* drop_index keeps some of the indexes, each as it was.
LEMMA DropKeeps ==
    ASSUME DocIndexInv, NEW f \in Field, DropIndex(f)
    PROVE  DocIndexInv'
<1> DEFINE kept == {n \in DOMAIN indexes : indexes[n].field # f}
           K == Cardinality(kept)
<1>1. DocIndexTypeOK /\ IndexesCover
  BY DEF DocIndexInv
<1>2. indexes \in Seq(IndexType)
  BY <1>1 DEF DocIndexTypeOK
<1>3. K \in Nat
  <2>1. IsFiniteSet(DOMAIN indexes)
    BY <1>2, FS_Interval
  <2> QED
    BY <2>1, FS_Subset, FS_CardinalityType
<1>4. PICK order \in [1..K -> kept] : indexes' = [n \in 1..K |-> indexes[order[n]]]
  BY DEF DropIndex
<1>5. docs' = docs /\ call' = call
  BY DEF DropIndex
<1> HIDE DEF K
<1>6. \A n \in 1..K : order[n] \in DOMAIN indexes /\ indexes'[n] = indexes[order[n]]
  BY <1>4
<1>7. DOMAIN indexes' = 1..K
  BY <1>4
<1> HIDE DEF kept
<1>8. \A n \in 1..K : indexes[order[n]] \in IndexType
  BY <1>2, <1>6
<1>9. indexes' \in Seq(IndexType)
  BY <1>3, <1>4, <1>8
<1>10. DocIndexTypeOK'
  BY <1>1, <1>5, <1>9 DEF DocIndexTypeOK
<1>11. Stored' = Stored /\ BeingStored' = BeingStored
  BY <1>5 DEF Stored, BeingStored
<1>12. (\A n \in DOMAIN indexes : Covers(indexes[n], Stored \ BeingStored))'
  BY <1>1, <1>5, <1>6, <1>7, <1>11 DEF IndexesCover, Covers
<1>13. (\A c \in Caller : call[c].op = "push" => Covers(call[c].index, Stored))'
  BY <1>1, <1>5, <1>11 DEF IndexesCover, Covers
<1> QED
  BY <1>10, <1>12, <1>13 DEF DocIndexInv, IndexesCover

\* Every step keeps the invariant.
LEMMA DocIndexStep ==
    ASSUME DocIndexInv, [DocIndexNext]_docIndexVars
    PROVE  DocIndexInv'
<1>1. ASSUME NEW c \in Caller, NEW d \in DocId, NEW v \in Contents, InsertDoc(c, d, v)
      PROVE  DocIndexInv'
  BY <1>1, StoreKeeps DEF InsertDoc
<1>2. ASSUME NEW c \in Caller, NEW d \in DocId, NEW v \in Contents, UpdateDoc(c, d, v)
      PROVE  DocIndexInv'
  BY <1>2, StoreKeeps DEF UpdateDoc
<1>3. CASE UNCHANGED docIndexVars
  BY <1>3 DEF docIndexVars, DocIndexInv, DocIndexTypeOK, IndexesCover, Covers, Stored, BeingStored
<1> QED
  BY <1>1, <1>2, <1>3, FinishStoreKeeps, FinishCreateKeeps, DeleteKeeps, ClearKeeps,
     CreateKeeps, DropKeeps
  DEF DocIndexNext

\* Every index of a collection has the entries of all documents whose insert
\* or update has returned, and the index create_index is about to add those
\* of all documents.
THEOREM DocIndexInvariant == DocIndexSpec => []DocIndexInv
<1>1. DocIndexInit => DocIndexInv
  <2> SUFFICES ASSUME DocIndexInit PROVE DocIndexInv
    OBVIOUS
  <2>1. DocIndexTypeOK
    BY DEF DocIndexInit, DocIndexTypeOK
  <2>2. \A c \in Caller : call[c].op # "push"
    BY KindsOfCall DEF DocIndexInit
  <2>3. DOMAIN indexes = {}
    BY DEF DocIndexInit
  <2> QED
    BY <2>1, <2>2, <2>3 DEF DocIndexInv, IndexesCover
<1> QED
  BY <1>1, DocIndexStep, PTL DEF DocIndexSpec

-----------------------------------------------------------------------------
(* What find answers.                                                      *)

\* find asks one of the indexes that can answer the filter.
LEMMA FirstUsable ==
    ASSUME DocIndexTypeOK, NEW f, Usable(f) # {}
    PROVE  \E n \in Usable(f) :
              FindEq(f) = {d \in DocId : <<IndexKey(f.value), d>> \in indexes[n].entries}
<1>1. Usable(f) \in SUBSET Nat
  BY DEF Usable, DocIndexTypeOK
<1>2. \E n \in Usable(f) : \A m \in Usable(f) : n <= m
  BY <1>1, LeastNat
<1> QED
  BY <1>2 DEF FindEq

\* With an index or without, find answers with every matching document
\* whose insert or update has returned: Collection::find over
\* find_indexed_candidates never loses one, however the writers, create_index
\* and drop_index interleave.
THEOREM FindCompleteHolds == DocIndexSpec => []FindComplete
<1>1. DocIndexInv => FindComplete
  <2>1. SUFFICES ASSUME DocIndexInv, NEW d \in Stored \ BeingStored, NEW query \in Queries,
                        d \in Scan(query)
                 PROVE  d \in Find(query)
    BY DEF FindComplete
  <2>2. /\ d \in DocId /\ docs[d] # Absent
        /\ \A f \in query : Matches(docs[d], f)
    BY <2>1 DEF Scan, Stored
  <2>3. ASSUME NEW f \in query, Usable(f) # {} PROVE d \in FindEq(f)
    <3>1. PICK n \in Usable(f) :
             FindEq(f) = {e \in DocId : <<IndexKey(f.value), e>> \in indexes[n].entries}
      BY <2>1, <2>3, FirstUsable DEF DocIndexInv
    <3>2. /\ f.op = "Eq" /\ n \in DOMAIN indexes
          /\ indexes[n].field = f.field /\ indexes[n].type # "FullText"
      BY <3>1 DEF Usable
    <3>3. docs[d][f.field] # Absent /\ docs[d][f.field] = f.value
      BY <2>2, <2>3, <3>2 DEF Matches
    <3>4. Entry(indexes[n], d, docs[d]) = {<<IndexKey(f.value), d>>}
      BY <3>2, <3>3 DEF Entry
    <3>5. Entry(indexes[n], d, docs[d]) \subseteq indexes[n].entries
      BY <2>1, <3>2 DEF DocIndexInv, IndexesCover, Covers
    <3> QED
      BY <2>2, <3>1, <3>4, <3>5
  <2>4. d \in FindIndexedCandidates(query)
    BY <2>2, <2>3 DEF FindIndexedCandidates
  <2> QED
    BY <2>1, <2>2, <2>4 DEF Find
<1> QED
  BY <1>1, DocIndexInvariant, PTL

(***************************************************************************)
(* Replicated data types and clocks.                                       *)
(***************************************************************************)

-----------------------------------------------------------------------------
(* The history of the replicated data types.                               *)

\* The log only grows.
GrowLog == \A i \in DOMAIN log : i \in DOMAIN log' /\ log'[i] = log[i]

\* An update or receipt at n that is made in the knowledge of S, after which
\* the replica is r.
Happens(n, op, arg, S, r) ==
    /\ log' = Append(log, [at |-> n, op |-> op, arg |-> arg, past |-> S])
    /\ rep' = [rep EXCEPT ![n] = r]
    /\ seen' = [seen EXCEPT ![n] = S \cup {Len(log) + 1}]
    /\ UNCHANGED <<kind, snapshots>>

\* What it leaves: a log entry and a replica.
Made(n, op, arg, S, r) ==
    /\ GrowLog /\ kind' = kind
    /\ Len(log) + 1 \notin DOMAIN log /\ DOMAIN log' = DOMAIN log \cup {Len(log) + 1}
    /\ log'[Len(log) + 1] = [at |-> n, op |-> op, arg |-> arg, past |-> S]
    /\ \A x \in Replicas' : x \in Replicas \/ (x.rep = r /\ x.seen = S \cup {Len(log) + 1})

\* The log is a sequence.
LEMMA LogIsSeq ==
    ASSUME HistoryInv
    PROVE  Len(log) \in Nat /\ DOMAIN log = 1..Len(log)
BY DEF HistoryInv

\* A sequence is one over its own elements.
LEMMA OwnRange ==
    ASSUME NEW T, NEW s \in Seq(T)
    PROVE  s \in Seq({s[i] : i \in DOMAIN s})
<1> DEFINE U == {s[i] : i \in DOMAIN s}
<1>1. \A i \in 1..Len(s) : s[i] \in U
  OBVIOUS
<1>2. Len(s) \in Nat /\ DOMAIN s = 1..Len(s) /\ s = [i \in 1..Len(s) |-> s[i]]
  OBVIOUS
<1> HIDE DEF U
<1>3. [i \in 1..Len(s) |-> s[i]] \in Seq(U)
  BY <1>1, <1>2
<1>4. s \in Seq(U)
  BY <1>2, <1>3
<1> QED
  BY <1>4 DEF U

\* What an entry at the end of the log leaves of it.
LEMMA AppendLog ==
    ASSUME HistoryInv, NEW e, log' = Append(log, e)
    PROVE  /\ Len(log) + 1 \in Nat /\ Len(log) + 1 \notin DOMAIN log
           /\ DOMAIN log' = DOMAIN log \cup {Len(log) + 1}
           /\ GrowLog
           /\ log'[Len(log) + 1] = e
           /\ log' \in Seq({log'[i] : i \in DOMAIN log'})
<1> DEFINE T == {log[i] : i \in DOMAIN log} \cup {e}
<1>1. log \in Seq(T)
  BY DEF HistoryInv
<1>2. e \in T
  OBVIOUS
<1> HIDE DEF T
<1>3. /\ log' \in Seq(T) /\ Len(log') = Len(log) + 1
      /\ \A i \in 1..Len(log) : log'[i] = log[i]
      /\ log'[Len(log) + 1] = e
  BY <1>1, <1>2, AppendProperties
<1>4. Len(log) \in Nat /\ DOMAIN log = 1..Len(log) /\ DOMAIN log' = 1..(Len(log) + 1)
  BY <1>1, <1>3
<1>5. log' \in Seq({log'[i] : i \in DOMAIN log'})
  BY <1>3, OwnRange
<1>6. DOMAIN log' = DOMAIN log \cup {Len(log) + 1}
  BY <1>4
<1> QED
  BY <1>3, <1>4, <1>5, <1>6 DEF GrowLog

\* What sets of updates are depends on their entries alone.
LEMMA SameEntries ==
    ASSUME NEW h, NEW g, NEW S, \A i \in S : g[i] = h[i]
    PROVE  /\ PastClosed(g, S) = PastClosed(h, S)
           /\ \A n : At(g, S, n) = At(h, S, n)
           /\ \A op : OfOp(g, S, op) = OfOp(h, S, op)
           /\ \A op : Counts(g, S, op) = Counts(h, S, op)
           /\ \A op, e : On(g, S, op, e) = On(h, S, op, e)
           /\ \A T \in SUBSET S : Args(g, T) = Args(h, T)
           /\ ClockOf(g, S) = ClockOf(h, S)
<1>1. PastClosed(g, S) = PastClosed(h, S)
  BY DEF PastClosed
<1>2. \A n : At(g, S, n) = At(h, S, n)
  BY DEF At
<1>3. \A op : OfOp(g, S, op) = OfOp(h, S, op)
  BY DEF OfOp
<1>4. \A op : Counts(g, S, op) = Counts(h, S, op)
  <2>1. \A op, n : At(g, OfOp(h, S, op), n) = At(h, OfOp(h, S, op), n)
    BY DEF At, OfOp
  <2> QED
    BY <1>3, <2>1 DEF Counts
<1>5. \A op, e : On(g, S, op, e) = On(h, S, op, e)
  BY <1>3 DEF On, OfOp
<1>6. \A T \in SUBSET S : Args(g, T) = Args(h, T)
  BY DEF Args
<1>7. ClockOf(g, S) = ClockOf(h, S)
  BY <1>2 DEF ClockOf
<1> QED
  BY <1>1, <1>2, <1>3, <1>4, <1>5, <1>6, <1>7

\* What was known is not changed by what the log gains.
LEMMA OldEntries ==
    ASSUME GrowLog, NEW S \in SUBSET DOMAIN log
    PROVE  /\ \A i \in S : log'[i] = log[i]
           /\ PastClosed(log', S) = PastClosed(log, S)
           /\ \A n : At(log', S, n) = At(log, S, n)
           /\ \A op : OfOp(log', S, op) = OfOp(log, S, op)
           /\ \A op : Counts(log', S, op) = Counts(log, S, op)
           /\ \A op, e : On(log', S, op, e) = On(log, S, op, e)
           /\ \A T \in SUBSET S : Args(log', T) = Args(log, T)
           /\ ClockOf(log', S) = ClockOf(log, S)
<1>1. \A i \in S : log'[i] = log[i]
  BY DEF GrowLog
<1> QED
  BY <1>1, SameEntries

\* An update keeps the history well-formed and makes one replica.
LEMMA HappensHistory ==
    ASSUME HistoryInv, NEW n \in Node, NEW op, NEW arg, NEW r,
           NEW S \in SUBSET DOMAIN log, PastClosed(log, S), seen[n] \subseteq S,
           Happens(n, op, arg, S, r)
    PROVE  HistoryInv' /\ Made(n, op, arg, S, r)
<1> DEFINE new == Len(log) + 1
<1>1. /\ new \in Nat /\ new \notin DOMAIN log
      /\ DOMAIN log' = DOMAIN log \cup {new} /\ GrowLog
      /\ log'[new] = [at |-> n, op |-> op, arg |-> arg, past |-> S]
      /\ log' \in Seq({log'[i] : i \in DOMAIN log'})
  BY AppendLog DEF Happens
<1>2. DOMAIN log = 1..Len(log) /\ Len(log) \in Nat /\ new = Len(log) + 1
  BY LogIsSeq
<1>3. rep' = [m \in Node |-> IF m = n THEN r ELSE rep[m]]
      /\ seen' = [m \in Node |-> IF m = n THEN S \cup {new} ELSE seen[m]]
  BY DEF HistoryInv, Happens
<1>4. \A x \in Replicas' : x \in Replicas \/ (x.rep = r /\ x.seen = S \cup {new})
  BY <1>3 DEF Replicas, Happens
<1> HIDE DEF new
<1>5. PastClosed(log', S) /\ \A i \in S : log'[i] = log[i]
  BY <1>1, SameEntries DEF GrowLog
<1>6. PastClosed(log', S \cup {new})
  BY <1>1, <1>5 DEF PastClosed
<1>7. \A x \in Replicas' : x.seen \subseteq DOMAIN log' /\ PastClosed(log', x.seen)
  <2> SUFFICES ASSUME NEW x \in Replicas' PROVE x.seen \subseteq DOMAIN log' /\ PastClosed(log', x.seen)
    OBVIOUS
  <2>1. CASE x \in Replicas
    <3>1. x.seen \in SUBSET DOMAIN log /\ PastClosed(log, x.seen)
      BY <2>1 DEF HistoryInv
    <3> QED
      BY <1>1, <3>1, SameEntries DEF GrowLog
  <2>2. CASE x.seen = S \cup {new}
    BY <1>1, <1>6, <2>2
  <2> QED
    BY <1>4, <2>1, <2>2 DEF new
<1>8. ASSUME NEW i \in DOMAIN log'
      PROVE  /\ log'[i].at \in Node /\ i \in seen'[log'[i].at]
             /\ log'[i].past \subseteq 1..(i - 1) /\ PastClosed(log', log'[i].past)
             /\ \A j \in 1..(i - 1) : log'[j].at = log'[i].at => j \in log'[i].past
  <2>1. CASE i \in DOMAIN log
    <3>1. /\ log[i].at \in Node /\ i \in seen[log[i].at]
          /\ log[i].past \subseteq 1..(i - 1) /\ PastClosed(log, log[i].past)
          /\ \A j \in 1..(i - 1) : log[j].at = log[i].at => j \in log[i].past
      BY <2>1 DEF HistoryInv
    <3>2. i \in Nat /\ 1..(i - 1) \subseteq DOMAIN log
      BY <1>2, <2>1
    <3>3. log'[i] = log[i] /\ \A j \in 1..(i - 1) : log'[j] = log[j]
      BY <1>1, <2>1, <3>2 DEF GrowLog
    <3>4. PastClosed(log', log[i].past)
      BY <1>1, <3>1, <3>2, SameEntries DEF GrowLog
    <3>5. i \in seen'[log[i].at]
      BY <1>3, <3>1
    <3> QED
      BY <3>1, <3>3, <3>4, <3>5
  <2>2. CASE i = new
    <3>1. 1..(i - 1) = DOMAIN log
      BY <1>1, <1>2, <2>2
    <3>2. \A j \in DOMAIN log : log[j].at = n => j \in S
      BY DEF HistoryInv
    <3>3. \A j \in DOMAIN log : log'[j] = log[j]
      BY <1>1 DEF GrowLog
    <3> QED
      BY <1>1, <1>3, <1>5, <2>2, <3>1, <3>2, <3>3
  <2> QED
    BY <1>1, <2>1, <2>2
<1>9. kind' \in Kinds /\ rep' = [m \in Node |-> rep'[m]] /\ seen' = [m \in Node |-> seen'[m]]
  BY <1>3 DEF HistoryInv, Happens
<1> QED
  <2>1. HistoryInv'
    BY <1>1, <1>7, <1>8, <1>9 DEF HistoryInv
  <2>2. kind' = kind
    BY DEF Happens
  <2> QED
    BY <1>1, <1>4, <2>1, <2>2 DEF Made, new

\* What a merge does to the replicas.
LEMMA MergeHistory ==
    ASSUME HistoryInv, NEW n \in Node, Merge(n)
    PROVE  /\ HistoryInv' /\ log' = log /\ kind' = kind /\ kind # "clock"
           /\ \E a, b \in Replicas :
                 \A x \in Replicas' :
                    x \in Replicas \/ (x.rep \in Merges(a.rep, b.rep) /\ x.seen = a.seen \cup b.seen)
           /\ kind # "mv" =>
                 \E a, b \in Replicas :
                    \A x \in Replicas' :
                       x \in Replicas \/ (x.rep = Merged(a.rep, b.rep) /\ x.seen = a.seen \cup b.seen)
<1>0. PICK s \in snapshots : /\ \E r \in Merges(rep[n], s.rep) : rep' = [rep EXCEPT ![n] = r]
                            /\ seen' = [seen EXCEPT ![n] = @ \cup s.seen]
  BY DEF Merge
<1>1. PICK r \in Merges(rep[n], s.rep) : /\ rep' = [rep EXCEPT ![n] = r]
                                        /\ seen' = [seen EXCEPT ![n] = @ \cup s.seen]
  BY <1>0
<1> DEFINE a == [rep |-> rep[n], seen |-> seen[n]]
           x == [rep |-> r, seen |-> a.seen \cup s.seen]
<1>2. a \in Replicas /\ s \in Replicas /\ a.rep = rep[n] /\ a.seen = seen[n]
  BY DEF Replicas
<1>3. rep' = [m \in Node |-> IF m = n THEN x.rep ELSE rep[m]]
      /\ seen' = [m \in Node |-> IF m = n THEN x.seen ELSE seen[m]]
  BY <1>1 DEF HistoryInv
<1>4. log' = log /\ kind' = kind /\ kind # "clock" /\ snapshots' = snapshots
  BY DEF Merge
<1>5. \A y \in Replicas' : y \in Replicas \/ (y.rep = x.rep /\ y.seen = x.seen)
  <2> HIDE DEF x
  <2> QED
    BY <1>3, <1>4 DEF Replicas
<1>6. \A y \in Replicas : y.seen \subseteq DOMAIN log /\ PastClosed(log, y.seen)
  BY DEF HistoryInv
<1>7. x.seen \subseteq DOMAIN log /\ PastClosed(log, x.seen)
  BY <1>2, <1>6 DEF PastClosed
<1>8. \A y \in Replicas' : y.seen \subseteq DOMAIN log /\ PastClosed(log, y.seen)
  BY <1>5, <1>6, <1>7
<1>9. HistoryInv'
  <2>1. \A m \in Node : seen[m] \subseteq seen'[m]
    BY <1>3
  <2>3. \A i \in DOMAIN log : log[i].at \in Node /\ i \in seen[log[i].at]
    BY DEF HistoryInv
  <2>4. \A i \in DOMAIN log : i \in seen'[log[i].at]
    BY <2>1, <2>3
  <2>5. rep' = [m \in Node |-> rep'[m]] /\ seen' = [m \in Node |-> seen'[m]]
    BY <1>3
  <2> QED
    BY <1>4, <1>8, <2>4, <2>5 DEF HistoryInv
<1>10. \A y \in Replicas' : y \in Replicas \/ (y.rep = r /\ y.seen = a.seen \cup s.seen)
  BY <1>5
<1>11. r \in Merges(a.rep, s.rep) /\ (kind # "mv" => r = Merged(a.rep, s.rep))
  BY <1>1, <1>2 DEF Merges
<1> HIDE DEF a
<1> QED
  BY <1>2, <1>4, <1>9, <1>10, <1>11
-----------------------------------------------------------------------------
(* Counting updates.                                                       *)

\* The updates of a history h and what was known where they were made.
WellFormed(h) ==
    /\ \E len \in Nat : DOMAIN h = 1..len
    /\ \A i \in DOMAIN h :
          /\ h[i].at \in Node
          /\ h[i].past \subseteq 1..(i - 1) /\ PastClosed(h, h[i].past)
          /\ \A j \in 1..(i - 1) : h[j].at = h[i].at => j \in h[i].past

LEMMA LogIsWellFormed ==
    ASSUME HistoryInv
    PROVE  WellFormed(log)
BY LogIsSeq DEF HistoryInv, WellFormed

LEMMA NextIsWellFormed ==
    ASSUME HistoryInv'
    PROVE  WellFormed(log')
<1>1. Len(log') \in Nat /\ DOMAIN log' = 1..Len(log')
  BY DEF HistoryInv
<1> QED
  BY <1>1 DEF HistoryInv, WellFormed

\* The updates known somewhere are finitely many.
LEMMA KnownFinite ==
    ASSUME NEW h, WellFormed(h), NEW S \in SUBSET DOMAIN h
    PROVE  IsFiniteSet(S) /\ Cardinality(S) \in Nat
<1>1. IsFiniteSet(DOMAIN h)
  BY FS_Interval DEF WellFormed
<1> QED
  BY <1>1, FS_Subset, FS_CardinalityType

\* Of two finite sets one of which has the other in it the larger one is the
\* union.
LEMMA NestedCount ==
    ASSUME NEW X, NEW Y, IsFiniteSet(X), IsFiniteSet(Y), X \subseteq Y \/ Y \subseteq X
    PROVE  /\ Cardinality(X) \in Nat /\ Cardinality(Y) \in Nat
           /\ Cardinality(X \cup Y) = Larger(Cardinality(X), Cardinality(Y))
           /\ Cardinality(X) <= Cardinality(Y) <=> X \subseteq Y
<1>1. Cardinality(X) \in Nat /\ Cardinality(Y) \in Nat
  BY FS_CardinalityType
<1>2. CASE X \subseteq Y
  <2>1. X \cup Y = Y /\ Cardinality(X) <= Cardinality(Y)
    BY <1>2, FS_Subset
  <2> QED
    BY <1>1, <1>2, <2>1 DEF Larger
<1>3. CASE Y \subseteq X
  <2>1. X \cup Y = X /\ Cardinality(Y) <= Cardinality(X)
    BY <1>3, FS_Subset
  <2>2. Cardinality(X) <= Cardinality(Y) => X = Y
    BY <1>1, <1>3, <2>1, FS_Subset
  <2> QED
    BY <1>1, <1>3, <2>1, <2>2 DEF Larger
<1> QED
  BY <1>2, <1>3

\* Of the updates of one node, one replica knows all that another one knows.
LEMMA KnownNested ==
    ASSUME NEW h, WellFormed(h), NEW A \in SUBSET DOMAIN h, NEW B \in SUBSET DOMAIN h,
           PastClosed(h, A), PastClosed(h, B), NEW n
    PROVE  At(h, A, n) \subseteq At(h, B, n) \/ At(h, B, n) \subseteq At(h, A, n)
<1> SUFFICES ASSUME NEW i \in At(h, A, n), i \notin At(h, B, n),
                    NEW j \in At(h, B, n), j \notin At(h, A, n)
             PROVE  FALSE
  OBVIOUS
<1>1. /\ i \in A /\ i \notin B /\ j \in B /\ j \notin A
      /\ h[i].at = n /\ h[j].at = n /\ i \in DOMAIN h /\ j \in DOMAIN h
  BY DEF At
<1>2. PICK len \in Nat : DOMAIN h = 1..len
  BY DEF WellFormed
<1>3. i < j \/ j < i
  BY <1>1, <1>2
<1>4. i \in DOMAIN h /\ (\A k \in 1..(i - 1) : h[k].at = h[i].at => k \in h[i].past)
      /\ j \in DOMAIN h /\ (\A k \in 1..(j - 1) : h[k].at = h[j].at => k \in h[j].past)
  BY <1>1 DEF WellFormed
<1>5. ASSUME i < j PROVE FALSE
  <2>1. i \in h[j].past
    BY <1>1, <1>2, <1>4, <1>5
  <2> QED
    BY <1>1, <2>1 DEF PastClosed
<1>6. ASSUME j < i PROVE FALSE
  <2>1. j \in h[i].past
    BY <1>1, <1>2, <1>4, <1>6
  <2> QED
    BY <1>1, <2>1 DEF PastClosed
<1> QED
  BY <1>3, <1>5, <1>6

\* So the larger of two counts is the count of what both know.
LEMMA JoinedAt ==
    ASSUME NEW h, WellFormed(h), NEW A \in SUBSET DOMAIN h, NEW B \in SUBSET DOMAIN h,
           PastClosed(h, A), PastClosed(h, B), NEW n
    PROVE  /\ Cardinality(At(h, A, n)) \in Nat /\ Cardinality(At(h, B, n)) \in Nat
           /\ Cardinality(At(h, A \cup B, n)) = Larger(Cardinality(At(h, A, n)), Cardinality(At(h, B, n)))
           /\ Cardinality(At(h, A, n)) <= Cardinality(At(h, B, n)) <=> At(h, A, n) \subseteq At(h, B, n)
<1> DEFINE X == At(h, A, n)
           Y == At(h, B, n)
<1>1. /\ X \in SUBSET DOMAIN h /\ Y \in SUBSET DOMAIN h /\ At(h, A \cup B, n) = X \cup Y
      /\ X \subseteq Y \/ Y \subseteq X
  BY KnownNested DEF At
<1>2. IsFiniteSet(X) /\ IsFiniteSet(Y)
  BY <1>1, KnownFinite
<1> HIDE DEF X, Y
<1>3. /\ Cardinality(X) \in Nat /\ Cardinality(Y) \in Nat
      /\ Cardinality(X \cup Y) = Larger(Cardinality(X), Cardinality(Y))
      /\ Cardinality(X) <= Cardinality(Y) <=> X \subseteq Y
  BY <1>1, <1>2, NestedCount
<1> QED
  BY <1>1, <1>3 DEF X, Y

LEMMA JoinedCounts ==
    ASSUME NEW h, WellFormed(h), NEW A \in SUBSET DOMAIN h, NEW B \in SUBSET DOMAIN h,
           PastClosed(h, A), PastClosed(h, B), NEW op
    PROVE  MaxEach(Counts(h, A, op), Counts(h, B, op)) = Counts(h, A \cup B, op)
<1>1. ASSUME NEW n
      PROVE  Cardinality(At(h, OfOp(h, A \cup B, op), n))
               = Larger(Cardinality(At(h, OfOp(h, A, op), n)),
                        Cardinality(At(h, OfOp(h, B, op), n)))
  <2> DEFINE X == At(h, OfOp(h, A, op), n)
             Y == At(h, OfOp(h, B, op), n)
  <2>1. At(h, A, n) \subseteq At(h, B, n) \/ At(h, B, n) \subseteq At(h, A, n)
    BY KnownNested
  <2>2. /\ X = {i \in At(h, A, n) : h[i].op = op}
        /\ Y = {i \in At(h, B, n) : h[i].op = op}
        /\ At(h, OfOp(h, A \cup B, op), n) = X \cup Y
    BY DEF At, OfOp
  <2>3. X \in SUBSET DOMAIN h /\ Y \in SUBSET DOMAIN h /\ (X \subseteq Y \/ Y \subseteq X)
    BY <2>1, <2>2 DEF At
  <2> HIDE DEF X, Y
  <2>4. Cardinality(X \cup Y) = Larger(Cardinality(X), Cardinality(Y))
    BY <2>3, KnownFinite, NestedCount
  <2> QED
    BY <2>2, <2>4 DEF X, Y
<1> QED
  BY <1>1 DEF MaxEach, Counts

\* An update and all that was known where it was made are in the history.
LEMMA PastKnown ==
    ASSUME NEW h, WellFormed(h), NEW i \in DOMAIN h
    PROVE  /\ Past(h, i) \in SUBSET DOMAIN h /\ PastClosed(h, Past(h, i))
           /\ h[i].past \in SUBSET DOMAIN h /\ PastClosed(h, h[i].past)
           /\ i \in Nat /\ i \notin h[i].past /\ \A j \in h[i].past : j < i
<1>1. PICK len \in Nat : DOMAIN h = 1..len
  BY DEF WellFormed
<1>2. h[i].past \subseteq 1..(i - 1) /\ PastClosed(h, h[i].past)
  BY DEF WellFormed
<1>3. h[i].past \in SUBSET DOMAIN h /\ i \notin h[i].past /\ i \in Nat /\ \A j \in h[i].past : j < i
  BY <1>1, <1>2
<1>4. PastClosed(h, Past(h, i))
  BY <1>2 DEF PastClosed, Past
<1> QED
  BY <1>2, <1>3, <1>4 DEF Past

\* An update more is counted where it was made.
LEMMA CountOneMore ==
    ASSUME NEW h, NEW S, NEW i, i \notin S, IsFiniteSet(S), NEW op
    PROVE  \A n : Cardinality(At(h, OfOp(h, S \cup {i}, op), n))
                    = IF h[i].op = op /\ h[i].at = n
                      THEN Cardinality(At(h, OfOp(h, S, op), n)) + 1
                      ELSE Cardinality(At(h, OfOp(h, S, op), n))
<1> TAKE n
<1> DEFINE X == At(h, OfOp(h, S, op), n)
<1>1. X \subseteq S /\ i \notin X
  BY DEF At, OfOp
<1>2. IsFiniteSet(X)
  BY <1>1, FS_Subset
<1>3. At(h, OfOp(h, S \cup {i}, op), n) = IF h[i].op = op /\ h[i].at = n THEN X \cup {i} ELSE X
  BY DEF At, OfOp
<1> HIDE DEF X
<1>4. Cardinality(X \cup {i}) = Cardinality(X) + 1
  BY <1>1, <1>2, FS_AddElement
<1> QED
  BY <1>3, <1>4 DEF X
-----------------------------------------------------------------------------
(* Steps.                                                                  *)

\* A step is the sending of a state, a merge, or what the type offers.
LEMMA StepOfType ==
    ASSUME CrdtNext
    PROVE  \/ \E n \in Node : Send(n) \/ Merge(n)
           \/ kind = "counter" /\ \E n \in Node : Count(n)
           \/ kind = "twopset" /\ \E n \in Node, e \in Elem : TwoPAdd(n, e) \/ TwoPRemove(n, e)
           \/ kind = "lww" /\ \E n \in Node, t \in Time : LwwSet(n, t)
           \/ kind = "mv" /\ \E n \in Node, e \in MvValue : MvWrite(n, e)
           \/ kind = "orset" /\ \E n \in Node, e \in Elem : OrAdd(n, e) \/ OrRemove(n, e)
           \/ kind = "map" /\ \E n \in Node, e \in Elem : \/ MapRemove(n, e)
                                                         \/ \E t \in Time : MapSet(n, e, t)
           \/ kind = "clock" /\ \E n \in Node, t \in Time : ClockTick(n, t) \/ ClockReceive(n, t)
<1>1. \A n \in Node : Count(n) => kind = "counter"
  BY DEF Count
<1>2. \A n \in Node, e \in Elem : TwoPAdd(n, e) \/ TwoPRemove(n, e) => kind = "twopset"
  BY DEF TwoPAdd, TwoPRemove
<1>3. \A n \in Node, t \in Time : LwwSet(n, t) => kind = "lww"
  BY DEF LwwSet
<1>4. \A n \in Node, e \in MvValue : MvWrite(n, e) => kind = "mv"
  BY DEF MvWrite
<1>5. \A n \in Node, e \in Elem : OrAdd(n, e) \/ OrRemove(n, e) => kind = "orset"
  BY DEF OrAdd, OrRemove
<1>6. \A n \in Node, e \in Elem : MapRemove(n, e) => kind = "map"
  BY DEF MapRemove
<1>7. \A n \in Node, e \in Elem, t \in Time : MapSet(n, e, t) => kind = "map"
  BY DEF MapSet
<1>8. \A n \in Node, t \in Time : ClockTick(n, t) \/ ClockReceive(n, t) => kind = "clock"
  BY DEF ClockTick, ClockReceive
<1> QED
  BY <1>1, <1>2, <1>3, <1>4, <1>5, <1>6, <1>7, <1>8 DEF CrdtNext

\* A behaviour is about one type.
LEMMA KindKept == [CrdtNext]_crdtVars => kind' = kind
<1>1. \A n \in Node : Count(n) \/ Send(n) \/ Merge(n) => kind' = kind
  BY DEF Count, Send, Merge, Update
<1>2. \A n \in Node, e \in MvValue : MvWrite(n, e) => kind' = kind
  BY DEF MvWrite, Update
<1>3. \A n \in Node, e \in Elem : TwoPAdd(n, e) \/ TwoPRemove(n, e) => kind' = kind
  BY DEF TwoPAdd, TwoPRemove, Update
<1>4. \A n \in Node, e \in Elem : OrAdd(n, e) \/ OrRemove(n, e) \/ MapRemove(n, e) => kind' = kind
  BY DEF OrAdd, OrRemove, MapRemove, Update
<1>5. \A n \in Node, t \in Time : LwwSet(n, t) => kind' = kind
  BY DEF LwwSet, Update
<1>6. \A n \in Node, t \in Time : ClockTick(n, t) \/ ClockReceive(n, t) => kind' = kind
  BY DEF ClockTick, ClockReceive, Update
<1>7. \A n \in Node, e \in Elem, t \in Time : MapSet(n, e, t) => kind' = kind
  BY DEF MapSet, Update
<1> QED
  BY <1>1, <1>2, <1>3, <1>4, <1>5, <1>6, <1>7 DEF CrdtNext, crdtVars

\* An update is made in the knowledge of what its node has seen.
LEMMA UpdateHappens ==
    ASSUME HistoryInv, NEW n \in Node, NEW op, NEW arg, NEW r, Update(n, r, LogEntry(n, op, arg))
    PROVE  /\ Happens(n, op, arg, seen[n], r)
           /\ seen[n] \in SUBSET DOMAIN log /\ PastClosed(log, seen[n])
           /\ [rep |-> rep[n], seen |-> seen[n]] \in Replicas
<1>1. [rep |-> rep[n], seen |-> seen[n]] \in Replicas
  BY DEF Replicas
<1>2. seen[n] \in SUBSET DOMAIN log /\ PastClosed(log, seen[n])
  BY <1>1 DEF HistoryInv
<1> QED
  BY <1>1, <1>2 DEF Update, LogEntry, Happens, HistoryInv

\* What it leaves.
LEMMA UpdateMakes ==
    ASSUME HistoryInv, NEW n \in Node, NEW op, NEW arg, NEW r, Update(n, r, LogEntry(n, op, arg))
    PROVE  /\ HistoryInv' /\ Made(n, op, arg, seen[n], r)
           /\ seen[n] \in SUBSET DOMAIN log /\ PastClosed(log, seen[n])
           /\ [rep |-> rep[n], seen |-> seen[n]] \in Replicas
<1>1. /\ Happens(n, op, arg, seen[n], r)
      /\ seen[n] \in SUBSET DOMAIN log /\ PastClosed(log, seen[n])
      /\ [rep |-> rep[n], seen |-> seen[n]] \in Replicas
  BY UpdateHappens
<1>2. HistoryInv' /\ Made(n, op, arg, seen[n], r)
  BY <1>1, HappensHistory
<1> QED
  BY <1>1, <1>2

\* A receipt also knows what the timestamp's sender had seen.
LEMMA ReceiveHappens ==
    ASSUME HistoryInv, NEW n \in Node, NEW t, ClockReceive(n, t)
    PROVE  \E s \in snapshots :
             LET c == [vc |-> VcIncrement(VcMerge(rep[n].vc, s.rep.vc), n),
                       hlc |-> HlcReceive(rep[n].hlc, s.rep.hlc, t),
                       lamport |-> LamportReceive(rep[n].lamport, s.rep.lamport)]
             IN  /\ Happens(n, "receive", c, seen[n] \cup s.seen, c)
                 /\ [rep |-> rep[n], seen |-> seen[n]] \in Replicas /\ s \in Replicas
                 /\ seen[n] \in SUBSET DOMAIN log /\ PastClosed(log, seen[n])
                 /\ s.seen \in SUBSET DOMAIN log /\ PastClosed(log, s.seen)
<1> DEFINE c(s) == [vc |-> VcIncrement(VcMerge(rep[n].vc, s.rep.vc), n),
                    hlc |-> HlcReceive(rep[n].hlc, s.rep.hlc, t),
                    lamport |-> LamportReceive(rep[n].lamport, s.rep.lamport)]
<1>1. PICK s \in snapshots :
         /\ rep' = [rep EXCEPT ![n] = c(s)]
         /\ log' = Append(log, [LogEntry(n, "receive", c(s)) EXCEPT !.past = seen[n] \cup s.seen])
         /\ seen' = [seen EXCEPT ![n] = @ \cup s.seen \cup {Len(log) + 1}]
         /\ UNCHANGED <<kind, snapshots>>
  BY DEF ClockReceive
<1>2. [rep |-> rep[n], seen |-> seen[n]] \in Replicas /\ s \in Replicas
  BY DEF Replicas
<1>3. /\ seen[n] \in SUBSET DOMAIN log /\ PastClosed(log, seen[n])
      /\ s.seen \in SUBSET DOMAIN log /\ PastClosed(log, s.seen)
  BY <1>2 DEF HistoryInv
<1> HIDE DEF c
<1>0. \A arg, P : [LogEntry(n, "receive", arg) EXCEPT !.past = P]
                    = [at |-> n, op |-> "receive", arg |-> arg, past |-> P]
  BY DEF LogEntry
<1>4. seen' = [seen EXCEPT ![n] = (seen[n] \cup s.seen) \cup {Len(log) + 1}]
  BY <1>1 DEF HistoryInv
<1>5. Happens(n, "receive", c(s), seen[n] \cup s.seen, c(s))
  BY <1>0, <1>1, <1>4 DEF Happens
<1> QED
  BY <1>2, <1>3, <1>5 DEF c

\* Sending, like doing nothing, makes no new replica.
LEMMA SendHistory ==
    ASSUME HistoryInv, UNCHANGED crdtVars \/ \E n \in Node : Send(n)
    PROVE  HistoryInv' /\ log' = log /\ kind' = kind /\ Replicas' \subseteq Replicas
<1>1. log' = log /\ kind' = kind /\ rep' = rep /\ seen' = seen
  BY DEF Send, crdtVars
<1>2. snapshots' \subseteq Replicas
  BY DEF Send, crdtVars, Replicas
<1>3. Replicas' \subseteq Replicas
  BY <1>1, <1>2 DEF Replicas
<1> QED
  BY <1>1, <1>3 DEF HistoryInv

\* The empty replica and the merge of each type.
LEMMA NewOf ==
    /\ kind = "counter" =>
          New = [positive |-> [n \in Node |-> 0], negative |-> [n \in Node |-> 0]]
    /\ kind = "twopset" => New = [added |-> {}, removed |-> {}]
    /\ kind = "lww" => New = EmptyRegister
    /\ kind = "mv" => New = {}
    /\ kind = "orset" =>
          New = [elements |-> [e \in Elem |-> {}], counters |-> [n \in Node |-> 0]]
    /\ kind = "map" => New = [k \in Elem |-> EmptyRegister]
    /\ kind = "clock" =>
          New = [vc |-> <<>>, hlc |-> [physical |-> 1, logical |-> 0], lamport |-> 0]
BY DEF New

LEMMA MergedOf ==
    ASSUME NEW r, NEW s
    PROVE  /\ kind = "counter" => Merged(r, s) = MergeCounter(r, s)
           /\ kind = "twopset" =>
                Merged(r, s) = [added |-> r.added \cup s.added, removed |-> r.removed \cup s.removed]
           /\ kind = "lww" => Merged(r, s) = MergeRegister(r, s)
           /\ kind = "orset" => Merged(r, s) = MergeOrSet(r, s)
           /\ kind = "map" => Merged(r, s) = [k \in Elem |-> MergeRegister(r[k], s[k])]
BY DEF Merged

\* At first nobody has seen anything.
LEMMA InitReplicas ==
    ASSUME CrdtInit
    PROVE  log = <<>> /\ DOMAIN log = {} /\ \A x \in Replicas : x.seen = {} /\ x.rep = New
<1>1. /\ log = <<>> /\ snapshots = {}
      /\ rep = [n \in Node |-> New] /\ seen = [n \in Node |-> {}]
  BY DEF CrdtInit
<1>2. \A n \in Node : rep[n] = New /\ seen[n] = {}
  BY <1>1
<1> QED
  BY <1>1, <1>2 DEF Replicas

\* The history of every type.
LEMMA HistoryInit == CrdtInit => HistoryInv
<1> SUFFICES ASSUME CrdtInit PROVE HistoryInv
  OBVIOUS
<1>1. log = <<>> /\ DOMAIN log = {} /\ snapshots = {}
  BY DEF CrdtInit
<1>2. rep = [n \in Node |-> rep[n]] /\ seen = [n \in Node |-> seen[n]] /\ \A n \in Node : seen[n] = {}
  BY DEF CrdtInit
<1>3. \A x \in Replicas : x.seen = {}
  BY <1>1, <1>2 DEF Replicas
<1>4. kind \in Kinds /\ log \in Seq({log[i] : i \in DOMAIN log})
  BY <1>1 DEF CrdtInit
<1> QED
  BY <1>1, <1>2, <1>3, <1>4 DEF HistoryInv, PastClosed

-----------------------------------------------------------------------------
(* Counters.                                                               *)

LEMMA CounterInit == CrdtInit => CounterInv
<1> SUFFICES ASSUME CrdtInit, kind = "counter", NEW x \in Replicas
             PROVE  x.rep = [positive |-> Counts(log, x.seen, "positive"),
                             negative |-> Counts(log, x.seen, "negative")]
  BY DEF CounterInv
<1>1. x.seen = {} /\ x.rep = [positive |-> [n \in Node |-> 0], negative |-> [n \in Node |-> 0]]
  BY InitReplicas, NewOf
<1>2. \A op : Counts(log, {}, op) = [n \in Node |-> 0]
  BY FS_EmptySet DEF Counts, At, OfOp
<1> QED
  BY <1>1, <1>2

LEMMA CounterStep == HistoryInv /\ CounterInv /\ [CrdtNext]_crdtVars => CounterInv'
<1> SUFFICES ASSUME HistoryInv, CounterInv, [CrdtNext]_crdtVars PROVE CounterInv'
  OBVIOUS
<1> DEFINE Value(h, S) == [positive |-> Counts(h, S, "positive"), negative |-> Counts(h, S, "negative")]
<1>1. CASE UNCHANGED crdtVars \/ \E n \in Node : Send(n)
  BY <1>1, SendHistory DEF CounterInv
<1>2. ASSUME NEW n \in Node, Merge(n), kind = "counter" PROVE CounterInv'
  <2>1. log' = log /\ kind' = kind
    BY <1>2, MergeHistory
  <2>2. PICK a \in Replicas, b \in Replicas :
          \A x \in Replicas' :
             x \in Replicas \/ (x.rep = Merged(a.rep, b.rep) /\ x.seen = a.seen \cup b.seen)
    BY <1>2, MergeHistory
  <2>3. \A x \in Replicas : x.rep = Value(log, x.seen) /\ x.seen \in SUBSET DOMAIN log /\ PastClosed(log, x.seen)
    BY <1>2 DEF CounterInv, HistoryInv
  <2>7. \A op : MaxEach(Counts(log, a.seen, op), Counts(log, b.seen, op)) = Counts(log, a.seen \cup b.seen, op)
    <3>1. /\ a.seen \in SUBSET DOMAIN log /\ PastClosed(log, a.seen)
          /\ b.seen \in SUBSET DOMAIN log /\ PastClosed(log, b.seen)
      BY <2>3
    <3> QED
      BY <3>1, LogIsWellFormed, JoinedCounts
  <2>4. MergeCounter(Value(log, a.seen), Value(log, b.seen)) = Value(log, a.seen \cup b.seen)
    BY <2>7 DEF MergeCounter
  <2>5. Merged(a.rep, b.rep) = Value(log, a.seen \cup b.seen)
    BY <1>2, <2>3, <2>4, MergedOf
  <2> HIDE DEF Value
  <2>6. \A x \in Replicas' : x.rep = Value(log, x.seen)
    BY <2>2, <2>3, <2>5
  <2> QED
    BY <2>1, <2>6 DEF CounterInv, Value
<1>3. ASSUME NEW n \in Node, Count(n), kind = "counter" PROVE CounterInv'
  <2>1. PICK f \in {"positive", "negative"} :
          Update(n, [rep[n] EXCEPT ![f][n] = @ + 1], LogEntry(n, f, Unset))
    BY <1>3 DEF Count
  <2> DEFINE r == [rep[n] EXCEPT ![f][n] = @ + 1]
             S == seen[n]
             new == Len(log) + 1
  <2>2. S \in SUBSET DOMAIN log /\ PastClosed(log, S) /\ [rep |-> rep[n], seen |-> S] \in Replicas
    BY <2>1, UpdateMakes
  <2>10. Made(n, f, Unset, S, r)
    BY <2>1, UpdateMakes
  <2>3. /\ \A x \in Replicas' : x \in Replicas \/ (x.rep = r /\ x.seen = S \cup {new})
        /\ GrowLog /\ new \notin DOMAIN log /\ kind' = kind
        /\ log'[new] = [at |-> n, op |-> f, arg |-> Unset, past |-> S]
    BY <2>10 DEF Made
  <2>4. \A x \in Replicas : x.rep = Value(log', x.seen)
    <3> SUFFICES ASSUME NEW x \in Replicas PROVE x.rep = Value(log', x.seen)
      OBVIOUS
    <3>1. x.seen \in SUBSET DOMAIN log /\ x.rep = Value(log, x.seen)
      BY <1>3 DEF CounterInv, HistoryInv
    <3>2. \A op : Counts(log', x.seen, op) = Counts(log, x.seen, op)
      BY <2>3, <3>1, OldEntries
    <3> QED
      BY <3>1, <3>2
  <2>5. rep[n] = Value(log', S)
    BY <2>2, <2>4
  <2>6. IsFiniteSet(S) /\ new \notin S
    BY <2>2, <2>3, LogIsWellFormed, KnownFinite
  <2>7. \A op : \A m \in Node : Counts(log', S \cup {new}, op)[m] = IF op = f /\ m = n
                                           THEN Counts(log', S, op)[m] + 1 ELSE Counts(log', S, op)[m]
    BY <2>3, <2>6, CountOneMore DEF Counts
  <2>8. \A op : Counts(log', S \cup {new}, op) = IF op = f
                  THEN [Counts(log', S, op) EXCEPT ![n] = @ + 1] ELSE Counts(log', S, op)
    BY <2>7 DEF Counts
  <2>9. r = Value(log', S \cup {new})
    <3> DEFINE P == Counts(log', S, "positive")
               M == Counts(log', S, "negative")
    <3>0. rep[n] = [positive |-> P, negative |-> M]
      BY <2>5
    <3>1. CASE f = "positive"
      <4>1. /\ Counts(log', S \cup {new}, "positive") = [P EXCEPT ![n] = @ + 1]
            /\ Counts(log', S \cup {new}, "negative") = M
        BY <2>8, <3>1
      <4>2. r = [rep[n] EXCEPT !.positive[n] = @ + 1]
        BY <3>1
      <4> HIDE DEF P, M, r
      <4>3. rep[n].positive = P /\ \A Q : [rep[n] EXCEPT !.positive = Q] = [positive |-> Q, negative |-> M]
        BY <3>0
      <4> QED
        BY <4>1, <4>2, <4>3, Zenon
    <3>2. CASE f = "negative"
      <4>1. /\ Counts(log', S \cup {new}, "negative") = [M EXCEPT ![n] = @ + 1]
            /\ Counts(log', S \cup {new}, "positive") = P
        BY <2>8, <3>2
      <4>2. r = [rep[n] EXCEPT !.negative[n] = @ + 1]
        BY <3>2
      <4> HIDE DEF P, M, r
      <4>3. rep[n].negative = M /\ \A Q : [rep[n] EXCEPT !.negative = Q] = [positive |-> P, negative |-> Q]
        BY <3>0
      <4> QED
        BY <4>1, <4>2, <4>3, Zenon
    <3> QED
      BY <3>1, <3>2
  <2> HIDE DEF Value
  <2>11. \A x \in Replicas' : x.rep = Value(log', x.seen)
    BY <2>3, <2>4, <2>9
  <2> QED
    BY <2>3, <2>11 DEF CounterInv, Value
<1>4. kind' = kind
  BY KindKept
<1> QED
  BY <1>1, <1>2, <1>3, <1>4, StepOfType DEF CounterInv

-----------------------------------------------------------------------------
(* Two-phase sets.                                                         *)

TwoPSetOf(h, S) == [added |-> Args(h, OfOp(h, S, "add")), removed |-> Args(h, Effective(h, S))]

LEMMA TwoPSetInit == CrdtInit => TwoPSetInv
<1> SUFFICES ASSUME CrdtInit, kind = "twopset", NEW x \in Replicas
             PROVE  x.rep = TwoPSetOf(log, x.seen)
  BY DEF TwoPSetInv, TwoPSetOf
<1>1. x.seen = {} /\ x.rep = [added |-> {}, removed |-> {}]
  BY InitReplicas, NewOf
<1>2. Args(log, OfOp(log, {}, "add")) = {} /\ Args(log, Effective(log, {})) = {}
  BY DEF Args, OfOp, Effective
<1> QED
  BY <1>1, <1>2 DEF TwoPSetOf

LEMMA TwoPSetStep == HistoryInv /\ TwoPSetInv /\ [CrdtNext]_crdtVars => TwoPSetInv'
<1> SUFFICES ASSUME HistoryInv, TwoPSetInv, [CrdtNext]_crdtVars, kind = "twopset"
             PROVE  TwoPSetInv'
  BY KindKept DEF TwoPSetInv
<1>0. \A x \in Replicas : /\ x.rep = TwoPSetOf(log, x.seen)
                          /\ x.seen \in SUBSET DOMAIN log /\ PastClosed(log, x.seen)
  BY DEF TwoPSetInv, TwoPSetOf, HistoryInv
<1> SUFFICES \A x \in Replicas' : x.rep = TwoPSetOf(log', x.seen)
  BY DEF TwoPSetInv, TwoPSetOf
<1>1. CASE UNCHANGED crdtVars \/ \E n \in Node : Send(n)
  BY <1>0, <1>1, SendHistory
<1>2. ASSUME NEW n \in Node, Merge(n) PROVE \A x \in Replicas' : x.rep = TwoPSetOf(log', x.seen)
  <2>1. log' = log
    BY <1>2, MergeHistory
  <2>2. PICK a \in Replicas, b \in Replicas :
          \A x \in Replicas' :
             x \in Replicas \/ (x.rep = Merged(a.rep, b.rep) /\ x.seen = a.seen \cup b.seen)
    BY <1>2, MergeHistory
  <2>3. /\ Args(log, OfOp(log, a.seen \cup b.seen, "add"))
             = Args(log, OfOp(log, a.seen, "add")) \cup Args(log, OfOp(log, b.seen, "add"))
        /\ Args(log, Effective(log, a.seen \cup b.seen))
             = Args(log, Effective(log, a.seen)) \cup Args(log, Effective(log, b.seen))
    BY DEF Args, OfOp, Effective
  <2>4. Merged(a.rep, b.rep) = [added |-> a.rep.added \cup b.rep.added,
                                removed |-> a.rep.removed \cup b.rep.removed]
    BY MergedOf
  <2>5. a.rep = TwoPSetOf(log, a.seen) /\ b.rep = TwoPSetOf(log, b.seen)
    BY <1>0
  <2>7. /\ a.rep.added = Args(log, OfOp(log, a.seen, "add")) /\ a.rep.removed = Args(log, Effective(log, a.seen))
        /\ b.rep.added = Args(log, OfOp(log, b.seen, "add")) /\ b.rep.removed = Args(log, Effective(log, b.seen))
    BY <2>5 DEF TwoPSetOf
  <2>6. Merged(a.rep, b.rep) = TwoPSetOf(log, a.seen \cup b.seen)
    BY <2>3, <2>4, <2>7, Zenon DEF TwoPSetOf
  <2> QED
    BY <1>0, <2>1, <2>2, <2>6
<1>3. ASSUME NEW n \in Node, NEW e, NEW op \in {"add", "remove"}, NEW r,
             Update(n, r, LogEntry(n, op, e)),
             op = "add" => r = IF e \in rep[n].removed THEN rep[n] ELSE [rep[n] EXCEPT !.added = @ \cup {e}],
             op = "remove" => r = IF e \in rep[n].added THEN [rep[n] EXCEPT !.removed = @ \cup {e}] ELSE rep[n]
      PROVE  \A x \in Replicas' : x.rep = TwoPSetOf(log', x.seen)
  <2> DEFINE S == seen[n]
             new == Len(log) + 1
  <2>8. /\ Made(n, op, e, S, r)
        /\ S \in SUBSET DOMAIN log /\ PastClosed(log, S) /\ [rep |-> rep[n], seen |-> S] \in Replicas
    BY <1>3, UpdateMakes
  <2>1. /\ GrowLog /\ new \notin DOMAIN log
        /\ \A x \in Replicas' : x \in Replicas \/ (x.rep = r /\ x.seen = S \cup {new})
        /\ log'[new] = [at |-> n, op |-> op, arg |-> e, past |-> S]
        /\ S \in SUBSET DOMAIN log /\ PastClosed(log, S) /\ [rep |-> rep[n], seen |-> S] \in Replicas
    BY <2>8 DEF Made
  <2>2. ASSUME NEW T \in SUBSET DOMAIN log, PastClosed(log, T)
        PROVE  TwoPSetOf(log', T) = TwoPSetOf(log, T) /\ Effective(log', T) = Effective(log, T)
    <3>1. OfOp(log', T, "add") = OfOp(log, T, "add") /\ OfOp(log', T, "remove") = OfOp(log, T, "remove")
          /\ (\A i \in T : log'[i] = log[i]) /\ \A U \in SUBSET T : Args(log', U) = Args(log, U)
      BY <2>1, OldEntries
    <3>2. \A i \in T : log'[i] = log[i] /\ \A j \in log[i].past : log'[j] = log[j]
      BY <2>2, <3>1 DEF PastClosed
    <3>5. \A i \in OfOp(log, T, "remove") :
             (\E j \in log'[i].past : log'[j].op = "add" /\ log'[j].arg = log'[i].arg)
               <=> \E j \in log[i].past : log[j].op = "add" /\ log[j].arg = log[i].arg
      <4> SUFFICES ASSUME NEW i \in T
                   PROVE  (\E j \in log'[i].past : log'[j].op = "add" /\ log'[j].arg = log'[i].arg)
                            <=> \E j \in log[i].past : log[j].op = "add" /\ log[j].arg = log[i].arg
        BY DEF OfOp
      <4> QED
        BY <3>2
    <3>3. Effective(log', T) = Effective(log, T)
      BY <3>1, <3>5 DEF Effective
    <3>4. OfOp(log, T, "add") \in SUBSET T /\ Effective(log, T) \in SUBSET T
      BY DEF OfOp, Effective
    <3> QED
      BY <3>1, <3>3, <3>4 DEF TwoPSetOf
  <2>3. \A x \in Replicas : x.rep = TwoPSetOf(log', x.seen)
    BY <1>0, <2>2
  <2> DEFINE A == Args(log', OfOp(log', S, "add"))
             R == Args(log', Effective(log', S))
  <2>4. rep[n] = [added |-> A, removed |-> R]
    BY <2>1, <2>3 DEF TwoPSetOf
  <2>5. R \subseteq A
    <3>1. \A i \in S : log'[i] = log[i] /\ log[i].past \subseteq S
      BY <2>1, OldEntries DEF PastClosed
    <3> QED
      BY <3>1 DEF Args, Effective, OfOp
  <2>6. e \in A <=> \E j \in S : log'[j].op = "add" /\ log'[j].arg = e
    BY DEF Args, OfOp
  <2>7. r = TwoPSetOf(log', S \cup {new})
    <3>1. CASE op = "add"
      <4>1. Args(log', OfOp(log', S \cup {new}, "add")) = A \cup {e}
        BY <2>1, <3>1 DEF Args, OfOp
      <4>2. Args(log', Effective(log', S \cup {new})) = R
        BY <2>1, <3>1 DEF Args, Effective, OfOp
      <4> HIDE DEF A, R
      <4>3. r = [added |-> A \cup {e}, removed |-> R]
        BY <1>3, <2>4, <2>5, <3>1
      <4> QED
        BY <4>1, <4>2, <4>3 DEF TwoPSetOf
    <3>2. CASE op = "remove"
      <4>1. Args(log', OfOp(log', S \cup {new}, "add")) = A
        BY <2>1, <3>2 DEF Args, OfOp
      <4>6. \A i \in S : i \in OfOp(log', S \cup {new}, "remove") <=> i \in OfOp(log', S, "remove")
        BY DEF OfOp
      <4>7. new \in OfOp(log', S \cup {new}, "remove")
        BY <2>1, <3>2 DEF OfOp
      <4>8. new \in Effective(log', S \cup {new}) <=> e \in A
        BY <2>1, <2>6, <4>7 DEF Effective
      <4>9. \A i \in S : i \in Effective(log', S \cup {new}) <=> i \in Effective(log', S)
        BY <4>6 DEF Effective
      <4>10. Effective(log', S \cup {new}) \subseteq S \cup {new} /\ Effective(log', S) \subseteq S
        BY DEF Effective, OfOp
      <4>2. Effective(log', S \cup {new}) = IF e \in A THEN Effective(log', S) \cup {new}
                                                       ELSE Effective(log', S)
        <5> HIDE DEF A
        <5>1. e \in A => Effective(log', S \cup {new}) = Effective(log', S) \cup {new}
          BY <4>8, <4>9, <4>10
        <5>2. e \notin A => Effective(log', S \cup {new}) = Effective(log', S)
          BY <4>8, <4>9, <4>10
        <5> QED
          BY <5>1, <5>2
      <4>11. Args(log', Effective(log', S) \cup {new}) = R \cup {e}
        BY <2>1 DEF Args
      <4>3. Args(log', Effective(log', S \cup {new})) = IF e \in A THEN R \cup {e} ELSE R
        BY <4>2, <4>11, Zenon
      <4> HIDE DEF A, R
      <4>4. r = [added |-> A, removed |-> IF e \in A THEN R \cup {e} ELSE R]
        BY <1>3, <2>4, <3>2
      <4> QED
        BY <4>1, <4>3, <4>4 DEF TwoPSetOf
    <3> QED
      BY <3>1, <3>2
  <2> QED
    BY <2>1, <2>3, <2>7
<1>4. ASSUME NEW n \in Node, NEW e \in Elem, TwoPAdd(n, e) \/ TwoPRemove(n, e)
      PROVE  \A x \in Replicas' : x.rep = TwoPSetOf(log', x.seen)
  BY <1>3, <1>4 DEF TwoPAdd, TwoPRemove
<1> QED
  BY <1>1, <1>2, <1>4, StepOfType

-----------------------------------------------------------------------------
(* Registers.                                                              *)

Writes == [value : Nat, timestamp : Nat \ {0}, node : Nat]

\* What a register holds has a stamp; only the empty one has none.
LEMMA LatestStamp ==
    ASSUME NEW W \in SUBSET Writes, NEW r, Latest(r, W)
    PROVE  /\ r.timestamp \in Nat /\ r.node \in Nat
           /\ r \in W => r.timestamp > 0 /\ r.value \in Nat
           /\ r \notin W => r = EmptyRegister /\ r.timestamp = 0 /\ r.node = 0
           /\ \A w \in W : /\ w.timestamp \in Nat /\ w.timestamp > 0 /\ w.node \in Nat /\ w.value \in Nat
                           /\ w.timestamp < r.timestamp \/ (w.timestamp = r.timestamp /\ w.node <= r.node)
                           /\ w.timestamp = r.timestamp /\ w.node = r.node => r.value <= w.value
<1>1. \A w \in W : w.timestamp \in Nat /\ w.timestamp > 0 /\ w.node \in Nat /\ w.value \in Nat
  BY DEF Writes
<1>2. EmptyRegister.timestamp = 0 /\ EmptyRegister.node = 0
  BY DEF EmptyRegister
<1>3. /\ r \in W \/ r = EmptyRegister
      /\ \A w \in W : ~ Newer(w, r)
      /\ \A w \in W : w.timestamp = r.timestamp /\ w.node = r.node => r.value <= w.value
  BY DEF Latest
<1>4. r.timestamp \in Nat /\ r.node \in Nat
  BY <1>1, <1>2, <1>3
<1>5. \A w \in W : w.timestamp < r.timestamp \/ (w.timestamp = r.timestamp /\ w.node <= r.node)
  BY <1>1, <1>3, <1>4 DEF Newer
<1> QED
  BY <1>1, <1>2, <1>3, <1>4, <1>5

\* Two registers merged have the latest of what they were given, when equal
\* stamps are in order.
LEMMA LatestJoin ==
    ASSUME NEW V \in SUBSET Writes, NEW W \in SUBSET Writes, NEW r, NEW s, Latest(r, V), Latest(s, W),
           r \in V /\ s \in W /\ r.timestamp = s.timestamp /\ r.node = s.node => r.value <= s.value
    PROVE  Latest(MergeRegister(r, s), V \cup W)
<1>1. /\ r.timestamp \in Nat /\ r.node \in Nat
      /\ r \in V => r.timestamp > 0 /\ r.value \in Nat
      /\ r \notin V => r = EmptyRegister /\ r.timestamp = 0 /\ r.node = 0
      /\ \A w \in V : /\ w.timestamp \in Nat /\ w.timestamp > 0 /\ w.node \in Nat /\ w.value \in Nat
                      /\ w.timestamp < r.timestamp \/ (w.timestamp = r.timestamp /\ w.node <= r.node)
                      /\ w.timestamp = r.timestamp /\ w.node = r.node => r.value <= w.value
  BY LatestStamp
<1>2. /\ s.timestamp \in Nat /\ s.node \in Nat
      /\ s \in W => s.timestamp > 0 /\ s.value \in Nat
      /\ s \notin W => s = EmptyRegister /\ s.timestamp = 0 /\ s.node = 0
      /\ \A w \in W : /\ w.timestamp \in Nat /\ w.timestamp > 0 /\ w.node \in Nat /\ w.value \in Nat
                      /\ w.timestamp < s.timestamp \/ (w.timestamp = s.timestamp /\ w.node <= s.node)
                      /\ w.timestamp = s.timestamp /\ w.node = s.node => s.value <= w.value
  BY LatestStamp
<1>3. EmptyRegister.timestamp = 0 /\ EmptyRegister.node = 0
  BY DEF EmptyRegister
<1>4. CASE Newer(s, r)
  <2>1. s.timestamp > r.timestamp \/ (s.timestamp = r.timestamp /\ s.node > r.node)
    BY <1>4 DEF Newer
  <2>2. \A w \in V : /\ ~ Newer(w, s)
                     /\ ~ (w.timestamp = s.timestamp /\ w.node = s.node)
    BY <1>1, <1>2, <2>1 DEF Newer
  <2>3. \A w \in W \cup {EmptyRegister} : ~ Newer(w, s)
    BY DEF Latest
  <2>4. MergeRegister(r, s) = s /\ s \in W \cup {EmptyRegister}
    BY <1>4 DEF MergeRegister, Latest
  <2> QED
    BY <1>2, <2>2, <2>3, <2>4 DEF Latest
<1>5. CASE ~ Newer(s, r)
  <2>1. ~ (s.timestamp > r.timestamp \/ (s.timestamp = r.timestamp /\ s.node > r.node))
    BY <1>5 DEF Newer
  <2>2. \A w \in W : ~ Newer(w, r)
    BY <1>1, <1>2, <2>1 DEF Newer
  <2>3. \A w \in V \cup {EmptyRegister} : ~ Newer(w, r)
    BY DEF Latest
  <2>4. MergeRegister(r, s) = r /\ r \in V \cup {EmptyRegister}
    BY <1>5 DEF MergeRegister, Latest
  <2>5. ASSUME NEW w \in W, w.timestamp = r.timestamp, w.node = r.node
        PROVE  r.value <= w.value
    <3>1. s.timestamp = r.timestamp /\ s.node = r.node /\ r.timestamp > 0
      BY <1>1, <1>2, <2>1, <2>5
    <3>2. s \in W /\ r \in V /\ s.value <= w.value /\ r.value <= s.value
      BY <1>1, <1>2, <2>5, <3>1
    <3> QED
      BY <1>1, <1>2, <3>2
  <2> QED
    BY <1>1, <2>2, <2>3, <2>4, <2>5 DEF Latest
<1> QED
  BY <1>4, <1>5

\* A write that is no earlier than those a register has.
LEMMA LatestNext ==
    ASSUME NEW V \in SUBSET Writes, NEW r, Latest(r, V), NEW w \in Writes, \A v \in V : v.value <= w.value
    PROVE  Latest(MergeRegister(r, w), V \cup {w})
<1>1. w.timestamp \in Nat /\ w.timestamp > 0 /\ w.node \in Nat /\ w.value \in Nat
  BY DEF Writes
<1>2. Latest(w, {w})
  BY <1>1 DEF Latest, Newer, EmptyRegister
<1> QED
  BY <1>2, LatestJoin

\* Those of the writes f, made with the updates I, that are in S.
Given(f, I, S) == {f[i] : i \in S \cap I}

\* A node's writes are known in the order in which they were made: what two
\* replicas hold is the latest of the writes I they have seen, merged or not.
LEMMA LatestKnown ==
    ASSUME HistoryInv, NEW I \in SUBSET DOMAIN log, NEW f, \A i \in I : f[i] \in WriteOf(log, i),
           NEW A \in SUBSET DOMAIN log, NEW B \in SUBSET DOMAIN log, PastClosed(log, A), PastClosed(log, B),
           NEW r, NEW s, Latest(r, Given(f, I, A)), Latest(s, Given(f, I, B))
    PROVE  /\ Latest(MergeRegister(r, s), Given(f, I, A \cup B))
           /\ A = B => r = s
<1> DEFINE V == {f[i] : i \in A \cap I}
           W == {f[i] : i \in B \cap I}
<1>0. V = Given(f, I, A) /\ W = Given(f, I, B) /\ Latest(r, V) /\ Latest(s, W)
  BY DEF Given
<1>1. DOMAIN log = 1..Len(log) /\ Len(log) \in Nat
  BY LogIsSeq
<1>2. \A i \in I : f[i].value = i /\ f[i].node = log[i].at /\ f[i] \in Writes
  <2> SUFFICES ASSUME NEW i \in I PROVE f[i].value = i /\ f[i].node = log[i].at /\ f[i] \in Writes
    OBVIOUS
  <2>1. log[i].at \in Nat /\ i \in Nat
    BY <1>1, CrdtAssumption DEF HistoryInv, Node
  <2>2. f[i] \in [value : {i}, timestamp : Nat \ {0}, node : {log[i].at}]
    BY DEF WriteOf
  <2> QED
    BY <2>1, <2>2 DEF Writes
<1>3. V \in SUBSET Writes /\ W \in SUBSET Writes
  BY <1>2
<1>4. ASSUME NEW i \in A \cap I, NEW j \in B \cap I, f[i].node = f[j].node, j < i PROVE f[j] \in V
  <2>1. log[i].at = log[j].at /\ i \in DOMAIN log /\ j \in DOMAIN log /\ i \in A
    BY <1>2, <1>4
  <2>2. j \in 1..(i - 1)
    BY <1>1, <1>4, <2>1
  <2>3. j \in log[i].past /\ log[i].past \subseteq A
    BY <2>1, <2>2 DEF HistoryInv, PastClosed
  <2> QED
    BY <2>3
<1>5. ASSUME r \in V, s \in W, r.timestamp = s.timestamp, r.node = s.node PROVE r.value <= s.value
  <2>1. PICK i \in A \cap I : r = f[i]
    BY <1>5
  <2>2. PICK j \in B \cap I : s = f[j]
    BY <1>5
  <2>3. r.value = i /\ s.value = j /\ i \in Nat /\ j \in Nat
    BY <1>1, <1>2, <2>1, <2>2
  <2>4. CASE j < i
    <3>1. s \in V
      BY <1>4, <1>5, <2>1, <2>2, <2>4
    <3> QED
      BY <1>0, <1>5, <3>1 DEF Latest
  <2> QED
    BY <2>3, <2>4
<1>6. V \cup W = Given(f, I, A \cup B)
  BY DEF Given
<1>7. Latest(MergeRegister(r, s), V \cup W)
  BY <1>0, <1>3, <1>5, LatestJoin
<1>8. ASSUME A = B PROVE r = s
  <2>1. V = W /\ Latest(r, V) /\ Latest(s, V)
    BY <1>0, <1>8
  <2>2. /\ r.timestamp \in Nat /\ r.node \in Nat /\ s.timestamp \in Nat /\ s.node \in Nat
        /\ r \in V => r.timestamp > 0 /\ r.value \in Nat
        /\ s \in V => s.timestamp > 0 /\ s.value \in Nat
        /\ r \notin V => r = EmptyRegister /\ r.timestamp = 0
        /\ s \notin V => s = EmptyRegister /\ s.timestamp = 0
    BY <1>3, <2>1, LatestStamp
  <2>3. /\ r \in V => r.timestamp < s.timestamp \/ (r.timestamp = s.timestamp /\ r.node <= s.node)
        /\ s \in V => s.timestamp < r.timestamp \/ (s.timestamp = r.timestamp /\ s.node <= r.node)
        /\ s \in V /\ s.timestamp = r.timestamp /\ s.node = r.node => r.value <= s.value
        /\ r \in V /\ s.timestamp = r.timestamp /\ s.node = r.node => s.value <= r.value
    BY <1>3, <2>1, LatestStamp
  <2>4. CASE r \in V /\ s \in V
    <3>1. r.value = s.value
      BY <2>2, <2>3, <2>4
    <3>2. PICK i \in I, j \in I : r = f[i] /\ s = f[j]
      BY <2>4
    <3> QED
      BY <1>2, <3>1, <3>2
  <2> QED
    BY <2>2, <2>3, <2>4
<1> QED
  BY <1>6, <1>7, <1>8

\* The latest of no writes, and of those of a register.
LEMMA LatestNone == Latest(EmptyRegister, {})
BY DEF Latest, Newer, EmptyRegister

LEMMA WrittenBy ==
    ASSUME HistoryInv, NEW n \in Node, NEW t \in Time
    PROVE  /\ Written(n, t) \in Writes
           /\ Written(n, t).value = Len(log) + 1
           /\ \A h : h[Len(log) + 1].at = n => Written(n, t) \in WriteOf(h, Len(log) + 1)
BY LogIsSeq, CrdtAssumption DEF Written, Writes, WriteOf, Node, Time

LEMMA WritesOf ==
    ASSUME HistoryInv, NEW i \in DOMAIN log, NEW w \in WriteOf(log, i)
    PROVE  w \in Writes /\ w.value = i
<1>1. DOMAIN log = 1..Len(log) /\ Len(log) \in Nat
  BY LogIsSeq
<1>2. log[i].at \in Nat /\ i \in Nat
  BY <1>1, CrdtAssumption DEF HistoryInv, Node
<1> QED
  BY <1>2 DEF WriteOf, Writes

LEMMA LwwInit == CrdtInit => LwwInv
<1> SUFFICES ASSUME CrdtInit, kind = "lww" PROVE LwwInv
  BY DEF LwwInv
<1>1. DOMAIN log = {} /\ \A x \in Replicas : x.seen = {} /\ x.rep = EmptyRegister
  BY InitReplicas, NewOf
<1>2. Args(log, {}) = {}
  BY DEF Args
<1> QED
  BY <1>1, <1>2, LatestNone DEF LwwInv

LEMMA LwwStep == HistoryInv /\ LwwInv /\ [CrdtNext]_crdtVars => LwwInv'
<1> SUFFICES ASSUME HistoryInv, LwwInv, [CrdtNext]_crdtVars, kind = "lww"
             PROVE  LwwInv'
  BY KindKept DEF LwwInv
<1>1. \A i \in DOMAIN log : log[i].arg \in WriteOf(log, i)
  BY DEF LwwInv
<1>2. \A x \in Replicas : /\ Latest(x.rep, Args(log, x.seen))
                          /\ x.seen \in SUBSET DOMAIN log /\ PastClosed(log, x.seen)
  BY DEF LwwInv, HistoryInv
<1>3. CASE UNCHANGED crdtVars \/ \E n \in Node : Send(n)
  <2>1. log' = log /\ Replicas' \subseteq Replicas
    BY <1>3, SendHistory
  <2> QED
    BY <1>1, <1>2, <2>1 DEF LwwInv
<1>4. ASSUME NEW n \in Node, Merge(n) PROVE LwwInv'
  <2>1. log' = log
    BY <1>4, MergeHistory
  <2>2. PICK a \in Replicas, b \in Replicas :
          \A x \in Replicas' :
             x \in Replicas \/ (x.rep = Merged(a.rep, b.rep) /\ x.seen = a.seen \cup b.seen)
    BY <1>4, MergeHistory
  <2>3. Merged(a.rep, b.rep) = MergeRegister(a.rep, b.rep)
    BY MergedOf
  <2> DEFINE I == DOMAIN log
             f == [i \in I |-> log[i].arg]
             A == a.seen
             B == b.seen
  <2>4. \A S \in SUBSET I : Args(log, S) = Given(f, I, S)
    BY DEF Args, Given
  <2>5. /\ A \in SUBSET I /\ B \in SUBSET I /\ PastClosed(log, A) /\ PastClosed(log, B)
        /\ Latest(a.rep, Given(f, I, A)) /\ Latest(b.rep, Given(f, I, B))
    BY <1>2, <2>4
  <2>6. I \in SUBSET DOMAIN log /\ \A i \in I : f[i] \in WriteOf(log, i)
    BY <1>1
  <2> HIDE DEF I, f, A, B
  <2>7. Latest(MergeRegister(a.rep, b.rep), Given(f, I, A \cup B))
    BY <2>5, <2>6, LatestKnown
  <2>8. Latest(MergeRegister(a.rep, b.rep), Args(log, A \cup B))
    BY <2>4, <2>5, <2>7
  <2>9. \A x \in Replicas' : Latest(x.rep, Args(log, x.seen))
    BY <1>2, <2>2, <2>3, <2>8 DEF A, B
  <2> QED
    BY <1>1, <2>1, <2>9 DEF LwwInv
<1>5. ASSUME NEW n \in Node, NEW t \in Time, LwwSet(n, t) PROVE LwwInv'
  <2> DEFINE S == seen[n]
             new == Len(log) + 1
             w == Written(n, t)
             r == MergeRegister(rep[n], w)
  <2>1. /\ Made(n, "set", w, S, r)
        /\ S \in SUBSET DOMAIN log /\ PastClosed(log, S) /\ [rep |-> rep[n], seen |-> S] \in Replicas
    BY <1>5, UpdateMakes DEF LwwSet
  <2>2. /\ GrowLog /\ new \notin DOMAIN log /\ DOMAIN log' = DOMAIN log \cup {new}
        /\ \A x \in Replicas' : x \in Replicas \/ (x.rep = r /\ x.seen = S \cup {new})
        /\ log'[new] = [at |-> n, op |-> "set", arg |-> w, past |-> S]
    BY <2>1 DEF Made
  <2>3. w \in Writes /\ w.value = new /\ w \in WriteOf(log', new)
    BY <2>2, WrittenBy
  <2> HIDE DEF w
  <2>4. \A i \in DOMAIN log' : log'[i].arg \in WriteOf(log', i)
    BY <1>1, <2>2, <2>3 DEF GrowLog, WriteOf
  <2>5. \A T \in SUBSET DOMAIN log : Args(log', T) = Args(log, T)
    BY <2>2, OldEntries
  <2>6. Args(log, S) \in SUBSET Writes /\ \A v \in Args(log, S) : v.value <= w.value
    <3>1. \A i \in S : log[i].arg \in Writes /\ log[i].arg.value <= new
      BY <1>1, <2>1, WritesOf, LogIsSeq
    <3> QED
      BY <2>3, <3>1 DEF Args
  <2>7. Latest(rep[n], Args(log, S))
    BY <1>2, <2>1
  <2>8. Latest(r, Args(log, S) \cup {w})
    BY <2>3, <2>6, <2>7, LatestNext
  <2>9. Args(log', S \cup {new}) = Args(log', S) \cup {w}
    BY <2>2 DEF Args
  <2>10. Latest(r, Args(log', S \cup {new}))
    BY <2>1, <2>5, <2>8, <2>9
  <2>11. \A x \in Replicas' : Latest(x.rep, Args(log', x.seen))
    BY <1>2, <2>2, <2>5, <2>10
  <2> QED
    BY <2>4, <2>11 DEF LwwInv
<1> QED
  BY <1>3, <1>4, <1>5, StepOfType

-----------------------------------------------------------------------------
(* Maps.                                                                   *)

\* What a map's replica x shows of the writes it has seen.
MapShows(h, x) ==
    /\ x.rep = [k \in Elem |-> x.rep[k]]
    /\ \A k \in Elem : On(h, x.seen, "remove", k) = {} => Latest(x.rep[k], Entries(h, x.seen, k))

LEMMA MapInit == CrdtInit => MapInv
<1> SUFFICES ASSUME CrdtInit, kind = "map" PROVE MapInv
  BY DEF MapInv
<1>1. DOMAIN log = {} /\ \A x \in Replicas : x.seen = {} /\ x.rep = [k \in Elem |-> EmptyRegister]
  BY InitReplicas, NewOf
<1>2. \A k \in Elem : Entries(log, {}, k) = {}
  BY DEF Entries, On, OfOp
<1>3. \A x \in Replicas : MapShows(log, x)
  BY <1>1, <1>2, LatestNone DEF MapShows
<1>4. OfOp(log, DOMAIN log, "set") = {}
  BY <1>1 DEF OfOp
<1> QED
  BY <1>3, <1>4 DEF MapInv, MapShows

\* Merged maps show what both have seen.
LEMMA MapMerge ==
    ASSUME HistoryInv, \A i \in OfOp(log, DOMAIN log, "set") : log[i].arg.entry \in WriteOf(log, i),
           NEW a \in Replicas, NEW b \in Replicas, MapShows(log, a), MapShows(log, b), NEW k \in Elem,
           On(log, a.seen, "remove", k) = {}, On(log, b.seen, "remove", k) = {}
    PROVE  /\ Latest(MergeRegister(a.rep[k], b.rep[k]), Entries(log, a.seen \cup b.seen, k))
           /\ a.seen = b.seen => a.rep[k] = b.rep[k]
<1> DEFINE I == On(log, DOMAIN log, "set", k)
           f == [i \in I |-> log[i].arg.entry]
           A == a.seen
           B == b.seen
           r == a.rep[k]
           s == b.rep[k]
<1>1. /\ A \in SUBSET DOMAIN log /\ PastClosed(log, A) /\ B \in SUBSET DOMAIN log /\ PastClosed(log, B)
      /\ A \cup B \in SUBSET DOMAIN log
  BY DEF HistoryInv
<1>2. \A S \in SUBSET DOMAIN log : Entries(log, S, k) = Given(f, I, S)
  <2>1. \A S \in SUBSET DOMAIN log : On(log, S, "set", k) = S \cap I
    BY DEF On, OfOp
  <2>2. \A i \in I : f[i] = log[i].arg.entry
    OBVIOUS
  <2> HIDE DEF f, I
  <2> QED
    BY <2>1, <2>2 DEF Entries, Given
<1>3. I \in SUBSET DOMAIN log /\ \A i \in I : f[i] \in WriteOf(log, i)
  BY DEF On, OfOp
<1>4. Latest(r, Entries(log, A, k)) /\ Latest(s, Entries(log, B, k))
  BY DEF MapShows
<1> HIDE DEF I, f, A, B, r, s
<1>5. Latest(r, Given(f, I, A)) /\ Latest(s, Given(f, I, B))
  BY <1>1, <1>2, <1>4
<1>6. /\ Latest(MergeRegister(r, s), Given(f, I, A \cup B))
      /\ A = B => r = s
  BY <1>1, <1>3, <1>5, LatestKnown
<1>7. Latest(MergeRegister(r, s), Entries(log, A \cup B, k))
  BY <1>1, <1>2, <1>6
<1> QED
  BY <1>6, <1>7 DEF A, B, r, s

\* What the map of a known state shows is not changed by what the log gains.
LEMMA MapShowsOld ==
    ASSUME GrowLog, NEW x, x.seen \in SUBSET DOMAIN log
    PROVE  /\ \A k : On(log', x.seen, "remove", k) = On(log, x.seen, "remove", k)
           /\ \A k : Entries(log', x.seen, k) = Entries(log, x.seen, k)
           /\ MapShows(log', x) = MapShows(log, x)
<1>1. /\ \A op, k : On(log', x.seen, op, k) = On(log, x.seen, op, k)
      /\ \A i \in x.seen : log'[i] = log[i]
  BY OldEntries
<1>2. \A k : Entries(log', x.seen, k) = Entries(log, x.seen, k)
  <2>1. \A k : On(log, x.seen, "set", k) \subseteq x.seen
    BY DEF On, OfOp
  <2> QED
    BY <1>1, <2>1 DEF Entries
<1> QED
  BY <1>1, <1>2 DEF MapShows

LEMMA MapStep == HistoryInv /\ MapInv /\ [CrdtNext]_crdtVars => MapInv'
<1> SUFFICES ASSUME HistoryInv, MapInv, [CrdtNext]_crdtVars, kind = "map"
             PROVE  MapInv'
  BY KindKept DEF MapInv
<1>1. \A i \in OfOp(log, DOMAIN log, "set") : log[i].arg.entry \in WriteOf(log, i)
  BY DEF MapInv
<1>2. \A x \in Replicas : MapShows(log, x) /\ x.seen \in SUBSET DOMAIN log /\ PastClosed(log, x.seen)
  BY DEF MapInv, MapShows, HistoryInv
<1> SUFFICES /\ \A i \in OfOp(log', DOMAIN log', "set") : log'[i].arg.entry \in WriteOf(log', i)
             /\ \A x \in Replicas' : MapShows(log', x)
  BY DEF MapInv, MapShows
<1> DEFINE Kept == /\ \A i \in OfOp(log', DOMAIN log', "set") : log'[i].arg.entry \in WriteOf(log', i)
                   /\ \A x \in Replicas' : MapShows(log', x)
<1>3. CASE UNCHANGED crdtVars \/ \E n \in Node : Send(n)
  <2>1. log' = log /\ Replicas' \subseteq Replicas
    BY <1>3, SendHistory
  <2> QED
    BY <1>1, <1>2, <2>1
<1>4. ASSUME NEW n \in Node, Merge(n) PROVE Kept
  <2>1. log' = log
    BY <1>4, MergeHistory
  <2>2. PICK a \in Replicas, b \in Replicas :
          \A x \in Replicas' :
             x \in Replicas \/ (x.rep = Merged(a.rep, b.rep) /\ x.seen = a.seen \cup b.seen)
    BY <1>4, MergeHistory
  <2>3. Merged(a.rep, b.rep) = [k \in Elem |-> MergeRegister(a.rep[k], b.rep[k])]
    BY MergedOf
  <2>4. \A k \in Elem : On(log, a.seen \cup b.seen, "remove", k)
                          = On(log, a.seen, "remove", k) \cup On(log, b.seen, "remove", k)
    BY DEF On, OfOp
  <2>5. ASSUME NEW x \in Replicas', x.rep = Merged(a.rep, b.rep), x.seen = a.seen \cup b.seen
        PROVE  MapShows(log, x)
    <3>1. x.rep = [k \in Elem |-> x.rep[k]] /\ \A k \in Elem : x.rep[k] = MergeRegister(a.rep[k], b.rep[k])
      BY <2>3, <2>5
    <3>2. ASSUME NEW k \in Elem, On(log, x.seen, "remove", k) = {}
          PROVE  Latest(x.rep[k], Entries(log, x.seen, k))
      <4>1. On(log, a.seen, "remove", k) = {} /\ On(log, b.seen, "remove", k) = {}
        BY <2>4, <2>5, <3>2
      <4>2. Latest(MergeRegister(a.rep[k], b.rep[k]), Entries(log, a.seen \cup b.seen, k))
        BY <1>1, <1>2, <4>1, MapMerge
      <4> QED
        BY <2>5, <3>1, <4>2
    <3> QED
      BY <3>1, <3>2 DEF MapShows
  <2>6. \A x \in Replicas' : MapShows(log, x)
    BY <1>2, <2>2, <2>5
  <2> QED
    BY <1>1, <2>1, <2>6
<1>5. ASSUME NEW n \in Node, NEW k \in Elem, NEW op \in {"set", "remove"}, NEW w, NEW v,
             Update(n, [rep[n] EXCEPT ![k] = v], LogEntry(n, op, [elem |-> k, entry |-> w])),
             op = "set" => \E t \in Time : w = Written(n, t) /\ v = MergeRegister(rep[n][k], w)
      PROVE  Kept
  <2> DEFINE S == seen[n]
             new == Len(log) + 1
             arg == [elem |-> k, entry |-> w]
             r == [rep[n] EXCEPT ![k] = v]
  <2>1. /\ Made(n, op, arg, S, r)
        /\ S \in SUBSET DOMAIN log /\ PastClosed(log, S) /\ [rep |-> rep[n], seen |-> S] \in Replicas
    BY <1>5, UpdateMakes
  <2>2. /\ GrowLog /\ new \notin DOMAIN log /\ DOMAIN log' = DOMAIN log \cup {new}
        /\ \A x \in Replicas' : x \in Replicas \/ (x.rep = r /\ x.seen = S \cup {new})
        /\ log'[new] = [at |-> n, op |-> op, arg |-> arg, past |-> S]
    BY <2>1 DEF Made
  <2>3. log'[new].at = n /\ log'[new].op = op /\ log'[new].arg.elem = k /\ log'[new].arg.entry = w
    BY <2>2
  <2>4. op = "set" => /\ w \in Writes /\ w.value = new /\ w \in WriteOf(log', new)
                      /\ v = MergeRegister(rep[n][k], w)
    BY <1>5, <2>3, WrittenBy
  <2>5. \A i \in OfOp(log', DOMAIN log', "set") : log'[i].arg.entry \in WriteOf(log', i)
    <3> SUFFICES ASSUME NEW i \in DOMAIN log', log'[i].op = "set" PROVE log'[i].arg.entry \in WriteOf(log', i)
      BY DEF OfOp
    <3>1. CASE i \in DOMAIN log
      <4>1. log'[i] = log[i]
        BY <2>2, <3>1 DEF GrowLog
      <4>2. i \in OfOp(log, DOMAIN log, "set")
        BY <3>1, <4>1 DEF OfOp
      <4> QED
        BY <1>1, <4>1, <4>2 DEF WriteOf
    <3>2. CASE i = new
      BY <2>3, <2>4, <3>2
    <3> QED
      BY <2>2, <3>1, <3>2
  <2>6. \A x \in Replicas : MapShows(log', x)
    BY <1>2, <2>2, MapShowsOld
  <2> DEFINE own == [rep |-> rep[n], seen |-> S]
  <2>7. own.rep = rep[n] /\ own.seen = S /\ MapShows(log', own) /\ MapShows(log, own)
        /\ \A j : /\ On(log', S, "remove", j) = On(log, S, "remove", j)
                  /\ Entries(log', S, j) = Entries(log, S, j)
    <3> HIDE DEF own
    <3>1. own.rep = rep[n] /\ own.seen = S /\ own \in Replicas
      BY <2>1 DEF own
    <3> QED
      BY <1>2, <2>1, <2>2, <2>6, <3>1, MapShowsOld
  <2>8. /\ rep[n] = [j \in Elem |-> rep[n][j]]
        /\ \A j \in Elem : On(log', S, "remove", j) = {} => Latest(rep[n][j], Entries(log', S, j))
    BY <2>7 DEF MapShows
  <2> HIDE DEF new, arg, S
  <2>9. /\ r = [j \in Elem |-> r[j]] /\ r[k] = v
        /\ \A j \in Elem : j # k => r[j] = rep[n][j]
    BY <2>8
  <2> HIDE DEF r, own
  <2>10. ASSUME NEW j \in Elem, On(log', S \cup {new}, "remove", j) = {}
         PROVE  Latest(r[j], Entries(log', S \cup {new}, j))
    <3>1. /\ ~ (op = "remove" /\ k = j) /\ On(log', S, "remove", j) = {}
          /\ On(log', S \cup {new}, "set", j) = IF op = "set" /\ k = j THEN On(log', S, "set", j) \cup {new}
                                                                        ELSE On(log', S, "set", j)
      <4>1. /\ op = "remove" /\ k = j => new \in On(log', S \cup {new}, "remove", j)
            /\ op = "set" \/ k # j =>
                 On(log', S \cup {new}, "remove", j) = On(log', S, "remove", j)
        BY <2>3 DEF On, OfOp
      <4>2. /\ op = "set" /\ k = j =>
                 On(log', S \cup {new}, "set", j) = On(log', S, "set", j) \cup {new}
            /\ op = "remove" \/ k # j =>
                 On(log', S \cup {new}, "set", j) = On(log', S, "set", j)
        BY <2>3 DEF On, OfOp
      <4> QED
        BY <2>10, <4>1, <4>2
    <3>2. CASE j # k
      BY <2>8, <2>9, <3>1, <3>2 DEF Entries
    <3>3. CASE j = k
      <4>1. op = "set" /\ On(log', S \cup {new}, "set", k) = On(log', S, "set", k) \cup {new}
        BY <3>1, <3>3
      <4>2. Entries(log', S \cup {new}, k) = Entries(log', S, k) \cup {w}
        BY <2>3, <4>1 DEF Entries
      <4>3. Latest(rep[n][k], Entries(log', S, k))
        BY <2>8, <3>1, <3>3
      <4>4. Entries(log, S, k) \in SUBSET Writes /\ \A u \in Entries(log, S, k) : u.value <= w.value
        <5>1. ASSUME NEW i \in On(log, S, "set", k)
              PROVE  log[i].arg.entry \in Writes /\ log[i].arg.entry.value <= w.value
          <6>1. i \in DOMAIN log /\ i \in OfOp(log, DOMAIN log, "set")
            BY <2>1, <5>1 DEF On, OfOp
          <6>2. log[i].arg.entry \in Writes /\ log[i].arg.entry.value = i
            BY <1>1, <6>1, WritesOf
          <6>3. w.value = new
            BY <2>4, <4>1
          <6> QED
            BY <6>1, <6>2, <6>3, LogIsSeq DEF new
        <5> QED
          BY <5>1 DEF Entries
      <4>5. Latest(v, Entries(log', S, k) \cup {w})
        BY <2>4, <2>7, <4>1, <4>3, <4>4, LatestNext
      <4> QED
        BY <2>9, <3>3, <4>2, <4>5
    <3> QED
      BY <3>2, <3>3
  <2>11. \A x \in Replicas' : MapShows(log', x)
    <3>1. \A x : x.rep = r /\ x.seen = S \cup {new} => MapShows(log', x)
      BY <2>9, <2>10 DEF MapShows
    <3> QED
      BY <2>2, <2>6, <3>1
  <2> QED
    BY <2>5, <2>11
<1>6. ASSUME NEW n \in Node, NEW k \in Elem, NEW t \in Time, MapSet(n, k, t) PROVE Kept
  <2>1. Update(n, [rep[n] EXCEPT ![k] = MergeRegister(rep[n][k], Written(n, t))],
               LogEntry(n, "set", [elem |-> k, entry |-> Written(n, t)]))
    BY <1>6 DEF MapSet
  <2> HIDE DEF Kept
  <2> QED
    BY <1>5, <2>1
<1>7. ASSUME NEW n \in Node, NEW k \in Elem, MapRemove(n, k) PROVE Kept
  <2>1. Update(n, [rep[n] EXCEPT ![k] = EmptyRegister],
               LogEntry(n, "remove", [elem |-> k, entry |-> EmptyRegister]))
    BY <1>7 DEF MapRemove
  <2> HIDE DEF Kept
  <2> QED
    BY <1>5, <2>1
<1> QED
  BY <1>3, <1>4, <1>6, <1>7, StepOfType

-----------------------------------------------------------------------------
(* Observed-remove sets.                                                   *)

\* The add i has its tag; what a replica x shows of the adds it has seen.
Tagged(h, i) == h[i].arg.elem \in Elem /\ h[i].arg.tag = TagOf(h, i)
OrShows(h, x) ==
    /\ x.rep = [elements |-> [e \in Elem |-> x.rep.elements[e]], counters |-> Counts(h, x.seen, "add")]
    /\ \A e \in Elem : On(h, x.seen, "remove", e) = {} => x.rep.elements[e] = Tags(h, x.seen, e)

LEMMA PastOld ==
    ASSUME HistoryInv, GrowLog, NEW i \in DOMAIN log
    PROVE  /\ log'[i] = log[i] /\ Past(log', i) = Past(log, i)
           /\ \A op : Counts(log', Past(log', i), op) = Counts(log, Past(log, i), op)
           /\ ClockOf(log', Past(log', i)) = ClockOf(log, Past(log, i))
<1>1. log'[i] = log[i]
  BY DEF GrowLog
<1>2. Past(log', i) = Past(log, i)
  BY <1>1 DEF Past
<1> DEFINE P == Past(log, i)
<1>3. P \in SUBSET DOMAIN log
  BY LogIsWellFormed, PastKnown
<1> HIDE DEF P
<1>4. (\A op : Counts(log', P, op) = Counts(log, P, op)) /\ ClockOf(log', P) = ClockOf(log, P)
  BY <1>3, OldEntries
<1> QED
  BY <1>1, <1>2, <1>4 DEF P

LEMMA OrSetInit == CrdtInit => OrSetInv
<1> SUFFICES ASSUME CrdtInit, kind = "orset" PROVE OrSetInv
  BY DEF OrSetInv
<1>1. DOMAIN log = {} /\ \A x \in Replicas : x.seen = {} /\ x.rep = [elements |-> [e \in Elem |-> {}],
                                                                     counters |-> [n \in Node |-> 0]]
  BY InitReplicas, NewOf
<1>2. Counts(log, {}, "add") = [n \in Node |-> 0]
  BY FS_EmptySet DEF Counts, At, OfOp
<1>3. \A e \in Elem : Tags(log, {}, e) = {}
  BY DEF Tags, On, OfOp
<1>4. \A x \in Replicas : OrShows(log, x)
  <2> SUFFICES ASSUME NEW x \in Replicas PROVE OrShows(log, x)
    OBVIOUS
  <2> DEFINE none == [e \in Elem |-> {}]
             zero == Counts(log, {}, "add")
  <2>1. x.seen = {} /\ x.rep = [elements |-> none, counters |-> zero]
    BY <1>1, <1>2
  <2>2. none = [e \in Elem |-> none[e]] /\ \A e \in Elem : none[e] = {}
    OBVIOUS
  <2> HIDE DEF none, zero
  <2>3. x.rep.elements = none /\ x.rep = [elements |-> [e \in Elem |-> x.rep.elements[e]], counters |-> zero]
    BY <2>1, <2>2
  <2> QED
    BY <1>3, <2>1, <2>2, <2>3 DEF OrShows, zero
<1>5. OfOp(log, DOMAIN log, "add") = {}
  BY <1>1 DEF OfOp
<1> QED
  BY <1>4, <1>5 DEF OrSetInv, OrShows

LEMMA OrShowsOld ==
    ASSUME GrowLog, NEW x, x.seen \in SUBSET DOMAIN log
    PROVE  OrShows(log', x) = OrShows(log, x)
<1>1. /\ \A op, e : On(log', x.seen, op, e) = On(log, x.seen, op, e)
      /\ Counts(log', x.seen, "add") = Counts(log, x.seen, "add")
      /\ \A i \in x.seen : log'[i] = log[i]
  BY OldEntries
<1>2. \A e : Tags(log', x.seen, e) = Tags(log, x.seen, e)
  <2>1. \A e : On(log, x.seen, "add", e) \subseteq x.seen
    BY DEF On, OfOp
  <2> QED
    BY <1>1, <2>1 DEF Tags
<1> QED
  BY <1>1, <1>2 DEF OrShows

LEMMA OrSetStep == HistoryInv /\ OrSetInv /\ [CrdtNext]_crdtVars => OrSetInv'
<1> SUFFICES ASSUME HistoryInv, OrSetInv, [CrdtNext]_crdtVars, kind = "orset"
             PROVE  OrSetInv'
  BY KindKept DEF OrSetInv
<1>1. \A i \in OfOp(log, DOMAIN log, "add") : Tagged(log, i)
  BY DEF OrSetInv, Tagged
<1>2. \A x \in Replicas : OrShows(log, x) /\ x.seen \in SUBSET DOMAIN log /\ PastClosed(log, x.seen)
  BY DEF OrSetInv, OrShows, HistoryInv
<1> DEFINE Kept == /\ \A i \in OfOp(log', DOMAIN log', "add") : Tagged(log', i)
                   /\ \A x \in Replicas' : OrShows(log', x)
<1> SUFFICES Kept
  BY DEF OrSetInv, OrShows, Tagged
<1>3. CASE UNCHANGED crdtVars \/ \E n \in Node : Send(n)
  <2>1. log' = log /\ Replicas' \subseteq Replicas
    BY <1>3, SendHistory
  <2> QED
    BY <1>1, <1>2, <2>1
<1>4. ASSUME NEW n \in Node, Merge(n) PROVE Kept
  <2>1. log' = log
    BY <1>4, MergeHistory
  <2>2. PICK a \in Replicas, b \in Replicas :
          \A x \in Replicas' :
             x \in Replicas \/ (x.rep = Merged(a.rep, b.rep) /\ x.seen = a.seen \cup b.seen)
    BY <1>4, MergeHistory
  <2> DEFINE A == a.seen
             B == b.seen
             m == Merged(a.rep, b.rep)
  <2>3. /\ A \in SUBSET DOMAIN log /\ PastClosed(log, A) /\ B \in SUBSET DOMAIN log /\ PastClosed(log, B)
        /\ OrShows(log, a) /\ OrShows(log, b)
    BY <1>2
  <2>4. /\ a.rep.counters = Counts(log, A, "add") /\ b.rep.counters = Counts(log, B, "add")
        /\ \A e \in Elem : On(log, A, "remove", e) = {} => a.rep.elements[e] = Tags(log, A, e)
        /\ \A e \in Elem : On(log, B, "remove", e) = {} => b.rep.elements[e] = Tags(log, B, e)
    BY <2>3 DEF OrShows
  <2>5. m = [elements |-> [e \in Elem |-> a.rep.elements[e] \cup b.rep.elements[e]],
             counters |-> MaxEach(a.rep.counters, b.rep.counters)]
    BY MergedOf DEF MergeOrSet
  <2>6. MaxEach(Counts(log, A, "add"), Counts(log, B, "add")) = Counts(log, A \cup B, "add")
    BY <2>3, LogIsWellFormed, JoinedCounts
  <2>7. \A e \in Elem : /\ On(log, A \cup B, "remove", e) = On(log, A, "remove", e) \cup On(log, B, "remove", e)
                        /\ Tags(log, A \cup B, e) = Tags(log, A, e) \cup Tags(log, B, e)
    BY DEF On, OfOp, Tags
  <2> HIDE DEF A, B, m
  <2>8. \A e \in Elem : m.elements[e] = a.rep.elements[e] \cup b.rep.elements[e]
    BY <2>5
  <2>9. m = [elements |-> [e \in Elem |-> m.elements[e]], counters |-> Counts(log, A \cup B, "add")]
    BY <2>4, <2>5, <2>6
  <2>10. \A e \in Elem : On(log, A \cup B, "remove", e) = {} => m.elements[e] = Tags(log, A \cup B, e)
    <3> SUFFICES ASSUME NEW e \in Elem, On(log, A \cup B, "remove", e) = {}
                 PROVE  m.elements[e] = Tags(log, A \cup B, e)
      OBVIOUS
    <3>1. On(log, A, "remove", e) = {} /\ On(log, B, "remove", e) = {}
      BY <2>7
    <3> QED
      BY <2>4, <2>7, <2>8, <3>1
  <2>11. \A x : x.rep = m /\ x.seen = A \cup B => OrShows(log, x)
    BY <2>9, <2>10 DEF OrShows
  <2>12. \A x \in Replicas' : OrShows(log, x)
    BY <1>2, <2>2, <2>11 DEF A, B, m
  <2> QED
    BY <1>1, <2>1, <2>12
<1>5. ASSUME NEW n \in Node, NEW e \in Elem, NEW op \in {"add", "remove"}, NEW tag, NEW r,
             Update(n, r, LogEntry(n, op, [elem |-> e, tag |-> tag])),
             op = "add" => /\ tag = <<n, rep[n].counters[n] + 1>>
                           /\ r = [rep[n] EXCEPT !.elements[e] = @ \cup {tag},
                                                 !.counters[n] = rep[n].counters[n] + 1],
             op = "remove" => r = [rep[n] EXCEPT !.elements[e] = {}]
      PROVE  Kept
  <2> DEFINE S == seen[n]
             new == Len(log) + 1
             arg == [elem |-> e, tag |-> tag]
  <2>1. /\ Made(n, op, arg, S, r)
        /\ S \in SUBSET DOMAIN log /\ PastClosed(log, S) /\ [rep |-> rep[n], seen |-> S] \in Replicas
    BY <1>5, UpdateMakes
  <2>2. /\ GrowLog /\ new \notin DOMAIN log /\ DOMAIN log' = DOMAIN log \cup {new}
        /\ \A x \in Replicas' : x \in Replicas \/ (x.rep = r /\ x.seen = S \cup {new})
        /\ log'[new] = [at |-> n, op |-> op, arg |-> arg, past |-> S]
    BY <2>1 DEF Made
  <2>3. /\ log'[new].at = n /\ log'[new].op = op /\ log'[new].arg.elem = e
        /\ log'[new].arg.tag = tag /\ log'[new].past = S
    BY <2>2
  <2> DEFINE own == [rep |-> rep[n], seen |-> S]
  <2>4. OrShows(log', own) /\ own.rep = rep[n] /\ own.seen = S
    <3>1. own \in Replicas /\ own.rep = rep[n] /\ own.seen = S
      BY <2>1
    <3> HIDE DEF own
    <3> QED
      BY <1>2, <2>1, <2>2, <3>1, OrShowsOld
  <2> DEFINE c == Counts(log', S, "add")
  <2>5. /\ rep[n] = [elements |-> [f \in Elem |-> rep[n].elements[f]], counters |-> c]
        /\ \A f \in Elem : On(log', S, "remove", f) = {} => rep[n].elements[f] = Tags(log', S, f)
    BY <2>4 DEF OrShows
  <2>6. IsFiniteSet(S) /\ new \notin S
    BY <2>1, <2>2, LogIsWellFormed, KnownFinite
  <2> HIDE DEF own, S, new, arg
  <2>7. c \in [Node -> Nat]
    BY <2>6, FS_Subset, FS_CardinalityType DEF Counts, At, OfOp
  <2>8. Counts(log', S \cup {new}, "add") = IF op = "add" THEN [c EXCEPT ![n] = @ + 1] ELSE c
    <3>1. \A m \in Node : Cardinality(At(log', OfOp(log', S \cup {new}, "add"), m))
              = IF op = "add" /\ n = m THEN Cardinality(At(log', OfOp(log', S, "add"), m)) + 1
                                       ELSE Cardinality(At(log', OfOp(log', S, "add"), m))
      BY <2>3, <2>6, CountOneMore
    <3>2. op = "add" => Counts(log', S \cup {new}, "add") = [c EXCEPT ![n] = @ + 1]
      BY <3>1 DEF Counts
    <3>3. op # "add" => Counts(log', S \cup {new}, "add") = c
      BY <3>1 DEF Counts
    <3> QED
      BY <3>2, <3>3
  <2>9. \A i \in OfOp(log', DOMAIN log', "add") : Tagged(log', i)
    <3> SUFFICES ASSUME NEW i \in DOMAIN log', log'[i].op = "add" PROVE Tagged(log', i)
      BY DEF OfOp
    <3>1. CASE i \in DOMAIN log
      <4>1. log'[i] = log[i] /\ Counts(log', Past(log', i), "add") = Counts(log, Past(log, i), "add")
        BY <2>2, <3>1, PastOld
      <4>2. i \in OfOp(log, DOMAIN log, "add")
        BY <3>1, <4>1 DEF OfOp
      <4> QED
        BY <1>1, <4>1, <4>2 DEF Tagged, TagOf
    <3>2. CASE i = new
      <4>1. Past(log', new) = S \cup {new} /\ op = "add"
        BY <2>3, <3>2 DEF Past
      <4>2. rep[n].counters = c /\ Counts(log', S \cup {new}, "add")[n] = c[n] + 1
        BY <2>5, <2>7, <2>8, <4>1
      <4> QED
        BY <1>5, <2>3, <3>2, <4>1, <4>2 DEF Tagged, TagOf
    <3> QED
      BY <2>2, <3>1, <3>2
  <2>10. /\ r = [elements |-> [f \in Elem |-> r.elements[f]], counters |-> Counts(log', S \cup {new}, "add")]
         /\ r.elements[e] = IF op = "add" THEN rep[n].elements[e] \cup {tag} ELSE {}
         /\ \A f \in Elem : f # e => r.elements[f] = rep[n].elements[f]
    <3> DEFINE els == [f \in Elem |-> rep[n].elements[f]]
    <3>1. rep[n] = [elements |-> els, counters |-> c]
      BY <2>5
    <3>2. op = "add" => r = [elements |-> [els EXCEPT ![e] = rep[n].elements[e] \cup {tag}], counters |-> [c EXCEPT ![n] = c[n] + 1]]
      <4> HIDE DEF els, c
      <4>1. /\ rep[n].elements = els /\ rep[n].counters = c
            /\ \A P : [rep[n] EXCEPT !.elements = P] = [elements |-> P, counters |-> c]
            /\ \A P, Q : [[elements |-> P, counters |-> c] EXCEPT !.counters = Q] = [elements |-> P, counters |-> Q]
        BY <3>1
      <4> QED
        BY <1>5, <4>1
    <3>3. op = "remove" => r = [elements |-> [els EXCEPT ![e] = {}], counters |-> c]
      <4> HIDE DEF els, c
      <4>1. /\ rep[n].elements = els
            /\ \A P : [rep[n] EXCEPT !.elements = P] = [elements |-> P, counters |-> c]
        BY <3>1
      <4> QED
        BY <1>5, <4>1
    <3>4. ASSUME NEW P, NEW E, NEW d, E = [els EXCEPT ![e] = P], r = [elements |-> E, counters |-> d]
          PROVE  /\ r = [elements |-> [f \in Elem |-> r.elements[f]], counters |-> d]
                 /\ r.elements[e] = P /\ \A f \in Elem : f # e => r.elements[f] = rep[n].elements[f]
      <4>1. r.elements = E
        BY <3>4
      <4>2. /\ E = [f \in Elem |-> E[f]] /\ E[e] = P
            /\ \A f \in Elem : f # e => E[f] = rep[n].elements[f]
        BY <3>4
      <4> HIDE DEF els
      <4> QED
        BY <3>4, <4>1, <4>2
    <3> HIDE DEF els, c
    <3>5. CASE op = "add"
      <4>1. r = [elements |-> [els EXCEPT ![e] = rep[n].elements[e] \cup {tag}],
                 counters |-> Counts(log', S \cup {new}, "add")]
        BY <2>8, <3>2, <3>5, Zenon
      <4> QED
        BY <3>4, <3>5, <4>1
    <3>6. CASE op = "remove"
      <4>1. r = [elements |-> [els EXCEPT ![e] = {}], counters |-> Counts(log', S \cup {new}, "add")]
        <5>1. Counts(log', S \cup {new}, "add") = c
          BY <2>8, <3>6
        <5> QED
          BY <3>3, <3>6, <5>1, Zenon
      <4> QED
        BY <3>4, <3>6, <4>1
    <3> QED
      BY <3>5, <3>6
  <2>11. \A f \in Elem : On(log', S \cup {new}, "remove", f) = {} => r.elements[f] = Tags(log', S \cup {new}, f)
    <3> SUFFICES ASSUME NEW f \in Elem, On(log', S \cup {new}, "remove", f) = {}
                 PROVE  r.elements[f] = Tags(log', S \cup {new}, f)
      OBVIOUS
    <3>1. /\ op = "remove" /\ e = f => new \in On(log', S \cup {new}, "remove", f)
          /\ On(log', S, "remove", f) \subseteq On(log', S \cup {new}, "remove", f)
          /\ op = "add" /\ e = f => On(log', S \cup {new}, "add", f) = On(log', S, "add", f) \cup {new}
          /\ op = "remove" \/ e # f => On(log', S \cup {new}, "add", f) = On(log', S, "add", f)
      BY <2>3 DEF On, OfOp
    <3>2. rep[n].elements[f] = Tags(log', S, f)
      BY <2>5, <3>1
    <3>3. CASE f # e
      BY <2>10, <3>1, <3>2, <3>3 DEF Tags
    <3>4. CASE f = e
      <4>1. op = "add" /\ On(log', S \cup {new}, "add", e) = On(log', S, "add", e) \cup {new}
        BY <3>1, <3>4
      <4>2. Tags(log', S \cup {new}, e) = Tags(log', S, e) \cup {tag}
        BY <2>3, <4>1 DEF Tags
      <4> QED
        BY <2>10, <3>2, <3>4, <4>1, <4>2
    <3> QED
      BY <3>3, <3>4
  <2>12. \A x : x.rep = r /\ x.seen = S \cup {new} => OrShows(log', x)
    BY <2>10, <2>11 DEF OrShows
  <2>13. \A x \in Replicas : OrShows(log', x)
    BY <1>2, <2>2, OrShowsOld
  <2>14. \A x \in Replicas' : OrShows(log', x)
    BY <2>2, <2>12, <2>13
  <2> QED
    BY <2>9, <2>14
<1>6. ASSUME NEW n \in Node, NEW e \in Elem, OrAdd(n, e) PROVE Kept
  <2> DEFINE tag == <<n, rep[n].counters[n] + 1>>
             r == [rep[n] EXCEPT !.elements[e] = @ \cup {tag}, !.counters[n] = rep[n].counters[n] + 1]
  <2>1. Update(n, r, LogEntry(n, "add", [elem |-> e, tag |-> tag]))
    BY <1>6 DEF OrAdd
  <2> HIDE DEF Kept
  <2> QED
    BY <1>5, <2>1
<1>7. ASSUME NEW n \in Node, NEW e \in Elem, OrRemove(n, e) PROVE Kept
  <2> DEFINE r == [rep[n] EXCEPT !.elements[e] = {}]
  <2>1. Update(n, r, LogEntry(n, "remove", [elem |-> e, tag |-> Unset]))
    BY <1>7 DEF OrRemove
  <2> HIDE DEF Kept
  <2> QED
    BY <1>5, <2>1
<1> QED
  BY <1>3, <1>4, <1>6, <1>7, StepOfType

-----------------------------------------------------------------------------
(* Vector clocks.                                                          *)

\* A vector clock counts the updates of each node.
LEMMA ClockGet ==
    ASSUME NEW h, WellFormed(h), NEW A \in SUBSET DOMAIN h, NEW n
    PROVE  /\ VcGet(ClockOf(h, A), n) = Cardinality(At(h, A, n))
           /\ n \in DOMAIN ClockOf(h, A) <=> At(h, A, n) # {}
           /\ n \in DOMAIN ClockOf(h, A) => ClockOf(h, A)[n] = Cardinality(At(h, A, n)) /\ n \in Node
           /\ Cardinality(At(h, A, n)) \in Nat
           /\ At(h, A, n) # {} <=> Cardinality(At(h, A, n)) > 0
<1>1. At(h, A, n) \in SUBSET DOMAIN h /\ (At(h, A, n) # {} => n \in Node)
  BY DEF At, WellFormed
<1>2. IsFiniteSet(At(h, A, n)) /\ Cardinality(At(h, A, n)) \in Nat
  BY <1>1, KnownFinite
<1>3. At(h, A, n) # {} <=> Cardinality(At(h, A, n)) > 0
  BY <1>2, FS_EmptySet
<1>4. /\ DOMAIN ClockOf(h, A) = {m \in Node : At(h, A, m) # {}}
      /\ \A m \in DOMAIN ClockOf(h, A) : ClockOf(h, A)[m] = Cardinality(At(h, A, m))
  BY DEF ClockOf
<1>5. n \in DOMAIN ClockOf(h, A) <=> At(h, A, n) # {}
  BY <1>1, <1>4
<1> QED
  BY <1>1, <1>2, <1>3, <1>4, <1>5 DEF VcGet

LEMMA ClockJoin ==
    ASSUME NEW h, WellFormed(h), NEW A \in SUBSET DOMAIN h, NEW B \in SUBSET DOMAIN h,
           PastClosed(h, A), PastClosed(h, B)
    PROVE  VcMerge(ClockOf(h, A), ClockOf(h, B)) = ClockOf(h, A \cup B)
<1> DEFINE c == ClockOf(h, A)
           d == ClockOf(h, B)
<1>1. \A n : VcGet(c, n) = Cardinality(At(h, A, n)) /\ VcGet(d, n) = Cardinality(At(h, B, n))
  BY ClockGet
<1>2. \A n : Cardinality(At(h, A \cup B, n)) = Larger(VcGet(c, n), VcGet(d, n))
  BY <1>1, JoinedAt
<1>3. DOMAIN c \cup DOMAIN d = {m \in Node : At(h, A \cup B, m) # {}}
  <2>1. DOMAIN c = {m \in Node : At(h, A, m) # {}} /\ DOMAIN d = {m \in Node : At(h, B, m) # {}}
    BY DEF ClockOf
  <2>2. \A m : At(h, A \cup B, m) = At(h, A, m) \cup At(h, B, m)
    BY DEF At
  <2> HIDE DEF c, d
  <2> QED
    BY <2>1, <2>2
<1> HIDE DEF c, d
<1>4. VcMerge(c, d) = ClockOf(h, A \cup B)
  BY <1>2, <1>3 DEF VcMerge, ClockOf
<1> QED
  BY <1>4 DEF c, d

LEMMA ClockNext ==
    ASSUME NEW h, WellFormed(h), NEW i \in DOMAIN h, NEW A \in SUBSET DOMAIN h, i \notin A
    PROVE  VcSet(ClockOf(h, A), h[i].at, Cardinality(At(h, A, h[i].at)) + 1) = ClockOf(h, A \cup {i})
<1> DEFINE n == h[i].at
           c == ClockOf(h, A)
<1>1. n \in Node
  BY DEF WellFormed
<1>2. At(h, A \cup {i}, n) = At(h, A, n) \cup {i} /\ i \notin At(h, A, n)
      /\ \A m : m # n => At(h, A \cup {i}, m) = At(h, A, m)
  BY DEF At
<1>3. Cardinality(At(h, A \cup {i}, n)) = Cardinality(At(h, A, n)) + 1
  <2>1. At(h, A, n) \in SUBSET DOMAIN h
    BY DEF At
  <2>2. IsFiniteSet(At(h, A, n))
    BY <2>1, KnownFinite
  <2> HIDE DEF n
  <2> QED
    BY <1>2, <2>2, FS_AddElement
<1>4. /\ DOMAIN c = {m \in Node : At(h, A, m) # {}}
      /\ \A m \in DOMAIN c : c[m] = Cardinality(At(h, A, m))
  BY DEF ClockOf
<1> HIDE DEF n, c
<1>5. DOMAIN c \cup {n} = {m \in Node : At(h, A \cup {i}, m) # {}}
  BY <1>1, <1>2, <1>4
<1>6. VcSet(c, n, Cardinality(At(h, A, n)) + 1) = ClockOf(h, A \cup {i})
  BY <1>2, <1>3, <1>4, <1>5 DEF VcSet, ClockOf
<1> QED
  BY <1>6 DEF n, c

\* One vector clock is before another exactly if less was known.
LEMMA ClockBefore ==
    ASSUME NEW h, WellFormed(h), NEW A \in SUBSET DOMAIN h, NEW B \in SUBSET DOMAIN h,
           PastClosed(h, A), PastClosed(h, B)
    PROVE  /\ HappenedBefore(ClockOf(h, A), ClockOf(h, B)) <=> A \subseteq B /\ A # B
           /\ VcEquals(ClockOf(h, A), ClockOf(h, B)) <=> A = B
<1> DEFINE c == ClockOf(h, A)
           d == ClockOf(h, B)
<1>1. \A n : /\ VcGet(c, n) = Cardinality(At(h, A, n)) /\ VcGet(c, n) \in Nat
             /\ VcGet(d, n) = Cardinality(At(h, B, n)) /\ VcGet(d, n) \in Nat
             /\ n \in DOMAIN c <=> VcGet(c, n) > 0
             /\ n \in DOMAIN d <=> VcGet(d, n) > 0
             /\ n \in DOMAIN c => c[n] = VcGet(c, n) /\ n \in Node
             /\ n \in DOMAIN d => d[n] = VcGet(d, n) /\ n \in Node
  BY ClockGet
<1>2. \A n : VcGet(c, n) <= VcGet(d, n) <=> At(h, A, n) \subseteq At(h, B, n)
  <2> TAKE n
  <2>1. Cardinality(At(h, A, n)) <= Cardinality(At(h, B, n)) <=> At(h, A, n) \subseteq At(h, B, n)
    BY JoinedAt
  <2> QED
    BY <1>1, <2>1
<1>3. \A n : VcGet(d, n) <= VcGet(c, n) <=> At(h, B, n) \subseteq At(h, A, n)
  <2> TAKE n
  <2>1. Cardinality(At(h, B, n)) <= Cardinality(At(h, A, n)) <=> At(h, B, n) \subseteq At(h, A, n)
    BY JoinedAt
  <2> QED
    BY <1>1, <2>1
<1>4. A \subseteq B <=> \A n : At(h, A, n) \subseteq At(h, B, n)
  BY DEF At
<1>5. B \subseteq A <=> \A n : At(h, B, n) \subseteq At(h, A, n)
  BY DEF At
<1> HIDE DEF c, d
<1>6. (\A n \in DOMAIN c : c[n] <= VcGet(d, n)) <=> A \subseteq B
  <2>1. (\A n \in DOMAIN c : c[n] <= VcGet(d, n)) <=> \A n : VcGet(c, n) <= VcGet(d, n)
    BY <1>1
  <2> QED
    BY <1>2, <1>4, <2>1
<1>7. ((\E n \in DOMAIN c : c[n] < VcGet(d, n)) \/ (\E n \in DOMAIN d \ DOMAIN c : d[n] > 0))
        <=> ~ (B \subseteq A)
  <2>1. ((\E n \in DOMAIN c : c[n] < VcGet(d, n)) \/ (\E n \in DOMAIN d \ DOMAIN c : d[n] > 0))
          <=> \E n : ~ (VcGet(d, n) <= VcGet(c, n))
    BY <1>1
  <2> QED
    BY <1>3, <1>5, <2>1
<1>8. HappenedBefore(c, d) <=> A \subseteq B /\ A # B
  BY <1>6, <1>7 DEF HappenedBefore
<1>9. ASSUME VcEquals(c, d) PROVE A = B
  <2>1. \A n \in DOMAIN c : VcGet(d, n) = c[n]
    BY <1>9 DEF VcEquals
  <2>2. A \subseteq B
    BY <1>1, <1>6, <2>1
  <2>3. DOMAIN c \subseteq DOMAIN d
    BY <1>1, <2>1
  <2>4. IsFiniteSet(DOMAIN d)
    <3>1. DOMAIN d \subseteq Node /\ IsFiniteSet(Node)
      BY <1>1, CrdtAssumption, FS_Interval DEF Node
    <3> QED
      BY <3>1, FS_Subset
  <2>5. DOMAIN c = DOMAIN d
    BY <1>9, <2>3, <2>4, FS_Subset DEF VcEquals
  <2>6. \A n : VcGet(d, n) <= VcGet(c, n)
    BY <1>1, <2>1, <2>5
  <2> QED
    BY <1>3, <1>5, <2>2, <2>6
<1>10. ASSUME A = B PROVE VcEquals(c, d)
  <2>1. c = d
    BY <1>10 DEF c, d
  <2> QED
    BY <1>1, <2>1 DEF VcEquals
<1> QED
  BY <1>8, <1>9, <1>10 DEF c, d

\* The clocks of two updates tell whether one was known where the other was made.
LEMMA ClockOrder ==
    ASSUME NEW h, WellFormed(h), NEW i \in DOMAIN h, NEW j \in DOMAIN h
    PROVE  /\ HappenedBefore(ClockOf(h, Past(h, i)), ClockOf(h, Past(h, j))) <=> i \in h[j].past
           /\ VcEquals(ClockOf(h, Past(h, i)), ClockOf(h, Past(h, j))) <=> i = j
<1>1. /\ Past(h, i) \in SUBSET DOMAIN h /\ PastClosed(h, Past(h, i))
      /\ i \in Nat /\ i \notin h[i].past /\ \A k \in h[i].past : k < i
  BY PastKnown
<1>2. /\ Past(h, j) \in SUBSET DOMAIN h /\ PastClosed(h, Past(h, j)) /\ PastClosed(h, h[j].past)
      /\ j \in Nat /\ j \notin h[j].past /\ \A k \in h[j].past : k < j
  BY PastKnown
<1>3. i \in h[j].past => Past(h, i) \subseteq Past(h, j) /\ Past(h, i) # Past(h, j)
  <2> SUFFICES ASSUME i \in h[j].past PROVE Past(h, i) \subseteq Past(h, j) /\ Past(h, i) # Past(h, j)
    OBVIOUS
  <2>1. h[i].past \subseteq h[j].past
    BY <1>2 DEF PastClosed
  <2>2. j \in Past(h, j) /\ j \notin Past(h, i)
    <3>1. i < j
      BY <1>2
    <3>2. \A k \in h[i].past : k < i /\ k \in Nat
      BY <1>1, PastKnown DEF WellFormed
    <3>3. j \notin h[i].past
      BY <1>1, <1>2, <3>1, <3>2
    <3> QED
      BY <1>1, <1>2, <3>1, <3>3 DEF Past
  <2> QED
    BY <2>1, <2>2 DEF Past
<1>4. Past(h, i) \subseteq Past(h, j) => i = j \/ i \in h[j].past
  BY DEF Past
<1>5. Past(h, i) = Past(h, j) => i = j
  <2> SUFFICES ASSUME Past(h, i) = Past(h, j), i # j PROVE FALSE
    OBVIOUS
  <2>1. i \in h[j].past
    BY <1>4
  <2> QED
    BY <1>3, <2>1
<1>6. HappenedBefore(ClockOf(h, Past(h, i)), ClockOf(h, Past(h, j)))
        <=> Past(h, i) \subseteq Past(h, j) /\ Past(h, i) # Past(h, j)
  BY <1>1, <1>2, ClockBefore
<1>7. VcEquals(ClockOf(h, Past(h, i)), ClockOf(h, Past(h, j))) <=> Past(h, i) = Past(h, j)
  BY <1>1, <1>2, ClockBefore
<1> QED
  BY <1>3, <1>4, <1>5, <1>6, <1>7

-----------------------------------------------------------------------------
(* Multi-value registers.                                                  *)

\* What is known is known to a write that no other one came after.
LEMMA BelowMaximal ==
    ASSUME NEW h, WellFormed(h), NEW S \in SUBSET DOMAIN h, NEW g \in S
    PROVE  \E i \in Maximal(h, S) : g \in Past(h, i)
<1>1. PICK len \in Nat : DOMAIN h = 1..len
  BY DEF WellFormed
<1> DEFINE T == {k \in S : g \in Past(h, k)}
<1>2. T \in SUBSET Nat /\ (\A k \in T : k <= len) /\ g \in T
  BY <1>1 DEF Past
<1> HIDE DEF T
<1>3. PICK i \in T : \A k \in T : k <= i
  BY <1>1, <1>2, GreatestNat
<1>4. i \in S /\ g \in Past(h, i) /\ i \in Nat
  BY <1>2, <1>3 DEF T
<1>5. ASSUME NEW j \in S, i \in h[j].past PROVE FALSE
  <2>1. PastClosed(h, h[j].past) /\ i < j /\ j \in Nat
    BY <1>5, PastKnown
  <2>2. g \in Past(h, j)
    BY <1>4, <1>5, <2>1 DEF Past, PastClosed
  <2>3. j \in T
    BY <2>2 DEF T
  <2> QED
    BY <1>3, <1>4, <2>1, <2>3
<1> QED
  BY <1>4, <1>5 DEF Maximal

\* Merging leaves the writes that none known to either replica came after.
LEMMA MaximalJoin ==
    ASSUME NEW h, WellFormed(h), NEW A \in SUBSET DOMAIN h, NEW B \in SUBSET DOMAIN h,
           PastClosed(h, A), PastClosed(h, B)
    PROVE  Maximal(h, A \cup B) = {i \in Maximal(h, A) : \A j \in Maximal(h, B) : i \notin h[j].past}
                                    \cup {j \in Maximal(h, B) : \A i \in Maximal(h, A) : j \notin h[i].past}
<1>1. ASSUME NEW X \in SUBSET DOMAIN h, NEW Y \in SUBSET DOMAIN h, PastClosed(h, Y),
             NEW i \in Maximal(h, X), \A j \in Maximal(h, Y) : i \notin h[j].past
      PROVE  i \in Maximal(h, X \cup Y)
  <2>1. i \in X /\ \A k \in X : i \notin h[k].past
    BY <1>1 DEF Maximal
  <2>2. ASSUME NEW k \in Y, i \in h[k].past PROVE FALSE
    <3>1. PICK j \in Maximal(h, Y) : k \in Past(h, j)
      BY BelowMaximal, <1>1
    <3>2. j \in DOMAIN h /\ j \in Y
      BY <3>1 DEF Maximal
    <3>3. PastClosed(h, h[j].past)
      BY <3>2, PastKnown
    <3>4. i \in h[j].past
      BY <2>2, <3>1, <3>3 DEF Past, PastClosed
    <3> QED
      BY <1>1, <3>1, <3>4
  <2> QED
    BY <2>1, <2>2 DEF Maximal
<1>2. ASSUME NEW i \in Maximal(h, A \cup B)
      PROVE  \/ i \in Maximal(h, A) /\ \A j \in Maximal(h, B) : i \notin h[j].past
             \/ i \in Maximal(h, B) /\ \A j \in Maximal(h, A) : i \notin h[j].past
  BY DEF Maximal
<1>3. A \cup B = B \cup A
  OBVIOUS
<1>4. \A i \in Maximal(h, A) : (\A j \in Maximal(h, B) : i \notin h[j].past) => i \in Maximal(h, A \cup B)
  BY <1>1
<1>5. \A i \in Maximal(h, B) : (\A j \in Maximal(h, A) : i \notin h[j].past) => i \in Maximal(h, A \cup B)
  BY <1>1, <1>3
<1> QED
  BY <1>2, <1>4, <1>5

\* What a register r shows when the values s have been set, in whatever order.
MvMerge(r, s) ==
    {v \in r : \A w \in s : ~ HappenedBefore(v.clock, w.clock)}
      \cup {w \in s : \A v \in r : ~ HappenedBefore(w.clock, v.clock)}

\* Setting one value more, none of those set before it or after it.
LEMMA MvSetOne ==
    ASSUME NEW r, NEW s, NEW w,
           \A u, v, x \in r \cup s \cup {w} :
              HappenedBefore(u.clock, v.clock) /\ HappenedBefore(v.clock, x.clock)
                => HappenedBefore(u.clock, x.clock),
           \A u \in r : ~ HappenedBefore(u.clock, u.clock),
           \A u \in s : ~ HappenedBefore(u.clock, w.clock) /\ ~ HappenedBefore(w.clock, u.clock),
           ~ HappenedBefore(w.clock, w.clock),
           \A v \in r \cup s : v.value = w.value =>
              v = w \/ HappenedBefore(v.clock, w.clock) \/ HappenedBefore(w.clock, v.clock)
    PROVE  MvSet(MvMerge(r, s), w) = MvMerge(r, s \cup {w})
<1> DEFINE B(u, v) == HappenedBefore(u.clock, v.clock)
           kept == {v \in MvMerge(r, s) : ~ B(v, w)}
<1>1. kept = {v \in r : \A x \in s \cup {w} : ~ B(v, x)} \cup {x \in s : \A v \in r : ~ B(x, v)}
  BY DEF MvMerge
<1>2. (\E v \in kept : B(w, v)) <=> \E v \in r : B(w, v)
  <2>1. ASSUME NEW v \in r, B(w, v) PROVE v \in kept
    <3>1. \A x \in s \cup {w} : ~ B(v, x)
      BY <2>1
    <3> QED
      BY <1>1, <3>1
  <2> QED
    BY <1>1, <2>1
<1>3. ASSUME \E v \in r : B(w, v)
      PROVE  MvSet(MvMerge(r, s), w) = MvMerge(r, s \cup {w})
  <2>1. MvSet(MvMerge(r, s), w) = kept
    BY <1>2, <1>3 DEF MvSet
  <2> QED
    BY <1>1, <1>3, <2>1 DEF MvMerge
<1>4. ASSUME ~ \E v \in r : B(w, v)
      PROVE  MvSet(MvMerge(r, s), w) = MvMerge(r, s \cup {w})
  <2>1. MvSet(MvMerge(r, s), w) = {v \in kept : v.value # w.value} \cup {w}
    BY <1>2, <1>4 DEF MvSet
  <2>2. \A v \in kept : v.value = w.value => v = w
    <3> SUFFICES ASSUME NEW v \in kept, v.value = w.value PROVE v = w
      OBVIOUS
    <3>1. v \in r \cup s /\ ~ B(v, w)
      BY <1>1
    <3>2. ~ B(w, v)
      BY <1>4, <3>1
    <3> QED
      BY <3>1, <3>2
  <2> HIDE DEF kept
  <2>3. {v \in kept : v.value # w.value} \cup {w} = kept \cup {w}
    BY <2>2
  <2> QED
    BY <1>1, <1>4, <2>1, <2>3 DEF MvMerge
<1> QED
  BY <1>3, <1>4

\* The order in which a merge sets the other's values makes no difference, as
\* long as of two entries with one value one is before the other.
LEMMA MvMergesOne ==
    ASSUME NEW r, NEW s, NEW m \in MvMerges(r, s), IsFiniteSet(s),
           \A u, v, x \in r \cup s :
              HappenedBefore(u.clock, v.clock) /\ HappenedBefore(v.clock, x.clock)
                => HappenedBefore(u.clock, x.clock),
           \A u \in r : ~ HappenedBefore(u.clock, u.clock),
           \A u, v \in s : ~ HappenedBefore(u.clock, v.clock),
           \A v \in r \cup s, w \in s : v.value = w.value =>
              v = w \/ HappenedBefore(v.clock, w.clock) \/ HappenedBefore(w.clock, v.clock)
    PROVE  m = MvMerge(r, s)
<1> DEFINE K == Cardinality(s)
           Steps(o, f) == f = [i \in 0..K |-> IF i = 0 THEN r ELSE MvSet(f[i - 1], o[i])]
<1>1. K \in Nat
  BY FS_CardinalityType
<1>2. PICK o \in [1..K -> s] : IsInjective(o) /\ m = (CHOOSE f : Steps(o, f))[K]
  BY DEF MvMerges
<1> DEFINE first(n) == {o[i] : i \in 1..n}
           g == [n \in 0..K |-> MvMerge(r, first(n))]
           after == CHOOSE f : Steps(o, f)
<1>3. \A n \in 1..K : MvSet(g[n - 1], o[n]) = g[n]
  <2> SUFFICES ASSUME NEW n \in 1..K PROVE MvSet(g[n - 1], o[n]) = g[n]
    OBVIOUS
  <2> DEFINE t == first(n - 1)
             w == o[n]
  <2>1. n - 1 \in 0..K /\ n \in 0..K /\ g[n - 1] = MvMerge(r, t) /\ g[n] = MvMerge(r, first(n))
    BY <1>1
  <2>2. first(n) = t \cup {w}
    <3>1. \A i \in 1..n : i \in 1..(n - 1) \/ i = n
      BY <1>1
    <3>2. \A i \in 1..(n - 1) : i \in 1..n
      BY <1>1
    <3>3. n \in 1..n
      BY <1>1
    <3> QED
      BY <3>1, <3>2, <3>3
  <2>3. w \in s /\ t \subseteq s
    <3>1. \A i \in 1..(n - 1) : i \in 1..K
      BY <1>1
    <3> QED
      BY <3>1
  <2> HIDE DEF t, w, g, first
  <2>4. MvSet(MvMerge(r, t), w) = MvMerge(r, t \cup {w})
    <3>1. \A u, v, x \in r \cup t \cup {w} :
             HappenedBefore(u.clock, v.clock) /\ HappenedBefore(v.clock, x.clock)
               => HappenedBefore(u.clock, x.clock)
      BY <2>3
    <3>2. \A u \in t : ~ HappenedBefore(u.clock, w.clock) /\ ~ HappenedBefore(w.clock, u.clock)
      BY <2>3
    <3>3. ~ HappenedBefore(w.clock, w.clock)
      BY <2>3
    <3>4. \A v \in r \cup t : v.value = w.value =>
             v = w \/ HappenedBefore(v.clock, w.clock) \/ HappenedBefore(w.clock, v.clock)
      BY <2>3
    <3> QED
      BY <3>1, <3>2, <3>3, <3>4, MvSetOne
  <2> QED
    BY <2>1, <2>2, <2>4 DEF w
<1>4. g[0] = r
  <2>1. first(0) = {} /\ 0 \in 0..K
    BY <1>1
  <2> HIDE DEF first
  <2>2. g[0] = MvMerge(r, first(0))
    BY <2>1
  <2> QED
    BY <2>1, <2>2 DEF MvMerge
<1>5. Steps(o, g)
  <2>1. \A n \in 0..K : n # 0 => n \in 1..K
    BY <1>1
  <2>2. \A n \in 0..K : g[n] = IF n = 0 THEN r ELSE MvSet(g[n - 1], o[n])
    <3> HIDE DEF g
    <3> QED
      BY <1>3, <1>4, <2>1
  <2>3. g = [n \in 0..K |-> g[n]]
    OBVIOUS
  <2> HIDE DEF g
  <2> QED
    BY <2>2, <2>3
<1>6. Steps(o, after)
  <2> HIDE DEF Steps, g
  <2> QED
    BY <1>5
<1>7. \A n \in 0..K : after[n] = g[n]
  <2> HIDE DEF after, g
  <2> DEFINE T == {n \in 0..K : after[n] # g[n]}
  <2> SUFFICES ASSUME T # {} PROVE FALSE
    OBVIOUS
  <2>1. T \in SUBSET Nat
    BY <1>1
  <2>2. PICK n \in T : \A k \in T : n <= k
    BY <2>1, LeastNat
  <2>3. /\ after[n] = IF n = 0 THEN r ELSE MvSet(after[n - 1], o[n])
        /\ g[n] = IF n = 0 THEN r ELSE MvSet(g[n - 1], o[n])
    BY <1>5, <1>6
  <2>4. n # 0 => n - 1 \in 0..K /\ n - 1 \notin T
    BY <1>1, <2>1, <2>2
  <2> QED
    BY <2>3, <2>4
<1>8. first(K) = s
  <2> DEFINE T == first(K)
  <2>1. T \subseteq s
    OBVIOUS
  <2>2. o \in Surjection(1..K, T) /\ o \in Injection(1..K, T)
    BY <1>2 DEF Surjection, Injection, IsInjective
  <2>3. IsFiniteSet(1..K) /\ Cardinality(1..K) = K
    BY <1>1, FS_Interval
  <2> HIDE DEF T
  <2>4. Cardinality(T) = K
    BY <2>2, <2>3, FS_Surjection
  <2> QED
    BY <2>1, <2>4, FS_Subset DEF T
<1>9. m = after[K]
  BY <1>2
<1>10. m = g[K]
  <2> HIDE DEF after, g
  <2> QED
    BY <1>1, <1>7, <1>9
<1>11. g[K] = MvMerge(r, first(K))
  <2> HIDE DEF first
  <2> QED
    BY <1>1
<1> HIDE DEF g, first
<1> QED
  BY <1>8, <1>10, <1>11

LEMMA MvMergeOf ==
    ASSUME NEW h, WellFormed(h),
           \A i \in DOMAIN h : NoClash(h, Past(h, i)) => h[i].arg.clock = ClockOf(h, Past(h, i)),
           NEW A \in SUBSET DOMAIN h, NEW B \in SUBSET DOMAIN h, PastClosed(h, A), PastClosed(h, B),
           NoClash(h, A \cup B),
           NEW m \in MvMerges(Args(h, Maximal(h, A)), Args(h, Maximal(h, B)))
    PROVE  m = Args(h, Maximal(h, A \cup B))
<1> DEFINE C == A \cup B
<1>1. \A i, j \in C : HappenedBefore(h[i].arg.clock, h[j].arg.clock) <=> i \in h[j].past
  <2>1. \A i \in C : h[i].arg.clock = ClockOf(h, Past(h, i))
    <3>1. \A i \in C : Past(h, i) \subseteq C /\ i \in DOMAIN h
      BY DEF PastClosed, Past
    <3>2. \A i \in C : NoClash(h, Past(h, i))
      BY <3>1 DEF NoClash
    <3> QED
      BY <3>1, <3>2
  <2>2. \A i, j \in DOMAIN h :
           HappenedBefore(ClockOf(h, Past(h, i)), ClockOf(h, Past(h, j))) <=> i \in h[j].past
    BY ClockOrder
  <2> QED
    BY <2>1, <2>2
<1>2. ASSUME NEW X \in SUBSET C, NEW Y \in SUBSET C
      PROVE  {v \in Args(h, X) : \A w \in Args(h, Y) : ~ HappenedBefore(v.clock, w.clock)}
               = Args(h, {i \in X : \A j \in Y : i \notin h[j].past})
  <2>1. \A i \in X : (\A w \in Args(h, Y) : ~ HappenedBefore(h[i].arg.clock, w.clock))
                       <=> \A j \in Y : i \notin h[j].past
    BY <1>1 DEF Args
  <2> QED
    BY <2>1 DEF Args
<1> DEFINE X == Maximal(h, A)
           Y == Maximal(h, B)
<1>3. X \in SUBSET C /\ Y \in SUBSET C /\ X \subseteq DOMAIN h /\ Y \subseteq DOMAIN h
      /\ \A i, j \in Y : i \notin h[j].past
  BY DEF Maximal
<1>4. Maximal(h, A \cup B) = {i \in X : \A j \in Y : i \notin h[j].past}
                               \cup {j \in Y : \A i \in X : j \notin h[i].past}
  BY MaximalJoin
<1>5. NoClash(h, C) /\ \A j \in C : h[j].past \subseteq C /\ j \notin h[j].past /\ PastClosed(h, h[j].past)
  <2>1. \A j \in C : j \in DOMAIN h
    OBVIOUS
  <2> QED
    BY <2>1, PastKnown DEF PastClosed
<1> HIDE DEF X, Y, C
<1>6. \A P, Q : Args(h, P \cup Q) = Args(h, P) \cup Args(h, Q)
  BY DEF Args
<1>7. MvMerge(Args(h, X), Args(h, Y)) = Args(h, {i \in X : \A j \in Y : i \notin h[j].past})
                                          \cup Args(h, {j \in Y : \A i \in X : j \notin h[i].past})
  BY <1>2, <1>3 DEF MvMerge
<1>8. \A u \in Args(h, X) \cup Args(h, Y) : \E i \in C : u = h[i].arg
  BY <1>3 DEF Args
<1>9. \A i, j, k \in C : i \in h[j].past /\ j \in h[k].past => i \in h[k].past
  BY <1>5 DEF PastClosed
<1>10. \A u, v, x \in Args(h, X) \cup Args(h, Y) :
          HappenedBefore(u.clock, v.clock) /\ HappenedBefore(v.clock, x.clock)
            => HappenedBefore(u.clock, x.clock)
  BY <1>1, <1>8, <1>9
<1>11. \A u \in Args(h, X) : ~ HappenedBefore(u.clock, u.clock)
  BY <1>1, <1>5, <1>8
<1>12. \A u, v \in Args(h, Y) : ~ HappenedBefore(u.clock, v.clock)
  BY <1>1, <1>3 DEF Args
<1>13. \A v \in Args(h, X) \cup Args(h, Y), w \in Args(h, Y) : v.value = w.value =>
          v = w \/ HappenedBefore(v.clock, w.clock) \/ HappenedBefore(w.clock, v.clock)
  BY <1>1, <1>5, <1>8 DEF NoClash
<1>14. IsFiniteSet(Args(h, Y))
  <2>1. IsFiniteSet(Y)
    BY <1>3, KnownFinite
  <2>2. [j \in Y |-> h[j].arg] \in Surjection(Y, Args(h, Y))
    BY DEF Args, Surjection
  <2> QED
    BY <2>1, <2>2, FS_Surjection
<1>15. m = MvMerge(Args(h, X), Args(h, Y))
  <2>1. m \in MvMerges(Args(h, X), Args(h, Y))
    BY DEF X, Y
  <2> QED
    BY <1>10, <1>11, <1>12, <1>13, <1>14, <2>1, MvMergesOne
<1> QED
  BY <1>4, <1>6, <1>7, <1>15 DEF X, Y

\* The largest entries of the clocks a register shows count all it has seen.
ShownClock(shown) ==
    [m \in UNION {DOMAIN c : c \in shown} |->
       CHOOSE v \in {VcGet(c, m) : c \in shown} : \A c \in shown : v >= VcGet(c, m)]

LEMMA KnownClock ==
    ASSUME NEW h, WellFormed(h), NEW S \in SUBSET DOMAIN h, PastClosed(h, S)
    PROVE  ShownClock({ClockOf(h, Past(h, i)) : i \in Maximal(h, S)}) = ClockOf(h, S)
<1> DEFINE shown == {ClockOf(h, Past(h, i)) : i \in Maximal(h, S)}
<1>1. \A i \in Maximal(h, S) : /\ i \in S /\ Past(h, i) \subseteq S
                               /\ Past(h, i) \in SUBSET DOMAIN h /\ PastClosed(h, Past(h, i))
  <2>1. \A i \in Maximal(h, S) : i \in S /\ i \in DOMAIN h
    BY DEF Maximal
  <2> QED
    BY <2>1, PastKnown DEF Past, PastClosed
<1>2. ASSUME NEW m
      PROVE  /\ \A c \in shown : VcGet(c, m) \in Nat /\ VcGet(c, m) <= Cardinality(At(h, S, m))
             /\ \A c \in shown : m \in DOMAIN c => m \in Node /\ At(h, S, m) # {}
  <2> SUFFICES ASSUME NEW i \in Maximal(h, S)
               PROVE  LET c == ClockOf(h, Past(h, i))
                      IN  /\ VcGet(c, m) \in Nat /\ VcGet(c, m) <= Cardinality(At(h, S, m))
                          /\ m \in DOMAIN c => m \in Node /\ At(h, S, m) # {}
    OBVIOUS
  <2> DEFINE P == Past(h, i)
  <2>1. P \in SUBSET DOMAIN h /\ P \subseteq S
    BY <1>1
  <2> HIDE DEF P
  <2>2. /\ VcGet(ClockOf(h, P), m) = Cardinality(At(h, P, m)) /\ Cardinality(At(h, P, m)) \in Nat
        /\ m \in DOMAIN ClockOf(h, P) <=> At(h, P, m) # {}
        /\ m \in DOMAIN ClockOf(h, P) => m \in Node
    BY <2>1, ClockGet
  <2>3. At(h, P, m) \subseteq At(h, S, m) /\ At(h, S, m) \in SUBSET DOMAIN h
    BY <2>1 DEF At
  <2>4. Cardinality(At(h, P, m)) <= Cardinality(At(h, S, m))
    BY <2>3, KnownFinite, FS_Subset
  <2> QED
    BY <2>2, <2>3, <2>4 DEF P
<1>3. ASSUME NEW m, At(h, S, m) # {}
      PROVE  /\ m \in Node
             /\ \E c \in shown : m \in DOMAIN c /\ VcGet(c, m) = Cardinality(At(h, S, m))
  <2>1. PICK len \in Nat : DOMAIN h = 1..len
    BY DEF WellFormed
  <2>2. At(h, S, m) \in SUBSET Nat /\ \A k \in At(h, S, m) : k <= len
    BY <2>1 DEF At
  <2>3. PICK g \in At(h, S, m) : \A k \in At(h, S, m) : k <= g
    BY <1>3, <2>1, <2>2, GreatestNat
  <2>4. g \in S /\ h[g].at = m /\ g \in DOMAIN h
    BY <2>3 DEF At
  <2>5. PICK i \in Maximal(h, S) : g \in Past(h, i)
    BY <2>4, BelowMaximal
  <2>6. At(h, Past(h, i), m) = At(h, S, m)
    <3>1. ASSUME NEW k \in At(h, S, m) PROVE k \in Past(h, i)
      <4>1. k = g \/ k \in 1..(g - 1)
        <5>1. k \in Nat /\ k <= g /\ k \in DOMAIN h /\ g \in Nat
          BY <2>2, <2>3, <3>1 DEF At
        <5> QED
          BY <2>1, <5>1
      <4>2. k \in 1..(g - 1) => k \in h[g].past
        BY <2>4, <3>1 DEF WellFormed, At
      <4>3. h[g].past \subseteq Past(h, i)
        BY <1>1, <2>5 DEF PastClosed
      <4> QED
        BY <2>5, <4>1, <4>2, <4>3
    <3>2. Past(h, i) \subseteq S
      BY <1>1
    <3> QED
      BY <3>1, <3>2 DEF At
  <2>7. Past(h, i) \in SUBSET DOMAIN h
    BY <1>1
  <2>8. /\ VcGet(ClockOf(h, Past(h, i)), m) = Cardinality(At(h, S, m))
        /\ m \in DOMAIN ClockOf(h, Past(h, i)) /\ m \in Node
    BY <1>3, <2>6, <2>7, ClockGet
  <2> QED
    BY <2>8
<1> HIDE DEF shown
<1>4. UNION {DOMAIN c : c \in shown} = {m \in Node : At(h, S, m) # {}}
  BY <1>2, <1>3
<1>5. ASSUME NEW m \in Node, At(h, S, m) # {}
      PROVE  (CHOOSE v \in {VcGet(c, m) : c \in shown} : \A c \in shown : v >= VcGet(c, m))
               = Cardinality(At(h, S, m))
  <2> DEFINE K == Cardinality(At(h, S, m))
             V == {VcGet(c, m) : c \in shown}
             Best(v) == \A c \in shown : v >= VcGet(c, m)
  <2>1. K \in V /\ Best(K)
    BY <1>2, <1>3, <1>5
  <2>2. \A v \in V : Best(v) => v = K
    BY <1>2, <1>3, <1>5
  <2> HIDE DEF K, V, Best
  <2>3. (CHOOSE v \in V : Best(v)) = K
    BY <2>1, <2>2
  <2> QED
    BY <2>3 DEF K, V, Best
<1>6. ShownClock(shown) = ClockOf(h, S)
  BY <1>4, <1>5 DEF ShownClock, ClockOf
<1> QED
  BY <1>6 DEF shown

\* Of a history h: the write i has the clock it should have; and a replica
\* shows the writes that none of the others came after.
Stamps(h, i) == NoClash(h, Past(h, i)) => h[i].arg.clock = ClockOf(h, Past(h, i))
MvShows(h, x) == NoClash(h, x.seen) => x.rep = Args(h, Maximal(h, x.seen))

LEMMA MvInit == CrdtInit => MvInv
<1> SUFFICES ASSUME CrdtInit, kind = "mv" PROVE MvInv
  BY DEF MvInv
<1>1. DOMAIN log = {} /\ \A x \in Replicas : x.seen = {} /\ x.rep = {}
  BY InitReplicas, NewOf
<1>2. Args(log, Maximal(log, {})) = {}
  BY DEF Args, Maximal
<1> QED
  BY <1>1, <1>2 DEF MvInv

LEMMA MvStep == HistoryInv /\ MvInv /\ [CrdtNext]_crdtVars => MvInv'
<1> SUFFICES ASSUME HistoryInv, MvInv, [CrdtNext]_crdtVars, kind = "mv"
             PROVE  MvInv'
  BY KindKept DEF MvInv
<1>1. \A i \in DOMAIN log : Stamps(log, i)
  BY DEF MvInv, Stamps
<1>2. \A x \in Replicas : /\ MvShows(log, x)
                          /\ x.seen \in SUBSET DOMAIN log /\ PastClosed(log, x.seen)
  BY DEF MvInv, HistoryInv, MvShows
<1> DEFINE Kept == /\ \A i \in DOMAIN log' : Stamps(log', i)
                   /\ \A x \in Replicas' : MvShows(log', x)
<1> SUFFICES Kept
  BY DEF MvInv, Stamps, MvShows
<1>3. CASE UNCHANGED crdtVars \/ \E n \in Node : Send(n)
  <2>1. log' = log /\ Replicas' \subseteq Replicas
    BY <1>3, SendHistory
  <2> QED
    BY <1>1, <1>2, <2>1
<1>4. ASSUME NEW n \in Node, Merge(n) PROVE Kept
  <2>1. log' = log
    BY <1>4, MergeHistory
  <2>2. PICK a \in Replicas, b \in Replicas :
          \A x \in Replicas' :
             x \in Replicas \/ (x.rep \in Merges(a.rep, b.rep) /\ x.seen = a.seen \cup b.seen)
    BY <1>4, MergeHistory
  <2>3. Merges(a.rep, b.rep) = MvMerges(a.rep, b.rep)
    BY DEF Merges
  <2>4. /\ a.seen \in SUBSET DOMAIN log /\ PastClosed(log, a.seen) /\ MvShows(log, a)
        /\ b.seen \in SUBSET DOMAIN log /\ PastClosed(log, b.seen) /\ MvShows(log, b)
    BY <1>2
  <2>5. ASSUME NEW m \in MvMerges(a.rep, b.rep), NoClash(log, a.seen \cup b.seen)
        PROVE  m = Args(log, Maximal(log, a.seen \cup b.seen))
    <3>1. NoClash(log, a.seen) /\ NoClash(log, b.seen)
      BY <2>5 DEF NoClash
    <3>2. m \in MvMerges(Args(log, Maximal(log, a.seen)), Args(log, Maximal(log, b.seen)))
      BY <2>4, <2>5, <3>1 DEF MvShows
    <3>3. \A i \in DOMAIN log : NoClash(log, Past(log, i)) => log[i].arg.clock = ClockOf(log, Past(log, i))
      BY <1>1 DEF Stamps
    <3> QED
      BY <2>4, <2>5, <3>2, <3>3, LogIsWellFormed, MvMergeOf
  <2>6. \A x \in Replicas' : MvShows(log, x)
    BY <1>2, <2>2, <2>3, <2>5 DEF MvShows
  <2> QED
    BY <1>1, <2>1, <2>6
<1>5. ASSUME NEW n \in Node, NEW e \in MvValue, MvWrite(n, e) PROVE Kept
  <2> DEFINE S == seen[n]
             new == Len(log) + 1
             shown == {v.clock : v \in rep[n]}
             own == Cardinality({i \in DOMAIN log : log[i].at = n}) + 1
             w == [value |-> e, clock |-> VcSet(ShownClock(shown), n, own)]
             r == MvSet(rep[n], w)
  <2>0. Update(n, r, LogEntry(n, "set", w))
    BY <1>5 DEF MvWrite, ShownClock
  <2>1. /\ HistoryInv' /\ Made(n, "set", w, S, r)
        /\ S \in SUBSET DOMAIN log /\ PastClosed(log, S) /\ [rep |-> rep[n], seen |-> S] \in Replicas
    BY <2>0, UpdateMakes
  <2>2. /\ GrowLog /\ new \notin DOMAIN log /\ DOMAIN log' = DOMAIN log \cup {new}
        /\ \A x \in Replicas' : x \in Replicas \/ (x.rep = r /\ x.seen = S \cup {new})
        /\ log'[new] = [at |-> n, op |-> "set", arg |-> w, past |-> S]
    BY <2>1 DEF Made
  <2>3. log'[new].at = n /\ log'[new].arg = w /\ log'[new].past = S /\ Past(log', new) = S \cup {new}
    BY <2>2 DEF Past
  <2>4. WellFormed(log) /\ WellFormed(log')
    BY <2>1, LogIsWellFormed, NextIsWellFormed
  <2>5. \A T \in SUBSET DOMAIN log : NoClash(log', T) <=> NoClash(log, T)
    <3>1. \A i \in DOMAIN log : log'[i] = log[i]
      BY <2>2 DEF GrowLog
    <3> QED
      BY <3>1 DEF NoClash
  <2>6. \A i \in DOMAIN log : Stamps(log', i)
    <3> SUFFICES ASSUME NEW i \in DOMAIN log PROVE Stamps(log', i)
      OBVIOUS
    <3>1. /\ log'[i] = log[i] /\ Past(log', i) = Past(log, i)
          /\ ClockOf(log', Past(log', i)) = ClockOf(log, Past(log, i))
      BY <2>2, PastOld
    <3>2. Past(log, i) \in SUBSET DOMAIN log
      BY <2>4, PastKnown
    <3> QED
      BY <1>1, <2>5, <3>1, <3>2 DEF Stamps
  <2>7. ASSUME NEW x \in Replicas PROVE MvShows(log', x)
    <3>1. x.seen \in SUBSET DOMAIN log /\ MvShows(log, x)
      BY <1>2
    <3>2. \A i \in x.seen : log'[i] = log[i]
      BY <2>2, <3>1 DEF GrowLog
    <3>3. Maximal(log', x.seen) = Maximal(log, x.seen) /\ Maximal(log, x.seen) \subseteq x.seen
      BY <3>2 DEF Maximal
    <3>4. Args(log', Maximal(log, x.seen)) = Args(log, Maximal(log, x.seen))
      BY <3>2, <3>3 DEF Args
    <3> QED
      BY <2>5, <3>1, <3>3, <3>4 DEF MvShows
  <2>8. ASSUME NoClash(log', S \cup {new})
        PROVE  /\ w.clock = ClockOf(log', S \cup {new})
               /\ r = Args(log', Maximal(log', S \cup {new}))
    <3>1. NoClash(log, S)
      <4>1. NoClash(log', S)
        BY <2>8 DEF NoClash
      <4> QED
        BY <2>1, <2>5, <4>1
    <3>2. rep[n] = Args(log, Maximal(log, S))
      <4> DEFINE x == [rep |-> rep[n], seen |-> S]
      <4>1. MvShows(log, x) /\ x.rep = rep[n] /\ x.seen = S
        BY <1>2, <2>1
      <4> QED
        BY <3>1, <4>1 DEF MvShows
    <3>3. \A i \in S : log[i].arg.clock = ClockOf(log, Past(log, i))
      <4>1. \A i \in S : i \in DOMAIN log /\ Past(log, i) \subseteq S
        BY <2>1 DEF Past, PastClosed
      <4>2. \A i \in S : NoClash(log, Past(log, i))
        BY <3>1, <4>1 DEF NoClash
      <4> QED
        BY <1>1, <4>1, <4>2 DEF Stamps
    <3>4. shown = {ClockOf(log, Past(log, i)) : i \in Maximal(log, S)}
      <4>1. \A i \in Maximal(log, S) : log[i].arg.clock = ClockOf(log, Past(log, i))
        BY <3>3 DEF Maximal
      <4>2. shown = {log[i].arg.clock : i \in Maximal(log, S)}
        BY <3>2 DEF Args
      <4> HIDE DEF shown
      <4> QED
        BY <4>1, <4>2
    <3>5. ShownClock(shown) = ClockOf(log, S)
      BY <2>1, <2>4, <3>4, KnownClock
    <3>6. {i \in DOMAIN log : log[i].at = n} = At(log, S, n)
      BY <2>1 DEF HistoryInv, At
    <3>7. ClockOf(log', S) = ClockOf(log, S) /\ At(log', S, n) = At(log, S, n)
      BY <2>1, <2>2, OldEntries
    <3>8. VcSet(ClockOf(log', S), n, Cardinality(At(log', S, n)) + 1) = ClockOf(log', S \cup {new})
      <4>1. VcSet(ClockOf(log', S), log'[new].at, Cardinality(At(log', S, log'[new].at)) + 1)
              = ClockOf(log', S \cup {new})
        BY <2>1, <2>2, <2>4, ClockNext
      <4> QED
        BY <2>3, <4>1
    <3>9. w.clock = ClockOf(log', S \cup {new})
      BY <3>5, <3>6, <3>7, <3>8
    <3> HIDE DEF w, shown, own, r
    <3>10. \A i \in Maximal(log, S) : HappenedBefore(log[i].arg.clock, w.clock)
      <4> SUFFICES ASSUME NEW i \in Maximal(log, S) PROVE HappenedBefore(log[i].arg.clock, w.clock)
        OBVIOUS
      <4>1. i \in S /\ i \in DOMAIN log
        BY <2>1 DEF Maximal
      <4>2. i \in DOMAIN log' /\ new \in DOMAIN log' /\ i \in log'[new].past
        BY <2>2, <2>3, <4>1
      <4>3. HappenedBefore(ClockOf(log', Past(log', i)), ClockOf(log', Past(log', new)))
        BY <2>4, <4>2, ClockOrder
      <4>4. ClockOf(log', Past(log', i)) = log[i].arg.clock
        BY <2>2, <3>3, <4>1, PastOld
      <4> QED
        BY <2>3, <3>9, <4>3, <4>4
    <3>11. r = {w}
      <4>1. \A v \in rep[n] : HappenedBefore(v.clock, w.clock)
        BY <3>2, <3>10 DEF Args
      <4> QED
        BY <4>1 DEF r, MvSet
    <3>12. Maximal(log', S \cup {new}) = {new}
      <4>1. \A i \in S : i \in log'[new].past
        BY <2>3
      <4>2. \A j \in S \cup {new} : new \notin log'[j].past
        <5>1. \A j \in S \cup {new} : j \in DOMAIN log'
          BY <2>1, <2>2
        <5>2. \A j \in S : log'[j].past \subseteq S
          BY <2>1, <2>2, OldEntries DEF PastClosed
        <5>3. new \notin S
          BY <2>1, <2>2
        <5> QED
          BY <2>3, <5>2, <5>3
      <4> QED
        BY <4>1, <4>2 DEF Maximal
    <3>13. r = Args(log', Maximal(log', S \cup {new}))
      BY <2>3, <3>11, <3>12 DEF Args
    <3> QED
      BY <3>9, <3>13
  <2>9. Stamps(log', new)
    <3> HIDE DEF w, new
    <3> QED
      BY <2>3, <2>8 DEF Stamps
  <2>10. \A x \in Replicas' : MvShows(log', x)
    <3> HIDE DEF r, new
    <3> QED
      BY <2>2, <2>7, <2>8 DEF MvShows
  <2> QED
    BY <2>2, <2>6, <2>9, <2>10
<1> QED
  BY <1>3, <1>4, <1>5, StepOfType

-----------------------------------------------------------------------------
(* Clocks.                                                                 *)

\* The timestamps of an event exceed those of another.
Exceeds(c, d) ==
    /\ d.hlc.physical < c.hlc.physical
         \/ (d.hlc.physical = c.hlc.physical /\ d.hlc.logical < c.hlc.logical)
    /\ d.lamport < c.lamport
Stamped(c) == c.hlc \in Hlc /\ c.lamport \in Nat

\* To tick exceeds what the clock was, to receive also the timestamp received.
LEMMA TickExceeds ==
    ASSUME NEW a, Stamped(a), NEW t \in Nat,
           NEW c, c.hlc = HlcTick(a.hlc, t), c.lamport = a.lamport + 1
    PROVE  Stamped(c) /\ Exceeds(c, a)
<1> DEFINE h == HlcTick(a.hlc, t)
<1>1. a.hlc \in Hlc /\ a.hlc.physical \in Nat /\ a.hlc.logical \in Nat
      /\ a.hlc = [physical |-> a.hlc.physical, logical |-> a.hlc.logical]
  BY DEF Stamped, Hlc
<1>2. h \in Hlc /\ (a.hlc.physical < h.physical
                      \/ (a.hlc.physical = h.physical /\ a.hlc.logical < h.logical))
  BY <1>1 DEF HlcTick, Hlc
<1>3. c.hlc = h /\ a.lamport \in Nat /\ c.lamport = a.lamport + 1
  BY DEF Stamped
<1> HIDE DEF h
<1> QED
  BY <1>2, <1>3 DEF Stamped, Exceeds

LEMMA ReceiveExceeds ==
    ASSUME NEW a, Stamped(a), NEW b, Stamped(b), NEW t \in Nat,
           NEW c, c.hlc = HlcReceive(a.hlc, b.hlc, t), c.lamport = LamportReceive(a.lamport, b.lamport)
    PROVE  Stamped(c) /\ Exceeds(c, a) /\ Exceeds(c, b)
<1> DEFINE h == HlcReceive(a.hlc, b.hlc, t)
           l == LamportReceive(a.lamport, b.lamport)
<1>1. /\ a.hlc.physical \in Nat /\ a.hlc.logical \in Nat
      /\ a.hlc = [physical |-> a.hlc.physical, logical |-> a.hlc.logical]
      /\ b.hlc.physical \in Nat /\ b.hlc.logical \in Nat
  BY DEF Stamped, Hlc
<1>2. /\ h \in Hlc
      /\ a.hlc.physical < h.physical \/ (a.hlc.physical = h.physical /\ a.hlc.logical < h.logical)
      /\ b.hlc.physical < h.physical \/ (b.hlc.physical = h.physical /\ b.hlc.logical < h.logical)
  BY <1>1 DEF HlcReceive, Hlc, Larger
<1>3. l \in Nat /\ a.lamport < l /\ b.lamport < l
  BY DEF LamportReceive, Larger, Stamped
<1>4. c.hlc = h /\ c.lamport = l
  OBVIOUS
<1> HIDE DEF h, l
<1> QED
  BY <1>2, <1>3, <1>4 DEF Stamped, Exceeds

\* What has reached a timestamp is exceeded by what exceeds that.
LEMMA ExceedsReached ==
    ASSUME NEW h, NEW S, NEW a, Stamped(a), Reached(h, S, a), NEW c, Stamped(c), Exceeds(c, a),
           \A i \in S : Stamped(h[i].arg)
    PROVE  \A i \in S : Exceeds(c, h[i].arg)
<1> SUFFICES ASSUME NEW i \in S PROVE Exceeds(c, h[i].arg)
  OBVIOUS
<1> DEFINE d == h[i].arg
<1>1. HlcReached(a.hlc, d.hlc) /\ d.lamport <= a.lamport /\ Stamped(d)
  BY DEF Reached
<1> HIDE DEF d
<1>2. Exceeds(c, d)
  BY <1>1 DEF HlcReached, Stamped, Hlc, Exceeds
<1> QED
  BY <1>2 DEF d

LEMMA ExceedsHasReached ==
    ASSUME NEW c, Stamped(c), NEW d, Stamped(d), Exceeds(c, d)
    PROVE  HlcReached(c.hlc, d.hlc) /\ d.lamport <= c.lamport
BY DEF Exceeds, HlcReached, Stamped, Hlc

LEMMA ExceedsPassed ==
    ASSUME NEW a, NEW b, Exceeds(a.arg, b.arg)
    PROVE  Passed(a, b)
BY DEF Exceeds, Passed, HlcBefore

LEMMA ClockInit == CrdtInit => ClockInv
<1> SUFFICES ASSUME CrdtInit, kind = "clock" PROVE ClockInv
  BY DEF ClockInv
<1>1. DOMAIN log = {} /\ \A x \in Replicas : x.seen = {} /\ x.rep = [vc |-> <<>>,
                                hlc |-> [physical |-> 1, logical |-> 0], lamport |-> 0]
  BY InitReplicas, NewOf
<1>2. ClockOf(log, {}) = <<>>
  BY DEF ClockOf, At
<1>3. \A x \in Replicas : /\ x.rep.hlc = [physical |-> 1, logical |-> 0] /\ x.rep.lamport = 0
                          /\ x.rep.vc = ClockOf(log, x.seen) /\ x.seen = {}
  <2> SUFFICES ASSUME NEW x \in Replicas
               PROVE  /\ x.rep.hlc = [physical |-> 1, logical |-> 0] /\ x.rep.lamport = 0
                      /\ x.rep.vc = ClockOf(log, x.seen) /\ x.seen = {}
    OBVIOUS
  <2>1. x.seen = {} /\ x.rep = [vc |-> <<>>, hlc |-> [physical |-> 1, logical |-> 0], lamport |-> 0]
    BY <1>1
  <2>2. x.rep.vc = <<>> /\ x.rep.hlc = [physical |-> 1, logical |-> 0] /\ x.rep.lamport = 0
    BY <2>1
  <2> QED
    BY <1>2, <2>1, <2>2
<1> QED
  BY <1>1, <1>3 DEF ClockInv, Hlc, Reached

\* An event at n that is counted and that exceeds all that is known to it.
LEMMA ClockMakes ==
    ASSUME HistoryInv, ClockInv, kind = "clock", NEW n \in Node, NEW op, NEW c,
           NEW S \in SUBSET DOMAIN log, PastClosed(log, S), HistoryInv', Made(n, op, c, S, c),
           Stamped(c), c.vc = VcIncrement(ClockOf(log, S), n), \A i \in S : Exceeds(c, log[i].arg)
    PROVE  ClockInv'
<1> DEFINE new == Len(log) + 1
<1>1. /\ GrowLog /\ new \notin DOMAIN log /\ DOMAIN log' = DOMAIN log \cup {new}
      /\ \A x \in Replicas' : x \in Replicas \/ (x.rep = c /\ x.seen = S \cup {new})
      /\ log'[new] = [at |-> n, op |-> op, arg |-> c, past |-> S]
  BY DEF Made
<1>2. log'[new].at = n /\ log'[new].arg = c /\ log'[new].past = S /\ Past(log', new) = S \cup {new}
  BY <1>1 DEF Past
<1>3. WellFormed(log) /\ WellFormed(log')
  BY LogIsWellFormed, NextIsWellFormed
<1>4. /\ \A i \in DOMAIN log : /\ Stamped(log[i].arg) /\ log[i].arg.vc = ClockOf(log, Past(log, i))
                               /\ \A j \in log[i].past : Passed(log[i], log[j])
      /\ \A x \in Replicas : /\ Stamped(x.rep) /\ x.rep.vc = ClockOf(log, x.seen)
                             /\ Reached(log, x.seen, x.rep) /\ x.seen \in SUBSET DOMAIN log
  BY DEF ClockInv, Stamped, HistoryInv
<1>5. c.vc = ClockOf(log', S \cup {new})
  <2>1. ClockOf(log', S) = ClockOf(log, S) /\ At(log', S, n) = At(log, S, n)
    BY <1>1, OldEntries
  <2>2. c.vc = VcSet(ClockOf(log', S), n, Cardinality(At(log', S, n)) + 1)
    BY <1>3, <2>1, ClockGet DEF VcIncrement
  <2>3. VcSet(ClockOf(log', S), log'[new].at, Cardinality(At(log', S, log'[new].at)) + 1)
          = ClockOf(log', S \cup {new})
    BY <1>1, <1>3, ClockNext
  <2> QED
    BY <1>2, <2>2, <2>3
<1>6. \A i \in S : i \in DOMAIN log /\ log'[i] = log[i] /\ Exceeds(c, log'[i].arg)
  BY <1>1 DEF GrowLog
<1>7. ASSUME NEW i \in DOMAIN log'
      PROVE  /\ Stamped(log'[i].arg) /\ log'[i].arg.vc = ClockOf(log', Past(log', i))
             /\ \A j \in log'[i].past : Passed(log'[i], log'[j])
  <2>1. CASE i \in DOMAIN log
    <3>1. log'[i] = log[i] /\ ClockOf(log', Past(log', i)) = ClockOf(log, Past(log, i))
      BY <1>1, <2>1, PastOld
    <3>2. \A j \in log[i].past : log'[j] = log[j]
      BY <1>1, <1>3, <2>1, PastKnown DEF GrowLog
    <3> QED
      BY <1>4, <2>1, <3>1, <3>2
  <2>2. CASE i = new
    BY <1>2, <1>5, <1>6, <2>2, ExceedsPassed
  <2> QED
    BY <1>1, <2>1, <2>2
<1>8. ASSUME NEW x \in Replicas'
      PROVE  Stamped(x.rep) /\ x.rep.vc = ClockOf(log', x.seen) /\ Reached(log', x.seen, x.rep)
  <2>1. CASE x \in Replicas
    <3>1. ClockOf(log', x.seen) = ClockOf(log, x.seen) /\ \A i \in x.seen : log'[i] = log[i]
      BY <1>1, <1>4, <2>1, OldEntries
    <3> QED
      BY <1>4, <2>1, <3>1 DEF Reached
  <2>2. CASE x.rep = c /\ x.seen = S \cup {new}
    <3>1. \A i \in S : HlcReached(c.hlc, log'[i].arg.hlc) /\ log'[i].arg.lamport <= c.lamport
      <4>1. \A i \in S : Stamped(log'[i].arg)
        BY <1>1, <1>4, <1>6
      <4> QED
        BY <1>6, <4>1, ExceedsHasReached
    <3>2. HlcReached(c.hlc, c.hlc) /\ c.lamport <= c.lamport
      BY DEF Stamped, Hlc, HlcReached
    <3> QED
      BY <1>2, <1>5, <2>2, <3>1, <3>2 DEF Reached
  <2> QED
    BY <1>1, <2>1, <2>2
<1> QED
  BY <1>7, <1>8 DEF ClockInv, Stamped

LEMMA ClockStep == HistoryInv /\ ClockInv /\ [CrdtNext]_crdtVars => ClockInv'
<1> SUFFICES ASSUME HistoryInv, ClockInv, [CrdtNext]_crdtVars, kind = "clock"
             PROVE  ClockInv'
  BY KindKept DEF ClockInv
<1>1. \A x \in Replicas : /\ Stamped(x.rep) /\ x.rep.vc = ClockOf(log, x.seen)
                          /\ Reached(log, x.seen, x.rep)
                          /\ x.seen \in SUBSET DOMAIN log /\ PastClosed(log, x.seen)
                          /\ \A i \in x.seen : Stamped(log[i].arg)
  BY DEF ClockInv, Stamped, HistoryInv
<1>2. Time \subseteq Nat
  BY CrdtAssumption DEF Time
<1>3. CASE UNCHANGED crdtVars \/ \E n \in Node : Send(n)
  <2>1. log' = log /\ Replicas' \subseteq Replicas
    BY <1>3, SendHistory
  <2> QED
    BY <2>1 DEF ClockInv
<1>4. ASSUME NEW n \in Node, NEW t \in Time, ClockTick(n, t) PROVE ClockInv'
  <2> DEFINE S == seen[n]
             c == [vc |-> VcIncrement(rep[n].vc, n), hlc |-> HlcTick(rep[n].hlc, t),
                   lamport |-> rep[n].lamport + 1]
  <2>1. Update(n, c, LogEntry(n, "tick", c))
    BY <1>4 DEF ClockTick
  <2>2. /\ HistoryInv' /\ Made(n, "tick", c, S, c)
        /\ S \in SUBSET DOMAIN log /\ PastClosed(log, S) /\ [rep |-> rep[n], seen |-> S] \in Replicas
    BY <2>1, UpdateMakes
  <2>3. /\ Stamped(rep[n]) /\ rep[n].vc = ClockOf(log, S) /\ Reached(log, S, rep[n])
        /\ \A i \in S : Stamped(log[i].arg)
    BY <1>1, <2>2
  <2>4. Stamped(c) /\ Exceeds(c, rep[n])
    <3>1. c.hlc = HlcTick(rep[n].hlc, t) /\ c.lamport = rep[n].lamport + 1 /\ t \in Nat
      BY <1>2
    <3> HIDE DEF c
    <3> QED
      BY <2>3, <3>1, TickExceeds
  <2>5. c.vc = VcIncrement(ClockOf(log, S), n)
    BY <2>3
  <2> HIDE DEF c, S
  <2>6. \A i \in S : Exceeds(c, log[i].arg)
    BY <2>3, <2>4, ExceedsReached
  <2> QED
    BY <2>2, <2>4, <2>5, <2>6, ClockMakes
<1>5. ASSUME NEW n \in Node, NEW t \in Time, ClockReceive(n, t) PROVE ClockInv'
  <2> DEFINE cc(s) == [vc |-> VcIncrement(VcMerge(rep[n].vc, s.rep.vc), n),
                       hlc |-> HlcReceive(rep[n].hlc, s.rep.hlc, t),
                       lamport |-> LamportReceive(rep[n].lamport, s.rep.lamport)]
  <2>1. PICK s \in snapshots :
                 /\ Happens(n, "receive", cc(s), seen[n] \cup s.seen, cc(s))
                 /\ [rep |-> rep[n], seen |-> seen[n]] \in Replicas /\ s \in Replicas
                 /\ seen[n] \in SUBSET DOMAIN log /\ PastClosed(log, seen[n])
                 /\ s.seen \in SUBSET DOMAIN log /\ PastClosed(log, s.seen)
    BY <1>5, ReceiveHappens
  <2> DEFINE A == seen[n]
             B == s.seen
             S == A \cup B
             c == cc(s)
  <2>2. /\ S \in SUBSET DOMAIN log /\ PastClosed(log, S) /\ seen[n] \subseteq S
    BY <2>1 DEF PastClosed
  <2>3. Happens(n, "receive", c, S, c)
    BY <2>1
  <2>4. /\ Stamped(rep[n]) /\ rep[n].vc = ClockOf(log, A) /\ Reached(log, A, rep[n])
        /\ Stamped(s.rep) /\ s.rep.vc = ClockOf(log, B) /\ Reached(log, B, s.rep)
        /\ \A i \in S : Stamped(log[i].arg)
    BY <1>1, <2>1
  <2>5. Stamped(c) /\ Exceeds(c, rep[n]) /\ Exceeds(c, s.rep)
    <3>1. /\ c.hlc = HlcReceive(rep[n].hlc, s.rep.hlc, t)
          /\ c.lamport = LamportReceive(rep[n].lamport, s.rep.lamport) /\ t \in Nat
      BY <1>2
    <3> HIDE DEF c
    <3> QED
      BY <2>4, <3>1, ReceiveExceeds
  <2>6. VcMerge(rep[n].vc, s.rep.vc) = ClockOf(log, S)
    BY <2>1, <2>4, LogIsWellFormed, ClockJoin
  <2>7. c.vc = VcIncrement(ClockOf(log, S), n)
    BY <2>6
  <2>8. /\ \A i \in A : Stamped(log[i].arg)
        /\ \A i \in B : Stamped(log[i].arg)
        /\ \A i \in S : i \in A \/ i \in B
    BY <2>4
  <2> HIDE DEF c, S, A, B, cc
  <2>9. \A i \in S : Exceeds(c, log[i].arg)
    <3>1. \A i \in A : Exceeds(c, log[i].arg)
      BY <2>4, <2>5, <2>8, ExceedsReached
    <3>2. \A i \in B : Exceeds(c, log[i].arg)
      BY <2>4, <2>5, <2>8, ExceedsReached
    <3> QED
      BY <2>8, <3>1, <3>2
  <2>10. HistoryInv' /\ Made(n, "receive", c, S, c)
    BY <2>2, <2>3, HappensHistory
  <2> QED
    BY <2>2, <2>5, <2>7, <2>9, <2>10, ClockMakes
<1> QED
  BY <1>3, <1>4, <1>5, StepOfType DEF Merge

-----------------------------------------------------------------------------
(* The theorems about the replicated data types.                           *)

LEMMA CrdtInvInit == CrdtInit => CrdtInv
BY HistoryInit, CounterInit, TwoPSetInit, LwwInit, MapInit, MvInit, OrSetInit, ClockInit DEF CrdtInv

LEMMA HistoryStep == HistoryInv /\ [CrdtNext]_crdtVars => HistoryInv'
<1> SUFFICES ASSUME HistoryInv, [CrdtNext]_crdtVars PROVE HistoryInv'
  OBVIOUS
<1>1. CASE UNCHANGED crdtVars \/ \E n \in Node : Send(n)
  BY <1>1, SendHistory
<1>2. ASSUME NEW n \in Node, Merge(n) PROVE HistoryInv'
  BY <1>2, MergeHistory
<1>3. ASSUME NEW n \in Node, NEW op, NEW arg, NEW r, Update(n, r, LogEntry(n, op, arg)) PROVE HistoryInv'
  BY <1>3, UpdateMakes
<1>4. ASSUME NEW n \in Node, Count(n) PROVE HistoryInv'
  BY <1>3, <1>4 DEF Count
<1>5. ASSUME NEW n \in Node, NEW e \in Elem, TwoPAdd(n, e) \/ TwoPRemove(n, e) PROVE HistoryInv'
  BY <1>3, <1>5 DEF TwoPAdd, TwoPRemove
<1>6. ASSUME NEW n \in Node, NEW e \in Elem, OrAdd(n, e) \/ OrRemove(n, e) PROVE HistoryInv'
  BY <1>3, <1>6 DEF OrAdd, OrRemove
<1>7. ASSUME NEW n \in Node, NEW e \in Elem, MapRemove(n, e) PROVE HistoryInv'
  BY <1>3, <1>7 DEF MapRemove
<1>8. ASSUME NEW n \in Node, NEW e \in Elem, NEW t \in Time, MapSet(n, e, t) PROVE HistoryInv'
  BY <1>3, <1>8 DEF MapSet
<1>9. ASSUME NEW n \in Node, NEW t \in Time, LwwSet(n, t) PROVE HistoryInv'
  BY <1>3, <1>9 DEF LwwSet
<1>10. ASSUME NEW n \in Node, NEW e \in MvValue, MvWrite(n, e) PROVE HistoryInv'
  BY <1>3, <1>10 DEF MvWrite
<1>11. ASSUME NEW n \in Node, NEW t \in Time, ClockTick(n, t) PROVE HistoryInv'
  BY <1>3, <1>11 DEF ClockTick
<1>12. ASSUME NEW n \in Node, NEW t \in Time, ClockReceive(n, t) PROVE HistoryInv'
  <2>1. PICK s \in snapshots :
                 /\ \E c : Happens(n, "receive", c, seen[n] \cup s.seen, c)
                 /\ seen[n] \in SUBSET DOMAIN log /\ PastClosed(log, seen[n])
                 /\ s.seen \in SUBSET DOMAIN log /\ PastClosed(log, s.seen)
    BY <1>12, ReceiveHappens
  <2> DEFINE S == seen[n] \cup s.seen
  <2>2. PICK c : Happens(n, "receive", c, S, c)
    BY <2>1
  <2>3. S \in SUBSET DOMAIN log /\ PastClosed(log, S) /\ seen[n] \subseteq S
    BY <2>1 DEF PastClosed
  <2> HIDE DEF S
  <2> QED
    BY <2>2, <2>3, HappensHistory
<1> QED
  BY <1>1, <1>2, <1>4, <1>5, <1>6, <1>7, <1>8, <1>9, <1>10, <1>11, <1>12, StepOfType

\* What a replica holds is settled by the updates it has seen, whatever way
\* their effects took: the inductive invariant of all types.
THEOREM CrdtInvariant == CrdtSpec => []CrdtInv
<1>1. CrdtInv /\ [CrdtNext]_crdtVars => CrdtInv'
  BY HistoryStep, CounterStep, TwoPSetStep, LwwStep, MapStep, MvStep, OrSetStep, ClockStep DEF CrdtInv
<1> QED
  BY <1>1, CrdtInvInit, PTL DEF CrdtSpec

\* Replicas that have seen the same updates are equal.
THEOREM ReplicasConverge == CrdtSpec => []Converges
<1>1. CrdtInv => Converges
  <2> SUFFICES ASSUME CrdtInv, kind # "clock", NEW m \in Node, NEW n \in Node, seen[m] = seen[n],
                      kind \in {"orset", "map"} => Removes(seen[n]) = {},
                      kind = "mv" => NoClash(log, seen[n])
               PROVE  rep[m] = rep[n]
    BY DEF Converges, Harmless
  <2> DEFINE a == [rep |-> rep[m], seen |-> seen[m]]
             b == [rep |-> rep[n], seen |-> seen[n]]
             S == seen[n]
  <2>1. a \in Replicas /\ b \in Replicas /\ a.rep = rep[m] /\ b.rep = rep[n] /\ a.seen = S /\ b.seen = S
    BY DEF Replicas
  <2>2. HistoryInv /\ S \in SUBSET DOMAIN log /\ PastClosed(log, S)
    BY <2>1 DEF CrdtInv, HistoryInv
  <2>3. kind \in {"counter", "twopset", "lww", "mv", "orset", "map", "clock"}
    BY <2>2, CrdtAssumption DEF HistoryInv
  <2> HIDE DEF a, b, S
  <2>4. CASE kind = "counter"
    <3>1. \A x \in Replicas : x.rep = [positive |-> Counts(log, x.seen, "positive"),
                                       negative |-> Counts(log, x.seen, "negative")]
      BY <2>4 DEF CrdtInv, CounterInv
    <3> QED
      BY <2>1, <3>1
  <2>5. CASE kind = "twopset"
    <3>1. \A x \in Replicas : x.rep = TwoPSetOf(log, x.seen)
      BY <2>5 DEF CrdtInv, TwoPSetInv, TwoPSetOf
    <3> QED
      BY <2>1, <3>1
  <2>6. CASE kind = "mv"
    <3>1. \A x \in Replicas : NoClash(log, x.seen) => x.rep = Args(log, Maximal(log, x.seen))
      BY <2>6 DEF CrdtInv, MvInv
    <3>2. NoClash(log, S)
      BY <2>6 DEF S
    <3> QED
      BY <2>1, <3>1, <3>2
  <2>7. CASE kind = "lww"
    <3> DEFINE I == DOMAIN log
               f == [i \in I |-> log[i].arg]
    <3>1. \A i \in I : f[i] \in WriteOf(log, i)
      BY <2>7 DEF CrdtInv, LwwInv
    <3>2. \A x \in Replicas : Latest(x.rep, Args(log, x.seen))
      BY <2>7 DEF CrdtInv, LwwInv
    <3>3. Given(f, I, S) = Args(log, S)
      BY <2>2 DEF Given, Args
    <3>4. I \in SUBSET DOMAIN log
      OBVIOUS
    <3> HIDE DEF f, I
    <3>5. Latest(rep[m], Given(f, I, S)) /\ Latest(rep[n], Given(f, I, S))
      BY <2>1, <3>2, <3>3
    <3> QED
      BY <2>2, <3>1, <3>4, <3>5, LatestKnown
  <2>8. CASE kind = "map"
    <3>1. \A x \in Replicas : MapShows(log, x)
      BY <2>8 DEF CrdtInv, MapInv, MapShows
    <3>2. \A i \in OfOp(log, DOMAIN log, "set") : log[i].arg.entry \in WriteOf(log, i)
      BY <2>8 DEF CrdtInv, MapInv
    <3>3. \A k \in Elem : On(log, S, "remove", k) = {}
      BY <2>8 DEF On, OfOp, Removes, S
    <3>4. \A k \in Elem : rep[m][k] = rep[n][k]
      <4> SUFFICES ASSUME NEW k \in Elem PROVE a.rep[k] = b.rep[k]
        BY <2>1
      <4>1. On(log, a.seen, "remove", k) = {} /\ On(log, b.seen, "remove", k) = {} /\ a.seen = b.seen
        BY <2>1, <3>3
      <4> QED
        BY <2>1, <2>2, <3>1, <3>2, <4>1, MapMerge
    <3>5. rep[m] = [k \in Elem |-> rep[m][k]] /\ rep[n] = [k \in Elem |-> rep[n][k]]
      BY <2>1, <3>1 DEF MapShows
    <3> QED
      BY <3>4, <3>5
  <2>9. CASE kind = "orset"
    <3>1. \A x \in Replicas : OrShows(log, x)
      BY <2>9 DEF CrdtInv, OrSetInv, OrShows
    <3>2. \A e \in Elem : On(log, S, "remove", e) = {}
      BY <2>9 DEF On, OfOp, Removes, S
    <3>3. \A x \in {a, b} : x.rep = [elements |-> [e \in Elem |-> Tags(log, S, e)],
                                     counters |-> Counts(log, S, "add")]
      <4> SUFFICES ASSUME NEW x \in {a, b} PROVE x.rep = [elements |-> [e \in Elem |-> Tags(log, S, e)],
                                                          counters |-> Counts(log, S, "add")]
        OBVIOUS
      <4>1. OrShows(log, x) /\ x.seen = S
        BY <2>1, <3>1
      <4>2. \A e \in Elem : x.rep.elements[e] = Tags(log, S, e)
        BY <3>2, <4>1 DEF OrShows
      <4>3. [e \in Elem |-> x.rep.elements[e]] = [e \in Elem |-> Tags(log, S, e)]
        BY <4>2
      <4>4. x.rep = [elements |-> [e \in Elem |-> x.rep.elements[e]], counters |-> Counts(log, S, "add")]
        BY <4>1 DEF OrShows
      <4> QED
        BY <4>3, <4>4, Zenon
    <3> QED
      BY <2>1, <3>3
  <2> QED
    BY <2>3, <2>4, <2>5, <2>6, <2>7, <2>8, <2>9
<1> QED
  BY <1>1, CrdtInvariant, PTL

\* Vector clocks order events as they are known to one another, and hybrid and
\* Lamport timestamps go up along that order.
THEOREM ClocksTellCausality == CrdtSpec => []CausalOrder
<1>1. CrdtInv => CausalOrder
  <2> SUFFICES ASSUME CrdtInv, kind = "clock", NEW i \in DOMAIN log, NEW j \in DOMAIN log
               PROVE  /\ (Compare(log[i].arg.vc, log[j].arg.vc) = "before") = (i \in log[j].past)
                      /\ (Compare(log[i].arg.vc, log[j].arg.vc) = "equal") = (i = j)
                      /\ i \in log[j].past =>
                           /\ HlcBefore(log[i].arg.hlc, log[i].at, log[j].arg.hlc, log[j].at)
                           /\ log[i].arg.lamport < log[j].arg.lamport
    BY DEF CausalOrder
  <2>1. WellFormed(log)
    BY LogIsWellFormed DEF CrdtInv
  <2>2. log[i].arg.vc = ClockOf(log, Past(log, i)) /\ log[j].arg.vc = ClockOf(log, Past(log, j))
    BY DEF CrdtInv, ClockInv
  <2>3. \A k \in log[j].past : Passed(log[j], log[k])
    BY DEF CrdtInv, ClockInv
  <2>4. /\ HappenedBefore(log[i].arg.vc, log[j].arg.vc) <=> i \in log[j].past
        /\ VcEquals(log[i].arg.vc, log[j].arg.vc) <=> i = j
    BY <2>1, <2>2, ClockOrder
  <2>5. i \in log[j].past => i # j
    BY <2>1, PastKnown
  <2>6. (Compare(log[i].arg.vc, log[j].arg.vc) = "before") <=> i \in log[j].past
    BY <2>4, <2>5 DEF Compare
  <2>7. (Compare(log[i].arg.vc, log[j].arg.vc) = "equal") <=> i = j
    BY <2>4 DEF Compare
  <2> QED
    BY <2>3, <2>6, <2>7 DEF Passed
<1> QED
  BY <1>1, CrdtInvariant, PTL

\* What Total adds up is settled by its terms.
LEMMA TotalIs ==
    ASSUME NEW f, NEW g, g = [n \in 0..N |-> IF n = 0 THEN 0 ELSE g[n - 1] + f[n]]
    PROVE  Total(f) = g[N]
<1> DEFINE s == CHOOSE x : x = [n \in 0..N |-> IF n = 0 THEN 0 ELSE x[n - 1] + f[n]]
<1>1. s = [n \in 0..N |-> IF n = 0 THEN 0 ELSE s[n - 1] + f[n]]
  <2> DEFINE P(x) == x = [n \in 0..N |-> IF n = 0 THEN 0 ELSE x[n - 1] + f[n]]
  <2>1. P(g)
    OBVIOUS
  <2>2. s = CHOOSE x : P(x)
    OBVIOUS
  <2> HIDE DEF P, s
  <2>3. P(s)
    BY <2>1, <2>2
  <2> QED
    BY <2>3 DEF P
<1>2. Total(f) = s[N]
  BY DEF Total
<1> HIDE DEF s
<1>3. N \in Nat
  BY CrdtAssumption
<1>4. \A n \in 0..N : s[n] = g[n]
  <2> DEFINE T == {n \in 0..N : s[n] # g[n]}
  <2> SUFFICES ASSUME T # {} PROVE FALSE
    OBVIOUS
  <2>1. T \in SUBSET Nat
    BY <1>3
  <2>2. PICK n \in T : \A m \in T : n <= m
    BY <2>1, LeastNat
  <2>3. /\ s[n] = IF n = 0 THEN 0 ELSE s[n - 1] + f[n]
        /\ g[n] = IF n = 0 THEN 0 ELSE g[n - 1] + f[n]
    BY <1>1
  <2>4. n # 0 => n - 1 \in 0..N /\ n - 1 \notin T
    BY <1>3, <2>1, <2>2
  <2> QED
    BY <2>3, <2>4
<1> QED
  BY <1>2, <1>3, <1>4

\* The counts of the nodes add up to the number of updates.
LEMMA TotalCounts ==
    ASSUME NEW h, WellFormed(h), NEW S \in SUBSET DOMAIN h, NEW op
    PROVE  Total(Counts(h, S, op)) = Cardinality(OfOp(h, S, op))
<1> DEFINE X == OfOp(h, S, op)
           UpTo(k) == {i \in X : h[i].at \in 1..k}
           f == Counts(h, S, op)
           g == [k \in 0..N |-> Cardinality(UpTo(k))]
<1>1. N \in Nat
  BY CrdtAssumption
<1>2. X \in SUBSET DOMAIN h /\ \A i \in X : h[i].at \in 1..N
  BY DEF OfOp, WellFormed, Node
<1>3. \A k \in 1..N : f[k] = Cardinality(At(h, X, k))
  BY DEF Counts, Node
<1> HIDE DEF X, f
<1>4. UpTo(0) = {} /\ UpTo(N) = X
  BY <1>2
<1>5. ASSUME NEW k \in 1..N PROVE Cardinality(UpTo(k)) = Cardinality(UpTo(k - 1)) + Cardinality(At(h, X, k))
  <2> DEFINE A == UpTo(k - 1)
             B == At(h, X, k)
  <2>1. A \in SUBSET DOMAIN h /\ B \in SUBSET DOMAIN h
    BY <1>2 DEF At
  <2>2. UpTo(k) = A \cup B
    BY <1>1, <1>2 DEF At
  <2>3. A \cap B = {}
    BY <1>1 DEF At
  <2> HIDE DEF A, B
  <2>4. /\ IsFiniteSet(A) /\ IsFiniteSet(B)
        /\ Cardinality(A) \in Nat /\ Cardinality(B) \in Nat
    BY <2>1, KnownFinite
  <2>5. Cardinality(A \cup B) = Cardinality(A) + Cardinality(B)
    <3>1. Cardinality(A \cup B) = Cardinality(A) + Cardinality(B) - Cardinality(A \cap B)
      BY <2>4, FS_Union, Zenon
    <3>2. Cardinality(A \cap B) = 0
      BY <2>3, FS_EmptySet
    <3> QED
      BY <2>4, <3>1, <3>2
  <2> QED
    BY <2>2, <2>5 DEF A, B
<1>6. Cardinality(UpTo(0)) = 0
  BY <1>4, FS_EmptySet
<1> HIDE DEF UpTo
<1>7. ASSUME NEW k \in 0..N PROVE g[k] = IF k = 0 THEN 0 ELSE g[k - 1] + f[k]
  <2>1. CASE k = 0
    BY <1>6, <2>1
  <2>2. CASE k # 0
    <3>1. k \in 1..N /\ k - 1 \in 0..N
      BY <1>1, <2>2
    <3>2. g[k] = Cardinality(UpTo(k)) /\ g[k - 1] = Cardinality(UpTo(k - 1))
      BY <3>1
    <3> HIDE DEF g
    <3> QED
      BY <1>3, <1>5, <2>2, <3>1, <3>2
  <2> QED
    BY <2>1, <2>2
<1>8. g = [k \in 0..N |-> g[k]] /\ g[N] = Cardinality(X)
  BY <1>1, <1>4
<1> HIDE DEF g
<1>9. g = [k \in 0..N |-> IF k = 0 THEN 0 ELSE g[k - 1] + f[k]]
  BY <1>7, <1>8
<1>10. Total(f) = g[N]
  BY <1>9, TotalIs
<1> QED
  BY <1>8, <1>10 DEF X, f

\* Two adds of one node differ in its counter.
LEMMA TagsDiffer ==
    ASSUME NEW h, WellFormed(h), NEW i \in DOMAIN h, NEW j \in DOMAIN h, i < j,
           h[i].op = "add", h[j].op = "add"
    PROVE  TagOf(h, i) # TagOf(h, j)
<1> SUFFICES ASSUME h[i].at = h[j].at
             PROVE  Counts(h, Past(h, i), "add")[h[i].at] # Counts(h, Past(h, j), "add")[h[i].at]
  BY DEF TagOf
<1> DEFINE n == h[i].at
           X == At(h, OfOp(h, Past(h, i), "add"), n)
           Y == At(h, OfOp(h, Past(h, j), "add"), n)
<1>1. /\ n \in Node /\ i \in Nat /\ j \in Nat
      /\ i \in h[j].past
  <2>1. PICK len \in Nat : DOMAIN h = 1..len
    BY DEF WellFormed
  <2>2. i \in 1..(j - 1) /\ i \in Nat /\ j \in Nat
    BY <2>1
  <2> QED
    BY <2>2 DEF WellFormed
<1>2. /\ Past(h, i) \in SUBSET DOMAIN h /\ Past(h, j) \in SUBSET DOMAIN h
      /\ PastClosed(h, h[j].past) /\ j \notin h[j].past /\ \A k \in h[i].past : k < i
  BY PastKnown
<1>3. Past(h, i) \subseteq Past(h, j) /\ j \notin Past(h, i)
  BY <1>1, <1>2 DEF Past, PastClosed
<1>4. X \subseteq Y /\ j \in Y /\ j \notin X /\ Y \in SUBSET DOMAIN h /\ X \in SUBSET DOMAIN h
  BY <1>2, <1>3 DEF At, OfOp, Past
<1>5. Counts(h, Past(h, i), "add")[n] = Cardinality(X) /\ Counts(h, Past(h, j), "add")[n] = Cardinality(Y)
  BY <1>1 DEF Counts
<1> HIDE DEF X, Y, n
<1>6. IsFiniteSet(X) /\ IsFiniteSet(Y)
  BY <1>4, KnownFinite
<1>7. Cardinality(X) # Cardinality(Y)
  BY <1>4, <1>6, FS_Subset
<1> QED
  BY <1>5, <1>7 DEF n

\* A replica's value is the one the updates it has seen give: counters are
\* exact, conflicts are kept, and the adds of a set are told apart.
THEOREM ValuesAreExact == CrdtSpec => []ValueExact
<1>1. CrdtInv => CounterExact
  <2> SUFFICES ASSUME CrdtInv, kind = "counter", NEW n \in Node
               PROVE  Total(rep[n].positive) - Total(rep[n].negative)
                        = Cardinality({i \in seen[n] : log[i].op = "positive"})
                            - Cardinality({i \in seen[n] : log[i].op = "negative"})
    BY DEF CounterExact
  <2> DEFINE x == [rep |-> rep[n], seen |-> seen[n]]
  <2>1. x \in Replicas /\ x.rep = rep[n] /\ x.seen = seen[n]
    BY DEF Replicas
  <2> HIDE DEF x
  <2>2. WellFormed(log) /\ seen[n] \in SUBSET DOMAIN log
    BY <2>1, LogIsWellFormed DEF CrdtInv, HistoryInv
  <2>3. rep[n] = [positive |-> Counts(log, seen[n], "positive"), negative |-> Counts(log, seen[n], "negative")]
    BY <2>1 DEF CrdtInv, CounterInv
  <2>4. /\ Total(rep[n].positive) = Cardinality(OfOp(log, seen[n], "positive"))
        /\ Total(rep[n].negative) = Cardinality(OfOp(log, seen[n], "negative"))
    BY <2>2, <2>3, TotalCounts
  <2> QED
    BY <2>4 DEF OfOp
<1>2. CrdtInv => ConflictsKept
  <2> SUFFICES ASSUME CrdtInv, kind = "mv", NEW n \in Node, NoClash(log, seen[n])
               PROVE  rep[n] = {log[i].arg : i \in {j \in seen[n] : \A k \in seen[n] : j \notin log[k].past}}
    BY DEF ConflictsKept
  <2> DEFINE x == [rep |-> rep[n], seen |-> seen[n]]
  <2>1. x \in Replicas /\ x.rep = rep[n] /\ x.seen = seen[n]
    BY DEF Replicas
  <2> HIDE DEF x
  <2>2. rep[n] = Args(log, Maximal(log, seen[n]))
    BY <2>1 DEF CrdtInv, MvInv
  <2> QED
    BY <2>2 DEF Args, Maximal
<1>3. CrdtInv => AddsDistinct
  <2> SUFFICES ASSUME CrdtInv, kind = "orset" PROVE AddsDistinct
    BY DEF AddsDistinct
  <2>1. WellFormed(log)
    BY LogIsWellFormed DEF CrdtInv
  <2>2. \A i \in DOMAIN log : log[i].op = "add" => log[i].arg.elem \in Elem /\ log[i].arg.tag = TagOf(log, i)
    BY DEF CrdtInv, OrSetInv, OfOp
  <2>3. ASSUME NEW i \in DOMAIN log, NEW j \in DOMAIN log, log[i].op = "add", log[j].op = "add",
               log[i].arg.tag = log[j].arg.tag
        PROVE  i = j
    <3>1. TagOf(log, i) = TagOf(log, j)
      BY <2>2, <2>3
    <3>2. ~ (i < j) /\ ~ (j < i)
      BY <2>1, <2>3, <3>1, TagsDiffer
    <3>3. i \in Nat /\ j \in Nat
      BY <2>1, PastKnown
    <3> QED
      BY <3>2, <3>3
  <2>4. ASSUME NEW n \in Node, NEW i \in seen[n], log[i].op = "add",
               \A j \in Removes(seen[n]) : log[j].arg.elem # log[i].arg.elem
        PROVE  log[i].arg.tag \in rep[n].elements[log[i].arg.elem]
    <3> DEFINE x == [rep |-> rep[n], seen |-> seen[n]]
               e == log[i].arg.elem
    <3>1. x \in Replicas /\ x.rep = rep[n] /\ x.seen = seen[n]
      BY DEF Replicas
    <3> HIDE DEF x
    <3>2. i \in DOMAIN log
      BY <3>1 DEF CrdtInv, HistoryInv
    <3>3. e \in Elem
      BY <2>2, <2>4, <3>2
    <3>4. On(log, seen[n], "remove", e) = {}
      BY <2>4 DEF On, OfOp, Removes
    <3>5. rep[n].elements[e] = Tags(log, seen[n], e)
      BY <3>1, <3>3, <3>4 DEF CrdtInv, OrSetInv
    <3>6. log[i].arg.tag \in Tags(log, seen[n], e)
      BY <2>4 DEF Tags, On, OfOp
    <3> QED
      BY <3>5, <3>6
  <2> QED
    BY <2>3, <2>4 DEF AddsDistinct
<1> QED
  BY <1>1, <1>2, <1>3, CrdtInvariant, PTL DEF ValueExact


(***************************************************************************)
(* The tiers of the timeseries engine.                                     *)
(***************************************************************************)

-----------------------------------------------------------------------------
(* Sequences.                                                               *)

\* f names the places in s of the members of Those(s, T), in their order.
Picks(f, s, T) ==
    /\ f \in [DOMAIN Those(s, T) -> {i \in DOMAIN s : s[i] \in T}]
    /\ \A n \in DOMAIN Those(s, T) : Those(s, T)[n] = s[f[n]]
    /\ \A m, n \in DOMAIN Those(s, T) : m < n => f[m] < f[n]
    /\ \A i \in DOMAIN s : s[i] \in T => \E n \in DOMAIN Those(s, T) : f[n] = i

LEMMA ThosePlaces ==
    ASSUME NEW S, NEW s \in Seq(S), NEW T
    PROVE  /\ Cardinality({i \in DOMAIN s : s[i] \in T}) \in Nat
           /\ DOMAIN Those(s, T) = 1..Cardinality({i \in DOMAIN s : s[i] \in T})
           /\ \E f : Picks(f, s, T)
<1> DEFINE places == {i \in DOMAIN s : s[i] \in T}
           rank(i) == Cardinality(places \cap 1..i)
           nth(n) == CHOOSE i \in places : rank(i) = n
           total == Cardinality(places)
<1>1. DOMAIN s = 1..Len(s) /\ Len(s) \in Nat
  OBVIOUS
<1>2. IsFiniteSet(places) /\ total \in Nat
  <2>1. IsFiniteSet(1..Len(s))
    BY <1>1, FS_Interval
  <2>2. places \subseteq 1..Len(s)
    BY <1>1
  <2> QED
    BY <2>1, <2>2, FS_Subset, FS_CardinalityType
<1>3. ASSUME NEW i \in places
      PROVE  rank(i) \in 1..total /\ rank(i) \in Nat
  <2>1. places \cap 1..i \subseteq places /\ IsFiniteSet(places \cap 1..i)
    BY <1>2, FS_Subset
  <2>2. rank(i) \in Nat /\ rank(i) <= total
    BY <1>2, <2>1, FS_Subset, FS_CardinalityType
  <2>3. i \in places \cap 1..i
    BY <1>1
  <2>4. rank(i) # 0
    BY <2>1, <2>3, FS_EmptySet
  <2> HIDE DEF rank, total
  <2> QED
    BY <1>2, <2>2, <2>4
<1>4. ASSUME NEW i \in places, NEW j \in places, i < j
      PROVE  rank(i) < rank(j)
  <2>1. places \cap 1..i \subseteq places \cap 1..j
    BY <1>1, <1>4
  <2>2. j \in places \cap 1..j /\ j \notin places \cap 1..i
    BY <1>1, <1>4
  <2>3. IsFiniteSet(places \cap 1..j)
    BY <1>2, FS_Subset
  <2>4. rank(i) <= rank(j) /\ (rank(i) = rank(j) => places \cap 1..i = places \cap 1..j)
    BY <2>1, <2>3, FS_Subset
  <2>5. rank(i) # rank(j)
    BY <2>2, <2>4
  <2>6. rank(i) \in Nat /\ rank(j) \in Nat
    BY <1>3
  <2> HIDE DEF rank
  <2> QED
    BY <2>4, <2>5, <2>6
<1> DEFINE ranks == {rank(i) : i \in places}
<1>5. ranks = 1..total
  <2> DEFINE g == [i \in places |-> rank(i)]
  <2> HIDE DEF rank
  <2>1. g \in Bijection(places, ranks)
    <3>1. g \in [places -> ranks]
      OBVIOUS
    <3>2. \A i, j \in places : g[i] = g[j] => i = j
      <4>1. SUFFICES ASSUME NEW i \in places, NEW j \in places, i # j PROVE rank(i) # rank(j)
        OBVIOUS
      <4>2. i \in Nat /\ j \in Nat
        BY <1>1
      <4>3. rank(i) \in Nat /\ rank(j) \in Nat
        BY <1>3
      <4> QED
        BY <1>4, <4>1, <4>2, <4>3
    <3>3. \A r \in ranks : \E i \in places : g[i] = r
      OBVIOUS
    <3> HIDE DEF g
    <3> QED
      BY <3>1, <3>2, <3>3 DEF Bijection, Injection, Surjection, IsInjective
  <2>2. ExistsBijection(places, ranks)
    BY <2>1 DEF ExistsBijection
  <2>3. Cardinality(ranks) = total
    BY <1>2, <2>2, FS_Bijection
  <2>4. ranks \subseteq 1..total
    BY <1>3
  <2>5. IsFiniteSet(1..total) /\ Cardinality(1..total) = total
    BY <1>2, FS_Interval
  <2> HIDE DEF ranks, total, places
  <2> QED
    BY <2>3, <2>4, <2>5, FS_Subset
<1> DEFINE f == [n \in 1..total |-> nth(n)]
<1>6. \A n \in 1..total : nth(n) \in places /\ rank(nth(n)) = n
  <2>1. TAKE n \in 1..total
  <2> HIDE DEF rank, places, total
  <2>2. \E i \in places : rank(i) = n
    BY <1>5
  <2> QED
    BY <2>2
<1>7. Those(s, T) = [n \in 1..total |-> s[nth(n)]]
  BY DEF Those
<1>8. DOMAIN Those(s, T) = 1..total /\ f \in [1..total -> places]
  BY <1>6, <1>7
<1>9. \A n \in 1..total : Those(s, T)[n] = s[f[n]]
  BY <1>7
<1>10. \A m, n \in 1..total : m < n => f[m] < f[n]
  <2>1. SUFFICES ASSUME NEW m \in 1..total, NEW n \in 1..total, m < n
                 PROVE  nth(m) < nth(n)
    <3> HIDE DEF nth
    <3> QED
      OBVIOUS
  <2> DEFINE a == nth(m)
             b == nth(n)
  <2>2. a \in places /\ b \in places /\ rank(a) = m /\ rank(b) = n
    BY <1>6
  <2> HIDE DEF a, b, nth, rank
  <2>3. a \in Nat /\ b \in Nat
    BY <1>1, <2>2
  <2>4. a = b => m = n
    BY <2>2
  <2>5. b < a => n < m
    BY <1>4, <2>2
  <2>6. m \in Nat /\ n \in Nat
    BY <1>2
  <2>7. a < b
    BY <2>1, <2>3, <2>4, <2>5, <2>6
  <2> QED
    BY <2>7 DEF a, b
<1>11. \A i \in places : \E n \in 1..total : f[n] = i
  <2>1. SUFFICES ASSUME NEW i \in places PROVE f[rank(i)] = i /\ rank(i) \in 1..total
    OBVIOUS
  <2>2. rank(i) \in 1..total
    BY <1>3
  <2> DEFINE a == nth(rank(i))
  <2>3. a \in places /\ rank(a) = rank(i)
    BY <1>6, <2>2
  <2> HIDE DEF a, nth
  <2>4. a \in Nat /\ i \in Nat
    BY <1>1, <2>3
  <2>5. rank(a) \in Nat /\ rank(i) \in Nat
    BY <1>2, <1>3, <2>3
  <2> HIDE DEF rank
  <2>6. ~ a < i /\ ~ i < a
    BY <1>4, <2>3, <2>5
  <2>7. a = i
    BY <2>4, <2>6
  <2>8. f[rank(i)] = a
    BY <2>2 DEF a
  <2> QED
    BY <2>2, <2>7, <2>8
<1> DEFINE t == Those(s, T)
<1>12. total \in Nat /\ DOMAIN t = 1..total
  BY <1>2, <1>8
<1>13. Picks(f, s, T)
  <2> HIDE DEF f, nth
  <2> QED
    BY <1>8, <1>9, <1>10, <1>11 DEF Picks
<1> QED
  BY <1>12, <1>13

LEMMA ThoseIs ==
    ASSUME NEW S, NEW s \in Seq(S), NEW T
    PROVE  LET t == Those(s, T)
           IN  /\ t \in Seq(S) /\ ToSet(t) = ToSet(s) \cap T
               /\ \A m \in DOMAIN t : \E i \in DOMAIN s : t[m] = s[i] /\ s[i] \in T
               /\ \A i \in DOMAIN s : s[i] \in T => \E m \in DOMAIN t : t[m] = s[i]
               /\ \A m, n \in DOMAIN t :
                    m < n => \E i, j \in DOMAIN s : i < j /\ t[m] = s[i] /\ t[n] = s[j]
<1> DEFINE places == {i \in DOMAIN s : s[i] \in T}
           t == Those(s, T)
<1>1. /\ Cardinality(places) \in Nat /\ DOMAIN t = 1..Cardinality(places)
      /\ \E f : Picks(f, s, T)
  BY ThosePlaces
<1>2. PICK f : Picks(f, s, T)
  BY <1>1
<1>2a. /\ f \in [DOMAIN t -> places]
       /\ \A n \in DOMAIN t : t[n] = s[f[n]]
       /\ \A m, n \in DOMAIN t : m < n => f[m] < f[n]
       /\ \A i \in places : \E n \in DOMAIN t : f[n] = i
  BY <1>2 DEF Picks
<1>3. \A m \in DOMAIN t : f[m] \in DOMAIN s /\ s[f[m]] \in T
  BY <1>2a
<1>4. \A m, n \in DOMAIN t : m < n => \E i, j \in DOMAIN s : i < j /\ t[m] = s[i] /\ t[n] = s[j]
  <2> HIDE DEF t
  <2> QED
    BY <1>2a, <1>3
<1>5. \A i \in DOMAIN s : s[i] \in T => \E m \in DOMAIN t : t[m] = s[i]
  <2> HIDE DEF t
  <2> QED
    BY <1>2a, <1>3
<1>6. \A m \in DOMAIN t : \E i \in DOMAIN s : t[m] = s[i] /\ s[i] \in T
  <2> HIDE DEF t
  <2> QED
    BY <1>2a, <1>3
<1>7. t \in Seq(S)
  <2>1. \A n \in DOMAIN t : t[n] \in S
    BY <1>6
  <2>2. t = [n \in 1..Cardinality(places) |-> t[n]]
    BY <1>1 DEF Those
  <2> HIDE DEF t, places
  <2> QED
    BY <1>1, <2>1, <2>2
<1>8. ToSet(t) = ToSet(s) \cap T
  <2> HIDE DEF t
  <2> QED
    BY <1>5, <1>6 DEF ToSet
<1> QED
  BY <1>4, <1>5, <1>6, <1>7, <1>8

\* Filtering a sequence keeps its order.
LEMMA ThoseInOrder ==
    ASSUME NEW T
    PROVE  /\ \A s \in Seq(Nat) : Rising(s) => Rising(Those(s, T))
           /\ \A bs \in Seq(Seq(Nat)) :
                /\ GoodBlocks(bs) => GoodBlocks(Those(bs, T))
                /\ InOrder(bs) => InOrder(Those(bs, T))
                /\ PointsOf(Those(bs, T)) \subseteq PointsOf(bs)
                /\ \A p \in PointsOf(Those(bs, T)) :
                     \E i \in DOMAIN bs : bs[i] \in T /\ p \in ToSet(bs[i])
<1>1. ASSUME NEW s \in Seq(Nat), Rising(s) PROVE Rising(Those(s, T))
  <2> DEFINE t == Those(s, T)
  <2>1. \A m, n \in DOMAIN t :
                    m < n => \E i, j \in DOMAIN s : i < j /\ t[m] = s[i] /\ t[n] = s[j]
    BY ThoseIs
  <2> HIDE DEF t
  <2>2. Rising(t)
    BY <1>1, <2>1 DEF Rising
  <2> QED
    BY <2>2 DEF t
<1>2. ASSUME NEW bs \in Seq(Seq(Nat))
      PROVE  /\ GoodBlocks(bs) => GoodBlocks(Those(bs, T))
             /\ InOrder(bs) => InOrder(Those(bs, T))
             /\ PointsOf(Those(bs, T)) \subseteq PointsOf(bs)
             /\ \A p \in PointsOf(Those(bs, T)) :
                  \E i \in DOMAIN bs : bs[i] \in T /\ p \in ToSet(bs[i])
  <2> DEFINE t == Those(bs, T)
  <2>1. /\ \A m \in DOMAIN t : \E i \in DOMAIN bs : t[m] = bs[i] /\ bs[i] \in T
        /\ \A m, n \in DOMAIN t :
             m < n => \E i, j \in DOMAIN bs : i < j /\ t[m] = bs[i] /\ t[n] = bs[j]
    BY ThoseIs
  <2> HIDE DEF t
  <2>2. GoodBlocks(bs) => GoodBlocks(t)
    BY <2>1 DEF GoodBlocks
  <2>3. InOrder(bs) => InOrder(t)
    BY <2>1 DEF InOrder
  <2>4. \A p \in PointsOf(t) : \E i \in DOMAIN bs : bs[i] \in T /\ p \in ToSet(bs[i])
    BY <2>1 DEF PointsOf
  <2>5. PointsOf(t) \subseteq PointsOf(bs)
    BY <2>4 DEF PointsOf
  <2> QED
    BY <2>2, <2>3, <2>4, <2>5 DEF t
<1> QED
  BY <1>1, <1>2

LEMMA Joined ==
    ASSUME NEW bs \in Seq(Seq(Nat)), NEW cs \in Seq(Seq(Nat))
    PROVE  /\ bs \o cs \in Seq(Seq(Nat))
           /\ PointsOf(bs \o cs) = PointsOf(bs) \cup PointsOf(cs)
           /\ GoodBlocks(bs) /\ GoodBlocks(cs) => GoodBlocks(bs \o cs)
           /\ InOrder(bs) /\ InOrder(cs) /\ Before(PointsOf(bs), PointsOf(cs)) => InOrder(bs \o cs)
<1> DEFINE ds == bs \o cs
<1>1. /\ DOMAIN bs = 1..Len(bs) /\ DOMAIN cs = 1..Len(cs) /\ DOMAIN ds = 1..(Len(bs) + Len(cs))
      /\ Len(bs) \in Nat /\ Len(cs) \in Nat
      /\ \A i \in 1..Len(bs) : ds[i] = bs[i]
      /\ \A i \in 1..Len(cs) : ds[Len(bs) + i] = cs[i]
      /\ ds \in Seq(Seq(Nat))
  OBVIOUS
<1> HIDE DEF ds
<1>2. \A i \in DOMAIN ds : \/ i \in DOMAIN bs /\ ds[i] = bs[i]
                           \/ i - Len(bs) \in DOMAIN cs /\ ds[i] = cs[i - Len(bs)]
  <2>1. SUFFICES ASSUME NEW i \in DOMAIN ds, i \notin DOMAIN bs
                 PROVE  i - Len(bs) \in DOMAIN cs /\ ds[i] = cs[i - Len(bs)]
    BY <1>1
  <2> DEFINE k == i - Len(bs)
  <2>2. k \in 1..Len(cs) /\ i = Len(bs) + k
    BY <1>1, <2>1
  <2> HIDE DEF k
  <2>3. ds[i] = cs[k]
    BY <1>1, <2>2
  <2> QED
    BY <1>1, <2>2, <2>3 DEF k
<1>3. \A i \in DOMAIN cs : Len(bs) + i \in DOMAIN ds /\ ds[Len(bs) + i] = cs[i]
  BY <1>1
<1>4. \A i \in DOMAIN bs : i \in DOMAIN ds /\ ds[i] = bs[i]
  BY <1>1
<1>5. PointsOf(ds) = PointsOf(bs) \cup PointsOf(cs)
  <2>1. PointsOf(ds) \subseteq PointsOf(bs) \cup PointsOf(cs)
    BY <1>2 DEF PointsOf
  <2>2. PointsOf(bs) \subseteq PointsOf(ds)
    BY <1>4 DEF PointsOf
  <2>3. PointsOf(cs) \subseteq PointsOf(ds)
    BY <1>3 DEF PointsOf
  <2> QED
    BY <2>1, <2>2, <2>3
<1>6. GoodBlocks(bs) /\ GoodBlocks(cs) => GoodBlocks(ds)
  BY <1>2 DEF GoodBlocks
<1>7. ASSUME InOrder(bs), InOrder(cs), Before(PointsOf(bs), PointsOf(cs))
      PROVE  InOrder(ds)
  <2>1. SUFFICES ASSUME NEW i \in DOMAIN ds, NEW j \in DOMAIN ds, i < j
                 PROVE  Before(ToSet(ds[i]), ToSet(ds[j]))
    BY DEF InOrder
  <2>2. CASE i \in DOMAIN bs /\ j \in DOMAIN bs
    BY <1>4, <1>7, <2>1, <2>2 DEF InOrder
  <2>3. CASE i \in DOMAIN bs /\ j \notin DOMAIN bs
    <3>1. ToSet(ds[i]) \subseteq PointsOf(bs) /\ ToSet(ds[j]) \subseteq PointsOf(cs)
      BY <1>2, <1>4, <2>3 DEF PointsOf
    <3> QED
      BY <1>7, <3>1 DEF Before
  <2>4. CASE i \notin DOMAIN bs
    <3> DEFINE a == i - Len(bs)
               b == j - Len(bs)
    <3>1. j \notin DOMAIN bs /\ i \in Nat /\ j \in Nat
      BY <1>1, <2>1, <2>4
    <3>2. a \in DOMAIN cs /\ b \in DOMAIN cs /\ ds[i] = cs[a] /\ ds[j] = cs[b]
      BY <1>2, <2>4, <3>1
    <3>3. a < b
      BY <1>1, <2>1, <3>1
    <3> QED
      BY <1>7, <3>2, <3>3 DEF InOrder
  <2> QED
    BY <2>2, <2>3, <2>4
<1> QED
  BY <1>1, <1>5, <1>6, <1>7 DEF ds

LEMMA AppendedSet ==
    ASSUME NEW S, NEW s \in Seq(S), NEW e \in S
    PROVE  /\ Append(s, e) \in Seq(S) /\ Append(s, e) # <<>>
           /\ ToSet(Append(s, e)) = ToSet(s) \cup {e}
<1> DEFINE t == Append(s, e)
<1>1. /\ DOMAIN s = 1..Len(s) /\ Len(s) \in Nat /\ DOMAIN t = 1..(Len(s) + 1)
      /\ \A i \in 1..Len(s) : t[i] = s[i]
      /\ t[Len(s) + 1] = e
      /\ t \in Seq(S)
  OBVIOUS
<1>2. t # <<>>
  BY <1>1
<1> HIDE DEF t
<1>3. \A i \in DOMAIN t : (i \in DOMAIN s /\ t[i] = s[i]) \/ t[i] = e
  BY <1>1
<1>4. \A i \in DOMAIN s : i \in DOMAIN t /\ t[i] = s[i]
  BY <1>1
<1>5. Len(s) + 1 \in DOMAIN t
  BY <1>1
<1>6. ToSet(t) \subseteq ToSet(s) \cup {e}
  BY <1>3 DEF ToSet
<1>7. ToSet(s) \subseteq ToSet(t)
  BY <1>4 DEF ToSet
<1>8. e \in ToSet(t)
  BY <1>1, <1>5 DEF ToSet
<1> QED
  BY <1>1, <1>2, <1>6, <1>7, <1>8 DEF t

LEMMA AppendedRising ==
    ASSUME NEW s \in Seq(Nat), NEW p \in Nat, Rising(s), Before(ToSet(s), {p})
    PROVE  Rising(Append(s, p))
<1> DEFINE t == Append(s, p)
<1>1. /\ DOMAIN s = 1..Len(s) /\ Len(s) \in Nat /\ DOMAIN t = 1..(Len(s) + 1)
      /\ \A i \in 1..Len(s) : t[i] = s[i]
      /\ t[Len(s) + 1] = p
  OBVIOUS
<1>2. \A i \in DOMAIN s : s[i] < p
  BY DEF Before, ToSet
<1> HIDE DEF t
<1>3. Rising(t)
  <2>1. SUFFICES ASSUME NEW i \in DOMAIN t, NEW j \in DOMAIN t, i < j PROVE t[i] < t[j]
    BY DEF Rising
  <2>2. i \in DOMAIN s
    BY <1>1, <2>1
  <2>3. CASE j \in DOMAIN s
    BY <1>1, <2>1, <2>2, <2>3 DEF Rising
  <2>4. CASE j \notin DOMAIN s
    <3>1. j = Len(s) + 1
      BY <1>1, <2>4
    <3> QED
      BY <1>1, <1>2, <2>2, <3>1
  <2> QED
    BY <2>3, <2>4
<1> QED
  BY <1>3 DEF t

\* The sequence of one block, and of none.
LEMMA OneBlock ==
    ASSUME NEW b \in Seq(Nat)
    PROVE  /\ <<b>> \in Seq(Seq(Nat)) /\ PointsOf(<<b>>) = ToSet(b) /\ InOrder(<<b>>)
           /\ b # <<>> /\ Rising(b) => GoodBlocks(<<b>>)
           /\ PointsOf(<<>>) = {} /\ ToSet(<<>>) = {}
           /\ <<>> \in Seq(Seq(Nat)) /\ <<>> \in Seq(Nat)
           /\ InOrder(<<>>) /\ GoodBlocks(<<>>) /\ Rising(<<>>)
<1>1. <<b>> \in Seq(Seq(Nat)) /\ DOMAIN <<b>> = {1} /\ <<b>>[1] = b
  OBVIOUS
<1>2. DOMAIN <<>> = {} /\ <<>> \in Seq(Seq(Nat)) /\ <<>> \in Seq(Nat)
  OBVIOUS
<1>3. PointsOf(<<b>>) = ToSet(b)
  BY <1>1 DEF PointsOf
<1>4. InOrder(<<b>>)
  BY <1>1 DEF InOrder
<1>5. b # <<>> /\ Rising(b) => GoodBlocks(<<b>>)
  BY <1>1 DEF GoodBlocks
<1>6. PointsOf(<<>>) = {} /\ ToSet(<<>>) = {}
  BY <1>2 DEF PointsOf, ToSet
<1>7. InOrder(<<>>) /\ GoodBlocks(<<>>) /\ Rising(<<>>)
  BY <1>2 DEF InOrder, GoodBlocks, Rising
<1> QED
  BY <1>1, <1>2, <1>3, <1>4, <1>5, <1>6, <1>7

LEMMA AppendedBlock ==
    ASSUME NEW bs \in Seq(Seq(Nat)), NEW b \in Seq(Nat)
    PROVE  /\ Append(bs, b) \in Seq(Seq(Nat))
           /\ PointsOf(Append(bs, b)) = PointsOf(bs) \cup ToSet(b)
           /\ GoodBlocks(bs) /\ b # <<>> /\ Rising(b) => GoodBlocks(Append(bs, b))
           /\ InOrder(bs) /\ Before(PointsOf(bs), ToSet(b)) => InOrder(Append(bs, b))
<1>1. Append(bs, b) = bs \o <<b>>
  OBVIOUS
<1>2. /\ <<b>> \in Seq(Seq(Nat)) /\ PointsOf(<<b>>) = ToSet(b) /\ InOrder(<<b>>)
      /\ b # <<>> /\ Rising(b) => GoodBlocks(<<b>>)
  BY OneBlock
<1> DEFINE cs == <<b>>
<1>3. cs \in Seq(Seq(Nat))
  BY <1>2
<1> HIDE DEF cs
<1>4. /\ bs \o cs \in Seq(Seq(Nat))
      /\ PointsOf(bs \o cs) = PointsOf(bs) \cup PointsOf(cs)
      /\ GoodBlocks(bs) /\ GoodBlocks(cs) => GoodBlocks(bs \o cs)
      /\ InOrder(bs) /\ InOrder(cs) /\ Before(PointsOf(bs), PointsOf(cs)) => InOrder(bs \o cs)
  BY <1>3, Joined
<1> QED
  BY <1>1, <1>2, <1>4, Zenon DEF cs

-----------------------------------------------------------------------------
(* Buffers.                                                                *)

LEMMA BufferHas ==
    ASSUME NEW buffer \in Buffer
    PROVE  /\ buffer.raw \in Seq(Nat) /\ buffer.blocks \in Seq(Seq(Nat))
           /\ buffer = [raw |-> buffer.raw, blocks |-> buffer.blocks]
           /\ PointsOf(buffer.blocks) \in SUBSET Nat /\ ToSet(buffer.raw) \in SUBSET Nat
           /\ Held(buffer) \in SUBSET Nat
<1>1. /\ buffer.raw \in Seq(Nat) /\ buffer.blocks \in Seq(Seq(Nat))
      /\ buffer = [raw |-> buffer.raw, blocks |-> buffer.blocks]
  BY DEF Buffer
<1>2. \A i \in DOMAIN buffer.blocks : buffer.blocks[i] \in Seq(Nat)
  BY <1>1
<1>3. \A s \in Seq(Nat) : ToSet(s) \subseteq Nat
  BY DEF ToSet
<1>4. PointsOf(buffer.blocks) \subseteq Nat
  BY <1>2, <1>3 DEF PointsOf
<1> QED
  BY <1>1, <1>3, <1>4 DEF Held

\* add_point adds the point, and keeps the order when the point is the newest.
LEMMA AddPointAdds ==
    ASSUME NEW buffer \in Buffer, NEW p \in Nat
    PROVE  /\ AddPoint(buffer, p) \in Buffer
           /\ Held(AddPoint(buffer, p)) = Held(buffer) \cup {p}
           /\ GoodBuffer(buffer) /\ Before(Held(buffer), {p}) => GoodBuffer(AddPoint(buffer, p))
<1> DEFINE old == buffer.raw
           raw == Append(old, p)
           bs == buffer.blocks
           after == AddPoint(buffer, p)
<1>1. /\ buffer.raw \in Seq(Nat) /\ bs \in Seq(Seq(Nat))
      /\ buffer = [raw |-> buffer.raw, blocks |-> bs]
  BY BufferHas
<1>2. raw \in Seq(Nat) /\ raw # <<>> /\ ToSet(raw) = ToSet(buffer.raw) \cup {p}
  <2>1. old \in Seq(Nat)
    BY <1>1
  <2> HIDE DEF old
  <2>2. raw \in Seq(Nat) /\ raw # <<>> /\ ToSet(raw) = ToSet(old) \cup {p}
    BY <2>1, AppendedSet
  <2> QED
    BY <2>2 DEF old
<1>3. ASSUME GoodBuffer(buffer), Before(Held(buffer), {p})
      PROVE  /\ Rising(raw) /\ Before(PointsOf(bs), ToSet(raw))
             /\ GoodBlocks(bs) /\ InOrder(bs)
  <2>1. Rising(buffer.raw) /\ Before(ToSet(buffer.raw), {p}) /\ Before(PointsOf(bs), {p})
    BY <1>3 DEF GoodBuffer, Held, Before
  <2>2. Rising(raw)
    BY <1>1, <2>1, AppendedRising
  <2>3. Before(PointsOf(bs), ToSet(raw))
    BY <1>2, <1>3, <2>1 DEF GoodBuffer, Before
  <2> QED
    BY <1>3, <2>2, <2>3 DEF GoodBuffer
<1> DEFINE full == Len(raw) >= Threshold
           cs == Append(bs, raw)
<1>4. after = IF full THEN [raw |-> <<>>, blocks |-> cs] ELSE [raw |-> raw, blocks |-> bs]
  <2>1. [buffer EXCEPT !.raw = raw] = [raw |-> raw, blocks |-> bs]
    <3> HIDE DEF raw, old, bs
    <3>1. buffer = [raw |-> old, blocks |-> bs]
      BY <1>1 DEF old
    <3> QED
      BY <3>1
  <2> QED
    BY <2>1 DEF AddPoint
<1> HIDE DEF raw, full, after
<1>5. CASE full
  <2>1. after.raw = <<>> /\ after.blocks = cs
    BY <1>4, <1>5
  <2>2. /\ cs \in Seq(Seq(Nat)) /\ PointsOf(cs) = PointsOf(bs) \cup ToSet(raw)
        /\ GoodBlocks(bs) /\ Rising(raw) => GoodBlocks(cs)
        /\ InOrder(bs) /\ Before(PointsOf(bs), ToSet(raw)) => InOrder(cs)
    BY <1>1, <1>2, AppendedBlock
  <2>3. ToSet(<<>>) = {} /\ Rising(<<>>) /\ <<>> \in Seq(Nat)
    BY <1>2, OneBlock
  <2> HIDE DEF cs
  <2>4. after \in Buffer
    BY <1>4, <1>5, <2>2, <2>3 DEF Buffer
  <2>5. Held(after) = Held(buffer) \cup {p}
    BY <1>2, <2>1, <2>2, <2>3 DEF Held
  <2>6. GoodBuffer(buffer) /\ Before(Held(buffer), {p}) => GoodBuffer(after)
    BY <1>3, <2>1, <2>2, <2>3 DEF GoodBuffer, Before
  <2> QED
    BY <2>4, <2>5, <2>6 DEF after
<1>6. CASE ~ full
  <2>1. after.raw = raw /\ after.blocks = bs
    BY <1>4, <1>6
  <2>2. after \in Buffer
    BY <1>1, <1>2, <1>4, <1>6 DEF Buffer
  <2>3. Held(after) = Held(buffer) \cup {p}
    BY <1>2, <2>1 DEF Held
  <2>4. GoodBuffer(buffer) /\ Before(Held(buffer), {p}) => GoodBuffer(after)
    BY <1>3, <2>1 DEF GoodBuffer
  <2> QED
    BY <2>2, <2>3, <2>4 DEF after
<1> QED
  BY <1>5, <1>6

LEMMA PointsOfBlocks ==
    ASSUME NEW bs \in Seq(Seq(Nat))
    PROVE  /\ PointsOf(bs) = UNION {ToSet(b) : b \in ToSet(bs)}
           /\ ToSet(bs) \in SUBSET Seq(Nat)
           /\ \A i \in DOMAIN bs : bs[i] \in Seq(Nat) /\ ToSet(bs[i]) \subseteq Nat
           /\ PointsOf(bs) \in SUBSET Nat
<1>1. \A i \in DOMAIN bs : bs[i] \in Seq(Nat)
  OBVIOUS
<1>2. \A s \in Seq(Nat) : ToSet(s) \subseteq Nat
  BY DEF ToSet
<1>3. PointsOf(bs) = UNION {ToSet(b) : b \in ToSet(bs)}
  <2>1. ToSet(bs) = {bs[i] : i \in DOMAIN bs}
    BY DEF ToSet
  <2> QED
    BY <2>1 DEF PointsOf
<1>4. ToSet(bs) \in SUBSET Seq(Nat)
  BY <1>1 DEF ToSet
<1>5. PointsOf(bs) \in SUBSET Nat
  BY <1>2, <1>3, <1>4
<1> QED
  BY <1>1, <1>2, <1>3, <1>4, <1>5

\* The bounds of a block whose points rise are those of its points.
LEMMA BlockBounds ==
    ASSUME NEW b \in Seq(Nat), b # <<>>, Rising(b)
    PROVE  /\ FirstPoint(b) \in ToSet(b) /\ LastPoint(b) \in ToSet(b)
           /\ FirstPoint(b) \in Nat /\ LastPoint(b) \in Nat
           /\ \A p \in ToSet(b) : FirstPoint(b) <= p /\ p <= LastPoint(b)
<1>1. /\ DOMAIN b = 1..Len(b) /\ Len(b) \in Nat /\ Len(b) # 0
      /\ \A i \in DOMAIN b : b[i] \in Nat
  OBVIOUS
<1>2. FirstPoint(b) = b[1] /\ LastPoint(b) = b[Len(b)]
  BY DEF FirstPoint, LastPoint
<1>3. 1 \in DOMAIN b /\ Len(b) \in DOMAIN b
  BY <1>1
<1>4. \A i \in DOMAIN b : b[1] <= b[i] /\ b[i] <= b[Len(b)]
  <2>1. TAKE i \in DOMAIN b
  <2>2. (1 < i \/ i = 1) /\ (i < Len(b) \/ i = Len(b))
    BY <1>1
  <2>3. (1 < i => b[1] < b[i]) /\ (i < Len(b) => b[i] < b[Len(b)])
    BY <1>3 DEF Rising
  <2> QED
    BY <1>1, <1>3, <2>2, <2>3
<1> QED
  BY <1>1, <1>2, <1>3, <1>4 DEF ToSet

LEMMA ThoseBlocks ==
    ASSUME NEW bs \in Seq(Seq(Nat)), NEW T
    PROVE  /\ Those(bs, T) \in Seq(Seq(Nat))
           /\ PointsOf(Those(bs, T)) = UNION {ToSet(b) : b \in ToSet(bs) \cap T}
<1> DEFINE t == Those(bs, T)
<1>1. t \in Seq(Seq(Nat)) /\ ToSet(t) = ToSet(bs) \cap T
  BY ThoseIs
<1> HIDE DEF t
<1>2. PointsOf(t) = UNION {ToSet(b) : b \in ToSet(t)}
  BY <1>1, PointsOfBlocks
<1> QED
  BY <1>1, <1>2 DEF t

LEMMA ThosePoints ==
    ASSUME NEW s \in Seq(Nat), NEW T
    PROVE  Those(s, T) \in Seq(Nat) /\ ToSet(Those(s, T)) = ToSet(s) \cap T
BY ThoseIs

\* What prune_before leaves and what it evicts are all there was.
LEMMA PruneSplits ==
    ASSUME NEW buffer \in Buffer, NEW cutoff \in Int
    PROVE  /\ Stays(buffer, cutoff) \in Buffer /\ Evicted(buffer, cutoff) \in Seq(Seq(Nat))
           /\ Held(buffer) = Held(Stays(buffer, cutoff)) \cup PointsOf(Evicted(buffer, cutoff))
           /\ ToSet(Stays(buffer, cutoff).raw) = ToSet(buffer.raw) \ OldPoints(buffer, cutoff)
           /\ \A p \in PointsOf(Stays(buffer, cutoff).blocks) :
                \E b \in ToSet(buffer.blocks) : p \in ToSet(b) /\ ~ LastPoint(b) < cutoff
           /\ \A p \in PointsOf(Evicted(buffer, cutoff)) :
                \/ p \in OldPoints(buffer, cutoff)
                \/ \E b \in ToSet(buffer.blocks) : p \in ToSet(b) /\ LastPoint(b) < cutoff
<1> DEFINE raw == buffer.raw
           bs == buffer.blocks
           OP == OldPoints(buffer, cutoff)
           OB == OldBlocks(buffer, cutoff)
           keptRaw == Those(raw, ToSet(raw) \ OP)
           keptBlocks == Those(bs, ToSet(bs) \ OB)
           oldRaw == Those(raw, OP)
           oldBlocks == Those(bs, OB)
           tail == IF oldRaw = <<>> THEN <<>> ELSE <<oldRaw>>
<1>1. raw \in Seq(Nat) /\ bs \in Seq(Seq(Nat))
  BY BufferHas
<1>2. /\ OP = {p \in ToSet(raw) : p < cutoff}
      /\ OB = {b \in ToSet(bs) : LastPoint(b) < cutoff}
  BY DEF OldPoints, OldBlocks
<1>3. Stays(buffer, cutoff) = [raw |-> keptRaw, blocks |-> keptBlocks]
  BY DEF Stays
<1>4. Evicted(buffer, cutoff) = oldBlocks \o tail
  BY DEF Evicted
<1> HIDE DEF raw, bs, OP, OB
<1>5. /\ keptRaw \in Seq(Nat) /\ ToSet(keptRaw) = ToSet(raw) \ OP
      /\ oldRaw \in Seq(Nat) /\ ToSet(oldRaw) = OP
  <2>1. keptRaw \in Seq(Nat) /\ ToSet(keptRaw) = ToSet(raw) \cap (ToSet(raw) \ OP)
    BY <1>1, ThosePoints
  <2>2. oldRaw \in Seq(Nat) /\ ToSet(oldRaw) = ToSet(raw) \cap OP
    BY <1>1, ThosePoints
  <2> HIDE DEF keptRaw, oldRaw
  <2> QED
    BY <1>2, <2>1, <2>2
<1>6. /\ keptBlocks \in Seq(Seq(Nat)) /\ PointsOf(keptBlocks) = UNION {ToSet(b) : b \in ToSet(bs) \ OB}
      /\ oldBlocks \in Seq(Seq(Nat)) /\ PointsOf(oldBlocks) = UNION {ToSet(b) : b \in OB}
  <2>1. /\ keptBlocks \in Seq(Seq(Nat))
        /\ PointsOf(keptBlocks) = UNION {ToSet(b) : b \in ToSet(bs) \cap (ToSet(bs) \ OB)}
    BY <1>1, ThoseBlocks
  <2>2. /\ oldBlocks \in Seq(Seq(Nat))
        /\ PointsOf(oldBlocks) = UNION {ToSet(b) : b \in ToSet(bs) \cap OB}
    BY <1>1, ThoseBlocks
  <2>3. ToSet(bs) \cap (ToSet(bs) \ OB) = ToSet(bs) \ OB /\ ToSet(bs) \cap OB = OB
    BY <1>2
  <2> HIDE DEF keptBlocks, oldBlocks
  <2> QED
    BY <2>1, <2>2, <2>3
<1> HIDE DEF keptRaw, oldRaw, keptBlocks, oldBlocks
<1>7. tail \in Seq(Seq(Nat)) /\ PointsOf(tail) = OP
  <2>1. CASE oldRaw = <<>>
    BY <1>5, <2>1, OneBlock
  <2>2. CASE oldRaw # <<>>
    BY <1>5, <2>2, OneBlock
  <2> QED
    BY <2>1, <2>2
<1> HIDE DEF tail
<1>8. /\ oldBlocks \o tail \in Seq(Seq(Nat))
      /\ PointsOf(oldBlocks \o tail) = PointsOf(oldBlocks) \cup OP
  BY <1>6, <1>7, Joined
<1>9. Stays(buffer, cutoff) \in Buffer
  BY <1>3, <1>5, <1>6 DEF Buffer
<1>10. PointsOf(bs) = PointsOf(keptBlocks) \cup PointsOf(oldBlocks)
  <2>1. PointsOf(bs) = UNION {ToSet(b) : b \in ToSet(bs)}
    BY <1>1, PointsOfBlocks
  <2> QED
    BY <1>2, <1>6, <2>1
<1>11. Held(buffer) = ToSet(raw) \cup PointsOf(bs)
  BY DEF Held, raw, bs
<1>12. Held(Stays(buffer, cutoff)) = ToSet(keptRaw) \cup PointsOf(keptBlocks)
  BY <1>3 DEF Held
<1>13. Held(buffer) = Held(Stays(buffer, cutoff)) \cup PointsOf(Evicted(buffer, cutoff))
  BY <1>2, <1>4, <1>5, <1>8, <1>10, <1>11, <1>12
<1>14. \A p \in PointsOf(keptBlocks) : \E b \in ToSet(bs) : p \in ToSet(b) /\ ~ LastPoint(b) < cutoff
  BY <1>2, <1>6
<1>15. \A p \in PointsOf(oldBlocks) : \E b \in ToSet(bs) : p \in ToSet(b) /\ LastPoint(b) < cutoff
  BY <1>2, <1>6
<1>16. Stays(buffer, cutoff).raw = keptRaw /\ Stays(buffer, cutoff).blocks = keptBlocks
  BY <1>3
<1> QED
  BY <1>4, <1>5, <1>8, <1>9, <1>13, <1>14, <1>15, <1>16 DEF raw, bs, OP

\* Of points in order, prune_before evicts the first ones: what it evicts is
\* before what stays, and before the cutoff.
LEMMA PruneOrders ==
    ASSUME NEW buffer \in Buffer, NEW cutoff \in Int, GoodBuffer(buffer)
    PROVE  /\ GoodBuffer(Stays(buffer, cutoff))
           /\ GoodBlocks(Evicted(buffer, cutoff)) /\ InOrder(Evicted(buffer, cutoff))
           /\ \A p \in PointsOf(Evicted(buffer, cutoff)) : p < cutoff
           /\ Before(PointsOf(Evicted(buffer, cutoff)), Held(Stays(buffer, cutoff)))
<1> DEFINE raw == buffer.raw
           bs == buffer.blocks
           OP == OldPoints(buffer, cutoff)
           OB == OldBlocks(buffer, cutoff)
           keptRaw == Those(raw, ToSet(raw) \ OP)
           keptBlocks == Those(bs, ToSet(bs) \ OB)
           oldRaw == Those(raw, OP)
           oldBlocks == Those(bs, OB)
           tail == IF oldRaw = <<>> THEN <<>> ELSE <<oldRaw>>
           kept == Stays(buffer, cutoff)
           evicted == Evicted(buffer, cutoff)
<1>1. /\ raw \in Seq(Nat) /\ bs \in Seq(Seq(Nat))
      /\ PointsOf(bs) \in SUBSET Nat /\ ToSet(raw) \in SUBSET Nat
  BY BufferHas
<1>2. /\ Rising(raw) /\ GoodBlocks(bs) /\ InOrder(bs) /\ Before(PointsOf(bs), ToSet(raw))
  BY DEF GoodBuffer
<1>3. OP = {p \in ToSet(raw) : p < cutoff}
  BY DEF OldPoints
<1>4. kept.raw = keptRaw /\ kept.blocks = keptBlocks /\ evicted = oldBlocks \o tail
  BY DEF Stays, Evicted
<1>5. /\ kept \in Buffer /\ evicted \in Seq(Seq(Nat))
      /\ Held(buffer) = Held(kept) \cup PointsOf(evicted)
      /\ ToSet(kept.raw) = ToSet(raw) \ OP
      /\ \A p \in PointsOf(kept.blocks) :
           \E b \in ToSet(bs) : p \in ToSet(b) /\ ~ LastPoint(b) < cutoff
      /\ \A p \in PointsOf(evicted) :
           \/ p \in OP
           \/ \E b \in ToSet(bs) : p \in ToSet(b) /\ LastPoint(b) < cutoff
  BY PruneSplits
<1> HIDE DEF raw, bs, OP, OB, kept, evicted
<1>6. /\ Rising(keptRaw) /\ Rising(oldRaw) /\ oldRaw \in Seq(Nat) /\ ToSet(oldRaw) \subseteq OP
  <2>1. ToSet(oldRaw) = ToSet(raw) \cap OP /\ oldRaw \in Seq(Nat)
    BY <1>1, ThosePoints
  <2>2. Rising(keptRaw) /\ Rising(oldRaw)
    BY <1>1, <1>2, ThoseInOrder
  <2> HIDE DEF oldRaw, keptRaw
  <2> QED
    BY <2>1, <2>2
<1>7. /\ GoodBlocks(keptBlocks) /\ InOrder(keptBlocks)
      /\ PointsOf(keptBlocks) \subseteq PointsOf(bs)
  BY <1>1, <1>2, ThoseInOrder
<1>8. /\ GoodBlocks(oldBlocks) /\ InOrder(oldBlocks) /\ oldBlocks \in Seq(Seq(Nat))
      /\ PointsOf(oldBlocks) \subseteq PointsOf(bs)
  BY <1>1, <1>2, ThoseInOrder, ThoseBlocks
<1> HIDE DEF keptRaw, oldRaw, keptBlocks, oldBlocks
<1>9. GoodBuffer(kept)
  <2>1. Before(PointsOf(kept.blocks), ToSet(kept.raw))
    BY <1>2, <1>4, <1>5, <1>7 DEF Before
  <2> QED
    BY <1>4, <1>6, <1>7, <2>1 DEF GoodBuffer
<1>10. tail \in Seq(Seq(Nat)) /\ GoodBlocks(tail) /\ InOrder(tail) /\ PointsOf(tail) \subseteq OP
  <2>1. CASE oldRaw = <<>>
    BY <1>6, <2>1, OneBlock
  <2>2. CASE oldRaw # <<>>
    BY <1>6, <2>2, OneBlock
  <2> QED
    BY <2>1, <2>2
<1> HIDE DEF tail
<1>11. GoodBlocks(evicted) /\ InOrder(evicted)
  <2>1. Before(PointsOf(oldBlocks), PointsOf(tail))
    BY <1>2, <1>3, <1>8, <1>10 DEF Before
  <2> QED
    BY <1>4, <1>8, <1>10, <2>1, Joined
<1>12. \A b \in ToSet(bs) : /\ LastPoint(b) \in Nat /\ LastPoint(b) \in ToSet(b)
                            /\ ToSet(b) \subseteq PointsOf(bs)
                            /\ \A p \in ToSet(b) : p <= LastPoint(b)
  <2>1. TAKE b \in ToSet(bs)
  <2>2. PICK i \in DOMAIN bs : b = bs[i]
    BY DEF ToSet
  <2>3. b \in Seq(Nat) /\ b # <<>> /\ Rising(b)
    BY <1>1, <1>2, <2>2, PointsOfBlocks DEF GoodBlocks
  <2>4. ToSet(b) \subseteq PointsOf(bs)
    BY <2>2 DEF PointsOf
  <2> QED
    BY <2>3, <2>4, BlockBounds
<1>13. \A p \in PointsOf(evicted) : p \in Nat /\ p < cutoff
  <2>1. TAKE p \in PointsOf(evicted)
  <2>2. CASE p \in OP
    BY <1>1, <1>3, <2>2
  <2>3. ASSUME NEW b \in ToSet(bs), p \in ToSet(b), LastPoint(b) < cutoff PROVE p \in Nat /\ p < cutoff
    BY <1>1, <1>12, <2>3
  <2> QED
    BY <1>5, <2>2, <2>3
\* Two blocks: the one that ends first is before the other.
<1>14. ASSUME NEW b \in ToSet(bs), NEW c \in ToSet(bs), LastPoint(b) < LastPoint(c)
       PROVE  Before(ToSet(b), ToSet(c))
  <2>1. PICK i \in DOMAIN bs : b = bs[i]
    BY DEF ToSet
  <2>2. PICK j \in DOMAIN bs : c = bs[j]
    BY DEF ToSet
  <2>3. ~ j < i
    BY <1>2, <1>12, <1>14, <2>1, <2>2 DEF InOrder, Before
  <2>4. i # j
    BY <1>12, <1>14, <2>1, <2>2
  <2>5. i \in Nat /\ j \in Nat
    BY <1>1
  <2>6. i < j
    BY <2>3, <2>4, <2>5
  <2> QED
    BY <1>2, <2>1, <2>2, <2>6 DEF InOrder
<1>15. ASSUME NEW p \in PointsOf(evicted), NEW r \in Held(kept)
       PROVE  p < r
  <2>0. p \in Nat /\ p < cutoff
    BY <1>13
  <2>1. CASE r \in ToSet(kept.raw)
    <3>1. r \in Nat /\ r >= cutoff
      BY <1>1, <1>3, <1>5, <2>1
    <3> QED
      BY <2>0, <3>1
  <2>2. CASE r \in PointsOf(kept.blocks)
    <3>1. PICK c \in ToSet(bs) : r \in ToSet(c) /\ ~ LastPoint(c) < cutoff
      BY <1>5, <2>2
    <3>2. CASE p \in OP
      <4>1. LastPoint(c) < p
        BY <1>2, <1>3, <1>12, <3>2 DEF Before
      <4> QED
        BY <1>12, <2>0, <3>1, <4>1
    <3>3. ASSUME NEW b \in ToSet(bs), p \in ToSet(b), LastPoint(b) < cutoff PROVE p < r
      <4>1. LastPoint(b) < LastPoint(c)
        BY <1>12, <3>1, <3>3
      <4> QED
        BY <1>14, <3>1, <3>3, <4>1 DEF Before
    <3> QED
      BY <1>5, <3>2, <3>3
  <2> QED
    BY <2>1, <2>2 DEF Held
<1>16. Before(PointsOf(evicted), Held(kept))
  BY <1>15 DEF Before
<1> QED
  BY <1>9, <1>11, <1>13, <1>16 DEF kept, evicted

-----------------------------------------------------------------------------
(* The redo log, written again.                                            *)

\* Induction up to a bound.
LEMMA UpTo ==
    ASSUME NEW L \in Nat, NEW T, 0 \in T, \A n \in 1..L : n - 1 \in T => n \in T
    PROVE  \A n \in 0..L : n \in T
<1> DEFINE bad == {n \in 0..L : n \notin T}
<1>1. bad \in SUBSET Nat
  OBVIOUS
<1>2. ASSUME bad # {} PROVE FALSE
  <2>1. PICK m \in bad : \A n \in bad : m <= n
    BY <1>1, <1>2, LeastNat
  <2>2. m \in 1..L /\ m - 1 \in 0..L
    BY <2>1
  <2>3. m - 1 \in T
    BY <2>1, <2>2
  <2> QED
    BY <2>1, <2>2, <2>3
<1> QED
  BY <1>2

\* f is the file with the first points of the log added, up to m.
Replays(f, m) ==
    f = [n \in 0..m |-> IF n = 0 THEN file ELSE AddPoint(f[n - 1], redo[n])]

LEMMA ReplayExists ==
    ASSUME redo \in Seq(Nat)
    PROVE  \E f : Replays(f, Len(redo)) /\ Replayed = f[Len(redo)]
<1> DEFINE L == Len(redo)
           T == {m \in Nat : \E f : Replays(f, m)}
<1>1. L \in Nat
  OBVIOUS
<1>2. 0 \in T
  <2> DEFINE f == [n \in 0..0 |-> file]
  <2>1. f = [n \in 0..0 |-> IF n = 0 THEN file ELSE AddPoint(f[n - 1], redo[n])]
    <3>1. \A n \in 0..0 : n = 0
      OBVIOUS
    <3> QED
      BY <3>1
  <2>2. Replays(f, 0)
    BY <2>1 DEF Replays
  <2> QED
    BY <2>2
<1>3. ASSUME NEW m \in 1..L, m - 1 \in T PROVE m \in T
  <2>1. PICK g : Replays(g, m - 1)
    BY <1>3
  <2> DEFINE f == [n \in 0..m |-> IF n = m THEN AddPoint(g[m - 1], redo[m]) ELSE g[n]]
             step == [n \in 0..m |-> IF n = 0 THEN file ELSE AddPoint(f[n - 1], redo[n])]
  <2>2. m \in Nat /\ m # 0 /\ DOMAIN g = 0..m - 1
    BY <1>1, <2>1 DEF Replays
  <2>3. ASSUME NEW n \in 0..m PROVE f[n] = step[n]
    <3>1. CASE n = m
      <4>1. m - 1 \in 0..m /\ m - 1 # m
        BY <2>2
      <4>2. f[m - 1] = g[m - 1]
        BY <4>1
      <4>3. f[n] = AddPoint(g[m - 1], redo[m])
        BY <3>1
      <4>4. step[n] = AddPoint(f[m - 1], redo[m])
        BY <2>2, <3>1
      <4> HIDE DEF f, step
      <4> QED
        BY <4>2, <4>3, <4>4
    <3>2. CASE n = 0
      <4>1. g[0] = file
        BY <2>1, <2>2 DEF Replays
      <4>2. f[0] = g[0]
        BY <2>2
      <4>3. step[0] = file
        BY <2>2
      <4> HIDE DEF f, step
      <4> QED
        BY <3>2, <4>1, <4>2, <4>3
    <3>3. CASE n # m /\ n # 0
      <4>1. n \in 0..m - 1 /\ n - 1 \in 0..m /\ n - 1 # m
        BY <2>2, <3>3
      <4>2. g[n] = AddPoint(g[n - 1], redo[n])
        BY <2>1, <3>3, <4>1 DEF Replays
      <4>3. f[n] = g[n] /\ f[n - 1] = g[n - 1]
        BY <3>3, <4>1
      <4>4. step[n] = AddPoint(f[n - 1], redo[n])
        BY <3>3
      <4> HIDE DEF f, step
      <4> QED
        BY <4>2, <4>3, <4>4
    <3> QED
      BY <3>1, <3>2, <3>3
  <2>4. f = step
    <3>1. f = [n \in 0..m |-> f[n]] /\ step = [n \in 0..m |-> step[n]]
      OBVIOUS
    <3> HIDE DEF f, step
    <3> QED
      BY <2>3, <3>1
  <2>5. Replays(f, m)
    BY <2>4 DEF Replays
  <2> HIDE DEF f
  <2> QED
    BY <2>2, <2>5
<1>4. \E f : Replays(f, L)
  <2> HIDE DEF T, L
  <2>1. \A n \in 0..L : n \in T
    BY <1>1, <1>2, <1>3, UpTo
  <2>2. L \in T
    BY <1>1, <2>1
  <2> QED
    BY <2>2 DEF T
<1> DEFINE after == CHOOSE f : Replays(f, L)
<1>5. Replayed = after[L]
  BY DEF Replayed, Replays
<1>6. Replays(after, L)
  BY <1>4
<1> QED
  BY <1>5, <1>6

\* After the replay the buffer holds the points of the file and of the log, in
\* order if they were.
LEMMA ReplayedIs ==
    ASSUME redo \in Seq(Nat), file \in Buffer
    PROVE  /\ Replayed \in Buffer
           /\ Held(Replayed) = Held(file) \cup ToSet(redo)
           /\ GoodBuffer(file) /\ Rising(redo) /\ Before(Held(file), ToSet(redo)) => GoodBuffer(Replayed)
<1> DEFINE L == Len(redo)
           ordered == GoodBuffer(file) /\ Rising(redo) /\ Before(Held(file), ToSet(redo))
<1>1. PICK f : Replays(f, L) /\ Replayed = f[L]
  BY ReplayExists
<1>2. L \in Nat /\ DOMAIN redo = 1..L /\ \A i \in 1..L : redo[i] \in Nat
  OBVIOUS
<1> DEFINE first(n) == {redo[i] : i \in 1..n}
           T == {n \in 0..L : /\ f[n] \in Buffer
                              /\ Held(f[n]) = Held(file) \cup first(n)
                              /\ ordered => GoodBuffer(f[n])}
<1>3. f[0] = file /\ \A n \in 1..L : f[n] = AddPoint(f[n - 1], redo[n])
  <2>1. f = [n \in 0..L |-> IF n = 0 THEN file ELSE AddPoint(f[n - 1], redo[n])]
    BY <1>1 DEF Replays
  <2> HIDE DEF L
  <2> QED
    BY <1>2, <2>1
<1> HIDE DEF L, ordered
<1>4. 0 \in T
  <2>1. first(0) = {}
    OBVIOUS
  <2>2. ordered => GoodBuffer(f[0])
    BY <1>3 DEF ordered
  <2> HIDE DEF first
  <2> QED
    BY <1>2, <1>3, <2>1, <2>2
<1>5. ASSUME NEW n \in 1..L, n - 1 \in T PROVE n \in T
  <2> DEFINE b == f[n - 1]
             p == redo[n]
  <2>1. b \in Buffer /\ Held(b) = Held(file) \cup first(n - 1) /\ (ordered => GoodBuffer(b))
    BY <1>5
  <2>2. p \in Nat /\ f[n] = AddPoint(b, p)
    BY <1>2, <1>3
  <2>3. first(n) = first(n - 1) \cup {p}
    <3>1. \A i \in 1..n : i = n \/ i \in 1..(n - 1)
      BY <1>2
    <3>2. \A i \in 1..(n - 1) : i \in 1..n
      BY <1>2
    <3>3. n \in 1..n
      BY <1>2
    <3> QED
      BY <3>1, <3>2, <3>3
  <2>4. ordered => Before(Held(b), {p})
    <3>1. p \in ToSet(redo)
      BY <1>2 DEF ToSet
    <3>2. \A i \in 1..(n - 1) : i \in DOMAIN redo /\ n \in DOMAIN redo /\ i < n
      BY <1>2
    <3>3. ordered => \A i \in 1..(n - 1) : redo[i] < p
      BY <3>2 DEF ordered, Rising
    <3>4. ordered => Before(Held(file), {p})
      BY <3>1 DEF ordered, Before
    <3>5. ordered => Before(first(n - 1), {p})
      BY <3>3 DEF Before
    <3> HIDE DEF first, b, p
    <3> QED
      BY <2>1, <3>4, <3>5 DEF Before
  <2> HIDE DEF b, p, first
  <2>5. /\ f[n] \in Buffer /\ Held(f[n]) = Held(b) \cup {p}
        /\ ordered => GoodBuffer(f[n])
    <3>1. b \in Buffer /\ p \in Nat
      BY <2>1, <2>2
    <3> HIDE DEF T
    <3>2. /\ AddPoint(b, p) \in Buffer /\ Held(AddPoint(b, p)) = Held(b) \cup {p}
          /\ GoodBuffer(b) /\ Before(Held(b), {p}) => GoodBuffer(AddPoint(b, p))
      BY <3>1, AddPointAdds
    <3>3. ordered => GoodBuffer(b) /\ Before(Held(b), {p})
      BY <2>1, <2>4
    <3>4. f[n] = AddPoint(b, p)
      BY <2>2
    <3> QED
      BY <3>2, <3>3, <3>4
  <2>6. n \in 0..L
    BY <1>2
  <2>7. Held(f[n]) = Held(file) \cup first(n)
    BY <2>1, <2>3, <2>5
  <2> QED
    BY <2>5, <2>6, <2>7
<1>6. L \in T
  <2> HIDE DEF T
  <2>1. \A n \in 0..L : n \in T
    BY <1>2, <1>4, <1>5, UpTo
  <2> QED
    BY <1>2, <2>1
<1>7. first(L) = ToSet(redo)
  BY <1>2 DEF ToSet, L
<1> HIDE DEF first
<1>8. /\ Replayed \in Buffer /\ Held(Replayed) = Held(file) \cup ToSet(redo)
      /\ ordered => GoodBuffer(Replayed)
  BY <1>1, <1>6, <1>7
<1> QED
  BY <1>8 DEF ordered

-----------------------------------------------------------------------------
(* The invariant: what every step needs.                                   *)

LEMMA TierFacts ==
    ASSUME TiersInv
    PROVE  /\ HotDays \in Nat /\ ColdDays \in Nat /\ ColdDays > HotDays /\ clock \in Nat
           /\ written \in Seq(Nat) /\ redo \in Seq(Nat) /\ ToSet(written) \in SUBSET Nat
           /\ hot \in Buffer /\ file \in Buffer /\ saver.copy \in Buffer
           /\ frames \in Seq(Seq(Nat)) /\ keeper.blocks \in Seq(Seq(Nat))
           /\ Len(redo) \in Nat /\ saver.covers \in 0..Len(redo)
           /\ Held(hot) \subseteq ToSet(written) /\ Held(file) \subseteq ToSet(written)
           /\ Held(saver.copy) \subseteq ToSet(written) /\ ToSet(redo) \subseteq ToSet(written)
           /\ PointsOf(frames) \subseteq ToSet(written)
           /\ PointsOf(keeper.blocks) \subseteq ToSet(written)
<1>1. /\ clock \in Nat /\ written \in Seq(Nat) /\ redo \in Seq(Nat)
      /\ hot \in Buffer /\ file \in Buffer /\ saver.copy \in Buffer
      /\ frames \in Seq(Seq(Nat)) /\ keeper.blocks \in Seq(Seq(Nat)) /\ saver.covers \in Nat
  BY DEF TiersInv, TiersTypeOK
<1>2. HotDays \in Nat /\ ColdDays \in Nat /\ ColdDays > HotDays
  BY TimeTiersAssumption
<1>3. ToSet(written) \in SUBSET Nat
  BY <1>1 DEF ToSet
<1>4. Len(redo) \in Nat
  BY <1>1
<1>5. saver.covers \in 0..Len(redo)
  BY <1>1, <1>4 DEF TiersInv, KeeperInv
<1>6. /\ Held(hot) \subseteq ToSet(written) /\ Held(file) \subseteq ToSet(written)
      /\ Held(saver.copy) \subseteq ToSet(written) /\ ToSet(redo) \subseteq ToSet(written)
      /\ PointsOf(frames) \subseteq ToSet(written)
      /\ PointsOf(keeper.blocks) \subseteq ToSet(written)
  BY DEF TiersInv, WrittenInv
<1> QED
  BY <1>1, <1>2, <1>3, <1>4, <1>5, <1>6

LEMMA EmptyBuffer ==
    Empty \in Buffer /\ Held(Empty) = {} /\ GoodBuffer(Empty)
<1>1. Empty.raw = <<>> /\ Empty.blocks = <<>>
  BY DEF Empty
<1>2. <<>> \in Seq(Nat)
  OBVIOUS
<1>3. /\ PointsOf(<<>>) = {} /\ ToSet(<<>>) = {}
      /\ <<>> \in Seq(Seq(Nat)) /\ InOrder(<<>>) /\ GoodBlocks(<<>>) /\ Rising(<<>>)
  BY <1>2, OneBlock
<1>4. Empty \in Buffer
  BY <1>2, <1>3 DEF Empty, Buffer
<1>5. Held(Empty) = {}
  BY <1>1, <1>3 DEF Held
<1>6. GoodBuffer(Empty)
  BY <1>1, <1>3 DEF GoodBuffer, Before
<1> QED
  BY <1>4, <1>5, <1>6

\* The end of a sequence, behind its first n members.
LEMMA TailOf ==
    ASSUME NEW s \in Seq(Nat), NEW n \in 0..Len(s)
    PROVE  /\ SubSeq(s, n + 1, Len(s)) \in Seq(Nat)
           /\ ToSet(SubSeq(s, n + 1, Len(s))) \subseteq ToSet(s)
           /\ Rising(s) => Rising(SubSeq(s, n + 1, Len(s)))
           /\ n = 0 => SubSeq(s, n + 1, Len(s)) = s
           /\ n = Len(s) => ToSet(SubSeq(s, n + 1, Len(s))) = {}
           /\ \A p \in Nat : ToSet(SubSeq(Append(s, p), n + 1, Len(s) + 1))
                               = ToSet(SubSeq(s, n + 1, Len(s))) \cup {p}
<1> DEFINE t == SubSeq(s, n + 1, Len(s))
<1>1. /\ DOMAIN s = 1..Len(s) /\ Len(s) \in Nat /\ n \in Nat
      /\ DOMAIN t = 1..(Len(s) - n)
      /\ \A i \in DOMAIN t : t[i] = s[n + i] /\ n + i \in DOMAIN s
      /\ t \in Seq(Nat)
  OBVIOUS
<1>2. n = 0 => t = s
  OBVIOUS
<1>3. ASSUME NEW p \in Nat
      PROVE  ToSet(SubSeq(Append(s, p), n + 1, Len(s) + 1)) = ToSet(t) \cup {p}
  <2> DEFINE a == Append(s, p)
             u == SubSeq(a, n + 1, Len(s) + 1)
  <2>1. /\ DOMAIN a = 1..(Len(s) + 1) /\ a \in Seq(Nat) /\ Len(a) = Len(s) + 1
        /\ \A i \in 1..Len(s) : a[i] = s[i]
        /\ a[Len(s) + 1] = p
    OBVIOUS
  <2> HIDE DEF a
  <2>2. /\ DOMAIN u = 1..(Len(s) + 1 - n)
        /\ \A i \in DOMAIN u : u[i] = a[n + i]
    BY <1>1, <2>1
  <2> HIDE DEF u, t
  <2>3. \A i \in DOMAIN t : i \in DOMAIN u /\ u[i] = t[i]
    <3>1. TAKE i \in DOMAIN t
    <3>2. i \in DOMAIN u /\ n + i \in 1..Len(s) /\ t[i] = s[n + i]
      BY <1>1, <2>2
    <3> QED
      BY <2>1, <2>2, <3>2
  <2>4. Len(s) + 1 - n \in DOMAIN u /\ u[Len(s) + 1 - n] = p
    <3> DEFINE i == Len(s) + 1 - n
    <3>1. i \in DOMAIN u /\ n + i = Len(s) + 1
      BY <1>1, <2>2
    <3> HIDE DEF i
    <3>2. u[i] = p
      BY <2>1, <2>2, <3>1
    <3> QED
      BY <3>1, <3>2 DEF i
  <2>5. \A i \in DOMAIN u : (i \in DOMAIN t /\ u[i] = t[i]) \/ i = Len(s) + 1 - n
    <3>1. SUFFICES ASSUME NEW i \in DOMAIN u, i # Len(s) + 1 - n PROVE i \in DOMAIN t
      BY <2>3
    <3>2. i \in 1..(Len(s) + 1 - n)
      BY <2>2
    <3> DEFINE L == Len(s)
    <3>3. L \in Nat /\ n \in 0..L /\ i \in 1..(L + 1 - n) /\ i # L + 1 - n
      BY <1>1, <3>1, <3>2
    <3> HIDE DEF L
    <3>4. i \in 1..(L - n)
      BY <3>3
    <3> QED
      BY <1>1, <3>4 DEF L
  <2>6. ToSet(u) \subseteq ToSet(t) \cup {p}
    BY <2>4, <2>5 DEF ToSet
  <2>7. ToSet(t) \subseteq ToSet(u)
    BY <2>3 DEF ToSet
  <2>8. p \in ToSet(u)
    BY <2>4 DEF ToSet
  <2> QED
    BY <2>6, <2>7, <2>8 DEF u, t, a
<1> HIDE DEF t
<1>4. ToSet(t) \subseteq ToSet(s)
  BY <1>1 DEF ToSet
<1>5. Rising(s) => Rising(t)
  <2>1. SUFFICES ASSUME Rising(s), NEW i \in DOMAIN t, NEW j \in DOMAIN t, i < j PROVE t[i] < t[j]
    BY DEF Rising
  <2>2. n + i \in DOMAIN s /\ n + j \in DOMAIN s /\ n + i < n + j
    BY <1>1, <2>1
  <2>3. t[i] = s[n + i] /\ t[j] = s[n + j]
    BY <1>1
  <2> QED
    BY <2>1, <2>2, <2>3 DEF Rising
<1>6. n = Len(s) => ToSet(t) = {}
  <2>1. n = Len(s) => DOMAIN t = {}
    BY <1>1
  <2> QED
    BY <2>1 DEF ToSet
<1> QED
  BY <1>1, <1>2, <1>3, <1>4, <1>5, <1>6 DEF t

LEMMA PrefixBlocks ==
    ASSUME NEW bs \in Seq(Seq(Nat)), NEW n \in 0..Len(bs) - 1
    PROVE  /\ SubSeq(bs, 1, n) \in Seq(Seq(Nat))
           /\ PointsOf(SubSeq(bs, 1, n)) \subseteq PointsOf(bs)
           /\ GoodBlocks(bs) => GoodBlocks(SubSeq(bs, 1, n))
           /\ InOrder(bs) => InOrder(SubSeq(bs, 1, n))
<1> DEFINE t == SubSeq(bs, 1, n)
<1>1. /\ DOMAIN bs = 1..Len(bs) /\ Len(bs) \in Nat /\ n \in Nat
      /\ DOMAIN t = 1..n /\ t \in Seq(Seq(Nat))
      /\ \A i \in DOMAIN t : t[i] = bs[i]
  OBVIOUS
<1> HIDE DEF t
<1>2. \A i \in DOMAIN t : i \in DOMAIN bs /\ t[i] = bs[i]
  BY <1>1
<1>3. PointsOf(t) \subseteq PointsOf(bs)
  BY <1>2 DEF PointsOf
<1>4. GoodBlocks(bs) => GoodBlocks(t)
  BY <1>2 DEF GoodBlocks
<1>5. InOrder(bs) => InOrder(t)
  BY <1>2 DEF InOrder
<1> QED
  BY <1>1, <1>3, <1>4, <1>5 DEF t

\* What an append that stops half way leaves in the file.
LEMMA PartOfAppendIs ==
    ASSUME TiersInv, PartOfAppend
    PROVE  /\ frames' \in Seq(Seq(Nat)) /\ torn' \in BOOLEAN
           /\ PointsOf(frames) \subseteq PointsOf(frames')
           /\ PointsOf(frames') \subseteq PointsOf(frames) \cup PointsOf(keeper.blocks)
           /\ GoodBlocks(frames) /\ GoodBlocks(keeper.blocks) => GoodBlocks(frames')
           /\ InOrder(frames) /\ InOrder(keeper.blocks)
                /\ Before(PointsOf(frames), PointsOf(keeper.blocks)) => InOrder(frames')
<1> DEFINE bs == keeper.blocks
<1>1. bs \in Seq(Seq(Nat)) /\ frames \in Seq(Seq(Nat))
  BY TierFacts
<1>2. PICK n \in 0..Len(bs) - 1 : /\ frames' = IF torn THEN frames ELSE frames \o SubSeq(bs, 1, n)
                                  /\ torn' \in {torn, TRUE}
  BY DEF PartOfAppend
<1>3. torn' \in BOOLEAN
  BY <1>2 DEF TiersInv, TiersTypeOK
<1> HIDE DEF bs
<1> DEFINE p == SubSeq(bs, 1, n)
<1>4. /\ p \in Seq(Seq(Nat)) /\ PointsOf(p) \subseteq PointsOf(bs)
      /\ GoodBlocks(bs) => GoodBlocks(p)
      /\ InOrder(bs) => InOrder(p)
  BY <1>1, PrefixBlocks
<1> HIDE DEF p
<1>5. /\ frames \o p \in Seq(Seq(Nat))
      /\ PointsOf(frames \o p) = PointsOf(frames) \cup PointsOf(p)
      /\ GoodBlocks(frames) /\ GoodBlocks(p) => GoodBlocks(frames \o p)
      /\ InOrder(frames) /\ InOrder(p) /\ Before(PointsOf(frames), PointsOf(p)) => InOrder(frames \o p)
  BY <1>1, <1>4, Joined
<1>6. Before(PointsOf(frames), PointsOf(bs)) => Before(PointsOf(frames), PointsOf(p))
  BY <1>4 DEF Before
<1>7. frames' = frames \/ frames' = frames \o p
  BY <1>2 DEF p
<1>8. /\ frames' \in Seq(Seq(Nat))
      /\ PointsOf(frames) \subseteq PointsOf(frames')
      /\ PointsOf(frames') \subseteq PointsOf(frames) \cup PointsOf(bs)
      /\ GoodBlocks(frames) /\ GoodBlocks(bs) => GoodBlocks(frames')
      /\ InOrder(frames) /\ InOrder(bs)
           /\ Before(PointsOf(frames), PointsOf(bs)) => InOrder(frames')
  <2>1. CASE frames' = frames
    BY <1>1, <2>1
  <2>2. CASE frames' = frames \o p
    BY <1>4, <1>5, <1>6, <2>2
  <2> QED
    BY <1>7, <2>1, <2>2
<1> QED
  BY <1>3, <1>8 DEF bs

-----------------------------------------------------------------------------
(* The steps.                                                              *)

LEMMA InitHolds == TiersInit => TiersInv
<1> SUFFICES ASSUME TiersInit PROVE TiersInv
  OBVIOUS
<1>1. Empty \in Buffer /\ Held(Empty) = {} /\ GoodBuffer(Empty)
  BY EmptyBuffer
<1>2. /\ PointsOf(<<>>) = {} /\ ToSet(<<>>) = {}
      /\ <<>> \in Seq(Seq(Nat)) /\ <<>> \in Seq(Nat)
      /\ InOrder(<<>>) /\ GoodBlocks(<<>>) /\ Rising(<<>>)
  <2>1. <<>> \in Seq(Nat)
    OBVIOUS
  <2> QED
    BY <2>1, OneBlock
<1>3. Len(redo) = 0 /\ Uncovered = <<>>
  BY DEF TiersInit, Uncovered
<1>4. TiersTypeOK
  BY <1>1, <1>2 DEF TiersTypeOK, TiersInit
<1>5. WrittenInv
  BY <1>1, <1>2 DEF WrittenInv, TiersInit
<1>6. KeeperInv
  BY <1>1, <1>2, <1>3 DEF KeeperInv, TiersInit
<1>7. OrderInv
  BY <1>1, <1>2, <1>3 DEF OrderInv, TiersInit, Before
<1>8. PlacedInv
  BY <1>2 DEF PlacedInv, TiersInit
<1>9. IndexedInv
  BY <1>1 DEF IndexedInv, TiersInit
<1>10. FirstRun
  BY <1>1, <1>2 DEF FirstRun, TiersInit, Before
<1> QED
  BY <1>4, <1>5, <1>6, <1>7, <1>8, <1>9, <1>10 DEF TiersInv

LEMMA TickKeeps ==
    ASSUME TiersInv, Tick
    PROVE  TiersInv'
<1>1. /\ HotDays \in Nat /\ ColdDays \in Nat /\ clock \in Nat /\ ToSet(written) \in SUBSET Nat
      /\ PointsOf(frames) \subseteq ToSet(written)
      /\ PointsOf(keeper.blocks) \subseteq ToSet(written)
  BY TierFacts
<1>2. /\ clock' = clock + 1
      /\ UNCHANGED <<written, writing, hot, indexed, frames, torn, coldIndex,
                     keeper, saver, file, redo, kills, lost, unindexed, twice>>
  BY DEF Tick
<1>3. TiersTypeOK'
  BY <1>1, <1>2 DEF TiersInv, TiersTypeOK
<1>4. WrittenInv'
  <2>1. WrittenInv /\ writing \in Nat
    BY DEF TiersInv, TiersTypeOK
  <2> QED
    BY <1>1, <1>2, <2>1 DEF WrittenInv
<1>5. KeeperInv'
  BY <1>2 DEF TiersInv, KeeperInv
<1>6. ASSUME ~ twice PROVE OrderInv'
  <2>1. OrderInv
    BY <1>6 DEF TiersInv
  <2>2. \A p \in PointsOf(frames) \cup PointsOf(keeper.blocks) : p < clock' - HotDays
    BY <1>1, <1>2, <2>1 DEF OrderInv
  <2>3. Uncovered' = Uncovered
    BY <1>2 DEF Uncovered
  <2> QED
    BY <1>2, <2>1, <2>2, <2>3 DEF OrderInv
<1>7. ~ twice => PlacedInv'
  <2>1. \A p \in ToSet(written) : Away(p) => Away(p)'
    BY <1>1, <1>2 DEF Away
  <2> QED
    BY <1>2, <2>1 DEF TiersInv, PlacedInv, Uncovered
<1>8. ~ twice => IndexedInv'
  BY <1>2 DEF TiersInv, IndexedInv
<1>9. kills = 0 => FirstRun'
  BY <1>2 DEF TiersInv, FirstRun
<1> QED
  BY <1>2, <1>3, <1>4, <1>5, <1>6, <1>7, <1>8, <1>9 DEF TiersInv

LEMMA RegisterSeriesKeeps ==
    ASSUME TiersInv, RegisterSeries
    PROVE  TiersInv'
<1>1. clock \in Nat /\ written \in Seq(Nat) /\ ToSet(written) \in SUBSET Nat
  BY TierFacts
<1>2. /\ written # <<>> => clock > LastPoint(written)
      /\ writing' = clock /\ indexed' = TRUE /\ unindexed' = FALSE
      /\ UNCHANGED <<clock, written, hot, frames, torn, coldIndex, keeper, saver,
                     file, redo, kills, lost, twice>>
  BY DEF RegisterSeries
<1>3. TiersTypeOK'
  BY <1>1, <1>2 DEF TiersInv, TiersTypeOK
<1>4. WrittenInv'
  <2>1. WrittenInv
    BY DEF TiersInv
  <2>2. Before(ToSet(written), {clock})
    <3>1. CASE written = <<>>
      <4>1. DOMAIN written = {}
        BY <3>1
      <4> QED
        BY <4>1 DEF Before, ToSet
    <3>2. CASE written # <<>>
      <4>1. LastPoint(written) \in Nat /\ \A p \in ToSet(written) : p <= LastPoint(written)
        BY <1>1, <2>1, <3>2, BlockBounds DEF WrittenInv
      <4>2. clock > LastPoint(written)
        BY <1>2, <3>2
      <4> QED
        BY <1>1, <4>1, <4>2 DEF Before
    <3> QED
      BY <3>1, <3>2
  <2> QED
    BY <1>1, <1>2, <2>1, <2>2 DEF WrittenInv
<1>5. KeeperInv'
  BY <1>2 DEF TiersInv, KeeperInv
<1>6. Uncovered' = Uncovered
  BY <1>2 DEF Uncovered
<1>7. ~ twice => OrderInv'
  BY <1>2, <1>6 DEF TiersInv, OrderInv
<1>8. ~ twice => PlacedInv'
  BY <1>2, <1>6 DEF TiersInv, PlacedInv, Away
<1>9. IndexedInv'
  BY <1>2 DEF IndexedInv
<1>10. kills = 0 => FirstRun'
  BY <1>2 DEF TiersInv, FirstRun
<1> QED
  BY <1>2, <1>3, <1>4, <1>5, <1>7, <1>8, <1>9, <1>10 DEF TiersInv

LEMMA InsertPointKeeps ==
    ASSUME TiersInv, InsertPoint
    PROVE  TiersInv'
<1> DEFINE p == writing
           newRedo == Append(redo, p)
           newWritten == Append(written, p)
           newHot == AddPoint(hot, p)
<1>1. /\ clock \in Nat /\ written \in Seq(Nat) /\ ToSet(written) \in SUBSET Nat
      /\ redo \in Seq(Nat) /\ hot \in Buffer /\ Len(redo) \in Nat /\ saver.covers \in 0..Len(redo)
      /\ Held(hot) \subseteq ToSet(written) /\ Held(file) \subseteq ToSet(written)
      /\ Held(saver.copy) \subseteq ToSet(written) /\ ToSet(redo) \subseteq ToSet(written)
      /\ PointsOf(frames) \subseteq ToSet(written)
      /\ PointsOf(keeper.blocks) \subseteq ToSet(written)
  BY TierFacts
<1>2. /\ writing # 0 /\ hot' = newHot /\ redo' = newRedo /\ written' = newWritten /\ writing' = 0
      /\ UNCHANGED <<clock, indexed, frames, torn, coldIndex, keeper, saver, file,
                     kills, lost, unindexed, twice>>
  BY DEF InsertPoint
<1>3. WrittenInv /\ KeeperInv /\ TiersTypeOK /\ (~ twice => OrderInv /\ PlacedInv /\ IndexedInv)
  BY DEF TiersInv
<1>4. p \in Nat /\ p <= clock /\ Before(ToSet(written), {p})
  BY <1>2, <1>3 DEF WrittenInv, TiersTypeOK
<1> HIDE DEF p
<1>5. /\ newHot \in Buffer /\ Held(newHot) = Held(hot) \cup {p}
      /\ GoodBuffer(hot) /\ Before(Held(hot), {p}) => GoodBuffer(newHot)
  BY <1>1, <1>4, AddPointAdds
<1>6. /\ newRedo \in Seq(Nat) /\ ToSet(newRedo) = ToSet(redo) \cup {p}
      /\ Len(newRedo) = Len(redo) + 1
      /\ newWritten \in Seq(Nat) /\ ToSet(newWritten) = ToSet(written) \cup {p}
  BY <1>1, <1>4, AppendedSet
<1>7. Rising(newWritten)
  BY <1>1, <1>3, <1>4, AppendedRising DEF WrittenInv
<1>8. \A T \in SUBSET ToSet(written) : Before(T, {p})
  BY <1>4 DEF Before
<1>9. Rising(redo) => Rising(newRedo)
  BY <1>1, <1>4, <1>8, AppendedRising
<1> HIDE DEF newRedo, newWritten, newHot
<1>10. ToSet(Uncovered') = ToSet(Uncovered) \cup {p}
  <2>1. Uncovered' = SubSeq(newRedo, saver.covers + 1, Len(redo) + 1)
    BY <1>2, <1>6 DEF Uncovered
  <2> DEFINE n == saver.covers
  <2>2. n \in 0..Len(redo)
    BY <1>1
  <2> HIDE DEF n
  <2>3. ToSet(SubSeq(Append(redo, p), n + 1, Len(redo) + 1)) = ToSet(SubSeq(redo, n + 1, Len(redo))) \cup {p}
    BY <1>1, <1>4, <2>2, TailOf
  <2> QED
    BY <2>1, <2>3, Zenon DEF newRedo, Uncovered, n
<1>11. TiersTypeOK'
  BY <1>2, <1>3, <1>5, <1>6 DEF TiersTypeOK
<1>12. WrittenInv'
  BY <1>1, <1>2, <1>3, <1>4, <1>5, <1>6, <1>7 DEF WrittenInv
<1>13. KeeperInv'
  BY <1>1, <1>2, <1>3, <1>6 DEF KeeperInv
<1>14. ASSUME ~ twice PROVE OrderInv'
  <2>1. OrderInv
    BY <1>3, <1>14
  <2>2. GoodBuffer(newHot)
    BY <1>1, <1>5, <1>8, <2>1 DEF OrderInv
  <2>3. saver.at # "retire" => Before(Held(file), ToSet(newRedo))
    BY <1>1, <1>6, <1>8, <2>1 DEF OrderInv, Before
  <2>4. Before(Held(saver.copy), ToSet(Uncovered'))
    BY <1>1, <1>8, <1>10, <2>1 DEF OrderInv, Before
  <2> QED
    BY <1>2, <1>9, <2>1, <2>2, <2>3, <2>4 DEF OrderInv
<1>15. ASSUME ~ twice PROVE PlacedInv'
  <2>1. PlacedInv
    BY <1>3, <1>15
  <2>2. \A q : Away(q) => Away(q)'
    BY <1>2 DEF Away
  <2> QED
    BY <1>2, <1>5, <1>6, <1>10, <2>1, <2>2 DEF PlacedInv
<1>16. ASSUME ~ twice PROVE IndexedInv'
  BY <1>2, <1>3, <1>16 DEF IndexedInv
<1>17. ASSUME kills = 0 PROVE FirstRun'
  <2>1. FirstRun
    BY <1>17 DEF TiersInv
  <2>2. Before(PointsOf(frames) \cup PointsOf(keeper.blocks), Held(newHot))
    <3>1. Before(PointsOf(frames) \cup PointsOf(keeper.blocks), {p})
      BY <1>1, <1>8
    <3> QED
      BY <1>5, <2>1, <3>1 DEF FirstRun, Before
  <2> QED
    BY <1>2, <2>1, <2>2 DEF FirstRun
<1> QED
  BY <1>2, <1>11, <1>12, <1>13, <1>14, <1>15, <1>16, <1>17 DEF TiersInv

LEMMA EnforceRetentionKeeps ==
    ASSUME TiersInv, EnforceRetention
    PROVE  TiersInv'
<1> DEFINE cutoff == clock - HotDays
           newHot == Stays(hot, cutoff)
           evicted == Evicted(hot, cutoff)
<1>1. /\ clock \in Nat /\ HotDays \in Nat /\ hot \in Buffer
      /\ Held(hot) \subseteq ToSet(written)
  BY TierFacts
<1>2. /\ keeper.at = "idle" /\ evicted # <<>> /\ hot' = newHot
      /\ keeper' = [at |-> "append", blocks |-> evicted]
      /\ UNCHANGED <<clock, written, writing, indexed, frames, torn, coldIndex,
                     saver, file, redo, kills, lost, unindexed, twice>>
  BY DEF EnforceRetention
<1>3. WrittenInv /\ KeeperInv /\ TiersTypeOK /\ (~ twice => OrderInv /\ PlacedInv /\ IndexedInv)
  BY DEF TiersInv
<1>4. keeper.blocks = <<>> /\ PointsOf(keeper.blocks) = {}
  <2>1. keeper.blocks = <<>>
    BY <1>2, <1>3 DEF KeeperInv
  <2>2. <<>> \in Seq(Nat)
    OBVIOUS
  <2> QED
    BY <2>1, <2>2, OneBlock
<1>5. /\ newHot \in Buffer /\ evicted \in Seq(Seq(Nat))
      /\ Held(hot) = Held(newHot) \cup PointsOf(evicted)
  <2>1. cutoff \in Int
    BY <1>1
  <2> HIDE DEF cutoff
  <2> QED
    BY <1>1, <2>1, PruneSplits
<1>6. GoodBuffer(hot) => /\ GoodBuffer(newHot) /\ GoodBlocks(evicted) /\ InOrder(evicted)
                         /\ \A p \in PointsOf(evicted) : p < cutoff
                         /\ Before(PointsOf(evicted), Held(newHot))
  <2>1. cutoff \in Int
    BY <1>1
  <2> HIDE DEF cutoff
  <2> QED
    BY <1>1, <2>1, PruneOrders
<1> HIDE DEF newHot, evicted
<1>7. TiersTypeOK'
  BY <1>2, <1>3, <1>5 DEF TiersTypeOK
<1>8. keeper'.at = "append" /\ keeper'.blocks = evicted
  BY <1>2
<1>9. WrittenInv'
  BY <1>1, <1>2, <1>3, <1>5, <1>8 DEF WrittenInv
<1>10. KeeperInv'
  BY <1>2, <1>3, <1>8 DEF KeeperInv
<1>11. Uncovered' = Uncovered
  BY <1>2 DEF Uncovered
<1>12. ASSUME ~ twice PROVE OrderInv'
  BY <1>2, <1>3, <1>6, <1>8, <1>11, <1>12 DEF OrderInv
<1>13. ASSUME ~ twice PROVE PlacedInv'
  <2>1. PlacedInv
    BY <1>3, <1>13
  <2>2. \A p : Away(p) => Away(p)'
    BY <1>2, <1>4 DEF Away
  <2>3. \A p \in PointsOf(evicted) : Away(p)'
    BY <1>8 DEF Away
  <2> QED
    BY <1>2, <1>5, <1>11, <2>1, <2>2, <2>3 DEF PlacedInv
<1>14. ASSUME ~ twice PROVE IndexedInv'
  <2>1. Held(hot) # {}
    <3>1. GoodBlocks(evicted)
      BY <1>3, <1>6, <1>14 DEF OrderInv
    <3>2. 1 \in DOMAIN evicted /\ evicted[1] \in Seq(Nat)
      BY <1>2, <1>5
    <3>3. evicted[1] # <<>>
      BY <3>1, <3>2 DEF GoodBlocks
    <3>4. 1 \in DOMAIN evicted[1]
      BY <3>2, <3>3
    <3>5. evicted[1][1] \in PointsOf(evicted)
      BY <3>2, <3>4 DEF PointsOf, ToSet
    <3> QED
      BY <1>5, <3>5
  <2> QED
    BY <1>2, <1>3, <1>14, <2>1 DEF IndexedInv
<1>15. ASSUME kills = 0 PROVE FirstRun'
  <2>1. FirstRun /\ GoodBuffer(hot)
    BY <1>3, <1>15 DEF TiersInv, FirstRun, OrderInv
  <2>2. Before(PointsOf(frames), Held(hot))
    BY <2>1 DEF FirstRun, Before
  <2>3. Before(PointsOf(frames), PointsOf(evicted)) /\ Before(PointsOf(frames), Held(newHot))
    BY <1>5, <2>2 DEF Before
  <2>4. Before(PointsOf(frames) \cup PointsOf(evicted), Held(newHot))
    BY <1>6, <2>1, <2>3 DEF Before
  <2> QED
    BY <1>2, <1>6, <1>8, <2>1, <2>3, <2>4 DEF FirstRun
<1> QED
  BY <1>2, <1>7, <1>9, <1>10, <1>12, <1>13, <1>14, <1>15 DEF TiersInv

LEMMA AppendFramesKeeps ==
    ASSUME TiersInv, AppendFrames
    PROVE  TiersInv'
<1> DEFINE bs == keeper.blocks
           more == frames \o bs
<1>1. bs \in Seq(Seq(Nat)) /\ frames \in Seq(Seq(Nat))
  BY TierFacts
<1>2. /\ keeper.at = "append"
      /\ frames' = IF torn THEN frames ELSE more
      /\ lost' = IF torn THEN lost \cup PointsOf(bs) ELSE lost
      /\ keeper' = [keeper EXCEPT !.at = "index"]
      /\ UNCHANGED <<clock, written, writing, hot, indexed, torn, coldIndex,
                     saver, file, redo, kills, unindexed, twice>>
  BY DEF AppendFrames
<1>3. WrittenInv /\ KeeperInv /\ TiersTypeOK /\ (~ twice => OrderInv /\ PlacedInv /\ IndexedInv)
  BY DEF TiersInv
<1>4. keeper'.at = "index" /\ keeper'.blocks = bs
  BY <1>2, <1>3 DEF TiersTypeOK
<1>5. /\ more \in Seq(Seq(Nat)) /\ PointsOf(more) = PointsOf(frames) \cup PointsOf(bs)
      /\ GoodBlocks(frames) /\ GoodBlocks(bs) => GoodBlocks(more)
      /\ InOrder(frames) /\ InOrder(bs) /\ Before(PointsOf(frames), PointsOf(bs)) => InOrder(more)
  BY <1>1, Joined
<1> HIDE DEF more, bs
<1>6. /\ frames' \in Seq(Seq(Nat)) /\ PointsOf(frames) \subseteq PointsOf(frames')
      /\ PointsOf(frames') \subseteq PointsOf(frames) \cup PointsOf(bs)
      /\ PointsOf(bs) \subseteq PointsOf(frames') \cup lost'
      /\ lost \subseteq lost'
  BY <1>1, <1>2, <1>5
<1>7. TiersTypeOK'
  BY <1>2, <1>3, <1>6 DEF TiersTypeOK
<1>8. WrittenInv'
  BY <1>2, <1>3, <1>4, <1>6 DEF WrittenInv, bs
<1>9. KeeperInv'
  BY <1>2, <1>3, <1>4, <1>6 DEF KeeperInv, bs
<1>10. Uncovered' = Uncovered
  BY <1>2 DEF Uncovered
<1>11. ASSUME ~ twice PROVE OrderInv'
  <2>1. OrderInv
    BY <1>3, <1>11
  <2>2. GoodBlocks(frames')
    BY <1>2, <1>5, <2>1 DEF OrderInv, bs
  <2>3. \A p \in PointsOf(frames') \cup PointsOf(bs) : p < clock - HotDays
    BY <1>6, <2>1 DEF OrderInv, bs
  <2> QED
    BY <1>2, <1>4, <1>10, <2>1, <2>2, <2>3 DEF OrderInv, bs
<1>12. ASSUME ~ twice PROVE PlacedInv'
  <2>1. PlacedInv
    BY <1>3, <1>12
  <2>2. \A p : Away(p) => Away(p)'
    BY <1>2, <1>4, <1>6 DEF Away, bs
  <2> QED
    BY <1>2, <1>10, <2>1, <2>2 DEF PlacedInv
<1>13. ASSUME ~ twice PROVE IndexedInv'
  BY <1>2, <1>3, <1>4, <1>13 DEF IndexedInv, bs
<1>14. ASSUME kills = 0 PROVE FirstRun'
  <2>1. FirstRun /\ Before(PointsOf(frames), PointsOf(bs))
    BY <1>2, <1>14 DEF TiersInv, FirstRun, bs
  <2>2. InOrder(frames')
    BY <1>2, <1>5, <2>1 DEF FirstRun, bs
  <2>3. Before(PointsOf(frames') \cup PointsOf(bs), Held(hot))
    BY <1>6, <2>1 DEF FirstRun, Before, bs
  <2> QED
    BY <1>2, <1>4, <2>1, <2>2, <2>3 DEF FirstRun, bs
<1> QED
  BY <1>2, <1>7, <1>8, <1>9, <1>11, <1>12, <1>13, <1>14 DEF TiersInv

LEMMA AppendFailsKeeps ==
    ASSUME TiersInv, AppendFails
    PROVE  TiersInv'
<1>1. /\ frames' \in Seq(Seq(Nat)) /\ torn' \in BOOLEAN
      /\ PointsOf(frames) \subseteq PointsOf(frames')
      /\ PointsOf(frames') \subseteq PointsOf(frames) \cup PointsOf(keeper.blocks)
      /\ GoodBlocks(frames) /\ GoodBlocks(keeper.blocks) => GoodBlocks(frames')
      /\ InOrder(frames) /\ InOrder(keeper.blocks)
           /\ Before(PointsOf(frames), PointsOf(keeper.blocks)) => InOrder(frames')
  BY PartOfAppendIs DEF AppendFails
<1>2. /\ keeper.at = "append"
      /\ lost' = lost \cup PointsOf(keeper.blocks)
      /\ keeper' = [at |-> "idle", blocks |-> <<>>]
      /\ UNCHANGED <<clock, written, writing, hot, indexed, coldIndex, saver,
                     file, redo, kills, unindexed, twice>>
  BY DEF AppendFails
<1>3. WrittenInv /\ KeeperInv /\ TiersTypeOK /\ (~ twice => OrderInv /\ PlacedInv /\ IndexedInv)
  BY DEF TiersInv
<1>4. /\ keeper'.at = "idle" /\ keeper'.blocks = <<>> /\ PointsOf(<<>>) = {}
      /\ <<>> \in Seq(Seq(Nat)) /\ GoodBlocks(<<>>) /\ InOrder(<<>>)
  <2>1. <<>> \in Seq(Nat)
    OBVIOUS
  <2> QED
    BY <1>2, <2>1, OneBlock
<1>5. TiersTypeOK'
  BY <1>1, <1>2, <1>3, <1>4 DEF TiersTypeOK
<1>6. WrittenInv'
  BY <1>1, <1>2, <1>3, <1>4 DEF WrittenInv
<1>7. KeeperInv'
  BY <1>2, <1>3, <1>4 DEF KeeperInv
<1>8. Uncovered' = Uncovered
  BY <1>2 DEF Uncovered
<1>9. ASSUME ~ twice PROVE OrderInv'
  <2>1. OrderInv
    BY <1>3, <1>9
  <2>2. \A p \in PointsOf(frames') : p < clock - HotDays
    BY <1>1, <2>1 DEF OrderInv
  <2> QED
    BY <1>1, <1>2, <1>4, <1>8, <2>1, <2>2 DEF OrderInv
<1>10. ASSUME ~ twice PROVE PlacedInv'
  <2>1. PlacedInv
    BY <1>3, <1>10
  <2>2. \A p : Away(p) => Away(p)'
    BY <1>1, <1>2 DEF Away
  <2> QED
    BY <1>2, <1>8, <2>1, <2>2 DEF PlacedInv
<1>11. ASSUME ~ twice PROVE IndexedInv'
  BY <1>2, <1>3, <1>4, <1>11 DEF IndexedInv
<1>12. ASSUME kills = 0 PROVE FirstRun'
  <2>1. FirstRun
    BY <1>12 DEF TiersInv
  <2>2. InOrder(frames')
    BY <1>1, <1>2, <2>1 DEF FirstRun
  <2>3. Before(PointsOf(frames') \cup {}, Held(hot))
    BY <1>1, <2>1 DEF FirstRun, Before
  <2> QED
    BY <1>2, <1>4, <2>1, <2>2, <2>3 DEF FirstRun
<1> QED
  BY <1>2, <1>5, <1>6, <1>7, <1>9, <1>10, <1>11, <1>12 DEF TiersInv

LEMMA AppendIndexKeeps ==
    ASSUME TiersInv, AppendIndex
    PROVE  TiersInv'
<1>1. /\ keeper.at = "index"
      /\ coldIndex' = [memory |-> TRUE, disk |-> coldIndex.disk \/ ~ coldIndex.memory]
      /\ keeper' = [at |-> "idle", blocks |-> <<>>]
      /\ UNCHANGED <<clock, written, writing, hot, indexed, frames, torn, saver,
                     file, redo, kills, lost, unindexed, twice>>
  BY DEF AppendIndex
<1>2. WrittenInv /\ KeeperInv /\ TiersTypeOK /\ (~ twice => OrderInv /\ PlacedInv /\ IndexedInv)
  BY DEF TiersInv
<1>3. /\ keeper'.at = "idle" /\ keeper'.blocks = <<>> /\ PointsOf(<<>>) = {}
      /\ <<>> \in Seq(Seq(Nat)) /\ GoodBlocks(<<>>) /\ InOrder(<<>>)
  <2>1. <<>> \in Seq(Nat)
    OBVIOUS
  <2> QED
    BY <1>1, <2>1, OneBlock
<1>4. coldIndex'.memory /\ coldIndex'.disk /\ coldIndex'.memory = TRUE /\ coldIndex'.disk \in BOOLEAN
  <2>1. coldIndex.memory => coldIndex.disk
    BY <1>2 DEF KeeperInv
  <2> QED
    BY <1>1, <2>1
<1>5. /\ keeper.blocks # <<>>
      /\ PointsOf(keeper.blocks) \subseteq PointsOf(frames) \cup lost
  BY <1>1, <1>2 DEF KeeperInv
<1>6. TiersTypeOK'
  <2>1. coldIndex' \in [memory : BOOLEAN, disk : BOOLEAN]
    BY <1>1
  <2> QED
    BY <1>1, <1>2, <1>3, <2>1 DEF TiersTypeOK
<1>7. WrittenInv'
  BY <1>1, <1>2, <1>3 DEF WrittenInv
<1>8. KeeperInv'
  BY <1>1, <1>2, <1>3, <1>4 DEF KeeperInv
<1>9. Uncovered' = Uncovered
  BY <1>1 DEF Uncovered
<1>10. ASSUME ~ twice PROVE OrderInv'
  BY <1>1, <1>2, <1>3, <1>9, <1>10 DEF OrderInv
<1>11. ASSUME ~ twice PROVE PlacedInv'
  <2>1. PlacedInv
    BY <1>2, <1>11
  <2>2. \A p : Away(p) => Away(p)'
    BY <1>1, <1>4, <1>5 DEF Away
  <2> QED
    BY <1>1, <1>9, <2>1, <2>2 DEF PlacedInv
<1>12. ASSUME ~ twice PROVE IndexedInv'
  <2>1. ~ unindexed => indexed
    BY <1>2, <1>5, <1>12 DEF IndexedInv
  <2> QED
    BY <1>1, <2>1 DEF IndexedInv
<1>13. ASSUME kills = 0 PROVE FirstRun'
  <2>1. FirstRun
    BY <1>13 DEF TiersInv
  <2> QED
    BY <1>1, <1>3, <2>1 DEF FirstRun, Before
<1> QED
  BY <1>1, <1>6, <1>7, <1>8, <1>10, <1>11, <1>12, <1>13 DEF TiersInv

LEMMA CompactFileKeeps ==
    ASSUME TiersInv, CompactFile
    PROVE  TiersInv'
<1> DEFINE stay == {b \in ToSet(frames) : ~ Expired(b)}
           keep == Those(frames, stay)
<1>1. /\ clock \in Nat /\ ColdDays \in Nat /\ frames \in Seq(Seq(Nat))
      /\ ToSet(written) \in SUBSET Nat /\ PointsOf(frames) \subseteq ToSet(written)
  BY TierFacts
<1>2. /\ keeper.at = "idle" /\ frames' = keep /\ torn' = FALSE
      /\ keeper' = IF keep = <<>> THEN [keeper EXCEPT !.at = "compact"] ELSE keeper
      /\ UNCHANGED <<clock, written, writing, hot, indexed, coldIndex, saver,
                     file, redo, kills, lost, unindexed, twice>>
  BY DEF CompactFile
<1>3. WrittenInv /\ KeeperInv /\ TiersTypeOK /\ (~ twice => OrderInv /\ PlacedInv /\ IndexedInv)
  BY DEF TiersInv
<1>4. /\ keep \in Seq(Seq(Nat)) /\ PointsOf(keep) = UNION {ToSet(b) : b \in ToSet(frames) \cap stay}
      /\ GoodBlocks(frames) => GoodBlocks(keep)
      /\ InOrder(frames) => InOrder(keep)
      /\ PointsOf(keep) \subseteq PointsOf(frames)
  BY <1>1, ThoseBlocks, ThoseInOrder
<1>5. ASSUME GoodBlocks(frames), NEW p \in PointsOf(frames), p \notin PointsOf(keep)
      PROVE  p < clock - ColdDays
  <2>1. PointsOf(frames) = UNION {ToSet(b) : b \in ToSet(frames)}
    BY <1>1, PointsOfBlocks
  <2>2. PICK b \in ToSet(frames) : p \in ToSet(b)
    BY <2>1
  <2>3. b \in Seq(Nat) /\ b # <<>> /\ Rising(b)
    BY <1>1, <1>5 DEF GoodBlocks, ToSet
  <2>4. LastPoint(b) \in Nat /\ p <= LastPoint(b)
    BY <2>2, <2>3, BlockBounds
  <2>5. Expired(b)
    <3> HIDE DEF keep
    <3> QED
      BY <1>4, <1>5, <2>2
  <2>6. p \in Nat
    BY <1>1
  <2> QED
    BY <1>1, <2>4, <2>5, <2>6 DEF Expired
<1> HIDE DEF keep
<1>6. /\ keeper'.at \in {"idle", "compact"} /\ keeper'.blocks = <<>> /\ keeper.blocks = <<>>
      /\ keeper'.at = "compact" => keep = <<>>
  <2>1. keeper.blocks = <<>>
    BY <1>2, <1>3 DEF KeeperInv
  <2> QED
    BY <1>2, <1>3, <2>1 DEF TiersTypeOK
<1>7. TiersTypeOK'
  <2>1. keeper' \in [at : {"idle", "append", "index", "compact", "unregister"}, blocks : Seq(Seq(Nat))]
    BY <1>2, <1>3 DEF TiersTypeOK
  <2> QED
    BY <1>2, <1>3, <1>4, <2>1 DEF TiersTypeOK
<1>8. WrittenInv'
  BY <1>2, <1>3, <1>4, <1>6 DEF WrittenInv
<1>9. KeeperInv'
  BY <1>2, <1>3, <1>6 DEF KeeperInv
<1>10. Uncovered' = Uncovered
  BY <1>2 DEF Uncovered
<1>11. ASSUME ~ twice PROVE OrderInv'
  <2>1. OrderInv
    BY <1>3, <1>11
  <2>2. GoodBlocks(keep) /\ \A p \in PointsOf(keep) : p < clock - HotDays
    BY <1>4, <2>1 DEF OrderInv
  <2> QED
    BY <1>2, <1>6, <1>10, <2>1, <2>2 DEF OrderInv
<1>12. ASSUME ~ twice PROVE PlacedInv'
  <2>1. PlacedInv /\ GoodBlocks(frames)
    BY <1>3, <1>12 DEF OrderInv
  <2>2. \A p : Away(p) => Away(p)'
    BY <1>2, <1>5, <1>6, <2>1 DEF Away
  <2> QED
    BY <1>2, <1>10, <2>1, <2>2 DEF PlacedInv
<1>13. ASSUME ~ twice PROVE IndexedInv'
  BY <1>2, <1>3, <1>6, <1>13 DEF IndexedInv
<1>14. ASSUME kills = 0 PROVE FirstRun'
  <2>1. FirstRun
    BY <1>14 DEF TiersInv
  <2>2. Before(PointsOf(keep) \cup PointsOf(<<>>), Held(hot))
    BY <1>4, <1>6, <2>1 DEF FirstRun, Before
  <2> QED
    BY <1>2, <1>4, <1>6, <2>1, <2>2 DEF FirstRun
<1> QED
  BY <1>2, <1>7, <1>8, <1>9, <1>11, <1>12, <1>13, <1>14 DEF TiersInv

LEMMA ForgetsKeeps ==
    ASSUME TiersInv, CompactMissing \/ CompactIndex
    PROVE  TiersInv'
<1>1. /\ coldIndex' = [memory |-> FALSE, disk |-> FALSE]
      /\ UNCHANGED <<clock, written, writing, hot, indexed, frames, torn, saver,
                     file, redo, kills, lost, unindexed, twice>>
  BY DEF CompactMissing, CompactIndex
<1>2. WrittenInv /\ KeeperInv /\ TiersTypeOK /\ (~ twice => OrderInv /\ PlacedInv /\ IndexedInv)
  BY DEF TiersInv
<1>3. /\ frames = <<>> /\ keeper.at \in {"idle", "compact"} /\ keeper.blocks = <<>>
      /\ keeper'.at \in {"idle", "unregister"} /\ keeper'.blocks = <<>>
      /\ keeper' \in [at : {"idle", "append", "index", "compact", "unregister"}, blocks : Seq(Seq(Nat))]
  BY <1>2 DEF CompactMissing, CompactIndex, KeeperInv, TiersTypeOK
<1>4. PointsOf(frames) = {}
  <2>1. <<>> \in Seq(Nat)
    OBVIOUS
  <2> QED
    BY <1>3, <2>1, OneBlock
<1>5. ~ coldIndex'.memory /\ ~ coldIndex'.disk
  BY <1>1
<1>6. TiersTypeOK'
  <2>1. coldIndex' \in [memory : BOOLEAN, disk : BOOLEAN]
    BY <1>1
  <2> QED
    BY <1>1, <1>2, <1>3, <2>1 DEF TiersTypeOK
<1>7. WrittenInv'
  BY <1>1, <1>2, <1>3 DEF WrittenInv
<1>8. KeeperInv'
  BY <1>1, <1>2, <1>3, <1>5 DEF KeeperInv
<1>9. Uncovered' = Uncovered
  BY <1>1 DEF Uncovered
<1>10. ASSUME ~ twice PROVE OrderInv'
  BY <1>1, <1>2, <1>3, <1>9, <1>10 DEF OrderInv
<1>11. ASSUME ~ twice PROVE PlacedInv'
  <2>1. PlacedInv
    BY <1>2, <1>11
  <2>2. \A p : Away(p) => Away(p)'
    BY <1>1, <1>3, <1>4 DEF Away
  <2> QED
    BY <1>1, <1>9, <2>1, <2>2 DEF PlacedInv
<1>12. ASSUME ~ twice PROVE IndexedInv'
  BY <1>1, <1>2, <1>3, <1>5, <1>12 DEF IndexedInv
<1>13. ASSUME kills = 0 PROVE FirstRun'
  <2>1. FirstRun
    BY <1>13 DEF TiersInv
  <2> QED
    BY <1>1, <1>3, <2>1 DEF FirstRun
<1> QED
  BY <1>1, <1>6, <1>7, <1>8, <1>10, <1>11, <1>12, <1>13 DEF TiersInv

LEMMA UnregisterKeeps ==
    ASSUME TiersInv, Unregister
    PROVE  TiersInv'
<1>1. /\ keeper.at = "unregister"
      /\ indexed' = (indexed /\ (Held(hot) # {} \/ coldIndex.memory))
      /\ unindexed' = (unindexed \/ (writing # 0 /\ ~ indexed'))
      /\ keeper' = [keeper EXCEPT !.at = "idle"]
      /\ UNCHANGED <<clock, written, writing, hot, frames, torn, coldIndex,
                     saver, file, redo, kills, lost, twice>>
  BY DEF Unregister
<1>2. WrittenInv /\ KeeperInv /\ TiersTypeOK /\ (~ twice => OrderInv /\ PlacedInv /\ IndexedInv)
  BY DEF TiersInv
<1>3. /\ keeper.blocks = <<>> /\ keeper'.blocks = <<>> /\ keeper'.at = "idle"
      /\ keeper' \in [at : {"idle", "append", "index", "compact", "unregister"}, blocks : Seq(Seq(Nat))]
  BY <1>1, <1>2 DEF KeeperInv, TiersTypeOK
<1>4. TiersTypeOK'
  BY <1>1, <1>2, <1>3 DEF TiersTypeOK
<1>5. WrittenInv'
  BY <1>1, <1>2, <1>3 DEF WrittenInv
<1>6. KeeperInv'
  BY <1>1, <1>2, <1>3 DEF KeeperInv
<1>7. Uncovered' = Uncovered
  BY <1>1 DEF Uncovered
<1>8. ASSUME ~ twice PROVE OrderInv'
  BY <1>1, <1>2, <1>3, <1>7, <1>8 DEF OrderInv
<1>9. ASSUME ~ twice PROVE PlacedInv'
  BY <1>1, <1>2, <1>3, <1>7, <1>9 DEF PlacedInv, Away
<1>10. ASSUME ~ twice PROVE IndexedInv'
  BY <1>1, <1>2, <1>3, <1>10 DEF IndexedInv
<1>11. ASSUME kills = 0 PROVE FirstRun'
  BY <1>1, <1>3, <1>11 DEF TiersInv, FirstRun
<1> QED
  BY <1>1, <1>4, <1>5, <1>6, <1>8, <1>9, <1>10, <1>11 DEF TiersInv

LEMMA CaptureHotKeeps ==
    ASSUME TiersInv, CaptureHot
    PROVE  TiersInv'
<1>1. redo \in Seq(Nat) /\ Len(redo) \in Nat /\ hot \in Buffer
  BY TierFacts
<1>2. /\ saver.at = "idle"
      /\ saver' = [at |-> "save", copy |-> hot, covers |-> Len(redo)]
      /\ UNCHANGED <<clock, written, writing, hot, indexed, frames, torn,
                     coldIndex, keeper, file, redo, kills, lost, unindexed, twice>>
  BY DEF CaptureHot
<1>3. WrittenInv /\ KeeperInv /\ TiersTypeOK /\ (~ twice => OrderInv /\ PlacedInv /\ IndexedInv)
  BY DEF TiersInv
<1>4. saver'.at = "save" /\ saver'.copy = hot /\ saver'.covers = Len(redo)
  BY <1>2
<1>5. TiersTypeOK'
  BY <1>1, <1>2, <1>3 DEF TiersTypeOK
<1>6. WrittenInv'
  BY <1>2, <1>3, <1>4 DEF WrittenInv
<1>7. KeeperInv'
  BY <1>1, <1>2, <1>3, <1>4 DEF KeeperInv
<1>8. ToSet(Uncovered') = {}
  <2>1. Uncovered' = SubSeq(redo, Len(redo) + 1, Len(redo))
    BY <1>2, <1>4 DEF Uncovered
  <2> DEFINE n == Len(redo)
  <2>2. n \in 0..Len(redo) /\ n = Len(redo)
    BY <1>1
  <2> HIDE DEF n
  <2>3. ToSet(SubSeq(redo, n + 1, Len(redo))) = {}
    BY <1>1, <2>2, TailOf
  <2> QED
    BY <2>1, <2>3, Zenon DEF n
<1>9. ASSUME ~ twice PROVE OrderInv'
  <2>1. OrderInv
    BY <1>3, <1>9
  <2>2. Before(Held(hot), ToSet(Uncovered'))
    BY <1>8 DEF Before
  <2> QED
    BY <1>2, <1>4, <2>1, <2>2 DEF OrderInv
<1>10. ASSUME ~ twice PROVE PlacedInv'
  <2>1. PlacedInv
    BY <1>3, <1>10
  <2>2. \A p : Away(p) => Away(p)'
    BY <1>2 DEF Away
  <2> QED
    BY <1>2, <1>4, <2>1, <2>2 DEF PlacedInv
<1>11. ASSUME ~ twice PROVE IndexedInv'
  BY <1>2, <1>3, <1>11 DEF IndexedInv
<1>12. ASSUME kills = 0 PROVE FirstRun'
  BY <1>2, <1>12 DEF TiersInv, FirstRun
<1> QED
  BY <1>2, <1>5, <1>6, <1>7, <1>9, <1>10, <1>11, <1>12 DEF TiersInv

LEMMA UncoveredIs ==
    ASSUME TiersInv
    PROVE  /\ Uncovered \in Seq(Nat) /\ ToSet(Uncovered) \subseteq ToSet(redo)
           /\ Rising(redo) => Rising(Uncovered)
           /\ saver.covers = 0 => Uncovered = redo
<1> DEFINE n == saver.covers
<1>1. redo \in Seq(Nat) /\ n \in 0..Len(redo)
  BY TierFacts
<1>2. Uncovered = SubSeq(redo, n + 1, Len(redo))
  BY DEF Uncovered
<1> HIDE DEF n
<1>3. /\ SubSeq(redo, n + 1, Len(redo)) \in Seq(Nat)
      /\ ToSet(SubSeq(redo, n + 1, Len(redo))) \subseteq ToSet(redo)
      /\ Rising(redo) => Rising(SubSeq(redo, n + 1, Len(redo)))
      /\ n = 0 => SubSeq(redo, n + 1, Len(redo)) = redo
  BY <1>1, TailOf
<1> QED
  BY <1>2, <1>3, Zenon DEF n

LEMMA SaveHotKeeps ==
    ASSUME TiersInv, SaveHot
    PROVE  TiersInv'
<1>1. ToSet(Uncovered) \subseteq ToSet(redo)
  BY UncoveredIs
<1>2. /\ saver.at = "save" /\ file' = saver.copy
      /\ saver' = [saver EXCEPT !.at = "retire"]
      /\ UNCHANGED <<clock, written, writing, hot, indexed, frames, torn,
                     coldIndex, keeper, redo, kills, lost, unindexed, twice>>
  BY DEF SaveHot
<1>3. WrittenInv /\ KeeperInv /\ TiersTypeOK /\ (~ twice => OrderInv /\ PlacedInv /\ IndexedInv)
  BY DEF TiersInv
<1>4. saver'.at = "retire" /\ saver'.copy = saver.copy /\ saver'.covers = saver.covers
  BY <1>2, <1>3 DEF TiersTypeOK
<1>5. TiersTypeOK'
  BY <1>2, <1>3 DEF TiersTypeOK
<1>6. WrittenInv'
  BY <1>2, <1>3, <1>4 DEF WrittenInv
<1>7. KeeperInv'
  BY <1>2, <1>3, <1>4 DEF KeeperInv
<1>8. Uncovered' = Uncovered
  BY <1>2, <1>4 DEF Uncovered
<1>9. ASSUME ~ twice PROVE OrderInv'
  BY <1>2, <1>3, <1>4, <1>8, <1>9 DEF OrderInv
<1>10. ASSUME ~ twice PROVE PlacedInv'
  <2>1. PlacedInv
    BY <1>3, <1>10
  <2>2. \A p : Away(p) => Away(p)'
    BY <1>2 DEF Away
  <2> QED
    BY <1>1, <1>2, <1>4, <1>8, <2>1, <2>2 DEF PlacedInv
<1>11. ASSUME ~ twice PROVE IndexedInv'
  BY <1>2, <1>3, <1>11 DEF IndexedInv
<1>12. ASSUME kills = 0 PROVE FirstRun'
  BY <1>2, <1>12 DEF TiersInv, FirstRun
<1> QED
  BY <1>2, <1>5, <1>6, <1>7, <1>9, <1>10, <1>11, <1>12 DEF TiersInv

LEMMA RetireRedoKeeps ==
    ASSUME TiersInv, RetireRedo
    PROVE  TiersInv'
<1>1. /\ Uncovered \in Seq(Nat) /\ ToSet(Uncovered) \subseteq ToSet(redo)
      /\ Rising(redo) => Rising(Uncovered)
      /\ Empty \in Buffer /\ Held(Empty) = {} /\ GoodBuffer(Empty)
  BY UncoveredIs, EmptyBuffer
<1>2. /\ saver.at = "retire" /\ redo' = Uncovered
      /\ saver' = [at |-> "idle", copy |-> Empty, covers |-> 0]
      /\ UNCHANGED <<clock, written, writing, hot, indexed, frames, torn,
                     coldIndex, keeper, file, kills, lost, unindexed, twice>>
  BY DEF RetireRedo, Uncovered
<1>3. WrittenInv /\ KeeperInv /\ TiersTypeOK /\ (~ twice => OrderInv /\ PlacedInv /\ IndexedInv)
  BY DEF TiersInv
<1>4. saver'.at = "idle" /\ saver'.copy = Empty /\ saver'.covers = 0
  BY <1>2
<1>5. TiersTypeOK'
  BY <1>1, <1>2, <1>3 DEF TiersTypeOK
<1>6. WrittenInv'
  <2>1. ToSet(redo') \subseteq ToSet(redo)
    BY <1>1, <1>2
  <2> QED
    BY <1>1, <1>2, <1>3, <1>4, <2>1 DEF WrittenInv
<1>7. KeeperInv'
  <2>1. redo' \in Seq(Nat)
    BY <1>1, <1>2
  <2>2. 0 <= Len(redo')
    BY <2>1
  <2> QED
    BY <1>2, <1>3, <1>4, <2>2 DEF KeeperInv
<1>8. ASSUME ~ twice PROVE OrderInv'
  <2>1. OrderInv
    BY <1>3, <1>8
  <2>2. Before(Held(file), ToSet(redo'))
    BY <1>2, <2>1 DEF OrderInv
  <2>3. Before({}, ToSet(Uncovered'))
    BY DEF Before
  <2> QED
    BY <1>1, <1>2, <1>4, <2>1, <2>2, <2>3 DEF OrderInv
<1>9. ASSUME ~ twice PROVE PlacedInv'
  <2>1. PlacedInv /\ file = saver.copy
    BY <1>2, <1>3, <1>9 DEF OrderInv
  <2>2. \A p : Away(p) => Away(p)'
    BY <1>2 DEF Away
  <2> QED
    BY <1>2, <1>4, <2>1, <2>2 DEF PlacedInv
<1>10. ASSUME ~ twice PROVE IndexedInv'
  BY <1>2, <1>3, <1>10 DEF IndexedInv
<1>11. ASSUME kills = 0 PROVE FirstRun'
  BY <1>2, <1>11 DEF TiersInv, FirstRun
<1> QED
  BY <1>2, <1>5, <1>6, <1>7, <1>8, <1>9, <1>10, <1>11 DEF TiersInv

LEMMA KillServerKeeps ==
    ASSUME TiersInv, KillServer
    PROVE  TiersInv'
<1>1. /\ file \in Buffer /\ redo \in Seq(Nat) /\ frames \in Seq(Seq(Nat))
      /\ Held(file) \subseteq ToSet(written) /\ ToSet(redo) \subseteq ToSet(written)
      /\ PointsOf(frames) \subseteq ToSet(written)
      /\ PointsOf(keeper.blocks) \subseteq ToSet(written)
  BY TierFacts
<1>2. /\ hot' = Replayed /\ kills' = kills + 1
      /\ UNCHANGED <<frames, torn>> \/ PartOfAppend
      /\ coldIndex' = [coldIndex EXCEPT !.memory = coldIndex.disk]
      /\ indexed' = (Held(hot') # {} \/ coldIndex.disk)
      /\ lost' = lost \cup (PointsOf(keeper.blocks) \ Held(hot'))
      /\ keeper' = [at |-> "idle", blocks |-> <<>>]
      /\ saver' = [at |-> "idle", copy |-> Empty, covers |-> 0]
      /\ writing' = 0 /\ unindexed' = FALSE
      /\ twice' = (twice \/ (saver.at = "retire" /\ saver.covers > 0))
      /\ UNCHANGED <<clock, written, file, redo>>
  BY DEF KillServer
<1>3. WrittenInv /\ KeeperInv /\ TiersTypeOK /\ (~ twice => OrderInv /\ PlacedInv /\ IndexedInv)
  BY DEF TiersInv
<1>4. /\ Replayed \in Buffer /\ Held(Replayed) = Held(file) \cup ToSet(redo)
      /\ GoodBuffer(file) /\ Rising(redo) /\ Before(Held(file), ToSet(redo)) => GoodBuffer(Replayed)
  BY <1>1, ReplayedIs
<1>5. /\ frames' \in Seq(Seq(Nat)) /\ torn' \in BOOLEAN
      /\ PointsOf(frames) \subseteq PointsOf(frames')
      /\ PointsOf(frames') \subseteq PointsOf(frames) \cup PointsOf(keeper.blocks)
      /\ GoodBlocks(frames) /\ GoodBlocks(keeper.blocks) => GoodBlocks(frames')
  <2>1. CASE UNCHANGED <<frames, torn>>
    BY <1>1, <1>3, <2>1 DEF TiersTypeOK
  <2>2. CASE PartOfAppend
    BY <2>2, PartOfAppendIs
  <2> QED
    BY <1>2, <2>1, <2>2
<1>6. /\ keeper'.at = "idle" /\ keeper'.blocks = <<>> /\ PointsOf(<<>>) = {}
      /\ <<>> \in Seq(Seq(Nat)) /\ GoodBlocks(<<>>)
  <2>1. <<>> \in Seq(Nat)
    OBVIOUS
  <2> QED
    BY <1>2, <2>1, OneBlock
<1>7. /\ saver'.at = "idle" /\ saver'.copy = Empty /\ saver'.covers = 0
      /\ Empty \in Buffer /\ Held(Empty) = {} /\ GoodBuffer(Empty)
  BY <1>2, EmptyBuffer
<1>8. coldIndex'.memory = coldIndex.disk /\ coldIndex'.disk = coldIndex.disk
  BY <1>2, <1>3 DEF TiersTypeOK
<1>9. TiersTypeOK'
  <2>1. coldIndex' \in [memory : BOOLEAN, disk : BOOLEAN] /\ kills' \in Nat
    <3>1. coldIndex \in [memory : BOOLEAN, disk : BOOLEAN] /\ kills \in Nat
      BY <1>3 DEF TiersTypeOK
    <3>2. coldIndex' = [coldIndex EXCEPT !.memory = coldIndex.disk] /\ kills' = kills + 1
      BY <1>2
    <3> QED
      BY <3>1, <3>2
  <2>2. indexed' \in BOOLEAN
    BY <1>2, Zenon
  <2>3. twice' \in BOOLEAN
    BY <1>2, Zenon
  <2> QED
    BY <1>2, <1>3, <1>4, <1>5, <1>6, <1>7, <2>1, <2>2, <2>3 DEF TiersTypeOK
<1>10. WrittenInv'
  BY <1>1, <1>2, <1>3, <1>4, <1>5, <1>6, <1>7 DEF WrittenInv
<1>11. KeeperInv'
  <2>1. 0 <= Len(redo)
    BY <1>1
  <2> QED
    BY <1>2, <1>3, <1>6, <1>7, <1>8, <2>1 DEF KeeperInv
<1>12. ASSUME ~ twice' PROVE OrderInv' /\ PlacedInv' /\ IndexedInv'
  <2>1. /\ ~ twice /\ OrderInv /\ PlacedInv
        /\ saver.at = "retire" => saver.covers = 0
    <3>1. saver.covers \in Nat
      BY <1>3 DEF TiersTypeOK
    <3>2. ~ twice /\ ~ (saver.at = "retire" /\ saver.covers > 0)
      BY <1>2, <1>12, Zenon
    <3>3. saver.at = "retire" => saver.covers = 0
      BY <3>1, <3>2
    <3> QED
      BY <1>3, <3>2, <3>3
  <2>2. Before(Held(file), ToSet(redo))
    <3>1. saver.covers = 0 => Uncovered = redo
      BY UncoveredIs
    <3> QED
      BY <2>1, <3>1 DEF OrderInv
  <2>3. GoodBuffer(Replayed)
    BY <1>4, <2>1, <2>2 DEF OrderInv
  <2>4. OrderInv'
    <3>1. Before({}, ToSet(Uncovered'))
      BY DEF Before
    <3>2. GoodBlocks(frames') /\ \A p \in PointsOf(frames') : p < clock - HotDays
      BY <1>5, <2>1 DEF OrderInv
    <3> QED
      BY <1>2, <1>6, <1>7, <2>1, <2>2, <2>3, <3>1, <3>2 DEF OrderInv
  <2>5. PlacedInv'
    <3>1. ASSUME NEW p \in ToSet(written)
          PROVE  p \in Held(hot') \/ Away(p)'
      <4>1. p \in Held(file) \cup ToSet(redo) \/ Away(p)
        BY <2>1 DEF PlacedInv
      <4>2. Away(p) => p \in Held(hot') \/ Away(p)'
        <5>1. coldIndex.memory => coldIndex'.memory
          BY <1>3, <1>8 DEF KeeperInv
        <5> QED
          BY <1>2, <1>5, <5>1 DEF Away
      <4> QED
        BY <1>2, <1>4, <4>1, <4>2
    <3> QED
      BY <1>2, <1>4, <1>7, <3>1 DEF PlacedInv
  <2>6. IndexedInv'
    BY <1>2, <1>6, <1>8 DEF IndexedInv
  <2> QED
    BY <2>4, <2>5, <2>6
<1>13. kills' # 0
  BY <1>2, <1>3 DEF TiersTypeOK
<1> QED
  BY <1>9, <1>10, <1>11, <1>12, <1>13 DEF TiersInv

LEMMA TiersStutter ==
    ASSUME TiersInv, UNCHANGED tierVars
    PROVE  TiersInv'
<1>1. UNCHANGED <<clock, written, writing, hot, indexed, frames, torn, coldIndex, keeper,
                  saver, file, redo, kills, lost, unindexed, twice>>
  BY DEF tierVars
<1>2. Uncovered' = Uncovered
  BY <1>1 DEF Uncovered
<1> QED
  BY <1>1, <1>2 DEF TiersInv, TiersTypeOK, WrittenInv, KeeperInv, OrderInv, PlacedInv, Away,
     IndexedInv, FirstRun

LEMMA TiersStep == TiersInv /\ [TiersNext]_tierVars => TiersInv'
<1> SUFFICES ASSUME TiersInv, [TiersNext]_tierVars
             PROVE  TiersInv'
  OBVIOUS
<1>1. CASE UNCHANGED tierVars
  BY <1>1, TiersStutter
<1>2. CASE TiersNext
  BY <1>2, TickKeeps, RegisterSeriesKeeps, InsertPointKeeps, EnforceRetentionKeeps,
     AppendFramesKeeps, AppendFailsKeeps, AppendIndexKeeps, CompactFileKeeps, ForgetsKeeps,
     UnregisterKeeps, CaptureHotKeeps, SaveHotKeeps, RetireRedoKeeps, KillServerKeeps
     DEF TiersNext
<1> QED
  BY <1>1, <1>2

-----------------------------------------------------------------------------
(* Queries.                                                                *)

LEMMA JoinedPlaces ==
    ASSUME NEW bs \in Seq(Seq(Nat)), NEW cs \in Seq(Seq(Nat))
    PROVE  /\ \A n \in DOMAIN (bs \o cs) :
                \/ n \in DOMAIN bs /\ (bs \o cs)[n] = bs[n]
                \/ n \notin DOMAIN bs /\ n - Len(bs) \in DOMAIN cs /\ (bs \o cs)[n] = cs[n - Len(bs)]
           /\ \A i \in DOMAIN bs : i \in DOMAIN (bs \o cs) /\ (bs \o cs)[i] = bs[i]
           /\ \A i \in DOMAIN cs : Len(bs) + i \in DOMAIN (bs \o cs) /\ (bs \o cs)[Len(bs) + i] = cs[i]
           /\ DOMAIN (bs \o cs) \subseteq Nat \ {0} /\ Len(bs) \in Nat
<1> DEFINE ds == bs \o cs
<1>1. /\ DOMAIN bs = 1..Len(bs) /\ DOMAIN cs = 1..Len(cs) /\ DOMAIN ds = 1..(Len(bs) + Len(cs))
      /\ Len(bs) \in Nat /\ Len(cs) \in Nat
      /\ \A i \in 1..Len(bs) : ds[i] = bs[i]
      /\ \A i \in 1..Len(cs) : ds[Len(bs) + i] = cs[i]
  OBVIOUS
<1> HIDE DEF ds
<1>2. ASSUME NEW i \in DOMAIN ds, i \notin DOMAIN bs
      PROVE  i - Len(bs) \in DOMAIN cs /\ ds[i] = cs[i - Len(bs)]
  <2> DEFINE k == i - Len(bs)
  <2>1. k \in 1..Len(cs) /\ i = Len(bs) + k
    BY <1>1, <1>2
  <2> HIDE DEF k
  <2>2. ds[i] = cs[k]
    BY <1>1, <2>1
  <2> QED
    BY <1>1, <2>1, <2>2 DEF k
<1>3. \A i \in DOMAIN bs : i \in DOMAIN ds /\ ds[i] = bs[i]
  BY <1>1
<1>4. \A i \in DOMAIN cs : Len(bs) + i \in DOMAIN ds /\ ds[Len(bs) + i] = cs[i]
  BY <1>1
<1>5. DOMAIN ds \subseteq Nat \ {0}
  BY <1>1
<1> QED
  BY <1>1, <1>2, <1>3, <1>4, <1>5 DEF ds

\* The blocks of both tiers.
LEMMA TierBlocksAre ==
    ASSUME TiersInv, ~ twice, NEW start \in Nat, NEW end \in Nat
    PROVE  /\ TierBlocks(start, end) \in Seq(Seq(Nat)) /\ GoodBlocks(TierBlocks(start, end))
           /\ PointsOf(TierBlocks(start, end)) \subseteq ToSet(written)
           /\ \A i \in DOMAIN hot.blocks : \E n \in DOMAIN TierBlocks(start, end) :
                TierBlocks(start, end)[n] = hot.blocks[i]
           /\ ReachCold(start, end) /\ coldIndex.memory =>
                \A i \in DOMAIN frames : \E n \in DOMAIN TierBlocks(start, end) :
                   TierBlocks(start, end)[n] = frames[i]
           /\ DOMAIN TierBlocks(start, end) \subseteq Nat \ {0}
<1> DEFINE cold == IF ReachCold(start, end) /\ coldIndex.memory THEN frames ELSE <<>>
           bs == TierBlocks(start, end)
<1>1. /\ frames \in Seq(Seq(Nat)) /\ hot.blocks \in Seq(Seq(Nat))
      /\ Held(hot) \subseteq ToSet(written) /\ PointsOf(frames) \subseteq ToSet(written)
  BY TierFacts, BufferHas
<1>2. GoodBlocks(hot.blocks) /\ GoodBlocks(frames)
  BY DEF TiersInv, OrderInv, GoodBuffer
<1>3. cold \in Seq(Seq(Nat)) /\ GoodBlocks(cold) /\ PointsOf(cold) \subseteq ToSet(written)
  <2>1. <<>> \in Seq(Nat)
    OBVIOUS
  <2>2. <<>> \in Seq(Seq(Nat)) /\ GoodBlocks(<<>>) /\ PointsOf(<<>>) = {}
    BY <2>1, OneBlock
  <2> QED
    BY <1>1, <1>2, <2>2
<1>4. bs = hot.blocks \o cold
  BY DEF TierBlocks
<1> DEFINE hs == hot.blocks
<1>5. PointsOf(hs) \subseteq ToSet(written)
  BY <1>1 DEF Held
<1> HIDE DEF cold, hs, bs
<1>6. /\ hs \in Seq(Seq(Nat)) /\ GoodBlocks(hs) /\ bs = hs \o cold
  BY <1>1, <1>2, <1>4 DEF hs
<1>7. /\ bs \in Seq(Seq(Nat)) /\ PointsOf(bs) = PointsOf(hs) \cup PointsOf(cold) /\ GoodBlocks(bs)
  BY <1>3, <1>6, Joined
<1>8. /\ \A i \in DOMAIN hs : i \in DOMAIN bs /\ bs[i] = hs[i]
      /\ \A i \in DOMAIN cold : Len(hs) + i \in DOMAIN bs /\ bs[Len(hs) + i] = cold[i]
      /\ DOMAIN bs \subseteq Nat \ {0}
  <2>1. /\ \A i \in DOMAIN hs : i \in DOMAIN (hs \o cold) /\ (hs \o cold)[i] = hs[i]
        /\ \A i \in DOMAIN cold : Len(hs) + i \in DOMAIN (hs \o cold) /\ (hs \o cold)[Len(hs) + i] = cold[i]
        /\ DOMAIN (hs \o cold) \subseteq Nat \ {0}
    BY <1>3, <1>6, JoinedPlaces, Zenon
  <2> QED
    BY <1>6, <2>1, Zenon
<1>9. ReachCold(start, end) /\ coldIndex.memory => cold = frames
  BY DEF cold
<1>10. \A i \in DOMAIN hs : \E n \in DOMAIN bs : bs[n] = hs[i]
  BY <1>8
<1>11. \A i \in DOMAIN cold : \E n \in DOMAIN bs : bs[n] = cold[i]
  BY <1>8
<1> QED
  BY <1>3, <1>5, <1>7, <1>8, <1>9, <1>10, <1>11 DEF bs, hs

\* Before the first restart, blocks have no point in common: of any two, one is
\* before the other, and all are before the points that are not in a block.
LEMMA BlocksApart ==
    ASSUME TiersInv, kills = 0, NEW start \in Nat, NEW end \in Nat
    PROVE  /\ Before(PointsOf(TierBlocks(start, end)), ToSet(hot.raw))
           /\ \A i, j \in DOMAIN TierBlocks(start, end) : i # j =>
                \/ Before(ToSet(TierBlocks(start, end)[i]), ToSet(TierBlocks(start, end)[j]))
                \/ Before(ToSet(TierBlocks(start, end)[j]), ToSet(TierBlocks(start, end)[i]))
<1> DEFINE cold == IF ReachCold(start, end) /\ coldIndex.memory THEN frames ELSE <<>>
           bs == TierBlocks(start, end)
           hs == hot.blocks
<1>1. frames \in Seq(Seq(Nat)) /\ hs \in Seq(Seq(Nat))
  BY TierFacts, BufferHas
<1>2. FirstRun /\ GoodBuffer(hot)
  BY DEF TiersInv, FirstRun, OrderInv
<1>3. InOrder(hs) /\ Before(PointsOf(hs), ToSet(hot.raw))
  BY <1>2 DEF GoodBuffer
<1>4. InOrder(frames) /\ Before(PointsOf(frames), PointsOf(hs)) /\ Before(PointsOf(frames), ToSet(hot.raw))
  BY <1>2 DEF FirstRun, Before, Held
<1>5. /\ cold \in Seq(Seq(Nat)) /\ InOrder(cold)
      /\ Before(PointsOf(cold), PointsOf(hs)) /\ Before(PointsOf(cold), ToSet(hot.raw))
  <2>1. <<>> \in Seq(Nat)
    OBVIOUS
  <2>2. <<>> \in Seq(Seq(Nat)) /\ InOrder(<<>>) /\ PointsOf(<<>>) = {}
    BY <2>1, OneBlock
  <2>3. CASE ReachCold(start, end) /\ coldIndex.memory
    BY <1>1, <1>4, <2>3
  <2>4. CASE ~ (ReachCold(start, end) /\ coldIndex.memory)
    BY <2>2, <2>4 DEF Before
  <2> QED
    BY <2>3, <2>4
<1>6. bs = hs \o cold
  BY DEF TierBlocks
<1> HIDE DEF cold, hs, bs
<1>7. PointsOf(bs) = PointsOf(hs) \cup PointsOf(cold)
  BY <1>1, <1>5, <1>6, Joined
<1>8. Before(PointsOf(bs), ToSet(hot.raw))
  BY <1>3, <1>5, <1>7 DEF Before
<1>9. \A n \in DOMAIN bs :
        \/ n \in DOMAIN hs /\ bs[n] = hs[n]
        \/ n \notin DOMAIN hs /\ n - Len(hs) \in DOMAIN cold /\ bs[n] = cold[n - Len(hs)]
  BY <1>1, <1>5, <1>6, JoinedPlaces
<1>10. DOMAIN bs \subseteq Nat \ {0} /\ Len(hs) \in Nat
  BY <1>1, <1>5, <1>6, JoinedPlaces
<1>11. \A s \in {hs, cold} : InOrder(s) => \A i, j \in DOMAIN s : i # j =>
         Before(ToSet(s[i]), ToSet(s[j])) \/ Before(ToSet(s[j]), ToSet(s[i]))
  <2>1. SUFFICES ASSUME NEW s \in {hs, cold}, InOrder(s), NEW i \in DOMAIN s, NEW j \in DOMAIN s, i # j
                 PROVE  Before(ToSet(s[i]), ToSet(s[j])) \/ Before(ToSet(s[j]), ToSet(s[i]))
    OBVIOUS
  <2>2. s \in Seq(Seq(Nat))
    BY <1>1, <1>5
  <2>3. i \in Nat /\ j \in Nat
    BY <2>2
  <2>4. i < j \/ j < i
    BY <2>1, <2>3
  <2> QED
    BY <2>1, <2>4 DEF InOrder
<1>12. ASSUME NEW i \in DOMAIN bs, NEW j \in DOMAIN bs, i # j
       PROVE  Before(ToSet(bs[i]), ToSet(bs[j])) \/ Before(ToSet(bs[j]), ToSet(bs[i]))
  <2>1. CASE i \in DOMAIN hs /\ j \in DOMAIN hs
    BY <1>3, <1>9, <1>11, <1>12, <2>1
  <2>2. CASE i \notin DOMAIN hs /\ j \notin DOMAIN hs
    <3> DEFINE a == i - Len(hs)
               b == j - Len(hs)
    <3>1. a \in DOMAIN cold /\ b \in DOMAIN cold /\ bs[i] = cold[a] /\ bs[j] = cold[b]
      BY <1>9, <2>2
    <3>2. a # b
      BY <1>10, <1>12
    <3> HIDE DEF a, b
    <3> QED
      BY <1>5, <1>11, <3>1, <3>2
  <2>3. \A n, m \in DOMAIN bs : n \in DOMAIN hs /\ m \notin DOMAIN hs => Before(ToSet(bs[m]), ToSet(bs[n]))
    <3>1. TAKE n, m \in DOMAIN bs
    <3>2. HAVE n \in DOMAIN hs /\ m \notin DOMAIN hs
    <3>3. bs[n] = hs[n] /\ m - Len(hs) \in DOMAIN cold /\ bs[m] = cold[m - Len(hs)]
      BY <1>9, <3>2
    <3>4. ToSet(bs[n]) \subseteq PointsOf(hs) /\ ToSet(bs[m]) \subseteq PointsOf(cold)
      BY <3>2, <3>3 DEF PointsOf
    <3> QED
      BY <1>5, <3>4 DEF Before
  <2> QED
    BY <2>1, <2>2, <2>3
<1> QED
  BY <1>8, <1>12 DEF bs

\* What a query has met before it comes to a block are points of the range, each
\* once, that are newer than those of the block.
LEMMA MetIsNewer ==
    ASSUME TiersInv, kills = 0, NEW start \in Nat, NEW end \in Nat,
           NEW n \in Asked(start, end), NEW p \in ToSet(TierBlocks(start, end)[n]),
           NEW newer, newer = {q \in ToSet(written) : InRange(q, start, end) /\ q > p},
           IsFiniteSet(newer)
    PROVE  IsFiniteSet(Met(start, end, n)) /\ Cardinality(Met(start, end, n)) <= Cardinality(newer)
<1> DEFINE bs == TierBlocks(start, end)
           points(i) == IF i = 0 THEN hot.raw ELSE bs[i]
           before == {0} \cup {i \in Asked(start, end) : Sooner(bs, i, n)}
           met == Met(start, end, n)
           f == [m \in met |-> points(m[1])[m[2]]]
<1>1. met = UNION {{i} \X {k \in DOMAIN points(i) : InRange(points(i)[k], start, end)} : i \in before}
  BY DEF Met
<1>2. /\ ToSet(written) \in SUBSET Nat /\ hot.raw \in Seq(Nat) /\ ToSet(hot.raw) \subseteq ToSet(written)
      /\ ~ twice /\ Rising(hot.raw)
  BY TierFacts, BufferHas DEF TiersInv, FirstRun, OrderInv, GoodBuffer, Held
<1>3. /\ bs \in Seq(Seq(Nat)) /\ GoodBlocks(bs) /\ PointsOf(bs) \subseteq ToSet(written)
      /\ DOMAIN bs \subseteq Nat \ {0}
  BY <1>2, TierBlocksAre
<1>4. /\ Before(PointsOf(bs), ToSet(hot.raw))
      /\ \A i, j \in DOMAIN bs : i # j =>
           Before(ToSet(bs[i]), ToSet(bs[j])) \/ Before(ToSet(bs[j]), ToSet(bs[i]))
  BY BlocksApart
<1>5. n \in DOMAIN bs /\ \A i \in before : i = 0 \/ (i \in DOMAIN bs /\ Sooner(bs, i, n))
  BY DEF Asked
<1>6. p \in PointsOf(bs) /\ p \in Nat
  <2>1. p \in PointsOf(bs)
    BY <1>5 DEF PointsOf
  <2> QED
    BY <1>2, <1>3, <2>1
<1> HIDE DEF bs, before, met
<1>7. \A i \in DOMAIN bs : /\ bs[i] \in Seq(Nat) /\ Rising(bs[i]) /\ bs[i] # <<>>
                           /\ ToSet(bs[i]) \subseteq PointsOf(bs)
                           /\ LastPoint(bs[i]) \in ToSet(bs[i]) /\ LastPoint(bs[i]) \in Nat
                           /\ \A q \in ToSet(bs[i]) : q <= LastPoint(bs[i])
  <2>1. TAKE i \in DOMAIN bs
  <2>2. bs[i] \in Seq(Nat) /\ Rising(bs[i]) /\ bs[i] # <<>>
    BY <1>3 DEF GoodBlocks
  <2>3. ToSet(bs[i]) \subseteq PointsOf(bs)
    BY DEF PointsOf
  <2> QED
    BY <2>2, <2>3, BlockBounds
<1>8. ASSUME NEW i \in DOMAIN bs, Sooner(bs, i, n)
      PROVE  i # n /\ Before(ToSet(bs[n]), ToSet(bs[i]))
  <2>1. i \in Nat /\ n \in Nat
    BY <1>3, <1>5
  <2>2. LastPoint(bs[i]) \in Nat /\ LastPoint(bs[n]) \in Nat
    BY <1>5, <1>7
  <2>3. LastPoint(bs[n]) <= LastPoint(bs[i]) /\ i # n
    BY <1>8, <2>1, <2>2 DEF Sooner
  <2>4. ~ Before(ToSet(bs[i]), ToSet(bs[n]))
    BY <1>5, <1>7, <2>2, <2>3 DEF Before
  <2> QED
    BY <1>4, <1>5, <2>3, <2>4
\* The points of each place are newer, and in the range they are asked for.
<1>9. ASSUME NEW i \in before
      PROVE  /\ points(i) \in Seq(Nat) /\ Rising(points(i))
             /\ ToSet(points(i)) \subseteq ToSet(written)
             /\ \A q \in ToSet(points(i)) : q > p
  <2>1. CASE i = 0
    <3>1. points(i) = hot.raw
      BY <2>1
    <3>2. \A q \in ToSet(hot.raw) : p < q
      BY <1>4, <1>6 DEF Before
    <3>3. \A q \in ToSet(hot.raw) : q \in Nat
      BY <1>2
    <3> HIDE DEF points
    <3> QED
      BY <1>2, <1>6, <3>1, <3>2, <3>3
  <2>2. CASE i # 0
    <3>1. points(i) = bs[i] /\ i \in DOMAIN bs /\ Sooner(bs, i, n)
      BY <1>5, <2>2
    <3>2. \A q \in ToSet(bs[i]) : p < q
      BY <1>8, <3>1 DEF Before, bs
    <3>3. ToSet(bs[i]) \subseteq ToSet(written)
      BY <1>3, <1>7, <3>1
    <3> HIDE DEF points
    <3> QED
      BY <1>2, <1>6, <1>7, <3>1, <3>2, <3>3
  <2> QED
    BY <2>1, <2>2
<1>10. ASSUME NEW i \in before, NEW j \in before, i # j
       PROVE  ToSet(points(i)) \cap ToSet(points(j)) = {}
  <2>1. \A a, b \in DOMAIN bs : a # b => ToSet(bs[a]) \cap ToSet(bs[b]) = {}
    <3>1. SUFFICES ASSUME NEW a \in DOMAIN bs, NEW b \in DOMAIN bs, a # b,
                          NEW q \in ToSet(bs[a]), q \in ToSet(bs[b])
                   PROVE  FALSE
      OBVIOUS
    <3>2. q \in Nat
      BY <1>2, <1>3, <1>7
    <3>3. ~ q < q
      BY <3>2
    <3> QED
      BY <1>4, <3>1, <3>3 DEF Before
  <2>2. \A a \in DOMAIN bs : ToSet(bs[a]) \cap ToSet(hot.raw) = {}
    <3>1. SUFFICES ASSUME NEW a \in DOMAIN bs, NEW q \in ToSet(bs[a]), q \in ToSet(hot.raw)
                   PROVE  FALSE
      OBVIOUS
    <3>2. q \in Nat /\ q \in PointsOf(bs)
      BY <1>2, <1>3, <1>7
    <3>3. ~ q < q
      BY <3>2
    <3> QED
      BY <1>4, <3>1, <3>2, <3>3 DEF Before
  <2>3. CASE i = 0
    <3>1. points(i) = hot.raw /\ points(j) = bs[j] /\ j \in DOMAIN bs
      BY <1>5, <1>10, <2>3
    <3> HIDE DEF points
    <3> QED
      BY <2>2, <3>1
  <2>4. CASE j = 0
    <3>1. points(j) = hot.raw /\ points(i) = bs[i] /\ i \in DOMAIN bs
      BY <1>5, <1>10, <2>4
    <3> HIDE DEF points
    <3> QED
      BY <2>2, <3>1
  <2>5. CASE i # 0 /\ j # 0
    <3>1. points(j) = bs[j] /\ j \in DOMAIN bs /\ points(i) = bs[i] /\ i \in DOMAIN bs
      BY <1>5, <2>5
    <3> HIDE DEF points
    <3> QED
      BY <1>10, <2>1, <3>1
  <2> QED
    BY <2>3, <2>4, <2>5
<1> HIDE DEF points
<1>11. \A m \in met : /\ m[1] \in before /\ m[2] \in DOMAIN points(m[1])
                      /\ InRange(points(m[1])[m[2]], start, end)
                      /\ m = <<m[1], m[2]>>
  BY <1>1
<1>12. ASSUME NEW m \in met PROVE f[m] \in newer /\ f[m] \in ToSet(points(m[1]))
  <2>1. f[m] = points(m[1])[m[2]]
    OBVIOUS
  <2>2. f[m] \in ToSet(points(m[1]))
    BY <1>11, <2>1 DEF ToSet
  <2>3. InRange(f[m], start, end)
    BY <1>11, <2>1
  <2> HIDE DEF f
  <2> QED
    BY <1>9, <1>11, <2>2, <2>3
<1>13. ASSUME NEW m \in met, NEW k \in met, f[m] = f[k] PROVE m = k
  <2>1. m[1] = k[1]
    <3> HIDE DEF f
    <3> QED
      BY <1>10, <1>11, <1>12, <1>13
  <2> DEFINE s == points(m[1])
  <2>2. s \in Seq(Nat) /\ Rising(s) /\ m[2] \in DOMAIN s /\ k[2] \in DOMAIN s
    BY <1>9, <1>11, <2>1
  <2>3. s[m[2]] = s[k[2]]
    BY <1>13, <2>1
  <2> HIDE DEF s
  <2>4. m[2] \in Nat /\ k[2] \in Nat /\ s[m[2]] \in Nat /\ s[k[2]] \in Nat
    BY <2>2
  <2>5. ~ m[2] < k[2] /\ ~ k[2] < m[2]
    BY <2>2, <2>3, <2>4 DEF Rising
  <2>6. m[2] = k[2]
    BY <2>4, <2>5
  <2> QED
    BY <1>11, <2>1, <2>6
<1>14. f \in Injection(met, newer)
  <2>1. f \in [met -> newer]
    BY <1>12
  <2>2. \A a, b \in met : f[a] = f[b] => a = b
    BY <1>13
  <2> HIDE DEF f
  <2> QED
    BY <2>1, <2>2 DEF Injection, IsInjective
<1> HIDE DEF f
<1>15. IsFiniteSet(met) /\ Cardinality(met) <= Cardinality(newer)
  BY <1>14, FS_Injection
<1> QED
  BY <1>15 DEF met

\* Every point that is in neither list of exceptions is found.
LEMMA InvFindsPoints == TiersInv => PointsFound
<1> SUFFICES ASSUME TiersInv, ~ unindexed, ~ twice
             PROVE  PointsFound
  BY DEF PointsFound
<1> DEFINE current == {p \in ToSet(written) : p >= clock - ColdDays}
           safe == current \ (lost \cup PointsOf(keeper.blocks))
           limits == {NoLimit} \cup (IF kills = 0 THEN 1..MaxPoints ELSE {})
<1>1. /\ HotDays \in Nat /\ ColdDays \in Nat /\ clock \in Nat /\ ToSet(written) \in SUBSET Nat
      /\ Held(hot) \subseteq ToSet(written) /\ PointsOf(frames) \subseteq ToSet(written)
      /\ hot.raw \in Seq(Nat) /\ hot.blocks \in Seq(Seq(Nat)) /\ frames \in Seq(Seq(Nat))
  BY TierFacts, BufferHas
<1>2. WrittenInv /\ OrderInv /\ PlacedInv /\ IndexedInv
  BY DEF TiersInv
<1>3. IsFiniteSet(ToSet(written))
  BY <1>1, <1>2, FS_BoundedSetOfNaturals DEF WrittenInv
<1>4. ASSUME NEW start \in 1..clock, NEW end \in 2..clock + 1, NEW limit \in limits,
             NEW p \in safe,
             p \in Newest({q \in ToSet(written) : InRange(q, start, end)}, limit)
      PROVE  p \in Query(start, end, limit)
  <2> DEFINE asked == {q \in ToSet(written) : InRange(q, start, end)}
             newer == {q \in ToSet(written) : InRange(q, start, end) /\ q > p}
             bs == TierBlocks(start, end)
  <2>1. start \in Nat /\ end \in Nat
    BY <1>1
  <2>2. /\ p \in ToSet(written) /\ p \in Nat /\ InRange(p, start, end)
        /\ limit # NoLimit => Cardinality(newer) < limit
    <3>1. {q \in asked : q > p} = newer
      OBVIOUS
    <3> QED
      BY <1>1, <1>4, <3>1 DEF Newest
  <2>3. IsFiniteSet(newer) /\ Cardinality(newer) \in Nat
    BY <1>3, FS_Subset, FS_CardinalityType
  <2>4. p \in Held(hot) \/ (coldIndex.memory /\ p \in PointsOf(frames))
    <3>1. p \notin lost /\ p \notin PointsOf(keeper.blocks) /\ ~ p < clock - ColdDays
      BY <1>1, <2>2
    <3> QED
      BY <1>2, <2>2, <3>1 DEF PlacedInv, Away
  <2>5. indexed
    BY <1>2, <2>4 DEF IndexedInv
  <2>6. /\ bs \in Seq(Seq(Nat)) /\ GoodBlocks(bs) /\ PointsOf(bs) \subseteq ToSet(written)
        /\ \A i \in DOMAIN hot.blocks : \E n \in DOMAIN bs : bs[n] = hot.blocks[i]
        /\ ReachCold(start, end) /\ coldIndex.memory =>
             \A i \in DOMAIN frames : \E n \in DOMAIN bs : bs[n] = frames[i]
    BY <2>1, TierBlocksAre
  <2> HIDE DEF bs
  <2>7. p \in ToSet(hot.raw) \/ \E n \in DOMAIN bs : p \in ToSet(bs[n])
    <3>1. CASE p \in PointsOf(hot.blocks)
      BY <2>6, <3>1 DEF PointsOf
    <3>2. CASE coldIndex.memory /\ p \in PointsOf(frames)
      <4>1. ReachCold(start, end)
        <5>1. p < clock - HotDays
          BY <1>2, <3>2 DEF OrderInv
        <5>2. p >= start
          BY <2>2 DEF InRange
        <5> QED
          BY <1>1, <2>1, <2>2, <5>1, <5>2 DEF ReachCold
      <4> QED
        BY <2>6, <3>2, <4>1 DEF PointsOf
    <3> QED
      BY <2>4, <3>1, <3>2 DEF Held
  <2>8. ASSUME NEW n \in DOMAIN bs, p \in ToSet(bs[n])
        PROVE  n \in Asked(start, end) /\ (limit # NoLimit => Cardinality(Met(start, end, n)) < limit)
    <3>1. bs[n] \in Seq(Nat) /\ bs[n] # <<>> /\ Rising(bs[n])
      BY <2>6 DEF GoodBlocks
    <3>2. /\ FirstPoint(bs[n]) \in Nat /\ LastPoint(bs[n]) \in Nat
          /\ FirstPoint(bs[n]) <= p /\ p <= LastPoint(bs[n])
      BY <2>8, <3>1, BlockBounds
    <3>3. Overlaps(bs[n], start, end)
      BY <2>1, <2>2, <3>2 DEF Overlaps, InRange
    <3>4. n \in Asked(start, end)
      BY <3>3 DEF Asked, bs
    <3>5. ASSUME limit # NoLimit PROVE Cardinality(Met(start, end, n)) < limit
      <4>1. kills = 0 /\ limit \in Nat
        BY <3>5, TimeTiersAssumption
      <4>2. p \in ToSet(TierBlocks(start, end)[n])
        BY <2>8 DEF bs
      <4> HIDE DEF newer
      <4>3. newer = {q \in ToSet(written) : InRange(q, start, end) /\ q > p}
        BY DEF newer
      <4>4. /\ IsFiniteSet(Met(start, end, n))
            /\ Cardinality(Met(start, end, n)) <= Cardinality(newer)
        BY <2>1, <2>3, <3>4, <4>1, <4>2, <4>3, MetIsNewer
      <4>5. Cardinality(Met(start, end, n)) \in Nat
        BY <4>4, FS_CardinalityType
      <4> QED
        BY <2>2, <2>3, <3>5, <4>1, <4>4, <4>5
    <3> QED
      BY <3>4, <3>5
  <2> DEFINE decodes == {n \in Asked(start, end) : limit # NoLimit => Cardinality(Met(start, end, n)) < limit}
             found == ToSet(hot.raw) \cup UNION {ToSet(bs[n]) : n \in decodes}
             decoded == {q \in found : InRange(q, start, end)}
  <2>9. Decoded(start, end, limit) = decoded
    BY DEF Decoded, bs
  <2>10. p \in found
    BY <2>7, <2>8
  <2>11. found \subseteq ToSet(written)
    <3>1. \A n \in decodes : n \in DOMAIN bs
      BY DEF Asked, bs
    <3>2. \A n \in DOMAIN bs : ToSet(bs[n]) \subseteq PointsOf(bs)
      BY DEF PointsOf
    <3>3. ToSet(hot.raw) \subseteq ToSet(written)
      BY <1>1 DEF Held
    <3> HIDE DEF decodes
    <3> QED
      BY <2>6, <3>1, <3>2, <3>3
  <2> HIDE DEF found
  <2>12. {q \in decoded : q > p} \subseteq newer
    BY <2>11
  <2> DEFINE ahead == {q \in decoded : q > p}
  <2>13. limit # NoLimit => Cardinality(ahead) < limit
    <3>1. IsFiniteSet(ahead) /\ Cardinality(ahead) <= Cardinality(newer)
      BY <2>3, <2>12, FS_Subset
    <3>2. Cardinality(ahead) \in Nat
      BY <3>1, FS_CardinalityType
    <3>3. limit # NoLimit => limit \in Nat
      BY TimeTiersAssumption
    <3> HIDE DEF ahead, newer, limits
    <3> QED
      BY <2>2, <2>3, <3>1, <3>2, <3>3
  <2>14. p \in decoded
    BY <2>2, <2>10
  <2> QED
    BY <2>5, <2>9, <2>13, <2>14 DEF Query, Newest
<1>5. \A start \in 1..clock, end \in 2..clock + 1, limit \in limits :
        safe \cap Newest({q \in ToSet(written) : InRange(q, start, end)}, limit) \subseteq Query(start, end, limit)
  BY <1>4
<1> QED
  BY <1>5 DEF PointsFound

-----------------------------------------------------------------------------
TierSpec == TiersInit /\ [][TiersNext]_tierVars

\* THEOREM: the types; the points in the hot tier, the checkpoint, the log and
\* the cold file are points written; and, as long as no kill had points written
\* twice, every point written is in one of the places where queries and restarts
\* look for it, in blocks whose bounds are right.
THEOREM TiersInvariant == TierSpec => []TiersInv
BY InitHolds, TiersStep, PTL DEF TierSpec

\* THEOREM: a point whose write has returned is found by every query over its
\* time until it is older than the cold window, except where PointsFound says.
THEOREM PointsAreFound == TierSpec => []PointsFound
BY TiersInvariant, InvFindsPoints, PTL
=============================================================================
