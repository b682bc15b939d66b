----------------------------- MODULE ClientPool -----------------------------
(***************************************************************************)
(* The connection pool of aegis-client.  A semaphore limits how many       *)
(* connections are out; a connection that is given back goes through an    *)
(* unbounded channel, from which get takes the first one that is still     *)
(* good before it opens another.  Giving back releases the permit first    *)
(* and sends the connection afterwards, and goes by the closed flag as it  *)
(* was when the connection was handed out.                                 *)
(*                                                                         *)
(* A connection is its number.  The pool lives as long as its users do.    *)
(* get is dropped by its caller only where it waits: for the permit, for   *)
(* the receiver's lock and for the new connection; close, for the lock and *)
(* for the logout of a connection.  return_connection has no caller.       *)
(***************************************************************************)
EXTENDS Naturals, Sequences, FiniteSets, FiniteSetsExt, Functions

CONSTANTS
    User,            \* tasks that use the pool
    Nobody,          \* the owner of a free lock, and no connection
    Closer,          \* the task that closes the pool
    MinConnections,  \* PoolConfig::min_connections
    MaxConnections,  \* PoolConfig::max_connections
    MaxCreated       \* bound: connections opened

ASSUME PoolAssumption ==
    /\ MinConnections \in Nat /\ MaxConnections \in Nat /\ MaxCreated \in Nat
    /\ IsFiniteSet(User)
    /\ Nobody \notin User /\ Nobody \notin Nat
    /\ Closer \notin User \cup {Nobody}

VARIABLES
    permits,    \* of the semaphore
    returned,   \* the channel
    rxLock,     \* the owner of return_rx
    at,         \* where each task is in get or in drop
    conn,       \* the connection it has
    sawClosed,  \* the closed flag its connection was handed out with
    connected,  \* the connections that still work
    created,    \* total_created
    size,       \* current_size
    closed,     \* the closed flag
    closing,    \* where close is
    taken,      \* the connection close waits for, or Nobody
    forgotten   \* history: connections that close had taken when it was given up

closeVars == <<closing, taken, forgotten>>
poolVars == <<permits, returned, rxLock, at, conn, sawClosed, connected, created, size, closed, closeVars>>

\* with_connection_config and initialize.
PoolInit ==
    /\ permits = MaxConnections
    /\ returned = [n \in 1..MinConnections |-> n]
    /\ rxLock = Nobody
    /\ at = [u \in User |-> "out"]
    /\ conn = [u \in User |-> Nobody]
    /\ sawClosed = [u \in User |-> FALSE]
    /\ connected = 1..MinConnections
    /\ created = MinConnections
    /\ size = MinConnections
    /\ closed = FALSE
    /\ closing = "no" /\ taken = Nobody /\ forgotten = 0

Goto(u, place) == at' = [at EXCEPT ![u] = place]

-----------------------------------------------------------------------------
(* get                                                                     *)

Get(u) ==
    /\ at[u] = "out"
    /\ ~ closed
    /\ Goto(u, "acquire")
    /\ UNCHANGED <<permits, returned, rxLock, conn, sawClosed, connected, created, size, closed, closeVars>>

AcquirePermit(u) ==
    /\ at[u] = "acquire"
    /\ permits > 0
    /\ permits' = permits - 1
    /\ Goto(u, "lock")
    /\ UNCHANGED <<returned, rxLock, conn, sawClosed, connected, created, size, closed, closeVars>>

\* acquire_timeout, or the caller gives up.
AcquireTimeout(u) ==
    /\ at[u] = "acquire"
    /\ Goto(u, "out")
    /\ UNCHANGED <<permits, returned, rxLock, conn, sawClosed, connected, created, size, closed, closeVars>>

\* try_recv_usable, the receiver locked.
LockReceiver(u) ==
    /\ at[u] = "lock"
    /\ rxLock = Nobody
    /\ rxLock' = u
    /\ Goto(u, "receive")
    /\ UNCHANGED <<permits, returned, conn, sawClosed, connected, created, size, closed, closeVars>>

\* Mutant: the connection is not taken out of the channel.
ReceivePeeked(u) ==
    /\ at[u] = "receive"
    /\ returned # <<>>
    /\ Head(returned) \in connected
    /\ conn' = [conn EXCEPT ![u] = Head(returned)]
    /\ rxLock' = Nobody
    /\ Goto(u, "have")
    /\ UNCHANGED <<permits, returned, sawClosed, connected, created, size, closed, closeVars>>

ReceiveGood(u) ==
    /\ at[u] = "receive"
    /\ returned # <<>>
    /\ Head(returned) \in connected
    /\ returned' = Tail(returned)
    /\ conn' = [conn EXCEPT ![u] = Head(returned)]
    /\ rxLock' = Nobody
    /\ Goto(u, "have")
    /\ UNCHANGED <<permits, sawClosed, connected, created, size, closed, closeVars>>

\* The connection is down, or was idle for too long: a choice.
ReceiveStale(u) ==
    /\ at[u] = "receive"
    /\ returned # <<>>
    /\ returned' = Tail(returned)
    /\ connected' = connected \ {Head(returned)}
    /\ size' = size - 1
    /\ UNCHANGED <<permits, rxLock, at, conn, sawClosed, created, closed, closeVars>>

\* Mutant: a new connection is opened without a look at the channel.
ReceiveNot(u) ==
    /\ at[u] = "receive"
    /\ rxLock' = Nobody
    /\ Goto(u, "create")
    /\ UNCHANGED <<permits, returned, conn, sawClosed, connected, created, size, closed, closeVars>>

ReceiveNone(u) ==
    /\ at[u] = "receive"
    /\ returned = <<>>
    /\ rxLock' = Nobody
    /\ Goto(u, "create")
    /\ UNCHANGED <<permits, returned, conn, sawClosed, connected, created, size, closed, closeVars>>

CreateConnection(u) ==
    /\ at[u] = "create"
    /\ created < MaxCreated
    /\ created' = created + 1
    /\ size' = size + 1
    /\ conn' = [conn EXCEPT ![u] = created + 1]
    /\ connected' = connected \cup {created + 1}
    /\ Goto(u, "have")
    /\ UNCHANGED <<permits, returned, rxLock, sawClosed, closed, closeVars>>

\* Mutant: the permit goes with the failed connection.
GetForgetsPermit(u) ==
    /\ at[u] \in {"lock", "create"}
    /\ Goto(u, "out")
    /\ UNCHANGED <<permits, returned, rxLock, conn, sawClosed, connected, created, size, closed, closeVars>>

\* The connection cannot be opened, or the caller gives up: the permit is
\* dropped.
GetFails(u) ==
    /\ at[u] \in {"lock", "create"}
    /\ permits' = permits + 1
    /\ Goto(u, "out")
    /\ UNCHANGED <<returned, rxLock, conn, sawClosed, connected, created, size, closed, closeVars>>

HandOut(u) ==
    /\ at[u] = "have"
    /\ sawClosed' = [sawClosed EXCEPT ![u] = closed]
    /\ Goto(u, "use")
    /\ UNCHANGED <<permits, returned, rxLock, conn, connected, created, size, closed, closeVars>>

-----------------------------------------------------------------------------
(* The user drops its PooledConnection.                                    *)

ReleasePermit(u) ==
    /\ at[u] = "use"
    /\ permits' = permits + 1
    /\ Goto(u, "giveBack")
    /\ UNCHANGED <<returned, rxLock, conn, sawClosed, connected, created, size, closed, closeVars>>

GiveBack(u) ==
    /\ at[u] = "giveBack"
    /\ \/ /\ ~ sawClosed[u] /\ conn[u] \in connected
          /\ returned' = Append(returned, conn[u])
          /\ UNCHANGED <<connected, size>>
       \/ /\ sawClosed[u] \/ conn[u] \notin connected
          /\ size' = size - 1
          /\ connected' = connected \ {conn[u]}
          /\ UNCHANGED returned
    /\ conn' = [conn EXCEPT ![u] = Nobody]
    /\ sawClosed' = [sawClosed EXCEPT ![u] = FALSE]
    /\ Goto(u, "out")
    /\ UNCHANGED <<permits, rxLock, created, closed, closeVars>>

\* A connection breaks.
Disconnect(c) ==
    /\ c \in connected
    /\ connected' = connected \ {c}
    /\ UNCHANGED <<permits, returned, rxLock, at, conn, sawClosed, created, size, closed, closeVars>>

-----------------------------------------------------------------------------
(* close                                                                   *)

Close ==
    /\ closing = "no"
    /\ closed' = TRUE
    /\ closing' = "lock"
    /\ UNCHANGED <<permits, returned, rxLock, at, conn, sawClosed, connected, created, size, taken, forgotten>>

CloseLock ==
    /\ closing = "lock"
    /\ rxLock = Nobody
    /\ rxLock' = Closer
    /\ closing' = "drain"
    /\ UNCHANGED <<permits, returned, at, conn, sawClosed, connected, created, size, closed, taken, forgotten>>

\* close takes a connection and waits while Connection::close logs out.
CloseDrain ==
    /\ closing = "drain"
    /\ returned # <<>>
    /\ returned' = Tail(returned)
    /\ taken' = Head(returned)
    /\ closing' = "logout"
    /\ UNCHANGED <<permits, rxLock, at, conn, sawClosed, connected, created, size, closed, forgotten>>

CloseConnection ==
    /\ closing = "logout"
    /\ connected' = connected \ {taken}
    /\ size' = size - 1
    /\ taken' = Nobody
    /\ closing' = "drain"
    /\ UNCHANGED <<permits, returned, rxLock, at, conn, sawClosed, created, closed, forgotten>>

\* The caller gives up while close waits, for the lock or for the logout: the
\* connection goes, and current_size stays.
CloseGivenUp ==
    /\ closing \in {"lock", "logout"}
    /\ closing' = "no"
    /\ rxLock' = IF closing = "logout" THEN Nobody ELSE rxLock
    /\ connected' = connected \ {taken}
    /\ taken' = Nobody
    /\ forgotten' = IF taken = Nobody THEN forgotten ELSE forgotten + 1
    /\ UNCHANGED <<permits, returned, at, conn, sawClosed, created, size, closed>>

\* close returns; it may be called again.
CloseDone ==
    /\ closing = "drain"
    /\ returned = <<>>
    /\ rxLock' = Nobody
    /\ closing' = "no"
    /\ UNCHANGED <<permits, returned, at, conn, sawClosed, connected, created, size, closed, taken, forgotten>>

PoolNext ==
    \/ \E u \in User :
         \/ Get(u) \/ AcquirePermit(u) \/ AcquireTimeout(u)
         \/ LockReceiver(u) \/ ReceiveGood(u) \/ ReceiveStale(u) \/ ReceiveNone(u)
         \/ CreateConnection(u) \/ GetFails(u) \/ HandOut(u)
         \/ ReleasePermit(u) \/ GiveBack(u)
    \/ \E c \in 1..MaxCreated : Disconnect(c)
    \/ Close \/ CloseLock \/ CloseDrain \/ CloseConnection \/ CloseGivenUp \/ CloseDone

PoolSpec == PoolInit /\ [][PoolNext]_poolVars

-----------------------------------------------------------------------------
(* Properties.                                                             *)

Permitted == {u \in User : at[u] \notin {"out", "acquire", "giveBack"}}
Holders == {u \in User : conn[u] # Nobody}
Creating == {u \in User : at[u] = "create"}

\* The connections there are: idle ones, those of users, the one close has taken.
Open == Len(returned) + Cardinality(Holders) + (IF taken = Nobody THEN 0 ELSE 1)

\* Whatever fails, times out, is given up or is closed in between: no permit is
\* lost or made, no connection has two users or is in the channel while it has
\* one, and current_size counts the connections there are, and those of which
\* a close that was given up while it waited has not told it.
PoolAccounting ==
    /\ permits + Cardinality(Permitted) = MaxConnections
    /\ IsInjective(returned)
    /\ taken \notin Range(returned)
    /\ \A u \in Holders : conn[u] \notin Range(returned) /\ conn[u] # taken
    /\ \A u, v \in Holders : conn[u] = conn[v] => u = v
    /\ size = Open + forgotten

\* A connection is opened only when one is needed: those there are, and those
\* being opened, are never more than the tasks that use the pool (or than
\* min_connections), also while close has one out.  current_size may say more
\* after a close that was given up, and max_connections bounds the users, not
\* these: a permit is free before its connection is back.
PoolBounded ==
    Open + Cardinality(Creating) <= Max({MinConnections, Cardinality(User)})

\* What PoolAccounting and PoolBounded need to be inductive: the numbers of
\* connections in the pool were given out before, and a task has a connection
\* exactly from the end of get to the end of its drop.
Place == {"out", "acquire", "lock", "receive", "create", "have", "use", "giveBack"}
ConnectionsKnown ==
    /\ permits \in Nat /\ created \in Nat /\ forgotten \in Nat
    /\ taken \in (1..created) \cup {Nobody}
    /\ taken # Nobody <=> closing = "logout"
    /\ returned \in Seq(1..created)
    /\ at \in [User -> Place]
    /\ conn \in [User -> (1..created) \cup {Nobody}]
    /\ \A u \in User : u \in Holders <=> at[u] \in {"have", "use", "giveBack"}

\* While close has a connection out nobody is about to find the channel empty.
ReceiverLocked ==
    /\ at \in [User -> Place]
    /\ \A u \in User : at[u] = "receive" => rxLock = u
    /\ closing \in {"drain", "logout"} => rxLock = Closer

CountInv == ConnectionsKnown /\ PoolAccounting /\ PoolBounded
PoolInv == ReceiverLocked /\ CountInv
=============================================================================
