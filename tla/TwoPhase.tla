------------------------------ MODULE TwoPhase ------------------------------
(***************************************************************************)
(* Two-phase commit of aegis-replication (transaction.rs): one             *)
(* TransactionCoordinator, a ParticipantHandler on every node, and between *)
(* them a network that delivers each message at most once, in any order,   *)
(* or loses it.                                                            *)
(*                                                                         *)
(* The library only answers calls: who sends its messages, reacts to the   *)
(* state a call returns and polls check_timeouts is the caller, and is     *)
(* external.  Careful says which caller: a careful one hands a vote over   *)
(* only while the transaction is Preparing and never aborts one it has     *)
(* begun to commit; the other one does what the return values suggest.     *)
(* A node handles the requests that reach it side by side, as the handler   *)
(* takes &self: basic_validation is one step, and every lock that          *)
(* handle_prepare, handle_commit and handle_abort take after it another.   *)
(*                                                                         *)
(* participants and operations of a transaction are complete before it is  *)
(* prepared, every node takes part in every transaction, and all nodes get *)
(* all operations, as prepare sends them.  Nothing is persisted by the     *)
(* code, so crashes are left out.                                          *)
(***************************************************************************)
EXTENDS Naturals, Sequences, FiniteSets

CONSTANTS
    Txn,          \* transactions
    Node,         \* participants
    Key,          \* keys
    Ops,          \* [Txn -> SUBSET [key : Key, write : BOOLEAN]]: operations
    Careful,      \* the caller's discipline, see above
    MaxAttempts,  \* bound, [Txn -> Nat]: times the prepare requests are sent
    MaxLoss       \* bound: messages lost

ASSUME TwoPhaseAssumption ==
    /\ Ops \in [Txn -> SUBSET [key : Key, write : BOOLEAN]]
    /\ Careful \in BOOLEAN
    /\ MaxAttempts \in [Txn -> Nat] /\ MaxLoss \in Nat

VARIABLES
    state,      \* coordinator: DistributedTransaction::state, "new" before it
                \* is begun and "gone" once it is cleaned up
    vote,       \* coordinator: vote[t][n], the vote of TransactionParticipant
    acked,      \* coordinator: nodes with `committed` set
    pending,    \* node: pending_prepares, and prepared
    locked,     \* node: transactions with their written keys in locked_keys
    committed,  \* node: `committed`
    applied,    \* node: transactions the commit callback ran for, in order
    calls,      \* node: the requests it is handling, by the step they have come to
    net,        \* messages on their way, or being handled
    attempts,   \* prepare rounds sent
    losses,     \* messages lost
    told,       \* the requests the caller sent for t: "commit", "abort"
    raced       \* ghost: the pairs of transactions of which one passed the
                \* validation of a node while it was preparing the other one

vars == <<state, vote, acked, pending, locked, committed, applied, calls, net,
          attempts, losses, told, raced>>

coordVars == <<state, vote, acked>>
nodeVars == <<pending, locked, committed, applied, calls, raced>>

States == {"Preparing", "Prepared", "Committing", "Committed", "Aborting", "Aborted"}
IsTerminal(s) == s \in {"Committed", "Aborted"}
CanCommit(s) == s = "Prepared"
CanAbort(s) == s # "Committed"

\* A message names its transaction and the node at the other end.  `try`
\* tells the rounds of prepare requests, and their answers, apart.
Message ==
    [type : {"PrepareRequest"}, txn : Txn, node : Node, try : Nat]
      \cup [type : {"PrepareResponse"}, txn : Txn, node : Node, try : Nat,
            vote : {"Commit", "Abort"}]
      \cup [type : {"CommitRequest", "CommitAck", "AbortRequest", "AbortAck"},
            txn : Txn, node : Node]

\* What the handler of a request does next, once it has begun: handle_prepare
\* inserts the keys, then the operations; handle_commit runs the callback, and
\* it and handle_abort remove the keys.
Steps == {"lock", "store", "apply", "unlock"}

Init ==
    /\ state = [t \in Txn |-> "new"]
    /\ vote = [t \in Txn |-> [n \in Node |-> "Pending"]]
    /\ acked = [t \in Txn |-> {}]
    /\ pending = [n \in Node |-> {}]
    /\ locked = [n \in Node |-> {}]
    /\ committed = [n \in Node |-> {}]
    /\ applied = [n \in Node |-> <<>>]
    /\ calls = [s \in Steps |-> {}]
    /\ net = {}
    /\ attempts = [t \in Txn |-> 0]
    /\ losses = 0
    /\ told = [t \in Txn |-> {}]
    /\ raced = {}

-----------------------------------------------------------------------------
(* The coordinator, and the caller that drives it.                          *)

Known(t) == state[t] \in States

\* begin_transaction_with_id, add_participant and add_operation.
Begin(t) ==
    /\ state[t] = "new"
    /\ state' = [state EXCEPT ![t] = "Preparing"]
    /\ UNCHANGED <<vote, acked, nodeVars, net, attempts, losses, told>>

\* prepare returns None in any state but Preparing.
Prepare(t) ==
    /\ state[t] = "Preparing"
    /\ attempts[t] < MaxAttempts[t]
    /\ attempts' = [attempts EXCEPT ![t] = @ + 1]
    /\ net' = net \cup {[type |-> "PrepareRequest", txn |-> t, node |-> n,
                          try |-> attempts[t] + 1] : n \in Node}
    /\ UNCHANGED <<coordVars, nodeVars, losses, told>>

AnyAbort(votes) == \E n \in Node : votes[n] = "Abort"
\* Mutant: a vote that has not come counts as agreement.
NoneRefused(votes) == \A n \in Node : votes[n] # "Abort"

AllPrepared(votes) == \A n \in Node : votes[n] = "Commit"

\* The state is moved whatever it was; a transaction that was cleaned up is
\* not found.
RecordVote(t, n, v) ==
    LET votes == [vote[t] EXCEPT ![n] = v]
    IN  /\ vote' = [vote EXCEPT ![t] = votes]
        /\ state' = [state EXCEPT ![t] = IF AnyAbort(votes) THEN "Aborting"
                                         ELSE IF AllPrepared(votes) THEN "Prepared"
                                         ELSE @]
        /\ UNCHANGED acked

HandlePrepareResponse(m) ==
    /\ IF Known(m.txn) /\ (Careful => state[m.txn] = "Preparing")
         THEN RecordVote(m.txn, m.node, m.vote)
         ELSE UNCHANGED coordVars
    /\ net' = net \ {m}
    /\ UNCHANGED <<nodeVars, attempts, losses, told>>

\* Mutant: the state stays Prepared when the commit requests go out.
CommitKeepsPrepared(t) ==
    /\ Known(t) /\ CanCommit(state[t])
    /\ told' = [told EXCEPT ![t] = @ \cup {"commit"}]
    /\ net' = net \cup {[type |-> "CommitRequest", txn |-> t, node |-> n] : n \in Node}
    /\ UNCHANGED <<coordVars, nodeVars, attempts, losses>>

Commit(t) ==
    /\ Known(t) /\ CanCommit(state[t])
    /\ state' = [state EXCEPT ![t] = "Committing"]
    /\ told' = [told EXCEPT ![t] = @ \cup {"commit"}]
    /\ net' = net \cup {[type |-> "CommitRequest", txn |-> t, node |-> n] : n \in Node}
    /\ UNCHANGED <<vote, acked, nodeVars, attempts, losses>>

\* Mutant: all_committed is asked before the acknowledgement is recorded.
HandleCommitAckLate(m) ==
    /\ IF Known(m.txn)
         THEN /\ acked' = [acked EXCEPT ![m.txn] = @ \cup {m.node}]
              /\ state' = [state EXCEPT ![m.txn] = IF acked[m.txn] = Node THEN "Committed" ELSE @]
         ELSE UNCHANGED <<acked, state>>
    /\ net' = net \ {m}
    /\ UNCHANGED <<vote, nodeVars, attempts, losses, told>>

HandleCommitAck(m) ==
    LET done == acked[m.txn] \cup {m.node}
    IN  /\ IF Known(m.txn)
             THEN /\ acked' = [acked EXCEPT ![m.txn] = done]
                  /\ state' = [state EXCEPT ![m.txn] = IF done = Node THEN "Committed" ELSE @]
             ELSE UNCHANGED <<acked, state>>
        /\ net' = net \ {m}
        /\ UNCHANGED <<vote, nodeVars, attempts, losses, told>>

\* The caller aborts what a vote has sent to Aborting and what check_timeouts
\* lists, which is any transaction that is not in a terminal state; it does so
\* once.
Abort(t) ==
    /\ Known(t) /\ CanAbort(state[t])
    /\ ~ IsTerminal(state[t])
    /\ "abort" \notin told[t]
    /\ Careful => state[t] # "Committing"
    /\ state' = [state EXCEPT ![t] = "Aborting"]
    /\ told' = [told EXCEPT ![t] = @ \cup {"abort"}]
    /\ net' = net \cup {[type |-> "AbortRequest", txn |-> t, node |-> n] : n \in Node}
    /\ UNCHANGED <<vote, acked, nodeVars, attempts, losses>>

\* One acknowledgement of any node is enough.
HandleAbortAck(m) ==
    /\ state' = IF Known(m.txn) THEN [state EXCEPT ![m.txn] = "Aborted"] ELSE state
    /\ net' = net \ {m}
    /\ UNCHANGED <<vote, acked, nodeVars, attempts, losses, told>>

CleanupCompleted ==
    /\ \E t \in Txn : IsTerminal(state[t])
    /\ state' = [t \in Txn |-> IF IsTerminal(state[t]) THEN "gone" ELSE state[t]]
    /\ UNCHANGED <<vote, acked, nodeVars, net, attempts, losses, told>>

-----------------------------------------------------------------------------
(* The participants.                                                        *)

WriteKeys(t) == {o.key : o \in {p \in Ops[t] : p.write}}

Conflict(t, u) == WriteKeys(t) \cap WriteKeys(u) # {}

Locks(n, t) == \E u \in locked[n] \ {t} : \E o \in Ops[t] : o.key \in WriteKeys(u)

\* Mutant: only reads are compared with the locked keys.
ValidateReads(n, t) ==
    \A u \in locked[n] \ {t} : \A o \in Ops[t] : ~ o.write => o.key \notin WriteKeys(u)

\* basic_validation, under the read locks of both maps: no operation of t is on
\* a locked key, and none writes what one of a pending transaction writes.
BasicValidation(n, t) ==
    /\ ~ Locks(n, t)
    /\ \A u \in pending[n] \ {t} : ~ Conflict(t, u)

Reply(m, v) == [type |-> "PrepareResponse", txn |-> m.txn, node |-> m.node,
                try |-> m.try, vote |-> v]

\* The transactions that handle_prepare has validated at n and not stored yet.
Preparing(n) == {m.txn : m \in {p \in calls["lock"] \cup calls["store"] : p.node = n}}

Goes(m, from, to) == calls' = [calls EXCEPT ![from] = @ \ {m}, ![to] = @ \cup {m}]

HandlePrepare(m) ==
    /\ IF BasicValidation(m.node, m.txn)
         THEN /\ calls' = [calls EXCEPT !["lock"] = @ \cup {m}]
              /\ raced' = raced \cup {{m.txn, u} : u \in Preparing(m.node)}
              /\ UNCHANGED net
         ELSE /\ net' = (net \ {m}) \cup {Reply(m, "Abort")}
              /\ UNCHANGED <<calls, raced>>
    /\ UNCHANGED <<coordVars, pending, locked, committed, applied, attempts, losses, told>>

PrepareLock(m) ==
    /\ m \in calls["lock"]
    /\ locked' = [locked EXCEPT ![m.node] = @ \cup {m.txn}]
    /\ Goes(m, "lock", "store")
    /\ UNCHANGED <<coordVars, pending, committed, applied, net, attempts, losses, told, raced>>

PrepareStore(m) ==
    /\ m \in calls["store"]
    /\ pending' = [pending EXCEPT ![m.node] = @ \cup {m.txn}]
    /\ calls' = [calls EXCEPT !["store"] = @ \ {m}]
    /\ net' = (net \ {m}) \cup {Reply(m, "Commit")}
    /\ UNCHANGED <<coordVars, locked, committed, applied, attempts, losses, told, raced>>

\* The operations are handed to the commit callback if they are there; the
\* transaction counts as committed and is acknowledged in any case.
HandleCommit(m) ==
    /\ pending' = [pending EXCEPT ![m.node] = @ \ {m.txn}]
    /\ LET next == IF m.txn \in pending[m.node] THEN "apply" ELSE "unlock"
       IN  calls' = [calls EXCEPT ![next] = @ \cup {m}]
    /\ UNCHANGED <<coordVars, locked, committed, applied, net, attempts, losses, told, raced>>

CommitApply(m) ==
    /\ m \in calls["apply"]
    /\ applied' = [applied EXCEPT ![m.node] = Append(@, m.txn)]
    /\ Goes(m, "apply", "unlock")
    /\ UNCHANGED <<coordVars, pending, locked, committed, net, attempts, losses, told, raced>>

HandleAbort(m) ==
    /\ pending' = [pending EXCEPT ![m.node] = @ \ {m.txn}]
    /\ calls' = [calls EXCEPT !["unlock"] = @ \cup {m}]
    /\ UNCHANGED <<coordVars, locked, committed, applied, net, attempts, losses, told, raced>>

\* The end of handle_commit and of handle_abort.
Unlock(m) ==
    /\ m \in calls["unlock"]
    /\ locked' = [locked EXCEPT ![m.node] = @ \ {m.txn}]
    /\ calls' = [calls EXCEPT !["unlock"] = @ \ {m}]
    /\ LET ack == IF m.type = "CommitRequest" THEN "CommitAck" ELSE "AbortAck"
       IN  net' = (net \ {m}) \cup {[type |-> ack, txn |-> m.txn, node |-> m.node]}
    /\ committed' = IF m.type = "CommitRequest"
                       THEN [committed EXCEPT ![m.node] = @ \cup {m.txn}] ELSE committed
    /\ UNCHANGED <<coordVars, pending, applied, attempts, losses, told, raced>>

-----------------------------------------------------------------------------
Handled(m) == \E s \in Steps : m \in calls[s]

Receive(m) ==
    /\ m \in net /\ ~ Handled(m)
    /\ \/ m.type = "PrepareRequest" /\ HandlePrepare(m)
       \/ m.type = "PrepareResponse" /\ HandlePrepareResponse(m)
       \/ m.type = "CommitRequest" /\ HandleCommit(m)
       \/ m.type = "CommitAck" /\ HandleCommitAck(m)
       \/ m.type = "AbortRequest" /\ HandleAbort(m)
       \/ m.type = "AbortAck" /\ HandleAbortAck(m)

Lose(m) ==
    /\ m \in net /\ ~ Handled(m)
    /\ losses < MaxLoss
    /\ losses' = losses + 1
    /\ net' = net \ {m}
    /\ UNCHANGED <<coordVars, nodeVars, attempts, told>>

Next ==
    \/ \E t \in Txn : Begin(t) \/ Prepare(t) \/ Commit(t) \/ Abort(t)
    \/ CleanupCompleted
    \/ \E m \in net :
         \/ Receive(m) \/ Lose(m)
         \/ PrepareLock(m) \/ PrepareStore(m) \/ CommitApply(m) \/ Unlock(m)

Spec == Init /\ [][Next]_vars

-----------------------------------------------------------------------------
(* Correctness.                                                             *)

\* Coordinator, participants and messages hold values of their types.
TypeOK ==
    /\ state \in [Txn -> States \cup {"new", "gone"}]
    /\ vote \in [Txn -> [Node -> {"Pending", "Commit", "Abort"}]]
    /\ acked \in [Txn -> SUBSET Node]
    /\ pending \in [Node -> SUBSET Txn] /\ locked \in [Node -> SUBSET Txn]
    /\ committed \in [Node -> SUBSET Txn]
    /\ applied \in [Node -> Seq(Txn)]
    /\ net \subseteq Message
    /\ calls \in [Steps -> SUBSET Message]
    /\ \A m \in calls["lock"] \cup calls["store"] : m.type = "PrepareRequest"
    /\ \A m \in calls["apply"] : m.type = "CommitRequest"
    /\ \A m \in calls["unlock"] : m.type \in {"CommitRequest", "AbortRequest"}
    /\ attempts \in [Txn -> Nat]
    /\ losses \in 0..MaxLoss
    /\ told \in [Txn -> SUBSET {"commit", "abort"}]

Effects(t) == {n \in Node : \E i \in 1..Len(applied[n]) : applied[n][i] = t}

\* The nodes where handle_commit has taken the operations of t to hand them over.
Applying(t) == {m.node : m \in {p \in calls["apply"] : p.txn = t}}

\* The nodes that hold the operations of t or have handed them over.
Ready(t) == {n \in Node : t \in pending[n]} \cup Applying(t) \cup Effects(t)

AC == INSTANCE AtomicCommit WITH
    decision <- [t \in Txn |-> IF "commit" \in told[t] THEN "commit"
                               ELSE IF "abort" \in told[t] THEN "abort" ELSE "none"],
    ready <- [t \in Txn |-> Ready(t)],
    effect <- [t \in Txn |-> Effects(t)]

\* Two-phase commit implements atomic commitment: with a careful caller every
\* step of coordinator and participants is a step of AtomicCommit or changes
\* nothing there, whatever is lost, late or sent again.
CommitIsAtomic == AC!Spec

\* No participant is told to commit and none to abort the same transaction,
\* and the storage of a node takes a transaction over at most once: a second
\* round of prepare requests that comes late cannot make it run again.
NoMixedOutcome ==
    \A t \in Txn :
        /\ told[t] # {"commit", "abort"}
        /\ \A n \in Node : Cardinality({i \in 1..Len(applied[n]) : applied[n][i] = t}) <= 1

\* What handle_commit records as committed is in the node's storage: the
\* operations were still there when the commit request came.
CommittedIsApplied ==
    \A n \in Node : \A t \in committed[n] : n \in Effects(t)

\* A node never holds two prepared transactions that write the same key, unless
\* basic_validation passed one while handle_prepare had yet to insert the other.
KeysExclusive ==
    \A n \in Node : \A t \in pending[n], u \in pending[n] :
        t # u /\ Conflict(t, u) => {t, u} \in raced

\* The storage of n took t over, and u later.
Precedes(n, t, u) ==
    \E i, j \in 1..Len(applied[n]) : i < j /\ applied[n][i] = t /\ applied[n][j] = u

\* Two transactions that write a common key reach the storage of all nodes in
\* the same order: the keys stay locked from the vote until the callback of the
\* commit has run, and no commit request leaves before all have voted.  Two
\* prepares that overlap at a node can both pass its validation, and then
\* nothing orders them.
SameOrder ==
    \A t \in Txn, u \in Txn : t # u /\ Conflict(t, u) /\ {t, u} \notin raced =>
        \A n \in Node, p \in Node : ~ (Precedes(n, t, u) /\ Precedes(p, u, t))

\* Once no commit request and no acknowledgement of it is under way and none
\* was lost, a commit decision has reached every node and the coordinator
\* knows: commit() answers None from then on, so nothing is ever sent again.
CommitCompletes ==
    \A t \in Txn :
        /\ "commit" \in told[t]
        /\ losses = 0
        /\ \A m \in net : m.txn = t => m.type \notin {"CommitRequest", "CommitAck"}
        => Effects(t) = Node /\ state[t] \in {"Committed", "gone"}

-----------------------------------------------------------------------------
(* What makes KeysExclusive inductive, whoever calls.                       *)

\* A request is on the net until its handler ends, and has come to one step.
CallInv ==
    /\ \A s \in Steps : calls[s] \subseteq net
    /\ \A s, r \in Steps : s # r => calls[s] \cap calls[r] = {}

\* The transactions that have passed the validation of n.
Held(n) == pending[n] \cup Preparing(n)

HeldInv ==
    \A n \in Node : \A t, u \in Held(n) : t # u /\ Conflict(t, u) => {t, u} \in raced

-----------------------------------------------------------------------------
(* What makes NoMixedOutcome, CommittedIsApplied and CommitIsAtomic         *)
(* inductive, for a careful caller.                                         *)

\* The coordinator's state tells what has been decided.
DecisionInv ==
    \A t \in Txn :
        /\ told[t] # {"commit", "abort"}
        /\ state[t] \in {"new", "Preparing", "Prepared"} => told[t] = {}
        /\ state[t] = "Aborting" => "commit" \notin told[t]
        /\ state[t] = "Prepared" => AllPrepared(vote[t])

\* A message follows from a decision or a vote that still binds its node.
MessageInv ==
    \A m \in net :
        /\ m.type \in {"CommitRequest", "CommitAck"} => "commit" \in told[m.txn]
        /\ m.type \in {"AbortRequest", "AbortAck"} => "abort" \in told[m.txn]
        /\ m.type = "CommitRequest" => (m.node \in Effects(m.txn) <=> m \in calls["unlock"])
        /\ m.type = "PrepareResponse" /\ m.vote = "Commit"
             => m.node \in Ready(m.txn) \/ "abort" \in told[m.txn]

\* So does a vote; after a commit decision every node is bound, and before it
\* nothing has reached the storage.
VoteInv ==
    \A t \in Txn :
        /\ \A n \in Node : vote[t][n] = "Commit" => n \in Ready(t) \/ "abort" \in told[t]
        /\ "commit" \in told[t] => Ready(t) = Node
        /\ "commit" \notin told[t] => Applying(t) = {} /\ Effects(t) = {}

\* A node's storage has a transaction once, and all it counts as committed.
StorageInv ==
    \A n \in Node :
        /\ \A t \in committed[n] : n \in Effects(t)
        /\ \A i, j \in 1..Len(applied[n]) : applied[n][i] = applied[n][j] => i = j

CommitInv == DecisionInv /\ MessageInv /\ VoteInv /\ StorageInv

\* What makes SameOrder inductive.  The keys of a transaction are locked before
\* its operations are there, and until they are handed over or it is aborted.
Storing(n) == {m.txn : m \in {p \in calls["store"] : p.node = n}}
LockInv ==
    \A t \in Txn, n \in Node :
        /\ "abort" \notin told[t] /\ n \notin Effects(t)
        /\ n \in Ready(t) \/ t \in Storing(n)
        => t \in locked[n]

\* t is first: a node that has validated u or has handed it over had handed t
\* over before.
First(t, u) ==
    \A n \in Node :
        /\ u \in Held(n) \/ n \in Applying(u) => n \in Effects(t)
        /\ n \in Effects(u) => Precedes(n, t, u)

\* Of two transactions that conflict, the one decided first is first.
OrderInv ==
    \A t, u \in Txn : t # u /\ Conflict(t, u) /\ {t, u} \notin raced /\ "commit" \in told[t] =>
        IF "commit" \in told[u] THEN First(t, u) \/ First(u, t) ELSE First(t, u)

\* What makes CommitCompletes inductive.  After a commit decision the
\* coordinator is Committing until all nodes have acknowledged; and as long as
\* nothing is lost, a node that has not taken the transaction over has the
\* request on its way, and one that is not known to have, that or its
\* acknowledgement.
Underway(type, t, n) == \E m \in net : m.type = type /\ m.txn = t /\ m.node = n

CommittingInv ==
    \A t \in Txn :
        /\ state[t] = "Prepared" => Node # {}
        /\ "commit" \notin told[t] => acked[t] = {}
        /\ "commit" \in told[t] /\ acked[t] = Node => state[t] \in {"Committed", "gone"}
        /\ "commit" \in told[t] /\ acked[t] # Node => state[t] = "Committing"

DeliveryInv ==
    losses = 0 =>
        \A t \in Txn, n \in Node : "commit" \in told[t] =>
            /\ n \in Effects(t) \/ Underway("CommitRequest", t, n)
            /\ n \in acked[t] \/ Underway("CommitRequest", t, n) \/ Underway("CommitAck", t, n)

CompletionInv == CommittingInv /\ DeliveryInv
=============================================================================
