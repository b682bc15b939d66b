---------------------------- MODULE AtomicCommit ----------------------------
(***************************************************************************)
(* What two-phase commit promises to its caller: the participants of a     *)
(* transaction all take its operations over or none does.  A transaction   *)
(* is decided once; it is committed only while every node is ready to take *)
(* its operations; a node takes them only after the commit decision, and   *)
(* gives up being ready only after an abort decision.                      *)
(***************************************************************************)
CONSTANTS
    Txn,   \* transactions
    Node   \* participants

VARIABLES
    decision,  \* [Txn -> {"none", "commit", "abort"}]
    ready,     \* [Txn -> SUBSET Node]: nodes holding the operations
    effect     \* [Txn -> SUBSET Node]: nodes whose storage took them over

vars == <<decision, ready, effect>>

Init ==
    /\ decision = [t \in Txn |-> "none"]
    /\ ready = [t \in Txn |-> {}]
    /\ effect = [t \in Txn |-> {}]

GetReady(t, n) ==
    /\ ready' = [ready EXCEPT ![t] = @ \cup {n}]
    /\ UNCHANGED <<decision, effect>>

GiveUp(t, n) ==
    /\ decision[t] = "abort"
    /\ ready' = [ready EXCEPT ![t] = @ \ {n}]
    /\ UNCHANGED <<decision, effect>>

Decide(t, d) ==
    /\ decision[t] = "none"
    /\ d = "commit" => ready[t] = Node
    /\ decision' = [decision EXCEPT ![t] = d]
    /\ UNCHANGED <<ready, effect>>

TakeEffect(t, n) ==
    /\ decision[t] = "commit"
    /\ n \in ready[t]
    /\ effect' = [effect EXCEPT ![t] = @ \cup {n}]
    /\ UNCHANGED <<decision, ready>>

Next ==
    \E t \in Txn :
        \/ \E d \in {"commit", "abort"} : Decide(t, d)
        \/ \E n \in Node : GetReady(t, n) \/ GiveUp(t, n) \/ TakeEffect(t, n)

Spec == Init /\ [][Next]_vars
=============================================================================
