--------------------------- MODULE TwoPhaseProofs ---------------------------
(***************************************************************************)
(* Proofs about TwoPhase, for any transactions, nodes, keys and bounds.    *)
(* TypeOK and KeysExclusive hold for every caller; the theorems about the  *)
(* outcome assume a careful one, and rest on CommitInv.                    *)
(***************************************************************************)
EXTENDS TwoPhase, FiniteSetTheorems, TLAPS

-----------------------------------------------------------------------------
(* Messages.                                                                *)

\* What a message carries.
LEMMA MessageFields ==
    ASSUME NEW m \in Message
    PROVE  /\ m.txn \in Txn /\ m.node \in Node
           /\ m.type \in {"PrepareRequest", "PrepareResponse", "CommitRequest", "CommitAck",
                          "AbortRequest", "AbortAck"}
           /\ m.type \in {"PrepareRequest", "PrepareResponse"} => m.try \in Nat
           /\ m.type = "PrepareResponse" => m.vote \in {"Commit", "Abort"}
  BY DEF Message

\* The requests and answers the code builds are messages.
LEMMA MessageBuilt ==
    ASSUME NEW t \in Txn, NEW n \in Node, NEW k \in Nat, NEW v \in {"Commit", "Abort"}
    PROVE  /\ [type |-> "PrepareRequest", txn |-> t, node |-> n, try |-> k] \in Message
           /\ [type |-> "PrepareResponse", txn |-> t, node |-> n, try |-> k, vote |-> v]
                \in Message
           /\ \A y \in {"CommitRequest", "CommitAck", "AbortRequest", "AbortAck"} :
                [type |-> y, txn |-> t, node |-> n] \in Message
  BY DEF Message

\* How each step of a handler moves its request on.
LEMMA CallsMove ==
    ASSUME TypeOK, NEW m \in net
    PROVE  /\ HandlePrepare(m) => \A s \in Steps :
                calls'[s] = IF s = "lock" /\ BasicValidation(m.node, m.txn)
                              THEN calls[s] \cup {m} ELSE calls[s]
           /\ PrepareLock(m) => \A s \in Steps :
                calls'[s] = IF s = "lock" THEN calls[s] \ {m}
                              ELSE IF s = "store" THEN calls[s] \cup {m} ELSE calls[s]
           /\ PrepareStore(m) => \A s \in Steps :
                calls'[s] = IF s = "store" THEN calls[s] \ {m} ELSE calls[s]
           /\ HandleCommit(m) => \A s \in Steps :
                calls'[s] = IF s = (IF m.txn \in pending[m.node] THEN "apply" ELSE "unlock")
                              THEN calls[s] \cup {m} ELSE calls[s]
           /\ CommitApply(m) => \A s \in Steps :
                calls'[s] = IF s = "apply" THEN calls[s] \ {m}
                              ELSE IF s = "unlock" THEN calls[s] \cup {m} ELSE calls[s]
           /\ HandleAbort(m) => \A s \in Steps :
                calls'[s] = IF s = "unlock" THEN calls[s] \cup {m} ELSE calls[s]
           /\ Unlock(m) => \A s \in Steps :
                calls'[s] = IF s = "unlock" THEN calls[s] \ {m} ELSE calls[s]
<1>1. DOMAIN calls = Steps /\ {"lock", "store", "apply", "unlock"} = Steps
  BY DEF TypeOK, Steps
<1>2. ASSUME HandlePrepare(m), NEW s \in Steps
      PROVE  calls'[s] = IF s = "lock" /\ BasicValidation(m.node, m.txn)
                           THEN calls[s] \cup {m} ELSE calls[s]
  BY <1>1, <1>2 DEF HandlePrepare
<1>3. ASSUME PrepareLock(m), NEW s \in Steps
      PROVE  calls'[s] = IF s = "lock" THEN calls[s] \ {m}
                           ELSE IF s = "store" THEN calls[s] \cup {m} ELSE calls[s]
  BY <1>1, <1>3 DEF PrepareLock, Goes
<1>4. ASSUME CommitApply(m), NEW s \in Steps
      PROVE  calls'[s] = IF s = "apply" THEN calls[s] \ {m}
                           ELSE IF s = "unlock" THEN calls[s] \cup {m} ELSE calls[s]
  BY <1>1, <1>4 DEF CommitApply, Goes
<1>5. ASSUME HandleCommit(m), NEW s \in Steps
      PROVE  calls'[s] = IF s = (IF m.txn \in pending[m.node] THEN "apply" ELSE "unlock")
                           THEN calls[s] \cup {m} ELSE calls[s]
  BY <1>1, <1>5 DEF HandleCommit
<1> QED
  BY <1>1, <1>2, <1>3, <1>4, <1>5 DEF PrepareStore, HandleAbort, Unlock

-----------------------------------------------------------------------------
(* Types.                                                                   *)

LEMMA TypeInit == Init => TypeOK
  BY TwoPhaseAssumption DEF Init, TypeOK, States, Steps

LEMMA TypeNext == TypeOK /\ [Next]_vars => TypeOK'
<1> SUFFICES ASSUME TypeOK, [Next]_vars PROVE TypeOK'
  OBVIOUS
<1> USE TwoPhaseAssumption
<1>1. ASSUME NEW t \in Txn, Begin(t) PROVE TypeOK'
  BY <1>1 DEF Begin, TypeOK, States, nodeVars
<1>2. ASSUME NEW t \in Txn, Prepare(t) PROVE TypeOK'
  <2>1. attempts' \in [Txn -> Nat]
    BY <1>2 DEF Prepare, TypeOK
  <2>2. net' \subseteq Message
    <3>1. attempts[t] + 1 \in Nat
      BY DEF TypeOK
    <3>2. \A n \in Node : [type |-> "PrepareRequest", txn |-> t, node |-> n,
                           try |-> attempts[t] + 1] \in Message
      BY <3>1, MessageBuilt
    <3> QED
      BY <1>2, <3>2 DEF Prepare, TypeOK
  <2> QED
    BY <1>2, <2>1, <2>2 DEF Prepare, TypeOK, coordVars, nodeVars
<1>3. ASSUME NEW t \in Txn, Commit(t) PROVE TypeOK'
  <2>1. net' \subseteq Message
    BY <1>3, MessageBuilt DEF Commit, TypeOK
  <2> QED
    BY <1>3, <2>1 DEF Commit, TypeOK, States, nodeVars
<1>4. ASSUME NEW t \in Txn, Abort(t) PROVE TypeOK'
  <2>1. net' \subseteq Message
    BY <1>4, MessageBuilt DEF Abort, TypeOK
  <2> QED
    BY <1>4, <2>1 DEF Abort, TypeOK, States, nodeVars
<1>5. ASSUME CleanupCompleted PROVE TypeOK'
  BY <1>5 DEF CleanupCompleted, TypeOK, States, nodeVars
\* The steps of a handler move its request from one set to another.
<1> DEFINE CallsOK == /\ calls \in [Steps -> SUBSET Message]
                      /\ \A m \in calls["lock"] \cup calls["store"] : m.type = "PrepareRequest"
                      /\ \A m \in calls["apply"] : m.type = "CommitRequest"
                      /\ \A m \in calls["unlock"] : m.type \in {"CommitRequest", "AbortRequest"}
<1>6. ASSUME NEW m \in net,
             \/ m.type = "PrepareRequest" /\ HandlePrepare(m)
             \/ m.type = "CommitRequest" /\ HandleCommit(m)
             \/ m.type = "AbortRequest" /\ HandleAbort(m)
             \/ PrepareLock(m) \/ PrepareStore(m) \/ CommitApply(m) \/ Unlock(m)
      PROVE  CallsOK'
  <2>1. m \in Message
    BY DEF TypeOK
  <2>2. \A s \in Steps : calls'[s] \subseteq calls[s] \cup {m}
    BY <1>6, CallsMove
  <2>3. calls' = [s \in Steps |-> calls'[s]]
    BY <1>6 DEF HandlePrepare, PrepareLock, PrepareStore, HandleCommit, CommitApply, HandleAbort,
                Unlock, Goes, TypeOK
  <2>4. calls' \in [Steps -> SUBSET Message]
    BY <2>1, <2>2, <2>3 DEF TypeOK
  <2>5. CASE m.type = "PrepareRequest" /\ HandlePrepare(m)
    BY <2>4, <2>5, CallsMove DEF TypeOK, Steps
  <2>6. CASE PrepareLock(m)
    <3>1. /\ calls'["lock"] = calls["lock"] \ {m} /\ calls'["store"] = calls["store"] \cup {m}
          /\ calls'["apply"] = calls["apply"] /\ calls'["unlock"] = calls["unlock"]
      BY <2>6, CallsMove DEF Steps
    <3>2. m.type = "PrepareRequest"
      BY <2>6 DEF PrepareLock, TypeOK
    <3> QED
      BY <2>4, <3>1, <3>2 DEF TypeOK
  <2>7. CASE PrepareStore(m)
    BY <2>4, <2>7, CallsMove DEF TypeOK, Steps
  <2>8. CASE m.type = "CommitRequest" /\ HandleCommit(m)
    BY <2>4, <2>8, CallsMove DEF TypeOK, Steps
  <2>9. CASE CommitApply(m)
    <3>1. /\ calls'["lock"] = calls["lock"] /\ calls'["store"] = calls["store"]
          /\ calls'["apply"] = calls["apply"] \ {m} /\ calls'["unlock"] = calls["unlock"] \cup {m}
      BY <2>9, CallsMove DEF Steps
    <3>2. m.type = "CommitRequest"
      BY <2>9 DEF CommitApply, TypeOK
    <3> QED
      BY <2>4, <3>1, <3>2 DEF TypeOK
  <2>10. CASE m.type = "AbortRequest" /\ HandleAbort(m)
    BY <2>4, <2>10, CallsMove DEF TypeOK, Steps
  <2>11. CASE Unlock(m)
    BY <2>4, <2>11, CallsMove DEF TypeOK, Steps
  <2> QED
    BY <1>6, <2>5, <2>6, <2>7, <2>8, <2>9, <2>10, <2>11
<1>7. ASSUME NEW m \in net,
             (m.type = "PrepareRequest" /\ HandlePrepare(m)) \/ PrepareLock(m) \/ PrepareStore(m)
      PROVE  TypeOK'
  <2>0. m.type = "PrepareRequest"
    BY <1>7 DEF PrepareLock, PrepareStore, TypeOK
  <2>1. m \in Message
    BY DEF TypeOK
  <2>2. m.txn \in Txn /\ m.node \in Node /\ m.try \in Nat
    BY <2>0, <2>1, MessageFields
  <2>3. \A v \in {"Commit", "Abort"} : Reply(m, v) \in Message
    BY <2>2, MessageBuilt DEF Reply
  <2>4. net' \subseteq Message
    BY <1>7, <2>3 DEF HandlePrepare, PrepareLock, PrepareStore, TypeOK
  <2>5. pending' \in [Node -> SUBSET Txn] /\ locked' \in [Node -> SUBSET Txn]
    <3>1. CASE HandlePrepare(m)
      BY <3>1 DEF HandlePrepare, TypeOK
    <3>2. CASE PrepareLock(m)
      BY <2>2, <3>2 DEF PrepareLock, TypeOK
    <3>3. CASE PrepareStore(m)
      BY <2>2, <3>3 DEF PrepareStore, TypeOK
    <3> QED
      BY <1>7, <3>1, <3>2, <3>3
  <2>6. CallsOK'
    BY <1>6, <1>7
  <2> QED
    BY <1>7, <2>4, <2>5, <2>6 DEF HandlePrepare, PrepareLock, PrepareStore, TypeOK, coordVars
<1>8. ASSUME NEW m \in net, m.type = "PrepareResponse", HandlePrepareResponse(m) PROVE TypeOK'
  <2>1. m \in Message
    BY DEF TypeOK
  <2>2. m.txn \in Txn /\ m.node \in Node /\ m.vote \in {"Commit", "Abort"}
    BY <2>1, <1>8, MessageFields
  <2>3. net' \subseteq Message
    BY <1>8 DEF HandlePrepareResponse, TypeOK
  <2>4. CASE UNCHANGED coordVars
    BY <1>8, <2>3, <2>4 DEF HandlePrepareResponse, TypeOK, coordVars, nodeVars
  <2>5. CASE RecordVote(m.txn, m.node, m.vote)
    <3>1. vote' \in [Txn -> [Node -> {"Pending", "Commit", "Abort"}]]
      BY <2>2, <2>5 DEF RecordVote, TypeOK
    <3>2. state' \in [Txn -> States \cup {"new", "gone"}]
      BY <2>2, <2>5 DEF RecordVote, TypeOK, States
    <3> QED
      BY <1>8, <2>3, <2>5, <3>1, <3>2 DEF HandlePrepareResponse, RecordVote, TypeOK, nodeVars
  <2> QED
    BY <1>8, <2>4, <2>5 DEF HandlePrepareResponse
<1>9. ASSUME NEW m \in net,
             \/ m.type = "CommitRequest" /\ HandleCommit(m)
             \/ m.type = "AbortRequest" /\ HandleAbort(m)
             \/ CommitApply(m)
      PROVE  TypeOK'
  <2>1. m \in Message
    BY DEF TypeOK
  <2>2. m.txn \in Txn /\ m.node \in Node
    BY <2>1, MessageFields
  <2>3. CallsOK'
    BY <1>6, <1>9
  <2>4. CASE HandleCommit(m)
    BY <2>2, <2>3, <2>4 DEF HandleCommit, TypeOK, coordVars
  <2>5. CASE HandleAbort(m)
    BY <2>2, <2>3, <2>5 DEF HandleAbort, TypeOK, coordVars
  <2>6. CASE CommitApply(m)
    <3>1. applied' \in [Node -> Seq(Txn)]
      BY <2>2, <2>6 DEF CommitApply, TypeOK
    <3> QED
      BY <2>3, <2>6, <3>1 DEF CommitApply, TypeOK, coordVars
  <2> QED
    BY <1>9, <2>4, <2>5, <2>6
<1>10. ASSUME NEW m \in net, m.type = "CommitAck", HandleCommitAck(m) PROVE TypeOK'
  <2>1. m \in Message
    BY DEF TypeOK
  <2>2. m.txn \in Txn /\ m.node \in Node
    BY <2>1, MessageFields
  <2>3. state' \in [Txn -> States \cup {"new", "gone"}]
    BY <1>10, <2>2 DEF HandleCommitAck, TypeOK, States
  <2>4. acked' \in [Txn -> SUBSET Node]
    <3>1. acked[m.txn] \cup {m.node} \in SUBSET Node
      BY <2>2 DEF TypeOK
    <3>2. CASE UNCHANGED acked
      BY <3>2 DEF TypeOK
    <3>3. CASE acked' = [acked EXCEPT ![m.txn] = acked[m.txn] \cup {m.node}]
      BY <2>2, <3>1, <3>3 DEF TypeOK
    <3> QED
      BY <1>10, <3>2, <3>3 DEF HandleCommitAck
  <2> QED
    BY <1>10, <2>3, <2>4 DEF HandleCommitAck, TypeOK, nodeVars
<1>11. ASSUME NEW m \in net, Unlock(m) PROVE TypeOK'
  <2>1. m \in Message
    BY DEF TypeOK
  <2>2. m.txn \in Txn /\ m.node \in Node
    BY <2>1, MessageFields
  <2>3. net' \subseteq Message
    BY <1>11, <2>2, MessageBuilt DEF Unlock, TypeOK
  <2>4. locked' \in [Node -> SUBSET Txn] /\ committed' \in [Node -> SUBSET Txn]
    BY <1>11, <2>2 DEF Unlock, TypeOK
  <2>5. CallsOK'
    BY <1>6, <1>11
  <2> QED
    BY <1>11, <2>3, <2>4, <2>5 DEF Unlock, TypeOK, coordVars
<1>12. ASSUME NEW m \in net, m.type = "AbortAck", HandleAbortAck(m) PROVE TypeOK'
  <2>1. m \in Message
    BY DEF TypeOK
  <2>2. m.txn \in Txn
    BY <2>1, MessageFields
  <2> QED
    BY <1>12, <2>2 DEF HandleAbortAck, TypeOK, States, nodeVars
<1>13. ASSUME NEW m \in net, Lose(m) PROVE TypeOK'
  BY <1>13 DEF Lose, TypeOK, coordVars, nodeVars
<1>14. CASE UNCHANGED vars
  BY <1>14 DEF vars, TypeOK
<1> QED
  BY <1>1, <1>2, <1>3, <1>4, <1>5, <1>7, <1>8, <1>9, <1>10, <1>11, <1>12, <1>13, <1>14
     DEF Next, Receive

\* Coordinator, participants and messages keep their types, whoever calls and
\* whatever is lost, late or repeated.
THEOREM TwoPhaseTypeCorrect == Spec => []TypeOK
  BY TypeInit, TypeNext, PTL DEF Spec

-----------------------------------------------------------------------------
(* Handlers and locks.                                                      *)

\* The steps of the handlers of requests.
NodeStep(m) ==
    \/ m.type = "PrepareRequest" /\ HandlePrepare(m) /\ ~ Handled(m)
    \/ m.type = "CommitRequest" /\ HandleCommit(m) /\ ~ Handled(m)
    \/ m.type = "AbortRequest" /\ HandleAbort(m) /\ ~ Handled(m)
    \/ PrepareLock(m) \/ PrepareStore(m) \/ CommitApply(m) \/ Unlock(m)

\* Other steps leave the nodes alone and take no request that is being handled
\* off the net.
LEMMA StepKinds ==
    ASSUME [Next]_vars
    PROVE  \/ \E m \in net : NodeStep(m)
           \/ UNCHANGED nodeVars /\ \A m \in net : Handled(m) => m \in net'
<1>1. ASSUME NEW t \in Txn, Begin(t) \/ Prepare(t) \/ Commit(t) \/ Abort(t)
      PROVE  UNCHANGED nodeVars /\ net \subseteq net'
  BY <1>1 DEF Begin, Prepare, Commit, Abort
<1>2. CASE CleanupCompleted \/ UNCHANGED vars
  BY <1>2 DEF CleanupCompleted, vars, nodeVars
<1>3. ASSUME NEW m \in net,
             \/ Lose(m)
             \/ ~ Handled(m) /\ (HandlePrepareResponse(m) \/ HandleCommitAck(m) \/ HandleAbortAck(m))
      PROVE  UNCHANGED nodeVars /\ \A p \in net : Handled(p) => p \in net'
  BY <1>3 DEF Lose, HandlePrepareResponse, HandleCommitAck, HandleAbortAck
<1>4. ASSUME NEW m \in net, Receive(m)
      PROVE  \/ NodeStep(m)
             \/ UNCHANGED nodeVars /\ \A p \in net : Handled(p) => p \in net'
  <2>1. CASE m.type = "PrepareRequest" \/ m.type = "CommitRequest" \/ m.type = "AbortRequest"
    BY <1>4, <2>1 DEF Receive, NodeStep
  <2>2. CASE m.type \notin {"PrepareRequest", "CommitRequest", "AbortRequest"}
    BY <1>3, <1>4, <2>2 DEF Receive
  <2> QED
    BY <2>1, <2>2
<1> QED
  BY <1>1, <1>2, <1>3, <1>4, Zenon DEF Next, NodeStep

\* A request stays on the net until its handler ends, and its handler is at one
\* step.
LEMMA CallNext == TypeOK /\ CallInv /\ [Next]_vars => CallInv'
<1> SUFFICES ASSUME TypeOK, CallInv, [Next]_vars PROVE CallInv'
  OBVIOUS
<1>1. CASE UNCHANGED nodeVars /\ \A m \in net : Handled(m) => m \in net'
  BY <1>1 DEF CallInv, Handled, nodeVars
<1>2. ASSUME NEW m \in net, NodeStep(m) PROVE CallInv'
  <2>1. \A p \in net : p # m => p \in net'
    BY <1>2 DEF NodeStep, HandlePrepare, PrepareLock, PrepareStore, HandleCommit, CommitApply,
                HandleAbort, Unlock
  <2>2. ASSUME ~ Handled(m), NEW r \in Steps, m \in net',
               \A s \in Steps : calls'[s] = IF s = r THEN calls[s] \cup {m} ELSE calls[s]
        PROVE  CallInv'
    BY <2>1, <2>2 DEF CallInv, Handled
  <2>3. ASSUME NEW r \in Steps, NEW q \in Steps, m \in calls[r], m \in net',
               \A s \in Steps : calls'[s] = IF s = r THEN calls[s] \ {m}
                                            ELSE IF s = q THEN calls[s] \cup {m} ELSE calls[s]
        PROVE  CallInv'
    <3>1. \A s \in Steps : m \in calls[s] => s = r
      BY <2>3 DEF CallInv
    <3>2. \A s \in Steps : m \in calls'[s] => s = q
      BY <2>3, <3>1
    <3>3. \A s \in Steps : \A p \in calls'[s] : p # m => p \in calls[s]
      BY <2>3
    <3>4. \A s \in Steps : calls'[s] \subseteq net'
      BY <2>1, <2>3, <3>3 DEF CallInv
    <3>5. ASSUME NEW s1 \in Steps, NEW s2 \in Steps, NEW p, p \in calls'[s1], p \in calls'[s2]
          PROVE  s1 = s2
      <4>1. CASE p = m
        BY <3>2, <3>5, <4>1
      <4>2. CASE p # m
        <5>1. p \in calls[s1] /\ p \in calls[s2]
          BY <3>3, <3>5, <4>2
        <5> QED
          BY <5>1 DEF CallInv
      <4> QED
        BY <4>1, <4>2
    <3> QED
      BY <3>4, <3>5 DEF CallInv
  <2>4. ASSUME NEW r \in Steps, m \in calls[r],
               \A s \in Steps : calls'[s] = IF s = r THEN calls[s] \ {m} ELSE calls[s]
        PROVE  CallInv'
    BY <2>1, <2>4 DEF CallInv
  <2>5. CASE HandlePrepare(m) /\ ~ Handled(m)
    <3>1. CASE BasicValidation(m.node, m.txn)
      <4>1. m \in net' /\ \A s \in Steps : calls'[s] = IF s = "lock" THEN calls[s] \cup {m} ELSE calls[s]
        BY <2>5, <3>1, CallsMove DEF HandlePrepare
      <4> QED
        BY <2>2, <2>5, <4>1 DEF Steps
    <3>2. CASE ~ BasicValidation(m.node, m.txn)
      BY <2>1, <2>5, <3>2 DEF HandlePrepare, CallInv, Handled
    <3> QED
      BY <3>1, <3>2
  <2>6. CASE HandleCommit(m) /\ ~ Handled(m)
    <3> DEFINE q == IF m.txn \in pending[m.node] THEN "apply" ELSE "unlock"
    <3>1. m \in net' /\ \A s \in Steps : calls'[s] = IF s = q THEN calls[s] \cup {m} ELSE calls[s]
      BY <2>6, CallsMove DEF HandleCommit
    <3>2. q \in Steps
      BY DEF Steps
    <3> HIDE DEF q
    <3> QED
      BY <2>2, <2>6, <3>1, <3>2
  <2>7. CASE HandleAbort(m) /\ ~ Handled(m)
    <3>1. m \in net' /\ \A s \in Steps : calls'[s] = IF s = "unlock" THEN calls[s] \cup {m} ELSE calls[s]
      BY <2>7, CallsMove DEF HandleAbort
    <3> QED
      BY <2>2, <2>7, <3>1 DEF Steps
  <2>8. CASE PrepareLock(m)
    <3>1. m \in net' /\ m \in calls["lock"]
      BY <2>8 DEF PrepareLock
    <3> QED
      BY <2>3, <2>8, <3>1, CallsMove DEF Steps
  <2>9. CASE CommitApply(m)
    <3>1. m \in net' /\ m \in calls["apply"]
      BY <2>9 DEF CommitApply
    <3> QED
      BY <2>3, <2>9, <3>1, CallsMove DEF Steps
  <2>10. CASE PrepareStore(m)
    <3>1. m \in calls["store"]
      BY <2>10 DEF PrepareStore
    <3> QED
      BY <2>4, <2>10, <3>1, CallsMove DEF Steps
  <2>11. CASE Unlock(m)
    <3>1. m \in calls["unlock"]
      BY <2>11 DEF Unlock
    <3> QED
      BY <2>4, <2>11, <3>1, CallsMove DEF Steps
  <2> QED
    BY <1>2, <2>5, <2>6, <2>7, <2>8, <2>9, <2>10, <2>11 DEF NodeStep
<1> QED
  BY <1>1, <1>2, StepKinds

\* The keys a transaction writes are among the keys of its operations.
LEMMA WriteKeysOfOps ==
    ASSUME NEW t \in Txn, NEW k \in WriteKeys(t)
    PROVE  \E o \in Ops[t] : o.key = k
  BY DEF WriteKeys

\* Which transactions have passed the validation of a node: a step adds the one
\* it validates.
LEMMA HeldGrows ==
    ASSUME TypeOK, NEW m \in net, NodeStep(m), NEW n \in Node
    PROVE  \/ Held(n)' \subseteq Held(n)
           \/ /\ HandlePrepare(m) /\ BasicValidation(m.node, m.txn) /\ n = m.node
              /\ Held(n)' = Held(n) \cup {m.txn}
<1>1. m.txn \in Txn /\ m.node \in Node
  BY MessageFields DEF TypeOK
<1>2. CASE HandlePrepare(m)
  <2>1. UNCHANGED pending
    BY <1>2 DEF HandlePrepare
  <2>2. CASE BasicValidation(m.node, m.txn)
    <3>1. calls'["lock"] = calls["lock"] \cup {m} /\ calls'["store"] = calls["store"]
      BY <1>2, <2>2, CallsMove DEF Steps
    <3>2. Preparing(n)' = Preparing(n) \cup (IF n = m.node THEN {m.txn} ELSE {})
      BY <3>1 DEF Preparing
    <3> QED
      BY <1>2, <2>1, <2>2, <3>2 DEF Held
  <2>3. CASE ~ BasicValidation(m.node, m.txn)
    BY <1>2, <2>1, <2>3 DEF HandlePrepare, Held, Preparing
  <2> QED
    BY <2>2, <2>3
<1>3. CASE PrepareLock(m)
  <2>1. calls'["lock"] \cup calls'["store"] = calls["lock"] \cup calls["store"]
    BY <1>3, CallsMove DEF PrepareLock, Steps
  <2>2. UNCHANGED pending
    BY <1>3 DEF PrepareLock
  <2> QED
    BY <2>1, <2>2 DEF Held, Preparing
<1>4. CASE PrepareStore(m)
  <2>1. calls'["lock"] = calls["lock"] /\ calls'["store"] = calls["store"] \ {m} /\ m \in calls["store"]
    BY <1>4, CallsMove DEF PrepareStore, Steps
  <2>2. pending'[n] = IF n = m.node THEN pending[n] \cup {m.txn} ELSE pending[n]
    BY <1>4 DEF PrepareStore, TypeOK
  <2>3. Preparing(n)' \subseteq Preparing(n)
    BY <2>1 DEF Preparing
  <2>4. n = m.node => m.txn \in Preparing(n)
    BY <2>1 DEF Preparing
  <2> QED
    BY <2>2, <2>3, <2>4 DEF Held
<1>5. CASE HandleCommit(m) \/ HandleAbort(m)
  <2>1. calls'["lock"] = calls["lock"] /\ calls'["store"] = calls["store"]
    BY <1>5, CallsMove DEF Steps
  <2>2. pending' = [pending EXCEPT ![m.node] = @ \ {m.txn}]
    BY <1>5 DEF HandleCommit, HandleAbort
  <2>3. pending'[n] \subseteq pending[n]
    BY <2>2 DEF TypeOK
  <2> QED
    BY <2>1, <2>3 DEF Held, Preparing
<1>6. CASE CommitApply(m) \/ Unlock(m)
  <2>1. calls'["lock"] = calls["lock"] /\ calls'["store"] = calls["store"]
    BY <1>6, CallsMove DEF Steps
  <2>2. UNCHANGED pending
    BY <1>6 DEF CommitApply, Unlock
  <2> QED
    BY <2>1, <2>2 DEF Held, Preparing
<1> QED
  BY <1>2, <1>3, <1>4, <1>5, <1>6 DEF NodeStep

LEMMA HeldNext == TypeOK /\ HeldInv /\ [Next]_vars => HeldInv'
<1> SUFFICES ASSUME TypeOK, HeldInv, [Next]_vars PROVE HeldInv'
  OBVIOUS
<1>1. CASE UNCHANGED nodeVars
  BY <1>1 DEF HeldInv, Held, Preparing, Conflict, WriteKeys, nodeVars
<1>2. ASSUME NEW m \in net, NodeStep(m) PROVE HeldInv'
  <2>1. m.txn \in Txn /\ m.node \in Node
    BY MessageFields DEF TypeOK
  <2>2. raced \subseteq raced'
    BY <1>2 DEF NodeStep, HandlePrepare, PrepareLock, PrepareStore, HandleCommit, CommitApply,
                HandleAbort, Unlock
  <2> SUFFICES ASSUME NEW n \in Node, NEW t \in Held(n)', NEW u \in Held(n)', t # u, Conflict(t, u)
               PROVE  {t, u} \in raced'
    BY DEF HeldInv, Conflict, WriteKeys
  <2>3. CASE t \in Held(n) /\ u \in Held(n)
    BY <2>2, <2>3 DEF HeldInv
  <2>4. ASSUME HandlePrepare(m), BasicValidation(m.node, m.txn), n = m.node,
               NEW w \in Held(n), w # m.txn, Conflict(m.txn, w)
        PROVE  {m.txn, w} \in raced'
    <3>1. w \notin pending[n]
      BY <2>4 DEF BasicValidation
    <3>2. w \in Preparing(n)
      BY <3>1 DEF Held
    <3> QED
      BY <2>4, <3>2 DEF HandlePrepare
  <2>5. CASE t \notin Held(n)
    <3>1. HandlePrepare(m) /\ BasicValidation(m.node, m.txn) /\ n = m.node /\ t = m.txn /\ u \in Held(n)
      BY <1>2, <2>5, HeldGrows
    <3> QED
      BY <2>4, <3>1
  <2>6. CASE u \notin Held(n)
    <3>1. HandlePrepare(m) /\ BasicValidation(m.node, m.txn) /\ n = m.node /\ u = m.txn /\ t \in Held(n)
      BY <1>2, <2>6, HeldGrows
    <3>2. Conflict(u, t) /\ {t, u} = {u, t}
      BY DEF Conflict
    <3> QED
      BY <2>4, <3>1, <3>2
  <2> QED
    BY <2>3, <2>5, <2>6
<1> QED
  BY <1>1, <1>2, StepKinds

\* No node holds two prepared transactions that write the same key, whatever the
\* caller does, unless it validated one while it was preparing the other:
\* basic_validation compares with what is locked and pending, and what another
\* handle_prepare has validated and not inserted yet is neither.
THEOREM KeysStayExclusive == Spec => []KeysExclusive
<1>1. Init => HeldInv
  BY DEF Init, HeldInv, Held, Preparing, Steps
<1>2. HeldInv => KeysExclusive
  BY DEF HeldInv, KeysExclusive, Held
<1> QED
  BY <1>1, <1>2, TypeInit, TypeNext, HeldNext, PTL DEF Spec

-----------------------------------------------------------------------------
(* What a step does to the operations nodes hold and have handed over.      *)

LEMMA SameReady ==
    ASSUME UNCHANGED <<pending, applied>>, calls'["apply"] = calls["apply"]
    PROVE  \A t : /\ Effects(t)' = Effects(t) /\ Applying(t)' = Applying(t)
                  /\ Ready(t)' = Ready(t)
  BY DEF Effects, Applying, Ready

\* These steps of a handler change neither.
LEMMA QuietReady ==
    ASSUME TypeOK, NEW m \in net, HandlePrepare(m) \/ PrepareLock(m) \/ Unlock(m)
    PROVE  \A t : /\ Effects(t)' = Effects(t) /\ Applying(t)' = Applying(t)
                  /\ Ready(t)' = Ready(t)
<1>1. UNCHANGED <<pending, applied>>
  BY DEF HandlePrepare, PrepareLock, Unlock
<1>2. calls'["apply"] = calls["apply"]
  BY CallsMove DEF Steps
<1> QED
  BY <1>1, <1>2, SameReady

LEMMA StoreReady ==
    ASSUME TypeOK, NEW m \in net, PrepareStore(m)
    PROVE  \A t \in Txn :
             /\ Effects(t)' = Effects(t) /\ Applying(t)' = Applying(t)
             /\ Ready(t)' = IF t = m.txn THEN Ready(t) \cup {m.node} ELSE Ready(t)
<1>1. m.txn \in Txn /\ m.node \in Node
  BY MessageFields DEF TypeOK
<1>2. calls'["apply"] = calls["apply"]
  BY CallsMove DEF Steps
<1>3. \A t \in Txn : Effects(t)' = Effects(t) /\ Applying(t)' = Applying(t)
  BY <1>2 DEF PrepareStore, Effects, Applying
<1>4. \A n \in Node : pending'[n] = IF n = m.node THEN pending[n] \cup {m.txn} ELSE pending[n]
  BY DEF PrepareStore, TypeOK
<1> QED
  BY <1>1, <1>3, <1>4 DEF Ready

\* A node gives up being ready when an abort finds the operations.
LEMMA AbortReady ==
    ASSUME TypeOK, NEW m \in net, HandleAbort(m)
    PROVE  \A t \in Txn :
             /\ Effects(t)' = Effects(t) /\ Applying(t)' = Applying(t)
             /\ Ready(t)' = IF t = m.txn /\ m.node \notin Effects(t) \cup Applying(t)
                              THEN Ready(t) \ {m.node} ELSE Ready(t)
<1>1. m.txn \in Txn /\ m.node \in Node
  BY MessageFields DEF TypeOK
<1>2. calls'["apply"] = calls["apply"]
  BY CallsMove DEF Steps
<1>3. \A t \in Txn : Effects(t)' = Effects(t) /\ Applying(t)' = Applying(t)
  BY <1>2 DEF HandleAbort, Effects, Applying
<1>4. \A n \in Node : pending'[n] = IF n = m.node THEN pending[n] \ {m.txn} ELSE pending[n]
  BY DEF HandleAbort, TypeOK
<1> QED
  BY <1>1, <1>3, <1>4 DEF Ready

\* The operations a commit takes out are on their way to the storage.
LEMMA TakeReady ==
    ASSUME TypeOK, NEW m \in net, HandleCommit(m)
    PROVE  \A t \in Txn :
             /\ Effects(t)' = Effects(t) /\ Ready(t)' = Ready(t)
             /\ Applying(t)' = IF t = m.txn /\ t \in pending[m.node]
                                 THEN Applying(t) \cup {m.node} ELSE Applying(t)
<1>1. m.txn \in Txn /\ m.node \in Node
  BY MessageFields DEF TypeOK
<1>2. calls'["apply"] = IF m.txn \in pending[m.node] THEN calls["apply"] \cup {m} ELSE calls["apply"]
  BY CallsMove DEF Steps
<1>3. \A t \in Txn : Effects(t)' = Effects(t)
  BY DEF HandleCommit, Effects
<1>4. \A t \in Txn : Applying(t)' = IF t = m.txn /\ t \in pending[m.node]
                                      THEN Applying(t) \cup {m.node} ELSE Applying(t)
  <2>1. CASE m.txn \in pending[m.node]
    BY <1>2, <2>1 DEF Applying
  <2>2. CASE m.txn \notin pending[m.node]
    BY <1>2, <2>2 DEF Applying
  <2> QED
    BY <2>1, <2>2
<1>5. \A n \in Node : pending'[n] = IF n = m.node THEN pending[n] \ {m.txn} ELSE pending[n]
  <2>1. pending' = [pending EXCEPT ![m.node] = @ \ {m.txn}]
    BY DEF HandleCommit
  <2> QED
    BY <2>1 DEF TypeOK
<1> QED
  BY <1>1, <1>3, <1>4, <1>5 DEF Ready

\* The storage of a node grows at its end.
LEMMA AppendedTxns ==
    ASSUME NEW s \in Seq(Txn), NEW u \in Txn
    PROVE  /\ Append(s, u) \in Seq(Txn)
           /\ Len(Append(s, u)) = Len(s) + 1
           /\ \A i \in 1..Len(s) : Append(s, u)[i] = s[i]
           /\ Append(s, u)[Len(s) + 1] = u
  OBVIOUS

LEMMA ApplyReady ==
    ASSUME TypeOK, NEW m \in net, CommitApply(m)
    PROVE  \A t \in Txn :
             /\ Effects(t)' = IF t = m.txn THEN Effects(t) \cup {m.node} ELSE Effects(t)
             /\ Applying(t)' \subseteq Applying(t)
             /\ Ready(t)' = Ready(t)
<1>1. m.txn \in Txn /\ m.node \in Node
  BY MessageFields DEF TypeOK
<1>2. ASSUME NEW t \in Txn
      PROVE  Effects(t)' = IF t = m.txn THEN Effects(t) \cup {m.node} ELSE Effects(t)
  <2>1. applied' = [applied EXCEPT ![m.node] = Append(@, m.txn)]
    BY DEF CommitApply
  <2>2. \A n \in Node : n # m.node => applied'[n] = applied[n]
    BY <2>1 DEF TypeOK
  <2>3. applied[m.node] \in Seq(Txn) /\ applied'[m.node] = Append(applied[m.node], m.txn)
    BY <1>1, <2>1 DEF TypeOK
  <2>4. Len(applied[m.node]) \in Nat
    BY <2>3
  <2>5. \A i : i \in 1..Len(applied'[m.node])
               <=> i \in 1..Len(applied[m.node]) \/ i = Len(applied[m.node]) + 1
    BY <1>1, <2>3, <2>4, AppendedTxns
  <2>6. (\E i \in 1..Len(applied'[m.node]) : applied'[m.node][i] = t)
          <=> t = m.txn \/ \E i \in 1..Len(applied[m.node]) : applied[m.node][i] = t
    BY <1>1, <2>3, <2>5, AppendedTxns
  <2>7. \A n \in Node : n \in Effects(t)' <=>
           IF n = m.node THEN t = m.txn \/ n \in Effects(t) ELSE n \in Effects(t)
    BY <2>2, <2>6 DEF Effects
  <2> QED
    BY <1>1, <2>7 DEF Effects
<1>3. calls'["apply"] = calls["apply"] \ {m} /\ m \in calls["apply"]
  BY CallsMove DEF CommitApply, Steps
<1>4. \A t \in Txn : /\ Applying(t)' \subseteq Applying(t)
                     /\ Applying(t) \subseteq Applying(t)' \cup (IF t = m.txn THEN {m.node} ELSE {})
  BY <1>3 DEF Applying
<1>5. m.node \in Applying(m.txn)
  BY <1>3 DEF Applying
<1>6. UNCHANGED pending
  BY DEF CommitApply
<1>7. ASSUME NEW t \in Txn PROVE Ready(t)' = Ready(t)
  BY <1>1, <1>2, <1>4, <1>5, <1>6 DEF Ready
<1> QED
  BY <1>2, <1>4, <1>7

\* A transaction has one commit request for a node.
LEMMA OneRequest ==
    ASSUME TypeOK, NEW m \in net, NEW p \in net, m.type = "CommitRequest",
           p.type = "CommitRequest", m.txn = p.txn, m.node = p.node
    PROVE  m = p
<1>1. p \in Message /\ m \in Message
  BY DEF TypeOK
<1> QED
  BY <1>1 DEF Message

-----------------------------------------------------------------------------
(* The invariant of the outcome.                                            *)

LEMMA CommitInit == Init => CommitInv
<1> SUFFICES ASSUME Init PROVE CommitInv
  OBVIOUS
<1>1. \A t : Effects(t) = {} /\ Applying(t) = {}
  BY DEF Init, Effects, Applying, Steps
<1>2. DecisionInv
  BY DEF Init, DecisionInv
<1>3. MessageInv
  BY DEF Init, MessageInv
<1>4. VoteInv
  BY <1>1 DEF Init, VoteInv
<1>5. StorageInv
  BY DEF Init, StorageInv
<1> QED
  BY <1>2, <1>3, <1>4, <1>5 DEF CommitInv

\* A step that leaves the participants alone, adds no message, takes no vote in
\* and sends nothing out.
LEMMA QuietStep ==
    ASSUME TypeOK, CommitInv, UNCHANGED <<nodeVars, vote, told>>, net' \subseteq net, DecisionInv'
    PROVE  CommitInv'
<1>1. \A t : Effects(t)' = Effects(t) /\ Applying(t)' = Applying(t) /\ Ready(t)' = Ready(t)
  BY SameReady DEF nodeVars
<1>2. MessageInv'
  BY <1>1 DEF MessageInv, CommitInv, nodeVars
<1>3. VoteInv'
  BY <1>1 DEF VoteInv, CommitInv
<1>4. StorageInv'
  BY <1>1 DEF StorageInv, CommitInv, nodeVars
<1> QED
  BY <1>2, <1>3, <1>4 DEF CommitInv

LEMMA BeginKeeps ==
    ASSUME TypeOK, CommitInv, NEW t \in Txn, Begin(t)
    PROVE  CommitInv'
<1>1. DecisionInv'
  BY DEF Begin, DecisionInv, CommitInv, TypeOK, AllPrepared
<1> QED
  BY <1>1, QuietStep DEF Begin

LEMMA PrepareKeeps ==
    ASSUME TypeOK, CommitInv, NEW t \in Txn, Prepare(t)
    PROVE  CommitInv'
<1>1. /\ \A u : Effects(u)' = Effects(u) /\ Applying(u)' = Applying(u) /\ Ready(u)' = Ready(u)
      /\ UNCHANGED calls
  BY SameReady DEF Prepare, nodeVars
<1>2. DecisionInv'
  BY DEF Prepare, DecisionInv, CommitInv, coordVars, AllPrepared
<1>3. MessageInv'
  <2>1. \A m \in net' : m \in net \/ m.type = "PrepareRequest"
    BY DEF Prepare
  <2> QED
    BY <1>1, <2>1 DEF Prepare, MessageInv, CommitInv
<1>4. VoteInv'
  BY <1>1 DEF Prepare, VoteInv, CommitInv, coordVars
<1>5. StorageInv'
  BY <1>1 DEF Prepare, StorageInv, CommitInv, nodeVars
<1> QED
  BY <1>2, <1>3, <1>4, <1>5 DEF CommitInv

\* The decision to commit: every vote is in, so every node is ready, and
\* nothing was decided before.
LEMMA CommitKeeps ==
    ASSUME TypeOK, CallInv, CommitInv, NEW t \in Txn, Commit(t)
    PROVE  CommitInv'
<1>1. /\ \A u : Effects(u)' = Effects(u) /\ Applying(u)' = Applying(u) /\ Ready(u)' = Ready(u)
      /\ UNCHANGED calls
  BY SameReady DEF Commit, nodeVars
<1>2. told[t] = {} /\ AllPrepared(vote[t])
  BY DEF Commit, CanCommit, CommitInv, DecisionInv
<1>3. told' = [told EXCEPT ![t] = {"commit"}]
  BY <1>2 DEF Commit
<1>4. Ready(t) = Node /\ Effects(t) = {} /\ Applying(t) = {}
  <2>1. \A n \in Node : n \in Ready(t)
    BY <1>2 DEF CommitInv, VoteInv, AllPrepared
  <2> QED
    <3>1. Ready(t) \subseteq Node
      BY MessageFields DEF Ready, Effects, Applying, TypeOK, Steps
    <3>2. Effects(t) = {} /\ Applying(t) = {}
      BY <1>2 DEF CommitInv, VoteInv
    <3> QED
      BY <2>1, <3>1, <3>2
<1>5. DecisionInv'
  <2>1. \A u \in Txn : u # t => told'[u] = told[u] /\ state'[u] = state[u]
    BY <1>3 DEF Commit, TypeOK
  <2>2. told'[t] = {"commit"} /\ state'[t] = "Committing"
    BY <1>3 DEF Commit, TypeOK
  <2>3. UNCHANGED vote
    BY DEF Commit
  <2> QED
    BY <2>1, <2>2, <2>3 DEF DecisionInv, CommitInv, AllPrepared
<1>6. MessageInv'
  <2>1. ASSUME NEW m \in net'
        PROVE  m \in net \/ (m.type = "CommitRequest" /\ m.txn = t)
    BY DEF Commit
  <2>2. \A m \in net : m.txn \in Txn
    BY MessageFields DEF TypeOK
  <2>3. \A u \in Txn : told[u] \subseteq told'[u]
    BY <1>2, <1>3 DEF TypeOK
  <2>4. "commit" \in told'[t]
    BY <1>3 DEF TypeOK
  <2>5. \A m \in net' : m \notin net =>
           /\ m.type = "CommitRequest" /\ m.txn = t
           /\ m.node \notin Effects(m.txn) /\ m \notin calls["unlock"]
    BY <1>4, <2>1 DEF CallInv, Steps
  <2> QED
    BY <1>1, <2>2, <2>3, <2>4, <2>5 DEF MessageInv, CommitInv
<1>7. VoteInv'
  <2>1. \A u \in Txn : u # t => told'[u] = told[u]
    BY <1>3 DEF TypeOK
  <2>2. told'[t] = {"commit"}
    BY <1>3 DEF TypeOK
  <2>3. UNCHANGED vote
    BY DEF Commit
  <2> QED
    BY <1>1, <1>2, <1>4, <2>1, <2>2, <2>3 DEF VoteInv, CommitInv
<1>8. StorageInv'
  BY <1>1 DEF Commit, StorageInv, CommitInv, nodeVars
<1> QED
  BY <1>5, <1>6, <1>7, <1>8 DEF CommitInv

\* The decision to abort, of a transaction that is not being committed.
LEMMA AbortKeeps ==
    ASSUME Careful, TypeOK, CommitInv, NEW t \in Txn, Abort(t)
    PROVE  CommitInv'
<1>1. /\ \A u : Effects(u)' = Effects(u) /\ Applying(u)' = Applying(u) /\ Ready(u)' = Ready(u)
      /\ UNCHANGED calls
  BY SameReady DEF Abort, nodeVars
<1>2. told[t] = {}
  <2>1. state[t] \in {"Preparing", "Prepared", "Aborting"}
    BY DEF Abort, Known, States, IsTerminal
  <2> QED
    BY <2>1 DEF Abort, CommitInv, DecisionInv, TypeOK
<1>3. told' = [told EXCEPT ![t] = {"abort"}]
  BY <1>2 DEF Abort
<1>4. Effects(t) = {} /\ Applying(t) = {}
  BY <1>2 DEF CommitInv, VoteInv
<1>5. DecisionInv'
  <2>1. \A u \in Txn : u # t => told'[u] = told[u] /\ state'[u] = state[u]
    BY <1>3 DEF Abort, TypeOK
  <2>2. told'[t] = {"abort"} /\ state'[t] = "Aborting"
    BY <1>3 DEF Abort, TypeOK
  <2>3. UNCHANGED vote
    BY DEF Abort
  <2> QED
    BY <2>1, <2>2, <2>3 DEF DecisionInv, CommitInv, AllPrepared
<1>6. MessageInv'
  <2>1. ASSUME NEW m \in net'
        PROVE  m \in net \/ (m.type = "AbortRequest" /\ m.txn = t)
    BY DEF Abort
  <2>2. \A m \in net : m.txn \in Txn
    BY MessageFields DEF TypeOK
  <2>3. \A u \in Txn : told[u] \subseteq told'[u]
    BY <1>2, <1>3 DEF TypeOK
  <2>4. "abort" \in told'[t]
    BY <1>3 DEF TypeOK
  <2> QED
    BY <1>1, <2>1, <2>2, <2>3, <2>4 DEF MessageInv, CommitInv
<1>7. VoteInv'
  <2>1. \A u \in Txn : u # t => told'[u] = told[u]
    BY <1>3 DEF TypeOK
  <2>2. told'[t] = {"abort"}
    BY <1>3 DEF TypeOK
  <2>3. UNCHANGED vote
    BY DEF Abort
  <2> QED
    BY <1>1, <1>2, <1>4, <2>1, <2>2, <2>3 DEF VoteInv, CommitInv
<1>8. StorageInv'
  BY <1>1 DEF Abort, StorageInv, CommitInv, nodeVars
<1> QED
  BY <1>5, <1>6, <1>7, <1>8 DEF CommitInv

LEMMA CleanupKeeps ==
    ASSUME TypeOK, CommitInv, CleanupCompleted
    PROVE  CommitInv'
<1>1. DecisionInv'
  BY DEF CleanupCompleted, DecisionInv, CommitInv, TypeOK, IsTerminal
<1> QED
  BY <1>1, QuietStep DEF CleanupCompleted

-----------------------------------------------------------------------------
(* The invariant of the outcome: messages.                                  *)

\* The handling of a prepare request decides nothing; a node that agrees is
\* ready, and says so.
LEMMA HandlePrepareKeeps ==
    ASSUME TypeOK, CommitInv, NEW m \in net, m.type = "PrepareRequest",
           HandlePrepare(m) \/ PrepareLock(m) \/ PrepareStore(m)
    PROVE  CommitInv'
<1>1. m.txn \in Txn /\ m.node \in Node
  BY MessageFields DEF TypeOK
<1>2. \A t \in Txn : /\ Effects(t)' = Effects(t) /\ Applying(t)' = Applying(t)
                     /\ Ready(t) \subseteq Ready(t)'
  BY QuietReady, StoreReady
<1>3. PrepareStore(m) => m.node \in Ready(m.txn)'
  BY <1>1, StoreReady
<1>4. UNCHANGED <<state, vote, told, committed, applied>>
  BY DEF HandlePrepare, PrepareLock, PrepareStore, coordVars
<1>5. DecisionInv'
  BY <1>4 DEF DecisionInv, CommitInv, AllPrepared
<1>6. calls'["unlock"] = calls["unlock"]
  BY CallsMove DEF Steps
<1>7. MessageInv'
  <2>1. \A p \in net : p.txn \in Txn
    BY MessageFields DEF TypeOK
  <2>2. \A p \in net' : \/ p \in net
                        \/ p = Reply(m, "Abort")
                        \/ p = Reply(m, "Commit") /\ PrepareStore(m)
    BY DEF HandlePrepare, PrepareLock, PrepareStore
  <2>3. \A p \in net' : p \notin net =>
           /\ p.type = "PrepareResponse" /\ p.txn = m.txn /\ p.node = m.node
           /\ p.vote = "Commit" => m.node \in Ready(m.txn)'
    BY <1>3, <2>2 DEF Reply
  <2> QED
    BY <1>2, <1>4, <1>6, <2>1, <2>3 DEF MessageInv, CommitInv
<1>8. VoteInv'
  <2>1. \A t \in Txn : Ready(t)' \subseteq Ready(t) \cup Node
    BY <1>1, QuietReady, StoreReady
  <2> QED
    BY <1>2, <1>4, <2>1 DEF VoteInv, CommitInv
<1>9. StorageInv'
  BY <1>2, <1>4 DEF StorageInv, CommitInv, TypeOK
<1> QED
  BY <1>5, <1>7, <1>8, <1>9 DEF CommitInv

\* A vote is recorded while nothing is decided.
LEMMA HandlePrepareResponseKeeps ==
    ASSUME Careful, TypeOK, CommitInv, NEW m \in net, m.type = "PrepareResponse",
           HandlePrepareResponse(m)
    PROVE  CommitInv'
<1>1. m.txn \in Txn /\ m.node \in Node /\ m.vote \in {"Commit", "Abort"}
  BY MessageFields DEF TypeOK
<1>2. net' \subseteq net /\ UNCHANGED <<nodeVars, told>>
  BY DEF HandlePrepareResponse
<1>3. CASE UNCHANGED coordVars
  <2>1. DecisionInv'
    BY <1>2, <1>3 DEF DecisionInv, CommitInv, coordVars, AllPrepared
  <2> QED
    BY <1>2, <1>3, <2>1, QuietStep DEF coordVars
<1>4. CASE state[m.txn] = "Preparing" /\ RecordVote(m.txn, m.node, m.vote)
  <2>1. \A t : Effects(t)' = Effects(t) /\ Applying(t)' = Applying(t) /\ Ready(t)' = Ready(t)
    BY <1>2, SameReady DEF nodeVars
  <2>2. told[m.txn] = {}
    BY <1>1, <1>4 DEF CommitInv, DecisionInv
  <2>3. \A t \in Txn : t # m.txn => state'[t] = state[t] /\ vote'[t] = vote[t]
    BY <1>4 DEF RecordVote, TypeOK
  <2>4. state'[m.txn] = "Prepared" => AllPrepared(vote'[m.txn])
    BY <1>1, <1>4 DEF RecordVote, TypeOK
  <2>5. \A n \in Node : vote'[m.txn][n] = IF n = m.node THEN m.vote ELSE vote[m.txn][n]
    BY <1>1, <1>4 DEF RecordVote, TypeOK
  <2>6. DecisionInv'
    BY <1>2, <2>2, <2>3, <2>4 DEF DecisionInv, CommitInv, AllPrepared
  <2>7. MessageInv'
    BY <1>2, <2>1 DEF MessageInv, CommitInv, nodeVars
  <2>8. VoteInv'
    <3>1. m.vote = "Commit" => m.node \in Ready(m.txn) \/ "abort" \in told[m.txn]
      BY DEF MessageInv, CommitInv
    <3> QED
      BY <1>2, <2>1, <2>3, <2>5, <3>1 DEF VoteInv, CommitInv
  <2>9. StorageInv'
    BY <1>2, <2>1 DEF StorageInv, CommitInv, nodeVars
  <2> QED
    BY <2>6, <2>7, <2>8, <2>9 DEF CommitInv
<1> QED
  BY <1>3, <1>4 DEF HandlePrepareResponse

\* A node that is told to commit holds the operations.
LEMMA CommitFinds ==
    ASSUME TypeOK, CallInv, CommitInv, NEW m \in net, m.type = "CommitRequest", ~ Handled(m)
    PROVE  m.txn \in pending[m.node]
<1>1. m.txn \in Txn /\ m.node \in Node
  BY MessageFields DEF TypeOK
<1>2. m.node \notin Effects(m.txn)
  BY DEF MessageInv, CommitInv, Handled, Steps
<1>3. m.node \notin Applying(m.txn)
  <2> SUFFICES ASSUME NEW p \in calls["apply"], p.txn = m.txn, p.node = m.node PROVE FALSE
    BY DEF Applying
  <2>1. p \in net /\ p.type = "CommitRequest"
    BY DEF CallInv, TypeOK, Steps
  <2>2. p = m
    BY <2>1, OneRequest
  <2> QED
    BY <2>2 DEF Handled, Steps
<1>4. m.node \in Ready(m.txn)
  BY <1>1 DEF VoteInv, MessageInv, CommitInv
<1> QED
  BY <1>2, <1>3, <1>4 DEF Ready

LEMMA HandleCommitKeeps ==
    ASSUME TypeOK, CallInv, CommitInv, NEW m \in net, m.type = "CommitRequest", ~ Handled(m),
           HandleCommit(m)
    PROVE  CommitInv'
<1>1. m.txn \in Txn /\ m.node \in Node /\ m.txn \in pending[m.node]
  BY MessageFields, CommitFinds DEF TypeOK
<1>2. \A t \in Txn : /\ Ready(t)' = Ready(t) /\ Effects(t)' = Effects(t)
                     /\ t # m.txn => Applying(t)' = Applying(t)
  BY TakeReady
<1>3. UNCHANGED <<state, vote, told, committed, applied, net>>
  BY DEF HandleCommit, coordVars
<1>4. calls'["unlock"] = calls["unlock"]
  BY <1>1, CallsMove DEF Steps
<1>5. DecisionInv'
  BY <1>3 DEF DecisionInv, CommitInv, AllPrepared
<1>6. MessageInv'
  <2>1. \A p \in net : p.txn \in Txn
    BY MessageFields DEF TypeOK
  <2> QED
    BY <1>2, <1>3, <1>4, <2>1 DEF MessageInv, CommitInv
<1>7. VoteInv'
  <2>1. "commit" \in told[m.txn]
    BY DEF MessageInv, CommitInv
  <2> QED
    BY <1>2, <1>3, <2>1 DEF VoteInv, CommitInv
<1>8. StorageInv'
  BY <1>2, <1>3 DEF StorageInv, CommitInv, TypeOK
<1> QED
  BY <1>5, <1>6, <1>7, <1>8 DEF CommitInv

\* The operations are handed to a storage that has not had them.
LEMMA CommitApplyKeeps ==
    ASSUME TypeOK, CallInv, CommitInv, NEW m \in net, CommitApply(m)
    PROVE  CommitInv'
<1>1. m.txn \in Txn /\ m.node \in Node
  BY MessageFields DEF TypeOK
<1>2. m.type = "CommitRequest" /\ m \in calls["apply"] /\ m \notin calls["unlock"]
  BY DEF CommitApply, TypeOK, CallInv, Steps
<1>3. "commit" \in told[m.txn] /\ m.node \notin Effects(m.txn)
  BY <1>2 DEF MessageInv, CommitInv
<1>4. \A t \in Txn : /\ Ready(t)' = Ready(t) /\ Applying(t)' \subseteq Applying(t)
                     /\ Effects(t)' = IF t = m.txn THEN Effects(t) \cup {m.node} ELSE Effects(t)
  BY ApplyReady
<1>5. UNCHANGED <<state, vote, told, committed, net>>
  BY DEF CommitApply, coordVars
<1>6. DecisionInv'
  BY <1>5 DEF DecisionInv, CommitInv, AllPrepared
<1>7. MessageInv'
  <2>1. calls'["unlock"] = calls["unlock"] \cup {m}
    BY CallsMove DEF Steps
  <2> SUFFICES ASSUME NEW p \in net
               PROVE  /\ p.type \in {"CommitRequest", "CommitAck"} => "commit" \in told[p.txn]
                      /\ p.type \in {"AbortRequest", "AbortAck"} => "abort" \in told[p.txn]
                      /\ p.type = "CommitRequest" =>
                           (p.node \in Effects(p.txn)' <=> p \in calls'["unlock"])
                      /\ p.type = "PrepareResponse" /\ p.vote = "Commit"
                           => p.node \in Ready(p.txn)' \/ "abort" \in told[p.txn]
    BY <1>5 DEF MessageInv
  <2>2. p.txn \in Txn
    BY MessageFields DEF TypeOK
  <2>3. p.type = "CommitRequest" => (p.node \in Effects(p.txn)' <=> p \in calls'["unlock"])
    <3>1. CASE p = m
      BY <1>1, <1>4, <2>1, <3>1
    <3>2. CASE p # m /\ p.type = "CommitRequest"
      <4>1. p.txn # m.txn \/ p.node # m.node
        BY <1>2, <3>2, OneRequest
      <4>2. p.node \in Effects(p.txn)' <=> p.node \in Effects(p.txn)
        BY <1>4, <2>2, <4>1
      <4> QED
        BY <2>1, <3>2, <4>2 DEF MessageInv, CommitInv
    <3> QED
      BY <3>1, <3>2
  <2> QED
    BY <1>4, <2>2, <2>3 DEF MessageInv, CommitInv
<1>8. VoteInv'
  <2>1. \A t \in Txn : "commit" \notin told[t] => Applying(t)' = {} /\ Effects(t)' = {}
    BY <1>3, <1>4 DEF VoteInv, CommitInv
  <2> QED
    BY <1>4, <1>5, <2>1 DEF VoteInv, CommitInv
<1>9. StorageInv'
  <2>1. \A n \in Node : n # m.node => applied'[n] = applied[n]
    BY DEF CommitApply, TypeOK
  <2>2. applied'[m.node] = Append(applied[m.node], m.txn)
    BY <1>1 DEF CommitApply, TypeOK
  <2>3. \A n \in Node : committed[n] \subseteq Txn
    BY DEF TypeOK
  <2>4. \A n \in Node : \A t \in committed'[n] : n \in Effects(t)'
    BY <1>4, <1>5, <2>3 DEF StorageInv, CommitInv
  <2>5. applied[m.node] \in Seq(Txn) /\ Len(applied[m.node]) \in Nat
    BY <1>1 DEF TypeOK
  <2>6. \A i \in 1..Len(applied[m.node]) : applied[m.node][i] # m.txn
    BY <1>1, <1>3 DEF Effects
  <2>7. \A i, j \in 1..Len(applied'[m.node]) :
           applied'[m.node][i] = applied'[m.node][j] => i = j
    <3>1. \A i : i \in 1..Len(applied'[m.node])
                 => i \in 1..Len(applied[m.node]) \/ i = Len(applied[m.node]) + 1
      BY <1>1, <2>2, <2>5, AppendedTxns
    <3>2. /\ \A i \in 1..Len(applied[m.node]) : applied'[m.node][i] = applied[m.node][i]
          /\ applied'[m.node][Len(applied[m.node]) + 1] = m.txn
      BY <1>1, <2>2, <2>5, AppendedTxns
    <3>3. \A i, j \in 1..Len(applied[m.node]) : applied[m.node][i] = applied[m.node][j] => i = j
      BY <1>1 DEF StorageInv, CommitInv
    <3> QED
      BY <2>6, <3>1, <3>2, <3>3
  <2> QED
    BY <2>1, <2>4, <2>7 DEF StorageInv, CommitInv
<1> QED
  BY <1>6, <1>7, <1>8, <1>9 DEF CommitInv

\* A handler that removes the keys of a transaction has handed its operations
\* over, or the transaction is aborted.
LEMMA UnlockKeeps ==
    ASSUME TypeOK, CallInv, CommitInv, NEW m \in net, Unlock(m)
    PROVE  CommitInv'
<1>1. m.txn \in Txn /\ m.node \in Node /\ m \in calls["unlock"]
  BY MessageFields DEF TypeOK, Unlock
<1>2. m.type \in {"CommitRequest", "AbortRequest"}
  BY <1>1 DEF TypeOK
<1>3. /\ m.type = "CommitRequest" => "commit" \in told[m.txn] /\ m.node \in Effects(m.txn)
      /\ m.type = "AbortRequest" => "abort" \in told[m.txn]
  BY <1>1 DEF MessageInv, CommitInv
<1>4. \A t : Effects(t)' = Effects(t) /\ Applying(t)' = Applying(t) /\ Ready(t)' = Ready(t)
  BY QuietReady
<1>5. UNCHANGED <<state, vote, told, applied>>
  BY DEF Unlock, coordVars
<1>6. DecisionInv'
  BY <1>5 DEF DecisionInv, CommitInv, AllPrepared
<1>7. MessageInv'
  <2>1. calls'["unlock"] = calls["unlock"] \ {m}
    BY CallsMove DEF Steps
  <2>2. \A p \in net' :
           \/ p \in net /\ p # m
           \/ /\ p.txn = m.txn
              /\ p.type = IF m.type = "CommitRequest" THEN "CommitAck" ELSE "AbortAck"
    BY DEF Unlock
  <2> QED
    BY <1>2, <1>3, <1>4, <1>5, <2>1, <2>2 DEF MessageInv, CommitInv
<1>8. VoteInv'
  BY <1>4, <1>5 DEF VoteInv, CommitInv
<1>9. StorageInv'
  <2>1. \A n \in Node : \A t \in committed'[n] :
           t \in committed[n] \/ (n = m.node /\ t = m.txn /\ m.type = "CommitRequest")
    BY <1>1 DEF Unlock, TypeOK
  <2> QED
    BY <1>3, <1>4, <1>5, <2>1 DEF StorageInv, CommitInv
<1> QED
  BY <1>6, <1>7, <1>8, <1>9 DEF CommitInv

\* A node gives up being ready only after an abort decision.
LEMMA HandleAbortKeeps ==
    ASSUME TypeOK, CommitInv, NEW m \in net, m.type = "AbortRequest", HandleAbort(m)
    PROVE  CommitInv'
<1>1. m.txn \in Txn /\ m.node \in Node
  BY MessageFields DEF TypeOK
<1>2. "abort" \in told[m.txn] /\ "commit" \notin told[m.txn]
  <2>1. "abort" \in told[m.txn]
    BY DEF MessageInv, CommitInv
  <2>2. told[m.txn] # {"commit", "abort"} /\ told[m.txn] \subseteq {"commit", "abort"}
    BY <1>1 DEF DecisionInv, CommitInv, TypeOK
  <2>3. CASE "commit" \in told[m.txn]
    BY <2>1, <2>2, <2>3, Zenon
  <2> QED
    BY <2>1, <2>3
<1>3. \A t \in Txn : /\ Effects(t)' = Effects(t) /\ Applying(t)' = Applying(t)
                     /\ t # m.txn => Ready(t)' = Ready(t)
  BY AbortReady
<1>4. UNCHANGED <<state, vote, told, committed, applied, net>>
  BY DEF HandleAbort, coordVars
<1>5. DecisionInv'
  BY <1>4 DEF DecisionInv, CommitInv, AllPrepared
<1>6. MessageInv'
  <2>1. \A p \in net : p.txn \in Txn
    BY MessageFields DEF TypeOK
  <2>2. \A p \in net : p.type = "CommitRequest" => (p \in calls'["unlock"] <=> p \in calls["unlock"])
    BY CallsMove DEF Steps
  <2> QED
    BY <1>2, <1>3, <1>4, <2>1, <2>2 DEF MessageInv, CommitInv
<1>7. VoteInv'
  BY <1>2, <1>3, <1>4 DEF VoteInv, CommitInv
<1>8. StorageInv'
  BY <1>3, <1>4 DEF StorageInv, CommitInv, TypeOK
<1> QED
  BY <1>5, <1>6, <1>7, <1>8 DEF CommitInv

LEMMA HandleCommitAckKeeps ==
    ASSUME TypeOK, CommitInv, NEW m \in net, m.type = "CommitAck", HandleCommitAck(m)
    PROVE  CommitInv'
<1>1. m.txn \in Txn
  BY MessageFields DEF TypeOK
<1>2. \A t \in Txn : state'[t] = state[t] \/ state'[t] = "Committed"
  BY <1>1 DEF HandleCommitAck, TypeOK
<1>3. DecisionInv'
  BY <1>2 DEF HandleCommitAck, DecisionInv, CommitInv, AllPrepared
<1> QED
  BY <1>3, QuietStep DEF HandleCommitAck

LEMMA HandleAbortAckKeeps ==
    ASSUME TypeOK, CommitInv, NEW m \in net, m.type = "AbortAck", HandleAbortAck(m)
    PROVE  CommitInv'
<1>1. m.txn \in Txn
  BY MessageFields DEF TypeOK
<1>2. \A t \in Txn : state'[t] = state[t] \/ state'[t] = "Aborted"
  BY <1>1 DEF HandleAbortAck, TypeOK
<1>3. DecisionInv'
  BY <1>2 DEF HandleAbortAck, DecisionInv, CommitInv, AllPrepared
<1> QED
  BY <1>3, QuietStep DEF HandleAbortAck

LEMMA LoseKeeps ==
    ASSUME TypeOK, CommitInv, NEW m \in net, Lose(m)
    PROVE  CommitInv'
<1>1. DecisionInv'
  BY DEF Lose, DecisionInv, CommitInv, coordVars, AllPrepared
<1> QED
  BY <1>1, QuietStep DEF Lose, coordVars

LEMMA CommitNext ==
    ASSUME Careful
    PROVE  TypeOK /\ CallInv /\ CommitInv /\ [Next]_vars => CommitInv'
<1> SUFFICES ASSUME TypeOK, CallInv, CommitInv, [Next]_vars PROVE CommitInv'
  OBVIOUS
<1>1. CASE UNCHANGED vars
  <2>1. DecisionInv'
    BY <1>1 DEF vars, DecisionInv, CommitInv, AllPrepared
  <2> QED
    BY <1>1, <2>1, QuietStep DEF vars, nodeVars
<1>2. ASSUME NEW m \in net, Receive(m) PROVE CommitInv'
  BY <1>2, HandlePrepareKeeps, HandlePrepareResponseKeeps, HandleCommitKeeps,
     HandleCommitAckKeeps, HandleAbortKeeps, HandleAbortAckKeeps
     DEF Receive
<1>3. ASSUME NEW m \in net, PrepareLock(m) \/ PrepareStore(m) PROVE CommitInv'
  <2>1. m.type = "PrepareRequest"
    BY <1>3 DEF PrepareLock, PrepareStore, TypeOK
  <2> QED
    BY <1>3, <2>1, HandlePrepareKeeps
<1> QED
  BY <1>1, <1>2, <1>3, BeginKeeps, PrepareKeeps, CommitKeeps, AbortKeeps, CleanupKeeps, LoseKeeps,
     CommitApplyKeeps, UnlockKeeps
     DEF Next

\* The inductive invariant of the outcome, for a careful caller.
THEOREM CommitInvariant ==
    ASSUME Careful
    PROVE  Spec => [](TypeOK /\ CallInv /\ CommitInv)
<1>1. Init => CallInv
  BY DEF Init, CallInv
<1> QED
  BY <1>1, TypeInit, TypeNext, CallNext, CommitInit, CommitNext, PTL DEF Spec

\* What a node records as committed it has handed to its storage: the
\* operations were there when the request came.
THEOREM CommittedApplied ==
    ASSUME Careful
    PROVE  Spec => []CommittedIsApplied
<1>1. CommitInv => CommittedIsApplied
  BY DEF CommitInv, StorageInv, CommittedIsApplied
<1> QED
  BY <1>1, CommitInvariant, PTL

\* No transaction is both committed and aborted, and no storage takes one over
\* twice.
THEOREM OutcomeNotMixed ==
    ASSUME Careful
    PROVE  Spec => []NoMixedOutcome
<1>1. ASSUME TypeOK, CommitInv, NEW t \in Txn, NEW n \in Node
      PROVE  Cardinality({i \in 1..Len(applied[n]) : applied[n][i] = t}) <= 1
  <2> DEFINE S == {i \in 1..Len(applied[n]) : applied[n][i] = t}
  <2>1. \A i, j \in S : i = j
    BY <1>1 DEF CommitInv, StorageInv
  <2> SUFFICES Cardinality(S) <= 1
    OBVIOUS
  <2> HIDE DEF S
  <2>2. CASE S = {}
    <3>1. Cardinality(S) = 0
      BY <2>2, FS_EmptySet
    <3> QED
      BY <3>1
  <2>3. ASSUME NEW i \in S PROVE Cardinality(S) <= 1
    <3>1. S = {i}
      BY <2>1
    <3>2. Cardinality(S) = 1
      BY <3>1, FS_Singleton
    <3> QED
      BY <3>2
  <2> QED
    BY <2>2, <2>3
<1>2. TypeOK /\ CommitInv => NoMixedOutcome
  BY <1>1 DEF CommitInv, DecisionInv, NoMixedOutcome
<1> QED
  BY <1>2, CommitInvariant, PTL

-----------------------------------------------------------------------------
(* The order in which conflicting transactions reach the storage.           *)

\* Only a decision changes what the participants are told.
LEMMA ToldKinds ==
    ASSUME TypeOK, [Next]_vars
    PROVE  \/ UNCHANGED told
           \/ \E t \in Txn : Commit(t) \/ Abort(t)
<1>1. ASSUME NEW m \in net, Receive(m) PROVE UNCHANGED told
  BY <1>1 DEF Receive, HandlePrepare, HandlePrepareResponse, HandleCommit, HandleCommitAck,
              HandleAbort, HandleAbortAck
<1>2. ASSUME NEW m \in net, Lose(m) \/ PrepareLock(m) \/ PrepareStore(m) \/ CommitApply(m) \/ Unlock(m)
      PROVE  UNCHANGED told
  BY <1>2 DEF Lose, PrepareLock, PrepareStore, CommitApply, Unlock
<1>3. ASSUME NEW t \in Txn, Begin(t) \/ Prepare(t) PROVE UNCHANGED told
  BY <1>3 DEF Begin, Prepare
<1>4. CASE CleanupCompleted \/ UNCHANGED vars
  BY <1>4 DEF CleanupCompleted, vars
<1> QED
  BY <1>1, <1>2, <1>3, <1>4 DEF Next

LEMMA ToldGrows ==
    ASSUME TypeOK, [Next]_vars, NEW t \in Txn
    PROVE  told[t] \subseteq told'[t]
<1>1. ASSUME NEW u \in Txn, Commit(u) \/ Abort(u) PROVE told[t] \subseteq told'[t]
  <2>1. \E d : told' = [told EXCEPT ![u] = @ \cup {d}]
    BY <1>1 DEF Commit, Abort
  <2> QED
    BY <2>1 DEF TypeOK
<1> QED
  BY <1>1, ToldKinds

LEMMA NodeTold ==
    ASSUME NEW m, NodeStep(m)
    PROVE  UNCHANGED told /\ raced \subseteq raced'
  BY DEF NodeStep, HandlePrepare, PrepareLock, PrepareStore, HandleCommit, CommitApply,
         HandleAbort, Unlock

\* A node that holds the operations of a transaction has its keys locked.
LEMMA LockNext ==
    ASSUME TypeOK, CommitInv, LockInv, [Next]_vars
    PROVE  LockInv'
<1> SUFFICES ASSUME NEW t \in Txn, NEW n \in Node, "abort" \notin told'[t], n \notin Effects(t)',
                    n \in Ready(t)' \/ t \in Storing(n)'
             PROVE  t \in locked'[n]
  BY DEF LockInv
<1>1. "abort" \notin told[t]
  BY ToldGrows
<1>2. ASSUME n \notin Effects(t), n \in Ready(t) \/ t \in Storing(n), locked[n] \subseteq locked'[n]
      PROVE  t \in locked'[n]
  BY <1>1, <1>2 DEF LockInv
<1>3. CASE UNCHANGED nodeVars
  <2>1. Effects(t)' = Effects(t) /\ Ready(t)' = Ready(t) /\ Storing(n)' = Storing(n)
    BY <1>3, SameReady DEF nodeVars, Storing
  <2> QED
    BY <1>2, <1>3, <2>1 DEF nodeVars
<1>4. ASSUME NEW m \in net, NodeStep(m) PROVE t \in locked'[n]
  <2>1. m.txn \in Txn /\ m.node \in Node
    BY MessageFields DEF TypeOK
  <2>2. CASE HandlePrepare(m)
    <3>1. Effects(t)' = Effects(t) /\ Ready(t)' = Ready(t)
      BY <2>2, QuietReady
    <3>2. calls'["store"] = calls["store"]
      BY <2>2, CallsMove DEF Steps
    <3>3. Storing(n)' = Storing(n) /\ UNCHANGED locked
      BY <2>2, <3>2 DEF Storing, HandlePrepare
    <3> QED
      BY <1>2, <3>1, <3>3
  <2>3. CASE PrepareLock(m)
    <3>1. Effects(t)' = Effects(t) /\ Ready(t)' = Ready(t)
      BY <2>3, QuietReady
    <3>2. calls'["store"] = calls["store"] \cup {m}
      BY <2>3, CallsMove DEF Steps
    <3>3. locked'[n] = IF n = m.node THEN locked[n] \cup {m.txn} ELSE locked[n]
      BY <2>3 DEF PrepareLock, TypeOK
    <3>4. CASE t \in Storing(n)' /\ t \notin Storing(n)
      <4>1. n = m.node /\ t = m.txn
        BY <3>2, <3>4 DEF Storing
      <4> QED
        BY <3>3, <4>1
    <3>5. CASE ~ (t \in Storing(n)' /\ t \notin Storing(n))
      BY <1>2, <3>1, <3>3, <3>5
    <3> QED
      BY <3>4, <3>5
  <2>4. CASE PrepareStore(m)
    <3>1. /\ Effects(t)' = Effects(t)
          /\ Ready(t)' = IF t = m.txn THEN Ready(t) \cup {m.node} ELSE Ready(t)
      BY <2>4, StoreReady
    <3>2. calls'["store"] \subseteq calls["store"] /\ m \in calls["store"]
      BY <2>4, CallsMove DEF PrepareStore, Steps
    <3>3. Storing(n)' \subseteq Storing(n) /\ m.txn \in Storing(m.node)
      BY <3>2 DEF Storing
    <3>4. UNCHANGED locked
      BY <2>4 DEF PrepareStore
    <3> QED
      BY <1>2, <3>1, <3>3, <3>4
  <2>5. CASE HandleCommit(m) \/ CommitApply(m) \/ HandleAbort(m)
    <3>1. Effects(t) \subseteq Effects(t)' /\ Ready(t)' \subseteq Ready(t)
      BY <2>5, TakeReady, ApplyReady, AbortReady
    <3>2. calls'["store"] = calls["store"]
      BY <2>5, CallsMove DEF Steps
    <3>3. Storing(n)' = Storing(n)
      BY <3>2 DEF Storing
    <3>4. UNCHANGED locked
      BY <2>5 DEF HandleCommit, CommitApply, HandleAbort
    <3> QED
      BY <1>2, <3>1, <3>3, <3>4
  <2>6. CASE Unlock(m)
    <3>1. Effects(t)' = Effects(t) /\ Ready(t)' = Ready(t)
      BY <2>6, QuietReady
    <3>2. calls'["store"] = calls["store"] /\ m \in calls["unlock"]
      BY <2>6, CallsMove DEF Unlock, Steps
    <3>3. Storing(n)' = Storing(n)
      BY <3>2 DEF Storing
    <3>4. locked'[n] = IF n = m.node THEN locked[n] \ {m.txn} ELSE locked[n]
      BY <2>6 DEF Unlock, TypeOK
    <3>5. \/ m.type = "CommitRequest" /\ m.node \in Effects(m.txn)
          \/ m.type = "AbortRequest" /\ "abort" \in told[m.txn]
      BY <3>2 DEF TypeOK, CommitInv, MessageInv
    <3>6. ~ (n = m.node /\ t = m.txn)
      BY <1>1, <3>1, <3>5
    <3>7. t \in locked[n]
      BY <1>1, <3>1, <3>3 DEF LockInv
    <3> QED
      BY <3>4, <3>6, <3>7
  <2> QED
    BY <1>4, <2>2, <2>3, <2>4, <2>5, <2>6 DEF NodeStep
<1> QED
  BY <1>3, <1>4, StepKinds

\* t stays first when nodes only give transactions up or take them out to hand
\* them over.
LEMMA FirstShrinks ==
    ASSUME NEW t \in Txn, NEW u \in Txn, First(t, u), UNCHANGED applied,
           \A n \in Node : Held(n)' \subseteq Held(n),
           \A n \in Node : n \in Applying(u)' => n \in Applying(u) \/ u \in Held(n)
    PROVE  First(t, u)'
<1>1. Effects(t)' = Effects(t) /\ Effects(u)' = Effects(u)
  BY DEF Effects
<1>2. \A n \in Node : Precedes(n, t, u)' = Precedes(n, t, u)
  BY DEF Precedes
<1> QED
  BY <1>1, <1>2 DEF First

LEMMA FirstQuiet ==
    ASSUME NEW t \in Txn, NEW u \in Txn, First(t, u), UNCHANGED nodeVars
    PROVE  First(t, u)'
<1>1. UNCHANGED applied /\ \A n \in Node : Held(n)' = Held(n)
  BY DEF nodeVars, Held, Preparing
<1>2. Applying(u)' = Applying(u)
  BY SameReady DEF nodeVars
<1> QED
  BY <1>1, <1>2, FirstShrinks

\* It stays first when operations are handed over: a node that hands u over had
\* handed t over before.
LEMMA FirstApplies ==
    ASSUME TypeOK, NEW t \in Txn, NEW u \in Txn, t # u, First(t, u),
           NEW m \in net, CommitApply(m)
    PROVE  First(t, u)'
<1>1. m.txn \in Txn /\ m.node \in Node
  BY MessageFields DEF TypeOK
<1>2. /\ Effects(t) \subseteq Effects(t)' /\ Applying(u)' \subseteq Applying(u)
      /\ Effects(u)' = IF u = m.txn THEN Effects(u) \cup {m.node} ELSE Effects(u)
  BY ApplyReady
<1>3. ASSUME NEW n \in Node PROVE Held(n)' \subseteq Held(n)
  <2>1. calls'["lock"] = calls["lock"] /\ calls'["store"] = calls["store"]
    BY CallsMove DEF Steps
  <2>2. UNCHANGED pending
    BY DEF CommitApply
  <2> QED
    BY <2>1, <2>2 DEF Held, Preparing
<1>4. m.node \in Applying(m.txn)
  BY DEF CommitApply, Applying
<1>5. \A n \in Node : n # m.node => applied'[n] = applied[n]
  BY DEF CommitApply, TypeOK
<1>6. applied[m.node] \in Seq(Txn) /\ applied'[m.node] = Append(applied[m.node], m.txn)
  BY <1>1 DEF CommitApply, TypeOK
<1>7. Len(applied[m.node]) \in Nat /\ Len(applied'[m.node]) = Len(applied[m.node]) + 1
  BY <1>1, <1>6, AppendedTxns
<1>8. /\ \A i \in 1..Len(applied[m.node]) : applied'[m.node][i] = applied[m.node][i]
      /\ applied'[m.node][Len(applied[m.node]) + 1] = m.txn
  BY <1>1, <1>6, AppendedTxns
<1>9. \A n \in Node : Precedes(n, t, u) => Precedes(n, t, u)'
  <2>1. ASSUME Precedes(m.node, t, u) PROVE Precedes(m.node, t, u)'
    <3>1. PICK i \in 1..Len(applied[m.node]), j \in 1..Len(applied[m.node]) :
                 i < j /\ applied[m.node][i] = t /\ applied[m.node][j] = u
      BY <2>1 DEF Precedes
    <3>2. applied'[m.node][i] = t /\ applied'[m.node][j] = u
      BY <1>8, <3>1
    <3>3. i \in 1..Len(applied'[m.node]) /\ j \in 1..Len(applied'[m.node])
      BY <1>7
    <3> QED
      BY <3>1, <3>2, <3>3 DEF Precedes
  <2> QED
    BY <1>5, <2>1 DEF Precedes
<1>10. ASSUME NEW n \in Node, n \in Effects(u)' PROVE Precedes(n, t, u)'
  <2>1. CASE n \in Effects(u)
    BY <1>9, <2>1 DEF First
  <2>2. CASE n \notin Effects(u)
    <3>1. n = m.node /\ u = m.txn
      BY <1>2, <1>10, <2>2
    <3>2. n \in Effects(t)
      BY <1>1, <1>4, <3>1 DEF First
    <3>3. PICK i \in 1..Len(applied[m.node]) : applied[m.node][i] = t
      BY <3>1, <3>2 DEF Effects
    <3>4. /\ i \in 1..Len(applied'[m.node]) /\ Len(applied[m.node]) + 1 \in 1..Len(applied'[m.node])
          /\ i < Len(applied[m.node]) + 1
      BY <1>7
    <3>5. applied'[m.node][i] = t
      BY <1>8, <3>3
    <3> QED
      BY <1>8, <3>1, <3>4, <3>5 DEF Precedes
  <2> QED
    BY <2>1, <2>2
<1> QED
  BY <1>2, <1>3, <1>10 DEF First

\* It stays first when u is validated: t is decided, so its keys are locked at
\* the node until it has been handed over there.
LEMMA FirstValidates ==
    ASSUME TypeOK, CommitInv, LockInv, NEW t \in Txn, NEW u \in Txn, t # u, Conflict(t, u),
           First(t, u), "commit" \in told[t], NEW m \in net, HandlePrepare(m),
           BasicValidation(m.node, m.txn),
           \A n \in Node : n # m.node => Held(n)' \subseteq Held(n),
           Held(m.node)' = Held(m.node) \cup {m.txn}
    PROVE  First(t, u)'
<1>1. m.txn \in Txn /\ m.node \in Node
  BY MessageFields DEF TypeOK
<1>2. Effects(t)' = Effects(t) /\ Effects(u)' = Effects(u) /\ Applying(u)' = Applying(u)
  BY QuietReady
<1>3. \A n \in Node : Precedes(n, t, u)' = Precedes(n, t, u)
  BY DEF HandlePrepare, Precedes
<1>4. u = m.txn => m.node \in Effects(t)
  <2> SUFFICES ASSUME u = m.txn PROVE m.node \in Effects(t)
    OBVIOUS
  <2>1. t \notin locked[m.node]
    BY WriteKeysOfOps DEF BasicValidation, Locks, Conflict
  <2>2. m.node \in Ready(t)
    BY <1>1 DEF CommitInv, VoteInv
  <2>3. "abort" \notin told[t]
    <3>1. told[t] # {"commit", "abort"} /\ told[t] \subseteq {"commit", "abort"}
      BY DEF DecisionInv, CommitInv, TypeOK
    <3> QED
      BY <3>1
  <2> QED
    BY <1>1, <2>1, <2>2, <2>3 DEF LockInv
<1> QED
  BY <1>1, <1>2, <1>3, <1>4 DEF First

\* It stays first in every step of a node.
LEMMA FirstStays ==
    ASSUME TypeOK, CommitInv, LockInv, NEW t \in Txn, NEW u \in Txn, t # u, Conflict(t, u),
           First(t, u), "commit" \in told[t], NEW m \in net, NodeStep(m)
    PROVE  First(t, u)'
<1>1. m.txn \in Txn /\ m.node \in Node
  BY MessageFields DEF TypeOK
<1>2. CASE HandlePrepare(m) /\ BasicValidation(m.node, m.txn) /\ Held(m.node)' = Held(m.node) \cup {m.txn}
  <2>1. \A n \in Node : n # m.node => Held(n)' \subseteq Held(n)
    BY HeldGrows
  <2> QED
    BY <1>2, <2>1, FirstValidates
<1>3. CASE CommitApply(m)
  BY <1>3, FirstApplies
<1>4. CASE ~ CommitApply(m) /\ \A n \in Node : Held(n)' \subseteq Held(n)
  <2>1. UNCHANGED applied
    BY <1>4 DEF NodeStep, HandlePrepare, PrepareLock, PrepareStore, HandleCommit, HandleAbort, Unlock
  <2>2. ASSUME NEW n \in Node, n \in Applying(u)', n \notin Applying(u) PROVE u \in Held(n)
    <3>1. HandleCommit(m)
      BY <1>4, <2>2, QuietReady, StoreReady, AbortReady DEF NodeStep
    <3>2. u = m.txn /\ u \in pending[m.node] /\ n = m.node
      BY <2>2, <3>1, TakeReady
    <3> QED
      BY <3>2 DEF Held
  <2> QED
    BY <1>4, <2>1, <2>2, FirstShrinks
<1> QED
  BY <1>1, <1>2, <1>3, <1>4, HeldGrows

\* A commit decision on t while u is undecided: every node holds t, so none has
\* validated u.
LEMMA FirstDecided ==
    ASSUME TypeOK, CommitInv, HeldInv, NEW t \in Txn, NEW u \in Txn, t # u, Conflict(t, u),
           {t, u} \notin raced,
           "commit" \notin told[t], "commit" \notin told[u], Ready(t) = Node
    PROVE  First(t, u)
<1>1. Effects(t) = {} /\ Applying(t) = {} /\ Effects(u) = {} /\ Applying(u) = {}
  BY DEF CommitInv, VoteInv
<1>2. \A n \in Node : t \in Held(n)
  BY <1>1 DEF Ready, Held
<1>3. \A n \in Node : u \notin Held(n)
  BY <1>2 DEF HeldInv
<1> QED
  BY <1>1, <1>3 DEF First

LEMMA OrderNext ==
    ASSUME TypeOK, CommitInv, HeldInv, LockInv, OrderInv, [Next]_vars
    PROVE  OrderInv'
<1>1. ASSUME \A t, u \in Txn : t # u /\ Conflict(t, u) /\ First(t, u) /\ "commit" \in told[t] => First(t, u)',
             \A t \in Txn : "commit" \in told'[t] <=> "commit" \in told[t],
             raced \subseteq raced'
      PROVE  OrderInv'
  <2> SUFFICES ASSUME NEW t \in Txn, NEW u \in Txn, t # u, Conflict(t, u), {t, u} \notin raced',
                      "commit" \in told'[t]
               PROVE  IF "commit" \in told'[u] THEN First(t, u)' \/ First(u, t)' ELSE First(t, u)'
    BY DEF OrderInv, Conflict, WriteKeys
  <2>1. Conflict(u, t) /\ "commit" \in told[t]
    BY <1>1 DEF Conflict
  <2>2. IF "commit" \in told[u] THEN First(t, u) \/ First(u, t) ELSE First(t, u)
    BY <1>1, <2>1 DEF OrderInv
  <2> QED
    BY <1>1, <2>1, <2>2
<1>2. ASSUME NEW m \in net, NodeStep(m) PROVE OrderInv'
  BY <1>1, <1>2, FirstStays, NodeTold
<1>3. ASSUME NEW t0 \in Txn, Commit(t0), UNCHANGED nodeVars PROVE OrderInv'
  <2>1. told[t0] = {} /\ AllPrepared(vote[t0])
    BY <1>3 DEF Commit, CanCommit, CommitInv, DecisionInv
  <2>2. Ready(t0) = Node
    <3>1. \A n \in Node : n \in Ready(t0)
      BY <2>1 DEF CommitInv, VoteInv, AllPrepared
    <3>2. Applying(t0) = {}
      BY <2>1 DEF CommitInv, VoteInv
    <3> QED
      BY <3>1, <3>2 DEF Ready, Effects
  <2>3. told'[t0] = {"commit"} /\ \A u \in Txn : u # t0 => told'[u] = told[u]
    BY <1>3, <2>1 DEF Commit, TypeOK
  <2>4. \A t, u \in Txn : First(t, u) => First(t, u)'
    BY <1>3, FirstQuiet
  <2> SUFFICES ASSUME NEW t \in Txn, NEW u \in Txn, t # u, Conflict(t, u), {t, u} \notin raced,
                      "commit" \in told'[t]
               PROVE  IF "commit" \in told'[u] THEN First(t, u)' \/ First(u, t)' ELSE First(t, u)'
    BY <1>3 DEF OrderInv, Conflict, WriteKeys, nodeVars
  <2>5. Conflict(u, t) /\ {u, t} \notin raced
    <3>1. {u, t} = {t, u}
      OBVIOUS
    <3> QED
      BY <3>1 DEF Conflict
  <2>6. CASE t = t0
    <3>1. CASE "commit" \in told[u]
      <4>1. First(u, t)
        BY <2>1, <2>5, <2>6, <3>1 DEF OrderInv
      <4>2. "commit" \in told'[u]
        BY <2>3, <2>6, <3>1
      <4> QED
        BY <2>4, <4>1, <4>2
    <3>2. CASE "commit" \notin told[u]
      <4>1. First(t, u)
        BY <2>1, <2>2, <2>6, <3>2, FirstDecided
      <4> QED
        BY <2>4, <4>1
    <3> QED
      BY <3>1, <3>2
  <2>7. CASE t # t0
    <3>1. "commit" \in told[t]
      BY <2>3, <2>7
    <3>2. IF "commit" \in told[u] THEN First(t, u) \/ First(u, t) ELSE First(t, u)
      BY <3>1 DEF OrderInv
    <3>3. "commit" \in told[u] => "commit" \in told'[u]
      BY <2>1, <2>3
    <3> QED
      BY <2>4, <3>2, <3>3
  <2> QED
    BY <2>6, <2>7
<1>4. ASSUME NEW t0 \in Txn, Abort(t0), UNCHANGED nodeVars PROVE OrderInv'
  <2>1. \A t \in Txn : "commit" \in told'[t] <=> "commit" \in told[t]
    BY <1>4 DEF Abort, TypeOK
  <2>2. \A t, u \in Txn : First(t, u) => First(t, u)'
    BY <1>4, FirstQuiet
  <2> QED
    BY <1>1, <1>4, <2>1, <2>2 DEF nodeVars
<1>5. CASE UNCHANGED <<nodeVars, told>>
  <2>1. \A t, u \in Txn : First(t, u) => First(t, u)'
    BY <1>5, FirstQuiet
  <2> QED
    BY <1>1, <1>5, <2>1 DEF nodeVars
<1> QED
  BY <1>2, <1>3, <1>4, <1>5, StepKinds, ToldKinds

\* Transactions that write a common key reach the storage of all nodes in the
\* same order, whatever is lost, late or sent again, unless a node validated one
\* of them while it was preparing the other: the keys are locked before the
\* vote, and until the operations have been handed over.
THEOREM OrderAgreed ==
    ASSUME Careful
    PROVE  Spec => []SameOrder
<1>1. Init => HeldInv /\ LockInv /\ OrderInv
  <2> SUFFICES ASSUME Init PROVE HeldInv /\ LockInv /\ OrderInv
    OBVIOUS
  <2>1. \A n \in Node : Held(n) = {} /\ Storing(n) = {}
    BY DEF Init, Held, Preparing, Storing, Steps
  <2>2. \A t \in Txn : Ready(t) = {}
    BY DEF Init, Ready, Applying, Effects, Steps
  <2> QED
    BY <2>1, <2>2 DEF Init, HeldInv, LockInv, OrderInv
<1>2. ASSUME TypeOK, CommitInv, OrderInv, NEW t \in Txn, NEW u \in Txn, t # u, Conflict(t, u),
             {t, u} \notin raced,
             NEW n \in Node, NEW p \in Node, Precedes(n, t, u), Precedes(p, u, t)
      PROVE  FALSE
  <2>1. n \in Effects(t) /\ n \in Effects(u) /\ p \in Effects(t) /\ p \in Effects(u)
    BY <1>2 DEF Precedes, Effects
  <2>2. "commit" \in told[t] /\ "commit" \in told[u]
    BY <1>2, <2>1 DEF CommitInv, VoteInv
  <2>3. First(t, u) \/ First(u, t)
    BY <1>2, <2>2 DEF OrderInv
  <2>4. ASSUME NEW q \in Node, Precedes(q, t, u), Precedes(q, u, t) PROVE FALSE
    <3>1. \A i, j \in 1..Len(applied[q]) : applied[q][i] = applied[q][j] => i = j
      BY <1>2, <2>4 DEF CommitInv, StorageInv
    <3>2. PICK i, j \in 1..Len(applied[q]) : i < j /\ applied[q][i] = t /\ applied[q][j] = u
      BY <2>4 DEF Precedes
    <3>3. PICK k, l \in 1..Len(applied[q]) : k < l /\ applied[q][k] = u /\ applied[q][l] = t
      BY <2>4 DEF Precedes
    <3>4. i = l /\ j = k
      BY <3>1, <3>2, <3>3
    <3> QED
      BY <3>2, <3>3, <3>4
  <2> QED
    BY <1>2, <2>1, <2>3, <2>4 DEF First
<1>3. TypeOK /\ CommitInv /\ OrderInv => SameOrder
  BY <1>2 DEF SameOrder
<1> QED
  BY <1>1, <1>3, HeldNext, LockNext, OrderNext, CommitInvariant, PTL DEF Spec

-----------------------------------------------------------------------------
(* Commit decisions are carried out.                                        *)

\* A decision is one of the two.
LEMMA OneDecision ==
    ASSUME TypeOK, CommitInv, NEW t \in Txn, "abort" \in told[t]
    PROVE  "commit" \notin told[t]
<1>1. told[t] # {"commit", "abort"} /\ told[t] \subseteq {"commit", "abort"}
  BY DEF DecisionInv, CommitInv, TypeOK
<1>2. CASE "commit" \in told[t]
  BY <1>1, <1>2, Zenon
<1> QED
  BY <1>2

\* Steps that decide nothing and lose no part of a commit.
LEMMA DeliveryKept ==
    ASSUME DeliveryInv, losses' = losses,
           \A t \in Txn : "commit" \in told'[t] => "commit" \in told[t],
           \A t \in Txn : Effects(t) \subseteq Effects(t)' /\ acked[t] \subseteq acked'[t],
           \A m \in net : m.type \in {"CommitRequest", "CommitAck"} => m \in net'
    PROVE  DeliveryInv'
<1>1. \A y \in {"CommitRequest", "CommitAck"} : \A t, n : Underway(y, t, n) => Underway(y, t, n)'
  BY DEF Underway
<1> SUFFICES ASSUME losses = 0, NEW t \in Txn, NEW n \in Node, "commit" \in told'[t]
             PROVE  /\ n \in Effects(t)' \/ Underway("CommitRequest", t, n)'
                    /\ n \in acked'[t] \/ Underway("CommitRequest", t, n)'
                         \/ Underway("CommitAck", t, n)'
  BY DEF DeliveryInv
<1>2. /\ n \in Effects(t) \/ Underway("CommitRequest", t, n)
      /\ n \in acked[t] \/ Underway("CommitRequest", t, n) \/ Underway("CommitAck", t, n)
  BY DEF DeliveryInv
<1> QED
  BY <1>1, <1>2

\* The decision sends the request to every node.
LEMMA CommitDelivers ==
    ASSUME TypeOK, CommitInv, CompletionInv, NEW t \in Txn, Commit(t)
    PROVE  CompletionInv'
<1>1. /\ UNCHANGED <<acked, pending, applied, calls, losses>> /\ state[t] = "Prepared"
      /\ state' = [state EXCEPT ![t] = "Committing"]
      /\ told' = [told EXCEPT ![t] = @ \cup {"commit"}]
      /\ net' = net \cup {[type |-> "CommitRequest", txn |-> t, node |-> n] : n \in Node}
  BY DEF Commit, CanCommit, nodeVars
<1>2. \A u \in Txn \ {t} : told'[u] = told[u] /\ state'[u] = state[u]
  BY <1>1 DEF TypeOK
<1>3. "commit" \in told'[t] /\ state'[t] = "Committing"
  BY <1>1 DEF TypeOK
<1>4. acked[t] = {} /\ Node # {}
  BY <1>1 DEF CommitInv, DecisionInv, CompletionInv, CommittingInv
<1>5. CommittingInv'
  BY <1>1, <1>2, <1>3, <1>4 DEF CompletionInv, CommittingInv
<1>6. \A n \in Node : Underway("CommitRequest", t, n)'
  <2> SUFFICES ASSUME NEW n \in Node PROVE Underway("CommitRequest", t, n)'
    OBVIOUS
  <2>1. PICK m : m = [type |-> "CommitRequest", txn |-> t, node |-> n]
    OBVIOUS
  <2>2. m \in net' /\ m.type = "CommitRequest" /\ m.txn = t /\ m.node = n
    BY <1>1, <2>1
  <2> QED
    BY <2>2 DEF Underway
<1>7. \A y, u, n : Underway(y, u, n) => Underway(y, u, n)'
  BY <1>1 DEF Underway
<1>8. \A u : Effects(u)' = Effects(u)
  BY <1>1, SameReady
<1>9. DeliveryInv'
  <2> SUFFICES ASSUME losses = 0, NEW u \in Txn, NEW n \in Node, "commit" \in told'[u]
               PROVE  /\ n \in Effects(u)' \/ Underway("CommitRequest", u, n)'
                      /\ n \in acked'[u] \/ Underway("CommitRequest", u, n)'
                           \/ Underway("CommitAck", u, n)'
    BY <1>1 DEF DeliveryInv
  <2>1. CASE u = t
    BY <1>6, <2>1
  <2>2. CASE u # t
    BY <1>1, <1>2, <1>7, <1>8, <2>2 DEF CompletionInv, DeliveryInv
  <2> QED
    BY <2>1, <2>2
<1> QED
  BY <1>5, <1>9 DEF CompletionInv

\* A node answers when it has taken the transaction over.
LEMMA UnlockDelivers ==
    ASSUME TypeOK, CommitInv, CompletionInv, NEW m \in net, Unlock(m)
    PROVE  CompletionInv'
<1>1. m.txn \in Txn /\ m.node \in Node /\ m \in calls["unlock"]
  BY MessageFields DEF TypeOK, Unlock
<1>2. UNCHANGED <<state, acked, losses, told>>
  BY DEF Unlock, coordVars
<1>3. CommittingInv'
  BY <1>2 DEF CompletionInv, CommittingInv
<1>4. \A t : Effects(t)' = Effects(t)
  BY QuietReady
<1>5. CASE m.type # "CommitRequest"
  <2>1. m.type = "AbortRequest"
    BY <1>1, <1>5 DEF TypeOK
  <2>2. \A p \in net : p.type \in {"CommitRequest", "CommitAck"} => p \in net'
    BY <2>1 DEF Unlock
  <2>3. DeliveryInv'
    BY <1>2, <1>4, <2>2, DeliveryKept DEF CompletionInv
  <2> QED
    BY <1>3, <2>3 DEF CompletionInv
<1>6. CASE m.type = "CommitRequest"
  <2>1. m.node \in Effects(m.txn)
    BY <1>1, <1>6 DEF MessageInv, CommitInv
  <2>2. PICK r : r = [type |-> "CommitAck", txn |-> m.txn, node |-> m.node]
    OBVIOUS
  <2>3. net' = (net \ {m}) \cup {r} /\ r.type = "CommitAck" /\ r.txn = m.txn /\ r.node = m.node
    BY <1>6, <2>2 DEF Unlock
  <2>4. Underway("CommitAck", m.txn, m.node)'
    BY <2>3 DEF Underway
  <2>5. \A t, n : Underway("CommitAck", t, n) => Underway("CommitAck", t, n)'
    BY <1>6, <2>3 DEF Underway
  <2>6. \A t, n : Underway("CommitRequest", t, n) =>
                    Underway("CommitRequest", t, n)' \/ (t = m.txn /\ n = m.node)
    BY <2>3 DEF Underway
  <2>7. DeliveryInv'
    <3> SUFFICES ASSUME losses = 0, NEW t \in Txn, NEW n \in Node, "commit" \in told[t]
                 PROVE  /\ n \in Effects(t)' \/ Underway("CommitRequest", t, n)'
                        /\ n \in acked[t] \/ Underway("CommitRequest", t, n)'
                             \/ Underway("CommitAck", t, n)'
      BY <1>2 DEF DeliveryInv
    <3>1. /\ n \in Effects(t) \/ Underway("CommitRequest", t, n)
          /\ n \in acked[t] \/ Underway("CommitRequest", t, n) \/ Underway("CommitAck", t, n)
      BY DEF CompletionInv, DeliveryInv
    <3>2. CASE t = m.txn /\ n = m.node
      BY <1>4, <2>1, <2>4, <3>2
    <3>3. CASE ~ (t = m.txn /\ n = m.node)
      BY <1>4, <2>5, <2>6, <3>1, <3>3
    <3> QED
      BY <3>2, <3>3
  <2> QED
    BY <1>3, <2>7 DEF CompletionInv
<1> QED
  BY <1>5, <1>6

\* The other steps of a handler take no message of a commit off the net.
LEMMA HandlerDelivers ==
    ASSUME TypeOK, CompletionInv, NEW m \in net, NodeStep(m), ~ Unlock(m)
    PROVE  CompletionInv'
<1>1. UNCHANGED <<state, acked, losses, told>>
  BY DEF NodeStep, HandlePrepare, PrepareLock, PrepareStore, HandleCommit, CommitApply,
         HandleAbort, coordVars
<1>2. \A t \in Txn : Effects(t) \subseteq Effects(t)'
  BY QuietReady, StoreReady, TakeReady, ApplyReady, AbortReady DEF NodeStep
<1>3. \A p \in net : p.type \in {"CommitRequest", "CommitAck"} => p \in net'
  <2>1. CASE HandlePrepare(m) /\ m.type = "PrepareRequest"
    BY <2>1 DEF HandlePrepare
  <2>2. CASE PrepareStore(m)
    <3>1. m.type = "PrepareRequest" /\ net \ {m} \subseteq net'
      BY <2>2 DEF PrepareStore, TypeOK
    <3> QED
      BY <3>1
  <2>3. CASE PrepareLock(m) \/ HandleCommit(m) \/ CommitApply(m) \/ HandleAbort(m)
    BY <2>3 DEF PrepareLock, HandleCommit, CommitApply, HandleAbort
  <2> QED
    BY <2>1, <2>2, <2>3 DEF NodeStep
<1>4. CommittingInv'
  BY <1>1 DEF CompletionInv, CommittingInv
<1> QED
  BY <1>1, <1>2, <1>3, <1>4, DeliveryKept DEF CompletionInv

\* The coordinator records an acknowledgement, or has forgotten a transaction
\* that all had acknowledged.
LEMMA HandleCommitAckDelivers ==
    ASSUME TypeOK, CommitInv, CompletionInv, NEW m \in net, m.type = "CommitAck", HandleCommitAck(m)
    PROVE  CompletionInv'
<1>1. m.txn \in Txn /\ m.node \in Node
  BY MessageFields DEF TypeOK
<1>2. "commit" \in told[m.txn]
  BY DEF MessageInv, CommitInv
<1>3. UNCHANGED <<applied, pending, calls, losses, told>> /\ net' = net \ {m}
  BY DEF HandleCommitAck, nodeVars
<1>4. \A t \in Txn \ {m.txn} : acked'[t] = acked[t] /\ state'[t] = state[t]
  BY DEF HandleCommitAck, TypeOK
<1>5. /\ m.node \in acked'[m.txn] /\ acked[m.txn] \subseteq acked'[m.txn]
      /\ acked'[m.txn] = Node => state'[m.txn] \in {"Committed", "gone"}
      /\ acked'[m.txn] # Node => state'[m.txn] = "Committing"
  <2>1. CASE Known(m.txn)
    <3>1. acked'[m.txn] = acked[m.txn] \cup {m.node}
      BY <1>1, <2>1 DEF HandleCommitAck, TypeOK
    <3>2. state'[m.txn] = IF acked[m.txn] \cup {m.node} = Node THEN "Committed" ELSE state[m.txn]
      BY <1>1, <2>1 DEF HandleCommitAck, TypeOK
    <3>3. acked[m.txn] \cup {m.node} # Node => acked[m.txn] # Node
      BY <1>1
    <3>4. acked[m.txn] # Node => state[m.txn] = "Committing"
      BY <1>1, <1>2 DEF CompletionInv, CommittingInv
    <3>5. acked'[m.txn] = Node <=> acked[m.txn] \cup {m.node} = Node
      BY <3>1
    <3>6. m.node \in acked'[m.txn] /\ acked[m.txn] \subseteq acked'[m.txn]
      BY <3>1
    <3> QED
      BY <3>2, <3>3, <3>4, <3>5, <3>6
  <2>2. CASE ~ Known(m.txn)
    <3>1. acked'[m.txn] = acked[m.txn] /\ state'[m.txn] = state[m.txn]
      BY <2>2 DEF HandleCommitAck
    <3>2. acked[m.txn] = Node /\ state[m.txn] \in {"Committed", "gone"}
      BY <1>1, <1>2, <2>2 DEF CompletionInv, CommittingInv, Known, States
    <3> QED
      BY <1>1, <3>1, <3>2
  <2> QED
    BY <2>1, <2>2
<1>6. CommittingInv'
  BY <1>2, <1>3, <1>4, <1>5 DEF CompletionInv, CommittingInv
<1>7. \A t : Effects(t)' = Effects(t)
  BY <1>3, SameReady
<1>8. \A t, n : Underway("CommitRequest", t, n) => Underway("CommitRequest", t, n)'
  BY <1>3 DEF Underway
<1>9. \A t, n : Underway("CommitAck", t, n) =>
                   Underway("CommitAck", t, n)' \/ (t = m.txn /\ n = m.node)
  BY <1>3 DEF Underway
<1>10. DeliveryInv'
  <2> SUFFICES ASSUME losses = 0, NEW t \in Txn, NEW n \in Node, "commit" \in told[t]
               PROVE  /\ n \in Effects(t)' \/ Underway("CommitRequest", t, n)'
                      /\ n \in acked'[t] \/ Underway("CommitRequest", t, n)'
                           \/ Underway("CommitAck", t, n)'
    BY <1>3 DEF DeliveryInv
  <2>1. /\ n \in Effects(t) \/ Underway("CommitRequest", t, n)
        /\ n \in acked[t] \/ Underway("CommitRequest", t, n) \/ Underway("CommitAck", t, n)
    BY DEF CompletionInv, DeliveryInv
  <2>2. n \in acked[t] => n \in acked'[t]
    BY <1>4, <1>5
  <2> QED
    BY <1>5, <1>7, <1>8, <1>9, <2>1, <2>2
<1> QED
  BY <1>6, <1>10 DEF CompletionInv

LEMMA CompletionNext ==
    ASSUME Careful, TypeOK, CommitInv, CompletionInv, [Next]_vars
    PROVE  CompletionInv'
\* Steps that decide no commit and touch none.
<1>1. ASSUME UNCHANGED <<acked, losses>>,
             \A t \in Txn : "commit" \in told'[t] <=> "commit" \in told[t],
             \A t \in Txn : Effects(t)' = Effects(t),
             \A m \in net : m.type \in {"CommitRequest", "CommitAck"} => m \in net',
             CommittingInv'
      PROVE  CompletionInv'
  BY <1>1, DeliveryKept DEF CompletionInv
<1>2. \A t \in Txn : "commit" \in told[t] => state[t] \in {"Committing", "Committed", "gone"}
  BY DEF CompletionInv, CommittingInv
<1>3. ASSUME NEW t \in Txn, Begin(t) PROVE CompletionInv'
  <2>1. UNCHANGED <<acked, losses, told, net, pending, applied, calls>>
    BY <1>3 DEF Begin, nodeVars
  <2>2. \A u \in Txn : state'[u] = IF u = t THEN "Preparing" ELSE state[u]
    BY <1>3 DEF Begin, TypeOK
  <2>3. "commit" \notin told[t]
    BY <1>2, <1>3 DEF Begin
  <2>4. CommittingInv'
    BY <2>1, <2>2, <2>3 DEF CompletionInv, CommittingInv
  <2> QED
    BY <1>1, <2>1, <2>4, SameReady
<1>4. ASSUME NEW t \in Txn, Prepare(t) PROVE CompletionInv'
  <2>1. UNCHANGED <<state, acked, losses, told, pending, applied, calls>> /\ net \subseteq net'
    BY <1>4 DEF Prepare, nodeVars, coordVars
  <2>2. CommittingInv'
    BY <2>1 DEF CompletionInv, CommittingInv
  <2> QED
    BY <1>1, <2>1, <2>2, SameReady
<1>5. ASSUME NEW t \in Txn, Abort(t) PROVE CompletionInv'
  <2>1. UNCHANGED <<acked, losses, pending, applied, calls>> /\ net \subseteq net'
    BY <1>5 DEF Abort, nodeVars
  <2>2. \A u \in Txn : /\ state'[u] = IF u = t THEN "Aborting" ELSE state[u]
                       /\ told'[u] = IF u = t THEN told[u] \cup {"abort"} ELSE told[u]
    BY <1>5 DEF Abort, TypeOK
  <2>3. "commit" \notin told[t]
    BY <1>2, <1>5 DEF Abort, Known, States, IsTerminal
  <2>4. ASSUME NEW u \in Txn PROVE "commit" \in told'[u] <=> "commit" \in told[u]
    <3>1. CASE u = t
      <4>1. told'[u] = told[u] \cup {"abort"}
        BY <2>2, <3>1
      <4>2. "commit" \notin {"abort"}
        OBVIOUS
      <4> QED
        BY <4>1, <4>2
    <3>2. CASE u # t
      <4>1. told'[u] = told[u]
        BY <2>2, <3>2
      <4> QED
        BY <4>1
    <3> QED
      BY <3>1, <3>2
  <2>5. CommittingInv'
    BY <2>1, <2>2, <2>3, <2>4 DEF CompletionInv, CommittingInv
  <2> QED
    BY <1>1, <2>1, <2>4, <2>5, SameReady
<1>6. CASE CleanupCompleted
  <2>1. UNCHANGED <<acked, losses, told, net, pending, applied, calls>>
    BY <1>6 DEF CleanupCompleted, nodeVars
  <2>2. \A t \in Txn : state'[t] = IF state[t] \in {"Committed", "Aborted"} THEN "gone" ELSE state[t]
    BY <1>6 DEF CleanupCompleted, IsTerminal
  <2>3. CommittingInv'
    BY <2>1, <2>2 DEF CompletionInv, CommittingInv
  <2> QED
    BY <1>1, <2>1, <2>3, SameReady
<1>8. ASSUME NEW m \in net, m.type = "PrepareResponse", HandlePrepareResponse(m)
      PROVE  CompletionInv'
  <2>1. /\ UNCHANGED <<acked, losses, told, pending, applied, calls>>
        /\ \A p \in net : p.type \in {"CommitRequest", "CommitAck"} => p \in net'
    BY <1>8 DEF HandlePrepareResponse, RecordVote, coordVars, nodeVars
  <2>2. m.txn \in Txn /\ m.node \in Node
    BY MessageFields DEF TypeOK
  <2>3. \A u \in Txn : \/ state'[u] = state[u]
                       \/ u = m.txn /\ state[u] = "Preparing" /\ state'[u] \in {"Aborting", "Prepared"}
    <3>1. CASE Known(m.txn) /\ state[m.txn] = "Preparing"
      BY <1>8, <2>2, <3>1 DEF HandlePrepareResponse, RecordVote, TypeOK
    <3>2. CASE ~ (Known(m.txn) /\ state[m.txn] = "Preparing")
      BY <1>8, <3>2 DEF HandlePrepareResponse, coordVars
    <3> QED
      BY <3>1, <3>2
  <2>4. CommittingInv'
    BY <1>2, <2>1, <2>2, <2>3 DEF CompletionInv, CommittingInv
  <2> QED
    BY <1>1, <2>1, <2>4, SameReady
<1>9. ASSUME NEW m \in net, NodeStep(m) PROVE CompletionInv'
  BY <1>9, UnlockDelivers, HandlerDelivers
<1>10. ASSUME NEW m \in net, m.type = "AbortAck", HandleAbortAck(m) PROVE CompletionInv'
  <2>1. /\ UNCHANGED <<acked, losses, told, pending, applied, calls>>
        /\ \A p \in net : p.type \in {"CommitRequest", "CommitAck"} => p \in net'
    BY <1>10 DEF HandleAbortAck, nodeVars
  <2>2. m.txn \in Txn /\ "abort" \in told[m.txn]
    BY <1>10, MessageFields DEF TypeOK, MessageInv, CommitInv
  <2>3. "commit" \notin told[m.txn]
    BY <2>2, OneDecision
  <2>4. \A u \in Txn : state'[u] = state[u] \/ (u = m.txn /\ state'[u] = "Aborted")
    BY <1>10, <2>2 DEF HandleAbortAck, TypeOK
  <2>5. CommittingInv'
    BY <2>1, <2>3, <2>4 DEF CompletionInv, CommittingInv
  <2> QED
    BY <1>1, <2>1, <2>5, SameReady
<1>11. ASSUME NEW m \in net, Lose(m) PROVE CompletionInv'
  <2>1. UNCHANGED <<state, acked, told>> /\ losses' = losses + 1 /\ losses \in Nat
    BY <1>11 DEF Lose, coordVars, TypeOK
  <2>2. losses' # 0
    BY <2>1
  <2> QED
    BY <2>1, <2>2 DEF CompletionInv, CommittingInv, DeliveryInv
<1>12. CASE UNCHANGED vars
  <2>1. UNCHANGED <<state, acked, losses, told, net, pending, applied, calls>>
    BY <1>12 DEF vars
  <2>2. CommittingInv'
    BY <2>1 DEF CompletionInv, CommittingInv
  <2> QED
    BY <1>1, <2>1, <2>2, SameReady
<1>13. ASSUME NEW m \in net, Receive(m) PROVE CompletionInv'
  <2>1. CASE m.type \in {"PrepareRequest", "CommitRequest", "AbortRequest"}
    BY <1>9, <1>13, <2>1 DEF Receive, NodeStep
  <2>2. CASE m.type \in {"PrepareResponse", "CommitAck", "AbortAck"}
    BY <1>8, <1>10, <1>13, <2>2, HandleCommitAckDelivers DEF Receive
  <2> QED
    BY <1>13, <2>1, <2>2 DEF Receive
<1> QED
  BY <1>3, <1>4, <1>5, <1>6, <1>9, <1>11, <1>12, <1>13, CommitDelivers DEF Next, NodeStep

\* When no message of a commit is on its way and none was lost, the
\* transaction is in the storage of every node and the coordinator has it as
\* committed: no order of requests, acknowledgements and cleanups leaves a
\* commit half done with nobody to send again.
THEOREM CommitsComplete ==
    ASSUME Careful
    PROVE  Spec => []CommitCompletes
<1>1. Init => CompletionInv
  BY DEF Init, CompletionInv, CommittingInv, DeliveryInv
<1>2. TypeOK /\ CommitInv /\ CompletionInv /\ [Next]_vars => CompletionInv'
  BY CompletionNext
<1>3. TypeOK /\ CompletionInv => CommitCompletes
  <2> SUFFICES ASSUME TypeOK, CompletionInv, NEW t \in Txn, "commit" \in told[t], losses = 0,
                      \A m \in net : m.txn = t => m.type \notin {"CommitRequest", "CommitAck"}
               PROVE  Effects(t) = Node /\ state[t] \in {"Committed", "gone"}
    BY DEF CommitCompletes
  <2>1. \A n : ~ Underway("CommitRequest", t, n) /\ ~ Underway("CommitAck", t, n)
    BY DEF Underway
  <2>2. \A n \in Node : n \in Effects(t) /\ n \in acked[t]
    BY <2>1 DEF CompletionInv, DeliveryInv
  <2>3. Effects(t) \subseteq Node /\ acked[t] \subseteq Node
    BY DEF Effects, TypeOK
  <2>4. Effects(t) = Node
    BY <2>2, <2>3
  <2>5. acked[t] = Node
    BY <2>2, <2>3
  <2> QED
    BY <2>4, <2>5 DEF CompletionInv, CommittingInv
<1> QED
  BY <1>1, <1>2, <1>3, CommitInvariant, PTL DEF Spec

-----------------------------------------------------------------------------
(* Two-phase commit implements AtomicCommit.                                *)

\* The decision as the abstract specification sees it.
Decision(t) == IF "commit" \in told[t] THEN "commit"
               ELSE IF "abort" \in told[t] THEN "abort" ELSE "none"

\* A step that keeps decisions, ready nodes and effects is a stutter.
LEMMA AbstractStutter ==
    ASSUME \A t \in Txn : /\ told'[t] = told[t]
                          /\ Effects(t)' = Effects(t) /\ Ready(t)' = Ready(t)
    PROVE  UNCHANGED AC!vars
<1>1. [t \in Txn |-> Effects(t)]' = [t \in Txn |-> Effects(t)]
  OBVIOUS
<1>2. [t \in Txn |-> Ready(t)]' = [t \in Txn |-> Ready(t)]
  OBVIOUS
<1>3. [t \in Txn |-> Decision(t)]' = [t \in Txn |-> Decision(t)]
  BY DEF Decision
<1> QED
  BY <1>1, <1>2, <1>3 DEF AC!vars, Decision

\* What Commit and Abort decide.
LEMMA AbstractDecide ==
    ASSUME NEW t \in Txn, NEW d \in {"commit", "abort"},
           told \in [Txn -> SUBSET {"commit", "abort"}],
           told[t] = {}, told' = [told EXCEPT ![t] = {d}],
           d = "commit" => Ready(t) = Node,
           \A u \in Txn : Effects(u)' = Effects(u) /\ Ready(u)' = Ready(u)
    PROVE  AC!Next
<1>1. Decision(t) = "none"
  BY DEF Decision
<1>2. [u \in Txn |-> Decision(u)]' = [[u \in Txn |-> Decision(u)] EXCEPT ![t] = d]
  BY DEF Decision
<1>3. [u \in Txn |-> Effects(u)]' = [u \in Txn |-> Effects(u)]
  OBVIOUS
<1>4. [u \in Txn |-> Ready(u)]' = [u \in Txn |-> Ready(u)]
  OBVIOUS
<1>5. AC!Decide(t, d)
  BY <1>1, <1>2, <1>3, <1>4 DEF AC!Decide, Decision
<1> QED
  BY <1>5 DEF AC!Next

LEMMA AbstractInit == Init => AC!Init
<1> SUFFICES ASSUME Init PROVE AC!Init
  OBVIOUS
<1>1. \A t \in Txn : Effects(t) = {} /\ Ready(t) = {}
  BY DEF Init, Effects, Applying, Ready, Steps
<1> QED
  BY <1>1 DEF Init, AC!Init

LEMMA AbstractNext ==
    ASSUME Careful, TypeOK, CommitInv, [Next]_vars
    PROVE  AC!Next \/ UNCHANGED AC!vars
<1>1. CASE UNCHANGED <<nodeVars, told>>
  BY <1>1, SameReady, AbstractStutter DEF nodeVars
<1>2. ASSUME NEW t \in Txn, Commit(t) PROVE AC!Next
  <2>1. told[t] = {} /\ AllPrepared(vote[t])
    BY <1>2 DEF Commit, CanCommit, CommitInv, DecisionInv
  <2>2. Ready(t) = Node
    <3>1. \A n \in Node : n \in Ready(t)
      BY <2>1 DEF CommitInv, VoteInv, AllPrepared
    <3>2. Applying(t) = {}
      BY <2>1 DEF CommitInv, VoteInv
    <3> QED
      BY <3>1, <3>2 DEF Ready, Effects
  <2>3. told' = [told EXCEPT ![t] = {"commit"}]
    BY <1>2, <2>1 DEF Commit
  <2>4. \A u : Effects(u)' = Effects(u) /\ Ready(u)' = Ready(u)
    BY <1>2, SameReady DEF Commit, nodeVars
  <2> QED
    BY <2>1, <2>2, <2>3, <2>4, AbstractDecide DEF TypeOK
<1>3. ASSUME NEW t \in Txn, Abort(t) PROVE AC!Next
  <2>1. state[t] \in {"Preparing", "Prepared", "Aborting"}
    BY <1>3 DEF Abort, Known, States, IsTerminal
  <2>2. told[t] = {}
    BY <1>3, <2>1 DEF Abort, CommitInv, DecisionInv, TypeOK
  <2>3. told' = [told EXCEPT ![t] = {"abort"}]
    BY <1>3, <2>2 DEF Abort
  <2>4. \A u : Effects(u)' = Effects(u) /\ Ready(u)' = Ready(u)
    BY <1>3, SameReady DEF Abort, nodeVars
  <2> QED
    BY <2>2, <2>3, <2>4, AbstractDecide DEF TypeOK
<1>4. ASSUME NEW m \in net, PrepareStore(m) PROVE AC!Next
  <2>1. m.txn \in Txn /\ m.node \in Node
    BY MessageFields DEF TypeOK
  <2>2. UNCHANGED told
    BY <1>4 DEF PrepareStore
  <2>3. [u \in Txn |-> Ready(u)]'
          = [[u \in Txn |-> Ready(u)] EXCEPT ![m.txn] = @ \cup {m.node}]
    BY <1>4, <2>1, StoreReady
  <2>4. [u \in Txn |-> Effects(u)]' = [u \in Txn |-> Effects(u)]
    BY <1>4, StoreReady
  <2>5. AC!GetReady(m.txn, m.node)
    BY <2>2, <2>3, <2>4 DEF AC!GetReady
  <2> QED
    BY <2>1, <2>5 DEF AC!Next
<1>5. ASSUME NEW m \in net, CommitApply(m) PROVE AC!Next
  <2>1. m.txn \in Txn /\ m.node \in Node
    BY MessageFields DEF TypeOK
  <2>2. UNCHANGED told
    BY <1>5 DEF CommitApply
  <2>3. m.type = "CommitRequest" /\ m \in calls["apply"]
    BY <1>5 DEF CommitApply, TypeOK
  <2>4. "commit" \in told[m.txn]
    BY <2>3 DEF CommitInv, MessageInv
  <2>5. [u \in Txn |-> Effects(u)]'
          = [[u \in Txn |-> Effects(u)] EXCEPT ![m.txn] = @ \cup {m.node}]
    BY <1>5, <2>1, ApplyReady
  <2>6. [u \in Txn |-> Ready(u)]' = [u \in Txn |-> Ready(u)]
    BY <1>5, ApplyReady
  <2>7. m.node \in Ready(m.txn)
    BY <2>3 DEF Applying, Ready
  <2>8. AC!TakeEffect(m.txn, m.node)
    BY <2>1, <2>2, <2>4, <2>5, <2>6, <2>7 DEF AC!TakeEffect
  <2> QED
    BY <2>1, <2>8 DEF AC!Next
<1>6. ASSUME NEW m \in net, m.type = "AbortRequest", HandleAbort(m)
      PROVE  AC!Next \/ UNCHANGED AC!vars
  <2>1. m.txn \in Txn /\ m.node \in Node
    BY MessageFields DEF TypeOK
  <2>2. UNCHANGED told
    BY <1>6 DEF HandleAbort
  <2>3. Decision(m.txn) = "abort"
    <3>1. "abort" \in told[m.txn]
      BY <1>6 DEF CommitInv, MessageInv
    <3>2. told[m.txn] # {"commit", "abort"} /\ told[m.txn] \subseteq {"commit", "abort"}
      BY <2>1 DEF DecisionInv, CommitInv, TypeOK
    <3>3. CASE "commit" \in told[m.txn]
      BY <3>1, <3>2, <3>3, Zenon
    <3> QED
      BY <3>1, <3>3 DEF Decision
  <2>4. CASE m.node \in Effects(m.txn) \cup Applying(m.txn)
    BY <1>6, <2>2, <2>4, AbortReady, AbstractStutter
  <2>5. CASE m.node \notin Effects(m.txn) \cup Applying(m.txn)
    <3>1. [u \in Txn |-> Ready(u)]'
            = [[u \in Txn |-> Ready(u)] EXCEPT ![m.txn] = @ \ {m.node}]
      BY <1>6, <2>1, <2>5, AbortReady
    <3>2. [u \in Txn |-> Effects(u)]' = [u \in Txn |-> Effects(u)]
      BY <1>6, AbortReady
    <3>3. AC!GiveUp(m.txn, m.node)
      BY <2>1, <2>2, <2>3, <3>1, <3>2 DEF AC!GiveUp, Decision
    <3> QED
      BY <2>1, <3>3 DEF AC!Next
  <2> QED
    BY <2>4, <2>5
<1>7. ASSUME NEW m \in net, NodeStep(m) PROVE AC!Next \/ UNCHANGED AC!vars
  <2>1. CASE HandlePrepare(m) \/ PrepareLock(m) \/ Unlock(m)
    BY <1>7, <2>1, QuietReady, NodeTold, AbstractStutter
  <2>2. CASE HandleCommit(m)
    BY <1>7, <2>2, TakeReady, NodeTold, AbstractStutter
  <2> QED
    BY <1>4, <1>5, <1>6, <1>7, <2>1, <2>2 DEF NodeStep
<1> QED
  BY <1>1, <1>2, <1>3, <1>7, StepKinds, ToldKinds

\* Two-phase commit implements atomic commitment, for every number of nodes and
\* transactions and whatever messages are lost, late or sent again, when the
\* caller is careful.
THEOREM Refinement ==
    ASSUME Careful
    PROVE  Spec => CommitIsAtomic
<1>1. TypeOK /\ CommitInv /\ [Next]_vars => [AC!Next]_(AC!vars)
  BY AbstractNext
<1> QED
  BY <1>1, AbstractInit, CommitInvariant, PTL DEF Spec, CommitIsAtomic, AC!Spec
=============================================================================
