------------------------------ MODULE MCParts -------------------------------
(***************************************************************************)
(* Five components that share no state, each on a small instance: the      *)
(* repair of a follower's log, a channel of the streaming engine, the      *)
(* client's connection pool, a collection of documents and the tiers of    *)
(* the timeseries engine.  A behaviour is a behaviour of one of them,      *)
(* chosen at its start; the others rest.                                   *)
(***************************************************************************)
EXTENDS LogRepair, Streaming, ClientPool, DocIndex, TimeTiers

VARIABLE part   \* the component that runs

allVars == <<part, repairVars, streamVars, poolVars, docIndexVars, tierVars>>

\* Documents with two fields: both scalar, one missing, one nested.
MCContents ==
    [Field -> {Null, Absent} \cup Nested] \ {[f \in Field |-> Absent]}

RepairAtRest == leaderLog = <<>> /\ followerLog = <<>> /\ next = 1

Init ==
    /\ part \in {"repair", "stream", "pool", "docs", "tiers"}
    /\ IF part = "repair" THEN RepairInit ELSE RepairAtRest
    /\ StreamInit
    /\ PoolInit
    /\ DocIndexInit
    /\ TiersInit

RestButRepair == UNCHANGED <<part, streamVars, poolVars, docIndexVars, tierVars>>
RestButStream == UNCHANGED <<part, repairVars, poolVars, docIndexVars, tierVars>>
RestButPool == UNCHANGED <<part, repairVars, streamVars, docIndexVars, tierVars>>
RestButDocs == UNCHANGED <<part, repairVars, streamVars, poolVars, tierVars>>
RestButTiers == UNCHANGED <<part, repairVars, streamVars, poolVars, docIndexVars>>

RepairStep == part = "repair" /\ Exchange /\ RestButRepair

Next ==
    \/ RepairStep
    \/ part = "stream" /\ StreamNext /\ RestButStream
    \/ part = "pool" /\ PoolNext /\ RestButPool
    \/ part = "docs" /\ DocIndexNext /\ RestButDocs
    \/ part = "tiers" /\ TiersNext /\ RestButTiers

\* A leader sends at every heartbeat.  A thread that is inside subscribe gets
\* on, and a consumer calls recv again and again, as the SSE handler does.
Fairness ==
    /\ WF_allVars(RepairStep)
    /\ \A s \in Subscriber :
         /\ WF_allVars(part = "stream" /\ Recv(s) /\ RestButStream)
         /\ WF_allVars(part = "stream" /\ SubscribeRegister(s) /\ RestButStream)

Spec == Init /\ [][Next]_allVars /\ Fairness
=============================================================================
