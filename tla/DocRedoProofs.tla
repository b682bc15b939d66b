--------------------------- MODULE DocRedoProofs ----------------------------
(***************************************************************************)
(* Theorems about DocRedo, for any collections, documents and clients and  *)
(* every value of the bounds, when drops and compressions have the engine  *)
(* to themselves: a kill recovers every document of the collections no     *)
(* request is on, and a dropped collection stays dropped.                  *)
(***************************************************************************)
EXTENDS DocRedo, OrderFacts, TLAPS

-----------------------------------------------------------------------------
(* The log.  The records of a document and of a collection.                *)

DocOps(c, d) ==
    {op \in Op : /\ op.coll = c
                 /\ \/ op.kind \in {"DocPut", "DocDelete"} /\ op.doc = d
                    \/ op.kind = "CollectionDrop"}
CollOps(c) == {op \in Op : op.coll = c /\ op.kind # "DocDelete"}

LEMMA LogIsSegmented ==
    LogTypeOK => Segmented(segs, gen, Op) /\ Positions = Places(segs) /\ gen \in DOMAIN segs
BY DEF LogTypeOK, Segmented, Positions, Places, Generations

LEMMA LastRecordIsLastIn ==
    LogTypeOK => \A U : /\ Chosen(segs, U) \subseteq Positions
                        /\ Chosen(segs, U) # {} =>
                             LastRecord(Chosen(segs, U)) = LastIn(segs, U)
<1> SUFFICES ASSUME LogTypeOK, NEW U
             PROVE  /\ Chosen(segs, U) \subseteq Positions
                    /\ Chosen(segs, U) # {} => LastRecord(Chosen(segs, U)) = LastIn(segs, U)
  OBVIOUS
<1> DEFINE S == Chosen(segs, U)
           c == CHOOSE p \in S : \A q \in S : ~ Before(p, q)
<1>1. Segmented(segs, gen, Op) /\ Positions = Places(segs)
  BY LogIsSegmented
<1>2. S \subseteq Places(segs)
  BY DEF Chosen
<1>3. ASSUME S # {} PROVE LastRecord(S) = LastIn(segs, U)
  <2>1. PICK p \in S : LastOf(p, S)
    BY <1>1, <1>3, LastInExists
  <2>2. p \in S /\ \A q \in S : ~ Before(p, q)
    BY <2>1 DEF LastOf, Before, Earlier
  <2>3. c \in S /\ \A q \in S : ~ Before(c, q)
    BY <2>2
  <2>4. LastOf(c, S)
    BY <2>3 DEF LastOf, Before, Earlier
  <2>5. LastIn(segs, U) = segs[c[1]][c[2]]
    BY <1>1, <2>4, LastInIs
  <2> QED
    BY <2>5 DEF LastRecord, Record
<1> QED
  BY <1>1, <1>2, <1>3

LEMMA DocLog ==
    LogTypeOK => \A c, d : /\ DocPositions(c, d) = Chosen(segs, DocOps(c, d))
                           /\ DocPositions(c, d) # {} =>
                                LastRecord(DocPositions(c, d)) = LastIn(segs, DocOps(c, d))
<1> SUFFICES ASSUME LogTypeOK, NEW c, NEW d
             PROVE  /\ DocPositions(c, d) = Chosen(segs, DocOps(c, d))
                    /\ DocPositions(c, d) # {} =>
                         LastRecord(DocPositions(c, d)) = LastIn(segs, DocOps(c, d))
  OBVIOUS
<1>1. Positions = Places(segs) /\ \A p \in Positions : Record(p) \in Op
  BY LogIsSegmented, PlacesType DEF Record
<1>2. DocPositions(c, d) = Chosen(segs, DocOps(c, d))
  BY <1>1 DEF DocPositions, Chosen, DocOps, Record
<1> QED
  BY <1>2, LastRecordIsLastIn

LEMMA CollLog ==
    LogTypeOK => \A c : /\ CollPositions(c) = Chosen(segs, CollOps(c))
                        /\ CollPositions(c) # {} =>
                             LastRecord(CollPositions(c)) = LastIn(segs, CollOps(c))
<1> SUFFICES ASSUME LogTypeOK, NEW c
             PROVE  /\ CollPositions(c) = Chosen(segs, CollOps(c))
                    /\ CollPositions(c) # {} =>
                         LastRecord(CollPositions(c)) = LastIn(segs, CollOps(c))
  OBVIOUS
<1>1. Positions = Places(segs) /\ \A p \in Positions : Record(p) \in Op
  BY LogIsSegmented, PlacesType DEF Record
<1>2. CollPositions(c) = Chosen(segs, CollOps(c))
  BY <1>1 DEF CollPositions, Chosen, CollOps, Record
<1> QED
  BY <1>2, LastRecordIsLastIn

\* The same in the next state.
LEMMA LogNext ==
    ASSUME LogTypeOK'
    PROVE  /\ \A c, d : /\ DocPositions(c, d)' = Chosen(segs', DocOps(c, d))
                        /\ DocPositions(c, d)' # {} =>
                             LastRecord(DocPositions(c, d))' = LastIn(segs', DocOps(c, d))
           /\ \A c : /\ CollPositions(c)' = Chosen(segs', CollOps(c))
                     /\ CollPositions(c)' # {} =>
                          LastRecord(CollPositions(c))' = LastIn(segs', CollOps(c))
<1>1. (\A c, d : /\ DocPositions(c, d) = Chosen(segs, DocOps(c, d))
                 /\ DocPositions(c, d) # {} =>
                      LastRecord(DocPositions(c, d)) = LastIn(segs, DocOps(c, d)))'
  BY DocLog, PTL
<1>2. (\A c : /\ CollPositions(c) = Chosen(segs, CollOps(c))
              /\ CollPositions(c) # {} =>
                   LastRecord(CollPositions(c)) = LastIn(segs, CollOps(c)))'
  BY CollLog, PTL
<1> QED
  BY <1>1, <1>2

\* A rotation and a restart keep every record.
LEMMA LogKept ==
    ASSUME LogTypeOK, Rotate \/ ReopenAfterKill \/ (UNCHANGED segs /\ UNCHANGED gen)
    PROVE  /\ LogTypeOK' /\ gen' \in {gen, gen + 1}
           /\ \A c, d : /\ DocPositions(c, d)' = DocPositions(c, d)
                        /\ DocPositions(c, d) # {} =>
                             LastRecord(DocPositions(c, d))' = LastRecord(DocPositions(c, d))
           /\ \A c : /\ CollPositions(c)' = CollPositions(c)
                     /\ CollPositions(c) # {} =>
                          LastRecord(CollPositions(c))' = LastRecord(CollPositions(c))
<1>0. gen \in Nat
  BY DEF LogTypeOK
<1>1. Segmented(segs, gen, Op)
  BY LogIsSegmented
<1>2. /\ Segmented(segs', gen', Op) /\ gen' \in DOMAIN segs' /\ gen' \in {gen, gen + 1}
      /\ Places(segs') = Places(segs)
      /\ \A p \in Places(segs) : segs'[p[1]][p[2]] = segs[p[1]][p[2]]
  <2>1. CASE UNCHANGED segs /\ UNCHANGED gen
    BY <1>1, <2>1, LogIsSegmented
  <2>2. CASE Rotate \/ ReopenAfterKill
    <3>1. DOMAIN segs' = DOMAIN segs \cup {gen + 1} /\ segs'[gen + 1] = <<>>
      BY <2>2 DEF Rotate, ReopenAfterKill, Reopen, Generations
    <3>2. \A g \in DOMAIN segs : segs'[g] = segs[g]
      <4>1. \A g \in DOMAIN segs : g # gen + 1
        BY <1>1 DEF Segmented
      <4> QED
        BY <4>1, <2>2 DEF Rotate, ReopenAfterKill, Reopen, Generations
    <3>3. /\ Places(segs') = Places(segs)
          /\ \A p \in Places(segs) : segs'[p[1]][p[2]] = segs[p[1]][p[2]]
      BY <3>1, <3>2, LogIsSegmented, SegmentOpened
    <3>4. gen' = gen + 1
      BY <2>2 DEF Rotate, ReopenAfterKill, Reopen
    <3>5. ASSUME NEW g \in DOMAIN segs' PROVE g \in 1..(gen + 1) /\ segs'[g] \in Seq(Op)
      <4>1. CASE g \in DOMAIN segs
        BY <1>0, <1>1, <3>2, <4>1 DEF Segmented
      <4>2. CASE g = gen + 1
        <5>1. segs'[g] = <<>> /\ g \in 1..(gen + 1)
          BY <1>0, <3>1, <4>2
        <5> QED
          BY <5>1
      <4> QED
        BY <3>1, <4>1, <4>2
    <3>6. Segmented(segs', gen', Op) /\ gen' \in DOMAIN segs'
      BY <1>0, <3>1, <3>4, <3>5 DEF Segmented
    <3> QED
      BY <3>3, <3>4, <3>6
  <2> QED
    BY <2>1, <2>2
<1>3. LogTypeOK'
  BY <1>2 DEF LogTypeOK, Segmented, Generations
<1>4. \A U : /\ Chosen(segs', U) = Chosen(segs, U)
             /\ Chosen(segs, U) # {} => LastIn(segs', U) = LastIn(segs, U)
  BY <1>1, <1>2, ChosenSame
<1>5. /\ \A c, d : /\ DocPositions(c, d)' = Chosen(segs', DocOps(c, d))
                   /\ DocPositions(c, d)' # {} =>
                        LastRecord(DocPositions(c, d))' = LastIn(segs', DocOps(c, d))
      /\ \A c : /\ CollPositions(c)' = Chosen(segs', CollOps(c))
                /\ CollPositions(c)' # {} =>
                     LastRecord(CollPositions(c))' = LastIn(segs', CollOps(c))
  BY <1>3, LogNext
<1>6. \A c, d : /\ DocPositions(c, d)' = DocPositions(c, d)
                /\ DocPositions(c, d) # {} =>
                     LastRecord(DocPositions(c, d))' = LastRecord(DocPositions(c, d))
  BY <1>4, <1>5, DocLog
<1>7. \A c : /\ CollPositions(c)' = CollPositions(c)
             /\ CollPositions(c) # {} =>
                  LastRecord(CollPositions(c))' = LastRecord(CollPositions(c))
  BY <1>4, <1>5, CollLog
<1> QED
  BY <1>2, <1>3, <1>6, <1>7

\* An appended record is the last of what it concerns, and newer than any cut.
LEMMA LogAppended ==
    ASSUME LogTypeOK, NEW op \in Op, AppendOp(op)
    PROVE  /\ LogTypeOK' /\ gen' = gen
           /\ \A c, d : op \in DocOps(c, d) =>
                /\ DocPositions(c, d)' # {} /\ LastRecord(DocPositions(c, d))' = op
                /\ \E p \in DocPositions(c, d)' : p[1] = gen
           /\ \A c, d : op \notin DocOps(c, d) =>
                /\ DocPositions(c, d)' = DocPositions(c, d)
                /\ DocPositions(c, d) # {} =>
                     LastRecord(DocPositions(c, d))' = LastRecord(DocPositions(c, d))
           /\ \A c, d : DocPositions(c, d) \subseteq DocPositions(c, d)'
           /\ \A c : op \in CollOps(c) =>
                CollPositions(c)' # {} /\ LastRecord(CollPositions(c))' = op
           /\ \A c : op \notin CollOps(c) =>
                /\ CollPositions(c)' = CollPositions(c)
                /\ CollPositions(c) # {} =>
                     LastRecord(CollPositions(c))' = LastRecord(CollPositions(c))
           /\ \E p \in Positions' : Record(p)' = op
<1>1. Segmented(segs, gen, Op) /\ gen \in DOMAIN segs /\ Positions = Places(segs)
  BY LogIsSegmented
<1>2. /\ DOMAIN segs' = DOMAIN segs /\ segs'[gen] = Append(segs[gen], op)
      /\ \A g \in DOMAIN segs \ {gen} : segs'[g] = segs[g]
  BY <1>1 DEF AppendOp
<1> DEFINE new == <<gen, Len(segs[gen]) + 1>>
<1>3. /\ new \in Nat \X Nat /\ new[1] = gen /\ new \notin Places(segs)
      /\ Places(segs') = Places(segs) \cup {new}
      /\ segs'[new[1]][new[2]] = op
  BY <1>1, <1>2, RecordAppended
<1>4. gen' = gen
  BY DEF AppendOp
<1> HIDE DEF new
<1>5. LogTypeOK'
  <2>1. segs[gen] \in Seq(Op) /\ \A g \in DOMAIN segs : g \in 1..gen /\ segs[g] \in Seq(Op)
    BY <1>1 DEF Segmented
  <2>2. segs'[gen] \in Seq(Op)
    BY <1>2, <2>1, AppendProperties
  <2>3. \A g \in DOMAIN segs' : g \in 1..gen /\ segs'[g] \in Seq(Op)
    BY <1>2, <2>1, <2>2
  <2> QED
    BY <1>1, <1>2, <1>4, <2>3 DEF LogTypeOK, Segmented, Generations
<1>6. \A U : op \in U =>
            /\ LastIn(segs', U) = op
            /\ \E p \in Chosen(segs', U) : p[1] = gen
            /\ \A p \in Chosen(segs, U) : p \in Chosen(segs', U)
  BY <1>1, <1>2, ChosenAppended
<1>7. \A U : op \notin U =>
            /\ Chosen(segs', U) = Chosen(segs, U)
            /\ Chosen(segs, U) # {} => LastIn(segs', U) = LastIn(segs, U)
  BY <1>1, <1>2, ChosenAppended
<1>8. \A c, d : op \in DocOps(c, d) =>
            /\ DocPositions(c, d)' # {} /\ LastRecord(DocPositions(c, d))' = op
            /\ \E p \in DocPositions(c, d)' : p[1] = gen
            /\ DocPositions(c, d) \subseteq DocPositions(c, d)'
  BY <1>5, <1>6, DocLog, LogNext
<1>9. \A c, d : op \notin DocOps(c, d) =>
            /\ DocPositions(c, d)' = DocPositions(c, d)
            /\ DocPositions(c, d) # {} =>
                 LastRecord(DocPositions(c, d))' = LastRecord(DocPositions(c, d))
  BY <1>5, <1>7, DocLog, LogNext
<1>10. \A c : op \in CollOps(c) =>
            CollPositions(c)' # {} /\ LastRecord(CollPositions(c))' = op
  BY <1>5, <1>6, LogNext
<1>11. \A c : op \notin CollOps(c) =>
            /\ CollPositions(c)' = CollPositions(c)
            /\ CollPositions(c) # {} =>
                 LastRecord(CollPositions(c))' = LastRecord(CollPositions(c))
  BY <1>5, <1>7, CollLog, LogNext
<1>12. \E p \in Positions' : Record(p)' = op
  <2>1. (Positions = Places(segs))'
    BY DEF Positions, Places, Generations
  <2> QED
    BY <1>3, <2>1 DEF Record
<1> QED
  BY <1>4, <1>5, <1>8, <1>9, <1>10, <1>11, <1>12

\* retire takes only records of the covered generations, oldest first, so that
\* what is left of a document's or a collection's records ends as before.
LEMMA LogRetired ==
    ASSUME LogTypeOK, covered \in Nat, covered < gen, RetireOldest(covered)
    PROVE  /\ LogTypeOK' /\ gen' = gen
           /\ \A c, d : /\ DocPositions(c, d)' \subseteq DocPositions(c, d)
                        /\ \A p \in DocPositions(c, d) :
                             p[1] > covered => p \in DocPositions(c, d)'
                        /\ DocPositions(c, d)' # {} =>
                             LastRecord(DocPositions(c, d))' = LastRecord(DocPositions(c, d))
           /\ \A c : CollPositions(c)' # {} =>
                /\ CollPositions(c) # {}
                /\ LastRecord(CollPositions(c))' = LastRecord(CollPositions(c))
<1>1. PICK g \in Generations : /\ g <= covered /\ \A h \in Generations : g <= h
                              /\ segs' = [h \in Generations \ {g} |-> segs[h]]
                              /\ gen' = gen
  BY DEF RetireOldest
<1>2. Segmented(segs, gen, Op) /\ gen \in DOMAIN segs /\ gen \in Nat
  BY LogIsSegmented DEF Segmented
<1>3. g \in Nat /\ g # gen
  BY <1>1, <1>2 DEF LogTypeOK
<1>4. Segmented(segs', gen, Op)
  BY <1>1, <1>2, SegmentRemoved DEF Generations
<1>5. LogTypeOK'
  BY <1>1, <1>2, <1>3, <1>4 DEF LogTypeOK, Segmented, Generations
<1>6. \A U : /\ Chosen(segs', U) = {p \in Chosen(segs, U) : p[1] # g}
             /\ Chosen(segs', U) # {} => LastIn(segs', U) = LastIn(segs, U)
  BY <1>1, <1>2, ChosenRemoved DEF Generations
<1>7. ASSUME NEW c, NEW d
      PROVE  /\ DocPositions(c, d)' \subseteq DocPositions(c, d)
             /\ \A p \in DocPositions(c, d) : p[1] > covered => p \in DocPositions(c, d)'
             /\ DocPositions(c, d)' # {} =>
                  LastRecord(DocPositions(c, d))' = LastRecord(DocPositions(c, d))
  <2>1. DocPositions(c, d)' = {p \in DocPositions(c, d) : p[1] # g}
    BY <1>5, <1>6, DocLog, LogNext
  <2>2. ASSUME NEW p \in DocPositions(c, d), p[1] > covered PROVE p[1] # g
    BY <2>2, <1>1, <1>3
  <2>3. ASSUME DocPositions(c, d)' # {}
        PROVE  LastRecord(DocPositions(c, d))' = LastRecord(DocPositions(c, d))
    <3>1. /\ LastRecord(DocPositions(c, d))' = LastIn(segs', DocOps(c, d))
          /\ Chosen(segs', DocOps(c, d)) # {}
      BY <2>3, <1>5, LogNext
    <3>2. LastRecord(DocPositions(c, d)) = LastIn(segs, DocOps(c, d))
      BY <2>1, <2>3, DocLog
    <3> QED
      BY <3>1, <3>2, <1>6
  <2> QED
    BY <2>1, <2>2, <2>3
<1>8. ASSUME NEW c, CollPositions(c)' # {}
      PROVE  /\ CollPositions(c) # {}
             /\ LastRecord(CollPositions(c))' = LastRecord(CollPositions(c))
  BY <1>5, <1>6, <1>8, CollLog, LogNext
<1> QED
  BY <1>1, <1>5, <1>7, <1>8

-----------------------------------------------------------------------------
(* Requests.                                                               *)

LEMMA JobType ==
    ASSUME NEW j \in Job
    PROVE  /\ j # Idle /\ j.coll \in Collection
           /\ j.step \in {"persist", "logDoc", "logCreate", "logDrop", "removeFile", "writeFile"}
           /\ j.step \in {"persist", "logDoc"} => j.doc \in Doc /\ j.value \in Nat
           /\ j.step = "writeFile" => j.value \in Contents
<1>1. j # Idle
  BY DocAssumption
<1>2. CASE j \in [step : {"persist", "logDoc"}, coll : Collection, doc : Doc, value : Nat]
  BY <1>1, <1>2
<1>3. CASE j \in [step : {"logCreate", "logDrop", "removeFile"}, coll : Collection,
                  doc : {Idle}, value : {NoDoc}]
  BY <1>1, <1>3
<1>4. CASE j \in [step : {"writeFile"}, coll : Collection, doc : {Idle}, value : [Doc -> Nat]]
  BY <1>1, <1>4 DEF Contents
<1> QED
  BY <1>2, <1>3, <1>4 DEF Job

\* The request of a client that has one.
LEMMA ClientJob ==
    ASSUME DocTypeOK, NEW r \in Client, job[r] # Idle
    PROVE  /\ job[r] \in Job /\ job[r].coll \in Collection
           /\ job[r].step \in {"persist", "logDoc", "logCreate", "logDrop", "removeFile", "writeFile"}
           /\ job[r].step \in {"persist", "logDoc"} => job[r].doc \in Doc /\ job[r].value \in Nat
           /\ job[r].step = "writeFile" => job[r].value \in Contents
<1>1. job[r] \in Job
  BY DEF DocTypeOK
<1> QED
  BY <1>1, JobType

\* While no drop or compression is under way.
Calm == \A q \in Client : ~ FileRequest(q)

\* Then the collections of all requests exist.
LEMMA CalmJobs ==
    ASSUME DocTypeOK, JobInv, Calm
    PROVE  \A q \in Client : job[q] # Idle =>
             /\ job[q].step \in {"persist", "logDoc", "logCreate"}
             /\ job[q].coll \in exists
<1> SUFFICES ASSUME NEW q \in Client, job[q] # Idle
             PROVE  job[q].step \in {"persist", "logDoc", "logCreate"} /\ job[q].coll \in exists
  OBVIOUS
<1>1. job[q].step \notin {"logDrop", "removeFile", "writeFile"}
  BY DEF Calm, FileRequest
<1>2. job[q].step \in {"persist", "logDoc", "logCreate"}
  BY <1>1, ClientJob
<1> QED
  BY <1>1, <1>2 DEF JobInv

\* While a checkpoint runs, and while another request is under way that is
\* neither a drop nor a compression.
LEMMA CheckpointIsCalm ==
    ASSUME AloneInv, pc # "idle" PROVE Calm
BY DEF AloneInv, Calm

LEMMA RequestIsCalm ==
    ASSUME AloneInv, NEW r \in Client, job[r] # Idle, ~ FileRequest(r) PROVE Calm
BY DEF AloneInv, Calm

-----------------------------------------------------------------------------
(* The checkpoint.                                                         *)

\* What concerns only the requests is not changed by the checkpoint.
LEMMA CheckpointKeepsJobs ==
    ASSUME DocInv, Calm, UNCHANGED <<engineVars, requestVars>>
    PROVE  AloneInv' /\ LockInv' /\ JobInv'
<1> USE DEF DocInv, engineVars, requestVars
<1>1. ASSUME NEW q \in Client PROVE ~ FileRequest(q)'
  BY DEF Calm, FileRequest
<1>2. AloneInv'
  BY <1>1 DEF AloneInv
<1>3. LockInv'
  BY DEF LockInv, At, Persisting, OnDoc, On
<1>4. ASSUME NEW q \in Client, (job[q] # Idle)'
      PROVE  /\ job'[q].coll \in exists' <=> job'[q].step \notin {"logDrop", "removeFile"}
             /\ job'[q].step \notin {"removeFile", "writeFile"}
  BY <1>1, <1>4 DEF JobInv, FileRequest
<1>5. JobInv'
  BY <1>4 DEF JobInv
<1> QED
  BY <1>2, <1>3, <1>5

\* Neither does it change what is recovered while it keeps the log and the files.
LEMMA CheckpointKeepsDocs ==
    ASSUME DocInv, Calm, UNCHANGED <<engineVars, requestVars, fileVars>>,
           Rotate \/ ReopenAfterKill \/ (UNCHANGED segs /\ UNCHANGED gen)
    PROVE  ExistsInv' /\ DocsInv' /\ CollInv'
<1> USE DEF DocInv, engineVars, requestVars, fileVars
<1>1. LogTypeOK
  BY DEF DocTypeOK
<1>2. ExistsInv'
  BY DEF ExistsInv, On
<1>3. \A c, d : Pending(c, d)' <=> Pending(c, d)
  BY DEF Pending, OnDoc, On
<1>4. DocsInv'
  <2> SUFFICES ASSUME NEW c \in Collection, NEW d \in Doc, ~ Pending(c, d)
               PROVE  /\ DocPositions(c, d)' # {} =>
                           Effect(LastRecord(DocPositions(c, d))') = docs'[c][d]
                      /\ DocPositions(c, d)' = {} /\ c \notin orphans' =>
                           docFile'[c][d] = docs'[c][d]
    BY <1>3 DEF DocsInv, Effect
  <2>1. /\ DocPositions(c, d)' = DocPositions(c, d)
        /\ DocPositions(c, d) # {} =>
             LastRecord(DocPositions(c, d))' = LastRecord(DocPositions(c, d))
    BY <1>1, LogKept
  <2> QED
    BY <2>1 DEF DocsInv
<1>5. CollInv'
  <2> SUFFICES ASSUME NEW c \in Collection \ exists, \A r \in Client : ~ On(r, {"logDrop"}, c),
                      CollPositions(c)' # {}
               PROVE  LastRecord(CollPositions(c))'.kind = "CollectionDrop"
    BY DEF CollInv, On
  <2>1. /\ CollPositions(c)' = CollPositions(c)
        /\ CollPositions(c) # {} => LastRecord(CollPositions(c))' = LastRecord(CollPositions(c))
    BY <1>1, LogKept
  <2> QED
    BY <2>1 DEF CollInv
<1> QED
  BY <1>2, <1>4, <1>5

LEMMA StepCut ==
    ASSUME DropsAlone, DocInv, Cut PROVE DocInv'
<1> USE DEF DocInv
<1>1. /\ UNCHANGED <<engineVars, requestVars, fileVars>>
      /\ UNCHANGED <<todo, target, copy>> /\ Rotate
      /\ pc = "idle" /\ pc' = "list" /\ covered' = gen /\ gen' = gen + 1
  BY DEF Cut, Rotate
<1>2. Calm
  BY DEF Cut, Admits, Calm
<1>3. LogTypeOK'
  BY <1>1, LogKept DEF DocTypeOK
<1>4. DocTypeOK'
  <2>1. gen \in Nat
    BY DEF DocTypeOK, LogTypeOK
  <2>2. todo' = {}
    BY <1>1 DEF DocTypeOK
  <2> QED
    BY <1>1, <1>3, <2>1, <2>2 DEF DocTypeOK, engineVars, requestVars, fileVars
<1>5. AloneInv' /\ LockInv' /\ JobInv'
  BY <1>1, <1>2, CheckpointKeepsJobs
<1>6. ExistsInv' /\ DocsInv' /\ CollInv'
  BY <1>1, <1>2, CheckpointKeepsDocs
<1>7. CopyInv' /\ FileInv'
  BY <1>1 DEF CopyInv, FileInv
<1> QED
  BY <1>4, <1>5, <1>6, <1>7

\* What is listed are the collections there are; the others have no file.
LEMMA StepListCollections ==
    ASSUME DocInv, ListCollections PROVE DocInv'
<1> USE DEF DocInv
<1>1. /\ UNCHANGED <<engineVars, requestVars, fileVars>> /\ UNCHANGED <<segs, gen>>
      /\ UNCHANGED <<covered, target, copy>>
      /\ pc = "list" /\ pc' = "find" /\ todo' = exists
  BY DEF ListCollections, CutClean
<1>2. Calm
  BY <1>1, CheckpointIsCalm
<1>3. LogTypeOK'
  BY <1>1, LogKept DEF DocTypeOK
<1>4. DocTypeOK'
  BY <1>1, <1>3 DEF DocTypeOK, engineVars, requestVars, fileVars
<1>5. AloneInv' /\ LockInv' /\ JobInv'
  BY <1>1, <1>2, CheckpointKeepsJobs
<1>6. ExistsInv' /\ DocsInv' /\ CollInv'
  BY <1>1, <1>2, CheckpointKeepsDocs
<1>7. CopyInv'
  BY <1>1 DEF CopyInv
<1>8. ASSUME NEW c \in Collection \ (exists \cup orphans), NEW d \in Doc
      PROVE  docFile[c][d] = docs[c][d]
  <2>1. c \notin files
    BY <1>2, <1>8 DEF ExistsInv, Calm, FileRequest, On
  <2> QED
    BY <1>8, <2>1 DEF ExistsInv
<1>9. FileInv'
  BY <1>1, <1>8 DEF FileInv, engineVars, fileVars
<1> QED
  BY <1>4, <1>5, <1>6, <1>7, <1>9

\* Steps of the checkpoint that keep the log, the files and what it covers.
LEMMA CheckpointQuiet ==
    ASSUME DocInv, Calm, UNCHANGED <<engineVars, requestVars, fileVars>>,
           UNCHANGED <<segs, gen>>
    PROVE  /\ LogTypeOK' /\ AloneInv' /\ LockInv' /\ JobInv' /\ ExistsInv' /\ DocsInv' /\ CollInv'
           /\ \A c, d : Pending(c, d)' <=> Pending(c, d)
           /\ covered' = covered => \A c, d : Newer(c, d)' <=> Newer(c, d)
<1>1. LogTypeOK /\ LogTypeOK'
  BY LogKept DEF DocInv, DocTypeOK
<1>2. AloneInv' /\ LockInv' /\ JobInv' /\ ExistsInv' /\ DocsInv' /\ CollInv'
  BY CheckpointKeepsJobs, CheckpointKeepsDocs
<1>3. \A c, d : Pending(c, d)' <=> Pending(c, d)
  BY DEF Pending, OnDoc, On, requestVars
<1>4. \A c, d : DocPositions(c, d)' = DocPositions(c, d)
  BY <1>1, LogKept
<1>5. covered' = covered => \A c, d : Newer(c, d)' <=> Newer(c, d)
  BY <1>4 DEF Newer
<1> QED
  BY <1>1, <1>2, <1>3, <1>5

LEMMA StepFindDocs ==
    ASSUME DocInv, NEW c \in Collection, FindDocs(c) PROVE DocInv'
<1> USE DEF DocInv
<1>1. /\ UNCHANGED <<engineVars, requestVars, fileVars>> /\ UNCHANGED <<segs, gen>>
      /\ covered' = covered /\ pc = "find" /\ c \in todo /\ todo' = todo \ {c}
  BY DEF FindDocs, logVars
<1>2. c \in exists /\ target' = c /\ copy' = docs[c] /\ pc' = "write"
  BY <1>1 DEF FindDocs, DocTypeOK
<1>3. Calm
  BY <1>1, CheckpointIsCalm
<1>4. /\ LogTypeOK' /\ AloneInv' /\ LockInv' /\ JobInv' /\ ExistsInv' /\ DocsInv' /\ CollInv'
      /\ \A e, d : Pending(e, d)' <=> Pending(e, d)
      /\ \A e, d : Newer(e, d)' <=> Newer(e, d)
  BY <1>1, <1>3, CheckpointQuiet
<1>5. DocTypeOK'
  BY <1>1, <1>2, <1>4 DEF DocTypeOK, engineVars, requestVars, fileVars
<1>6. CopyInv'
  BY <1>1, <1>2 DEF CopyInv, engineVars
<1>7. FileInv'
  <2> SUFFICES ASSUME NEW e \in Collection \ (todo' \cup orphans'), NEW d \in Doc, e # c
               PROVE  Pending(e, d)' \/ Newer(e, d)' \/ docFile'[e][d] = docs'[e][d]
    BY <1>2 DEF FileInv
  <2>1. e \notin todo \cup orphans
    BY <1>1 DEF fileVars
  <2>2. Pending(e, d) \/ Newer(e, d) \/ docFile[e][d] = docs[e][d]
    BY <1>1, <2>1 DEF FileInv
  <2> QED
    BY <1>1, <1>4, <2>2 DEF engineVars, fileVars
<1> QED
  BY <1>4, <1>5, <1>6, <1>7

LEMMA StepStartRetire ==
    ASSUME DocInv, StartRetire PROVE DocInv'
<1> USE DEF DocInv
<1>1. /\ UNCHANGED <<engineVars, requestVars, fileVars>> /\ UNCHANGED <<segs, gen>>
      /\ UNCHANGED <<covered, todo, target, copy>>
      /\ pc = "find" /\ pc' = "retire" /\ todo = {}
  BY DEF StartRetire, logVars
<1>2. Calm
  BY <1>1, CheckpointIsCalm
<1>3. /\ LogTypeOK' /\ AloneInv' /\ LockInv' /\ JobInv' /\ ExistsInv' /\ DocsInv' /\ CollInv'
      /\ \A e, d : Pending(e, d)' <=> Pending(e, d)
      /\ \A e, d : Newer(e, d)' <=> Newer(e, d)
  BY <1>1, <1>2, CheckpointQuiet
<1>4. DocTypeOK'
  BY <1>1, <1>3 DEF DocTypeOK, engineVars, requestVars, fileVars
<1>5. CopyInv'
  BY <1>1 DEF CopyInv
<1>6. FileInv'
  BY <1>1, <1>3 DEF FileInv, engineVars, fileVars
<1> QED
  BY <1>3, <1>4, <1>5, <1>6

LEMMA StepReturn ==
    ASSUME DocInv, pc # "idle", Return, UNCHANGED <<logVars, engineVars, requestVars, fileVars>>
    PROVE  DocInv'
<1> USE DEF DocInv
<1>1. UNCHANGED <<segs, gen>> /\ pc' = "idle" /\ todo' = {}
  BY DEF Return, logVars
<1>2. Calm
  BY CheckpointIsCalm
<1>3. LogTypeOK' /\ AloneInv' /\ LockInv' /\ JobInv' /\ ExistsInv' /\ DocsInv' /\ CollInv'
  BY <1>1, <1>2, CheckpointQuiet
<1>4. DocTypeOK'
  BY <1>1, <1>3 DEF DocTypeOK, engineVars, requestVars, fileVars
<1>5. CopyInv' /\ FileInv'
  BY <1>1 DEF CopyInv, FileInv
<1> QED
  BY <1>3, <1>4, <1>5

\* Where a file is written, and nothing else, the other collections keep theirs.
LEMMA FileWritten ==
    ASSUME DocTypeOK, NEW c \in Collection, NEW contents \in Contents, WriteFile(c, contents)
    PROVE  /\ files' = files \cup {c} /\ orphans' = orphans \ {c}
           /\ docFile' \in [Collection -> Contents] /\ docFile'[c] = contents
           /\ \A e \in Collection \ {c} : docFile'[e] = docFile[e]
BY DEF WriteFile, DocTypeOK

\* What is written is what was read; where it is not what is in memory, the log
\* has a newer record or a request still has to log one.
LEMMA StepWriteDocs ==
    ASSUME DocInv, WriteDocs PROVE DocInv'
<1> USE DEF DocInv
<1>1. /\ UNCHANGED <<engineVars, requestVars>> /\ UNCHANGED <<segs, gen>>
      /\ UNCHANGED <<covered, todo, target, copy>>
      /\ pc = "write" /\ pc' = "find" /\ WriteFile(target, copy)
  BY DEF WriteDocs, logVars
<1>2. /\ target \in exists /\ target \in Collection /\ copy \in Contents
      /\ covered \in Nat
  BY <1>1 DEF DocTypeOK
<1>3. Calm
  BY <1>1, CheckpointIsCalm
<1>4. LogTypeOK /\ LogTypeOK'
  BY <1>1, LogKept DEF DocTypeOK
<1>5. \A c, d : /\ DocPositions(c, d)' = DocPositions(c, d)
                /\ DocPositions(c, d) # {} =>
                     LastRecord(DocPositions(c, d))' = LastRecord(DocPositions(c, d))
  BY <1>1, <1>4, LogKept
<1>6. \A c : /\ CollPositions(c)' = CollPositions(c)
             /\ CollPositions(c) # {} =>
                  LastRecord(CollPositions(c))' = LastRecord(CollPositions(c))
  BY <1>1, <1>4, LogKept
<1>7. \A c, d : (Pending(c, d)' <=> Pending(c, d)) /\ (Newer(c, d)' <=> Newer(c, d))
  BY <1>1, <1>5 DEF Pending, OnDoc, On, Newer, requestVars
<1>8. /\ files' = files \cup {target} /\ orphans' = orphans \ {target}
      /\ docFile' \in [Collection -> Contents] /\ docFile'[target] = copy
      /\ \A e \in Collection \ {target} : docFile'[e] = docFile[e]
  BY <1>1, <1>2, FileWritten
<1>9. DocTypeOK'
  BY <1>1, <1>2, <1>4, <1>8 DEF DocTypeOK, engineVars, requestVars
<1>10. AloneInv' /\ LockInv' /\ JobInv'
  BY <1>1, <1>3, CheckpointKeepsJobs
<1>11. ExistsInv'
  <2>1. \A e \in Collection \ exists : docs[e] = NoDocs
    BY DEF ExistsInv
  <2>2. \A e \in Collection \ files' : docFile'[e] = NoDocs
    BY <1>8 DEF ExistsInv
  <2>3. \A e \in files' \ (exists \cup orphans') : \E r \in Client : On(r, {"logDrop", "removeFile"}, e)
    BY <1>2, <1>8 DEF ExistsInv
  <2> QED
    BY <1>1, <2>1, <2>2, <2>3 DEF ExistsInv, On, engineVars, requestVars
<1>12. DocsInv'
  <2> SUFFICES ASSUME NEW c \in Collection, NEW d \in Doc, ~ Pending(c, d)
               PROVE  /\ DocPositions(c, d)' # {} =>
                           Effect(LastRecord(DocPositions(c, d))') = docs[c][d]
                      /\ DocPositions(c, d)' = {} /\ c \notin orphans' =>
                           docFile'[c][d] = docs[c][d]
    BY <1>1, <1>7 DEF DocsInv, Effect, engineVars
  <2>1. DocPositions(c, d)' # {} => Effect(LastRecord(DocPositions(c, d))') = docs[c][d]
    BY <1>5 DEF DocsInv
  <2>2. ASSUME DocPositions(c, d)' = {}, c \notin orphans' PROVE docFile'[c][d] = docs[c][d]
    <3>1. CASE c = target
      <4>1. ~ Newer(c, d)
        BY <1>5, <2>2 DEF Newer
      <4> QED
        BY <1>1, <1>8, <3>1, <4>1 DEF CopyInv
    <3>2. CASE c # target
      BY <1>5, <1>8, <2>2, <3>2 DEF DocsInv
    <3> QED
      BY <3>1, <3>2
  <2> QED
    BY <2>1, <2>2
<1>13. CollInv'
  BY <1>1, <1>6 DEF CollInv, On, engineVars, requestVars
<1>14. CopyInv'
  BY <1>1 DEF CopyInv
<1>15. FileInv'
  <2> SUFFICES ASSUME NEW e \in Collection \ (todo \cup orphans'), NEW d \in Doc
               PROVE  Pending(e, d) \/ Newer(e, d) \/ docFile'[e][d] = docs[e][d]
    BY <1>1, <1>7 DEF FileInv, engineVars
  <2>1. CASE e = target
    BY <1>1, <1>8, <2>1 DEF CopyInv
  <2>2. CASE e # target
    BY <1>1, <1>8, <2>2 DEF FileInv
  <2> QED
    BY <2>1, <2>2
<1> QED
  BY <1>9, <1>10, <1>11, <1>12, <1>13, <1>14, <1>15

\* When the last record of a document goes, it has none newer than the cut, and
\* so the file has what is in memory.
LEMMA StepRetire ==
    ASSUME DocInv, Retire PROVE DocInv'
<1> USE DEF DocInv
<1>1. /\ UNCHANGED <<engineVars, requestVars, fileVars>> /\ UNCHANGED checkpointVars
      /\ pc = "retire" /\ RetireOldest(covered)
  BY DEF Retire
<1>2. LogTypeOK /\ covered \in Nat /\ covered < gen /\ todo = {}
  BY <1>1 DEF DocTypeOK
<1>3. Calm
  BY <1>1, CheckpointIsCalm
<1>4. /\ LogTypeOK' /\ gen' = gen
      /\ \A c, d : /\ DocPositions(c, d)' \subseteq DocPositions(c, d)
                   /\ \A p \in DocPositions(c, d) :
                        p[1] > covered => p \in DocPositions(c, d)'
                   /\ DocPositions(c, d)' # {} =>
                        LastRecord(DocPositions(c, d))' = LastRecord(DocPositions(c, d))
      /\ \A c : CollPositions(c)' # {} =>
           /\ CollPositions(c) # {}
           /\ LastRecord(CollPositions(c))' = LastRecord(CollPositions(c))
  BY <1>1, <1>2, LogRetired
<1>5. \A c, d : Pending(c, d)' <=> Pending(c, d)
  BY <1>1 DEF Pending, OnDoc, On, requestVars
<1>6. \A c, d : Newer(c, d)' <=> Newer(c, d)
  BY <1>1, <1>4 DEF Newer, checkpointVars
<1>7. DocTypeOK'
  BY <1>1, <1>4 DEF DocTypeOK, engineVars, requestVars, fileVars, checkpointVars
<1>8. AloneInv' /\ LockInv' /\ JobInv'
  BY <1>1, <1>3, CheckpointKeepsJobs
<1>9. ExistsInv'
  BY <1>1 DEF ExistsInv, On, engineVars, requestVars, fileVars
<1>10. DocsInv'
  <2> SUFFICES ASSUME NEW c \in Collection, NEW d \in Doc, ~ Pending(c, d)
               PROVE  /\ DocPositions(c, d)' # {} =>
                           Effect(LastRecord(DocPositions(c, d))') = docs[c][d]
                      /\ DocPositions(c, d)' = {} /\ c \notin orphans =>
                           docFile[c][d] = docs[c][d]
    BY <1>1, <1>5 DEF DocsInv, Effect, engineVars, fileVars
  <2>1. DocPositions(c, d)' # {} => Effect(LastRecord(DocPositions(c, d))') = docs[c][d]
    <3>1. DocPositions(c, d)' # {} => DocPositions(c, d) # {}
      BY <1>4
    <3> QED
      BY <1>4, <3>1 DEF DocsInv
  <2>2. ASSUME DocPositions(c, d)' = {}, c \notin orphans PROVE docFile[c][d] = docs[c][d]
    <3>1. ~ Newer(c, d)
      BY <1>6, <2>2 DEF Newer
    <3> QED
      BY <1>1, <1>2, <2>2, <3>1 DEF FileInv
  <2> QED
    BY <2>1, <2>2
<1>11. CollInv'
  BY <1>1, <1>4 DEF CollInv, On, engineVars, requestVars
<1>12. CopyInv' /\ FileInv'
  BY <1>1, <1>5, <1>6 DEF CopyInv, FileInv, engineVars, fileVars, checkpointVars
<1> QED
  BY <1>7, <1>8, <1>9, <1>10, <1>11, <1>12

-----------------------------------------------------------------------------
(* Requests that are made.                                                 *)

\* The requests on documents and the creation of a collection: the engine's
\* part changes only documents the request still has to log.
LEMMA RequestMade ==
    ASSUME DocInv, Calm, NEW r \in Client, job[r] = Idle,
           NEW j \in Job, j.step \in {"persist", "logCreate"},
           NEW contents \in Contents,
           \A d \in Doc : contents[d] = docs[j.coll][d] \/ (j.step = "persist" /\ j.doc = d),
           job' = [job EXCEPT ![r] = j],
           docs' = [docs EXCEPT ![j.coll] = contents],
           exists' = exists \cup {j.coll}, writes' \in Nat,
           UNCHANGED <<logVars, docLog, fileVars, checkpointVars>>
    PROVE  DocInv'
<1> DEFINE c == j.coll
<1> USE DEF DocInv
<1>0. c \in Collection /\ j # Idle /\ (j.step = "persist" => j.doc \in Doc /\ j.value \in Nat)
  BY JobType
<1>1. job' \in [Client -> Job \cup {Idle}] /\ job'[r] = j /\ \A q \in Client \ {r} : job'[q] = job[q]
  BY DEF DocTypeOK
<1>2. /\ docs' \in [Collection -> Contents] /\ docs'[c] = contents
      /\ \A e \in Collection \ {c} : docs'[e] = docs[e]
  BY <1>0 DEF DocTypeOK
<1>3. UNCHANGED <<segs, gen, docLog, files, docFile, orphans, pc, covered, todo, target, copy>>
  BY DEF logVars, fileVars, checkpointVars
<1>4. LogTypeOK /\ LogTypeOK'
  BY <1>3, LogKept DEF DocTypeOK
<1> HIDE DEF c
<1>5. \A e \in Collection, d \in Doc : Pending(e, d) => Pending(e, d)'
  <2> SUFFICES ASSUME NEW e \in Collection, NEW d \in Doc, Pending(e, d) PROVE Pending(e, d)'
    OBVIOUS
  <2>1. PICK q \in Client : OnDoc(q, {"persist", "logDoc"}, e, d) \/ On(q, {"logDrop"}, e)
    BY DEF Pending
  <2>2. q # r
    BY <2>1 DEF OnDoc, On
  <2> QED
    BY <1>1, <2>1, <2>2 DEF Pending, OnDoc, On
<1>6. \A d \in Doc : contents[d] = docs[c][d] \/ Persisting(c, d)'
  BY <1>0, <1>1 DEF Persisting, OnDoc, On, c
<1>7. \A e \in Collection, d \in Doc :
        docs'[e][d] = docs[e][d] \/ (e = c /\ Persisting(e, d)' /\ Pending(e, d)')
  BY <1>2, <1>6 DEF Persisting, Pending, OnDoc, On
<1>8. ASSUME NEW q \in Client, job'[q] # Idle
      PROVE  job'[q].step \in {"persist", "logDoc", "logCreate"} /\ job'[q].coll \in exists'
  <2>1. CASE q = r
    BY <1>1, <2>1 DEF c
  <2>2. CASE q # r
    BY <1>1, <1>8, <2>2, CalmJobs
  <2> QED
    BY <2>1, <2>2
<1>9. Calm'
  BY <1>8 DEF Calm, FileRequest
<1>10. DocTypeOK'
  BY <1>0, <1>1, <1>2, <1>3, <1>4 DEF DocTypeOK, c
<1>11. AloneInv'
  BY <1>9 DEF AloneInv, Calm
<1>12. LockInv'
  <2> SUFFICES ASSUME NEW q \in Client, NEW e \in Collection, NEW d \in Doc,
                      OnDoc(q, {"logDoc"}, e, d)'
               PROVE  docLog' = q /\ (job'[q].value = docs'[e][d] \/ Persisting(e, d)')
    BY DEF LockInv
  <2>1. q # r /\ OnDoc(q, {"logDoc"}, e, d)
    BY <1>1 DEF OnDoc, On
  <2>2. docLog = q /\ (job[q].value = docs[e][d] \/ Persisting(e, d))
    BY <2>1 DEF LockInv
  <2>3. Persisting(e, d) => Persisting(e, d)'
    BY <1>1 DEF Persisting, OnDoc, On
  <2> QED
    BY <1>1, <1>3, <1>7, <2>1, <2>2, <2>3
<1>13. JobInv'
  BY <1>8 DEF JobInv
<1>14. ExistsInv'
  <2>1. \A e \in Collection \ exists' : docs'[e] = NoDocs
    BY <1>2 DEF ExistsInv, c
  <2>2. \A e \in Collection \ files : docFile[e] = NoDocs
    BY DEF ExistsInv
  <2>3. files \ (exists' \cup orphans) = {}
    BY DEF ExistsInv, Calm, FileRequest, On
  <2> QED
    BY <1>3, <2>1, <2>2, <2>3 DEF ExistsInv
<1>15. DocsInv'
  <2> SUFFICES ASSUME NEW e \in Collection, NEW d \in Doc, ~ Pending(e, d)'
               PROVE  /\ DocPositions(e, d)' # {} =>
                           Effect(LastRecord(DocPositions(e, d))') = docs'[e][d]
                      /\ DocPositions(e, d)' = {} /\ e \notin orphans' =>
                           docFile'[e][d] = docs'[e][d]
    BY DEF DocsInv, Effect
  <2>1. ~ Pending(e, d) /\ docs'[e][d] = docs[e][d]
    BY <1>5, <1>7
  <2>2. /\ DocPositions(e, d)' = DocPositions(e, d)
        /\ DocPositions(e, d) # {} =>
             LastRecord(DocPositions(e, d))' = LastRecord(DocPositions(e, d))
    BY <1>3, <1>4, LogKept
  <2> QED
    BY <1>3, <2>1, <2>2 DEF DocsInv
<1>16. CollInv'
  <2> SUFFICES ASSUME NEW e \in Collection \ exists', CollPositions(e)' # {}
               PROVE  LastRecord(CollPositions(e))'.kind = "CollectionDrop"
    BY DEF CollInv
  <2>1. /\ CollPositions(e)' = CollPositions(e)
        /\ CollPositions(e) # {} => LastRecord(CollPositions(e))' = LastRecord(CollPositions(e))
    BY <1>3, <1>4, LogKept
  <2>2. \A q \in Client : ~ On(q, {"logDrop"}, e)
    BY DEF Calm, FileRequest, On
  <2> QED
    BY <2>1, <2>2 DEF CollInv
<1>17. \A e, d : Newer(e, d)' <=> Newer(e, d)
  BY <1>3, <1>4, LogKept DEF Newer
<1>18. CopyInv'
  <2> SUFFICES ASSUME pc = "write", NEW e \in Collection, target = e, NEW d \in Doc
               PROVE  Pending(e, d)' \/ Newer(e, d)' \/ copy'[d] = docs'[e][d]
    BY <1>3 DEF CopyInv
  <2>1. Pending(e, d) \/ Newer(e, d) \/ copy[d] = docs[e][d]
    BY DEF CopyInv
  <2> QED
    BY <1>3, <1>5, <1>7, <1>17, <2>1
<1>19. FileInv'
  <2> SUFFICES ASSUME pc \in {"find", "write", "retire"},
                      NEW e \in Collection \ (todo \cup orphans), NEW d \in Doc,
                      ~ (pc = "write" /\ e = target)
               PROVE  Pending(e, d)' \/ Newer(e, d)' \/ docFile'[e][d] = docs'[e][d]
    BY <1>3 DEF FileInv
  <2>1. Pending(e, d) \/ Newer(e, d) \/ docFile[e][d] = docs[e][d]
    BY DEF FileInv
  <2> QED
    BY <1>3, <1>5, <1>7, <1>17, <2>1
<1> QED
  BY <1>10, <1>11, <1>12, <1>13, <1>14, <1>15, <1>16, <1>18, <1>19

LEMMA StepDocRequest ==
    ASSUME DropsAlone, DocInv, NEW r \in Client, NEW c \in Collection, NEW d \in Doc,
           Insert(r, c, d) \/ Update(r, c, d) \/ Delete(r, c, d)
    PROVE  DocInv'
<1> DEFINE j == [step |-> "persist", coll |-> c, doc |-> d, value |-> NoDoc]
<1>1. DocTypeOK /\ ExistsInv /\ writes + 1 \in Nat /\ NoDoc \in Nat
  BY DEF DocInv, DocTypeOK, NoDoc
<1>2. /\ job[r] = Idle /\ Calm /\ writes' = writes + 1
      /\ UNCHANGED <<logVars, docLog, fileVars, checkpointVars>>
      /\ job' = [job EXCEPT ![r] = j]
  BY DEF Insert, Update, Delete, Request, Then, Admits, Calm
<1>3. j \in Job /\ j.step = "persist" /\ j.coll = c /\ j.doc = d
  BY DEF Job, NoDoc
<1>4. \E v \in Nat : docs' = [docs EXCEPT ![c][d] = v]
  BY <1>1 DEF Insert, Update, Delete, SetDoc
<1>5. PICK v \in Nat : docs' = [docs EXCEPT ![c] = [docs[c] EXCEPT ![d] = v]]
  BY <1>4
<1>6. PICK contents : contents = [docs[c] EXCEPT ![d] = v]
  OBVIOUS
<1>7. contents \in Contents /\ \A e \in Doc \ {d} : contents[e] = docs[c][e]
  BY <1>1, <1>6 DEF DocTypeOK, Contents
<1>8. exists' = exists \cup {c}
  <2>1. CASE Insert(r, c, d)
    BY <2>1 DEF Insert
  <2>2. CASE Update(r, c, d) \/ Delete(r, c, d)
    <3>1. exists' = exists /\ docs[c][d] # NoDoc
      BY <2>2 DEF Update, Delete
    <3>2. c \in exists
      BY <1>1, <3>1 DEF ExistsInv, NoDocs
    <3> QED
      BY <3>1, <3>2
  <2> QED
    BY <2>1, <2>2
<1> HIDE DEF j
<1>9. /\ docs' = [docs EXCEPT ![j.coll] = contents] /\ exists' = exists \cup {j.coll}
      /\ \A e \in Doc : contents[e] = docs[j.coll][e] \/ (j.step = "persist" /\ j.doc = e)
      /\ j.step \in {"persist", "logCreate"} /\ writes' \in Nat
  BY <1>1, <1>2, <1>3, <1>5, <1>6, <1>7, <1>8
<1> QED
  BY <1>2, <1>3, <1>7, <1>9, RequestMade

LEMMA StepCreateCollection ==
    ASSUME DropsAlone, DocInv, NEW r \in Client, NEW c \in Collection, CreateCollection(r, c)
    PROVE  DocInv'
<1> DEFINE j == [step |-> "logCreate", coll |-> c, doc |-> Idle, value |-> NoDoc]
<1>1. DocTypeOK /\ writes + 1 \in Nat
  BY DEF DocInv, DocTypeOK
<1>2. /\ job[r] = Idle /\ Calm /\ writes' = writes + 1
      /\ UNCHANGED <<logVars, docLog, fileVars, checkpointVars>>
      /\ job' = [job EXCEPT ![r] = j]
      /\ docs' = docs /\ exists' = exists \cup {c}
  BY DEF CreateCollection, Request, Then, Admits, Calm
<1>3. j \in Job /\ j.step = "logCreate" /\ j.coll = c
  BY DEF Job
<1>4. PICK contents : contents = docs[c]
  OBVIOUS
<1>5. contents \in Contents /\ docs' = [docs EXCEPT ![c] = contents]
  BY <1>1, <1>2, <1>4 DEF DocTypeOK
<1> HIDE DEF j
<1> QED
  BY <1>1, <1>2, <1>3, <1>4, <1>5, RequestMade

\* Drops and compressions find the engine without any request.
LEMMA AloneRequest ==
    ASSUME DropsAlone, DocInv, NEW r \in Client, NEW c \in Collection,
           DropCollection(r, c) \/ CompressCollection(r, c)
    PROVE  /\ pc = "idle" /\ \A q \in Client : job[q] = Idle
           /\ c \in exists /\ writes' \in Nat
           /\ UNCHANGED <<segs, gen, docLog, files, docFile, orphans,
                          pc, covered, todo, target, copy>>
<1>1. writes' = writes + 1 /\ writes \in Nat
  BY DEF DropCollection, CompressCollection, Request, DocInv, DocTypeOK
<1> QED
  BY <1>1 DEF DropCollection, CompressCollection, Request, Admits, logVars, fileVars, checkpointVars

LEMMA StepDropCollection ==
    ASSUME DropsAlone, DocInv, NEW r \in Client, NEW c \in Collection, DropCollection(r, c)
    PROVE  DocInv'
<1> DEFINE j == [step |-> "logDrop", coll |-> c, doc |-> Idle, value |-> NoDoc]
<1> USE DEF DocInv
<1>1. /\ pc = "idle" /\ \A q \in Client : job[q] = Idle
      /\ c \in exists /\ writes' \in Nat
      /\ UNCHANGED <<segs, gen, docLog, files, docFile, orphans,
                     pc, covered, todo, target, copy>>
  BY AloneRequest
<1>2. /\ exists' = exists \ {c} /\ docs' = [docs EXCEPT ![c] = NoDocs]
      /\ job' = [job EXCEPT ![r] = j]
  BY DEF DropCollection, Then
<1>3. j \in Job /\ j # Idle /\ j.step = "logDrop" /\ j.coll = c
  <2>1. j \in Job /\ j.step = "logDrop" /\ j.coll = c
    BY DEF Job
  <2> HIDE DEF j
  <2> QED
    BY <2>1, JobType
<1> HIDE DEF j
<1>4. /\ job' \in [Client -> Job \cup {Idle}] /\ job'[r] = j
      /\ \A q \in Client \ {r} : job'[q] = Idle
  BY <1>1, <1>2, <1>3 DEF DocTypeOK
<1>5. NoDocs \in Contents
  BY DEF NoDocs, NoDoc, Contents
<1>6. /\ docs' \in [Collection -> Contents] /\ docs'[c] = NoDocs
      /\ \A e \in Collection \ {c} : docs'[e] = docs[e]
  BY <1>2, <1>5 DEF DocTypeOK
<1>7. LogTypeOK /\ LogTypeOK'
  BY <1>1, LogKept DEF DocTypeOK
<1>8. DocTypeOK'
  BY <1>1, <1>2, <1>4, <1>6, <1>7 DEF DocTypeOK
<1>9. AloneInv'
  BY <1>1, <1>4 DEF AloneInv, FileRequest
<1>10. LockInv'
  BY <1>3, <1>4 DEF LockInv, OnDoc, On
<1>11. JobInv'
  BY <1>2, <1>3, <1>4 DEF JobInv
<1>12. On(r, {"logDrop"}, c)' /\ On(r, {"logDrop", "removeFile"}, c)'
  BY <1>3, <1>4 DEF On
<1>13. ExistsInv'
  <2>1. \A e \in Collection \ exists' : docs'[e] = NoDocs
    BY <1>2, <1>6 DEF ExistsInv
  <2>2. \A e \in files \ (exists \cup orphans) : FALSE
    BY <1>1 DEF ExistsInv, On
  <2> QED
    BY <1>1, <1>2, <1>12, <2>1, <2>2 DEF ExistsInv
<1>14. DocsInv'
  <2> SUFFICES ASSUME NEW e \in Collection, NEW d \in Doc, ~ Pending(e, d)'
               PROVE  /\ DocPositions(e, d)' # {} =>
                           Effect(LastRecord(DocPositions(e, d))') = docs'[e][d]
                      /\ DocPositions(e, d)' = {} /\ e \notin orphans' =>
                           docFile'[e][d] = docs'[e][d]
    BY DEF DocsInv, Effect
  <2>1. e # c
    BY <1>12 DEF Pending
  <2>2. ~ Pending(e, d)
    BY <1>1 DEF Pending, OnDoc, On
  <2>3. /\ DocPositions(e, d)' = DocPositions(e, d)
        /\ DocPositions(e, d) # {} =>
             LastRecord(DocPositions(e, d))' = LastRecord(DocPositions(e, d))
    BY <1>1, <1>7, LogKept
  <2> QED
    BY <1>1, <1>6, <2>1, <2>2, <2>3 DEF DocsInv
<1>15. CollInv'
  <2> SUFFICES ASSUME NEW e \in Collection \ exists', \A q \in Client : ~ On(q, {"logDrop"}, e)',
                      CollPositions(e)' # {}
               PROVE  LastRecord(CollPositions(e))'.kind = "CollectionDrop"
    BY DEF CollInv
  <2>1. e \notin exists
    BY <1>2, <1>12
  <2>2. /\ CollPositions(e)' = CollPositions(e)
        /\ CollPositions(e) # {} => LastRecord(CollPositions(e))' = LastRecord(CollPositions(e))
    BY <1>1, <1>7, LogKept
  <2>3. \A q \in Client : ~ On(q, {"logDrop"}, e)
    BY <1>1 DEF On
  <2> QED
    BY <2>1, <2>2, <2>3 DEF CollInv
<1>16. CopyInv' /\ FileInv'
  BY <1>1 DEF CopyInv, FileInv
<1> QED
  BY <1>8, <1>9, <1>10, <1>11, <1>13, <1>14, <1>15, <1>16

LEMMA StepCompressCollection ==
    ASSUME DropsAlone, DocInv, NEW r \in Client, NEW c \in Collection, CompressCollection(r, c)
    PROVE  DocInv'
<1> DEFINE j == [step |-> "writeFile", coll |-> c, doc |-> Idle, value |-> docs[c]]
<1> USE DEF DocInv
<1>1. /\ pc = "idle" /\ \A q \in Client : job[q] = Idle
      /\ c \in exists /\ writes' \in Nat
      /\ UNCHANGED <<segs, gen, docLog, files, docFile, orphans,
                     pc, covered, todo, target, copy>>
  BY AloneRequest
<1>2. UNCHANGED <<exists, docs>> /\ job' = [job EXCEPT ![r] = j]
  BY DEF CompressCollection
<1>3. j \in Job /\ j # Idle /\ j.step = "writeFile" /\ j.coll = c /\ j.value = docs[c]
  <2>1. j \in Job /\ j.step = "writeFile" /\ j.coll = c /\ j.value = docs[c]
    BY DEF Job, DocTypeOK, Contents
  <2> HIDE DEF j
  <2> QED
    BY <2>1, JobType
<1> HIDE DEF j
<1>4. /\ job' \in [Client -> Job \cup {Idle}] /\ job'[r] = j
      /\ \A q \in Client \ {r} : job'[q] = Idle
  BY <1>1, <1>2, <1>3 DEF DocTypeOK
<1>5. LogTypeOK /\ LogTypeOK'
  BY <1>1, LogKept DEF DocTypeOK
<1>6. DocTypeOK'
  BY <1>1, <1>2, <1>4, <1>5 DEF DocTypeOK
<1>7. AloneInv'
  BY <1>1, <1>4 DEF AloneInv, FileRequest
<1>8. LockInv'
  BY <1>3, <1>4 DEF LockInv, OnDoc, On
<1>9. JobInv'
  BY <1>1, <1>2, <1>3, <1>4 DEF JobInv
<1>10. ExistsInv'
  <2>1. \A e \in files \ (exists \cup orphans) : FALSE
    BY <1>1 DEF ExistsInv, On
  <2> QED
    BY <1>1, <1>2, <2>1 DEF ExistsInv
<1>11. DocsInv'
  <2> SUFFICES ASSUME NEW e \in Collection, NEW d \in Doc
               PROVE  /\ DocPositions(e, d)' # {} =>
                           Effect(LastRecord(DocPositions(e, d))') = docs'[e][d]
                      /\ DocPositions(e, d)' = {} /\ e \notin orphans' =>
                           docFile'[e][d] = docs'[e][d]
    BY DEF DocsInv, Effect
  <2>1. ~ Pending(e, d)
    BY <1>1 DEF Pending, OnDoc, On
  <2>2. /\ DocPositions(e, d)' = DocPositions(e, d)
        /\ DocPositions(e, d) # {} =>
             LastRecord(DocPositions(e, d))' = LastRecord(DocPositions(e, d))
    BY <1>1, <1>5, LogKept
  <2> QED
    BY <1>1, <1>2, <2>1, <2>2 DEF DocsInv
<1>12. CollInv'
  <2> SUFFICES ASSUME NEW e \in Collection \ exists', CollPositions(e)' # {}
               PROVE  LastRecord(CollPositions(e))'.kind = "CollectionDrop"
    BY DEF CollInv
  <2>1. /\ CollPositions(e)' = CollPositions(e)
        /\ CollPositions(e) # {} => LastRecord(CollPositions(e))' = LastRecord(CollPositions(e))
    BY <1>1, <1>5, LogKept
  <2>2. \A q \in Client : ~ On(q, {"logDrop"}, e)
    BY <1>1 DEF On
  <2> QED
    BY <1>2, <2>1, <2>2 DEF CollInv
<1>13. CopyInv' /\ FileInv'
  BY <1>1 DEF CopyInv, FileInv
<1> QED
  BY <1>6, <1>7, <1>8, <1>9, <1>10, <1>11, <1>12, <1>13

-----------------------------------------------------------------------------
(* The rest of a request.                                                  *)

LEMMA StepPersistRead ==
    ASSUME DocInv, NEW r \in Client, PersistRead(r) PROVE DocInv'
<1> USE DEF DocInv
<1>1. /\ job[r] # Idle /\ job[r].step = "persist" /\ docLog = Idle /\ docLog' = r
      /\ UNCHANGED <<engineVars, fileVars, checkpointVars>> /\ UNCHANGED <<segs, gen>>
  BY DEF PersistRead, At, logVars
<1>2. ~ FileRequest(r) /\ Calm
  BY <1>1, RequestIsCalm DEF FileRequest
<1>3. PICK c \in Collection, d \in Doc : c = job[r].coll /\ d = job[r].doc /\ job[r] \in Job
  BY <1>1, ClientJob
<1>4. docs[c][d] \in Nat /\ \A q \in Client : q # Idle
  BY DocAssumption DEF DocTypeOK, Contents
<1>5. PICK j \in Job, v \in Nat : j = job[r] /\ v = docs[c][d]
  BY <1>3, <1>4
<1> DEFINE k == [[j EXCEPT !.step = "logDoc"] EXCEPT !.value = v]
<1>6. k \in Job /\ k # Idle /\ k.step = "logDoc" /\ k.coll = c /\ k.doc = d /\ k.value = docs[c][d]
  <2>1. j.step = "persist" /\ j.coll = c /\ j.doc = d
    BY <1>1, <1>3, <1>5
  <2>2. k \in Job /\ k.step = "logDoc" /\ k.coll = j.coll /\ k.doc = j.doc /\ k.value = v
    <3>1. j \in [step : {"persist", "logDoc"}, coll : Collection, doc : Doc, value : Nat]
      BY <2>1 DEF Job
    <3>2. /\ k \in [step : {"persist", "logDoc"}, coll : Collection, doc : Doc, value : Nat]
          /\ k.step = "logDoc" /\ k.coll = j.coll /\ k.doc = j.doc /\ k.value = v
      BY <3>1
    <3> HIDE DEF k
    <3> QED
      BY <3>2 DEF Job
  <2> HIDE DEF k
  <2> QED
    BY <1>5, <2>1, <2>2, JobType
<1>7. /\ job' \in [Client -> Job \cup {Idle}] /\ job'[r] = k
      /\ \A q \in Client \ {r} : job'[q] = job[q]
  <2>1. job' = [job EXCEPT ![r] = k]
    BY <1>3, <1>5 DEF PersistRead, DocTypeOK
  <2> HIDE DEF k
  <2> QED
    BY <1>6, <2>1 DEF DocTypeOK
<1> HIDE DEF k
<1>8. UNCHANGED <<exists, docs, writes, files, docFile, orphans, pc, covered, todo, target, copy>>
  BY <1>1 DEF engineVars, fileVars, checkpointVars
<1>9. LogTypeOK /\ LogTypeOK'
  BY <1>1, LogKept DEF DocTypeOK
<1>10. DocTypeOK'
  BY <1>1, <1>7, <1>8, <1>9 DEF DocTypeOK
<1>11. \A e, f : Pending(e, f)' <=> Pending(e, f)
  BY <1>1, <1>3, <1>6, <1>7 DEF Pending, OnDoc, On
<1>12. \A q \in Client : ~ FileRequest(q)'
  BY <1>2, <1>6, <1>7 DEF Calm, FileRequest
<1>13. AloneInv'
  BY <1>12 DEF AloneInv
<1>14. LockInv'
  BY <1>1, <1>4, <1>6, <1>7, <1>8 DEF LockInv, OnDoc, On
<1>15. JobInv'
  <2>1. job[r].coll \in exists
    BY <1>1, <1>2, CalmJobs
  <2> QED
    BY <1>2, <1>3, <1>6, <1>7, <1>8, <2>1, CalmJobs DEF JobInv
<1>16. ExistsInv'
  <2>1. files \ (exists \cup orphans) = {}
    BY <1>2 DEF ExistsInv, Calm, FileRequest, On
  <2> QED
    BY <1>8, <2>1 DEF ExistsInv
<1>17. /\ \A e, f : /\ DocPositions(e, f)' = DocPositions(e, f)
                    /\ DocPositions(e, f) # {} =>
                         LastRecord(DocPositions(e, f))' = LastRecord(DocPositions(e, f))
       /\ \A e : /\ CollPositions(e)' = CollPositions(e)
                 /\ CollPositions(e) # {} =>
                      LastRecord(CollPositions(e))' = LastRecord(CollPositions(e))
  BY <1>1, <1>9, LogKept
<1>18. \A e, f : Newer(e, f)' <=> Newer(e, f)
  BY <1>8, <1>17 DEF Newer
<1>19. DocsInv'
  BY <1>8, <1>11, <1>17 DEF DocsInv, Effect
<1>20. CollInv'
  <2>1. \A q \in Client : \A e : ~ On(q, {"logDrop"}, e)
    BY <1>2 DEF Calm, FileRequest, On
  <2> QED
    BY <1>8, <1>17, <2>1 DEF CollInv
<1>21. CopyInv' /\ FileInv'
  BY <1>8, <1>11, <1>18 DEF CopyInv, FileInv
<1> QED
  BY <1>10, <1>13, <1>14, <1>15, <1>16, <1>19, <1>20, <1>21

\* A record that leaves out no request: the ones on documents and the creation
\* of a collection, as they are logged and their requests return.
LEMMA RecordLogged ==
    ASSUME DocInv, NEW r \in Client, NEW c \in Collection, NEW op \in Op, AppendOp(op),
           On(r, {"logDoc", "logCreate"}, c), op.coll = c, op.kind # "CollectionDrop",
           job' = [job EXCEPT ![r] = Idle],
           \A d \in Doc : op \in DocOps(c, d) /\ ~ Persisting(c, d) => Effect(op) = docs[c][d],
           \A d \in Doc : OnDoc(r, {"logDoc"}, c, d) => op \in DocOps(c, d),
           \A q \in Client \ {r} : ~ At(q, "logDoc"),
           UNCHANGED <<engineVars, fileVars, checkpointVars>>
    PROVE  DocInv'
<1> USE DEF DocInv
<1>1. job[r] # Idle /\ job[r].coll = c /\ job[r].step \in {"logDoc", "logCreate"}
  BY DEF On
<1>2. Calm
  BY <1>1, RequestIsCalm DEF FileRequest
<1>3. c \in exists
  BY <1>1, <1>2, CalmJobs
<1>4. /\ job' \in [Client -> Job \cup {Idle}] /\ job'[r] = Idle
      /\ \A q \in Client \ {r} : job'[q] = job[q]
  BY DEF DocTypeOK
<1>5. UNCHANGED <<exists, docs, writes, files, docFile, orphans, pc, covered, todo, target, copy>>
  BY DEF engineVars, fileVars, checkpointVars
<1>6. /\ LogTypeOK' /\ gen' = gen
      /\ \A e, d : op \in DocOps(e, d) =>
           /\ DocPositions(e, d)' # {} /\ LastRecord(DocPositions(e, d))' = op
           /\ \E p \in DocPositions(e, d)' : p[1] = gen
      /\ \A e, d : op \notin DocOps(e, d) =>
           /\ DocPositions(e, d)' = DocPositions(e, d)
           /\ DocPositions(e, d) # {} =>
                LastRecord(DocPositions(e, d))' = LastRecord(DocPositions(e, d))
      /\ \A e, d : DocPositions(e, d) \subseteq DocPositions(e, d)'
      /\ \A e : op \notin CollOps(e) =>
           /\ CollPositions(e)' = CollPositions(e)
           /\ CollPositions(e) # {} =>
                LastRecord(CollPositions(e))' = LastRecord(CollPositions(e))
  BY LogAppended DEF DocTypeOK
<1>7. DocTypeOK'
  BY <1>4, <1>5, <1>6 DEF DocTypeOK
<1>8. \A q \in Client : ~ FileRequest(q)'
  BY <1>2, <1>4 DEF Calm, FileRequest
<1>9. AloneInv'
  BY <1>8 DEF AloneInv
<1>10. LockInv'
  BY <1>4 DEF LockInv, OnDoc, On, At
<1>11. JobInv'
  <2>1. \A q \in Client : job'[q] # Idle => job'[q] = job[q] /\ job[q] # Idle
    BY <1>4
  <2> QED
    BY <1>2, <1>5, <2>1, CalmJobs DEF JobInv
<1>12. ExistsInv'
  <2>1. files \ (exists \cup orphans) = {}
    BY <1>2 DEF ExistsInv, Calm, FileRequest, On
  <2> QED
    BY <1>5, <2>1 DEF ExistsInv
<1>13. \A e \in Collection, d \in Doc : Pending(e, d) /\ ~ (e = c /\ op \in DocOps(c, d)) => Pending(e, d)'
  <2> SUFFICES ASSUME NEW e \in Collection, NEW d \in Doc, Pending(e, d),
                      ~ (e = c /\ op \in DocOps(c, d))
               PROVE  Pending(e, d)'
    OBVIOUS
  <2>1. PICK q \in Client : OnDoc(q, {"persist", "logDoc"}, e, d) \/ On(q, {"logDrop"}, e)
    BY DEF Pending
  <2>2. q # r
    BY <1>1, <2>1 DEF OnDoc, On
  <2> QED
    BY <1>4, <2>1, <2>2 DEF Pending, OnDoc, On
<1>14. \A e \in Collection, d \in Doc : Persisting(e, d) => Pending(e, d)'
  <2> SUFFICES ASSUME NEW e \in Collection, NEW d \in Doc, Persisting(e, d) PROVE Pending(e, d)'
    OBVIOUS
  <2>1. PICK q \in Client : OnDoc(q, {"persist"}, e, d)
    BY DEF Persisting
  <2>2. q # r
    BY <1>1, <2>1 DEF OnDoc, On
  <2> QED
    BY <1>4, <2>1, <2>2 DEF Pending, OnDoc, On
<1>15. \A e, d : op \in DocOps(e, d) => e = c
  BY DEF DocOps
<1>16. DocsInv'
  <2> SUFFICES ASSUME NEW e \in Collection, NEW d \in Doc, ~ Pending(e, d)'
               PROVE  /\ DocPositions(e, d)' # {} =>
                           Effect(LastRecord(DocPositions(e, d))') = docs[e][d]
                      /\ DocPositions(e, d)' = {} /\ e \notin orphans =>
                           docFile[e][d] = docs[e][d]
    BY <1>5 DEF DocsInv, Effect
  <2>1. CASE op \in DocOps(e, d)
    BY <1>6, <1>14, <1>15, <2>1
  <2>2. CASE op \notin DocOps(e, d)
    <3>1. ~ Pending(e, d)
      BY <1>13, <2>2
    <3> QED
      BY <1>6, <2>2, <3>1 DEF DocsInv
  <2> QED
    BY <2>1, <2>2
<1>17. CollInv'
  <2> SUFFICES ASSUME NEW e \in Collection \ exists, CollPositions(e)' # {}
               PROVE  LastRecord(CollPositions(e))'.kind = "CollectionDrop"
    BY <1>5 DEF CollInv
  <2>1. op \notin CollOps(e)
    BY <1>3 DEF CollOps
  <2>2. \A q \in Client : ~ On(q, {"logDrop"}, e)
    BY <1>2 DEF Calm, FileRequest, On
  <2> QED
    BY <1>6, <2>1, <2>2 DEF CollInv
<1>18. ASSUME pc # "idle", NEW e \in Collection, NEW d \in Doc, Pending(e, d) \/ Newer(e, d)
       PROVE  Pending(e, d)' \/ Newer(e, d)'
  <2>1. covered' = covered /\ covered \in Nat /\ gen \in Nat /\ gen > covered
    BY <1>5, <1>18 DEF DocTypeOK, LogTypeOK
  <2>2. CASE op \in DocOps(e, d)
    BY <1>6, <2>1, <2>2 DEF Newer
  <2>3. CASE op \notin DocOps(e, d)
    <3>1. Newer(e, d) => Newer(e, d)'
      BY <1>6, <2>1 DEF Newer
    <3> QED
      BY <1>13, <1>18, <2>3, <3>1
  <2> QED
    BY <2>2, <2>3
<1>19. CopyInv'
  BY <1>5, <1>18 DEF CopyInv
<1>20. FileInv'
  BY <1>5, <1>18 DEF FileInv
<1> QED
  BY <1>7, <1>9, <1>10, <1>11, <1>12, <1>16, <1>17, <1>19, <1>20

\* What persist_docs logs is the document as it is, unless another request still
\* has to log it.
LEMMA StepPersistLog ==
    ASSUME DocInv, NEW r \in Client, PersistLog(r) PROVE DocInv'
<1>1. /\ job[r] # Idle /\ job[r].step = "logDoc"
      /\ UNCHANGED <<engineVars, fileVars, checkpointVars>> /\ job' = [job EXCEPT ![r] = Idle]
  BY DEF PersistLog, At, Done
<1>2. PICK c \in Collection, d \in Doc, v \in Nat :
        c = job[r].coll /\ d = job[r].doc /\ v = job[r].value
  BY <1>1, ClientJob DEF DocInv
<1>3. PICK op : op = IF v = NoDoc THEN DocDelete(c, d) ELSE DocPut(c, d, v)
  OBVIOUS
<1>4. AppendOp(op)
  BY <1>2, <1>3 DEF PersistLog
<1>5. op \in Op /\ op.coll = c /\ op.doc = d /\ op.kind \in {"DocPut", "DocDelete"} /\ Effect(op) = v
  BY <1>3 DEF Op, DocPut, DocDelete, Effect, NoDoc
<1>6. op \in DocOps(c, d) /\ \A e : op \in DocOps(c, e) => e = d
  BY <1>5 DEF DocOps
<1>7. OnDoc(r, {"logDoc"}, c, d) /\ On(r, {"logDoc", "logCreate"}, c)
  BY <1>1, <1>2 DEF OnDoc, On
<1>8. docLog = r /\ (v = docs[c][d] \/ Persisting(c, d))
  BY <1>2, <1>7 DEF DocInv, LockInv
<1>9. \A e \in Doc : op \in DocOps(c, e) /\ ~ Persisting(c, e) => Effect(op) = docs[c][e]
  BY <1>5, <1>6, <1>8
<1>10. \A e \in Doc : OnDoc(r, {"logDoc"}, c, e) => op \in DocOps(c, e)
  BY <1>2, <1>6 DEF OnDoc
<1>11. \A q \in Client \ {r} : ~ At(q, "logDoc")
  <2> SUFFICES ASSUME NEW q \in Client, At(q, "logDoc") PROVE q = r
    OBVIOUS
  <2>1. PICK e \in Collection, f \in Doc : OnDoc(q, {"logDoc"}, e, f)
    BY ClientJob DEF At, OnDoc, On, DocInv
  <2> QED
    BY <1>8, <2>1 DEF DocInv, LockInv
<1> QED
  BY <1>1, <1>4, <1>5, <1>7, <1>9, <1>10, <1>11, RecordLogged

LEMMA StepLogCreate ==
    ASSUME DocInv, NEW r \in Client, LogCreate(r) PROVE DocInv'
<1>1. /\ job[r] # Idle /\ job[r].step = "logCreate" /\ docLog = Idle
      /\ UNCHANGED <<engineVars, fileVars, checkpointVars>> /\ job' = [job EXCEPT ![r] = Idle]
  BY DEF LogCreate, At, Done
<1>2. PICK c \in Collection : c = job[r].coll
  BY <1>1, ClientJob DEF DocInv
<1>3. PICK op : op = CollectionCreate(c)
  OBVIOUS
<1>4. AppendOp(op)
  BY <1>2, <1>3 DEF LogCreate
<1>5. op \in Op /\ op.coll = c /\ op.kind = "CollectionCreate"
  BY <1>3 DEF Op, CollectionCreate
<1>6. \A d : op \notin DocOps(c, d)
  BY <1>5 DEF DocOps
<1>7. On(r, {"logDoc", "logCreate"}, c) /\ \A d : ~ OnDoc(r, {"logDoc"}, c, d)
  BY <1>1, <1>2 DEF OnDoc, On
<1>8. \A q \in Client \ {r} : ~ At(q, "logDoc")
  <2> SUFFICES ASSUME NEW q \in Client, At(q, "logDoc") PROVE FALSE
    OBVIOUS
  <2>1. PICK e \in Collection, f \in Doc : OnDoc(q, {"logDoc"}, e, f)
    BY ClientJob DEF At, OnDoc, On, DocInv
  <2> QED
    BY <1>1, <2>1, DocAssumption DEF DocInv, LockInv
<1> QED
  BY <1>1, <1>4, <1>5, <1>6, <1>7, <1>8, RecordLogged

\* The requests that have the engine to themselves.
LEMMA AloneClient ==
    ASSUME DocInv, NEW r \in Client, FileRequest(r), NEW k \in Job \cup {Idle},
           job' = [job EXCEPT ![r] = k]
    PROVE  /\ pc = "idle" /\ \A q \in Client \ {r} : job[q] = Idle
           /\ job' \in [Client -> Job \cup {Idle}] /\ job'[r] = k
           /\ \A q \in Client \ {r} : job'[q] = Idle
BY DEF DocInv, AloneInv, DocTypeOK

\* The record of the drop is the last of the collection and of its documents.
LEMMA StepLogDrop ==
    ASSUME DocInv, NEW r \in Client, LogDrop(r) PROVE DocInv'
<1> USE DEF DocInv
<1>1. /\ job[r] # Idle /\ job[r].step = "logDrop"
      /\ UNCHANGED <<engineVars, docLog, fileVars, checkpointVars>>
  BY DEF LogDrop, At
<1>2. PICK c \in Collection, j \in Job : c = job[r].coll /\ j = job[r]
  BY <1>1, ClientJob
<1> DEFINE k == [j EXCEPT !.step = "removeFile"]
<1>3. k \in Job /\ k # Idle /\ k.step = "removeFile" /\ k.coll = c
  <2>1. j \in [step : {"logCreate", "logDrop", "removeFile"}, coll : Collection,
               doc : {Idle}, value : {NoDoc}]
    BY <1>1, <1>2 DEF Job
  <2>2. /\ k \in [step : {"logCreate", "logDrop", "removeFile"}, coll : Collection,
                  doc : {Idle}, value : {NoDoc}]
        /\ k.step = "removeFile" /\ k.coll = c
    BY <1>2, <2>1
  <2> HIDE DEF k
  <2> QED
    BY <2>2, JobType DEF Job
<1>4. job' = [job EXCEPT ![r] = k]
  BY <1>2 DEF LogDrop
<1> HIDE DEF k
<1>5. FileRequest(r)
  BY <1>1 DEF FileRequest
<1>6. /\ pc = "idle" /\ \A q \in Client \ {r} : job[q] = Idle
      /\ job' \in [Client -> Job \cup {Idle}] /\ job'[r] = k
      /\ \A q \in Client \ {r} : job'[q] = Idle
  BY <1>3, <1>4, <1>5, AloneClient
<1>7. UNCHANGED <<exists, docs, writes, files, docFile, orphans, pc, covered, todo, target, copy>>
  BY <1>1 DEF engineVars, fileVars, checkpointVars
<1>8. c \notin exists /\ docs[c] = NoDocs
  BY <1>1, <1>2 DEF JobInv, ExistsInv
<1>9. PICK op : op = CollectionDrop(c)
  OBVIOUS
<1>10. op \in Op /\ op.coll = c /\ op.kind = "CollectionDrop" /\ Effect(op) = NoDoc
  BY <1>9 DEF Op, CollectionDrop, Effect
<1>11. /\ \A d : op \in DocOps(c, d)
       /\ op \in CollOps(c)
       /\ \A e, d : e # c => op \notin DocOps(e, d) /\ op \notin CollOps(e)
  BY <1>10 DEF DocOps, CollOps
<1>12. AppendOp(op)
  BY <1>2, <1>9 DEF LogDrop
<1>13. /\ LogTypeOK' /\ gen' = gen
       /\ \A d : DocPositions(c, d)' # {} /\ LastRecord(DocPositions(c, d))' = op
       /\ \A e, d : e # c =>
            /\ DocPositions(e, d)' = DocPositions(e, d)
            /\ DocPositions(e, d) # {} =>
                 LastRecord(DocPositions(e, d))' = LastRecord(DocPositions(e, d))
       /\ CollPositions(c)' # {} /\ LastRecord(CollPositions(c))' = op
       /\ \A e : e # c =>
            /\ CollPositions(e)' = CollPositions(e)
            /\ CollPositions(e) # {} =>
                 LastRecord(CollPositions(e))' = LastRecord(CollPositions(e))
       /\ \E p \in Positions' : Record(p)' = op
  BY <1>10, <1>11, <1>12, LogAppended DEF DocTypeOK
<1>14. DocTypeOK'
  BY <1>6, <1>7, <1>13 DEF DocTypeOK
<1>15. AloneInv'
  BY <1>6, <1>7 DEF AloneInv, FileRequest
<1>16. LockInv'
  BY <1>3, <1>6 DEF LockInv, OnDoc, On
<1>17. JobInv'
  BY <1>3, <1>6, <1>7, <1>8, <1>9, <1>13 DEF JobInv, CollectionDrop
<1>18. On(r, {"logDrop", "removeFile"}, c)' /\ \A q \in Client : \A e : ~ On(q, {"logDrop"}, e)'
  BY <1>3, <1>6 DEF On
<1>19. ExistsInv'
  <2>1. \A e \in files \ (exists \cup orphans) : e = c
    BY <1>2, <1>6 DEF ExistsInv, On
  <2> QED
    BY <1>7, <1>18, <2>1 DEF ExistsInv
<1>20. DocsInv'
  <2> SUFFICES ASSUME NEW e \in Collection, NEW d \in Doc
               PROVE  /\ DocPositions(e, d)' # {} =>
                           Effect(LastRecord(DocPositions(e, d))') = docs[e][d]
                      /\ DocPositions(e, d)' = {} /\ e \notin orphans =>
                           docFile[e][d] = docs[e][d]
    BY <1>7 DEF DocsInv, Effect
  <2>1. CASE e = c
    BY <1>8, <1>10, <1>13, <2>1 DEF NoDocs
  <2>2. CASE e # c
    <3>1. ~ Pending(e, d)
      BY <1>2, <1>6, <2>2 DEF Pending, OnDoc, On
    <3> QED
      BY <1>13, <2>2, <3>1 DEF DocsInv
  <2> QED
    BY <2>1, <2>2
<1>21. CollInv'
  <2> SUFFICES ASSUME NEW e \in Collection \ exists, CollPositions(e)' # {}
               PROVE  LastRecord(CollPositions(e))'.kind = "CollectionDrop"
    BY <1>7 DEF CollInv
  <2>1. CASE e = c
    BY <1>10, <1>13, <2>1
  <2>2. CASE e # c
    <3>1. \A q \in Client : ~ On(q, {"logDrop"}, e)
      BY <1>2, <1>6, <2>2 DEF On
    <3> QED
      BY <1>13, <2>2, <3>1 DEF CollInv
  <2> QED
    BY <2>1, <2>2
<1>22. CopyInv' /\ FileInv'
  BY <1>6, <1>7 DEF CopyInv, FileInv
<1> QED
  BY <1>14, <1>15, <1>16, <1>17, <1>19, <1>20, <1>21, <1>22

\* The last step of a drop and of a compression: the file of the collection.
LEMMA FileStep ==
    ASSUME DocInv, NEW r \in Client, FileRequest(r), job[r].step # "logDrop",
           job' = [job EXCEPT ![r] = Idle],
           NEW c \in Collection, c = job[r].coll,
           files' \subseteq Collection,
           \A e \in Collection \ {c} : e \in files' <=> e \in files,
           docFile' \in [Collection -> Contents], orphans' = orphans \ {c},
           \A e \in Collection \ {c} : docFile'[e] = docFile[e],
           c \notin files' => docFile'[c] = NoDocs,
           c \in files' => c \in exists,
           \A d \in Doc : DocPositions(c, d) = {} => docFile'[c][d] = docs[c][d],
           UNCHANGED <<logVars, engineVars, docLog, checkpointVars>>
    PROVE  DocInv'
<1> USE DEF DocInv
<1>1. /\ pc = "idle" /\ \A q \in Client \ {r} : job[q] = Idle
      /\ job' \in [Client -> Job \cup {Idle}] /\ \A q \in Client : job'[q] = Idle
  BY AloneClient
<1>2. UNCHANGED <<segs, gen, exists, docs, writes, pc, covered, todo, target, copy>>
  BY DEF logVars, engineVars, checkpointVars
<1>3. LogTypeOK /\ LogTypeOK'
  BY <1>2, LogKept DEF DocTypeOK
<1>4. DocTypeOK'
  BY <1>1, <1>2, <1>3 DEF DocTypeOK
<1>5. AloneInv' /\ LockInv' /\ JobInv'
  BY <1>1 DEF AloneInv, LockInv, JobInv, FileRequest, OnDoc, On
<1>6. ExistsInv'
  <2>1. \A e \in Collection \ files' : docFile'[e] = NoDocs
    BY DEF ExistsInv
  <2>2. files' \ (exists \cup orphans') = {}
    <3> SUFFICES ASSUME NEW e \in files', e \notin exists \cup orphans' PROVE FALSE
      OBVIOUS
    <3>1. e # c /\ e \in files \ (exists \cup orphans)
      OBVIOUS
    <3> QED
      BY <1>1, <3>1 DEF ExistsInv, On
  <2> QED
    BY <1>2, <2>1, <2>2 DEF ExistsInv
<1>7. \A q \in Client : \A e : ~ On(q, {"logDrop"}, e)
  BY <1>1 DEF On
<1>8. /\ \A e, f : /\ DocPositions(e, f)' = DocPositions(e, f)
                   /\ DocPositions(e, f) # {} =>
                        LastRecord(DocPositions(e, f))' = LastRecord(DocPositions(e, f))
      /\ \A e : /\ CollPositions(e)' = CollPositions(e)
                /\ CollPositions(e) # {} =>
                     LastRecord(CollPositions(e))' = LastRecord(CollPositions(e))
  BY <1>2, <1>3, LogKept
<1>9. DocsInv'
  <2> SUFFICES ASSUME NEW e \in Collection, NEW d \in Doc
               PROVE  /\ DocPositions(e, d) # {} => Effect(LastRecord(DocPositions(e, d))) = docs[e][d]
                      /\ DocPositions(e, d) = {} /\ e \notin orphans' => docFile'[e][d] = docs[e][d]
    BY <1>2, <1>8 DEF DocsInv, Effect
  <2>1. ~ Pending(e, d)
    <3>1. \A q \in Client : ~ OnDoc(q, {"persist", "logDoc"}, e, d)
      BY <1>1 DEF OnDoc, On, FileRequest
    <3> QED
      BY <1>7, <3>1 DEF Pending
  <2> QED
    BY <2>1 DEF DocsInv
<1>10. CollInv'
  BY <1>2, <1>7, <1>8 DEF CollInv
<1>11. CopyInv' /\ FileInv'
  BY <1>1, <1>2 DEF CopyInv, FileInv
<1> QED
  BY <1>4, <1>5, <1>6, <1>9, <1>10, <1>11

LEMMA StepRemoveFile ==
    ASSUME DocInv, NEW r \in Client, RemoveFile(r) PROVE DocInv'
<1>1. /\ job[r] # Idle /\ job[r].step = "removeFile"
      /\ UNCHANGED <<logVars, engineVars, docLog, checkpointVars>>
      /\ job' = [job EXCEPT ![r] = Idle]
  BY DEF RemoveFile, At, Done
<1>2. PICK c \in Collection : c = job[r].coll
  BY <1>1, ClientJob DEF DocInv
<1>3. FileRequest(r) /\ job[r].step # "logDrop"
  BY <1>1 DEF FileRequest
<1>4. files' = files \ {c} /\ docFile' = [docFile EXCEPT ![c] = NoDocs] /\ orphans' = orphans \ {c}
  BY <1>2 DEF RemoveFile
<1>5. files' \subseteq Collection /\ c \notin files' /\ \A e \in Collection \ {c} : e \in files' <=> e \in files
  BY <1>4 DEF DocInv, DocTypeOK
<1>6. /\ docFile' \in [Collection -> Contents] /\ docFile'[c] = NoDocs
      /\ \A e \in Collection \ {c} : docFile'[e] = docFile[e]
  <2>1. NoDocs \in Contents
    BY DEF NoDocs, NoDoc, Contents
  <2> QED
    BY <1>4, <2>1 DEF DocInv, DocTypeOK
<1>7. \A d \in Doc : DocPositions(c, d) # {}
  <2>1. PICK p \in Positions : Record(p) = CollectionDrop(c)
    BY <1>1, <1>2 DEF DocInv, JobInv
  <2>2. CollectionDrop(c).coll = c /\ CollectionDrop(c).kind = "CollectionDrop"
    BY DEF CollectionDrop
  <2>3. \A d : p \in DocPositions(c, d)
    BY <2>1, <2>2 DEF DocPositions
  <2> QED
    BY <2>3
<1> QED
  BY <1>1, <1>2, <1>3, <1>4, <1>5, <1>6, <1>7, FileStep

LEMMA StepWriteCompressed ==
    ASSUME DocInv, NEW r \in Client, WriteCompressed(r) PROVE DocInv'
<1>1. /\ job[r] # Idle /\ job[r].step = "writeFile"
      /\ UNCHANGED <<logVars, engineVars, docLog, checkpointVars>>
      /\ job' = [job EXCEPT ![r] = Idle]
  BY DEF WriteCompressed, At, Done
<1>2. PICK c \in Collection, contents \in Contents : c = job[r].coll /\ contents = job[r].value
  BY <1>1, ClientJob DEF DocInv
<1>3. FileRequest(r) /\ job[r].step # "logDrop"
  BY <1>1 DEF FileRequest
<1>4. WriteFile(c, contents)
  BY <1>2 DEF WriteCompressed
<1>5. c \in exists /\ contents = docs[c]
  BY <1>1, <1>2 DEF DocInv, JobInv
<1>6. /\ files' = files \cup {c} /\ orphans' = orphans \ {c}
      /\ docFile' \in [Collection -> Contents] /\ docFile'[c] = contents
      /\ \A e \in Collection \ {c} : docFile'[e] = docFile[e]
  BY <1>4, FileWritten DEF DocInv
<1>7. files' \subseteq Collection /\ c \in files' /\ \A e \in Collection \ {c} : e \in files' <=> e \in files
  BY <1>6 DEF DocInv, DocTypeOK
<1>8. \A d \in Doc : docFile'[c][d] = docs[c][d]
  BY <1>5, <1>6
<1> QED
  BY <1>1, <1>2, <1>3, <1>5, <1>6, <1>7, <1>8, FileStep

-----------------------------------------------------------------------------
(* A killed process.                                                       *)

\* Replay ends with a record that no other one follows.
LEMMA LastRecordIs ==
    ASSUME LogTypeOK, NEW S \in SUBSET Positions, S # {}
    PROVE  \E p \in S : /\ LastRecord(S) = Record(p) /\ Record(p) \in Op
                        /\ \A q \in S : ~ Before(p, q)
<1> DEFINE c == CHOOSE p \in S : \A q \in S : ~ Before(p, q)
<1>1. Segmented(segs, gen, Op) /\ Positions = Places(segs)
  BY LogIsSegmented
<1>2. PICK p : LastOf(p, S)
  BY <1>1, PlacesLast
<1>3. p \in S /\ \A q \in S : ~ Before(p, q)
  BY <1>2 DEF LastOf, Before, Earlier
<1>4. c \in S /\ \A q \in S : ~ Before(c, q)
  BY <1>3
<1>5. Record(c) \in Op
  BY <1>1, <1>4, PlacesType DEF Record
<1> QED
  BY <1>4, <1>5 DEF LastRecord

LEMMA RecoveredType ==
    LogTypeOK /\ docFile \in [Collection -> Contents] =>
        \A c \in Collection, d \in Doc : RecoveredDoc(c, d) \in Nat
<1> SUFFICES ASSUME LogTypeOK, docFile \in [Collection -> Contents],
                    NEW c \in Collection, NEW d \in Doc
             PROVE  RecoveredDoc(c, d) \in Nat
  OBVIOUS
<1>1. CASE DocPositions(c, d) = {}
  BY <1>1 DEF RecoveredDoc, Contents
<1>2. CASE DocPositions(c, d) # {}
  <2>1. DocPositions(c, d) \in SUBSET Positions
    BY DEF DocPositions
  <2>2. LastRecord(DocPositions(c, d)) \in Op
    BY <1>2, <2>1, LastRecordIs
  <2>3. \A op \in Op : Effect(op) \in Nat
    BY DEF Op, Effect, NoDoc
  <2> QED
    BY <1>2, <2>2, <2>3 DEF RecoveredDoc
<1> QED
  BY <1>1, <1>2

\* A collection that is not recovered has no document that is.
LEMMA NothingRecovered ==
    LogTypeOK /\ (\A c \in Collection \ files : docFile[c] = NoDocs) =>
        \A c \in Collection, d \in Doc : ~ RecoveredExists(c) => RecoveredDoc(c, d) = NoDoc
<1> SUFFICES ASSUME LogTypeOK, \A c \in Collection \ files : docFile[c] = NoDocs,
                    NEW c \in Collection, NEW d \in Doc, ~ RecoveredExists(c)
             PROVE  RecoveredDoc(c, d) = NoDoc
  OBVIOUS
<1>1. DocPositions(c, d) \in SUBSET Positions /\ CollPositions(c) \in SUBSET Positions
  BY DEF DocPositions, CollPositions
<1>2. CASE DocPositions(c, d) = {}
  <2>1. CollPositions(c) = {}
    <3> SUFFICES ASSUME CollPositions(c) # {} PROVE FALSE
      OBVIOUS
    <3>1. PICK p \in CollPositions(c) : LastRecord(CollPositions(c)) = Record(p)
      BY <1>1, LastRecordIs
    <3>2. Record(p).kind = "CollectionDrop" /\ Record(p).coll = c
      BY <3>1 DEF RecoveredExists, CollPositions
    <3> QED
      BY <1>1, <1>2, <3>1, <3>2 DEF DocPositions
  <2>2. c \notin files
    BY <2>1 DEF RecoveredExists
  <2> QED
    BY <1>2, <2>2 DEF RecoveredDoc, NoDocs
<1>3. CASE DocPositions(c, d) # {}
  <2>1. PICK p \in DocPositions(c, d) : /\ LastRecord(DocPositions(c, d)) = Record(p)
                                        /\ Record(p) \in Op
                                        /\ \A q \in DocPositions(c, d) : ~ Before(p, q)
    BY <1>1, <1>3, LastRecordIs
  <2>2. Record(p).kind # "DocPut"
    <3> SUFFICES ASSUME Record(p).kind = "DocPut" PROVE FALSE
      OBVIOUS
    <3>1. p \in CollPositions(c)
      BY <1>1, <2>1 DEF DocPositions, CollPositions
    <3>2. PICK q \in CollPositions(c) : /\ LastRecord(CollPositions(c)) = Record(q)
                                        /\ \A x \in CollPositions(c) : ~ Before(q, x)
      BY <1>1, <3>1, LastRecordIs
    <3>3. Record(q).kind = "CollectionDrop" /\ Record(q).coll = c
      BY <3>1, <3>2 DEF RecoveredExists, CollPositions
    <3>4. q \in DocPositions(c, d)
      BY <1>1, <3>2, <3>3 DEF DocPositions
    <3>5. ~ Before(p, q) /\ ~ Before(q, p)
      BY <2>1, <3>1, <3>2, <3>4
    <3>6. p \in Nat \X Nat /\ q \in Nat \X Nat
      <4>1. Positions \in SUBSET (Nat \X Nat)
        BY LogIsSegmented, PlacesType
      <4> QED
        BY <1>1, <4>1, <2>1, <3>2
    <3>7. p = q
      BY <3>5, <3>6 DEF Before
    <3> QED
      BY <3>3, <3>7
  <2> QED
    BY <1>3, <2>1, <2>2 DEF RecoveredDoc, Effect
<1> QED
  BY <1>2, <1>3

LEMMA StepKill ==
    ASSUME DocInv, Kill PROVE DocInv'
<1> USE DEF DocInv
<1>1. /\ ReopenAfterKill /\ UNCHANGED <<writes, files, docFile>>
      /\ pc' = "idle" /\ todo' = {} /\ docLog' = Idle
      /\ job' = [r \in Client |-> Idle]
      /\ orphans' = orphans \cup {c \in files : ~ RecoveredExists(c)'}
      /\ exists' = {c \in Collection : RecoveredExists(c)'}
      /\ docs' = [c \in Collection |-> [d \in Doc |-> RecoveredDoc(c, d)']]
  BY DEF Kill, Return
<1>2. LogTypeOK'
  BY <1>1, LogKept DEF DocTypeOK
<1>3. docFile' \in [Collection -> Contents] /\ files' \subseteq Collection /\ writes' \in Nat
  BY <1>1 DEF DocTypeOK
<1>4. \A c \in Collection, d \in Doc : RecoveredDoc(c, d)' \in Nat
  <2>1. (docFile \in [Collection -> Contents])'
    BY <1>3
  <2>2. (\A c \in Collection, d \in Doc : RecoveredDoc(c, d) \in Nat)'
    BY <1>2, <2>1, RecoveredType, PTL
  <2> QED
    BY <2>2
<1>5. \A c \in Collection, d \in Doc : ~ RecoveredExists(c)' => RecoveredDoc(c, d)' = NoDoc
  <2>1. (\A c \in Collection \ files : docFile[c] = NoDocs)'
    BY <1>1 DEF ExistsInv
  <2>2. (\A c \in Collection, d \in Doc : ~ RecoveredExists(c) => RecoveredDoc(c, d) = NoDoc)'
    BY <1>2, <2>1, NothingRecovered, PTL
  <2> QED
    BY <2>2
<1>6. DocTypeOK'
  <2>1. docs' \in [Collection -> Contents]
    BY <1>1, <1>4 DEF Contents
  <2> QED
    BY <1>1, <1>2, <1>3, <2>1 DEF DocTypeOK
<1>7. AloneInv' /\ LockInv' /\ JobInv'
  BY <1>1 DEF AloneInv, LockInv, JobInv, FileRequest, OnDoc, On
<1>8. ExistsInv'
  <2>1. \A c \in Collection \ exists' : docs'[c] = NoDocs
    BY <1>1, <1>5 DEF NoDocs
  <2>2. \A c \in Collection \ files' : docFile'[c] = NoDocs
    BY <1>1 DEF ExistsInv
  <2>3. files' \ (exists' \cup orphans') = {}
    BY <1>1, <1>3
  <2> QED
    BY <2>1, <2>2, <2>3 DEF ExistsInv
<1>9. DocsInv'
  BY <1>1 DEF DocsInv, RecoveredDoc
<1>10. CollInv'
  BY <1>1 DEF CollInv, RecoveredExists
<1>11. CopyInv' /\ FileInv'
  BY <1>1 DEF CopyInv, FileInv
<1> QED
  BY <1>6, <1>7, <1>8, <1>9, <1>10, <1>11

-----------------------------------------------------------------------------
(* The invariant and the theorems.                                         *)

LEMMA DocInvInit == Init => DocInv
<1> SUFFICES ASSUME Init PROVE DocInv
  OBVIOUS
<1>1. /\ segs = [g \in {1} |-> <<>>] /\ gen = 1 /\ exists = {} /\ writes = 0 /\ files = {}
      /\ docs = [c \in Collection |-> NoDocs] /\ docFile = docs
      /\ \A r \in Client : job[r] = Idle
      /\ job \in [Client -> Job \cup {Idle}] /\ orphans = {} /\ pc = "idle" /\ todo = {}
  BY DEF Init, OpLogInit
<1>2. LogTypeOK
  BY <1>1 DEF LogTypeOK, Generations
<1>3. Positions = {}
  <2>1. \A g \in Generations : segs[g] = <<>>
    BY <1>1 DEF Generations
  <2> QED
    BY <2>1 DEF Positions
<1>4. \A c, d : DocPositions(c, d) = {} /\ CollPositions(c) = {}
  BY <1>3 DEF DocPositions, CollPositions
<1>5. NoDocs \in Contents
  BY DEF NoDocs, NoDoc, Contents
<1>6. DocTypeOK
  BY <1>1, <1>2, <1>5 DEF DocTypeOK
<1>7. AloneInv /\ LockInv /\ JobInv
  BY <1>1 DEF AloneInv, LockInv, JobInv, FileRequest, OnDoc, On
<1>8. ExistsInv /\ DocsInv /\ CollInv
  BY <1>1, <1>4 DEF ExistsInv, DocsInv, CollInv
<1>9. CopyInv /\ FileInv
  BY <1>1 DEF CopyInv, FileInv
<1> QED
  BY <1>6, <1>7, <1>8, <1>9 DEF DocInv

LEMMA DocInvStutter ==
    ASSUME DocInv, UNCHANGED vars PROVE DocInv'
<1> USE DEF DocInv, vars, logVars, engineVars, requestVars, fileVars, checkpointVars
<1>1. LogTypeOK /\ LogTypeOK'
  BY LogKept DEF DocTypeOK
<1>2. /\ \A c, d : /\ DocPositions(c, d)' = DocPositions(c, d)
                   /\ DocPositions(c, d) # {} =>
                        LastRecord(DocPositions(c, d))' = LastRecord(DocPositions(c, d))
      /\ \A c : /\ CollPositions(c)' = CollPositions(c)
                /\ CollPositions(c) # {} =>
                     LastRecord(CollPositions(c))' = LastRecord(CollPositions(c))
  BY <1>1, LogKept
<1>3. \A c, d : (Pending(c, d)' <=> Pending(c, d)) /\ (Newer(c, d)' <=> Newer(c, d))
  BY <1>2 DEF Pending, OnDoc, On, Newer
<1>4. DocTypeOK'
  BY <1>1 DEF DocTypeOK
<1>5. AloneInv' /\ LockInv' /\ ExistsInv'
  BY DEF AloneInv, FileRequest, LockInv, Persisting, OnDoc, On, ExistsInv
<1>6. JobInv'
  BY DEF JobInv, Positions, Generations, Record
<1>7. DocsInv' /\ CollInv'
  BY <1>2, <1>3 DEF DocsInv, CollInv, Effect, On
<1>8. CopyInv' /\ FileInv'
  BY <1>3 DEF CopyInv, FileInv
<1> QED
  BY <1>4, <1>5, <1>6, <1>7, <1>8

LEMMA DocInvNext ==
    ASSUME DropsAlone, DocInv, [Next]_vars PROVE DocInv'
<1>1. ASSUME NEW r \in Client, Serve(r) PROVE DocInv'
  <2>1. ASSUME NEW c \in Collection, NEW d \in Doc,
               Insert(r, c, d) \/ Update(r, c, d) \/ Delete(r, c, d)
        PROVE  DocInv'
    BY <2>1, StepDocRequest
  <2>2. ASSUME NEW c \in Collection, CreateCollection(r, c) PROVE DocInv'
    BY <2>2, StepCreateCollection
  <2>3. ASSUME NEW c \in Collection, DropCollection(r, c) PROVE DocInv'
    BY <2>3, StepDropCollection
  <2>4. ASSUME NEW c \in Collection, CompressCollection(r, c) PROVE DocInv'
    BY <2>4, StepCompressCollection
  <2>5. CASE PersistRead(r)
    BY <2>5, StepPersistRead
  <2>6. CASE PersistLog(r)
    BY <2>6, StepPersistLog
  <2>7. CASE LogCreate(r)
    BY <2>7, StepLogCreate
  <2>8. CASE LogDrop(r)
    BY <2>8, StepLogDrop
  <2>9. CASE RemoveFile(r)
    BY <2>9, StepRemoveFile
  <2>10. CASE WriteCompressed(r)
    BY <2>10, StepWriteCompressed
  <2> QED
    BY <1>1, <2>1, <2>2, <2>3, <2>4, <2>5, <2>6, <2>7, <2>8, <2>9, <2>10 DEF Serve
<1>2. ASSUME Checkpoint PROVE DocInv'
  <2>1. CASE Cut
    BY <2>1, StepCut
  <2>2. CASE ListCollections
    BY <2>2, StepListCollections
  <2>3. ASSUME NEW c \in Collection, FindDocs(c) PROVE DocInv'
    BY <2>3, StepFindDocs
  <2>4. CASE WriteDocs
    BY <2>4, StepWriteDocs
  <2>5. CASE StartRetire
    BY <2>5, StepStartRetire
  <2>6. CASE Retire
    BY <2>6, StepRetire
  <2>7. CASE RetireDone
    BY <2>7, StepReturn DEF RetireDone
  <2>8. CASE CheckpointError
    BY <2>8, StepReturn DEF CheckpointError
  <2> QED
    BY <1>2, <2>1, <2>2, <2>3, <2>4, <2>5, <2>6, <2>7, <2>8 DEF Checkpoint
<1>3. ASSUME Kill PROVE DocInv'
  BY <1>3, StepKill
<1>4. ASSUME UNCHANGED vars PROVE DocInv'
  BY <1>4, DocInvStutter
<1> QED
  BY <1>1, <1>2, <1>3, <1>4 DEF Next

\* The invariant of the document engine, its requests, its log and its files:
\* of a document no request still has to log, the last record, or else the
\* collection's file, has what is in memory, also while a checkpoint writes the
\* file it has read before and retires generations (state.rs, oplog.rs).
THEOREM DocInvariant == ASSUME DropsAlone PROVE Spec => []DocInv
<1>1. DocInv /\ [Next]_vars => DocInv'
  BY DocInvNext
<1> QED
  BY <1>1, DocInvInit, PTL DEF Spec

\* Once the requests on a collection have returned, a kill loses nothing of what
\* they did: replay_ops rebuilds its documents as they are in memory, however
\* persist_docs, save_to_disk and other requests interleaved.
THEOREM SettledDocsRecovered == ASSUME DropsAlone PROVE Spec => []DocsRecovered
<1>1. DocInv => DocsRecovered
  <2> SUFFICES ASSUME DocInv, NEW c \in Collection \ orphans, Settled(c), NEW d \in Doc
               PROVE  RecoveredDoc(c, d) = docs[c][d]
    BY DEF DocsRecovered
  <2>1. ~ Pending(c, d)
    BY DEF Settled, Pending, OnDoc, On
  <2> QED
    BY <2>1 DEF DocInv, DocsInv, RecoveredDoc
<1> QED
  BY <1>1, DocInvariant, PTL

\* A collection whose drop has returned does not come back on the next start:
\* the record persist_collection_drop has logged is the last one that concerns
\* it, or its file is gone and nothing is left of it.
THEOREM DropsLast == ASSUME DropsAlone PROVE Spec => []DroppedStaysDropped
<1>1. DocInv => DroppedStaysDropped
  <2> SUFFICES ASSUME DocInv, NEW c \in Collection \ orphans, Settled(c), c \notin exists
               PROVE  ~ RecoveredExists(c)
    BY DEF DroppedStaysDropped
  <2>1. \A r \in Client : ~ On(r, {"logDrop"}, c) /\ ~ On(r, {"logDrop", "removeFile"}, c)
    BY DEF Settled, On
  <2>2. c \notin files
    BY <2>1 DEF DocInv, ExistsInv
  <2>3. CollPositions(c) # {} => LastRecord(CollPositions(c)).kind = "CollectionDrop"
    BY <2>1 DEF DocInv, CollInv
  <2> QED
    BY <2>2, <2>3 DEF RecoveredExists
<1> QED
  BY <1>1, DocInvariant, PTL
=============================================================================
