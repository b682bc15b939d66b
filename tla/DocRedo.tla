------------------------------ MODULE DocRedo -------------------------------
(***************************************************************************)
(* Crash recovery of the document engine of aegis-server.  A request       *)
(* changes DocumentEngine first and makes the change durable afterwards,   *)
(* in steps that other requests and the checkpoint get in between:         *)
(* persist_docs reads each document back and logs it under the doc_log     *)
(* lock, persist_collection_create and persist_collection_drop log under   *)
(* the same lock what was done, and a drop then deletes the collection's   *)
(* file.  save_to_disk and compress_collection write those files.          *)
(*                                                                         *)
(* The contents of a document is the number of the request that wrote it,  *)
(* 0 standing for no document.  The document of a request is named by the  *)
(* client.  The fsyncs of OpLog play no part here: the process is killed,  *)
(* the machine stays up.                                                   *)
(***************************************************************************)
EXTENDS OpLog, FiniteSets

CONSTANTS
    Collection,  \* names of collections
    Doc,         \* names of documents
    Client,      \* requests served at the same time
    Idle,        \* a client without a request, a lock without an owner
    Requests,    \* the kinds of request the clients make
    MaxWrites,   \* bound: requests made
    MaxGen,      \* bound: generations opened by checkpoints and restarts
    Checkpoints, \* whether save_to_disk runs
    DropsAlone   \* whether a drop or a compression has the engine to itself

NoDoc == 0

\* What a request is about to do: make a document durable, log a creation or a
\* drop, remove the file of a dropped collection or write a compressed one.
Job == [step : {"persist", "logDoc"}, coll : Collection, doc : Doc, value : Nat]
  \cup [step : {"logCreate", "logDrop", "removeFile"}, coll : Collection, doc : {Idle}, value : {NoDoc}]
  \cup [step : {"writeFile"}, coll : Collection, doc : {Idle}, value : [Doc -> Nat]]

ASSUME DocAssumption ==
    /\ Requests \subseteq {"insert", "update", "delete", "create", "drop", "compress"}
    /\ Idle \notin Client \cup Job
    /\ MaxWrites \in Nat /\ MaxGen \in Nat
    /\ Checkpoints \in BOOLEAN /\ DropsAlone \in BOOLEAN

VARIABLES
    exists,   \* the collections DocumentEngine has
    docs,     \* their documents
    writes,   \* requests made so far
    job,      \* what each client's request is about to do
    docLog,   \* the owner of AppState::doc_log
    files,    \* the collections that have a file under documents/
    docFile,  \* the documents in it
    orphans,  \* the files a kill kept a logged drop from deleting (history)
    pc,       \* where save_to_disk is
    covered,  \* what cut returned to it
    todo,     \* the collections it has still to write
    target,   \* the one it is writing
    copy      \* the documents it found there

engineVars == <<exists, docs, writes>>
requestVars == <<job, docLog>>
fileVars == <<files, docFile, orphans>>
checkpointVars == <<pc, covered, todo, target, copy>>
vars == <<logVars, engineVars, requestVars, fileVars, checkpointVars>>

NoDocs == [d \in Doc |-> NoDoc]

DocPut(c, d, v) == [kind |-> "DocPut", coll |-> c, doc |-> d, value |-> v]
DocDelete(c, d) == [kind |-> "DocDelete", coll |-> c, doc |-> d, value |-> NoDoc]
CollectionCreate(c) == [kind |-> "CollectionCreate", coll |-> c]
CollectionDrop(c) == [kind |-> "CollectionDrop", coll |-> c]

-----------------------------------------------------------------------------
(* Replay: the loader reads the files, replay_ops applies the records in   *)
(* order.  For each thing the last record that concerns it decides.        *)

LastRecord(S) == Record(CHOOSE p \in S : \A q \in S : ~ Before(p, q))

\* What became of a document: its own records, and drops of its collection.
DocPositions(c, d) ==
    {p \in Positions :
       LET r == Record(p) IN
       /\ r.coll = c
       /\ \/ r.kind \in {"DocPut", "DocDelete"} /\ r.doc = d
          \/ r.kind = "CollectionDrop"}
Effect(r) == IF r.kind = "DocPut" THEN r.value ELSE NoDoc
RecoveredDoc(c, d) ==
    IF DocPositions(c, d) = {} THEN docFile[c][d]
    ELSE Effect(LastRecord(DocPositions(c, d)))

\* What became of a collection: a document put into it restores it too.
CollPositions(c) ==
    {p \in Positions : Record(p).coll = c /\ Record(p).kind # "DocDelete"}
RecoveredExists(c) ==
    IF CollPositions(c) = {} THEN c \in files
    ELSE LastRecord(CollPositions(c)).kind # "CollectionDrop"

-----------------------------------------------------------------------------
Init ==
    /\ OpLogInit
    /\ exists = {}
    /\ docs = [c \in Collection |-> NoDocs]
    /\ writes = 0
    /\ job = [r \in Client |-> Idle]
    /\ docLog = Idle
    /\ files = {}
    /\ docFile = [c \in Collection |-> NoDocs]
    /\ orphans = {}
    /\ pc = "idle"
    /\ covered = 0
    /\ todo = {}
    /\ target = Idle
    /\ copy = NoDocs

\* The code lets a drop and a compression run beside everything else.  With
\* DropsAlone the clients do not: the races of these two requests are known,
\* and what holds without them is what a run then checks.
FileRequest(r) == job[r] # Idle /\ job[r].step \in {"logDrop", "removeFile", "writeFile"}
Admits(kind) ==
    DropsAlone => IF kind \in {"drop", "compress"}
                  THEN pc = "idle" /\ \A q \in Client : job[q] = Idle
                  ELSE \A q \in Client : ~ FileRequest(q)

\* A client makes a request; the engine's part of it is done at once, under
\* the engine's own locks.  A request the engine refuses changes nothing.
Request(r, kind) ==
    /\ kind \in Requests
    /\ Admits(kind)
    /\ job[r] = Idle
    /\ writes < MaxWrites
    /\ writes' = writes + 1

SetDoc(c, d, v) == docs' = [docs EXCEPT ![c][d] = v]
Then(r, step, c, d) ==
    job' = [job EXCEPT ![r] = [step |-> step, coll |-> c, doc |-> d, value |-> NoDoc]]

\* insert creates the collection on demand and refuses an id that is taken.
Insert(r, c, d) ==
    /\ Request(r, "insert")
    /\ docs[c][d] = NoDoc
    /\ exists' = exists \cup {c}
    /\ SetDoc(c, d, writes + 1)
    /\ Then(r, "persist", c, d)
    /\ UNCHANGED <<logVars, docLog, fileVars, checkpointVars>>

Update(r, c, d) ==
    /\ Request(r, "update")
    /\ docs[c][d] # NoDoc
    /\ SetDoc(c, d, writes + 1)
    /\ Then(r, "persist", c, d)
    /\ UNCHANGED <<logVars, exists, docLog, fileVars, checkpointVars>>

Delete(r, c, d) ==
    /\ Request(r, "delete")
    /\ docs[c][d] # NoDoc
    /\ SetDoc(c, d, NoDoc)
    /\ Then(r, "persist", c, d)
    /\ UNCHANGED <<logVars, exists, docLog, fileVars, checkpointVars>>

CreateCollection(r, c) ==
    /\ Request(r, "create")
    /\ c \notin exists
    /\ exists' = exists \cup {c}
    /\ Then(r, "logCreate", c, Idle)
    /\ UNCHANGED <<logVars, docs, docLog, fileVars, checkpointVars>>

DropCollection(r, c) ==
    /\ Request(r, "drop")
    /\ c \in exists
    /\ exists' = exists \ {c}
    /\ docs' = [docs EXCEPT ![c] = NoDocs]
    /\ Then(r, "logDrop", c, Idle)
    /\ UNCHANGED <<logVars, docLog, fileVars, checkpointVars>>

\* compress_collection reads the documents; its file is written later.
CompressCollection(r, c) ==
    /\ Request(r, "compress")
    /\ c \in exists
    /\ job' = [job EXCEPT ![r] = [step |-> "writeFile", coll |-> c, doc |-> Idle, value |-> docs[c]]]
    /\ UNCHANGED <<logVars, exists, docs, docLog, fileVars, checkpointVars>>

-----------------------------------------------------------------------------
(* The rest of a request.                                                  *)

At(r, step) == job[r] # Idle /\ job[r].step = step
Done(r) == job' = [job EXCEPT ![r] = Idle]

\* Mutant: doc_log is not taken.
PersistReadUnlocked(r) ==
    /\ At(r, "persist")
    /\ job' = [job EXCEPT ![r].step = "logDoc", ![r].value = docs[job[r].coll][job[r].doc]]
    /\ UNCHANGED <<logVars, engineVars, docLog, fileVars, checkpointVars>>

\* persist_docs takes the lock and reads the document as it is now.
PersistRead(r) ==
    /\ At(r, "persist")
    /\ docLog = Idle
    /\ docLog' = r
    /\ job' = [job EXCEPT ![r].step = "logDoc", ![r].value = docs[job[r].coll][job[r].doc]]
    /\ UNCHANGED <<logVars, engineVars, fileVars, checkpointVars>>

\* It logs what it read and releases the lock.
PersistLog(r) ==
    /\ At(r, "logDoc")
    /\ AppendOp(IF job[r].value = NoDoc THEN DocDelete(job[r].coll, job[r].doc)
                ELSE DocPut(job[r].coll, job[r].doc, job[r].value))
    /\ docLog' = Idle
    /\ Done(r)
    /\ UNCHANGED <<engineVars, fileVars, checkpointVars>>

\* persist_collection_create logs the creation, whatever came since.
LogCreate(r) ==
    /\ At(r, "logCreate")
    /\ docLog = Idle
    /\ AppendOp(CollectionCreate(job[r].coll))
    /\ Done(r)
    /\ UNCHANGED <<engineVars, docLog, fileVars, checkpointVars>>

\* Mutant: the file is deleted and the drop is not logged.
DropFileOnly(r) ==
    /\ At(r, "logDrop")
    /\ job' = [job EXCEPT ![r].step = "removeFile"]
    /\ UNCHANGED <<logVars, engineVars, docLog, fileVars, checkpointVars>>

\* persist_collection_drop logs the drop, whatever came since.
LogDrop(r) ==
    /\ At(r, "logDrop")
    /\ docLog = Idle
    /\ AppendOp(CollectionDrop(job[r].coll))
    /\ job' = [job EXCEPT ![r].step = "removeFile"]
    /\ UNCHANGED <<engineVars, docLog, fileVars, checkpointVars>>

RemoveFile(r) ==
    /\ At(r, "removeFile")
    /\ files' = files \ {job[r].coll}
    /\ docFile' = [docFile EXCEPT ![job[r].coll] = NoDocs]
    /\ orphans' = orphans \ {job[r].coll}
    /\ Done(r)
    /\ UNCHANGED <<logVars, engineVars, docLog, checkpointVars>>

WriteFile(c, contents) ==
    /\ files' = files \cup {c}
    /\ docFile' = [docFile EXCEPT ![c] = contents]
    /\ orphans' = orphans \ {c}

WriteCompressed(r) ==
    /\ At(r, "writeFile")
    /\ WriteFile(job[r].coll, job[r].value)
    /\ Done(r)
    /\ UNCHANGED <<logVars, engineVars, docLog, checkpointVars>>

-----------------------------------------------------------------------------
(* save_to_disk, the part that concerns documents.                         *)

Cut ==
    /\ Checkpoints
    /\ Admits("checkpoint")
    /\ pc = "idle"
    /\ gen < MaxGen
    /\ Rotate
    /\ pc' = "list"
    /\ covered' = gen
    /\ UNCHANGED <<engineVars, requestVars, fileVars, todo, target, copy>>

ListCollections ==
    /\ pc = "list"
    /\ CutClean
    /\ todo' = exists
    /\ pc' = "find"
    /\ UNCHANGED <<engineVars, requestVars, fileVars, covered, target, copy>>

\* find on the next collection; one dropped since the listing is skipped.
FindDocs(c) ==
    /\ pc = "find"
    /\ c \in todo
    /\ todo' = todo \ {c}
    /\ IF c \in exists
       THEN target' = c /\ copy' = docs[c] /\ pc' = "write"
       ELSE UNCHANGED <<target, copy, pc>>
    /\ UNCHANGED <<logVars, engineVars, requestVars, fileVars, covered>>

WriteDocs ==
    /\ pc = "write"
    /\ WriteFile(target, copy)
    /\ pc' = "find"
    /\ UNCHANGED <<logVars, engineVars, requestVars, covered, todo, target, copy>>

StartRetire ==
    /\ pc = "find"
    /\ todo = {}
    /\ pc' = "retire"
    /\ UNCHANGED <<logVars, engineVars, requestVars, fileVars, covered, todo, target, copy>>

Retire ==
    /\ pc = "retire"
    /\ RetireOldest(covered)
    /\ UNCHANGED <<engineVars, requestVars, fileVars, checkpointVars>>

Return ==
    /\ pc' = "idle"
    /\ covered' = 0
    /\ todo' = {}
    /\ target' = Idle
    /\ copy' = NoDocs

RetireDone ==
    /\ pc = "retire"
    /\ \A g \in Generations : g > covered
    /\ Return
    /\ UNCHANGED <<logVars, engineVars, requestVars, fileVars>>

\* A file cannot be written or deleted: save_to_disk returns the error.
CheckpointError ==
    /\ pc \in {"list", "write", "retire"}
    /\ Return
    /\ UNCHANGED <<logVars, engineVars, requestVars, fileVars>>

-----------------------------------------------------------------------------
Kill ==
    /\ gen < MaxGen
    /\ ReopenAfterKill
    /\ Return
    /\ job' = [r \in Client |-> Idle]
    /\ docLog' = Idle
    /\ UNCHANGED <<writes, files, docFile>>
    /\ orphans' = orphans \cup {c \in files : ~ RecoveredExists(c)'}
    /\ exists' = {c \in Collection : RecoveredExists(c)'}
    /\ docs' = [c \in Collection |-> [d \in Doc |-> RecoveredDoc(c, d)']]

Serve(r) ==
    \/ \E c \in Collection, d \in Doc : Insert(r, c, d) \/ Update(r, c, d) \/ Delete(r, c, d)
    \/ \E c \in Collection :
         CreateCollection(r, c) \/ DropCollection(r, c) \/ CompressCollection(r, c)
    \/ PersistRead(r) \/ PersistLog(r)
    \/ LogCreate(r) \/ LogDrop(r) \/ RemoveFile(r) \/ WriteCompressed(r)

Checkpoint ==
    \/ Cut
    \/ ListCollections
    \/ \E c \in Collection : FindDocs(c)
    \/ WriteDocs
    \/ StartRetire
    \/ Retire
    \/ RetireDone
    \/ CheckpointError

Next == (\E r \in Client : Serve(r)) \/ Checkpoint \/ Kill

Spec == Init /\ [][Next]_vars

-----------------------------------------------------------------------------
(* Properties.                                                             *)

\* No request on the collection is under way.
Settled(c) == \A r \in Client : job[r] # Idle => job[r].coll # c

\* Once the requests on a collection have returned, a kill loses none of what
\* they did, however they and the checkpoint interleaved: replay rebuilds every
\* document of the collection as it is in memory.
DocsRecovered ==
    \A c \in Collection \ orphans : Settled(c) =>
        \A d \in Doc : RecoveredDoc(c, d) = docs[c][d]

\* A collection whose drop has returned does not come back on the next start.
DroppedStaysDropped ==
    \A c \in Collection \ orphans : Settled(c) /\ c \notin exists => ~ RecoveredExists(c)

-----------------------------------------------------------------------------
(* The inductive invariant of the proofs in DocRedoProofs, for clients that *)
(* let a drop or a compression have the engine to itself.                   *)

Op == [kind : {"DocPut", "DocDelete"}, coll : Collection, doc : Doc, value : Nat]
        \cup [kind : {"CollectionCreate", "CollectionDrop"}, coll : Collection]
Contents == [Doc -> Nat]

LogTypeOK ==
    /\ gen \in Nat /\ gen \in Generations
    /\ \A g \in Generations : g \in 1..gen /\ segs[g] \in Seq(Op)

DocTypeOK ==
    /\ LogTypeOK
    /\ exists \subseteq Collection /\ docs \in [Collection -> Contents] /\ writes \in Nat
    /\ job \in [Client -> Job \cup {Idle}]
    /\ files \subseteq Collection /\ docFile \in [Collection -> Contents]
    /\ pc \in {"idle", "list", "find", "write", "retire"}
    /\ todo \subseteq exists
    /\ pc \notin {"find", "write"} => todo = {}
    /\ pc # "idle" => covered \in Nat /\ covered < gen
    /\ pc = "write" => target \in exists /\ copy \in Contents

On(r, steps, c) == job[r] # Idle /\ job[r].step \in steps /\ job[r].coll = c
OnDoc(r, steps, c, d) == On(r, steps, c) /\ job[r].doc = d

\* A document the log is not up to date with.
Persisting(c, d) == \E r \in Client : OnDoc(r, {"persist"}, c, d)
Pending(c, d) ==
    \/ \E r \in Client : OnDoc(r, {"persist", "logDoc"}, c, d)
    \/ \E r \in Client : On(r, {"logDrop"}, c)

\* A drop or a compression is alone.
AloneInv ==
    \A r \in Client : FileRequest(r) => pc = "idle" /\ \A q \in Client \ {r} : job[q] = Idle

\* Who holds doc_log logs the document as it is, or another request still has to.
LockInv ==
    \A r \in Client, c \in Collection, d \in Doc : OnDoc(r, {"logDoc"}, c, d) =>
        docLog = r /\ (job[r].value = docs[c][d] \/ Persisting(c, d))

\* The collection of a request exists until it is dropped.  The record of a drop
\* is in the log while the file is removed; a compression writes what is there.
JobInv ==
    \A r \in Client : job[r] # Idle =>
        /\ job[r].coll \in exists <=> job[r].step \notin {"logDrop", "removeFile"}
        /\ job[r].step = "removeFile" =>
               \E p \in Positions : Record(p) = CollectionDrop(job[r].coll)
        /\ job[r].step = "writeFile" => job[r].value = docs[job[r].coll]

\* Documents and files are those of collections that exist, but for files of a
\* drop under way or cut short.
ExistsInv ==
    /\ \A c \in Collection \ exists : docs[c] = NoDocs
    /\ \A c \in Collection \ files : docFile[c] = NoDocs
    /\ \A c \in files \ (exists \cup orphans) :
           \E r \in Client : On(r, {"logDrop", "removeFile"}, c)

\* The last record of a document, or else the file, has it as it is in memory.
DocsInv ==
    \A c \in Collection, d \in Doc : ~ Pending(c, d) =>
        /\ DocPositions(c, d) # {} => Effect(LastRecord(DocPositions(c, d))) = docs[c][d]
        /\ DocPositions(c, d) = {} /\ c \notin orphans => docFile[c][d] = docs[c][d]

\* The last record of a collection that does not exist is its drop.
CollInv ==
    \A c \in Collection \ exists :
        (\A r \in Client : ~ On(r, {"logDrop"}, c)) /\ CollPositions(c) # {} =>
            LastRecord(CollPositions(c)).kind = "CollectionDrop"

\* Of a document without a record newer than the cut, what a checkpoint has read
\* and then written is what is in memory, before the first generation goes.
Newer(c, d) == \E p \in DocPositions(c, d) : p[1] > covered
CopyInv ==
    \A c \in Collection, d \in Doc : pc = "write" /\ target = c =>
        Pending(c, d) \/ Newer(c, d) \/ copy[d] = docs[c][d]
FileInv ==
    pc \in {"find", "write", "retire"} =>
        \A c \in Collection \ (todo \cup orphans), d \in Doc :
            \/ pc = "write" /\ c = target
            \/ Pending(c, d) \/ Newer(c, d) \/ docFile[c][d] = docs[c][d]

DocInv ==
    /\ DocTypeOK /\ AloneInv /\ LockInv /\ JobInv /\ ExistsInv
    /\ DocsInv /\ CollInv /\ CopyInv /\ FileInv
=============================================================================
