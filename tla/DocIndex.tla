------------------------------ MODULE DocIndex ------------------------------
(***************************************************************************)
(* A Collection of aegis-document: its documents, its indexes, and the     *)
(* find that answers from the indexes where it can.  Documents and indexes *)
(* are under two locks.  insert and update store the document, release the *)
(* documents lock and index the document afterwards; delete and the first  *)
(* half of update take the indexes lock inside the documents lock;         *)
(* create_index fills the new index under the documents read lock and adds *)
(* it to the others before it releases that.                               *)
(*                                                                         *)
(* A document is what its fields hold.  Every array and object has the     *)
(* index key of the null value.  Floats that compare equal and differ in   *)
(* their bits (the two zeros) are left out: the index tells them apart,    *)
(* the filter does not.  Hash stands for the three kinds of index that     *)
(* answer Eq; a full-text index takes no part in find.                     *)
(***************************************************************************)
EXTENDS Naturals, Sequences, FiniteSets

CONSTANTS
    DocId,       \* document identifiers
    Field,       \* names of fields
    Scalar,      \* null, numbers and strings
    Nested,      \* arrays and objects
    Null,        \* the null value
    Absent,      \* a field the document does not have, and no document
    Contents,    \* the documents that are written
    Caller,      \* threads that use the collection
    MaxStores,   \* bound: documents stored
    MaxIndexes   \* bound: indexes created

ASSUME DocIndexAssumption ==
    /\ Null \in Scalar
    /\ Scalar \cap Nested = {}
    /\ Absent \notin Scalar \cup Nested
    /\ Contents \subseteq [Field -> Scalar \cup Nested \cup {Absent}]
    /\ MaxStores \in Nat /\ MaxIndexes \in Nat

VARIABLES
    docs,     \* Collection::documents
    indexes,  \* Collection::indexes
    call,     \* what each thread has still to do before its call returns
    stores,   \* documents stored so far
    built     \* indexes created so far

docIndexVars == <<docs, indexes, call, stores, built>>

NoCall == [op |-> "none"]
ToIndex(d, v) == [op |-> "index", doc |-> d, contents |-> v]
ToPush(i) == [op |-> "push", index |-> i]

Stored == {d \in DocId : docs[d] # Absent}

-----------------------------------------------------------------------------
(* DocumentIndex: a field, a type, and under each key the documents whose  *)
(* field has it.                                                           *)

IndexKey(v) == IF v \in Nested THEN Null ELSE v

Entry(i, d, v) ==
    IF v[i.field] # Absent /\ i.type # "FullText"
    THEN {<<IndexKey(v[i.field]), d>>} ELSE {}

WithDocument(i, d, v) == [i EXCEPT !.entries = @ \cup Entry(i, d, v)]
WithoutDocument(i, d, v) == [i EXCEPT !.entries = @ \ Entry(i, d, v)]

IndexOf(field, type) ==
    LET empty == [field |-> field, type |-> type, entries |-> {}]
    IN  [empty EXCEPT !.entries = UNION {Entry(empty, d, docs[d]) : d \in Stored}]

\* Collection::index_document and unindex_document, over all indexes.
IndexDocument(d, v) == indexes' = [n \in DOMAIN indexes |-> WithDocument(indexes[n], d, v)]
UnindexDocument(d, v) == indexes' = [n \in DOMAIN indexes |-> WithoutDocument(indexes[n], d, v)]

-----------------------------------------------------------------------------
(* Filters and find.  A query is a set of filters, all of which must hold. *)

FilterOp == [op : {"Eq", "Ne"}, field : Field, value : Scalar \cup Nested]
              \cup [op : {"Exists"}, field : Field, value : BOOLEAN]

Matches(v, f) ==
    CASE f.op = "Eq" -> v[f.field] # Absent /\ v[f.field] = f.value
      [] f.op = "Ne" -> v[f.field] = Absent \/ v[f.field] # f.value
      [] f.op = "Exists" -> (v[f.field] # Absent) = f.value

Scan(query) == {d \in Stored : \A f \in query : Matches(docs[d], f)}

\* Mutant: any index on the field is asked.
AnyUsable(f) == {n \in DOMAIN indexes : f.op = "Eq" /\ indexes[n].field = f.field}

\* The indexes a filter can be answered from; find asks the first of them.
Usable(f) ==
    {n \in DOMAIN indexes :
        f.op = "Eq" /\ indexes[n].field = f.field /\ indexes[n].type # "FullText"}

FindEq(f) ==
    LET first == CHOOSE n \in Usable(f) : \A m \in Usable(f) : n <= m
    IN  {d \in DocId : <<IndexKey(f.value), d>> \in indexes[first].entries}

\* The documents every usable index names; without one, all of them.
FindIndexedCandidates(query) ==
    {d \in DocId : \A f \in query : Usable(f) # {} => d \in FindEq(f)}

Find(query) ==
    {d \in FindIndexedCandidates(query) \cap Stored : \A f \in query : Matches(docs[d], f)}

-----------------------------------------------------------------------------
DocIndexInit ==
    /\ docs = [d \in DocId |-> Absent]
    /\ indexes = <<>>
    /\ call = [c \in Caller |-> NoCall]
    /\ stores = 0
    /\ built = 0

\* Mutant: create_index lets the documents go before it adds the index.
NotShared == FALSE

\* A create_index holds the documents lock shared: nothing is written.
DocsShared == \E c \in Caller : call[c].op = "push"

Store(c, d, v) ==
    /\ stores < MaxStores
    /\ stores' = stores + 1
    /\ docs' = [docs EXCEPT ![d] = v]
    /\ call' = [call EXCEPT ![c] = ToIndex(d, v)]
    /\ UNCHANGED built

InsertDoc(c, d, v) ==
    /\ call[c] = NoCall
    /\ ~ DocsShared
    /\ docs[d] = Absent
    /\ Store(c, d, v)
    /\ UNCHANGED indexes

\* Mutant: the old document is unindexed with the new one's indexing.
UpdateLate(c, d, v) ==
    /\ call[c] = NoCall
    /\ ~ DocsShared
    /\ docs[d] # Absent
    /\ stores < MaxStores
    /\ stores' = stores + 1
    /\ docs' = [docs EXCEPT ![d] = v]
    /\ indexes' = [n \in DOMAIN indexes |->
                     WithoutDocument(WithDocument(indexes[n], d, v), d, docs[d])]
    /\ UNCHANGED <<call, built>>

UpdateDoc(c, d, v) ==
    /\ call[c] = NoCall
    /\ ~ DocsShared
    /\ docs[d] # Absent
    /\ UnindexDocument(d, docs[d])
    /\ Store(c, d, v)

\* The second half of insert and update.
FinishStore(c) ==
    /\ call[c].op = "index"
    /\ IndexDocument(call[c].doc, call[c].contents)
    /\ call' = [call EXCEPT ![c] = NoCall]
    /\ UNCHANGED <<docs, stores, built>>

DeleteDoc(d) ==
    /\ ~ DocsShared
    /\ docs[d] # Absent
    /\ docs' = [docs EXCEPT ![d] = Absent]
    /\ UnindexDocument(d, docs[d])
    /\ UNCHANGED <<call, stores, built>>

Clear ==
    /\ ~ DocsShared
    /\ docs' = [d \in DocId |-> Absent]
    /\ indexes' = [n \in DOMAIN indexes |-> [indexes[n] EXCEPT !.entries = {}]]
    /\ UNCHANGED <<call, stores, built>>

CreateIndex(c, field, type) ==
    /\ call[c] = NoCall
    /\ built < MaxIndexes
    /\ built' = built + 1
    /\ call' = [call EXCEPT ![c] = ToPush(IndexOf(field, type))]
    /\ UNCHANGED <<docs, indexes, stores>>

FinishCreate(c) ==
    /\ call[c].op = "push"
    /\ indexes' = Append(indexes, call[c].index)
    /\ call' = [call EXCEPT ![c] = NoCall]
    /\ UNCHANGED <<docs, stores, built>>

\* retain: the indexes on other fields stay, in their order.
DropIndex(field) ==
    LET kept == {n \in DOMAIN indexes : indexes[n].field # field}
    IN  /\ kept # DOMAIN indexes
        /\ \E order \in [1..Cardinality(kept) -> kept] :
             /\ \A m, n \in 1..Cardinality(kept) : m < n => order[m] < order[n]
             /\ indexes' = [n \in 1..Cardinality(kept) |-> indexes[order[n]]]
        /\ UNCHANGED <<docs, call, stores, built>>

DocIndexNext ==
    \/ \E c \in Caller, d \in DocId, v \in Contents : InsertDoc(c, d, v) \/ UpdateDoc(c, d, v)
    \/ \E c \in Caller : FinishStore(c) \/ FinishCreate(c)
    \/ \E d \in DocId : DeleteDoc(d)
    \/ Clear
    \/ \E c \in Caller, f \in Field, t \in {"Hash", "FullText"} : CreateIndex(c, f, t)
    \/ \E f \in Field : DropIndex(f)

DocIndexSpec == DocIndexInit /\ [][DocIndexNext]_docIndexVars

-----------------------------------------------------------------------------
(* Properties.                                                             *)

Queries == {{f, g} : f, g \in FilterOp}

\* The documents a thread has stored and not indexed yet.
BeingStored == {d \in DocId : \E c \in Caller : call[c] = ToIndex(d, docs[d])}

\* An index never changes an answer: however writers, create_index and
\* drop_index interleave, find gives every document a scan gives (and, because
\* it filters its candidates, no other), but for a document whose insert or
\* update has not returned.
FindComplete ==
    \A d \in Stored \ BeingStored, query \in Queries :
        d \in Scan(query) => d \in Find(query)

-----------------------------------------------------------------------------
(* What makes FindComplete inductive: it speaks of answers, and an answer  *)
(* depends on what the indexes hold.                                       *)

IndexType == [field : Field, type : {"Hash", "FullText"}, entries : SUBSET (Scalar \X DocId)]

DocIndexTypeOK ==
    /\ docs \in [DocId -> Contents \cup {Absent}]
    /\ indexes \in Seq(IndexType)
    /\ call \in [Caller -> {NoCall} \cup [op : {"index"}, doc : DocId, contents : Contents]
                               \cup [op : {"push"}, index : IndexType]]

\* The index has the entry of every one of these documents.
Covers(i, ds) == \A d \in ds : Entry(i, d, docs[d]) \subseteq i.entries

\* Every index covers the documents whose insert or update is complete, and
\* one that create_index has yet to add covers all there are: nobody writes
\* while it waits.
IndexesCover ==
    /\ \A n \in DOMAIN indexes : Covers(indexes[n], Stored \ BeingStored)
    /\ \A c \in Caller : call[c].op = "push" => Covers(call[c].index, Stored)

DocIndexInv == DocIndexTypeOK /\ IndexesCover
=============================================================================
