----------------------------- MODULE MCStorage ------------------------------
(***************************************************************************)
(* The two components of aegis-storage that share no state, each on a      *)
(* small instance: the transaction manager and the write-ahead log.  A     *)
(* behaviour is a behaviour of one of them, chosen at its start; the other *)
(* one rests.                                                              *)
(***************************************************************************)
EXTENDS MCMvcc, Wal

VARIABLE part   \* the component that runs

storageVars == <<part, vars, walVars>>

StorageInit == part \in {"mvcc", "wal"} /\ Init /\ WalInit

StorageNext ==
    \/ part = "mvcc" /\ Next /\ UNCHANGED <<part, walVars>>
    \/ part = "wal" /\ WalNext /\ UNCHANGED <<part, vars>>

StorageSpec == StorageInit /\ [][StorageNext]_storageVars

\* The view of the component that runs.
StorageView == IF part = "mvcc" THEN <<MCView>> ELSE <<walVars, part>>

\* Two threads are inside a call of the log at a time, as of the manager (FewCalls).
FewLogCalls == Cardinality({t \in Thread : ~ At(t, "idle")}) <= MaxCalls

\* Renamings of both sets at once, odd with odd: as the component that rests
\* looks the same under all, every renaming of the other one's set is among them.
Odd(p) == Cardinality({t \in DOMAIN p : p[t] = t}) = Cardinality(DOMAIN p) - 2
StorageSymmetry ==
    {p[1] @@ p[2] : p \in {q \in Permutations(Tx) \X Permutations(Txn) : Odd(q[1]) = Odd(q[2])}}
=============================================================================
