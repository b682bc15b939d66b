---------------------------- MODULE MCSqlEngine -----------------------------
(* SqlEngine with interchangeable requests and interchangeable keys.       *)
EXTENDS SqlEngine, TLC

SqlSymmetry == Permutations(Client) \cup Permutations(Key)
=============================================================================
