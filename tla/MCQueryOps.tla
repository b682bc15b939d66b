----------------------------- MODULE MCQueryOps -----------------------------
(* Values for model checking QueryOps: the number 1 as an integer and as a *)
(* float, and the integer 2; every kind of predicate over them.            *)
EXTENDS QueryOps

One == [type |-> "int", n |-> 1]
Two == [type |-> "int", n |-> 2]
MCNumber == {One, [type |-> "float", n |-> 1], Two}

Comparisons == [form : {"cmp"}, op : {"=", "<>", "<", "<=", ">", ">="}, with : {One, Two, Null}]
Atoms ==
    Comparisons \cup [form : {"null"}, negated : BOOLEAN]
      \cup [form : {"in"}, list : {{One}, {Two, Null}}, negated : BOOLEAN]
      \cup [form : {"between"}, low : {One, Two}, high : {Two, Null}, negated : BOOLEAN]

MCPredicates ==
    Atoms \cup {[form |-> "not", left |-> p, right |-> p] : p \in Atoms}
      \cup [form  : {"and", "or"},
            left  : {p \in Atoms : p.form = "null" \/ (p.form = "cmp" /\ p.op = "<")},
            right : {p \in Atoms : p.form = "in" \/ (p.form = "cmp" /\ p.op = "=")}]
=============================================================================
