---------------------------- MODULE Expressions ----------------------------
(***************************************************************************)
(* Predicates over one column, as executor.rs evaluates them, and as SQL   *)
(* defines them.                                                           *)
(*                                                                         *)
(* A value is Null or a number with its type.  A predicate is an atom, a   *)
(* record with the field `form`: a comparison with a literal, IS [NOT]     *)
(* NULL, [NOT] IN or [NOT] BETWEEN; or NOT, AND, OR over atoms.  It is     *)
(* TRUE, FALSE or Null for a row.                                          *)
(***************************************************************************)
EXTENDS Integers

CONSTANT Null   \* the SQL NULL

Compound == {"not", "and", "or"}

\* compare_values: numbers by their value; NULL, like anything that has no
\* order, is Equal to everything.
CompareValues(v, w) ==
    CASE v = Null \/ w = Null -> "Equal"
      [] v.n < w.n            -> "Less"
      [] v.n = w.n            -> "Equal"
      [] v.n > w.n            -> "Greater"

\* The comparison operators, by the orderings they accept.
Accepted(op) ==
    CASE op = "="  -> {"Equal"}            [] op = "<>" -> {"Less", "Greater"}
      [] op = "<"  -> {"Less"}             [] op = "<=" -> {"Less", "Equal"}
      [] op = ">"  -> {"Greater"}          [] op = ">=" -> {"Greater", "Equal"}

\* Only the comparison operators look for NULL; IN and BETWEEN go by
\* compare_values alone.
EvaluateAtom(p, v) ==
    CASE p.form = "cmp" -> IF v = Null \/ p.with = Null THEN Null
                           ELSE CompareValues(v, p.with) \in Accepted(p.op)
      [] p.form = "null" -> (v = Null) # p.negated
      [] p.form = "in" -> (\E w \in p.list : CompareValues(v, w) = "Equal") # p.negated
      [] p.form = "between" -> (/\ CompareValues(v, p.low) # "Less"
                                /\ CompareValues(v, p.high) # "Greater") # p.negated

\* evaluate_binary_op gives NULL as soon as one side is NULL; NOT takes NULL
\* for false (value_to_bool).
Evaluate(p, v) ==
    IF p.form \notin Compound THEN EvaluateAtom(p, v)
    ELSE LET a == EvaluateAtom(p.left, v)
             b == EvaluateAtom(p.right, v)
         IN  CASE p.form = "not" -> a \in {Null, FALSE}
               [] p.form = "and" -> IF Null \in {a, b} THEN Null ELSE a /\ b
               [] p.form = "or"  -> IF Null \in {a, b} THEN Null ELSE a \/ b

\* Mutant: a row is kept unless the predicate is false.
PassesUnlessFalse(p, v) == Evaluate(p, v) # FALSE

\* evaluate_predicate: a row passes if the predicate is true.
Passes(p, v) == Evaluate(p, v) = TRUE

-----------------------------------------------------------------------------
(* What SQL says: comparisons with NULL are unknown (Null), NOT, AND and    *)
(* OR follow three-valued logic, IN is a disjunction of equalities and      *)
(* BETWEEN a conjunction of comparisons.                                    *)

And3(a, b) == IF FALSE \in {a, b} THEN FALSE ELSE IF Null \in {a, b} THEN Null ELSE TRUE
Not3(a) == IF a = Null THEN Null ELSE ~ a
Or3(a, b) == Not3(And3(Not3(a), Not3(b)))
Negated3(p, a) == IF p.negated THEN Not3(a) ELSE a

Compare3(op, v, w) ==
    IF v = Null \/ w = Null THEN Null
    ELSE CASE op = "="  -> v.n = w.n    [] op = "<>" -> v.n # w.n
           [] op = "<"  -> v.n < w.n    [] op = "<=" -> v.n <= w.n
           [] op = ">"  -> v.n > w.n    [] op = ">=" -> v.n >= w.n

SqlAtom(p, v) ==
    CASE p.form = "cmp" -> Compare3(p.op, v, p.with)
      [] p.form = "null" -> (v = Null) # p.negated
      [] p.form = "in" ->
            Negated3(p, IF \E w \in p.list : Compare3("=", v, w) = TRUE THEN TRUE
                        ELSE IF \E w \in p.list : Compare3("=", v, w) = Null THEN Null ELSE FALSE)
      [] p.form = "between" -> Negated3(p, And3(Compare3(">=", v, p.low), Compare3("<=", v, p.high)))

SqlValue(p, v) ==
    CASE p.form = "not" -> Not3(SqlAtom(p.left, v))
      [] p.form = "and" -> And3(SqlAtom(p.left, v), SqlAtom(p.right, v))
      [] p.form = "or"  -> Or3(SqlAtom(p.left, v), SqlAtom(p.right, v))
      [] OTHER          -> SqlAtom(p, v)

\* Predicates whose rows are those of SQL even where there are NULLs:
\* comparisons, IS NULL and conjunctions of them.
NullSafe(p) ==
    IF p.form = "and" THEN {p.left.form, p.right.form} \subseteq {"cmp", "null"}
                      ELSE p.form \in {"cmp", "null"}

HasNull(p) ==
    CASE p.form = "cmp"     -> p.with = Null
      [] p.form = "null"    -> FALSE
      [] p.form = "in"      -> Null \in p.list
      [] p.form = "between" -> Null \in {p.low, p.high}

\* No literal of the predicate is NULL.
NullFree(p) ==
    IF p.form \in Compound THEN ~ HasNull(p.left) /\ ~ HasNull(p.right) ELSE ~ HasNull(p)
=============================================================================
