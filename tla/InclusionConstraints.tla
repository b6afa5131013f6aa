-------------------------- MODULE InclusionConstraints --------------------------
(* The constraints of andersen/include/Constraint.h and what they mean: a set of   *)
(* pairs <<n, o>>, node n may point to object o, that no constraint adds to.       *)
EXTENDS Integers, FiniteSets

Constraint(type, d, s) == [type |-> type, dest |-> d, src |-> s]

At(sol, n) == {p[2] : p \in {p \in sol : p[1] = n}}

\* sol and what the constraints derive from it in one step.
Consequences(cons, sol) ==
    LET Derived(c) ==
            CASE c.type = "ADDR_OF" -> {c.dest} \X {c.src}
              [] c.type = "COPY"    -> {c.dest} \X At(sol, c.src)
              [] c.type = "LOAD"    -> {c.dest} \X UNION {At(sol, v) : v \in At(sol, c.src)}
              [] c.type = "STORE"   -> At(sol, c.dest) \X At(sol, c.src)
    IN  sol \cup UNION {Derived(c) : c \in cons}

\* The least solution of the constraints.
LeastSolution(cons) ==
    LET Places == UNION {{c.dest, c.src} : c \in cons}
        from[S \in SUBSET (Places \X Places)] ==
            LET T == Consequences(cons, S) IN IF T = S THEN S ELSE from[T]
    IN  from[{}]
================================================================================
