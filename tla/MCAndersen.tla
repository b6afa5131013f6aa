------------------------------- MODULE MCAndersen -------------------------------
(* Small constraint problems for Andersen.                                         *)
EXTENDS Andersen, CycleDetector

\* The subsets of S with one to k members.
AtMost(S, k) == {{f[i] : i \in 1 .. k} : f \in [1 .. k -> S]}

CONSTANT MaxExtra   \* how many constraints are added to a skeleton

All(type) == {Constraint(type, d, s) : d, s \in Nodes}
Others == {c \in All("COPY") : c.dest # c.src} \cup All("LOAD") \cup All("STORE")

\* Problems with a cycle that is found after its members have different sets, or
\* that only a load or a store closes, each with any few more constraints.
Skeletons == {
    {Constraint("ADDR_OF", 0, 3), Constraint("COPY", 1, 0), Constraint("COPY", 2, 1),
     Constraint("COPY", 1, 2)},
    {Constraint("ADDR_OF", 0, 1), Constraint("ADDR_OF", 1, 2), Constraint("LOAD", 2, 0),
     Constraint("COPY", 1, 2)},
    {Constraint("ADDR_OF", 3, 0), Constraint("STORE", 3, 1), Constraint("COPY", 1, 0),
     Constraint("ADDR_OF", 1, 2)} }

\* A cycle through *1, where 1 points nowhere.
Hollow == {Constraint("ADDR_OF", 2, 3), Constraint("STORE", 1, 2), Constraint("LOAD", 0, 1),
           Constraint("COPY", 2, 0)}

\* Problems in which variables have the label of an address or of each other, or the
\* addresses of two variables that are merged are taken.
Labels == {
    {Constraint("ADDR_OF", 0, 1), Constraint("COPY", 2, 0), Constraint("LOAD", 3, 2),
     Constraint("STORE", 0, 2)},
    {Constraint("ADDR_OF", 2, 0), Constraint("ADDR_OF", 3, 1), Constraint("COPY", 0, 1),
     Constraint("COPY", 1, 0)},
    {Constraint("ADDR_OF", 0, 2), Constraint("ADDR_OF", 1, 3), Constraint("COPY", 2, 0),
     Constraint("COPY", 2, 1), Constraint("COPY", 3, 2)} }

AllProblems ==
    LET More(S, k) == {S \cup X : X \in AtMost(Others \cup All("ADDR_OF"), k)}
    IN  UNION ({More(S, MaxExtra) : S \in Skeletons} \cup {More(S, 1) : S \in Labels \cup {Hollow}})

Plain == [hcd |-> FALSE, lcd |-> FALSE]
Lazy == [hcd |-> FALSE, lcd |-> TRUE]
Hybrid == [hcd |-> TRUE, lcd |-> FALSE]
Both == [hcd |-> TRUE, lcd |-> TRUE]

AllOptions == {Plain, Lazy, Hybrid, Both}
HybridOnly == {Hybrid}

Pass(hvn, hu) == [hvn |-> hvn, hu |-> hu, rehash |-> FALSE]

\* The optimisation passes run on the smaller problems.
PassesFor(o, problem) ==
    {Pass(FALSE, FALSE)} \cup
    IF ~\E S \in Skeletons \cup Labels : S \subseteq problem /\ Cardinality(problem \ S) =< 1 THEN {}
    ELSE CASE o = Lazy -> {Pass(TRUE, FALSE), Pass(FALSE, TRUE), [Pass(TRUE, FALSE) EXCEPT !.rehash = TRUE]}
           [] o = Both -> {Pass(TRUE, TRUE)}
           [] OTHER    -> {}

\* The detector finds the components of what it reaches, from every root and in every
\* order of the roots, each entered by a root or from another component, and after the
\* components it leads to; no assertion fails.
FindsComponents(E, nodes, roots, merges) ==
    LET found == RunFrom(E, nodes, roots, merges)
        reached == UNION {C.members : C \in ToSet(found.cycles)}
        Entered(C) == \/ C.rep \in ToSet(roots)
                      \/ \E e \in E : e[1] \in reached \ C.members /\ e[2] = C.rep
    IN  /\ ~found.failed
        /\ reached = ToSet(roots) \cup {p[2] : p \in {p \in Paths(E, nodes) : p[1] \in ToSet(roots)}}
        /\ {C.members : C \in ToSet(found.cycles)} = Components(E \cap (reached \X reached), reached)
        /\ \A i \in DOMAIN found.cycles :
            /\ Entered(found.cycles[i])
            /\ \A e \in E : e[1] \in found.cycles[i].members =>
                  \E j \in 1 .. i : e[2] \in found.cycles[j].members

ASSUME DetectorFindsComponents ==
    /\ \A E \in SUBSET ((0 .. 2) \X (0 .. 2)), merges \in BOOLEAN :
        \A roots \in {<<0, 1, 2>>, <<2, 0, 1>>, <<1>>} : FindsComponents(E, 0 .. 2, roots, merges)
    /\ \A E \in SUBSET {e \in (0 .. 3) \X (0 .. 3) : e[1] # e[2]} :
        FindsComponents(E, 0 .. 3, <<0>>, TRUE)
================================================================================
