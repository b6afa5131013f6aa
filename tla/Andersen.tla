-------------------------------- MODULE Andersen --------------------------------
(* Andersen::runOnModule (andersen/lib/Andersen.cpp) once the constraints are      *)
(* collected: the optional passes HVN and HU, then ConstraintSolving, then the     *)
(* queries of Andersen.cpp and AndersenAA.cpp.                                     *)
EXTENDS ConstraintOptimize

\* The settings of EnableHVN and EnableHU explored with some options and a problem, and
\* whether the hash map of graph nodes may outgrow its buckets during a search.
CONSTANT Passes(_, _)

VARIABLES
    passes,
    original,       \* the constraints as collected
    unseen          \* a pass has left graph nodes unvisited

andersenVars == <<vars, passes, original, unseen>>

AndersenInit ==
    /\ NothingSolved
    /\ passes \in Passes(options, constraints)
    /\ original = constraints
    /\ unseen = FALSE
    /\ pc = IF passes.hvn THEN "hvn" ELSE IF passes.hu THEN "hu" ELSE Begin

\* getOrInsertNode: a search from n meets nodes that are not in the map yet.
AddsNode(n) ==
    \E p \in Paths(Predecessors, UNION {{e[1], e[2]} : e \in Predecessors}) :
        p[1] = n /\ p[2] \notin GraphNodes

\* From where the nodes of the graph are visited: runOnGraph iterates over the hash map
\* to which the search adds nodes.  When the map outgrows its buckets the rest of the
\* iteration is anyone's guess; here it is over, after the lowest or highest root.
Roots ==
    {GraphNodes} \cup
    {{n} : n \in {n \in GraphNodes : /\ passes.rehash
                                     /\ (\A m \in GraphNodes : n =< m) \/ (\A m \in GraphNodes : n >= m)
                                     /\ AddsNode(n)}}

\* One pass, from the predecessor graph to the rewritten constraints.
Optimize(stage, then) ==
    /\ pc = stage
    /\ \E roots \in Roots :
        /\ \E out \in Optimized(stage, roots) :
            /\ rep' = out.rep
            /\ constraints' = out.constraints
        /\ unseen' = (unseen \/ roots # GraphNodes)
    /\ pc' = then
    /\ UNCHANGED <<options, collapseTo, pts, graph, curr, next, candidates, checked,
                   passes, original>>

RunHvn == Optimize("hvn", IF passes.hu THEN "hu" ELSE Begin)
RunHu == Optimize("hu", Begin)

Solve == Next /\ UNCHANGED <<passes, original, unseen>>

AndersenNext == RunHvn \/ RunHu \/ Solve

AndersenRunning == []<>(pc \in {"done", "undefined"}) \/ []<><<AndersenNext>>_andersenVars
AndersenSpec == AndersenInit /\ [][AndersenNext]_andersenVars /\ AndersenRunning

(********************************************************************************)
(* Queries                                                                      *)
(********************************************************************************)
NullObject == 3

\* Mutant: a pointer that may be null is taken for one that is.
andersenAlias_MayBeNull(m, n) ==
    IF rep[m] = rep[n] THEN "MustAlias"
    ELSE IF NullObject \in PointsTo(m) \cup PointsTo(n) THEN "NoAlias"
    ELSE "MayAlias"

\* AndersenAA::andersenAlias.
andersenAlias(m, n) ==
    LET Only(S) == Cardinality(S) = 1
    IN  IF rep[m] = rep[n] THEN "MustAlias"
        ELSE IF {rep[m], rep[n]} \cap DOMAIN pts # {rep[m], rep[n]} THEN "MayAlias"
        ELSE IF {NullObject} \in {PointsTo(m), PointsTo(n)} THEN "NoAlias"
        ELSE IF Only(PointsTo(m)) /\ PointsTo(m) = PointsTo(n) THEN "MustAlias"
        ELSE IF (PointsTo(m) \cap PointsTo(n)) \ {NullObject} # {} THEN "MayAlias"
        ELSE "NoAlias"

(********************************************************************************)
(* Properties                                                                   *)
(********************************************************************************)
AndersenTypeOK ==
    /\ pc \in {"hvn", "hu"} \/ TypeOK
    /\ \A c \in constraints : c.dest \in Nodes /\ c.src \in Nodes
    /\ rep \in [Nodes -> Nodes]
    /\ \A n \in Nodes : rep[rep[n]] = rep[n]

\* HCD merges the variables of a cycle that leads through *n, whether n points
\* anywhere or not; when it does not, no value ever takes that way.
HollowCycle(least) == \E n \in DOMAIN collapseTo : At(least, n) = {}

\* The pass ends with the least solution of the constraints it collected.  Merging what
\* HVN, HU, lazy or offline cycle detection find equivalent adds nothing to what a
\* pointer may hold (but HU after HVN takes the addresses of merged variables for one,
\* and HCD goes by cycles that are none), and nothing is missing, unless a search left
\* nodes unvisited or HCD ran (see FixedPointReached).
SolutionIsLeast ==
    pc = "done" =>
        \E least \in {LeastSolution(original)} : \A n \in Nodes :
            /\ (passes.hvn /\ passes.hu) \/ HollowCycle(least) \/ PointsTo(n) \subseteq At(least, n)
            /\ unseen \/ options.hcd \/ At(least, n) \subseteq PointsTo(n)

\* Alias queries, which compare merged nodes before their sets, answer NoAlias only to
\* pointers that never hold the same object, and MustAlias only to pointers that hold
\* the same objects.
AliasAnswersHold ==
    pc = "done" /\ ~unseen /\ ~options.hcd =>
        \E least \in {LeastSolution(original)} : \A m, n \in Nodes :
            CASE andersenAlias(m, n) = "NoAlias" ->
                    At(least, m) \cap At(least, n) \subseteq {NullObject}
              [] andersenAlias(m, n) = "MustAlias" /\ ~(passes.hvn /\ passes.hu) ->
                    At(least, m) = At(least, n)
              [] OTHER -> TRUE
================================================================================
