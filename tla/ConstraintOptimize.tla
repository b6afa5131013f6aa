--------------------------- MODULE ConstraintOptimize ---------------------------
(* The offline variable substitution of andersen/lib/ConstraintOptimize.cpp: HVN   *)
(* and HU give every pointer a label, merge the variables of one label and rewrite *)
(* the constraints over what is left.                                              *)
(*                                                                                 *)
(* A node of the predecessor graph is a variable n, its REF node *n, RefNode(n),   *)
(* or its ADR node &n, AdrNode(n).  Label 0 stands for "no pointer".               *)
EXTENDS ConstraintSolving

AdrNode(n) == n + 2 * NumNodes
AdrNodes == 2 * NumNodes .. 3 * NumNodes - 1

\* buildPredecessorGraph: <<n, m>> when n may hold what m holds.
PredecessorEdges(r, c) ==
    LET d == r[c.dest]
        s == r[c.src]
    IN  CASE c.type = "ADDR_OF" -> {<<d, AdrNode(s)>>, <<RefNode(d), s>>}
          [] c.type = "LOAD"    -> {<<d, RefNode(s)>>}
          [] c.type = "STORE"   -> {<<RefNode(d), s>>}
          [] c.type = "COPY"    -> {<<d, s>>, <<RefNode(d), RefNode(s)>>}

Predecessors == UNION {PredecessorEdges(rep, c) : c \in constraints}
GraphNodes == {e[1] : e \in Predecessors}

\* Variables that get values the graph does not show, through their address.
IndirectNodes(cons, r) == {r[c.src] : c \in {c \in cons : c.type = "ADDR_OF"}}

(********************************************************************************)
(* Labelling.  The search over the predecessor graph hands propagateLabel each  *)
(* component, as [rep, members, direct, preds], after those it depends on.      *)
(********************************************************************************)
\* Mutant: variables whose address is taken are direct.
IsDirect_Variable(root, C, indirect) == root < NumNodes

\* processNodeOnCycle, with the test of line 214, which takes RefNode(0) for a variable.
IsDirect(root, C, indirect) ==
    /\ root < NumNodes
    /\ root \notin indirect
    /\ \A n \in C \ {root} : n \notin indirect /\ ~IsRef(n)

NoLabels == [label |-> [n \in 0 .. 3 * NumNodes - 1 |-> 0], next |-> 1,
             off |-> << >>, known |-> << >>]

\* The members of a component get the label l of its representative.
WithLabel(st, c, l) ==
    [st EXCEPT !.label = [n \in c.members |-> l] @@ @,
               !.next = IF l = @ THEN @ + 1 ELSE @]

\* The label of a set met before, or a new one.
LabelOfSet(st, c, S) ==
    IF S \in DOMAIN st.known THEN WithLabel(st, c, st.known[S])
    ELSE [WithLabel(st, c, st.next) EXCEPT
            !.known = @ @@ (S :> st.next)]

\* HVNOptimizer::propagateLabel: equal labels among the predecessors, equal label.
HvnLabel(st, c) ==
    LET labels == {st.label[n] : n \in c.preds} \ {0}
    IN  IF ~c.direct THEN WithLabel(st, c, st.next)
        ELSE IF labels = {} THEN WithLabel(st, c, 0)
        ELSE IF Cardinality(labels) = 1 THEN WithLabel(st, c, CHOOSE l \in labels : TRUE)
        ELSE LabelOfSet(st, c, labels)

\* HUOptimizer::assignLabel and propagateLabel: equal offline points-to sets.
HuLabel(st, c) ==
    LET own == CASE c.rep \in AdrNodes -> {c.rep - 2 * NumNodes}
                 [] c.rep < NumNodes   -> {AdrNode(c.rep)}
                 [] OTHER              -> {c.rep}
        held == IF c.direct THEN UNION {st.off[n] : n \in c.preds} ELSE own
        known == [st EXCEPT !.off = @ @@ [n \in c.members |-> held]]
    IN  IF ~c.direct THEN WithLabel(known, c, st.next)
        ELSE IF held = {} THEN WithLabel(known, c, 0)
        ELSE LabelOfSet(known, c, held)

Propagate(pass, st, c) == IF pass = "hvn" THEN HvnLabel(st, c) ELSE HuLabel(st, c)

\* The labels that a search from the given roots may end with.  A component is entered,
\* and so represented, by a member that a root or an edge from outside leads to: which
\* one, the order of a hash map decides (here: its lowest or its highest).
Labellings(pass, E, indirect, roots) ==
    LET Reach(paths, S) == S \cup {p[2] : p \in {p \in paths : p[1] \in S}}
        Found(paths, reached) ==
            {[members |-> C,
              entries |-> {x \in C : x \in roots
                                     \/ \E e \in E : e[1] \in reached \ C /\ e[2] = x},
              preds   |-> {e[2] : e \in {e \in E : e[1] \in C /\ e[2] \notin C}},
              below   |-> Cardinality(Reach(paths, C))] :
                C \in {{y \in reached : y = x \/ (<<x, y>> \in paths /\ <<y, x>> \in paths)} :
                          x \in reached}}
        Entered(c, n) == [rep |-> n, members |-> c.members, preds |-> c.preds,
                          direct |-> IsDirect(n, c.members, indirect)]
        FirstIn(c) == Entered(c, CHOOSE x \in c.entries : \A y \in c.entries : x =< y)
        LastIn(c) == Entered(c, CHOOSE x \in c.entries : \A y \in c.entries : x >= y)
        Upwards(found, Enter(_)) ==
            FoldLeft(LAMBDA st, k : FoldSet(LAMBDA c, s : Propagate(pass, s, Enter(c)), st,
                                            {c \in found : c.below = k}),
                     NoLabels, [k \in 1 .. 3 * NumNodes |-> k]).label
    IN  UNION {{Upwards(found, FirstIn), Upwards(found, LastIn)} :
            found \in {Found(paths, Reach(paths, roots)) :
                paths \in {Paths(E, UNION {{e[1], e[2]} : e \in E})}}}

(********************************************************************************)
(* rewriteConstraint                                                            *)
(********************************************************************************)
Labelled(label, r, l) == {n \in Nodes : r[n] = n /\ label[n] = l}

\* Each label but 0 keeps one of its variables: which one, a hash map decides.
MergedAs(label, r) ==
    LET labels == {label[n] : n \in {n \in Nodes : r[n] = n}} \ {0}
    IN  {[n \in Nodes |-> IF label[r[n]] = 0 THEN r[n] ELSE keep[label[r[n]]]] :
            keep \in {f \in [labels -> Nodes] : \A l \in labels : f[l] \in Labelled(label, r, l)}}

\* One constraint after the merge r.  A pointer with the label of &x is replaced: *p
\* by x, p itself by &x.
RewriteOne(c, label, r) ==
    LET d == r[c.dest]
        s == r[c.src]
        AddressOf(n) == {x \in Nodes : r[x] = x /\ label[AdrNode(x)] = label[n]}
        New(type, to, from) == [type |-> type, dest |-> to, src |-> from]
        Copy(to, from) == IF to = from THEN {} ELSE {New("COPY", to, from)}
    IN  IF label[c.dest] = 0 THEN {}
        ELSE IF c.type = "ADDR_OF" THEN {New("ADDR_OF", d, c.src)}
        ELSE IF c.type = "STORE" THEN
            IF AddressOf(d) = {} THEN {New("STORE", d, s)}
            ELSE UNION {Copy(x, s) : x \in AddressOf(d)}
        ELSE IF label[s] = 0 THEN {}
        ELSE IF c.type = "LOAD" THEN
            IF AddressOf(s) = {} THEN {New("LOAD", d, s)}
            ELSE UNION {Copy(d, x) : x \in AddressOf(s)}
        ELSE IF d = s \/ AddressOf(s) = {} THEN Copy(d, s)
        ELSE {New("ADDR_OF", d, x) : x \in AddressOf(s)}

\* The outcomes of one pass over the constraints: what it merges and rewrites.
Optimized(pass, roots) ==
    UNION {{[rep |-> r, constraints |-> UNION {RewriteOne(c, label, r) : c \in constraints}] :
              r \in MergedAs(label, rep)} :
           label \in Labellings(pass, Predecessors, IndirectNodes(constraints, rep), roots)}
================================================================================
