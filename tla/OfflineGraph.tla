---------------------------- MODULE OfflineGraph ----------------------------
(****************************************************************************)
(* The offline optimisations of cons_opt.cpp as operators on a constraint   *)
(* graph g and a sequence of constraints cons: HVN and HU (hvn), hybrid     *)
(* cycle detection (hcd) and the factoring of loads and stores (factor_ls). *)
(*                                                                          *)
(* An offline graph o has k nodes for main nodes (AFP, then VAL: o.main is  *)
(* their sequence, o.num its inverse with 0 for "none") and k REF nodes     *)
(* after them. rep, rank, edges, impl, pe (ptr_eq), id (dfs_id), ind        *)
(* (indirect) and root (scc_root) are the fields of OffNode; stk, cur and   *)
(* next are dfs_stk, curr_dfs and next_ptr_eq, lbl the pairs of lbl2pe.     *)
(****************************************************************************)
EXTENDS PointerGraph

\* add_off_edges; nargs is the number of AFP nodes. hcd leaves out the implicit
\* edges, the labels and the extra indirect nodes.
AddOffEdges(g, cons, last, hcd, main, nargs) ==
    LET k == Len(main)
        num == [n \in DOMAIN g.rep |->
                  IF Contains(main, n) THEN CHOOSE i \in 1..k : main[i] = n ELSE 0]
        used == {C \in ToSet(cons) : num[C.dest] # 0}
        of(t) == {C \in used : C.type = t}
        plain(t) == {C \in of(t) : C.off = 0}
        to(S, i) == {C \in S : num[C.dest] = i}
        inG(S) == {C \in S : num[C.src] # 0}
        nums(S) == {num[C.src] : C \in S}
        refs(S) == {k + num[C.src] : C \in S}
        gs == SelectSeq(cons, LAMBDA C : C \in of("gep"))
        geps == Dedupe([i \in DOMAIN gs |-> <<gs[i].src, gs[i].off>>])
        pe(C) == Cardinality(DOMAIN g.rep)
                   + (CHOOSE j \in DOMAIN geps : geps[j] = <<C.src, C.off>>) - 1
    IN  [k |-> k, main |-> main, num |-> num,
         rep |-> [i \in 1..2*k |-> i], rank |-> [i \in 1..2*k |-> 0],
         edges |-> [i \in 1..2*k |->
             IF i <= k THEN nums(inG(to(of("copy"), i))) \cup refs(to(plain("load"), i))
             ELSE nums(to(plain("store"), i - k))],
         impl |-> [i \in 1..2*k |->
             IF hcd \/ i <= k THEN {}
             ELSE nums(inG(to(of("addr_of"), i - k)))
                    \cup refs(inG(to(of("copy"), i - k)))],
         pe |-> [i \in 1..2*k |->
             IF hcd \/ i > k THEN {}
             ELSE {C.src : C \in to(of("addr_of"), i)}
                    \cup {pe(C) : C \in to(of("gep"), i)}],
         ind |-> 1..nargs \cup k+1..2*k \cup
             IF hcd THEN {}
             ELSE {num[C.dest] : C \in (of("copy") \ inG(of("copy")))
                                         \cup (of("load") \ plain("load"))},
         id |-> [i \in 1..2*k |-> 0], root |-> {}, stk |-> <<>>, cur |-> 1,
         next |-> Cardinality(DOMAIN g.rep) + Len(geps), lbl |-> {},
         bad |-> IF \A C \in ToSet(cons) :
                      /\ IsRep(g, C.dest) /\ IsRep(g, C.src)
                      /\ num[C.dest] # 0 \/ C.dest <= last
                      /\ num[C.dest] # 0 => num[C.src] # 0 \/ C.src <= last
                 THEN "" ELSE "no offline node"]

\* make_off_nodes. afp: the return and argument nodes of the address-taken
\* functions; last: last_obj_node. Only rep nodes get an offline node, but p_i2p
\* always does.
MakeOffGraph(g, cons, afp, last, hcd) ==
    LET reps(S) == Ascending({n \in S : IsRep(g, n)})
        args == reps(afp)
        main == args \o <<p_i2p>> \o reps({n \in DOMAIN g.rep : n > last})
    IN  AddOffEdges(g, cons, last, hcd, main, Len(args))

----------------------------------------------------------------------------
\* HVN and HU

MergeOff(o, a, b) ==
    LET n1 == IF o.rank[a] < o.rank[b] THEN b ELSE a
        n2 == IF n1 = a THEN b ELSE a
    IN  [o EXCEPT
          !.rank[n1] = IF @ = o.rank[n2] THEN @ + 1 ELSE @,
          !.rep = [i \in DOMAIN @ |-> IF @[i] = n2 THEN n1 ELSE @[i]],
          !.edges[n1] = @ \cup o.edges[n2], !.edges[n2] = {},
          !.impl[n1] = @ \cup o.impl[n2], !.impl[n2] = {},
          !.pe[n1] = @ \cup o.pe[n2], !.pe[n2] = {},
          !.ind = IF n2 \in @ THEN @ \cup {n1} ELSE @]

\* The labels on the incoming edges of n; a neighbour that points to nothing
\* adds none.
Incoming(o, n) ==
    (UNION {o.pe[m] : m \in {o.rep[e] : e \in o.edges[n]} \ {n}}) \ {0}

OrNonPtr(L) == IF L = {} THEN {0} ELSE L

\* hvn_label: an indirect node gets a label of its own, any other node the one
\* label that stands for the set it receives.
HvnLabel(o, n) ==
    LET pe == OrNonPtr(o.pe[n] \cup Incoming(o, n))
        known == {p \in o.lbl : p[1] = pe}
    IN  IF n \in o.ind THEN [o EXCEPT !.pe[n] = {o.next}, !.next = @ + 1]
        ELSE IF Cardinality(pe) = 1 THEN [o EXCEPT !.pe[n] = pe]
        ELSE IF known # {}
          THEN [o EXCEPT !.pe[n] = {(CHOOSE p \in known : TRUE)[2]}]
        ELSE [o EXCEPT !.pe[n] = {o.next}, !.next = @ + 1,
                       !.lbl = @ \cup {<<pe, o.next>>}]

\* Mutant: an indirect node gets no label of its own.
HuLabel_Direct(o, n) == [o EXCEPT !.pe[n] = OrNonPtr(@ \cup Incoming(o, n))]

\* hu_label: the union of what it receives, with a label of its own if indirect.
HuLabel(o, n) ==
    LET new == n \in o.ind
        own == IF new THEN {o.next} ELSE {}
    IN  [o EXCEPT !.pe[n] = OrNonPtr(@ \cup own \cup Incoming(o, n)),
                  !.next = IF new THEN @ + 1 ELSE @]

\* hvn_dfs and hvn_check_edge: the nodes of an SCC are merged when its root is
\* left, and the result is labelled from nodes that all have their labels.
RECURSIVE HvnDfs(_, _, _)
HvnDfs(o, n, do_union) ==
    LET our == o.cur
        lower(p, n2) == [p EXCEPT !.id[n] = IF p.id[n2] < @ THEN p.id[n2] ELSE @]
        checkEdge(p, dest) ==
            LET n2 == p.rep[dest]
            IN  IF n2 = n \/ n2 \in p.root THEN p
                ELSE lower(IF p.id[n2] = 0 THEN HvnDfs(p, n2, do_union) ELSE p, n2)
        label(p, r) ==
            IF do_union THEN HuLabel([p EXCEPT !.root = @ \cup {r}], r)
            ELSE HvnLabel([p EXCEPT !.root = @ \cup {r}], r)
        merged(p) == label(p, p.rep[n])
        scc(p, above) ==
            merged(FoldLeft(LAMBDA q, n2 : MergeOff(q, q.rep[n], n2),
                            [p EXCEPT !.stk = SubSeq(@, 1, Len(@) - Len(above))],
                            above))
        leave(p) == IF p.id[n] # our THEN [p EXCEPT !.stk = Append(@, n)]
                    ELSE scc(p, Above(p.stk, p.id, our))
    IN  leave(FoldLeft(checkEdge, [o EXCEPT !.cur = @ + 1, !.id[n] = our],
                       Ascending(o.edges[n]) \o Ascending(o.impl[n])))

HvnDfsAll(o, do_union) ==
    FoldLeft(LAMBDA p, i : IF p.id[i] # 0 THEN p ELSE HvnDfs(p, i, do_union),
             o, [i \in 1..2*o.k |-> i])

\* merge_ptr_eq, the nodes: those with the same labels become one.
MergeLabelled(g, o) ==
    LET joined(m, a, pe, first, en) ==
          [g |-> m, first |-> (a.first \ first) \cup {<<pe, m.rep[en]>>}]
        step(a, i) ==
          LET pe == o.pe[o.rep[o.num[i]]]
              first == {f \in a.first : f[1] = pe}
              en == (CHOOSE f \in first : TRUE)[2]
          IN  IF pe = {0} THEN [a EXCEPT !.g.nonptr = @ \cup {i}]
              ELSE IF first = {}
                THEN [a EXCEPT !.first = @ \cup {<<pe, i>>},
                               !.g = Check(Check(@, IsRep(@, i), "first not rep"),
                                           i \notin @.nonptr /\ pe # {}, "nonptr")]
              ELSE joined(MergeNodes(a.g, en, i), a, pe, first, en)
    IN  FoldLeft(step, [g |-> g, first |-> {}], Ascending(ToSet(o.main))).g

\* Both ends become the reps, but the source of addr_of stays: it may be
\* pointed to as before.
RewriteCons(g, cons) ==
    LET new == [i \in DOMAIN cons |->
                  [cons[i] EXCEPT !.dest = g.rep[@],
                     !.src = IF cons[i].type = "addr_of" THEN @ ELSE g.rep[@]]]
    IN  Dedupe(SelectSeq(new, LAMBDA C : C.type # "copy" \/ C.dest # C.src))

RewriteIcall(g, icall) ==
    {<<[p[1] EXCEPT !.dest = g.rep[@], !.src = g.rep[@]], p[2]>> : p \in icall}

\* hvn: the graph and the constraints after one round of HVN or HU.
Hvn(g, cons, afp, last, do_union) ==
    LET merged(o) == MergeLabelled(Check(g, o.bad = "", o.bad), o)
        rewritten(m) ==
          LET ptr(C) == C.dest \notin m.nonptr /\ C.src \notin m.nonptr
          IN  [g |-> [m EXCEPT !.icall = RewriteIcall(m, {p \in @ : ptr(p[1])})],
               cons |-> RewriteCons(m, SelectSeq(cons, ptr))]
    IN  rewritten(merged(HvnDfsAll(MakeOffGraph(g, cons, afp, last, FALSE), do_union)))

----------------------------------------------------------------------------
\* Hybrid cycle detection

\* hcd_dfs: the main nodes of the VARs of an SCC are merged, and each REF of it
\* is mapped to the result. The offline nodes are not merged.
RECURSIVE HcdDfs(_, _)
HcdDfs(a, n) ==
    LET our == a.o.cur
        k == a.o.k
        main == a.o.main
        lower(b, d) == [b EXCEPT !.o.id[n] = IF b.o.id[d] < @ THEN b.o.id[d] ELSE @]
        edge(b, d) == IF d \in b.o.root THEN b
                      ELSE lower(IF b.o.id[d] = 0 THEN HcdDfs(b, d) ELSE b, d)
        map(m, refs) == [m.g EXCEPT !.hcd =
                           [x \in DOMAIN @ |-> IF x \in refs THEN m.r ELSE @[x]]]
        merge(h, vars) == FoldLeft(LAMBDA m, x : MergeRep(m, main[x]),
                                   [g |-> h, r |-> main[Head(vars)]], Tail(vars))
        scc(b, above, vars) ==
            [o |-> [b.o EXCEPT !.stk = SubSeq(@, 1, Len(@) - Len(above)),
                               !.root = @ \cup {n} \cup ToSet(above)],
             g |-> IF above = <<>> THEN b.g
                   ELSE IF vars = <<>> THEN Fail(b.g, "no VAR in SCC")
                   ELSE map(merge(b.g, vars),
                            {main[x - k] : x \in {y \in {n} \cup ToSet(above) : y > k}})]
        root(b, above) ==
            scc(b, above, SelectSeq(<<n>> \o above, LAMBDA x : x <= k))
        leave(b) == IF b.o.id[n] # our THEN [b EXCEPT !.o.stk = Append(@, n)]
                    ELSE root(b, Above(b.o.stk, b.o.id, our))
    IN  leave(FoldLeft(edge, [a EXCEPT !.o.cur = @ + 1, !.o.id[n] = our],
                       Ascending(a.o.edges[n])))

Hcd(g, cons, afp, last) ==
    LET all(o) == FoldLeft(LAMBDA b, i : IF b.o.id[i] # 0 THEN b ELSE HcdDfs(b, i),
                           [g |-> Check(g, o.bad = "", o.bad), o |-> o],
                           [i \in 1..2*o.k |-> i])
        rewritten(m) == [g |-> [m EXCEPT !.icall = RewriteIcall(m, @)],
                         cons |-> RewriteCons(m, cons)]
    IN  rewritten(all(MakeOffGraph(g, cons, afp, last, TRUE)).g)

----------------------------------------------------------------------------
\* Factoring of loads and stores

\* factor_ls(other, ref, off, load) for the group c of one (ref, off) pair:
\* a group of two or more goes through a temporary node. temp is factor_temp,
\* which the loads and the stores share.
FactorGroup(c, key, load) ==
    LET in == {C \in c.old : /\ C.type = (IF load THEN "load" ELSE "store")
                             /\ <<(IF load THEN C.src ELSE C.dest), C.off>> = key}
        other == Ascending({IF load THEN C.dest ELSE C.src : C \in in})
        t == Cardinality(DOMAIN c.g.rep)
        ls(x) == IF load THEN Constraint("load", x, key[1], key[2])
                 ELSE Constraint("store", key[1], x, key[2])
        cp(x) == IF load THEN Constraint("copy", x, t, 0)
                 ELSE Constraint("copy", t, x, 0)
        each(f(_)) == [i \in DOMAIN other |-> f(other[i])]
    IN  IF Len(other) < factor_ls_min_sz
          THEN [c EXCEPT !.cons = @ \o each(ls)]
        ELSE [c EXCEPT !.g = AddNode(@, t),
                       !.cons = Append(@, ls(t)) \o each(cp),
                       !.temp = {p \in @ : p[1] # key} \cup {<<key, t>>}]

\* up: in which order the hash maps list the groups.
FactorLs(g, cons, up) ==
    LET dir(s) == IF up THEN s ELSE Reverse(s)
        of(t) == SelectSeq(cons, LAMBDA C : C.type = t)
        keys(t) == dir(Dedupe([i \in DOMAIN of(t) |->
            <<(IF t = "load" THEN of(t)[i].src ELSE of(t)[i].dest), of(t)[i].off>>]))
        start == [g |-> g, old |-> ToSet(cons), temp |-> {},
                  cons |-> SelectSeq(cons, LAMBDA C : C.type \notin {"load", "store"})]
        loaded == FoldLeft(LAMBDA c, p : FactorGroup(c, p, TRUE), start, keys("load"))
        c == FoldLeft(LAMBDA d, p : FactorGroup(d, p, FALSE), loaded, keys("store"))
        temp(key) == {p[2] : p \in {q \in c.temp : q[1] = key}}
        new(C) == LET load == C.type = "load"
                      t == temp(<<(IF load THEN C.src ELSE C.dest), C.off>>)
                  IN  IF t = {} THEN C
                      ELSE IF load THEN [C EXCEPT !.dest = CHOOSE x \in t : TRUE]
                      ELSE [C EXCEPT !.src = CHOOSE x \in t : TRUE]
    IN  [g |-> [c.g EXCEPT !.icall = {<<new(p[1]), p[2]>> : p \in @}],
         cons |-> c.cons]
=============================================================================
