---------------------------- MODULE AndersSolver ----------------------------
(****************************************************************************)
(* The online half of the ptranalysis solver (solve.cpp) as operators on a  *)
(* constraint graph g: one run of solve_node, one run of lazy cycle         *)
(* detection.                                                               *)
(*                                                                          *)
(* nd describes the nodes: sz[n] is obj_sz; kind[n] is "fun" for the        *)
(* first node of a function object, the kind of external function ("alloc", *)
(* "realloc", "l_a0", "noop") for the object of one, "int" for the node of  *)
(* a non-pointer argument, "arg" for a pointer argument, else "var"; valid  *)
(* is the set of offsets that occur; insn[i] is call i: whether it returns  *)
(* a pointer (ptr), its value and object nodes (val, obj) and the nodes of  *)
(* its arguments (args, with null and non-pointers as below).               *)
(****************************************************************************)
EXTENDS PointerGraph

null_arg == 0
int_arg == -1
ExtKinds == {"alloc", "realloc", "l_a0", "noop"}

ext_func_node_set(nd) == {n \in DOMAIN nd.kind : nd.kind[n] \in ExtKinds}
func_node_set(nd) ==
    ext_func_node_set(nd)
      \cup {n \in DOMAIN nd.kind : nd.kind[n] = "fun" /\ nd.sz[n] > 1}

\* pts_init: each object is recorded under the largest offset that occurs and
\* that it has room for; the mask of an offset collects all from there up.
LargestOff(nd, n) == Max({0} \cup {k \in nd.valid : k < nd.sz[n]})
off_mask_NoLimit(nd, off) == {n \in DOMAIN nd.sz : nd.sz[n] > 0}
off_mask(nd, off) == {n \in DOMAIN nd.sz : LargestOff(nd, n) >= off}
geps(nd, S, off) == {n + off : n \in S \cap off_mask(nd, off)}

\* solve_init: the edges and complex constraints of the reps, and a worklist of
\* the nodes that point to something and have somewhere to propagate it.
SolveInit(g, cons) ==
    LET add(h, C) ==
          LET d == h.rep[C.dest]
              s == h.rep[C.src]
              c == Len(h.cplx) + 1
              x == [h EXCEPT !.cplx = Append(@, C)]
          IN  CASE C.type = "addr_of" -> [h EXCEPT !.pts[d] = @ \cup {C.src}]
                [] C.type = "copy" ->
                     Check([h EXCEPT !.copy[s] = @ \cup {d}], s # d, "self copy")
                [] C.type = "load" -> [x EXCEPT !.load[s] = @ \cup {c}]
                [] C.type = "store" -> [x EXCEPT !.store[d] = @ \cup {c}]
                [] C.type = "gep" -> [x EXCEPT !.gep[s] = @ \cup {c}]
        first(h) == {n \in DOMAIN h.rep :
                       /\ IsRep(h, n) /\ h.pts[n] # {}
                       /\ h.copy[n] \cup h.load[n] \cup h.store[n] \cup h.gep[n] # {}}
        queued(h) == FoldLeft(PushNode, h, Ascending(first(h)))
    IN  [queued(FoldLeft(add, [g EXCEPT !.wl = EmptyWorklist(DOMAIN g.rep)], cons))
           EXCEPT !.wl = SwapIfEmpty(@)]

----------------------------------------------------------------------------
\* Edges and points-to additions. The caller pushes when pts grew.

add_copy_edge(g, src, dest) ==
    IF i2p \in {src, dest} \/ src = dest \/ dest \in g.copy[src] THEN g
    ELSE [g EXCEPT !.copy[src] = @ \cup {dest}, !.pts[dest] = @ \cup g.pts[src]]

PushIfGrown_Never(old, g, n) == g
PushIfGrown(old, g, n) == IF g.pts[n] = old.pts[n] THEN g ELSE PushNode(g, n)
EdgeAndPush(g, src, dest) == PushIfGrown(g, add_copy_edge(g, src, dest), dest)
AddAndPush(g, n, S) == PushIfGrown(g, [g EXCEPT !.pts[n] = @ \cup S], n)

\* handle_ext: call i of the external function of kind t, the first time only.
Effect(g, nd, t, i) ==
    LET I == nd.insn[i]
        val == g.rep[I.val]
        arg0 == IF I.args = <<>> THEN null_arg ELSE I.args[1]
        new == \/ t = "alloc"
               \/ t = "realloc" /\ I.args # <<>> /\ arg0 = null_arg
    IN  IF t = "noop" \/ ~I.ptr \/ (~new /\ arg0 = null_arg) THEN g
        ELSE IF ~new /\ arg0 # int_arg THEN EdgeAndPush(g, g.rep[arg0], val)
        ELSE AddAndPush(g, val, IF new THEN {I.obj} ELSE {i2p})

handle_ext(g, nd, f, i) ==
    IF <<f, i>> \in g.seen THEN g
    ELSE Effect([g EXCEPT !.seen = @ \cup {<<f, i>>}], nd, nd.kind[f], i)

HandleExtCalls(g, nd, f, I) ==
    FoldLeft(LAMBDA h, i : handle_ext(h, nd, f, i), g, Ascending(I))

----------------------------------------------------------------------------
\* Loads and stores

\* solve_ls_off: D = *S + off or *D + off = S over the new members d. In an
\* indirect call (I # {}) only functions count, external ones by what they do;
\* in any other constraint functions do not count.
SolveLsOff(g, nd, d, load, dest, src, off, I) ==
    LET mask == off_mask(nd, off) \cup
                  IF I = {} THEN {} ELSE ext_func_node_set(nd)
        members == Ascending({x \in d \cap mask :
                                (x \in func_node_set(nd)) = (I # {})})
        step(h, x) ==
          LET rn == h.rep[x + off]
          IN  IF x \in ext_func_node_set(nd) THEN HandleExtCalls(h, nd, x, I)
              ELSE IF load THEN add_copy_edge(h, rn, dest)
              ELSE IF I # {} /\ rn \in DOMAIN nd.kind /\ nd.kind[rn] = "int" THEN h
              ELSE EdgeAndPush(h, src, rn)
        pushed(h) == IF load THEN PushIfGrown(g, h, dest) ELSE h
    IN  pushed(FoldLeft(step, g, members))

\* The load or store without offset: every new member counts.
SolveLsPlain(g, d, load, dest, src) ==
    LET step(h, x) == IF load THEN add_copy_edge(h, h.rep[x], dest)
                      ELSE EdgeAndPush(h, src, h.rep[x])
        pushed(h) == IF load THEN PushIfGrown(g, h, dest) ELSE h
    IN  pushed(FoldLeft(step, g, Ascending(d)))

\* solve_ls_cons for constraint cid of node n; a.seen is cons_seen. When the
\* constraint became redundant it is deleted from its node.
SolveLs(a, nd, n, hcd_rep, d, cid) ==
    LET drop(h) == [h EXCEPT !.load[n] = @ \ {cid}, !.store[n] = @ \ {cid}]
        exts == Ascending(d \cap ext_func_node_set(nd))
        effect(g, C, load, I) ==
          IF C \in a.seen
            THEN drop(FoldLeft(LAMBDA h, f : HandleExtCalls(h, nd, f, I), g,
                               IF I = {} THEN <<>> ELSE exts))
          ELSE IF C.off # 0 THEN SolveLsOff(g, nd, d, load, C.dest, C.src, C.off, I)
          ELSE IF hcd_rep # 0
            THEN drop(IF load THEN EdgeAndPush(g, hcd_rep, C.dest)
                      ELSE EdgeAndPush(g, C.src, hcd_rep))
          ELSE SolveLsPlain(g, d, load, C.dest, C.src)
        run(g, C, I) ==
          [seen |-> a.seen \cup {C},
           g |-> effect(Check(g, n = IF C.type = "load" THEN C.src ELSE C.dest,
                              "constraint of another node"),
                        C, C.type = "load", I)]
        insns(Cs) == {p[2] : p \in {q \in a.g.icall : n \in a.g.ind /\ q[1] \in Cs}}
        update(C0, C) ==
          run([a.g EXCEPT !.cplx[cid] = C,
                          !.icall = IF n \notin a.g.ind THEN @
                                    ELSE {IF p[1] = C0 THEN <<C, p[2]>> ELSE p : p \in @}],
              C, IF insns({C0}) = {} THEN {} ELSE insns({C0, C}))
    IN  update(a.g.cplx[cid],
               [a.g.cplx[cid] EXCEPT !.dest = a.g.rep[@], !.src = a.g.rep[@]])

\* solve_gep_cons. Assigning to pts of an offset nobody has room for fails.
SolveGep(a, nd, n, d, cid) ==
    LET C == [a.g.cplx[cid] EXCEPT !.dest = a.g.rep[@], !.src = a.g.rep[@]]
        g == [Check(Check(a.g, C.src = n, "constraint of another node"),
                    off_mask(nd, C.off) # {}, "no object for the offset")
                EXCEPT !.cplx[cid] = C]
    IN  IF C \in a.seen THEN [a EXCEPT !.g = [g EXCEPT !.gep[n] = @ \ {cid}]]
        ELSE [g |-> AddAndPush(g, C.dest, geps(nd, d, C.off)), seen |-> a.seen \cup {C}]

----------------------------------------------------------------------------
\* solve_prop: the new members d of n along its copy edges. Equal sets at both
\* ends, for the first time, make n a start of the next LCD run.
SolveProp(g, n, d) ==
    LET to == Ascending(g.copy[n])
        reps == SelectSeq(Dedupe([i \in DOMAIN to |-> g.rep[to[i]]]), LAMBDA x : x # n)
        step(h, x) ==
          LET equal == <<n, x>> \notin h.lcdE /\ h.pts[n] # {} /\ h.pts[n] = h.pts[x]
          IN  AddAndPush(IF equal THEN [h EXCEPT !.lcdE = @ \cup {<<n, x>>},
                                                 !.lcdS = @ \cup {n}] ELSE h, x, d)
    IN  FoldLeft(step, Check(g, n \notin g.copy[n], "copy self-loop"), reps)

\* Mutant: a member that was merged with the variable already is merged again.
HcdMerge_Again(g, n, d) ==
    FoldLeft(LAMBDA a, m : IF a.g.rep[m] = i2p THEN a ELSE MergeRep(a, a.g.rep[m]),
             [g |-> g, r |-> g.rep[g.hcd[n]]], Ascending(d))

\* Hybrid cycle detection, online: all that n points to is merged with the
\* variable of the offline cycle of *n.
HcdMerge(g, n, d) ==
    FoldLeft(LAMBDA a, m :
               LET x == a.g.rep[m]
               IN  IF x \in {a.r, i2p} THEN a ELSE MergeRep(a, x),
             [g |-> g, r |-> g.rep[g.hcd[n]]], Ascending(d))

\* solve_node, the now-th run.
SolveNode(g, nd, n, now) ==
    LET d == g.pts[n] \ g.prev[n]
        over(h, f(_, _), cids) == FoldLeft(f, [g |-> h, seen |-> {}], Ascending(cids)).g
        geps_of(h) == over(h, LAMBDA a, c : SolveGep(a, nd, n, d, c), h.gep[n])
        ls(h, r, cids) == over(h, LAMBDA a, c : SolveLs(a, nd, n, r, d, c), cids)
        stores(h, r) == ls(h, r, h.store[n])
        loads(h, r) == ls(h, r, h.load[n])
        complex(m) == IF m.g.bad # "" THEN m.g ELSE
            SolveProp(geps_of(stores(loads(
              Check(PushNode(m.g, m.r), m.g.rep[n] \in {n, m.r}, "n merged elsewhere"),
              m.r), m.r)), n, d)
        seen(h) == complex(IF g.hcd[n] = 0 THEN [g |-> h, r |-> 0] ELSE HcdMerge(h, n, d))
    IN  IF d = {} THEN [g EXCEPT !.vtime[n] = now]
        ELSE seen([g EXCEPT !.vtime[n] = now, !.prev[n] = g.pts[n]])

----------------------------------------------------------------------------
BITWORD_SIZE == 64
ElementSize == 128

\* Lazy cycle detection. o.id[n] is lcd_dfs_id, -1 for "no entry"; reading the
\* entry of a node without one makes it 0.

\* One copy edge of n.
RECURSIVE LcdDfs(_, _)
LcdEdge(a, n, dest0) ==
    LET dest == a.o.g.rep[dest0]
        to(o, d) ==
            IF d = dest0 THEN [a EXCEPT !.o = o]
            ELSE [o |-> [o EXCEPT !.g = Check(@, d \in a.add \/ d # n, "successor merged with the node")],
                  del |-> a.del \cup {dest0}, add |-> a.add \cup {d}]
        lower(o, d, low) ==
            to([o EXCEPT !.id[d] = low, !.id[n] = IF low < @ THEN low ELSE @], d)
        visited(o) == lower(o, o.g.rep[dest], IF o.id[o.g.rep[dest]] < 0 THEN 0
                                              ELSE o.id[o.g.rep[dest]])
    IN  IF a.o.g.bad # "" THEN a
        ELSE IF dest0 = n THEN [a EXCEPT !.o.g = Fail(@, "copy self-loop")]
        ELSE IF dest \in a.add \/ dest = n THEN [a EXCEPT !.del = @ \cup {dest0}]
        ELSE IF dest \in a.o.roots THEN to(a.o, dest)
        ELSE visited(IF a.o.id[dest] = -1 THEN LcdDfs(a.o, dest) ELSE a.o)

\* All copy edges of n, which the search may change as it goes: the bitmap iterator has a
\* copy of the word it is in, and looks in copy_to for a bit above the last one when the
\* word runs out. By then n must still be a representative (merge_nodes clears copy_to of a
\* node it merges into another) and the element must not have been erased.
RECURSIVE LcdEdges(_, _, _)
LcdEdges(a, n, last) ==
    LET rest == {x \in a.o.g.copy[n] : x > last}
        word == {x \in rest : x \div BITWORD_SIZE = Min(rest) \div BITWORD_SIZE}
        element == {x \in a.o.g.copy[n] : x \div ElementSize = last \div ElementSize}
    IN  IF a.o.g.bad # "" THEN a
        ELSE IF ~IsRep(a.o.g, n)
          THEN [a EXCEPT !.o.g = Fail(@, "merged while on the DFS path")]
        ELSE IF last > 0 /\ element = {} THEN [a EXCEPT !.o.g = Fail(@, "element erased")]
        ELSE IF rest = {} THEN a
        ELSE LcdEdges(FoldLeft(LAMBDA b, x : LcdEdge(b, n, x), a, Ascending(word)), n, Max(word))

LcdDfs(o, n) ==
    LET our == o.cur
        enter == [o EXCEPT !.cur = @ + 1, !.id[n] = our,
                           !.g = Check(@, n # i2p /\ n \notin o.roots /\ IsRep(@, n),
                                       "bad LCD node")]
        merge(h, above) ==
            FoldLeft(LAMBDA m, x : IF m.g.rep[x] = m.r THEN m ELSE MergeRep(m, m.g.rep[x]),
                     [g |-> h, r |-> n], above)
        done(p, k, m) ==
            [p EXCEPT !.roots = @ \cup {m.r}, !.stk = SubSeq(@, 1, Len(@) - k),
                      !.g = IF k = 0 THEN m.g ELSE PushNode(m.g, m.r)]
        scc(p, above) == done(p, Len(above), merge(p.g, above))
        leave(p) == IF p.g.bad # "" THEN p
                    ELSE IF p.id[n] # our THEN [p EXCEPT !.stk = Append(@, n)]
                    ELSE scc(p, Above(p.stk, p.id, our))
        edges(a) ==
            leave([a.o EXCEPT !.g.copy[n] = (@ \ a.del) \cup a.add])
    IN  edges(LcdEdges([o |-> enter, del |-> {}, add |-> {}], n, 0))

\* run_lcd: from every start that is a rep and not seen yet.
RunLcd(g) ==
    LET done(o) == [Check(o.g, o.stk = <<>>, "LCD stack") EXCEPT !.lcdS = {}]
    IN  done(FoldLeft(LAMBDA p, n :
                        IF p.g.rep[n] = n /\ p.id[n] = -1 THEN LcdDfs(p, n) ELSE p,
                      [g |-> g, id |-> [n \in DOMAIN g.rep |-> -1], roots |-> {},
                       stk |-> <<>>, cur |-> 1],
                      Ascending(g.lcdS)))

----------------------------------------------------------------------------
\* run_cleanup and pts_cleanup (main.cpp): the edges go, then the points-to
\* sets of the objects that are not arguments, then nodes with equal sets are
\* merged.
Cleanup(g, nd) ==
    LET isArg(n) == n \in DOMAIN nd.kind /\ nd.kind[n] \in {"arg", "int"}
        isObj(n) == n \in DOMAIN nd.sz /\ nd.sz[n] # 0
        none == [n \in DOMAIN g.rep |-> {}]
        c == [g EXCEPT !.prev = none, !.copy = none, !.load = none, !.store = none,
                       !.gep = none, !.ind = {}, !.icall = {}, !.cplx = <<>>,
                       !.hcd = [n \in DOMAIN @ |-> 0]]
        step(a, n) ==
          LET S == a.g.pts[n]
              j == {e \in a.eq : e[1] = S}
              first == a.g.rep[(CHOOSE e \in j : TRUE)[2]]
          IN  IF isObj(n) /\ ~isArg(n) THEN [a EXCEPT !.g.pts[n] = {}]
              ELSE IF S = {} THEN a
              ELSE IF j = {} THEN [a EXCEPT !.eq = @ \cup {<<S, n>>}]
              ELSE [a EXCEPT !.g = MergeNodes(@, a.g.rep[n], first)]
    IN  FoldLeft(step, [g |-> c, eq |-> {}], Ascending(DOMAIN g.rep)).g
=============================================================================
