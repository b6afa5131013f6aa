---------------------------- MODULE PointerGraph ----------------------------
(****************************************************************************)
(* The constraint graph of the ptranalysis solver (anders.h) and the union  *)
(* of two of its nodes (merge_nodes of cons_opt.cpp).                       *)
(*                                                                          *)
(* A graph is a record of functions on the node numbers: rep[n] is what     *)
(* get_node_rep(n) returns (path compression makes no difference to it),    *)
(* rank[n] the union-find rank of a representative; pts, prev, copy, load,  *)
(* store, gep and vtime are the fields of Node; nonptr and ind are sets of  *)
(* nodes, hcd is hcd_var with 0 for "no entry", wl is the worklist, cplx    *)
(* the complex constraints, icall the pairs of icall_cons, seen the pairs   *)
(* of ext_seen, lcdE and lcdS are lcd_edges and lcd_starts.                 *)
(* bad names the first assertion that failed; nothing happens after it.     *)
(****************************************************************************)
EXTENDS Worklist, FiniteSets, SequencesExt

i2p == 1
p_i2p == 2
first_var_node == 3
func_node_off_ret == 1
func_node_off_arg0 == 2
factor_ls_min_sz == 2

IsRep(g, n) == g.rep[n] = n
Fail(g, why) == [g EXCEPT !.bad = IF @ = "" THEN why ELSE @]
Check(g, ok, why) == IF ok THEN g ELSE Fail(g, why)

NewGraph(N) ==
    LET all(x) == [n \in N |-> x]
    IN  [rep |-> [n \in N |-> n], rank |-> all(0), pts |-> all({}),
         prev |-> all({}), copy |-> all({}), load |-> all({}),
         store |-> all({}), gep |-> all({}), vtime |-> all(0),
         nonptr |-> {}, ind |-> {}, hcd |-> all(0),
         wl |-> EmptyWorklist(N), cplx |-> <<>>, icall |-> {}, seen |-> {},
         lcdE |-> {}, lcdS |-> {}, bad |-> ""]

\* A node made after the others (factor_ls), number t.
AddNode(g, t) ==
    LET with(f, x) == [n \in DOMAIN f \cup {t} |-> IF n = t THEN x ELSE f[n]]
    IN  [g EXCEPT !.rep = with(@, t), !.rank = with(@, 0), !.pts = with(@, {}),
         !.prev = with(@, {}), !.copy = with(@, {}), !.load = with(@, {}),
         !.store = with(@, {}), !.gep = with(@, {}), !.vtime = with(@, 0),
         !.hcd = with(@, 0)]

PushNode(g, n) == [g EXCEPT !.wl = WLPush(@, n, g.vtime[n])]

\* Mutant: what n1 has propagated already is not propagated over n2's edges.
Absorb_KeepPrev(g, n1, n2) ==
    [g EXCEPT
        !.rank[n1] = IF @ = g.rank[n2] THEN @ + 1 ELSE @,
        !.rep = [n \in DOMAIN @ |-> IF @[n] = n2 THEN n1 ELSE @[n]],
        !.pts[n1] = @ \cup g.pts[n2], !.pts[n2] = {}, !.prev[n2] = {},
        !.copy[n1] = (@ \cup g.copy[n2]) \ {n1, n2}, !.copy[n2] = {},
        !.load[n1] = @ \cup g.load[n2], !.load[n2] = {},
        !.store[n1] = @ \cup g.store[n2], !.store[n2] = {},
        !.gep[n1] = @ \cup g.gep[n2], !.gep[n2] = {},
        !.ind = IF n2 \in @ THEN (@ \ {n2}) \cup {n1} ELSE @,
        !.nonptr = IF n2 \in @ THEN @ ELSE @ \ {n1}]

\* n1 takes over all that n2 has; its whole points-to set is to be propagated
\* again. Self copies are dropped.
Absorb(g, n1, n2) ==
    [g EXCEPT
        !.rank[n1] = IF @ = g.rank[n2] THEN @ + 1 ELSE @,
        !.rep = [n \in DOMAIN @ |-> IF @[n] = n2 THEN n1 ELSE @[n]],
        !.vtime[n1] = IF @ > g.vtime[n2] THEN g.vtime[n2] ELSE @,
        !.pts[n1] = @ \cup g.pts[n2], !.pts[n2] = {},
        !.prev[n1] = {}, !.prev[n2] = {},
        !.copy[n1] = (@ \cup g.copy[n2]) \ {n1, n2}, !.copy[n2] = {},
        !.load[n1] = @ \cup g.load[n2], !.load[n2] = {},
        !.store[n1] = @ \cup g.store[n2], !.store[n2] = {},
        !.gep[n1] = @ \cup g.gep[n2], !.gep[n2] = {},
        !.ind = IF n2 \in @ THEN (@ \ {n2}) \cup {n1} ELSE @,
        !.nonptr = IF n2 \in @ THEN @ ELSE @ \ {n1}]

\* merge_nodes: the node of higher rank becomes the parent. When both are the
\* pointer of an offline cycle, the variables of the two cycles are merged
\* too. The returned number is rep[a] of the result.
RECURSIVE MergeNodes(_, _, _)
MergeNodes(g, a, b) ==
    IF g.bad # "" THEN g
    ELSE IF 0 \in {a, b} \/ i2p \in {a, b} \/ a = b THEN Fail(g, "invalid node")
    ELSE IF ~IsRep(g, a) \/ ~IsRep(g, b)
      THEN Fail(g, "only rep nodes may be merged")
    ELSE
      LET n1 == IF g.rank[a] < g.rank[b] THEN b ELSE a
          n2 == IF n1 = a THEN b ELSE a
          checked(h, r2) == Check(h, n1 = r2 \/ IsRep(h, n1), "n1 merged again")
          both(m, r1, r2) ==
            IF r1 = r2 THEN m ELSE checked(MergeNodes(m, r1, r2), r2)
          vars(m, hv1, hv2) ==
            IF hv2 = 0 THEN m
            ELSE IF hv1 = 0 THEN [m EXCEPT !.hcd[n1] = hv2, !.hcd[n2] = 0]
            ELSE [both(m, m.rep[hv1], m.rep[hv2]) EXCEPT !.hcd[n2] = 0]
      IN  vars(Absorb(g, n1, n2), g.hcd[n1], g.hcd[n2])

\* The union of node x and of the representative m.r.
MergeRep(m, x) ==
    LET with(h) == [g |-> h, r |-> h.rep[m.r]]
    IN  with(MergeNodes(m.g, m.r, x))

\* The first of each value only, as what a "seen" set lets through.
Dedupe(s) == FoldLeft(LAMBDA t, c : IF Contains(t, c) THEN t ELSE Append(t, c),
                      <<>>, s)

\* What is above the nodes visited before our on the DFS stack, top first.
Above(stk, id, our) ==
    LET keep == Max({0} \cup {i \in DOMAIN stk : id[stk[i]] < our})
    IN  Reverse(SubSeq(stk, keep + 1, Len(stk)))

\* Ascending, as a bitmap or an expanded points-to set is iterated.
Ascending(S) ==
    IF S = {} THEN <<>>
    ELSE SelectSeq([i \in 1..Max(S) |-> i], LAMBDA i : i \in S)

----------------------------------------------------------------------------
\* Constraints: D = &S, D = S, D = *S + off, *D + off = S, D = S + off.
Constraint(t, d, s, o) == [type |-> t, dest |-> d, src |-> s, off |-> o]
=============================================================================
