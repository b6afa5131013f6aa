------------------------------- MODULE Anders -------------------------------
(****************************************************************************)
(* The ptranalysis run from the constraint list to the query results:       *)
(* cons_opt() clumps the object nodes, merges nodes that are shown to have  *)
(* equal points-to sets (HVN, HU, HCD) and factors loads and stores;        *)
(* solve() propagates points-to sets, merging more nodes as it goes (HCD,   *)
(* LCD); run_cleanup() and pts_cleanup() leave what the clients read.       *)
(*                                                                          *)
(* A program is what obj_cons_id() leaves: sz and kind of every node (see   *)
(* AndersSolver), the constraint sequence cons, ind (ind_calls), icall (the *)
(* pairs of icall_cons), insn (the calls). Least(p) is what the constraints *)
(* say of p, computed from them directly in the numbering they came with.   *)
(****************************************************************************)
EXTENDS OfflineGraph, AndersSolver

CONSTANTS
    Programs,     \* the constraint programs obj_cons_id may leave
    MinDel,       \* hr() goes on while a round removes so many constraints
    lcd_sz,       \* LCD runs when it has so many starts,
    lcd_period,   \* or after so many runs of solve_node
    CheckPeriod   \* the limits on time and memory are looked at every so many

ASSUME LimitsAssumption == {MinDel, lcd_sz, lcd_period, CheckPeriod} \subseteq Nat \ {0}

VARIABLES
    program,      \* the program of this run
    least,        \* ghost: its least solution, known once nodes are renumbered
    pc,           \* the stage
    nodes,        \* what does not change after clumping: sz, kind, ..., at
    constraints,  \* the constraint list
    g,            \* the constraint graph
    n_node_runs, last_lcd

vars == <<program, least, pc, nodes, constraints, g, n_node_runs, last_lcd>>

----------------------------------------------------------------------------
\* The reference: the least sets closed under the constraints as written.

Closed(p, s) ==
    LET C == ToSet(p.cons)
        is(t) == {c \in C : c.type = t}
        calls(c) == {q[2] : q \in {r \in p.icall : r[1] = c}}
        fun(n) == p.kind[n] = "fun" /\ p.sz[n] > 1
        ext(n) == p.kind[n] \in ExtKinds
        \* the members a load or store reaches through s[ref] with offset c.off
        reach(c, ref) ==
          IF c.off = 0 THEN s[ref] \ {i2p}
          ELSE {m + c.off : m \in {x \in s[ref] :
                  p.sz[x] > c.off /\ (fun(x) = (calls(c) # {})) /\ ~ext(x)}}
        extCalls(c, ref) == {f \in s[ref] : ext(f)} \X calls(c)
        effect(f, i) ==
          LET I == p.insn[i]
              t == p.kind[f]
          IN  IF t = "noop" \/ ~I.ptr THEN {}
              ELSE IF t = "alloc" THEN {I.obj}
              ELSE IF I.args = <<>> THEN {}
              ELSE IF I.args[1] = null_arg THEN IF t = "realloc" THEN {I.obj} ELSE {}
              ELSE IF I.args[1] = int_arg THEN {i2p}
              ELSE s[I.args[1]]
        called == (UNION {extCalls(c, c.src) : c \in is("load")})
                    \cup UNION {extCalls(c, c.dest) : c \in is("store")}
        gets(n) ==
          s[n] \cup {c.src : c \in {d \in is("addr_of") : d.dest = n}}
            \cup (UNION {s[c.src] : c \in {d \in is("copy") : d.dest = n}})
            \cup (UNION {{x + c.off : x \in {y \in s[c.src] : p.sz[y] > c.off}} :
                          c \in {d \in is("gep") : d.dest = n}})
            \cup (UNION {UNION {s[m] : m \in reach(c, c.src)} :
                          c \in {d \in is("load") : d.dest = n}})
            \cup (UNION {s[c.src] : c \in {d \in is("store") :
                          n \in reach(d, d.dest) /\
                          ~(calls(d) # {} /\ p.kind[n] = "int")}})
            \cup UNION {effect(q[1], q[2]) : q \in {r \in called :
                          p.insn[r[2]].val = n}}
    IN  [n \in DOMAIN s |-> gets(n)]

RECURSIVE Iterate(_, _)
Iterate(p, s) == LET t == Closed(p, s) IN IF t = s THEN s ELSE Iterate(p, t)
Least(p) == Iterate(p, [n \in DOMAIN p.sz |-> {}])

----------------------------------------------------------------------------
\* clump_addr_taken: the special nodes, then the objects, then the others, each
\* group in the order it had.
MoveTo(p) ==
    LET rest == {n \in DOMAIN p.sz : n >= first_var_node}
        objs == Ascending({n \in rest : p.sz[n] # 0})
        order == objs \o Ascending({n \in rest : p.sz[n] = 0})
    IN  [n \in DOMAIN p.sz |->
           IF n < first_var_node THEN n
           ELSE first_var_node - 1 + CHOOSE i \in DOMAIN order : order[i] = n]

\* The return and argument nodes: those after the first of a function object.
ArgNodes(p) == UNION {n + func_node_off_ret .. n + p.sz[n] - 1 :
                        n \in {m \in DOMAIN p.sz : p.kind[m] = "fun" /\ p.sz[m] > 1}}

Init ==
    /\ program \in Programs
    /\ least = <<>>
    /\ pc = "clump"
    /\ nodes = <<>>
    /\ constraints = program.cons
    /\ g = NewGraph(DOMAIN program.sz)
    /\ n_node_runs = 0 /\ last_lcd = 0

Clump ==
    /\ pc = "clump"
    /\ \E at \in {MoveTo(program)} :
         LET moved(C) == [C EXCEPT !.dest = at[@], !.src = at[@]]
             arg(a) == IF a \in {null_arg, int_arg} THEN a ELSE at[a]
             from(n) == CHOOSE m \in DOMAIN at : at[m] = n
             last == first_var_node - 1 +
                       Cardinality({n \in DOMAIN at : n >= first_var_node
                                                        /\ program.sz[n] # 0})
         IN  /\ constraints' = [i \in DOMAIN constraints |-> moved(constraints[i])]
             /\ g' = [g EXCEPT !.ind = {at[n] : n \in program.ind},
                               !.icall = {<<moved(q[1]), q[2]>> : q \in program.icall},
                               !.bad = IF \A i \in DOMAIN constraints :
                                             constraints[i].type = "addr_of" =>
                                               at[constraints[i].src] <= last
                                         THEN "" ELSE "value node pointed to"]
             /\ nodes' = [at |-> at, last |-> last, valid |-> {},
                          sz |-> [n \in DOMAIN at |-> program.sz[from(n)]],
                          kind |-> [n \in DOMAIN at |-> program.kind[from(n)]],
                          afp |-> {at[n] : n \in ArgNodes(program)},
                          insn |-> [i \in DOMAIN program.insn |->
                            [program.insn[i] EXCEPT !.val = at[@], !.obj = at[@],
                               !.args = [j \in DOMAIN @ |-> arg(@[j])]]]]
    /\ \E s \in {Least(program)} : least' = s
    /\ pc' = "hvn"
    /\ UNCHANGED <<program, n_node_runs, last_lcd>>

\* One stage that rewrites graph and constraints; a failed assertion stops it.
Rewrite(from, to, r) ==
    /\ pc = from
    /\ g' = r.g
    /\ constraints' = r.cons
    /\ pc' = IF r.g.bad = "" THEN to ELSE "aborted"
    /\ UNCHANGED <<program, least, nodes, n_node_runs, last_lcd>>

RunHvn == /\ pc = "hvn"
          /\ \E r \in {Hvn(g, constraints, nodes.afp, nodes.last, FALSE)} :
               Rewrite("hvn", "hr", r)

\* hr(1, MinDel): HU again and again, until a round removes too few.
RunHu ==
    /\ pc = "hr"
    /\ \E r \in {Hvn(g, constraints, nodes.afp, nodes.last, TRUE)} :
         Rewrite("hr", IF Len(constraints) - Len(r.cons) >= MinDel THEN "hr" ELSE "hcd", r)

RunHcd == /\ pc = "hcd"
          /\ \E r \in {Hcd(g, constraints, nodes.afp, nodes.last)} :
               Rewrite("hcd", "factor_ls", r)

RunFactorLs == /\ pc = "factor_ls"
               /\ \E up \in BOOLEAN : \E r \in {FactorLs(g, constraints, up)} :
                    Rewrite("factor_ls", "pts_init", r)

\* An offset beyond the largest object indexes off_nodes out of its range.
PtsInit ==
    /\ pc = "pts_init"
    /\ LET valid == {constraints[i].off : i \in DOMAIN constraints} \ {0}
           max_sz == Max({0} \cup ({nodes.sz[n] : n \in 0..nodes.last} \ {1}))
       IN  /\ nodes' = [nodes EXCEPT !.valid = valid]
           /\ pc' = IF \A k \in valid : k < max_sz THEN "solve_init" ELSE "aborted"
           /\ g' = Check(g, \A k \in valid : k < max_sz, "off_nodes out of range")
    /\ UNCHANGED <<program, least, constraints, n_node_runs, last_lcd>>

SolveBegin ==
    /\ pc = "solve_init"
    /\ g' = SolveInit(g, constraints)
    /\ pc' = IF g'.bad = "" THEN "solve" ELSE "aborted"
    /\ constraints' = <<>>
    /\ UNCHANGED <<program, least, nodes, n_node_runs, last_lcd>>

----------------------------------------------------------------------------
\* The loop of solve()

Solving(w) == pc = "solve" /\ w = SwapIfEmpty(g.wl) /\ ~WLEmpty(w)

\* Nothing is queued for the next pass.
Converge ==
    /\ pc = "solve"
    /\ WLEmpty(SwapIfEmpty(g.wl))
    /\ pc' = "solved"
    /\ UNCHANGED <<program, least, nodes, constraints, g, n_node_runs, last_lcd>>

\* An entry of a node that was merged, or that was run since it was pushed.
Stale(w) == \/ ~IsRep(g, WLTop(w))
            \/ WLTopKey(w) < g.vtime[WLTop(w)]

\* Mutant: an entry to be skipped is queued again.
SkipStale_Requeued ==
    /\ \E w \in {SwapIfEmpty(g.wl)} :
         Solving(w) /\ Stale(w) /\ g' = [g EXCEPT !.wl = WLPush(WLPop(w), WLTop(w), WLTopKey(w))]
    /\ UNCHANGED <<program, least, pc, nodes, constraints, n_node_runs, last_lcd>>

SkipStale ==
    /\ \E w \in {SwapIfEmpty(g.wl)} :
         Solving(w) /\ Stale(w) /\ g' = [g EXCEPT !.wl = WLPop(w)]
    /\ UNCHANGED <<program, least, pc, nodes, constraints, n_node_runs, last_lcd>>

RunNode ==
    /\ \E w \in {SwapIfEmpty(g.wl)} :
         /\ Solving(w) /\ ~Stale(w)
         /\ g' = SolveNode([g EXCEPT !.wl = WLPop(w)], nodes, WLTop(w), n_node_runs + 1)
    /\ n_node_runs' = n_node_runs + 1
    /\ pc' = IF g'.bad = "" THEN "limits" ELSE "aborted"
    /\ UNCHANGED <<program, least, nodes, constraints, last_lcd>>

\* Over the time or the memory limit: the result stays partial.
GiveUp ==
    /\ pc = "limits"
    /\ n_node_runs % CheckPeriod = 0
    /\ pc' = "given_up"
    /\ UNCHANGED <<program, least, nodes, constraints, g, n_node_runs, last_lcd>>

GoOn ==
    /\ pc = "limits"
    /\ IF Cardinality(g.lcdS) >= lcd_sz \/ n_node_runs - last_lcd >= lcd_period
         THEN /\ g' = RunLcd(g)
              /\ last_lcd' = n_node_runs
              /\ pc' = IF g'.bad = "" THEN "solve" ELSE "aborted"
         ELSE pc' = "solve" /\ UNCHANGED <<g, last_lcd>>
    /\ UNCHANGED <<program, least, nodes, constraints, n_node_runs>>

\* The assertions at the end of solve(), then the two cleanups.
Finish ==
    /\ pc \in {"solved", "given_up"}
    /\ \E ok \in {\A n \in DOMAIN g.pts :
                    g.pts[n] # {} => IsRep(g, n) /\ n \notin g.nonptr} :
         g' = IF ok THEN Cleanup(g, nodes) ELSE Fail(g, "points_to of a dead node")
    /\ pc' = IF g'.bad # "" THEN "aborted"
             ELSE IF pc = "solved" THEN "results" ELSE "partial_results"
    /\ UNCHANGED <<program, least, nodes, constraints, n_node_runs, last_lcd>>

Next == \/ Clump \/ RunHvn \/ RunHu \/ RunHcd \/ RunFactorLs \/ PtsInit \/ SolveBegin
        \/ Converge \/ SkipStale \/ RunNode \/ GiveUp \/ GoOn \/ Finish

Spec == Init /\ [][Next]_vars

\* One thread runs until the results are there: weak fairness of Next, which is
\* enabled until then and whose every step changes vars (written out: TLC takes
\* too long to evaluate ENABLED Next).
Running == []<>(pc \in {"results", "partial_results", "aborted"}) \/ []<><<Next>>_vars
FairSpec == Spec /\ Running

----------------------------------------------------------------------------
\* What node n of the program (in its first numbering) points to now, and what
\* it should.
PointsTo(n) == g.pts[g.rep[nodes.at[n]]]
Wanted(n) == {nodes.at[x] : x \in least[n]}

Solver == {"solve", "limits", "solved", "given_up"}

\* No assertion of merge_nodes, the offline passes or the solver fails, and of LCD only two
\* (solve.cpp:919 and :923): when it merges two nodes that are each the pointer of an offline
\* cycle, merge_nodes merges the variables of the cycles too, and one of them may be a node
\* that the search is still at: it is no representative any more, or is its own successor.
LcdPathMerged == {"merged while on the DFS path", "successor merged with the node"}
AbortsOnlyInLcd == pc = "aborted" => g.bad \in LcdPathMerged

\* Converged: whatever was merged, skipped, deleted as redundant or handled by
\* an edge of another node, the solver stops with a solution of the constraints.
Converged == pc = "solved" => \A n \in DOMAIN least : Wanted(n) \subseteq PointsTo(n)

\* Every pointer that is dereferenced points to something other than i2p.
NoNullDereference ==
    \A i \in DOMAIN program.cons :
      LET C == program.cons[i]
      IN  /\ C.type = "load" => least[C.src] \ {i2p} # {}
          /\ C.type = "store" => least[C.dest] \ {i2p} # {}

\* At no point, and so in no partial result, does a node point to something the
\* constraints do not say.
NothingSpurious ==
    pc \in Solver /\ NoNullDereference =>
      \A n \in DOMAIN least : PointsTo(n) \subseteq Wanted(n)

\* Nodes are merged only if they have the same points-to set in the end.
MergedAreEquivalent ==
    pc \notin {"clump", "results", "partial_results"} /\ NoNullDereference =>
      \A m, n \in DOMAIN least :
        g.rep[nodes.at[m]] = g.rep[nodes.at[n]] => least[m] = least[n]

\* A node whose points-to set has not reached the ends of its copy edges, or
\* whose complex constraints have not seen all of it, is on one of the two
\* worklists with a key that will not be skipped, or is the variable of an offline
\* cycle whose pointer is: merge_nodes merges two such variables without queuing
\* the result, which the run of the pointer does (solve.cpp, HCD).
Queued(n) ==
    \E h \in {g.wl.curr, g.wl.next} : h.idx[n] # 0 /\ h.k[h.idx[n]] >= g.vtime[n]
Awaited(n) ==
    \E p \in DOMAIN g.rep :
      IsRep(g, p) /\ Queued(p) /\ g.hcd[p] # 0 /\ g.rep[g.hcd[p]] = n /\ g.pts[p] # g.prev[p]
NothingForgotten ==
    pc \in {"solve", "limits", "solved"} =>
      /\ WorklistOK(g.wl)
      /\ \A n \in DOMAIN g.rep :
           IsRep(g, n) /\ ~Queued(n) /\ ~Awaited(n) =>
             /\ \A d \in g.copy[n] : g.pts[n] \subseteq g.pts[g.rep[d]]
             /\ g.load[n] \cup g.store[n] \cup g.gep[n] # {} => g.pts[n] = g.prev[n]

\* Every run ends.
Terminates == <>(pc \in {"results", "partial_results", "aborted"})
=============================================================================
