------------------------------ MODULE MCAnders ------------------------------
(****************************************************************************)
(* Programs for Anders: a function F(arg) and an external function E whose  *)
(* addresses are taken, a struct X of two fields, a variable Y, the         *)
(* pointers a, b, c, d, e, of which the last two may be calls.              *)
(****************************************************************************)
EXTENDS Anders

F == 3  oF == 4  retF == 5  argF == 6
E == 7  oE == 8
X == 9  oX == 10
Y == 12  oY == 13
a == 14  b == 15  c == 16
d == 17  oD == 18
e == 19  oE2 == 20
N == 0..20

size == [n \in N |-> CASE n = oF -> 3
                       [] n = oX -> 2
                       [] n \in {i2p, retF, argF, oE, oX + 1, oY, oD, oE2} -> 1
                       [] OTHER -> 0]
kinds(ext, arg) == [n \in N |-> CASE n \in {oF, retF} -> "fun"
                                  [] n = argF -> arg
                                  [] n = oE -> ext
                                  [] OTHER -> "var"]

addr(to, from) == Constraint("addr_of", to, from, 0)
copy(to, from) == Constraint("copy", to, from, 0)
load(to, from) == Constraint("load", to, from, 0)
store(to, from) == Constraint("store", to, from, 0)
gep(to, from) == Constraint("gep", to, from, 1)

base == <<addr(p_i2p, i2p), addr(F, oF), addr(E, oE), addr(X, oX), addr(Y, oY)>>

\* Call i: its value is fp(arg), and args are the arguments an external
\* function sees.
Call(i, fp, arg, args) ==
    [cons |-> <<Constraint("load", <<d, e>>[i], fp, 1), Constraint("store", fp, arg, 2)>>,
     fp |-> fp, insn |-> [ptr |-> TRUE, val |-> <<d, e>>[i], obj |-> <<oD, oE2>>[i],
                          args |-> args]]

Program(cs, calls, ks) ==
    [sz |-> size, kind |-> ks, ind |-> {calls[i].fp : i \in DOMAIN calls},
     cons |-> base \o cs \o FlattenSeq([i \in DOMAIN calls |-> calls[i].cons]),
     icall |-> UNION {{<<C, i>> : C \in ToSet(calls[i].cons)} : i \in DOMAIN calls},
     insn |-> [i \in DOMAIN calls |-> calls[i].insn]]

\* Cycles through memory: the pointer a is loaded and stored, and cycles with
\* b, c, the argument, and what X and Y hold.
Cyclic ==
    {Program(<<load(c, a), store(a, s)>> \o da \o db \o st, <<>>, kinds("noop", "arg")) :
        s \in {c, argF, b},
        da \in {<<copy(a, X), copy(a, Y)>>, <<copy(a, X), copy(a, b)>>,
                <<load(a, b)>>, <<copy(a, b), copy(a, c)>>},
        db \in {<<copy(b, X)>>, <<load(b, X)>>, <<load(b, a)>>,
                <<copy(b, c), copy(b, Y)>>, <<copy(b, X), copy(b, Y), copy(d, X), copy(d, Y)>>},
        st \in {<<>>, <<store(b, X)>>, <<store(X, X), store(X, Y)>>,
                <<copy(argF, X), copy(argF, b)>>}}

\* Indirect calls of F and of the allocator E.
Calls ==
    {Program(body \o da \o db \o st, <<Call(1, a, b, <<b>>)>>, kinds("alloc", "arg")) :
        body \in {<<>>, <<copy(retF, argF)>>, <<load(retF, argF)>>},
        da \in {<<copy(a, F), copy(a, E)>>, <<load(a, X)>>, <<copy(a, F), copy(a, d)>>},
        db \in {<<copy(b, X)>>, <<load(b, X)>>, <<copy(b, d), copy(b, Y)>>},
        st \in {<<store(X, F)>>, <<store(X, E), store(X, F), gep(c, b), load(c, b)>>,
                <<gep(c, X), store(c, b)>>, <<copy(c, retF), store(d, X)>>}}

\* The external functions of every kind, called directly or not, and an F whose
\* argument is no pointer.
Externals ==
    {Program(<<copy(a, E)>> \o db, <<Call(1, a, b, args)>>, kinds(k, arg)) :
        k \in ExtKinds, arg \in {"arg", "int"},
        args \in {<<>>, <<null_arg>>, <<int_arg>>, <<b>>},
        db \in {<<copy(a, F), copy(b, X), copy(b, Y)>>, <<load(b, X), store(X, d)>>}}

\* b and c are merged only while solving, by which time both have offline cycles,
\* the same store, members to load, or calls (of F and of the allocator E).
Use(n, v, u) ==
    CASE u = "cycle" -> <<load(v, n), store(n, v)>>
      [] u = "store" -> <<store(n, X)>>
      [] u = "member" -> <<gep(v, n)>>
      [] u = "none" -> <<>>

Merging ==
    {Program(<<copy(a, X), copy(a, E), load(b, X), copy(b, Y), copy(c, b), load(c, E),
               store(a, c)>> \o Use(b, d, u) \o Use(c, e, v), <<>>, kinds("noop", "arg")) :
        u, v \in {"cycle", "store", "member", "none"}}
    \cup
    {Program(<<copy(a, X), copy(a, E), load(b, X), copy(b, fp), copy(c, b), load(c, E),
               store(a, c)>> \o f,
             <<Call(1, b, x, <<x>>), Call(2, y, x, <<x>>)>>, kinds("realloc", "arg")) :
        fp \in {E, F}, x \in {X, a}, y \in {b, c}, f \in {<<>>, <<copy(retF, argF)>>}}

\* b and c are merged by HU, which closes a cycle for HCD to find: through *b, a
\* and the argument or d.
Late ==
    {Program(<<copy(b, X), copy(b, Y), copy(c, b), copy(c, X), load(a, b), store(c, v),
               copy(v, a)>> \o f, <<>>, kinds("noop", "arg")) :
        v \in {argF, d},
        f \in {<<>>, <<store(X, Y)>>, <<load(e, c)>>, <<copy(argF, E), copy(d, b)>>,
              <<copy(e, b), copy(e, X)>>}}

\* As in Merging, and LCD reaches b and c through d, e or the argument: when it merges b
\* and c it merges d and e too, while the search is still at one of them.
OnThePath ==
    {Program(<<copy(a, X), copy(a, E), load(b, X), copy(b, Y), copy(c, b), load(c, E),
               store(a, c), store(Y, Y)>> \o Use(b, d, "cycle") \o Use(c, e, "cycle") \o s \o f,
             <<>>, kinds("noop", "arg")) :
        s \in {<<copy(b, d)>>, <<copy(c, e)>>, <<copy(b, e)>>, <<copy(b, d), copy(c, e)>>},
        f \in {<<>>, <<copy(d, X)>>, <<copy(argF, e)>>, <<copy(e, argF), load(argF, d)>>,
              <<copy(e, argF), load(argF, d), copy(d, X)>>}}

Explore == UNION {Cyclic, Calls, Externals, Merging, Late, OnThePath}
=============================================================================
