-------------------------- MODULE MCConstraintCollect --------------------------
(* Small modules for ConstraintCollect: main, a function f, a variadic function v,  *)
(* a library function lib, a global g with an initializer and a global h.           *)
EXTENDS ConstraintCollect

V(x) == <<"value", x>>
Null == <<"null", "">>
Number == <<"int", "n">>

I(op, name, ptr, args) ==
    [op |-> op, name |-> name, ptr |-> ptr, args |-> args, callee |-> <<"none", "">>]
Call(name, ptr, callee, args) ==
    [op |-> "call", name |-> name, ptr |-> ptr, args |-> args, callee |-> callee]

Leaves(s) == [shape |-> "leaves", leaves |-> s]
Inits == {
    [shape |-> "none", leaves |-> << >>], [shape |-> "zero", leaves |-> << >>],
    Leaves(<<V("f")>>), Leaves(<<V("lib")>>), Leaves(<<V("v"), Number, <<"bitcast", "h">>>>),
    Leaves(<<<<"gep", "h">>, <<"inttoptr", "">>>>), Leaves(<<Null>>), Leaves(<<<<"undef", "">>>>) }

\* How main gets the pointer m, which it then stores in a.
Middles == {
    <<I("phi", "m", TRUE, <<V("l"), V("b")>>)>>,
    <<I("select", "m", TRUE, <<V("a"), Null>>)>>,
    <<I("getelementptr", "m", TRUE, <<V("c")>>)>>,
    <<I("bitcast", "m", TRUE, <<<<"gep", "h">>>>)>>,
    <<I("inttoptr", "m", TRUE, <<<<"ptrtoint+", "b">>>>)>>,
    <<I("inttoptr", "m", TRUE, <<Number>>)>>,
    <<I("va_arg", "m", TRUE, <<V("b")>>)>>,
    <<I("other", "m", TRUE, <<V("b")>>)>> }

Kinds == {"noop", "malloc", "realloc", "posix_memalign", "retArg0", "retArg1", "retArg2",
          "memcpy", "convert", "unknown"}

Lib(kind) == [name |-> "lib", kind |-> kind, vararg |-> FALSE, ptr |-> TRUE, body |-> << >>,
              formals |-> <<<<"d", TRUE>>, <<"s", TRUE>>>>]

LibraryCalls(kind) ==
    CASE kind = "posix_memalign" -> {Call("r", FALSE, V("lib"), <<V("a"), Number>>)}
      [] kind = "noop"    -> {Call("r", FALSE, V("lib"), <<V("a"), V("b")>>)}
      [] kind = "convert" -> {Call("r", FALSE, V("lib"), <<V("b"), x>>) : x \in {V("a"), Null}}
      [] kind = "realloc" -> {Call("r", TRUE, V("lib"), <<x, Number>>) : x \in {V("a"), Null}}
      [] kind = "retArg2" -> {Call("r", TRUE, V("lib"), <<V("a"), V("b"), V("m")>>)}
      [] kind = "memcpy"  -> {Call("r", ptr, V("lib"), <<V("b"), V("a")>>) : ptr \in BOOLEAN}
      [] OTHER            -> {Call("r", TRUE, V("lib"), <<V("a"), V("b")>>)}

Calls == {
    Call("r", TRUE, V("f"), <<V("m"), V("a")>>),
    Call("r", TRUE, V("f"), <<Number, V("a")>>),
    Call("r", TRUE, V("v"), <<V("a"), V("b"), Number, V("m")>>),
    Call("r", TRUE, V("c"), <<V("b"), V("a")>>),
    Call("r", FALSE, V("c"), <<V("a"), Number>>),
    Call("r", TRUE, <<"bitcast", "f">>, <<V("b"), V("a")>>) }

Bodies == {
    <<I("ret", "", FALSE, <<V("p")>>)>>,
    <<I("load", "x", TRUE, <<V("q")>>), I("ret", "", FALSE, <<V("x")>>)>>,
    <<I("store", "", FALSE, <<V("p"), V("q")>>), I("ret", "", FALSE, <<Null>>)>>,
    <<Call("y", TRUE, V("f"), <<V("q"), V("p")>>), I("ret", "", FALSE, <<V("y")>>)>> }

Returns == <<I("ret", "", FALSE, <<V("p")>>)>>
FromGlobal == <<I("bitcast", "m", TRUE, <<<<"gep", "h">>>>)>>
Cyclic == <<I("phi", "m", TRUE, <<V("l"), V("b")>>)>>

Module(init, middle, call, body, kind) ==
    [globals |-> <<[name |-> "g", init |-> init],
                   [name |-> "h", init |-> [shape |-> "zero", leaves |-> << >>]]>>,
     functions |-> <<
        [name |-> "main", kind |-> "", vararg |-> FALSE, ptr |-> FALSE, formals |-> << >>,
         body |-> <<I("alloca", "a", TRUE, << >>), I("alloca", "b", TRUE, << >>),
                    I("load", "c", TRUE, <<V("g")>>)>>
                  \o middle \o <<I("store", "", FALSE, <<V("m"), V("a")>>), call,
                    I("load", "l", TRUE, <<V("a")>>)>>
                  \o (IF middle = Cyclic THEN <<I("br", "", FALSE, << >>)>> ELSE << >>)
                  \o <<I("ret", "", FALSE, << >>)>>],
        [name |-> "f", kind |-> "", vararg |-> FALSE, ptr |-> TRUE,
         formals |-> <<<<"p", TRUE>>, <<"q", TRUE>>>>, body |-> body],
        [name |-> "v", kind |-> "", vararg |-> TRUE, ptr |-> TRUE, formals |-> <<<<"w", TRUE>>>>,
         body |-> <<I("alloca", "ap", TRUE, << >>), Call("", FALSE, V("start"), <<V("ap")>>),
                    I("va_arg", "z", TRUE, <<V("ap")>>),
                    I("store", "", FALSE, <<V("z"), V("w")>>), I("ret", "", FALSE, <<V("z")>>)>>],
        Lib(kind),
        [name |-> "start", kind |-> "va_start", vararg |-> FALSE, ptr |-> FALSE, body |-> << >>,
         formals |-> <<<<"list", TRUE>>>>]>>]

AllPrograms ==
    {Module(init, middle, call, Returns, "malloc") :
        init \in Inits, middle \in Middles, call \in Calls}
    \cup {Module(Leaves(<<V("f")>>), middle, call, body, "noop") :
        middle \in Middles, call \in Calls, body \in Bodies}
    \cup {Module(Leaves(<<V("lib")>>), middle, call, Returns, kind) :
        middle \in {FromGlobal, Cyclic}, call \in {c \in Calls : c.callee = V("c")}, kind \in Kinds}
    \cup UNION {{Module(Leaves(<<<<"gep", "h">>>>), middle, call, Returns, kind) :
        middle \in Middles, call \in LibraryCalls(kind)} : kind \in Kinds}

IndirectPrograms ==
    {Module(Leaves(<<V("f")>>), <<I("bitcast", "m", TRUE, <<<<"gep", "h">>>>)>>,
            Call("r", TRUE, V("c"), <<V("b"), V("a")>>), body, "noop") : body \in Bodies}
================================================================================
