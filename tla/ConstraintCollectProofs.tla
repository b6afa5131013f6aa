------------------------ MODULE ConstraintCollectProofs ------------------------
(* What ConstraintCollect says of every module that LLVM's verifier lets through.   *)
EXTENDS ConstraintCollect, SharedProofs

-----------------------------------------------------------------------------
(* The nodes that a module may need: a finite set.                             *)

Locals(f) == {a[1] : a \in ToSet(f.formals)} \cup {i.name : i \in ToSet(f.body)}
Names == {"universal", "null"} \cup Globals \cup FunctionNames \cup UNION {Locals(f) : f \in Functions}

Places ==
    {Val(x) : x \in Names} \cup {Obj(x) : x \in Names} \cup {Ret(x) : x \in Names}
    \cup {Vararg(x) : x \in Names} \cup {Temp(q[1], q[2]) : q \in Names \X Names}

\* What a node is named for is in its name.
LEMMA NodesDiffer ==
    /\ \A x, y : Val(x) = Val(y) <=> x = y
    /\ \A x, y : Obj(x) = Obj(y) <=> x = y
    /\ \A x, y : /\ Val(x) # Obj(y) /\ Val(x) # Ret(y) /\ Val(x) # Vararg(y)
                 /\ Obj(x) # Ret(y) /\ Obj(x) # Vararg(y) /\ Ret(x) # Vararg(y)
                 /\ NoNode \notin {Val(x), Obj(x), Ret(x), Vararg(x)}
    /\ \A x, y, z : Temp(x, y) \notin {Val(z), Obj(z), Ret(z), Vararg(z), NoNode}
BY DEF Val, Obj, Ret, Vararg, Temp, NoNode

\* What a function makes of a finite set is finite, and so is a sequence.
LEMMA FiniteImage ==
    ASSUME NEW S, IsFiniteSet(S), NEW f, DOMAIN f = S
    PROVE  IsFiniteSet({f[x] : x \in S})
<1> DEFINE T == {f[x] : x \in S}
           g == [x \in S |-> f[x]]
<1>1. g \in Surjection(S, T)
  BY DEF Surjection
<1> QED
  BY <1>1, FS_Surjection

LEMMA FiniteRange ==
    ASSUME NEW X, NEW s \in Seq(X)
    PROVE  IsFiniteSet(ToSet(s)) /\ ToSet(s) = {s[k] : k \in DOMAIN s} /\ ToSet(s) \subseteq X
<1>1. DOMAIN s = 1 .. Len(s) /\ Len(s) \in Nat
  OBVIOUS
<1>2. IsFiniteSet(DOMAIN s)
  BY <1>1, FS_Interval
<1>3. ToSet(s) = {s[k] : k \in DOMAIN s}
  BY DEF ToSet
<1> QED
  BY <1>1, <1>2, <1>3, FiniteImage

LEMMA FiniteModule ==
    ASSUME program \in Modules
    PROVE  IsFiniteSet(Functions) /\ IsFiniteSet(Names)
<1>1. program.functions \in Seq(FunctionRecords) /\ program.globals \in Seq(GlobalRecords)
  BY DEF Modules
<1>2. IsFiniteSet(Functions) /\ Functions \subseteq FunctionRecords
  BY <1>1, FiniteRange DEF Functions, FunctionsOf
<1>3. IsFiniteSet(Globals)
  <2> DEFINE S == ToSet(program.globals)
             f == [g \in S |-> g.name]
  <2>1. IsFiniteSet(S)
    BY <1>1, FiniteRange
  <2>2. IsFiniteSet({f[g] : g \in S})
    <3> HIDE DEF S
    <3> QED
      BY <2>1, FiniteImage
  <2> QED
    BY <2>2 DEF Globals, GlobalsOf
<1>4. IsFiniteSet(FunctionNames)
  <2> DEFINE f == [g \in Functions |-> g.name]
  <2>1. IsFiniteSet({f[g] : g \in Functions})
    BY <1>2, FiniteImage
  <2> QED
    BY <2>1 DEF FunctionNames, NamesOf, Functions
<1>5. \A f \in Functions : IsFiniteSet(Locals(f))
  <2> SUFFICES ASSUME NEW f \in Functions
               PROVE  IsFiniteSet(Locals(f))
    OBVIOUS
  <2> DEFINE A == ToSet(f.formals)
             B == ToSet(f.body)
             u == [a \in A |-> a[1]]
             v == [i \in B |-> i.name]
  <2>1. f.formals \in Seq(STRING \X BOOLEAN) /\ f.body \in Seq(InstructionRecords)
    BY <1>2 DEF FunctionRecords
  <2>2. IsFiniteSet(A) /\ IsFiniteSet(B)
    BY <2>1, FiniteRange
  <2>3. IsFiniteSet({u[a] : a \in A}) /\ IsFiniteSet({v[i] : i \in B})
    <3> HIDE DEF A, B
    <3> QED
      BY <2>2, FiniteImage
  <2> QED
    BY <2>3, FS_Union DEF Locals
<1>6. IsFiniteSet(UNION {Locals(f) : f \in Functions})
  <2> DEFINE h == [f \in Functions |-> Locals(f)]
  <2>1. IsFiniteSet({h[f] : f \in Functions})
    BY <1>2, FiniteImage
  <2>2. {h[f] : f \in Functions} = {Locals(f) : f \in Functions}
    OBVIOUS
  <2> HIDE DEF h
  <2>3. \A L \in {Locals(f) : f \in Functions} : IsFiniteSet(L)
    BY <1>5
  <2> QED
    BY <2>1, <2>2, <2>3, FS_UNION
<1>7. IsFiniteSet({"universal", "null"})
  <2>1. {"universal", "null"} = {"universal"} \cup {"null"}
    OBVIOUS
  <2>2. IsFiniteSet({"universal"}) /\ IsFiniteSet({"null"})
    BY FS_Singleton
  <2> QED
    BY <2>1, <2>2, FS_Union
<1> QED
  BY <1>2, <1>3, <1>4, <1>6, <1>7, FS_Union DEF Names

LEMMA FinitePlaces ==
    ASSUME program \in Modules
    PROVE  IsFiniteSet(Places)
<1> DEFINE a == [x \in Names |-> Val(x)]
           b == [x \in Names |-> Obj(x)]
           c == [x \in Names |-> Ret(x)]
           d == [x \in Names |-> Vararg(x)]
           P == Names \X Names
           e == [q \in P |-> Temp(q[1], q[2])]
<1>1. IsFiniteSet(Names) /\ IsFiniteSet(P)
  BY FiniteModule, FS_Product
<1>2. /\ IsFiniteSet({a[x] : x \in Names}) /\ IsFiniteSet({b[x] : x \in Names})
      /\ IsFiniteSet({c[x] : x \in Names}) /\ IsFiniteSet({d[x] : x \in Names})
  BY ZenonT(30), <1>1, FiniteImage
<1>3. IsFiniteSet({e[q] : q \in P})
  <2> HIDE DEF P
  <2>1. IsFiniteSet(P)
    BY <1>1
  <2> QED
    BY <2>1, FiniteImage
<1>4. Places = {a[x] : x \in Names} \cup {b[x] : x \in Names} \cup {c[x] : x \in Names}
               \cup {d[x] : x \in Names} \cup {e[q] : q \in P}
  BY DEF Places
<1> QED
  BY <1>2, <1>3, <1>4, FS_Union

-----------------------------------------------------------------------------
(* What has been collected of the program so far.                              *)

Body(k) == program.functions[k].body

\* The globals, and the functions whose address is taken.
Known == Globals \cup {x \in FunctionNames : HasAddressTaken(x)}

\* The nodes there are before the code is read.
Special == {UniversalPtr, UniversalObj, NullPtr, NullObject}
Addresses == {Val(x) : x \in Known} \cup {Obj(x) : x \in Known}
Signatures == UNION {SignatureOf(f) : f \in {f \in Functions : IsDefined(f)}}

\* What the analysis of a function f called by i adds: its formals hold the arguments.
ArgumentsMet(C, i, f) ==
    /\ \A k \in DOMAIN f.formals \cap DOMAIN i.args :
        f.formals[k][2] =>
            Constraint("COPY", Val(f.formals[k][1]),
                       IF IsPointer(i.args[k]) THEN ValueNodeFor(i.args[k]) ELSE UniversalPtr) \in C
    /\ f.vararg => \A k \in DOMAIN i.args \ DOMAIN f.formals :
        IsPointer(i.args[k]) => Constraint("COPY", Vararg(f.name), ValueNodeFor(i.args[k])) \in C

\* ... and of a library function f.
LibraryMet(C, i, f) ==
    LET Moved(k) == k \in DOMAIN i.args /\ Constraint("COPY", Val(i.name), ValueNodeFor(i.args[k])) \in C
    IN  /\ f.kind = "malloc" => Constraint("ADDR_OF", Val(i.name), Obj(i.name)) \in C
        /\ f.kind = "retArg0" => Moved(1)
        /\ f.kind = "retArg1" => Moved(2)
        /\ f.kind = "retArg2" => Moved(3)
        /\ f.kind = "memcpy" =>
            /\ {1, 2} \subseteq DOMAIN i.args
            /\ Constraint("LOAD", Temp(i.name, f.name), ValueNodeFor(i.args[2])) \in C
            /\ Constraint("STORE", ValueNodeFor(i.args[1]), Temp(i.name, f.name)) \in C
            /\ i.ptr => Moved(1)

CallMet(C, i, f) ==
    IF IsDefined(f)
    THEN /\ ArgumentsMet(C, i, f)
         /\ IsDirect(i) /\ i.ptr => Constraint("COPY", Val(i.name), Ret(f.name)) \in C
    ELSE /\ LibraryMet(C, i, f)
         /\ f.kind = "unknown" /\ i.ptr => Constraint("COPY", Val(i.name), UniversalPtr) \in C

\* The functions that a call i may reach.
Reached(i) ==
    IF IsDirect(i) THEN {Named(i.callee[2])}
    ELSE {f \in Functions : HasAddressTaken(f.name) /\ (f.vararg \/ Len(f.formals) = Len(i.args))}

\* C has what the instruction i of the function f asks for.
Met(C, f, i) ==
    LET Copied(n) == Constraint("COPY", Val(i.name), n) \in C
    IN  /\ i.op = "alloca" => Constraint("ADDR_OF", Val(i.name), Obj(i.name)) \in C
        /\ i.op = "ret" /\ i.args # << >> /\ IsPointer(i.args[1]) =>
            Constraint("COPY", Ret(f.name), ValueNodeFor(i.args[1])) \in C
        /\ i.op = "load" /\ i.ptr => Constraint("LOAD", Val(i.name), ValueNodeFor(i.args[1])) \in C
        /\ i.op = "store" /\ IsPointer(i.args[1]) =>
            Constraint("STORE", ValueNodeFor(i.args[2]), ValueNodeFor(i.args[1])) \in C
        /\ i.op \in {"getelementptr", "phi", "bitcast", "select"} /\ i.ptr =>
            \A a \in ToSet(i.args) : Copied(ValueNodeFor(a))
        /\ i.op = "inttoptr" => Copied(IF i.args[1][1] = "int" THEN UniversalPtr ELSE Val(i.args[1][2]))
        /\ i.op = "va_arg" /\ i.ptr => Copied(Vararg(f.name))
        /\ i.op = "call" =>
            /\ \A g \in Reached(i) : CallMet(C, i, g)
            /\ i.ptr /\ ~IsDirect(i) => Copied(UniversalPtr)

\* What the globals and functions ask for.
AddressesMet(C) ==
    /\ Constraint("ADDR_OF", UniversalPtr, UniversalObj) \in C
    /\ \A x \in Known : Constraint("ADDR_OF", Val(x), Obj(x)) \in C
    /\ \A g \in ToSet(program.globals) : InitializerOf(g) \subseteq C

Behind(k, j) ==
    \/ pc = "running"
    \/ pc \in {"values", "instructions"} /\ k < fn
    \/ pc = "instructions" /\ k = fn /\ j < pos

TypeInv ==
    /\ program \in Programs
    /\ pc \in {"globals", "values", "instructions", "running", "aborted"}
    /\ pc # "aborted" => nodes \subseteq Places /\ constraints \subseteq ConstraintsOver(nodes)

\* The function and the instruction whose turn it is; the pointers of the function have a node.
TurnInv ==
    /\ pc \in {"values", "instructions"} =>
        fn \in DOMAIN program.functions /\ IsDefined(program.functions[fn])
    /\ pc = "instructions" =>
        /\ pos \in DOMAIN Body(fn)
        /\ \A i \in ToSet(Body(fn)) : i.ptr => Val(i.name) \in nodes

CollectInv ==
    /\ TypeInv
    /\ TurnInv
    /\ pc = "globals" => nodes = Special /\ constraints = {}
    /\ pc \notin {"globals", "aborted"} =>
        /\ AddressesMet(constraints)
        /\ Special \cup Addresses \cup Signatures \subseteq nodes
        /\ \A x \in FunctionNames : Obj(x) \in nodes => HasAddressTaken(x)
    /\ \A k \in DOMAIN program.functions : \A j \in DOMAIN Body(k) :
        Behind(k, j) => Met(constraints, program.functions[k], Body(k)[j])

\* Every pair of H is in T, or T has lost track of its place.
Follows(T, N, H) ==
    \A h \in H : /\ h = <<h[1], h[2]>> /\ h[2] \in N
                 /\ <<h[1], h[2]>> \in T \/ <<h[1], UniversalObj>> \in T

\* Each frame is at an instruction, and all but the last at the call of the next one.
StackInv ==
    LET At_(m) == Body(stack[m][1])[stack[m][2]]
    IN  /\ stack \in Seq(Nat \X Nat)
        /\ \A m \in DOMAIN stack :
            stack[m][1] \in DOMAIN program.functions /\ stack[m][2] \in DOMAIN Body(stack[m][1])
        /\ \A m \in DOMAIN stack :
            m # Len(stack) =>
                /\ At_(m).op = "call"
                /\ IsDirect(At_(m)) => Named(At_(m).callee[2]) = program.functions[stack[m + 1][1]]

RunInv ==
    pc = "running" =>
        /\ sol \in SUBSET (nodes \X nodes) /\ Solves(nodes, constraints, sol)
        /\ Follows(sol, nodes, holds)
        /\ StackInv

\* Nothing is claimed of a run that has strayed.
Inv == CollectInv /\ (~strayed => RunInv)

-----------------------------------------------------------------------------
(* The steps of collecting.                                                    *)

Types == {"ADDR_OF", "COPY", "LOAD", "STORE"}
Ends == Places \cup {NoNode}
States == [nodes : SUBSET Places, constraints : SUBSET ConstraintsOver(Ends), ok : BOOLEAN]

\* Until an assertion has failed, both nodes of every constraint were found.
Tidy == {st \in States : st.ok => st.constraints \subseteq ConstraintsOver(st.nodes)}

\* Nothing is taken back.
Grows(s, t) ==
    /\ s \in Tidy /\ t \in Tidy
    /\ s.nodes \subseteq t.nodes /\ s.constraints \subseteq t.constraints
    /\ t.ok => s.ok

LEMMA ConstraintIs ==
    /\ \A X, type, d, s : Constraint(type, d, s) \in ConstraintsOver(X) <=> type \in Types /\ d \in X /\ s \in X
    /\ \A type, d, s : LET c == Constraint(type, d, s)
                       IN  c.type = type /\ c.dest = d /\ c.src = s
BY DEF Constraint, ConstraintsOver, Types

LEMMA GrowsOn ==
    ASSUME NEW s, NEW t, NEW u, Grows(s, t), Grows(t, u)
    PROVE  Grows(s, u)
BY DEF Grows

LEMMA AddAllIs ==
    ASSUME NEW st \in Tidy, NEW C \in SUBSET ConstraintsOver(Ends)
    PROVE  LET t == AddAll(st, C)
           IN  /\ Grows(st, t)
               /\ t.nodes = st.nodes
               /\ t.constraints = st.constraints \cup C
               /\ t.ok <=> st.ok /\ C \subseteq ConstraintsOver(st.nodes)
<1> DEFINE t == AddAll(st, C)
           found == st.ok /\ \A c \in C : {c.dest, c.src} \subseteq st.nodes
<1>1. st \in States
  BY DEF Tidy
<1>2. found \in BOOLEAN
  BY <1>1 DEF States
<1>3. t = [nodes |-> st.nodes, constraints |-> st.constraints \cup C, ok |-> found]
  <2> HIDE DEF found
  <2>1. t = [st EXCEPT !.constraints = @ \cup C, !.ok = found]
    BY DEF AddAll, found
  <2> HIDE DEF t
  <2> QED
    BY <1>1, <2>1 DEF States
<1>4. found <=> st.ok /\ C \subseteq ConstraintsOver(st.nodes)
  BY DEF ConstraintsOver
<1> HIDE DEF found, t
<1>5. t \in States
  BY <1>1, <1>2, <1>3 DEF States
<1>6. t.ok = found /\ t.nodes = st.nodes /\ t.constraints = st.constraints \cup C
  BY <1>3
<1>7. t \in Tidy
  BY <1>4, <1>5, <1>6 DEF Tidy
<1> QED
  BY <1>4, <1>6, <1>7 DEF Grows, t

LEMMA CreateAllIs ==
    ASSUME NEW st \in Tidy, NEW S \in SUBSET Places
    PROVE  LET t == CreateAll(st, S)
           IN  /\ Grows(st, t)
               /\ t.nodes = st.nodes \cup S
               /\ t.constraints = st.constraints
               /\ t.ok <=> st.ok /\ S \cap st.nodes = {}
<1> DEFINE t == CreateAll(st, S)
           new == st.ok /\ S \cap st.nodes = {}
<1>1. st \in States
  BY DEF Tidy
<1>2. new \in BOOLEAN
  BY <1>1 DEF States
<1>3. t = [nodes |-> st.nodes \cup S, constraints |-> st.constraints, ok |-> new]
  <2> HIDE DEF new
  <2>1. t = [st EXCEPT !.nodes = @ \cup S, !.ok = new]
    BY DEF CreateAll, new
  <2> HIDE DEF t
  <2> QED
    BY <1>1, <2>1 DEF States
<1>4. new => st.ok
  OBVIOUS
<1>5. new <=> st.ok /\ S \cap st.nodes = {}
  OBVIOUS
<1> HIDE DEF new, t
<1>6. t \in States
  BY <1>1, <1>2, <1>3 DEF States
<1>7. t.ok = new /\ t.nodes = st.nodes \cup S /\ t.constraints = st.constraints
  BY <1>3
<1>8. ConstraintsOver(st.nodes) \subseteq ConstraintsOver(st.nodes \cup S)
  BY DEF ConstraintsOver
<1>9. t \in Tidy
  BY <1>4, <1>6, <1>7, <1>8 DEF Tidy
<1> QED
  BY <1>4, <1>5, <1>7, <1>9 DEF Grows, t

LEMMA CreateTempIs ==
    ASSUME NEW st \in Tidy, NEW n \in Places
    PROVE  LET t == CreateTemp(st, n)
           IN  /\ Grows(st, t)
               /\ t.nodes = st.nodes \cup {n}
               /\ t.constraints = st.constraints
               /\ t.ok <=> st.ok
<1> DEFINE t == CreateTemp(st, n)
<1>1. st \in States
  BY DEF Tidy
<1>2. t = [nodes |-> st.nodes \cup {n}, constraints |-> st.constraints, ok |-> st.ok]
  BY <1>1 DEF CreateTemp, States
<1> HIDE DEF t
<1>3. t \in States
  BY <1>1, <1>2 DEF States
<1>4. t.ok = st.ok /\ t.nodes = st.nodes \cup {n} /\ t.constraints = st.constraints
  BY <1>2
<1>5. ConstraintsOver(st.nodes) \subseteq ConstraintsOver(st.nodes \cup {n})
  BY DEF ConstraintsOver
<1>6. t \in Tidy
  BY <1>3, <1>4, <1>5 DEF Tidy
<1> QED
  BY <1>4, <1>6 DEF Grows, t

LEMMA AbortIs ==
    ASSUME NEW st \in Tidy
    PROVE  /\ Grows(st, Abort(st))
           /\ Abort(st).nodes = st.nodes /\ Abort(st).constraints = st.constraints
           /\ ~Abort(st).ok
<1> DEFINE t == Abort(st)
           never == FALSE
<1>1. st \in States
  BY DEF Tidy
<1>2. t = [nodes |-> st.nodes, constraints |-> st.constraints, ok |-> never]
  <2>1. t = [st EXCEPT !.ok = never]
    BY DEF Abort
  <2> HIDE DEF t, never
  <2> QED
    BY <1>1, <2>1 DEF States
<1> HIDE DEF t
<1>3. t \in States
  BY <1>1, <1>2 DEF States
<1>4. ~t.ok /\ t.nodes = st.nodes /\ t.constraints = st.constraints
  BY <1>2
<1>5. t \in Tidy
  BY <1>3, <1>4 DEF Tidy
<1> QED
  BY <1>4, <1>5 DEF Grows, t

\* One constraint, and a copy for every source in a set.
Added(st, t, type, d, s) ==
    /\ Grows(st, t)
    /\ t.nodes = st.nodes
    /\ t.constraints = st.constraints \cup {Constraint(type, d, s)}
    /\ t.ok <=> st.ok /\ d \in st.nodes /\ s \in st.nodes

LEMMA AddIs ==
    ASSUME NEW st \in Tidy, NEW type \in Types, NEW d \in Ends, NEW s \in Ends
    PROVE  Added(st, Add(st, type, d, s), type, d, s)
<1>1. {Constraint(type, d, s)} \in SUBSET ConstraintsOver(Ends)
  BY ConstraintIs
<1>2. {Constraint(type, d, s)} \subseteq ConstraintsOver(st.nodes) <=> d \in st.nodes /\ s \in st.nodes
  BY ConstraintIs
<1> QED
  BY <1>1, <1>2, AddAllIs DEF Add, Added

LEMMA CopyAllIs ==
    ASSUME NEW st \in Tidy, NEW d \in Ends, NEW S \in SUBSET Ends
    PROVE  LET t == CopyAll(st, d, S)
           IN  /\ Grows(st, t)
               /\ t.nodes = st.nodes
               /\ \A n \in S : Constraint("COPY", d, n) \in t.constraints
               /\ t.ok <=> st.ok /\ (S # {} => d \in st.nodes) /\ S \subseteq st.nodes
<1> DEFINE C == {Constraint("COPY", d, n) : n \in S}
<1>1. C \in SUBSET ConstraintsOver(Ends)
  BY ConstraintIs DEF Types
<1>2. C \subseteq ConstraintsOver(st.nodes) <=> (S # {} => d \in st.nodes) /\ S \subseteq st.nodes
  BY ConstraintIs DEF Types
<1>3. \A n \in S : Constraint("COPY", d, n) \in C
  OBVIOUS
<1>4. CopyAll(st, d, S) = AddAll(st, C)
  BY DEF CopyAll
<1> HIDE DEF C
<1> QED
  BY <1>1, <1>2, <1>3, <1>4, AddAllIs

-----------------------------------------------------------------------------
(* What is granted of the program.                                             *)

LEMMA ProgramIs ==
    ASSUME program \in Programs
    PROVE  /\ WellFormed(program) /\ program \in Modules
           /\ program.functions \in Seq(FunctionRecords) /\ program.globals \in Seq(GlobalRecords)
           /\ Functions = {program.functions[k] : k \in DOMAIN program.functions}
           /\ Functions \subseteq FunctionRecords
           /\ ToSet(program.globals) \subseteq GlobalRecords
           /\ FunctionNames = {f.name : f \in Functions}
           /\ Globals = {g.name : g \in ToSet(program.globals)}
<1>1. WellFormed(program)
  BY ProgramsAssumption
<1>2. program \in Modules
  BY <1>1 DEF WellFormed
<1>3. program.functions \in Seq(FunctionRecords) /\ program.globals \in Seq(GlobalRecords)
  BY <1>2 DEF Modules
<1>4. /\ ToSet(program.functions) = {program.functions[k] : k \in DOMAIN program.functions}
      /\ ToSet(program.functions) \subseteq FunctionRecords
      /\ ToSet(program.globals) \subseteq GlobalRecords
  BY <1>3, FiniteRange
<1> QED
  BY <1>1, <1>2, <1>3, <1>4 DEF Functions, FunctionsOf, FunctionNames, NamesOf, Globals, GlobalsOf

LEMMA FunctionIs ==
    ASSUME program \in Programs, NEW f \in Functions
    PROVE  /\ f \in FunctionRecords
           /\ f.formals \in Seq(STRING \X BOOLEAN) /\ f.body \in Seq(InstructionRecords)
           /\ f.ptr \in BOOLEAN /\ f.vararg \in BOOLEAN
           /\ f.name \in FunctionNames /\ f.name \in Names
           /\ IsDefined(f) \/ f.kind \in LibraryKinds
           /\ ToSet(f.formals) = {f.formals[k] : k \in DOMAIN f.formals}
           /\ ToSet(f.body) = {f.body[k] : k \in DOMAIN f.body}
           /\ \A a \in ToSet(f.formals) : a[1] \in Names
           /\ \A i \in ToSet(f.body) : i \in InstructionRecords /\ i.name \in Names
<1>1. f \in FunctionRecords /\ f.name \in FunctionNames /\ f.name \in Names
  BY ProgramIs DEF Names
<1>2. f.formals \in Seq(STRING \X BOOLEAN) /\ f.body \in Seq(InstructionRecords)
      /\ f.ptr \in BOOLEAN /\ f.vararg \in BOOLEAN /\ f.kind \in LibraryKinds \cup {""}
  BY <1>1 DEF FunctionRecords
<1>3. /\ ToSet(f.formals) = {f.formals[k] : k \in DOMAIN f.formals}
      /\ ToSet(f.body) = {f.body[k] : k \in DOMAIN f.body}
      /\ ToSet(f.body) \subseteq InstructionRecords
  <2>1. f.formals \in Seq(STRING \X BOOLEAN) /\ f.body \in Seq(InstructionRecords)
    BY <1>2
  <2>2. ToSet(f.formals) = {f.formals[k] : k \in DOMAIN f.formals}
    BY <2>1, FiniteRange
  <2>3. ToSet(f.body) = {f.body[k] : k \in DOMAIN f.body} /\ ToSet(f.body) \subseteq InstructionRecords
    BY <2>1, FiniteRange
  <2> QED
    BY <2>2, <2>3
<1>4. IsDefined(f) \/ f.kind # ""
  BY ProgramIs DEF WellFormed, CodeIsComplete, Functions
<1>5. \A x \in Locals(f) : x \in Names
  BY DEF Names
<1> QED
  BY <1>1, <1>2, <1>3, <1>4, <1>5 DEF Locals

\* A name is that of one function.
LEMMA NamedIs ==
    ASSUME program \in Programs
    PROVE  /\ \A f \in Functions : Named(f.name) = f
           /\ \A x \in FunctionNames : Named(x) \in Functions /\ Named(x).name = x
<1>1. \A f, g \in Functions : f.name = g.name => f = g
  BY ProgramIs DEF WellFormed, NamesAreUnique
<1>2. ASSUME NEW f \in Functions
      PROVE  Named(f.name) = f
  BY <1>1 DEF Named
<1> QED
  BY <1>2, ProgramIs

LEMMA InstructionIs ==
    ASSUME program \in Programs, NEW f \in Functions, NEW i \in ToSet(f.body)
    PROVE  /\ i.args \in Seq(Operands) /\ i.ptr \in BOOLEAN /\ i.name \in Names
           /\ i.callee \in CalleeKinds \X STRING
           /\ ToSet(i.args) = {i.args[k] : k \in DOMAIN i.args}
           /\ ToSet(i.args) \subseteq Operands
           /\ <<f, i>> \in Instructions
           /\ InstructionFits(program, f, i)
<1>1. i \in InstructionRecords /\ i.name \in Names
  BY FunctionIs
<1>2. i.args \in Seq(Operands) /\ i.ptr \in BOOLEAN /\ i.callee \in CalleeKinds \X STRING
  BY <1>1 DEF InstructionRecords
<1>3. ToSet(i.args) = {i.args[k] : k \in DOMAIN i.args} /\ ToSet(i.args) \subseteq Operands
  BY <1>2, FiniteRange
<1>4. InstructionFits(program, f, i)
  BY ProgramIs DEF WellFormed, Functions
<1>5. <<f, i>> \in Instructions
  BY DEF Instructions
<1> QED
  BY <1>1, <1>2, <1>3, <1>4, <1>5

\* An operand that is no pointer has no node; what the others are named for is known.
LEMMA OperandIs ==
    ASSUME program \in Programs, NEW f \in Functions, NEW i \in ToSet(f.body), NEW op \in ToSet(i.args)
    PROVE  /\ op \in Operands
           /\ op[1] \in {"gep", "bitcast"} => op[2] \in Known
           /\ op[1] \in {"value", "ptrtoint", "ptrtoint+"} => op[2] \in Known \cup Pointers(f)
           /\ ValueNodeFor(op) \in Ends
           /\ IF IsPointer(op) THEN ValueNodeFor(op) \in Places ELSE ValueNodeFor(op) = NoNode
<1>1. op \in Operands /\ <<f, i>> \in Instructions
  BY InstructionIs
<1>2. /\ op[1] \in {"gep", "bitcast"} => op[2] \in Globals \cup FunctionNames
      /\ op[1] \in {"value", "ptrtoint", "ptrtoint+"} => op[2] \in (Globals \cup FunctionNames) \cup Pointers(f)
  BY ProgramIs DEF WellFormed, OperandsAreKnown, Functions, Globals, FunctionNames
<1>3. HasAddressTaken(op[2])
  BY <1>1 DEF HasAddressTaken
<1>4. /\ op[1] \in {"gep", "bitcast"} => op[2] \in Known
      /\ op[1] \in {"value", "ptrtoint", "ptrtoint+"} => op[2] \in Known \cup Pointers(f)
  BY <1>2, <1>3 DEF Known
<1>5. Known \subseteq Names /\ Pointers(f) \subseteq Names
  BY FunctionIs DEF Known, Pointers, Names
<1>6. \A x \in Names \cup {"universal", "null"} : Val(x) \in Places
  BY DEF Places, Names
<1>7. IF IsPointer(op) THEN ValueNodeFor(op) \in Places ELSE ValueNodeFor(op) = NoNode
  <2>1. op[1] \in OperandKinds
    BY <1>1 DEF Operands
  <2>2. CASE op[1] \in {"value", "gep", "bitcast"}
    BY <1>4, <1>5, <1>6, <2>2 DEF ValueNodeFor, IsPointer, IntegerKinds
  <2>3. CASE op[1] \in {"null", "undef", "inttoptr"}
    BY <1>6, <2>3 DEF ValueNodeFor, IsPointer, IntegerKinds, NullPtr, UniversalPtr
  <2>4. CASE op[1] \in IntegerKinds
    BY <2>4 DEF ValueNodeFor, IsPointer, IntegerKinds
  <2> QED
    BY <2>1, <2>2, <2>3, <2>4 DEF OperandKinds, IntegerKinds
<1> QED
  BY <1>1, <1>4, <1>7 DEF Ends

-----------------------------------------------------------------------------
(* What the reading of an instruction collects, and when it stops.             *)

\* The nodes that the reading of i may create.
Made(i) ==
    IF i.op \in {"alloca", "call"} THEN {Obj(i.name)} \cup {Temp(i.name, x) : x \in FunctionNames} ELSE {}

Reads(s, t, i) == Grows(s, t) /\ t.nodes \subseteq s.nodes \cup Made(i)

\* The result and the pointers that i uses have a node.
Ready(st, i) ==
    /\ UniversalPtr \in st.nodes
    /\ i.ptr => Val(i.name) \in st.nodes
    /\ \A a \in ToSet(i.args) :
        /\ IsPointer(a) => ValueNodeFor(a) \in st.nodes
        /\ a[1] \in {"ptrtoint", "ptrtoint+"} => Val(a[2]) \in st.nodes

LEMMA NodesArePlaces ==
    /\ \A x \in Names : {Val(x), Obj(x), Ret(x), Vararg(x)} \subseteq Places
    /\ \A x, y \in Names : Temp(x, y) \in Places
    /\ {UniversalPtr, UniversalObj, NullPtr, NullObject} \subseteq Places
    /\ NoNode \notin Places
<1>1. \A x \in Names : {Val(x), Obj(x), Ret(x), Vararg(x)} \subseteq Places
  BY DEF Places
<1>2. \A x, y \in Names : Temp(x, y) \in Places
  <2> SUFFICES ASSUME NEW x \in Names, NEW y \in Names
               PROVE  Temp(x, y) \in Places
    OBVIOUS
  <2> DEFINE q == <<x, y>>
  <2>1. q \in Names \X Names /\ q[1] = x /\ q[2] = y
    OBVIOUS
  <2> HIDE DEF q
  <2> QED
    BY <2>1 DEF Places
<1>3. {"universal", "null"} \subseteq Names
  BY DEF Names
<1>4. NoNode \notin Places
  BY NodesDiffer DEF Places
<1> QED
  BY <1>1, <1>2, <1>3, <1>4 DEF UniversalPtr, UniversalObj, NullPtr, NullObject

LEMMA ArgumentsAdded ==
    ASSUME program \in Programs, NEW f \in Functions, NEW i \in ToSet(f.body), NEW g \in Functions,
           NEW st \in Tidy
    PROVE  LET t == AddArguments(st, i, g)
           IN  /\ Grows(st, t) /\ t.nodes = st.nodes
               /\ t.ok => ArgumentsMet(t.constraints, i, g)
               /\ st.ok /\ Ready(st, i) /\ SignatureOf(g) \subseteq st.nodes => t.ok
<1> DEFINE Actual(k) == IF IsPointer(i.args[k]) THEN ValueNodeFor(i.args[k]) ELSE UniversalPtr
           K == {k \in DOMAIN g.formals \cap DOMAIN i.args : g.formals[k][2]}
           C == {Constraint("COPY", Val(g.formals[k][1]), Actual(k)) : k \in K}
           bound == AddAll(st, C)
           R == {i.args[k] : k \in DOMAIN i.args \ DOMAIN g.formals}
           S == {ValueNodeFor(a) : a \in {a \in R : IsPointer(a)}}
           t == AddArguments(st, i, g)
<1>1. \A k \in DOMAIN i.args : i.args[k] \in ToSet(i.args) /\ ValueNodeFor(i.args[k]) \in Ends
  BY InstructionIs, OperandIs
<1>2. \A k \in DOMAIN g.formals : g.formals[k] \in ToSet(g.formals) /\ Val(g.formals[k][1]) \in Places
  BY FunctionIs, NodesArePlaces
<1>3. UniversalPtr \in Ends /\ Vararg(g.name) \in Ends
  BY FunctionIs, NodesArePlaces DEF Ends
<1>4. \A k \in K : Val(g.formals[k][1]) \in Ends /\ Actual(k) \in Ends
  BY <1>1, <1>2, <1>3 DEF Ends
<1>5. C \in SUBSET ConstraintsOver(Ends)
  <2> HIDE DEF K, Actual
  <2> QED
    BY <1>4, ConstraintIs DEF Types
<1>6. S \in SUBSET Ends
  BY <1>1
<1>7. t = IF ~g.vararg THEN bound ELSE CopyAll(bound, Vararg(g.name), S)
  BY DEF AddArguments
<1>8. /\ Grows(st, bound) /\ bound.nodes = st.nodes /\ bound.constraints = st.constraints \cup C
      /\ bound.ok <=> st.ok /\ C \subseteq ConstraintsOver(st.nodes)
  <2> HIDE DEF C
  <2> QED
    BY <1>5, AddAllIs
<1>9. /\ Grows(st, t) /\ t.nodes = st.nodes /\ C \subseteq t.constraints
      /\ g.vararg => \A n \in S : Constraint("COPY", Vararg(g.name), n) \in t.constraints
      /\ t.ok <=> bound.ok /\ (g.vararg => (S # {} => Vararg(g.name) \in st.nodes) /\ S \subseteq st.nodes)
  <2> HIDE DEF bound, S, C, t
  <2>1. bound \in Tidy
    BY <1>8 DEF Grows
  <2>2. CASE g.vararg
    <3>1. t = CopyAll(bound, Vararg(g.name), S)
      BY <1>7, <2>2
    <3>2. /\ Grows(bound, t) /\ t.nodes = bound.nodes
          /\ \A n \in S : Constraint("COPY", Vararg(g.name), n) \in t.constraints
          /\ t.ok <=> bound.ok /\ (S # {} => Vararg(g.name) \in bound.nodes) /\ S \subseteq bound.nodes
      BY <1>3, <1>6, <2>1, <3>1, CopyAllIs
    <3>3. Grows(st, t)
      BY <1>8, <3>2, GrowsOn
    <3>4. C \subseteq t.constraints
      BY <1>8, <3>2 DEF Grows
    <3> QED
      BY <1>8, <2>2, <3>2, <3>3, <3>4
  <2>3. CASE ~g.vararg
    BY <1>7, <1>8, <2>3
  <2> QED
    BY <2>2, <2>3
<1>10. ArgumentsMet(t.constraints, i, g)
  <2>1. \A k \in K : Constraint("COPY", Val(g.formals[k][1]), Actual(k)) \in t.constraints
    BY <1>9
  <2>2. \A k \in DOMAIN i.args \ DOMAIN g.formals : IsPointer(i.args[k]) => ValueNodeFor(i.args[k]) \in S
    OBVIOUS
  <2> HIDE DEF t, C, S
  <2> QED
    BY <1>9, <2>1, <2>2 DEF ArgumentsMet
<1>11. ASSUME st.ok, Ready(st, i), SignatureOf(g) \subseteq st.nodes
       PROVE  t.ok
  <2>1. \A k \in K : Val(g.formals[k][1]) \in st.nodes
    <3>1. \A a \in ToSet(g.formals) : a[2] => Val(a[1]) \in SignatureOf(g)
      BY DEF SignatureOf
    <3> QED
      BY <1>2, <1>11, <3>1
  <2>2. \A k \in K : Actual(k) \in st.nodes
    BY <1>1, <1>11 DEF Ready
  <2>3. C \subseteq ConstraintsOver(st.nodes)
    <3> HIDE DEF K, Actual
    <3> QED
      BY <2>1, <2>2, ConstraintIs DEF Types
  <2>4. S \subseteq st.nodes
    BY <1>1, <1>11 DEF Ready
  <2>5. g.vararg => Vararg(g.name) \in st.nodes
    BY <1>11 DEF SignatureOf
  <2> HIDE DEF t, C, S, bound
  <2> QED
    BY <1>8, <1>9, <1>11, <2>3, <2>4, <2>5
<1> HIDE DEF t
<1> QED
  BY <1>9, <1>10, <1>11 DEF t

LEMMA LibraryAdded ==
    ASSUME program \in Programs, NEW f \in Functions, NEW i \in ToSet(f.body), i.op = "call",
           NEW g \in Functions, ~IsDefined(g), g.kind # "unknown",
           NEW st \in Tidy, i.ptr => Val(i.name) \in st.nodes
    PROVE  LET t == AddForLibrary(st, f, i, g)
           IN  /\ Reads(st, t, i)
               /\ t.ok => LibraryMet(t.constraints, i, g)
               /\ /\ st.ok /\ Ready(st, i) /\ SignatureOf(f) \subseteq st.nodes
                  /\ IsDirect(i) /\ LibraryCallFits(f, i, g) /\ Obj(i.name) \notin st.nodes
                  => t.ok
<1> DEFINE Arg(k) == IF k \in DOMAIN i.args THEN ValueNodeFor(i.args[k]) ELSE NoNode
           first == Arg(1)
           second == Arg(2)
           third == Arg(3)
           result == Val(i.name)
           object == Obj(i.name)
           temp == Temp(i.name, g.name)
           created == Create(st, object)
           loaded == Add(CreateTemp(st, temp), "LOAD", temp, second)
           moved == Add(loaded, "STORE", first, temp)
           table == IF g.kind # "realloc" THEN g.kind
                    ELSE IF i.args[1][1] = "null" THEN "retArg0" ELSE "malloc"
           t == AddForLibrary(st, f, i, g)
           Takes(k) == k \in DOMAIN i.args /\ IsPointer(i.args[k])
           fits == /\ st.ok /\ Ready(st, i) /\ SignatureOf(f) \subseteq st.nodes
                   /\ IsDirect(i) /\ LibraryCallFits(f, i, g) /\ object \notin st.nodes
           Goal == Reads(st, t, i) /\ (t.ok => LibraryMet(t.constraints, i, g)) /\ (fits => t.ok)
<1>1. \A k : /\ Arg(k) \in Ends
             /\ Arg(k) \in Places => k \in DOMAIN i.args /\ Arg(k) = ValueNodeFor(i.args[k])
  <2>1. \A k \in DOMAIN i.args : i.args[k] \in ToSet(i.args) /\ ValueNodeFor(i.args[k]) \in Ends
    BY InstructionIs, OperandIs
  <2> QED
    BY <2>1, NodesArePlaces DEF Ends
<1>2. result \in Places /\ object \in Places /\ temp \in Places /\ Vararg(f.name) \in Places
  BY InstructionIs, FunctionIs, NodesArePlaces
<1>3. object \in Made(i) /\ temp \in Made(i)
  BY FunctionIs DEF Made
<1>4. st.nodes \subseteq Places
  BY DEF Tidy, States
<1>5. \A k : Takes(k) /\ Ready(st, i) => Arg(k) \in st.nodes
  BY InstructionIs DEF Ready
<1>6. /\ Grows(st, created) /\ created.nodes = st.nodes \cup {object}
      /\ created.ok <=> st.ok /\ object \notin st.nodes
  BY <1>2, CreateAllIs DEF Create
<1>7. created \in Tidy
  BY <1>6 DEF Grows
<1>8. table \in {"noop", "malloc", "posix_memalign", "retArg0", "retArg1", "retArg2", "memcpy",
                 "convert", "va_start"} /\ (g.kind = table \/ (g.kind = "realloc" /\ table \in {"retArg0", "malloc"}))
  BY FunctionIs DEF LibraryKinds
<1>9. fits => /\ g.kind \in {"malloc", "realloc", "retArg0", "retArg1", "retArg2"} => result \in st.nodes
              /\ g.kind \in {"realloc", "posix_memalign", "retArg0", "memcpy", "convert", "va_start"} =>
                    first \in st.nodes
              /\ g.kind \in {"retArg1", "memcpy", "convert"} => second \in st.nodes
              /\ g.kind = "retArg2" => third \in st.nodes
              /\ g.kind = "va_start" => Vararg(f.name) \in st.nodes
  <2>1. LibraryCallFits(f, i, g) =>
              /\ g.kind \in {"malloc", "realloc", "retArg0", "retArg1", "retArg2"} => i.ptr
              /\ g.kind \in {"realloc", "posix_memalign", "retArg0", "memcpy", "convert", "va_start"} => Takes(1)
              /\ g.kind \in {"retArg1", "memcpy", "convert"} => Takes(2)
              /\ g.kind = "retArg2" => Takes(3)
              /\ g.kind = "va_start" => f.vararg
    BY DEF LibraryCallFits
  <2>2. SignatureOf(f) \subseteq st.nodes /\ f.vararg => Vararg(f.name) \in st.nodes
    BY DEF SignatureOf
  <2>3. Ready(st, i) /\ i.ptr => result \in st.nodes
    BY DEF Ready
  <2> HIDE DEF Arg, Takes, result, first, second, third
  <2> QED
    BY <1>5, <2>1, <2>2, <2>3 DEF first, second, third
<1>10. t = CASE table = "noop" -> st
             [] table \in {"malloc", "posix_memalign"} ->
                  IF result \in st.nodes THEN Add(created, "ADDR_OF", result, object)
                  ELSE IF IsDirect(i) /\ table = "posix_memalign"
                       THEN Add(created, "STORE", first, object)
                  ELSE Abort(st)
             [] table = "retArg0" -> Add(st, "COPY", result, first)
             [] table = "retArg1" -> Add(st, "COPY", result, second)
             [] table = "retArg2" -> Add(st, "COPY", result, third)
             [] table = "memcpy" -> IF result \in st.nodes THEN Add(moved, "COPY", result, first) ELSE moved
             [] table = "convert" -> IF i.args[2][1] = "null" THEN st ELSE Add(st, "STORE", first, second)
             [] table = "va_start" -> Add(st, "ADDR_OF", first, Vararg(f.name))
  BY DEF AddForLibrary
<1>11. /\ g.kind \notin {"malloc", "retArg0", "retArg1", "retArg2", "memcpy"} => \A C : LibraryMet(C, i, g)
       /\ g.kind = "malloc" => \A C : Constraint("ADDR_OF", result, object) \in C => LibraryMet(C, i, g)
       /\ g.kind = "retArg0" => \A C :
            1 \in DOMAIN i.args /\ Constraint("COPY", result, ValueNodeFor(i.args[1])) \in C => LibraryMet(C, i, g)
       /\ g.kind = "retArg1" => \A C :
            2 \in DOMAIN i.args /\ Constraint("COPY", result, ValueNodeFor(i.args[2])) \in C => LibraryMet(C, i, g)
       /\ g.kind = "retArg2" => \A C :
            3 \in DOMAIN i.args /\ Constraint("COPY", result, ValueNodeFor(i.args[3])) \in C => LibraryMet(C, i, g)
       /\ g.kind = "memcpy" => \A C :
            /\ 1 \in DOMAIN i.args /\ 2 \in DOMAIN i.args
            /\ Constraint("LOAD", temp, ValueNodeFor(i.args[2])) \in C
            /\ Constraint("STORE", ValueNodeFor(i.args[1]), temp) \in C
            /\ i.ptr => Constraint("COPY", result, ValueNodeFor(i.args[1])) \in C
            => LibraryMet(C, i, g)
  BY DEF LibraryMet
<1>12. /\ Grows(st, st)
       /\ fits => st.ok /\ object \notin st.nodes /\ IsDirect(i)
       /\ first \in Places => 1 \in DOMAIN i.args /\ first = ValueNodeFor(i.args[1])
       /\ second \in Places => 2 \in DOMAIN i.args /\ second = ValueNodeFor(i.args[2])
       /\ third \in Places => 3 \in DOMAIN i.args /\ third = ValueNodeFor(i.args[3])
  <2> HIDE DEF Arg
  <2> QED
    BY <1>1 DEF Grows
<1>120. /\ first \in Ends /\ second \in Ends /\ third \in Ends
        /\ result \in Ends /\ object \in Ends /\ temp \in Ends /\ Vararg(f.name) \in Ends
  <2> HIDE DEF Arg
  <2> QED
    BY <1>1, <1>2 DEF Ends
<1>121. "ADDR_OF" \in Types /\ "COPY" \in Types /\ "LOAD" \in Types /\ "STORE" \in Types
  BY DEF Types
<1>122. i.ptr => result \in st.nodes
  OBVIOUS
<1> SUFFICES Goal
  OBVIOUS
<1> HIDE DEF first, second, third, Arg, result, object, temp, created, table, fits, Takes
<1>13. CASE table = "noop"
  BY <1>8, <1>10, <1>11, <1>12, <1>13 DEF Reads, fits
<1>14. CASE table \in {"malloc", "posix_memalign"} /\ result \in st.nodes
  <2>1. t = Add(created, "ADDR_OF", result, object)
    BY <1>10, <1>14
  <2> HIDE DEF t
  <2>2. /\ Grows(created, t) /\ t.nodes = created.nodes
        /\ Constraint("ADDR_OF", result, object) \in t.constraints
        /\ t.ok <=> created.ok /\ result \in created.nodes /\ object \in created.nodes
    <3>1. Added(created, t, "ADDR_OF", result, object)
      BY <1>7, <1>120, <1>121, <2>1, AddIs
    <3> QED
      BY <3>1 DEF Added
  <2>3. Reads(st, t, i)
    BY <1>3, <1>6, <2>2, GrowsOn DEF Reads
  <2> QED
    BY <1>6, <1>8, <1>11, <1>14, <2>2, <2>3 DEF fits, object
<1>15. CASE table = "posix_memalign" /\ result \notin st.nodes /\ IsDirect(i)
  <2>1. t = Add(created, "STORE", first, object)
    BY <1>10, <1>15
  <2> HIDE DEF t
  <2>2. /\ Grows(created, t) /\ t.nodes = created.nodes
        /\ t.ok <=> created.ok /\ first \in created.nodes /\ object \in created.nodes
    <3>1. Added(created, t, "STORE", first, object)
      BY <1>7, <1>120, <1>121, <2>1, AddIs
    <3> QED
      BY <3>1 DEF Added
  <2>3. Reads(st, t, i)
    BY <1>3, <1>6, <2>2, GrowsOn DEF Reads
  <2> QED
    BY <1>6, <1>8, <1>9, <1>11, <1>15, <2>2, <2>3 DEF fits, object
<1>16. CASE table \in {"malloc", "posix_memalign"} /\ result \notin st.nodes
            /\ ~(IsDirect(i) /\ table = "posix_memalign")
  <2>1. t = Abort(st)
    BY <1>10, <1>16
  <2> HIDE DEF t
  <2>2. Grows(st, t) /\ t.nodes = st.nodes /\ ~t.ok
    BY <2>1, AbortIs
  <2>3. ~fits
    BY <1>8, <1>9, <1>16 DEF fits
  <2> QED
    BY <2>2, <2>3 DEF Reads
<1>17. ASSUME NEW a \in Ends, t = Add(st, "COPY", result, a)
       PROVE  /\ Reads(st, t, i)
              /\ Constraint("COPY", result, a) \in t.constraints
              /\ t.ok <=> st.ok /\ result \in st.nodes /\ a \in st.nodes
  <2> HIDE DEF t
  <2>1. /\ Grows(st, t) /\ t.nodes = st.nodes
        /\ t.constraints = st.constraints \cup {Constraint("COPY", result, a)}
        /\ t.ok <=> st.ok /\ result \in st.nodes /\ a \in st.nodes
    <3>1. Added(st, t, "COPY", result, a)
      BY <1>17, <1>120, <1>121, AddIs
    <3> QED
      BY <3>1 DEF Added
  <2> QED
    BY <2>1 DEF Reads
<1>180. CASE table = "retArg0"
  <2>1. t = Add(st, "COPY", result, first)
    BY <1>10, <1>180
  <2> HIDE DEF t
  <2>2. /\ Reads(st, t, i)
        /\ Constraint("COPY", result, first) \in t.constraints
        /\ t.ok <=> st.ok /\ result \in st.nodes /\ first \in st.nodes
    BY <1>120, <1>17, <2>1
  <2>3. fits => t.ok
    BY <1>8, <1>9, <1>12, <1>180, <2>2
  <2>4. t.ok => LibraryMet(t.constraints, i, g)
    BY <1>4, <1>8, <1>11, <1>12, <1>180, <2>2
  <2> QED
    BY <2>2, <2>3, <2>4
<1>181. CASE table = "retArg1"
  <2>1. t = Add(st, "COPY", result, second)
    BY <1>10, <1>181
  <2> HIDE DEF t
  <2>2. /\ Reads(st, t, i)
        /\ Constraint("COPY", result, second) \in t.constraints
        /\ t.ok <=> st.ok /\ result \in st.nodes /\ second \in st.nodes
    BY <1>120, <1>17, <2>1
  <2>3. fits => t.ok
    BY <1>8, <1>9, <1>12, <1>181, <2>2
  <2>4. t.ok => LibraryMet(t.constraints, i, g)
    BY <1>4, <1>8, <1>11, <1>12, <1>181, <2>2
  <2> QED
    BY <2>2, <2>3, <2>4
<1>182. CASE table = "retArg2"
  <2>1. t = Add(st, "COPY", result, third)
    BY <1>10, <1>182
  <2> HIDE DEF t
  <2>2. /\ Reads(st, t, i)
        /\ Constraint("COPY", result, third) \in t.constraints
        /\ t.ok <=> st.ok /\ result \in st.nodes /\ third \in st.nodes
    BY <1>120, <1>17, <2>1
  <2>3. fits => t.ok
    BY <1>8, <1>9, <1>12, <1>182, <2>2
  <2>4. t.ok => LibraryMet(t.constraints, i, g)
    BY <1>4, <1>8, <1>11, <1>12, <1>182, <2>2
  <2> QED
    BY <2>2, <2>3, <2>4
<1>19. CASE table = "memcpy"
  <2> DEFINE made == CreateTemp(st, temp)
  <2>1. Grows(st, made) /\ made.nodes = st.nodes \cup {temp} /\ (made.ok <=> st.ok)
    BY <1>2, CreateTempIs
  <2>2. made \in Tidy
    BY <2>1 DEF Grows
  <2>3. /\ Grows(made, loaded) /\ loaded.nodes = made.nodes
        /\ Constraint("LOAD", temp, second) \in loaded.constraints
        /\ loaded.ok <=> made.ok /\ temp \in made.nodes /\ second \in made.nodes
    <3> HIDE DEF made
    <3>1. loaded = Add(made, "LOAD", temp, second)
      BY DEF made
    <3> HIDE DEF loaded
    <3>2. Added(made, loaded, "LOAD", temp, second)
      BY <1>120, <1>121, <2>2, <3>1, AddIs
    <3> QED
      BY <3>2 DEF Added
  <2> HIDE DEF made, loaded
  <2>4. loaded \in Tidy
    BY <2>3 DEF Grows
  <2>5. /\ Grows(loaded, moved) /\ moved.nodes = loaded.nodes
        /\ Constraint("STORE", first, temp) \in moved.constraints
        /\ moved.ok <=> loaded.ok /\ first \in loaded.nodes /\ temp \in loaded.nodes
    <3>1. moved = Add(loaded, "STORE", first, temp)
      OBVIOUS
    <3> HIDE DEF moved, t
    <3>2. Added(loaded, moved, "STORE", first, temp)
      BY <1>120, <1>121, <2>4, <3>1, AddIs
    <3> QED
      BY <3>2 DEF Added
  <2> HIDE DEF moved
  <2>6. moved \in Tidy
    BY <2>5 DEF Grows
  <2>7. /\ Grows(moved, t) /\ t.nodes = moved.nodes
        /\ result \in st.nodes => Constraint("COPY", result, first) \in t.constraints
        /\ result \in st.nodes => (t.ok <=> moved.ok /\ result \in moved.nodes /\ first \in moved.nodes)
        /\ result \notin st.nodes => t = moved
    <3>1. t = IF result \in st.nodes THEN Add(moved, "COPY", result, first) ELSE moved
      BY <1>10, <1>19
    <3> HIDE DEF t
    <3>2. CASE result \in st.nodes
      <4>1. Added(moved, t, "COPY", result, first)
        BY <1>120, <1>121, <2>6, <3>1, <3>2, AddIs
      <4> QED
        BY <3>2, <4>1 DEF Added
    <3>3. CASE result \notin st.nodes
      BY <2>6, <3>1, <3>3 DEF Grows
    <3> QED
      BY <3>2, <3>3
  <2> HIDE DEF t
  <2>8. Reads(st, t, i)
    <3>1. Grows(st, t)
      BY <2>1, <2>3, <2>5, <2>7, GrowsOn
    <3> QED
      BY <1>3, <2>1, <2>3, <2>5, <2>7, <3>1 DEF Reads
  <2>9. ASSUME fits
        PROVE  t.ok
    <3>1. st.ok /\ first \in st.nodes /\ second \in st.nodes
      BY <1>8, <1>9, <1>12, <1>19, <2>9
    <3>2. moved.ok /\ st.nodes \subseteq moved.nodes
      BY <2>1, <2>3, <2>5, <3>1
    <3> QED
      BY <2>7, <3>1, <3>2
  <2>10. ASSUME t.ok
         PROVE  /\ moved.ok /\ loaded.ok
                /\ Constraint("LOAD", temp, second) \in t.constraints
                /\ Constraint("STORE", first, temp) \in t.constraints
    BY <2>3, <2>5, <2>7, <2>10 DEF Grows
  <2>11. ASSUME t.ok
         PROVE  first \in Places /\ second \in Places
    BY <1>2, <1>4, <2>1, <2>3, <2>5, <2>10, <2>11
  <2>12. t.ok => LibraryMet(t.constraints, i, g)
    <3>1. SUFFICES ASSUME t.ok
                   PROVE  LibraryMet(t.constraints, i, g)
      OBVIOUS
    <3>2. /\ 1 \in DOMAIN i.args /\ first = ValueNodeFor(i.args[1])
          /\ 2 \in DOMAIN i.args /\ second = ValueNodeFor(i.args[2])
      BY <1>12, <2>11, <3>1
    <3>3. i.ptr => Constraint("COPY", result, ValueNodeFor(i.args[1])) \in t.constraints
      BY <1>122, <2>7, <3>2
    <3>4. \A C : LibraryMet(C, i, g) \/ g.kind = "memcpy"
      BY <1>8, <1>11, <1>19
    <3> QED
      BY <1>11, <2>10, <3>1, <3>2, <3>3, <3>4
  <2> QED
    BY <2>8, <2>9, <2>12
<1>20. CASE table = "convert"
  <2>1. t = IF i.args[2][1] = "null" THEN st ELSE Add(st, "STORE", first, second)
    BY <1>10, <1>20
  <2> HIDE DEF t
  <2>2. CASE i.args[2][1] = "null"
    BY <1>8, <1>11, <1>12, <1>20, <2>1, <2>2 DEF Reads
  <2>3. CASE i.args[2][1] # "null"
    <3>1. /\ Grows(st, t) /\ t.nodes = st.nodes
          /\ t.ok <=> st.ok /\ first \in st.nodes /\ second \in st.nodes
      <4>1. Added(st, t, "STORE", first, second)
        BY <1>120, <1>121, <2>1, <2>3, AddIs
      <4> QED
        BY <4>1 DEF Added
    <3> QED
      BY <1>8, <1>9, <1>11, <1>12, <1>20, <3>1 DEF Reads
  <2> QED
    BY <2>2, <2>3
<1>21. CASE table = "va_start"
  <2>1. t = Add(st, "ADDR_OF", first, Vararg(f.name))
    BY <1>10, <1>21
  <2> HIDE DEF t
  <2>2. /\ Grows(st, t) /\ t.nodes = st.nodes
        /\ t.ok <=> st.ok /\ first \in st.nodes /\ Vararg(f.name) \in st.nodes
    <3>1. Added(st, t, "ADDR_OF", first, Vararg(f.name))
      BY <1>120, <1>121, <2>1, AddIs
    <3> QED
      BY <3>1 DEF Added
  <2> QED
    BY <1>8, <1>9, <1>11, <1>12, <1>21, <2>2 DEF Reads
<1> QED
  BY <1>8, <1>13, <1>14, <1>15, <1>16, <1>180, <1>181, <1>182, <1>19, <1>20, <1>21

\* What is asked for stays collected.
LEMMA MetGrows ==
    ASSUME NEW C, NEW D, C \subseteq D, NEW f, NEW g, NEW i
    PROVE  /\ CallMet(C, i, g) => CallMet(D, i, g)
           /\ Met(C, f, i) => Met(D, f, i)
<1>1. ASSUME NEW h, ArgumentsMet(C, i, h)
      PROVE  ArgumentsMet(D, i, h)
  BY <1>1 DEF ArgumentsMet
<1>2. ASSUME NEW h, LibraryMet(C, i, h)
      PROVE  LibraryMet(D, i, h)
  BY <1>2 DEF LibraryMet
<1>3. ASSUME NEW h, CallMet(C, i, h)
      PROVE  CallMet(D, i, h)
  BY <1>1, <1>2, <1>3 DEF CallMet
<1>4. ASSUME Met(C, f, i)
      PROVE  Met(D, f, i)
  BY <1>3, <1>4 DEF Met
<1> QED
  BY <1>3, <1>4

\* The result of a call, and the arguments that an unknown function is given.
LEMMA ResultAdded ==
    ASSUME NEW i, NEW n \in Ends, NEW st \in Tidy, Val(i.name) \in Places,
           i.ptr \in BOOLEAN, i.ptr => Val(i.name) \in st.nodes
    PROVE  LET t == IF i.ptr THEN Add(st, "COPY", Val(i.name), n) ELSE st
           IN  /\ Grows(st, t) /\ t.nodes = st.nodes
               /\ i.ptr => Constraint("COPY", Val(i.name), n) \in t.constraints
               /\ st.ok /\ (i.ptr => n \in st.nodes) => t.ok
<1>1. CASE i.ptr
  <2>1. Added(st, Add(st, "COPY", Val(i.name), n), "COPY", Val(i.name), n)
    BY AddIs DEF Ends, Types
  <2> QED
    BY <1>1, <2>1 DEF Added
<1>2. CASE ~i.ptr
  BY <1>2 DEF Grows
<1> QED
  BY <1>1, <1>2

LEMMA PolluteAdded ==
    ASSUME NEW args, \A a \in args : ValueNodeFor(a) \in Ends, NEW st \in Tidy
    PROVE  LET t == Pollute(st, args)
           IN  /\ Grows(st, t) /\ t.nodes = st.nodes
               /\ /\ st.ok /\ UniversalPtr \in st.nodes
                  /\ \A a \in args : ValueNodeFor(a) \in st.nodes
                  => t.ok
<1> DEFINE C == {Constraint("COPY", ValueNodeFor(a), UniversalPtr) : a \in args}
<1>1. C \in SUBSET ConstraintsOver(Ends)
  BY ConstraintIs, NodesArePlaces DEF Ends, Types
<1>2. UniversalPtr \in st.nodes /\ (\A a \in args : ValueNodeFor(a) \in st.nodes) =>
        C \subseteq ConstraintsOver(st.nodes)
  BY ConstraintIs DEF Types
<1>3. Pollute(st, args) = AddAll(st, C)
  BY DEF Pollute
<1> HIDE DEF C
<1> QED
  BY <1>1, <1>2, <1>3, AddAllIs

\* A call of a named function.
LEMMA DirectCallAdded ==
    ASSUME program \in Programs, NEW f \in Functions, NEW i \in ToSet(f.body), i.op = "call", IsDirect(i),
           NEW st \in Tidy, i.ptr => Val(i.name) \in st.nodes
    PROVE  LET t == AddForCall(st, f, i)
           IN  /\ Reads(st, t, i)
               /\ t.ok => \A g \in Reached(i) : CallMet(t.constraints, i, g)
               /\ /\ st.ok /\ Ready(st, i) /\ Obj(i.name) \notin st.nodes
                  /\ \A g \in Functions : IsDefined(g) => SignatureOf(g) \subseteq st.nodes
                  => t.ok
<1> DEFINE g == Named(i.callee[2])
           From(n) == IF i.ptr THEN Add(st, "COPY", Val(i.name), n) ELSE st
           t == AddForCall(st, f, i)
           pointers == {a \in ToSet(i.args) : IsPointer(a)}
           plain == /\ st.ok /\ Ready(st, i) /\ Obj(i.name) \notin st.nodes
                    /\ \A h \in Functions : IsDefined(h) => SignatureOf(h) \subseteq st.nodes
           Goal == Reads(st, t, i) /\ (t.ok => CallMet(t.constraints, i, g)) /\ (plain => t.ok)
<1>1. g \in Functions /\ g.name = i.callee[2] /\ i.callee[1] = "value"
  BY NamedIs DEF IsDirect
<1>2. Reached(i) = {g}
  BY DEF Reached
<1>3. InstructionFits(program, f, i) => IF IsDefined(g) THEN i.ptr => g.ptr ELSE LibraryCallFits(f, i, g)
  BY <1>1 DEF InstructionFits, Functions
<1>4. IF IsDefined(g) THEN i.ptr => g.ptr ELSE LibraryCallFits(f, i, g)
  BY <1>3, InstructionIs
<1>5. t = IF IsDefined(g) THEN AddArguments(From(Ret(g.name)), i, g)
          ELSE IF g.kind # "unknown" THEN AddForLibrary(st, f, i, g)
          ELSE Pollute(From(UniversalPtr), pointers)
  BY DEF AddForCall
<1>6. ASSUME NEW n \in Ends
      PROVE  /\ Grows(st, From(n)) /\ From(n).nodes = st.nodes
             /\ i.ptr => Constraint("COPY", Val(i.name), n) \in From(n).constraints
             /\ st.ok /\ (i.ptr => n \in st.nodes) => From(n).ok
  <2>1. Val(i.name) \in Places /\ i.ptr \in BOOLEAN
    BY InstructionIs, NodesArePlaces
  <2> QED
    BY <2>1, ResultAdded
<1>7. UniversalPtr \in Ends /\ Ret(g.name) \in Ends
  BY <1>1, FunctionIs, NodesArePlaces DEF Ends
<1>8. IsDefined(f)
  <2>1. ToSet(<< >>) = {}
    BY DEF ToSet
  <2> QED
    BY <2>1 DEF IsDefined
<1> SUFFICES Goal
  BY <1>2
<1> HIDE DEF g, t, From, pointers
<1>9. CASE IsDefined(g)
  <2> DEFINE s == From(Ret(g.name))
  <2>1. /\ Grows(st, s) /\ s.nodes = st.nodes
        /\ i.ptr => Constraint("COPY", Val(i.name), Ret(g.name)) \in s.constraints
        /\ st.ok /\ (i.ptr => Ret(g.name) \in st.nodes) => s.ok
    BY <1>6, <1>7
  <2>2. t = AddArguments(s, i, g)
    BY <1>5, <1>9
  <2> HIDE DEF s
  <2>3. s \in Tidy
    BY <2>1 DEF Grows
  <2>4. /\ Grows(s, t) /\ t.nodes = s.nodes
        /\ t.ok => ArgumentsMet(t.constraints, i, g)
        /\ s.ok /\ Ready(s, i) /\ SignatureOf(g) \subseteq s.nodes => t.ok
    BY <1>1, <2>2, <2>3, ArgumentsAdded
  <2>5. Grows(st, t)
    BY <2>1, <2>4, GrowsOn
  <2>6. s.constraints \subseteq t.constraints
    BY <2>4 DEF Grows
  <2>7. t.ok => CallMet(t.constraints, i, g)
    BY <1>9, <2>1, <2>4, <2>6 DEF CallMet
  <2>8. ASSUME plain
        PROVE  t.ok
    <3>1. SignatureOf(g) \subseteq st.nodes
      BY <1>1, <1>9, <2>8
    <3>2. g.ptr => Ret(g.name) \in st.nodes
      BY <3>1 DEF SignatureOf
    <3>3. Ready(s, i)
      BY <2>1, <2>8 DEF Ready
    <3> QED
      BY <1>4, <1>9, <2>1, <2>4, <2>8, <3>1, <3>2, <3>3
  <2> HIDE DEF plain
  <2> QED
    BY <2>1, <2>4, <2>5, <2>7, <2>8 DEF Reads
<1>10. CASE ~IsDefined(g) /\ g.kind # "unknown"
  <2>1. t = AddForLibrary(st, f, i, g)
    BY <1>5, <1>10
  <2>2. /\ Reads(st, t, i)
        /\ t.ok => LibraryMet(t.constraints, i, g)
        /\ /\ st.ok /\ Ready(st, i) /\ SignatureOf(f) \subseteq st.nodes
           /\ IsDirect(i) /\ LibraryCallFits(f, i, g) /\ Obj(i.name) \notin st.nodes
           => t.ok
    BY <1>1, <1>10, <2>1, LibraryAdded
  <2>3. CallMet(t.constraints, i, g) <=> LibraryMet(t.constraints, i, g)
    BY <1>10 DEF CallMet
  <2>4. plain => SignatureOf(f) \subseteq st.nodes
    BY <1>8
  <2> QED
    BY <1>4, <1>10, <2>2, <2>3, <2>4
<1>11. CASE ~IsDefined(g) /\ g.kind = "unknown"
  <2> DEFINE s == From(UniversalPtr)
  <2>1. /\ Grows(st, s) /\ s.nodes = st.nodes
        /\ i.ptr => Constraint("COPY", Val(i.name), UniversalPtr) \in s.constraints
        /\ st.ok /\ (i.ptr => UniversalPtr \in st.nodes) => s.ok
    BY <1>6, <1>7
  <2>2. t = Pollute(s, pointers)
    BY <1>5, <1>11
  <2> HIDE DEF s
  <2>3. s \in Tidy
    BY <2>1 DEF Grows
  <2>4. \A a \in pointers : ValueNodeFor(a) \in Ends
    BY OperandIs DEF pointers
  <2>5. /\ Grows(s, t) /\ t.nodes = s.nodes
        /\ /\ s.ok /\ UniversalPtr \in s.nodes
           /\ \A a \in pointers : ValueNodeFor(a) \in s.nodes
           => t.ok
    BY <2>2, <2>3, <2>4, PolluteAdded
  <2>6. Grows(st, t) /\ s.constraints \subseteq t.constraints
    BY <2>1, <2>5, GrowsOn DEF Grows
  <2>7. CallMet(t.constraints, i, g)
    BY <1>11, <2>1, <2>6 DEF CallMet, LibraryMet
  <2>8. ASSUME plain
        PROVE  t.ok
    BY <2>1, <2>5, <2>8 DEF Ready, pointers
  <2> HIDE DEF plain
  <2> QED
    BY <2>1, <2>5, <2>6, <2>7, <2>8 DEF Reads
<1> QED
  BY <1>9, <1>10, <1>11

\* A call through a pointer: every function that it may reach in turn.
LEMMA IndirectCallAdded ==
    ASSUME program \in Programs, NEW f \in Functions, NEW i \in ToSet(f.body), i.op = "call", ~IsDirect(i),
           NEW st \in Tidy, i.ptr => Val(i.name) \in st.nodes,
           \A x \in FunctionNames : HasAddressTaken(x) => Val(x) \in st.nodes
    PROVE  LET t == AddForCall(st, f, i)
           IN  /\ Reads(st, t, i)
               /\ t.ok => /\ \A g \in Reached(i) : CallMet(t.constraints, i, g)
                          /\ i.ptr => Constraint("COPY", Val(i.name), UniversalPtr) \in t.constraints
<1> DEFINE args == ToSet(i.args)
           Reach(g, s) == IF IsDefined(g) THEN AddArguments(s, i, g)
                          ELSE IF g.kind # "unknown" THEN AddForLibrary(s, f, i, g)
                          ELSE Pollute(s, args)
           base == IF i.ptr THEN Add(st, "COPY", Val(i.name), UniversalPtr) ELSE st
           S == Candidates(st, i)
           A == {s \in Tidy : i.ptr => Val(i.name) \in s.nodes}
           pick == [U \in SUBSET S |-> CHOOSE x \in U : TRUE]
           step == [p \in A \X S |-> Reach(p[2], p[1])]
           Eqn(h) == h = [U \in SUBSET S |->
                             IF U = {} THEN base
                             ELSE Reach(CHOOSE x \in U : TRUE, h[U \ {CHOOSE x \in U : TRUE}])]
           fold == CHOOSE h : Eqn(h)
           WithResult(s) == i.ptr => Constraint("COPY", Val(i.name), UniversalPtr) \in s.constraints
           Reaches(s, U) == s.ok => /\ \A g \in U : CallMet(s.constraints, i, g)
                                    /\ WithResult(s)
           Good == [U \in SUBSET S |-> {s \in A : Reads(st, s, i) /\ Reaches(s, U)}]
           t == AddForCall(st, f, i)
<1>1. t = fold[S]
  BY DEF AddForCall, FoldSet, MapThenFoldSet
<1>2. /\ Picks(S, pick)
      /\ \A U \in SUBSET S : pick[U] = CHOOSE x \in U : TRUE
  BY DEF Picks
<1>3. S \subseteq Functions /\ IsFiniteSet(S)
  BY ProgramIs, FiniteModule, FS_Subset DEF Candidates
<1>4. base \in A /\ Reads(st, base, i) /\ WithResult(base)
  <2>1. Val(i.name) \in Places /\ i.ptr \in BOOLEAN /\ UniversalPtr \in Ends
    BY InstructionIs, NodesArePlaces DEF Ends
  <2>2. /\ Grows(st, base) /\ base.nodes = st.nodes
        /\ i.ptr => Constraint("COPY", Val(i.name), UniversalPtr) \in base.constraints
    BY <2>1, ResultAdded
  <2> HIDE DEF base
  <2> QED
    BY <2>2 DEF Reads, Grows
<1>5. ASSUME NEW s \in A, NEW g \in S
      PROVE  LET u == Reach(g, s)
             IN  /\ Reads(s, u, i) /\ u \in A
                 /\ u.ok /\ WithResult(s) => CallMet(u.constraints, i, g)
  <2> DEFINE u == Reach(g, s)
  <2>1. g \in Functions
    BY <1>3
  <2>2. s \in Tidy /\ (i.ptr => Val(i.name) \in s.nodes)
    OBVIOUS
  <2> SUFFICES Reads(s, u, i) /\ (u.ok /\ WithResult(s) => CallMet(u.constraints, i, g))
    BY <2>2 DEF Reads, Grows
  <2> HIDE DEF S, A
  <2>3. CASE IsDefined(g)
    <3>1. u = AddArguments(s, i, g)
      BY <2>3
    <3> HIDE DEF u
    <3>2. /\ Grows(s, u) /\ u.nodes = s.nodes
          /\ u.ok => ArgumentsMet(u.constraints, i, g)
      BY <2>1, <2>2, <3>1, ArgumentsAdded
    <3> QED
      BY <2>3, <3>2 DEF Reads, CallMet
  <2>4. CASE ~IsDefined(g) /\ g.kind # "unknown"
    <3>1. u = AddForLibrary(s, f, i, g)
      BY <2>4
    <3> HIDE DEF u
    <3>2. Reads(s, u, i) /\ (u.ok => LibraryMet(u.constraints, i, g))
      BY <2>1, <2>2, <2>4, <3>1, LibraryAdded
    <3> QED
      BY <2>4, <3>2 DEF CallMet
  <2>5. CASE ~IsDefined(g) /\ g.kind = "unknown"
    <3>1. u = Pollute(s, args)
      BY <2>5
    <3>2. \A a \in args : ValueNodeFor(a) \in Ends
      BY OperandIs
    <3> HIDE DEF u, args
    <3>3. Grows(s, u) /\ u.nodes = s.nodes
      BY <2>2, <3>1, <3>2, PolluteAdded
    <3>4. s.constraints \subseteq u.constraints
      BY <3>3 DEF Grows
    <3> QED
      BY <2>5, <3>3, <3>4 DEF Reads, CallMet, LibraryMet
  <2> QED
    BY <2>3, <2>4, <2>5
<1>6. /\ step \in [A \X S -> A]
      /\ \A s \in A, g \in S : step[<<s, g>>] = Reach(g, s)
  <2> HIDE DEF A, S, Reach, WithResult
  <2> QED
    BY <1>5
<1> HIDE DEF pick, step, Reach, base
<1>7. Eqn(fold)
  <2> HIDE DEF A, S, Good, WithResult
  <2>1. CanFold(S, pick, A, base, step)
    BY <1>2, <1>3, <1>4, <1>6 DEF CanFold
  <2>2. PICK h : FoldsTo(S, pick, A, base, step, h)
    BY <2>1, FoldExists
  <2>3. ASSUME NEW U \in SUBSET S, U # {}
        PROVE  h[U] = Reach(pick[U], h[U \ {pick[U]}])
    BY <1>2, <1>6, <2>2, <2>3 DEF FoldsTo, Picks
  <2>4. Eqn(h)
    <3>1. \A U \in SUBSET S : h[U] = IF U = {} THEN base ELSE Reach(pick[U], h[U \ {pick[U]}])
      BY <2>2, <2>3 DEF FoldsTo
    <3>2. \A U \in SUBSET S : h[U] = IF U = {} THEN base
                ELSE Reach(CHOOSE x \in U : TRUE, h[U \ {CHOOSE x \in U : TRUE}])
      BY <1>2, <3>1
    <3>3. h \in [SUBSET S -> A]
      BY <2>2 DEF FoldsTo
    <3> QED
      BY <3>2, <3>3
  <2> HIDE DEF Eqn
  <2> QED
    BY <2>4
<1>8. /\ fold[{}] = base
      /\ \A U \in SUBSET S : U # {} => fold[U] = Reach(pick[U], fold[U \ {pick[U]}])
  <2> HIDE DEF S, Good, WithResult, fold
  <2>1. \A U \in SUBSET S : fold[U] = IF U = {} THEN base
              ELSE Reach(CHOOSE x \in U : TRUE, fold[U \ {CHOOSE x \in U : TRUE}])
    BY <1>7
  <2>2. \A U \in SUBSET S : fold[U] = IF U = {} THEN base ELSE Reach(pick[U], fold[U \ {pick[U]}])
    BY ZenonT(30), <1>2, <2>1
  <2> QED
    BY <2>2
<1> HIDE DEF fold, Eqn
<1>9. fold[{}] \in Good[{}]
  BY <1>4, <1>8
<1>10. ASSUME NEW U \in SUBSET S, U # {}, fold[U \ {pick[U]}] \in Good[U \ {pick[U]}]
       PROVE  fold[U] \in Good[U]
  <2> DEFINE g == pick[U]
             s == fold[U \ {g}]
             u == Reach(g, s)
  <2>1. g \in U /\ fold[U] = u
    BY <1>2, <1>8, <1>10 DEF Picks
  <2>2. s \in A /\ Reads(st, s, i) /\ Reaches(s, U \ {g})
    BY <1>10
  <2> HIDE DEF s, g
  <2>3. /\ Reads(s, u, i) /\ u \in A
        /\ u.ok /\ WithResult(s) => CallMet(u.constraints, i, g)
    BY <1>5, <2>1, <2>2
  <2> HIDE DEF u, A, S
  <2>4. s.constraints \subseteq u.constraints /\ (u.ok => s.ok)
    BY <2>3 DEF Reads, Grows
  <2>5. Reads(st, u, i)
    BY <2>2, <2>3, GrowsOn DEF Reads
  <2>6. ASSUME u.ok
        PROVE  WithResult(u) /\ \A h \in U : CallMet(u.constraints, i, h)
    <3>1. s.ok /\ WithResult(s) /\ \A h \in U \ {g} : CallMet(s.constraints, i, h)
      BY <2>2, <2>4, <2>6
    <3>2. CallMet(u.constraints, i, g)
      BY <2>3, <2>6, <3>1
    <3>3. \A h \in U \ {g} : CallMet(u.constraints, i, h)
      BY <2>4, <3>1, MetGrows
    <3> QED
      BY <2>4, <3>1, <3>2, <3>3
  <2>7. u \in A /\ Reads(st, u, i) /\ Reaches(u, U)
    BY <2>3, <2>5, <2>6
  <2> HIDE DEF Reaches
  <2> QED
    BY <2>1, <2>7
<1>11. fold[S] \in Good[S]
  <2> HIDE DEF Good, S
  <2> QED
    BY <1>2, <1>3, <1>9, <1>10, FoldKeeps
<1>12. Reached(i) \subseteq S
  <2>1. \A g \in Functions : HasAddressTaken(g.name) => Val(g.name) \in st.nodes
    BY ProgramIs
  <2> QED
    BY <2>1 DEF Reached, Candidates
<1> HIDE DEF t, S
<1> QED
  BY <1>1, <1>11, <1>12 DEF t

\* What the code does not take: calls through pointers, what it says is not implemented, and
\* the variable arguments of another function.
Taken(f, i) ==
    /\ i.op = "call" => IsDirect(i)
    /\ i.op \notin {"atomicrmw", "other"}
    /\ i.op = "va_arg" => f.vararg

LEMMA InstructionCollected ==
    ASSUME program \in Programs, NEW f \in Functions, NEW i \in ToSet(f.body),
           NEW st \in Tidy, i.ptr => Val(i.name) \in st.nodes,
           \A x \in FunctionNames : HasAddressTaken(x) => Val(x) \in st.nodes
    PROVE  LET t == CollectFor(st, f, i)
           IN  /\ Reads(st, t, i)
               /\ t.ok => Met(t.constraints, f, i)
               /\ /\ st.ok /\ Ready(st, i) /\ Taken(f, i)
                  /\ HasName(i) => Obj(i.name) \notin st.nodes
                  /\ \A g \in Functions : IsDefined(g) => SignatureOf(g) \subseteq st.nodes
                  => t.ok
<1> DEFINE result == Val(i.name)
           object == Obj(i.name)
           Arg(k) == ValueNodeFor(i.args[k])
           whole == IF i.args[1][1] = "int" THEN UniversalPtr ELSE Val(i.args[1][2])
           sources == {ValueNodeFor(a) : a \in ToSet(i.args)}
           Copies == {"getelementptr", "phi", "bitcast", "select"}
           t == CollectFor(st, f, i)
           plain == /\ st.ok /\ Ready(st, i) /\ Taken(f, i)
                    /\ HasName(i) => Obj(i.name) \notin st.nodes
                    /\ \A g \in Functions : IsDefined(g) => SignatureOf(g) \subseteq st.nodes
           Goal == Reads(st, t, i) /\ (t.ok => Met(t.constraints, f, i)) /\ (plain => t.ok)
           Takes(k) == k \in DOMAIN i.args /\ IsPointer(i.args[k])
<1>1. /\ InstructionFits(program, f, i) /\ i.ptr \in BOOLEAN /\ i.name \in Names
      /\ i.args \in Seq(Operands)
      /\ \A k \in DOMAIN i.args : i.args[k] \in ToSet(i.args)
  BY InstructionIs
<1>2. /\ i.op = "alloca" => i.ptr
      /\ i.op = "ret" => (i.args # << >> /\ IsPointer(i.args[1]) => f.ptr)
      /\ i.op = "load" => Takes(1)
      /\ i.op = "store" => 1 \in DOMAIN i.args /\ Takes(2)
      /\ i.op \in Copies => (i.ptr => \A a \in ToSet(i.args) : IsPointer(a))
      /\ i.op = "inttoptr" => i.ptr /\ Len(i.args) = 1 /\ ~IsPointer(i.args[1])
  <2> USE <1>1
  <2>1. CASE i.op = "alloca"
    BY <2>1 DEF InstructionFits
  <2>2. CASE i.op = "ret"
    BY <2>2 DEF InstructionFits
  <2>3. CASE i.op = "load"
    BY <2>3 DEF InstructionFits
  <2>4. CASE i.op = "store"
    BY <2>4 DEF InstructionFits
  <2>5. CASE i.op \in Copies
    BY <2>5 DEF InstructionFits
  <2>6. CASE i.op = "inttoptr"
    BY <2>6 DEF InstructionFits
  <2> QED
    BY <2>1, <2>2, <2>3, <2>4, <2>5, <2>6
<1>3. /\ result \in Ends /\ result \in Places /\ object \in Ends /\ object \in Places
      /\ UniversalPtr \in Ends /\ Ret(f.name) \in Ends /\ Vararg(f.name) \in Ends
      /\ "ADDR_OF" \in Types /\ "COPY" \in Types /\ "LOAD" \in Types /\ "STORE" \in Types
  BY <1>1, FunctionIs, NodesArePlaces DEF Ends, Types
<1>4. \A k \in DOMAIN i.args : Arg(k) \in Ends
  BY <1>1, OperandIs
<1>5. sources \in SUBSET Ends
  BY OperandIs
<1>6. \A k : Takes(k) /\ plain => Arg(k) \in st.nodes
  BY <1>1 DEF Ready
<1>7. Grows(st, st)
  BY DEF Grows
<1>8. IsDefined(f)
  <2>1. ToSet(<< >>) = {}
    BY DEF ToSet
  <2> QED
    BY <2>1 DEF IsDefined
<1>9. plain => /\ i.ptr => result \in st.nodes
               /\ f.ptr => Ret(f.name) \in st.nodes
               /\ f.vararg => Vararg(f.name) \in st.nodes
               /\ UniversalPtr \in st.nodes
               /\ HasName(i) => object \notin st.nodes
               /\ Taken(f, i) /\ st.ok
  BY <1>8 DEF Ready, SignatureOf
<1>10. ASSUME NEW type \in Types, NEW d \in Ends, NEW s \in Ends, t = Add(st, type, d, s)
       PROVE  /\ Reads(st, t, i)
              /\ Constraint(type, d, s) \in t.constraints
              /\ t.ok <=> st.ok /\ d \in st.nodes /\ s \in st.nodes
  <2> HIDE DEF t
  <2>1. Added(st, t, type, d, s)
    BY <1>10, AddIs
  <2> QED
    BY <2>1 DEF Added, Reads
<1> SUFFICES Goal
  OBVIOUS
<1>11. CASE i.op = "alloca"
  <2> DEFINE s == Create(st, object)
  <2>1. Grows(st, s) /\ s.nodes = st.nodes \cup {object} /\ (s.ok <=> st.ok /\ object \notin st.nodes)
    BY <1>3, CreateAllIs DEF Create
  <2>2. s \in Tidy
    BY <2>1 DEF Grows
  <2>3. t = Add(s, "ADDR_OF", result, object)
    BY <1>11 DEF CollectFor
  <2> HIDE DEF s, t
  <2>4. Added(s, t, "ADDR_OF", result, object)
    BY <1>3, <2>2, <2>3, AddIs
  <2> HIDE DEF object, result
  <2>5. /\ Grows(s, t) /\ t.nodes = s.nodes /\ Constraint("ADDR_OF", result, object) \in t.constraints
        /\ t.ok <=> s.ok /\ result \in s.nodes /\ object \in s.nodes
    BY <2>4 DEF Added
  <2>6. Reads(st, t, i)
    BY <1>11, <2>1, <2>5, GrowsOn DEF Reads, Made, object
  <2>7. Met(t.constraints, f, i)
    BY <1>11, <2>5 DEF Met, result, object
  <2>8. plain => t.ok
    <3>1. HasName(i) /\ i.ptr
      BY <1>2, <1>11 DEF HasName
    <3> HIDE DEF plain
    <3> QED
      BY <1>9, <2>1, <2>5, <3>1
  <2> QED
    BY <2>6, <2>7, <2>8
<1>12. CASE i.op = "call"
  <2>1. t = AddForCall(st, f, i)
    BY <1>12 DEF CollectFor
  <2> HIDE DEF t
  <2>2. HasName(i)
    BY <1>12 DEF HasName
  <2>3. \A C : /\ \A g \in Reached(i) : CallMet(C, i, g)
               /\ i.ptr /\ ~IsDirect(i) => Constraint("COPY", Val(i.name), UniversalPtr) \in C
               => Met(C, f, i)
    BY <1>12 DEF Met
  <2>4. CASE IsDirect(i)
    <3>1. /\ Reads(st, t, i)
          /\ t.ok => \A g \in Reached(i) : CallMet(t.constraints, i, g)
          /\ /\ st.ok /\ Ready(st, i) /\ Obj(i.name) \notin st.nodes
             /\ \A g \in Functions : IsDefined(g) => SignatureOf(g) \subseteq st.nodes
             => t.ok
      BY <1>12, <2>1, <2>4, DirectCallAdded
    <3> QED
      BY <2>2, <2>3, <2>4, <3>1
  <2>5. CASE ~IsDirect(i)
    <3>1. /\ Reads(st, t, i)
          /\ t.ok => /\ \A g \in Reached(i) : CallMet(t.constraints, i, g)
                     /\ i.ptr => Constraint("COPY", Val(i.name), UniversalPtr) \in t.constraints
      BY <1>12, <2>1, <2>5, IndirectCallAdded
    <3>2. ~plain
      BY <1>12, <2>5 DEF Taken
    <3> QED
      BY <2>3, <3>1, <3>2
  <2> QED
    BY <2>4, <2>5
<1> HIDE DEF plain, Takes
<1>13. CASE i.op = "ret" /\ i.args # << >> /\ IsPointer(i.args[1])
  <2>1. t = Add(st, "COPY", Ret(f.name), Arg(1))
    BY <1>13 DEF CollectFor
  <2>2. 1 \in DOMAIN i.args
    BY <1>1, <1>13
  <2> HIDE DEF t, Arg
  <2>3. /\ Reads(st, t, i)
        /\ Constraint("COPY", Ret(f.name), Arg(1)) \in t.constraints
        /\ t.ok <=> st.ok /\ Ret(f.name) \in st.nodes /\ Arg(1) \in st.nodes
    BY <1>3, <1>4, <1>10, <2>1, <2>2
  <2>4. Met(t.constraints, f, i)
    BY <1>13, <2>3 DEF Met, Arg
  <2>5. plain => t.ok
    BY <1>2, <1>6, <1>9, <1>13, <2>2, <2>3 DEF Takes
  <2> QED
    BY <2>3, <2>4, <2>5
<1>14. CASE i.op = "load" /\ i.ptr
  <2>1. t = Add(st, "LOAD", result, Arg(1))
    BY <1>14 DEF CollectFor
  <2>2. Takes(1) /\ 1 \in DOMAIN i.args
    BY <1>2, <1>14 DEF Takes
  <2> HIDE DEF t, Arg, result
  <2>3. /\ Reads(st, t, i)
        /\ Constraint("LOAD", result, Arg(1)) \in t.constraints
        /\ t.ok <=> st.ok /\ result \in st.nodes /\ Arg(1) \in st.nodes
    BY <1>3, <1>4, <1>10, <2>1, <2>2
  <2>4. Met(t.constraints, f, i)
    BY <1>14, <2>3 DEF Met, Arg, result
  <2>5. plain => t.ok
    BY <1>6, <1>9, <1>14, <2>2, <2>3
  <2> QED
    BY <2>3, <2>4, <2>5
<1>15. CASE i.op = "store" /\ IsPointer(i.args[1])
  <2>1. t = Add(st, "STORE", Arg(2), Arg(1))
    BY <1>15 DEF CollectFor
  <2>2. Takes(1) /\ Takes(2) /\ 1 \in DOMAIN i.args /\ 2 \in DOMAIN i.args
    BY <1>2, <1>15 DEF Takes
  <2> HIDE DEF t, Arg
  <2>3. /\ Reads(st, t, i)
        /\ Constraint("STORE", Arg(2), Arg(1)) \in t.constraints
        /\ t.ok <=> st.ok /\ Arg(2) \in st.nodes /\ Arg(1) \in st.nodes
    BY <1>3, <1>4, <1>10, <2>1, <2>2
  <2>4. Met(t.constraints, f, i)
    BY <1>15, <2>3 DEF Met, Arg
  <2>5. plain => t.ok
    BY <1>6, <1>9, <2>2, <2>3
  <2> QED
    BY <2>3, <2>4, <2>5
<1>16. CASE i.op \in Copies /\ i.ptr
  <2>1. t = CopyAll(st, result, sources)
    BY <1>16 DEF CollectFor
  <2> HIDE DEF t, sources, result
  <2>2. /\ Grows(st, t) /\ t.nodes = st.nodes
        /\ \A n \in sources : Constraint("COPY", result, n) \in t.constraints
        /\ t.ok <=> st.ok /\ (sources # {} => result \in st.nodes) /\ sources \subseteq st.nodes
    BY <1>3, <1>5, <2>1, CopyAllIs
  <2>3. Met(t.constraints, f, i)
    BY <1>16, <2>2 DEF Met, result, sources
  <2>4. plain => sources \subseteq st.nodes
    BY <1>2, <1>16 DEF plain, Ready, sources
  <2>5. plain => t.ok
    BY <1>9, <1>16, <2>2, <2>4
  <2> QED
    BY <2>2, <2>3, <2>5 DEF Reads
<1>17. CASE i.op = "inttoptr"
  <2>1. t = Add(st, "COPY", result, whole)
    BY <1>17 DEF CollectFor
  <2>2. i.args[1] \in ToSet(i.args) /\ i.args[1][1] \in IntegerKinds
    BY <1>1, <1>2, <1>17 DEF IsPointer
  <2>3. i.args[1][1] # "int" => i.args[1][1] \in {"ptrtoint", "ptrtoint+"} /\ Val(i.args[1][2]) \in Ends
    <3>1. ASSUME i.args[1][1] \in {"ptrtoint", "ptrtoint+"}
          PROVE  i.args[1][2] \in Known \cup Pointers(f)
      BY <2>2, <3>1, OperandIs
    <3>2. Known \cup Pointers(f) \subseteq Names
      BY FunctionIs DEF Known, Pointers, Names
    <3> QED
      BY <2>2, <3>1, <3>2, NodesArePlaces DEF IntegerKinds, Ends
  <2>4. whole \in Ends
    BY <1>3, <2>3
  <2>5. plain => whole \in st.nodes
    BY <1>9, <2>2, <2>3 DEF plain, Ready
  <2> HIDE DEF t, whole, result
  <2>6. /\ Reads(st, t, i)
        /\ Constraint("COPY", result, whole) \in t.constraints
        /\ t.ok <=> st.ok /\ result \in st.nodes /\ whole \in st.nodes
    BY <1>3, <1>10, <2>1, <2>4
  <2>7. Met(t.constraints, f, i)
    BY <1>17, <2>6 DEF Met, whole, result
  <2>8. plain => t.ok
    BY <1>2, <1>9, <1>17, <2>5, <2>6
  <2> QED
    BY <2>6, <2>7, <2>8
<1>18. CASE i.op = "va_arg" /\ i.ptr
  <2>1. t = Add(st, "COPY", result, Vararg(f.name))
    BY <1>18 DEF CollectFor
  <2> HIDE DEF t, result
  <2>2. /\ Reads(st, t, i)
        /\ Constraint("COPY", result, Vararg(f.name)) \in t.constraints
        /\ t.ok <=> st.ok /\ result \in st.nodes /\ Vararg(f.name) \in st.nodes
    BY <1>3, <1>10, <2>1
  <2>3. Met(t.constraints, f, i)
    BY <1>18, <2>2 DEF Met, result
  <2>4. plain => t.ok
    BY <1>9, <1>18, <2>2 DEF Taken
  <2> QED
    BY <2>2, <2>3, <2>4
<1>19. CASE i.op = "atomicrmw" \/ (i.op = "other" /\ i.ptr)
  <2>1. t = Abort(st)
    BY <1>19 DEF CollectFor
  <2> HIDE DEF t
  <2>2. Grows(st, t) /\ t.nodes = st.nodes /\ ~t.ok
    BY <2>1, AbortIs
  <2>3. ~plain
    BY <1>19 DEF plain, Taken
  <2> QED
    BY <2>2, <2>3 DEF Reads
<1>20. CASE /\ i.op \notin {"alloca", "call", "inttoptr", "atomicrmw"}
            /\ ~(i.op = "ret" /\ i.args # << >> /\ IsPointer(i.args[1]))
            /\ ~(i.op = "load" /\ i.ptr) /\ ~(i.op = "store" /\ IsPointer(i.args[1]))
            /\ ~(i.op \in Copies /\ i.ptr) /\ ~(i.op = "va_arg" /\ i.ptr) /\ ~(i.op = "other" /\ i.ptr)
  <2>1. t = st
    BY <1>20 DEF CollectFor
  <2>2. Met(t.constraints, f, i)
    <3> HIDE DEF t
    <3> QED
      BY <1>20 DEF Met
  <2> HIDE DEF t
  <2> QED
    BY <1>7, <1>9, <2>1, <2>2 DEF Reads
<1> QED
  BY <1>11, <1>12, <1>13, <1>14, <1>15, <1>16, <1>17, <1>18, <1>19, <1>20

-----------------------------------------------------------------------------
(* What the globals and the signatures of the functions ask for.               *)

\* An undefined pointer in a global.
Undefined == \E g \in ToSet(program.globals) : \E c \in ToSet(g.init.leaves) : c[1] = "undef"

LEMMA InitializerIs ==
    ASSUME program \in Programs, NEW g \in ToSet(program.globals)
    PROVE  /\ InitializerOf(g) \in SUBSET ConstraintsOver(Ends)
           /\ ~Undefined => \A N : {UniversalObj, NullObject} \cup Addresses \subseteq N =>
                InitializerOf(g) \subseteq ConstraintsOver(N)
<1> DEFINE leaves == {c \in ToSet(g.init.leaves) : IsPointer(c)}
<1>1. g \in GlobalRecords /\ g.name \in Known
  BY ProgramIs DEF Known
<1>2. g.init.leaves \in Seq(Operands) /\ g.init.shape \in {"none", "zero", "leaves"}
  BY <1>1 DEF GlobalRecords
<1>3. ToSet(g.init.leaves) \subseteq Operands
  BY <1>2, FiniteRange
<1>4. Known \subseteq Names
  BY DEF Known, Names
<1>5. \A x \in Known : Obj(x) \in Ends /\ Obj(x) \in Addresses
  BY <1>4, NodesArePlaces DEF Ends, Addresses
<1>6. UniversalObj \in Ends /\ NullObject \in Ends
  BY NodesArePlaces DEF Ends
<1>7. ASSUME NEW c \in leaves
      PROVE  /\ ObjectNodeFor(c) \in Ends
             /\ c[1] # "undef" => ObjectNodeFor(c) \in {UniversalObj, NullObject} \cup Addresses
  <2>1. c[1] \in {"value", "gep", "bitcast", "null", "undef", "inttoptr"}
    BY <1>3 DEF Operands, OperandKinds, IsPointer, IntegerKinds
  <2>2. CASE c[1] \in {"value", "gep", "bitcast"}
    <3>1. c[2] \in Globals \cup FunctionNames
      BY <2>2, ProgramIs DEF WellFormed, OperandsAreKnown, Globals, FunctionNames
    <3>2. HasAddressTaken(c[2])
      BY DEF HasAddressTaken
    <3>3. c[2] \in Known
      BY <3>1, <3>2 DEF Known
    <3>4. ObjectNodeFor(c) = Obj(c[2])
      BY <2>2 DEF ObjectNodeFor
    <3> QED
      BY <1>5, <3>3, <3>4
  <2>3. CASE c[1] = "null"
    BY <1>6, <2>3 DEF ObjectNodeFor
  <2>4. CASE c[1] = "undef"
    BY <2>4 DEF ObjectNodeFor, Ends
  <2>5. CASE c[1] = "inttoptr"
    BY <1>6, <2>5 DEF ObjectNodeFor
  <2> QED
    BY <2>1, <2>2, <2>3, <2>4, <2>5
<1>8. CASE g.init.shape \in {"none", "zero"}
  <2>1. \A N : {UniversalObj, NullObject, Obj(g.name)} \subseteq N => InitializerOf(g) \subseteq ConstraintsOver(N)
    BY <1>8, ConstraintIs DEF InitializerOf, Types
  <2> QED
    BY <1>1, <1>5, <1>6, <2>1
<1>9. CASE g.init.shape = "leaves"
  <2>1. InitializerOf(g) = {Constraint("ADDR_OF", Obj(g.name), ObjectNodeFor(c)) : c \in leaves}
    BY <1>9 DEF InitializerOf
  <2>2. \A N : /\ Obj(g.name) \in N
               /\ \A c \in leaves : ObjectNodeFor(c) \in N
               => InitializerOf(g) \subseteq ConstraintsOver(N)
    BY <2>1, ConstraintIs DEF Types
  <2>3. ~Undefined => \A c \in leaves : c[1] # "undef"
    BY DEF Undefined
  <2>4. InitializerOf(g) \subseteq ConstraintsOver(Ends)
    BY <1>1, <1>5, <1>7, <2>2
  <2>5. ASSUME ~Undefined, NEW N, {UniversalObj, NullObject} \cup Addresses \subseteq N
        PROVE  InitializerOf(g) \subseteq ConstraintsOver(N)
    <3>1. Obj(g.name) \in N
      BY <1>1, <1>5, <2>5
    <3>2. \A c \in leaves : ObjectNodeFor(c) \in N
      BY <1>7, <2>3, <2>5
    <3> QED
      BY <2>2, <3>1, <3>2
  <2> QED
    BY <2>4, <2>5
<1> QED
  BY <1>2, <1>8, <1>9

LEMMA AddressAdded ==
    ASSUME NEW st \in Tidy, NEW names \in SUBSET Names
    PROVE  LET t == Address(st, names)
               new == {Val(x) : x \in names} \cup {Obj(x) : x \in names}
           IN  /\ Grows(st, t) /\ t.nodes = st.nodes \cup new
               /\ \A x \in names : Constraint("ADDR_OF", Val(x), Obj(x)) \in t.constraints
               /\ t.ok <=> st.ok /\ new \cap st.nodes = {}
<1> DEFINE new == {Val(x) : x \in names} \cup {Obj(x) : x \in names}
           C == {Constraint("ADDR_OF", Val(x), Obj(x)) : x \in names}
           s == CreateAll(st, new)
           t == Address(st, names)
<1>1. new \in SUBSET Places /\ \A x \in names : Val(x) \in new /\ Obj(x) \in new
  BY NodesArePlaces
<1>2. \A N : new \subseteq N => C \subseteq ConstraintsOver(N)
  BY ConstraintIs DEF Types
<1>3. \A x \in names : Constraint("ADDR_OF", Val(x), Obj(x)) \in C
  OBVIOUS
<1>4. t = AddAll(s, C)
  BY DEF Address
<1> HIDE DEF new, C, t
<1>5. /\ Grows(st, s) /\ s.nodes = st.nodes \cup new
      /\ s.ok <=> st.ok /\ new \cap st.nodes = {}
  BY <1>1, CreateAllIs
<1>6. s \in Tidy
  BY <1>5 DEF Grows
<1> HIDE DEF s
<1>7. C \in SUBSET ConstraintsOver(Ends) /\ C \subseteq ConstraintsOver(s.nodes)
  BY <1>1, <1>2, <1>5 DEF Ends
<1>8. /\ Grows(s, t) /\ t.nodes = s.nodes /\ t.constraints = s.constraints \cup C /\ (t.ok <=> s.ok)
  BY <1>4, <1>6, <1>7, AddAllIs
<1>9. Grows(st, t)
  BY <1>5, <1>8, GrowsOn
<1> QED
  BY <1>3, <1>5, <1>8, <1>9 DEF new, t

LEMMA SignaturesArePlaces ==
    ASSUME program \in Programs
    PROVE  Signatures \subseteq Places
<1>1. ASSUME NEW f \in Functions
      PROVE  SignatureOf(f) \subseteq Places
  BY FunctionIs, NodesArePlaces DEF SignatureOf
<1> QED
  BY <1>1 DEF Signatures

LEMMA GlobalsCollected ==
    ASSUME program \in Programs, NEW st \in Tidy
    PROVE  LET t == CollectForGlobals(st)
           IN  /\ Grows(st, t) /\ t.nodes = st.nodes \cup Addresses \cup Signatures
               /\ \A x \in Known : Constraint("ADDR_OF", Val(x), Obj(x)) \in t.constraints
               /\ \A g \in ToSet(program.globals) : InitializerOf(g) \subseteq t.constraints
               /\ /\ st.ok /\ st.nodes = Special
                  /\ ~Undefined
                  => t.ok
<1> DEFINE F == {x \in FunctionNames : HasAddressTaken(x)}
           NodesOf(X) == {Val(x) : x \in X} \cup {Obj(x) : x \in X}
           C == UNION {InitializerOf(g) : g \in ToSet(program.globals)}
           s == Address(st, Globals)
           u == Address(s, F)
           v == CreateAll(u, Signatures)
           t == CollectForGlobals(st)
<1>1. Globals \in SUBSET Names /\ F \in SUBSET Names /\ Known = Globals \cup F
  BY DEF Names, Known
<1>2. t = AddAll(v, C)
  BY DEF CollectForGlobals, Signatures
<1>3. NodesOf(Globals) \cup NodesOf(F) = Addresses
  BY <1>1 DEF Addresses
<1>4. C \in SUBSET ConstraintsOver(Ends)
  BY InitializerIs
<1>5. \A g \in ToSet(program.globals) : InitializerOf(g) \subseteq C
  OBVIOUS
<1>6. ~Undefined => \A N : {UniversalObj, NullObject} \cup Addresses \subseteq N => C \subseteq ConstraintsOver(N)
  BY InitializerIs
<1> HIDE DEF C, t
<1>7. /\ Grows(st, s) /\ s.nodes = st.nodes \cup NodesOf(Globals)
      /\ \A x \in Globals : Constraint("ADDR_OF", Val(x), Obj(x)) \in s.constraints
      /\ s.ok <=> st.ok /\ NodesOf(Globals) \cap st.nodes = {}
  BY <1>1, AddressAdded
<1>8. s \in Tidy
  BY <1>7 DEF Grows
<1> HIDE DEF s
<1>9. /\ Grows(s, u) /\ u.nodes = s.nodes \cup NodesOf(F)
      /\ \A x \in F : Constraint("ADDR_OF", Val(x), Obj(x)) \in u.constraints
      /\ u.ok <=> s.ok /\ NodesOf(F) \cap s.nodes = {}
  <2> HIDE DEF F
  <2> QED
    BY <1>1, <1>8, AddressAdded
<1>10. u \in Tidy
  BY <1>9 DEF Grows
<1> HIDE DEF u
<1>11. /\ Grows(u, v) /\ v.nodes = u.nodes \cup Signatures
       /\ v.ok <=> u.ok /\ Signatures \cap u.nodes = {}
  BY <1>10, SignaturesArePlaces, CreateAllIs
<1>12. v \in Tidy
  BY <1>11 DEF Grows
<1> HIDE DEF v, NodesOf, F
<1>13. /\ Grows(v, t) /\ t.nodes = v.nodes /\ t.constraints = v.constraints \cup C
       /\ t.ok <=> v.ok /\ C \subseteq ConstraintsOver(v.nodes)
  BY <1>2, <1>4, <1>12, AddAllIs
<1>14. Grows(st, t) /\ Grows(s, t) /\ Grows(u, t)
  BY <1>7, <1>9, <1>11, <1>13, GrowsOn
<1>15. t.nodes = st.nodes \cup Addresses \cup Signatures
  BY <1>3, <1>7, <1>9, <1>11, <1>13
<1>16. \A x \in Known : Constraint("ADDR_OF", Val(x), Obj(x)) \in t.constraints
  BY <1>1, <1>7, <1>9, <1>14 DEF Grows
<1>17. \A g \in ToSet(program.globals) : InitializerOf(g) \subseteq t.constraints
  BY <1>5, <1>13
<1>18. ASSUME st.ok, st.nodes = Special, ~Undefined
       PROVE  t.ok
  <2>1. NamesAreUnique(program)
    BY ProgramIs DEF WellFormed
  <2>2. /\ Globals \cap FunctionNames = {}
        /\ (Globals \cup FunctionNames) \cap {"universal", "null"} = {}
        /\ \A f \in Functions : Values(f) \cap (Globals \cup FunctionNames \cup {"universal", "null"}) = {}
    BY <2>1 DEF NamesAreUnique, Globals, FunctionNames, Functions
  <2>3. \A x \in Globals \cup FunctionNames : Val(x) \notin st.nodes /\ Obj(x) \notin st.nodes
    BY <1>18, <2>2, NodesDiffer DEF Special, UniversalPtr, UniversalObj, NullPtr, NullObject
  <2>4. NodesOf(Globals) \cap st.nodes = {}
    BY <2>3 DEF NodesOf
  <2>5. NodesOf(F) \cap st.nodes = {} /\ NodesOf(F) \cap NodesOf(Globals) = {}
    BY <2>2, <2>3, NodesDiffer DEF NodesOf, F
  <2>6. ASSUME NEW n \in Signatures
        PROVE  n \notin u.nodes
    <3>1. PICK f \in Functions : n \in SignatureOf(f)
      BY DEF Signatures
    <3>2. PICK x : \/ n = Ret(x) \/ n = Vararg(x)
                   \/ n = Val(x) /\ x \in Values(f)
      BY <3>1 DEF SignatureOf, Values
    <3>3. \A y \in Values(f) : y \notin Globals \cup FunctionNames \cup {"universal", "null"}
      BY <2>2
    <3>4. n \notin st.nodes
      BY <1>18, <3>2, <3>3, NodesDiffer DEF Special, UniversalPtr, UniversalObj, NullPtr, NullObject
    <3>5. n \notin Addresses
      BY <3>2, <3>3, NodesDiffer DEF Addresses, Known
    <3> QED
      BY <1>3, <1>7, <1>9, <3>4, <3>5
  <2>7. v.ok
    BY <1>7, <1>9, <1>11, <1>18, <2>4, <2>5, <2>6
  <2>8. {UniversalObj, NullObject} \cup Addresses \subseteq v.nodes
    BY <1>3, <1>7, <1>9, <1>11, <1>18 DEF Special
  <2> QED
    BY <1>6, <1>13, <1>18, <2>7, <2>8
<1> QED
  BY <1>14, <1>15, <1>16, <1>17, <1>18 DEF t

-----------------------------------------------------------------------------
(* What has been collected stays in order from step to step.                   *)

\* What depends on nothing but the program.
LEMMA SameProgram ==
    ASSUME program' = program
    PROVE  /\ Functions' = Functions /\ FunctionNames' = FunctionNames /\ Globals' = Globals
           /\ Known' = Known /\ Places' = Places /\ Special' = Special
           /\ Addresses' = Addresses /\ Signatures' = Signatures
           /\ \A x : HasAddressTaken(x)' <=> HasAddressTaken(x)
           /\ \A i : IsDirect(i)' <=> IsDirect(i)
           /\ \A x : Named(x)' = Named(x)
           /\ \A k : Body(k)' = Body(k)
           /\ \A C, f, i : Met(C, f, i)' <=> Met(C, f, i)
           /\ \A C : AddressesMet(C)' <=> AddressesMet(C)
<1>1. Functions' = Functions /\ FunctionNames' = FunctionNames /\ Globals' = Globals
  BY DEF Functions, FunctionNames, Globals
<1>2. Instructions' = Instructions
  BY <1>1 DEF Instructions
<1>3. \A x : HasAddressTaken(x)' <=> HasAddressTaken(x)
  BY <1>2 DEF HasAddressTaken
<1>4. Known' = Known
  BY <1>1, <1>3 DEF Known
<1>5. Names' = Names
  BY <1>1 DEF Names
<1>6. Places' = Places /\ Special' = Special
  BY <1>5 DEF Places, Special
<1>7. Addresses' = Addresses /\ Signatures' = Signatures
  BY <1>1, <1>4 DEF Addresses, Signatures
<1>8. \A i : IsDirect(i)' <=> IsDirect(i)
  BY <1>1 DEF IsDirect
<1>9. \A x : Named(x)' = Named(x)
  BY <1>1 DEF Named
<1>10. \A k : Body(k)' = Body(k)
  BY DEF Body
<1>11. \A C, i, f : CallMet(C, i, f)' <=> CallMet(C, i, f)
  BY <1>8 DEF CallMet
<1>12. \A i : Reached(i)' = Reached(i)
  BY <1>1, <1>3, <1>8, <1>9 DEF Reached
<1>13. \A C, f, i : Met(C, f, i)' <=> Met(C, f, i)
  BY <1>8, <1>11, <1>12 DEF Met
<1>14. \A C : AddressesMet(C)' <=> AddressesMet(C)
  BY <1>4 DEF AddressesMet
<1> QED
  BY <1>1, <1>3, <1>4, <1>6, <1>7, <1>8, <1>9, <1>10, <1>13, <1>14

\* After the function f has been read, the next one that has a body is, or the program runs.
LEMMA LeaveIs ==
    ASSUME program \in Programs, NEW st, NEW f \in Nat, Leave(st, f)
    PROVE  LET Between(k) == ~IsDefined(program.functions[k])
           IN  \/ /\ pc' = "values" /\ fn' \in DOMAIN program.functions /\ fn' > f
                  /\ IsDefined(program.functions[fn'])
                  /\ \A k \in DOMAIN program.functions : f < k /\ k < fn' => Between(k)
               \/ /\ pc' = "running"
                  /\ \A k \in DOMAIN program.functions : f < k => Between(k)
                  /\ sol' = LeastSolution(st.constraints) /\ holds' = InitialMemory
                  /\ stack' = <<<<1, 1>>>>
<1> DEFINE D == DOMAIN program.functions
           later == {k \in D : k > f /\ IsDefined(program.functions[k])}
<1>1. program.functions \in Seq(FunctionRecords)
  BY ProgramIs
<1>2. D = 1 .. Len(program.functions) /\ Len(program.functions) \in Nat
  BY <1>1
<1>3. IsFiniteSet(later) /\ later \subseteq Int
  <2>1. IsFiniteSet(D) /\ D \subseteq Int
    BY <1>2, FS_Interval
  <2>2. later \in SUBSET D
    OBVIOUS
  <2> HIDE DEF D, later
  <2> QED
    BY <2>1, <2>2, FS_Subset
<1>4. CASE later # {}
  <2>1. \E k \in later : \A j \in later : k =< j
    <3> HIDE DEF later
    <3> QED
      BY <1>3, <1>4, LeastMember
  <2>2. pc' = "values" /\ fn' = CHOOSE k \in later : \A j \in later : k =< j
    BY <1>4 DEF Leave
  <2>3. fn' \in later /\ \A j \in later : fn' =< j
    <3> HIDE DEF later
    <3> QED
      BY <2>1, <2>2
  <2>4. fn' \in D /\ fn' > f /\ IsDefined(program.functions[fn'])
    BY <2>3
  <2>5. ASSUME NEW k \in D, f < k, k < fn', IsDefined(program.functions[k])
        PROVE  FALSE
    <3>1. k \in Int /\ fn' \in Int
      BY <1>2, <2>3
    <3>2. k \in later
      BY <2>5
    <3> QED
      BY <2>3, <2>5, <3>1, <3>2
  <2> QED
    BY <2>2, <2>4, <2>5
<1>5. CASE later = {}
  <2>1. \A k \in D : f < k => ~IsDefined(program.functions[k])
    BY <1>2, <1>5
  <2> QED
    BY <1>5, <2>1 DEF Leave
<1> QED
  BY <1>4, <1>5

LEMMA AbortedKeeps ==
    ASSUME CollectInv, program' = program, pc' = "aborted"
    PROVE  CollectInv'
BY DEF CollectInv, TypeInv, TurnInv, Behind

\* A step that adds to what was collected, and meets what it leaves behind.
LEMMA StepCollects ==
    ASSUME CollectInv, pc # "aborted", program' = program,
           Grows(Now, [nodes |-> nodes', constraints |-> constraints', ok |-> TRUE]),
           pc' \in {"values", "instructions", "running"}, TurnInv',
           AddressesMet(constraints'), Special \cup Addresses \cup Signatures \subseteq nodes',
           \A x \in FunctionNames : Obj(x) \in nodes' => HasAddressTaken(x),
           \A k \in DOMAIN program.functions : \A j \in DOMAIN Body(k) :
                Behind(k, j)' => Behind(k, j) \/ Met(constraints', program.functions[k], Body(k)[j])
    PROVE  CollectInv'
<1> DEFINE t == [nodes |-> nodes', constraints |-> constraints', ok |-> TRUE]
<1>1. t \in Tidy /\ Now.constraints \subseteq t.constraints
  BY DEF Grows
<1>2. nodes' \subseteq Places /\ constraints' \subseteq ConstraintsOver(nodes') /\ constraints \subseteq constraints'
  BY <1>1 DEF Tidy, States, Now
<1>3. TypeInv'
  <2>1. program' \in Programs
    BY DEF CollectInv, TypeInv
  <2> QED
    BY <1>2, <2>1, SameProgram DEF TypeInv
<1>4. /\ AddressesMet(constraints)'
      /\ (Special \cup Addresses \cup Signatures \subseteq nodes)'
      /\ (\A x \in FunctionNames : Obj(x) \in nodes => HasAddressTaken(x))'
  <2>1. AddressesMet(constraints)'
    BY SameProgram DEF AddressesMet
  <2>2. (Special \cup Addresses \cup Signatures)' = Special \cup Addresses \cup Signatures
    BY SameProgram
  <2>3. (\A x \in FunctionNames : Obj(x) \in nodes => HasAddressTaken(x))'
    BY SameProgram DEF Obj
  <2> QED
    BY <2>1, <2>2, <2>3
<1>5. \A k \in DOMAIN program.functions : \A j \in DOMAIN Body(k) :
        Behind(k, j)' => Met(constraints', program.functions[k], Body(k)[j])
  <2> SUFFICES ASSUME NEW k \in DOMAIN program.functions, NEW j \in DOMAIN Body(k), Behind(k, j)'
               PROVE  Met(constraints', program.functions[k], Body(k)[j])
    OBVIOUS
  <2>1. CASE Behind(k, j)
    <3>1. Met(constraints, program.functions[k], Body(k)[j])
      BY <2>1 DEF CollectInv
    <3> QED
      BY <1>2, <3>1, MetGrows
  <2> QED
    BY <2>1
<1>6. (\A k \in DOMAIN program.functions : \A j \in DOMAIN Body(k) :
        Behind(k, j) => Met(constraints, program.functions[k], Body(k)[j]))'
  BY <1>5, SameProgram
<1> QED
  BY <1>3, <1>4, <1>6 DEF CollectInv

LEMMA NowIsTidy ==
    ASSUME CollectInv, pc # "aborted"
    PROVE  Now \in Tidy /\ Now.ok /\ Now.nodes = nodes /\ Now.constraints = constraints
<1>1. nodes \subseteq Places /\ constraints \subseteq ConstraintsOver(nodes)
  BY DEF CollectInv, TypeInv
<1>2. ConstraintsOver(nodes) \subseteq ConstraintsOver(Ends)
  BY <1>1 DEF ConstraintsOver, Ends
<1> QED
  BY <1>1, <1>2 DEF Now, Tidy, States

\* When a step is taken over, what it collected is what there is.
LEMMA TakenOver ==
    ASSUME NEW st \in Tidy, st.ok, Grows(Now, st), nodes' = st.nodes, constraints' = st.constraints
    PROVE  Grows(Now, [nodes |-> nodes', constraints |-> constraints', ok |-> TRUE])
BY DEF Grows, Tidy, States, Now

LEMMA SpecialIsApart ==
    ASSUME program \in Programs
    PROVE  /\ \A x \in FunctionNames : x \notin Globals \cup {"universal", "null"}
           /\ \A f \in Functions : \A i \in ToSet(f.body) :
                HasName(i) => i.name \notin FunctionNames \cup Globals \cup {"universal", "null"}
BY ProgramIs DEF WellFormed, NamesAreUnique, Functions, FunctionNames, Globals, Values

LEMMA InitCollects ==
    ASSUME Init
    PROVE  CollectInv
<1>1. nodes = Special /\ constraints = {} /\ pc = "globals" /\ program \in Programs
  BY DEF Init, Special
<1>2. Special \subseteq Places
  BY NodesArePlaces DEF Special
<1> QED
  BY <1>1, <1>2 DEF CollectInv, TypeInv, TurnInv, Behind

\* The constraints of the special nodes.
SpecialFrom(st) ==
    Add(Add(Add(st, "ADDR_OF", UniversalPtr, UniversalObj), "STORE", UniversalObj, UniversalObj),
        "ADDR_OF", NullPtr, NullObject)

LEMMA SpecialCollected ==
    ASSUME Now \in Tidy, nodes = Special
    PROVE  LET special == SpecialFrom(Now)
           IN  /\ special \in Tidy /\ Grows(Now, special) /\ special.nodes = Special /\ special.ok
               /\ Constraint("ADDR_OF", UniversalPtr, UniversalObj) \in special.constraints
<1> DEFINE a == Add(Now, "ADDR_OF", UniversalPtr, UniversalObj)
           b == Add(a, "STORE", UniversalObj, UniversalObj)
           special == Add(b, "ADDR_OF", NullPtr, NullObject)
<1>1. /\ {"ADDR_OF", "STORE"} \subseteq Types
      /\ UniversalPtr \in Ends /\ UniversalObj \in Ends /\ NullPtr \in Ends /\ NullObject \in Ends
  BY NodesArePlaces DEF Types, Ends
<1>2. Added(Now, a, "ADDR_OF", UniversalPtr, UniversalObj)
  BY <1>1, AddIs
<1>3. SpecialFrom(Now) = special
  BY DEF SpecialFrom
<1> HIDE DEF a
<1>4. a \in Tidy
  BY <1>2 DEF Added, Grows
<1>5. Added(a, b, "STORE", UniversalObj, UniversalObj)
  BY <1>1, <1>4, AddIs
<1> HIDE DEF b
<1>6. b \in Tidy
  BY <1>5 DEF Added, Grows
<1>7. Added(b, special, "ADDR_OF", NullPtr, NullObject)
  BY <1>1, <1>6, AddIs
<1> HIDE DEF special
<1>8. Grows(Now, a) /\ Grows(a, b) /\ Grows(b, special)
  BY <1>2, <1>5, <1>7 DEF Added
<1>9. Grows(Now, special) /\ special \in Tidy
  BY <1>8, GrowsOn DEF Grows
<1>10. a.nodes = Special /\ b.nodes = Special /\ special.nodes = Special
  BY <1>2, <1>5, <1>7 DEF Added, Now
<1>11. a.ok /\ b.ok /\ special.ok
  BY <1>2, <1>5, <1>7, <1>10 DEF Added, Now, Special
<1>12. Constraint("ADDR_OF", UniversalPtr, UniversalObj) \in special.constraints
  BY <1>2, <1>5, <1>7 DEF Added
<1> QED
  BY <1>3, <1>9, <1>10, <1>11, <1>12

LEMMA GlobalsCollect ==
    ASSUME CollectInv, CollectGlobals
    PROVE  CollectInv'
<1> DEFINE special == SpecialFrom(Now)
           st == CollectForGlobals(special)
<1>1. pc = "globals" /\ Collect(st, Leave(st, 0)) /\ program' = program
  BY DEF CollectGlobals, Collect, SpecialFrom
<1>2. program \in Programs /\ Now \in Tidy /\ Now.nodes = nodes /\ nodes = Special
  BY <1>1, NowIsTidy DEF CollectInv, TypeInv
<1>3. special \in Tidy /\ Grows(Now, special) /\ special.nodes = Special
      /\ Constraint("ADDR_OF", UniversalPtr, UniversalObj) \in special.constraints
  BY <1>2, SpecialCollected
<1> HIDE DEF special
<1>4. /\ Grows(special, st) /\ st.nodes = Special \cup Addresses \cup Signatures
      /\ \A x \in Known : Constraint("ADDR_OF", Val(x), Obj(x)) \in st.constraints
      /\ \A g \in ToSet(program.globals) : InitializerOf(g) \subseteq st.constraints
  BY <1>2, <1>3, GlobalsCollected
<1> HIDE DEF st
<1>5. Grows(Now, st) /\ st \in Tidy
  BY <1>3, <1>4, GrowsOn DEF Grows
<1>6. CASE ~st.ok
  BY <1>1, <1>6, AbortedKeeps DEF Collect
<1>7. CASE st.ok
  <2>1. nodes' = st.nodes /\ constraints' = st.constraints /\ Leave(st, 0)
    BY <1>1, <1>7 DEF Collect
  <2>2. Grows(Now, [nodes |-> nodes', constraints |-> constraints', ok |-> TRUE])
    BY <1>5, <1>7, <2>1, TakenOver
  <2>3. AddressesMet(constraints')
    BY <1>3, <1>4, <2>1 DEF AddressesMet, Grows
  <2>4. \A x \in FunctionNames : Obj(x) \in nodes' => HasAddressTaken(x)
    <3> SUFFICES ASSUME NEW x \in FunctionNames, Obj(x) \in nodes'
                 PROVE  HasAddressTaken(x)
      OBVIOUS
    <3>1. x \notin Globals \cup {"universal", "null"}
      BY <1>2, SpecialIsApart
    <3>2. Obj(x) \notin Special
      BY <3>1, NodesDiffer DEF Special, UniversalPtr, UniversalObj, NullPtr, NullObject
    <3>3. Obj(x) \notin Signatures
      BY NodesDiffer DEF Signatures, SignatureOf
    <3>4. Obj(x) \in Addresses
      BY <1>4, <2>1, <3>2, <3>3
    <3>5. x \in Known
      BY <3>4, NodesDiffer DEF Addresses
    <3> QED
      BY <3>1, <3>5 DEF Known
  <2>5. LET Between(k) == ~IsDefined(program.functions[k])
        IN  \/ /\ pc' = "values" /\ fn' \in DOMAIN program.functions
               /\ IsDefined(program.functions[fn'])
               /\ \A k \in DOMAIN program.functions : 0 < k /\ k < fn' => Between(k)
            \/ /\ pc' = "running"
               /\ \A k \in DOMAIN program.functions : 0 < k => Between(k)
    BY <1>2, <2>1, LeaveIs
  <2>6. TurnInv'
    BY <1>1, <2>5 DEF TurnInv
  <2>7. ASSUME NEW k \in DOMAIN program.functions, NEW j \in DOMAIN Body(k), Behind(k, j)'
        PROVE  FALSE
    <3>1. k \in Nat \ {0}
      BY <1>2, ProgramIs
    <3>2. ~IsDefined(program.functions[k])
      BY <2>5, <2>7, <3>1 DEF Behind
    <3> QED
      BY <2>7, <3>2 DEF IsDefined, Body
  <2> QED
    BY <1>1, <1>4, <2>1, <2>2, <2>3, <2>4, <2>5, <2>6, <2>7, StepCollects
<1> QED
  BY <1>6, <1>7

LEMMA ValuesCollect ==
    ASSUME CollectInv, CreateValueNodes
    PROVE  CollectInv'
<1> DEFINE body == program.functions[fn].body
           S == {Val(i.name) : i \in {i \in ToSet(body) : i.ptr}}
           st == CreateAll(Now, S)
<1>1. pc = "values" /\ Collect(st, pc' = "instructions" /\ pos' = 1 /\ UNCHANGED <<fn, sol, holds, stack>>)
      /\ program' = program
  BY DEF CreateValueNodes, Collect
<1>2. program \in Programs /\ Now \in Tidy /\ Now.nodes = nodes /\ Now.constraints = constraints
  BY <1>1, NowIsTidy DEF CollectInv, TypeInv
<1>3. fn \in DOMAIN program.functions /\ IsDefined(program.functions[fn])
      /\ program.functions[fn] \in Functions /\ body = Body(fn)
  BY <1>1, <1>2, ProgramIs DEF CollectInv, TurnInv, Body
<1>4. S \in SUBSET Places
  BY <1>2, <1>3, FunctionIs, NodesArePlaces
<1>5. Grows(Now, st) /\ st.nodes = nodes \cup S /\ st.constraints = constraints /\ st \in Tidy
  BY <1>2, <1>4, CreateAllIs DEF Grows
<1>6. \A i \in ToSet(Body(fn)) : i.ptr => Val(i.name) \in st.nodes
  BY <1>3, <1>5
<1>7. \A x : Obj(x) \notin S
  BY NodesDiffer
<1> HIDE DEF st, S, body
<1>8. CASE ~st.ok
  BY <1>1, <1>8, AbortedKeeps DEF Collect
<1>9. CASE st.ok
  <2>1. /\ nodes' = st.nodes /\ constraints' = st.constraints
        /\ pc' = "instructions" /\ pos' = 1 /\ fn' = fn
    BY <1>1, <1>9 DEF Collect
  <2>2. Grows(Now, [nodes |-> nodes', constraints |-> constraints', ok |-> TRUE])
    BY <1>5, <1>9, <2>1, TakenOver
  <2>3. /\ AddressesMet(constraints) /\ Special \cup Addresses \cup Signatures \subseteq nodes
        /\ \A x \in FunctionNames : Obj(x) \in nodes => HasAddressTaken(x)
    BY <1>1 DEF CollectInv
  <2>4. 1 \in DOMAIN Body(fn)
    <3>1. Body(fn) \in Seq(InstructionRecords) /\ Body(fn) # << >>
      BY <1>2, <1>3, FunctionIs DEF IsDefined, Body
    <3> QED
      BY <3>1
  <2>5. TurnInv'
    BY <1>1, <1>3, <1>6, <2>1, <2>4 DEF TurnInv, Body, Val
  <2>6. ASSUME NEW k \in DOMAIN program.functions, NEW j \in DOMAIN Body(k), Behind(k, j)'
        PROVE  Behind(k, j)
    <3>1. j >= 1 /\ j \in Nat /\ k \in Nat /\ fn \in Nat
      BY <1>2, <1>3, FunctionIs, ProgramIs DEF Body
    <3> QED
      BY <1>1, <2>1, <2>6, <3>1 DEF Behind
  <2> QED
    BY <1>1, <1>5, <1>7, <2>1, <2>2, <2>3, <2>5, <2>6, StepCollects
<1> QED
  BY <1>8, <1>9

LEMMA InstructionCollects ==
    ASSUME CollectInv, CollectInstruction
    PROVE  CollectInv'
<1> DEFINE f == program.functions[fn]
           i == f.body[pos]
           st == CollectFor(Now, f, i)
<1>1. pc = "instructions" /\ program' = program
      /\ Collect(st, IF pos = Len(f.body) THEN Leave(st, fn)
                     ELSE pos' = pos + 1 /\ UNCHANGED <<pc, fn, sol, holds, stack>>)
  BY DEF CollectInstruction, Collect
<1>2. program \in Programs /\ Now \in Tidy /\ Now.nodes = nodes /\ Now.constraints = constraints
  BY <1>1, NowIsTidy DEF CollectInv, TypeInv
<1>3. fn \in DOMAIN program.functions /\ IsDefined(f) /\ f \in Functions
      /\ f.body = Body(fn) /\ pos \in DOMAIN f.body /\ i \in ToSet(f.body)
  <2>1. fn \in DOMAIN program.functions /\ IsDefined(f) /\ pos \in DOMAIN Body(fn)
    BY <1>1 DEF CollectInv, TurnInv
  <2>2. f \in Functions
    BY <1>2, <2>1, ProgramIs
  <2>3. i \in ToSet(f.body)
    BY ZenonT(30), <1>2, <2>1, <2>2, FunctionIs DEF Body
  <2> QED
    BY <2>1, <2>2, <2>3 DEF Body
<1>4. /\ AddressesMet(constraints) /\ Special \cup Addresses \cup Signatures \subseteq nodes
      /\ \A x \in FunctionNames : Obj(x) \in nodes => HasAddressTaken(x)
      /\ \A i_ \in ToSet(Body(fn)) : i_.ptr => Val(i_.name) \in nodes
  BY <1>1 DEF CollectInv, TurnInv
<1>5. \A x \in FunctionNames : HasAddressTaken(x) => Val(x) \in nodes
  BY <1>4 DEF Addresses, Known
<1>6. i.ptr => Val(i.name) \in nodes
  BY <1>3, <1>4
<1> HIDE DEF f, i
<1>7. Reads(Now, st, i) /\ (st.ok => Met(st.constraints, f, i))
  BY <1>2, <1>3, <1>5, <1>6, InstructionCollected
<1> HIDE DEF st
<1>8. Grows(Now, st) /\ st \in Tidy /\ nodes \subseteq st.nodes /\ constraints \subseteq st.constraints
      /\ st.nodes \subseteq nodes \cup Made(i)
  BY <1>2, <1>7 DEF Reads, Grows
<1>9. CASE ~st.ok
  BY <1>1, <1>9, AbortedKeeps DEF Collect
<1>10. CASE st.ok
  <2>1. /\ nodes' = st.nodes /\ constraints' = st.constraints
        /\ IF pos = Len(f.body) THEN Leave(st, fn)
           ELSE pos' = pos + 1 /\ UNCHANGED <<pc, fn, sol, holds, stack>>
    BY <1>1, <1>10 DEF Collect
  <2>2. Grows(Now, [nodes |-> nodes', constraints |-> constraints', ok |-> TRUE])
    BY <1>8, <1>10, <2>1, TakenOver
  <2>3. AddressesMet(constraints')
    BY <1>4, <1>8, <2>1 DEF AddressesMet
  <2>4. \A x \in FunctionNames : Obj(x) \in nodes' => HasAddressTaken(x)
    <3> SUFFICES ASSUME NEW x \in FunctionNames, Obj(x) \in Made(i)
                 PROVE  FALSE
      BY <1>4, <1>8, <2>1
    <3>1. x = i.name /\ HasName(i)
      BY NodesDiffer DEF Made, HasName
    <3> QED
      BY <1>2, <1>3, <3>1, SpecialIsApart
  <2>5. /\ Len(f.body) \in Nat /\ DOMAIN f.body = 1 .. Len(f.body) /\ fn \in Nat
        /\ \A k \in DOMAIN program.functions : k \in Nat
    BY <1>2, <1>3, FunctionIs, ProgramIs
  <2>6. Met(st.constraints, f, i)
    BY <1>7, <1>10
  <2>7. CASE pos = Len(f.body)
    <3>1. LET Between(k) == ~IsDefined(program.functions[k])
          IN  \/ /\ pc' = "values" /\ fn' \in DOMAIN program.functions
                 /\ IsDefined(program.functions[fn'])
                 /\ \A k \in DOMAIN program.functions : fn < k /\ k < fn' => Between(k)
              \/ /\ pc' = "running"
                 /\ \A k \in DOMAIN program.functions : fn < k => Between(k)
      BY <1>2, <2>1, <2>5, <2>7, LeaveIs
    <3>2. TurnInv'
      BY <1>1, <3>1 DEF TurnInv
    <3>3. ASSUME NEW k \in DOMAIN program.functions, NEW j \in DOMAIN Body(k), Behind(k, j)'
          PROVE  Behind(k, j) \/ Met(constraints', program.functions[k], Body(k)[j])
      <4>1. IsDefined(program.functions[k])
        BY <3>3 DEF Body, IsDefined
      <4>2. k \in Nat /\ (fn' \in DOMAIN program.functions => fn' \in Nat)
        BY <2>5
      <4>3. k =< fn
        BY <2>5, <3>1, <3>3, <4>1, <4>2 DEF Behind
      <4>4. CASE k = fn
        <5>1. j =< pos /\ j \in Nat /\ pos \in Nat
          BY <1>3, <2>5, <2>7, <4>4
        <5>2. CASE j = pos
          BY <1>3, <2>1, <2>6, <4>4, <5>2 DEF f, i, Body
        <5> QED
          BY <1>1, <4>4, <5>1, <5>2 DEF Behind
      <4> QED
        BY <1>1, <2>5, <4>2, <4>3, <4>4 DEF Behind
    <3> QED
      BY <1>1, <1>4, <1>8, <2>1, <2>2, <2>3, <2>4, <3>1, <3>2, <3>3, StepCollects
  <2>8. CASE pos # Len(f.body)
    <3>1. pos' = pos + 1 /\ pc' = pc /\ fn' = fn
      BY <2>1, <2>8
    <3>2. pos + 1 \in DOMAIN Body(fn)
      BY <1>3, <2>5, <2>8
    <3>3. \A j \in ToSet(Body(fn)) : j.ptr => Val(j.name) \in nodes'
      BY <1>4, <1>8, <2>1
    <3>4. TurnInv'
      BY <1>1, <1>3, <3>1, <3>2, <3>3 DEF TurnInv, Body, Val, f
    <3>5. ASSUME NEW k \in DOMAIN program.functions, NEW j \in DOMAIN Body(k), Behind(k, j)'
          PROVE  Behind(k, j) \/ Met(constraints', program.functions[k], Body(k)[j])
      <4>1. CASE k = fn
        <5>1. j \in Nat /\ pos \in Nat
          BY <1>3, <2>5, <4>1
        <5>2. CASE j = pos
          BY <1>3, <2>1, <2>6, <4>1, <5>2 DEF f, i, Body
        <5> QED
          BY <1>1, <2>5, <3>1, <3>5, <4>1, <5>1, <5>2 DEF Behind
      <4> QED
        BY <1>1, <2>5, <3>1, <3>5, <4>1 DEF Behind
    <3> QED
      BY <1>1, <1>4, <1>8, <2>1, <2>2, <2>3, <2>4, <3>1, <3>4, <3>5, StepCollects
  <2> QED
    BY <2>7, <2>8
<1> QED
  BY <1>9, <1>10

LEMMA KeepsCollected ==
    ASSUME CollectInv, UNCHANGED collecting
    PROVE  CollectInv'
<1>1. /\ program' = program /\ pc' = pc /\ fn' = fn /\ pos' = pos
      /\ nodes' = nodes /\ constraints' = constraints
  BY DEF collecting
<1>2. TypeInv' /\ TurnInv'
  BY <1>1, SameProgram DEF CollectInv, TypeInv, TurnInv, Val
<1>3. \A k, j : Behind(k, j)' <=> Behind(k, j)
  BY <1>1 DEF Behind
<1>4. (pc = "globals" => nodes = Special /\ constraints = {})'
  BY <1>1, SameProgram DEF CollectInv
<1>5. (pc \notin {"globals", "aborted"} =>
        /\ AddressesMet(constraints)
        /\ Special \cup Addresses \cup Signatures \subseteq nodes
        /\ \A x \in FunctionNames : Obj(x) \in nodes => HasAddressTaken(x))'
  BY <1>1, SameProgram DEF CollectInv, Obj
<1>6. (\A k \in DOMAIN program.functions : \A j \in DOMAIN Body(k) :
        Behind(k, j) => Met(constraints, program.functions[k], Body(k)[j]))'
  BY <1>1, <1>3, SameProgram DEF CollectInv
<1> QED
  BY <1>2, <1>4, <1>5, <1>6 DEF CollectInv

-----------------------------------------------------------------------------
(* The program starts to run.                                                  *)

\* A solution of the constraints has every pair of the program's first memory.
LEMMA MemoryFollows ==
    ASSUME program \in Programs, NEW C, NEW N, C \subseteq ConstraintsOver(N), AddressesMet(C),
           NEW T, Solves(N, C, T)
    PROVE  Follows(T, N, InitialMemory)
<1> SUFFICES ASSUME NEW h \in InitialMemory
             PROVE  h = <<h[1], h[2]>> /\ h[2] \in N /\ <<h[1], h[2]>> \in T
  BY DEF Follows
<1>0. PICK g \in ToSet(program.globals) :
        h \in {Obj(g.name)} \X {Obj(c[2]) : c \in {c \in ToSet(g.init.leaves) :
                                              c[1] \in {"value", "gep", "bitcast"}}}
  BY DEF InitialMemory
<1>1. PICK c \in ToSet(g.init.leaves) :
        c[1] \in {"value", "gep", "bitcast"} /\ h = <<Obj(g.name), Obj(c[2])>>
  BY <1>0
<1>2. g.init.shape = "leaves"
  <2>1. g \in GlobalRecords
    BY ProgramIs
  <2>2. g.init.leaves # << >>
    <3>1. g.init.leaves \in Seq(Operands)
      BY <2>1 DEF GlobalRecords
    <3> QED
      BY <3>1 DEF ToSet
  <2> QED
    BY <2>1, <2>2, ProgramIs DEF WellFormed, GlobalRecords
<1>3. Constraint("ADDR_OF", Obj(g.name), Obj(c[2])) \in C
  <2>1. IsPointer(c) /\ ObjectNodeFor(c) = Obj(c[2])
    BY <1>1 DEF IsPointer, IntegerKinds, ObjectNodeFor
  <2>2. Constraint("ADDR_OF", Obj(g.name), ObjectNodeFor(c)) \in InitializerOf(g)
    BY <1>2, <2>1 DEF InitializerOf
  <2> QED
    BY <2>1, <2>2 DEF AddressesMet
<1>4. Obj(g.name) \in N /\ Obj(c[2]) \in N
  BY <1>3, ConstraintIs
<1>5. <<Obj(g.name), Obj(c[2])>> \in T
  <2> DEFINE k == Constraint("ADDR_OF", Obj(g.name), Obj(c[2]))
  <2>1. k.type = "ADDR_OF" /\ k.dest = Obj(g.name) /\ k.src = Obj(c[2])
    BY ConstraintIs
  <2> HIDE DEF k
  <2>2. Derives(N, k, T, Obj(g.name), Obj(c[2]))
    BY <2>1 DEF Derives
  <2> QED
    BY <1>3, <1>4, <2>2 DEF Solves, k
<1> QED
  BY <1>1, <1>4, <1>5

LEMMA RunStarts ==
    ASSUME CollectInv', program \in Programs, program' = program, pc' = "running",
           sol' = LeastSolution(constraints'), holds' = InitialMemory, stack' = <<<<1, 1>>>>
    PROVE  RunInv'
<1>1. nodes' \subseteq Places /\ constraints' \subseteq ConstraintsOver(nodes') /\ AddressesMet(constraints')
  BY SameProgram DEF CollectInv, TypeInv, AddressesMet
<1>2. IsFiniteSet(nodes')
  BY <1>1, FinitePlaces, ProgramIs, FS_Subset
<1>3. IsLeastSolution(nodes', constraints', sol')
  BY <1>1, <1>2, LeastSolutionIsLeast
<1>4. sol' \in SUBSET (nodes' \X nodes') /\ Solves(nodes', constraints', sol')
  BY <1>3 DEF IsLeastSolution
<1>5. Follows(sol', nodes', holds')
  BY <1>1, <1>4, MemoryFollows
<1>6. StackInv'
  <2> DEFINE s == <<<<1, 1>>>>
  <2>1. s \in Seq(Nat \X Nat) /\ Len(s) = 1 /\ DOMAIN s = {1} /\ s[1] = <<1, 1>>
    OBVIOUS
  <2> HIDE DEF s
  <2>2. 1 \in DOMAIN program.functions /\ IsDefined(program.functions[1])
    <3>1. program.functions # << >> /\ IsDefined(program.functions[1])
      BY ProgramIs DEF WellFormed, CodeIsComplete
    <3> QED
      BY <3>1, ProgramIs
  <2>3. 1 \in DOMAIN Body(1)
    <3>1. Body(1) \in Seq(InstructionRecords) /\ Body(1) # << >>
      BY <2>2, ProgramIs, FunctionIs DEF IsDefined, Body
    <3> QED
      BY <3>1
  <2>4. stack' = s
    BY DEF s
  <2>5. ASSUME NEW m \in DOMAIN s
        PROVE  m = Len(s) /\ s[m][1] = 1 /\ s[m][2] = 1
    BY <2>1
  <2>6. \A k : Body(k)' = Body(k)
    BY SameProgram
  <2> QED
    BY <2>1, <2>2, <2>3, <2>4, <2>5, <2>6 DEF StackInv
<1> QED
  BY <1>4, <1>5, <1>6 DEF RunInv, Solves, Follows, UniversalObj, Obj

LEMMA CollectingKeepsRun ==
    ASSUME CollectInv, CollectInv', CollectGlobals \/ CreateValueNodes \/ CollectInstruction
    PROVE  RunInv'
<1>1. program' = program /\ program \in Programs
  BY DEF CollectGlobals, CreateValueNodes, CollectInstruction, Collect, CollectInv, TypeInv
<1>2. CASE CollectGlobals
  <2>1. PICK st : Collect(st, Leave(st, 0))
    BY <1>2 DEF CollectGlobals
  <2>2. CASE st.ok
    <3>1. Leave(st, 0) /\ constraints' = st.constraints
      BY <2>1, <2>2 DEF Collect
    <3>2. pc' = "running" => sol' = LeastSolution(st.constraints) /\ holds' = InitialMemory
                             /\ stack' = <<<<1, 1>>>>
      BY <1>1, <3>1, LeaveIs
    <3> QED
      BY <1>1, <3>1, <3>2, RunStarts DEF RunInv
  <2>3. CASE ~st.ok
    BY <2>1, <2>3 DEF Collect, RunInv
  <2> QED
    BY <2>2, <2>3
<1>3. CASE CreateValueNodes
  BY <1>3 DEF CreateValueNodes, Collect, RunInv
<1>4. CASE CollectInstruction
  <2> DEFINE f == program.functions[fn]
  <2>1. PICK st : Collect(st, IF pos = Len(f.body) THEN Leave(st, fn)
                              ELSE pos' = pos + 1 /\ UNCHANGED <<pc, fn, sol, holds, stack>>)
    BY <1>4 DEF CollectInstruction
  <2>2. pc = "instructions" /\ fn \in Nat
    <3>1. pc = "instructions"
      BY <1>4 DEF CollectInstruction
    <3> QED
      BY <1>1, <3>1, ProgramIs DEF CollectInv, TurnInv
  <2>3. CASE st.ok /\ pos = Len(f.body)
    <3>1. Leave(st, fn) /\ constraints' = st.constraints
      BY <2>1, <2>3 DEF Collect
    <3>2. pc' = "running" => sol' = LeastSolution(st.constraints) /\ holds' = InitialMemory
                             /\ stack' = <<<<1, 1>>>>
      BY <1>1, <2>2, <3>1, LeaveIs
    <3> QED
      BY <1>1, <3>1, <3>2, RunStarts DEF RunInv
  <2>4. CASE ~(st.ok /\ pos = Len(f.body))
    BY <2>1, <2>2, <2>4 DEF Collect, RunInv
  <2> QED
    BY <2>3, <2>4
<1> QED
  BY <1>2, <1>3, <1>4

-----------------------------------------------------------------------------
(* The program runs, and the solution follows it.                              *)

\* The solution has the address o at n, or has lost track of n.
Tracked(n, o) == <<n, o>> \in sol \/ <<n, UniversalObj>> \in sol

LEMMA Tracks ==
    ASSUME CollectInv, RunInv, pc = "running"
    PROVE  /\ \A type, d, s : Constraint(type, d, s) \in constraints => {d, s} \subseteq nodes
           /\ \A d, s : Constraint("ADDR_OF", d, s) \in constraints => <<d, s>> \in sol
           /\ \A d, s, o : Constraint("COPY", d, s) \in constraints /\ Tracked(s, o) => Tracked(d, o)
           /\ \A d : Constraint("COPY", d, UniversalPtr) \in constraints => <<d, UniversalObj>> \in sol
           /\ \A d, s, p, o : Constraint("LOAD", d, s) \in constraints /\ <<s, p>> \in sol /\ Tracked(p, o)
                                => Tracked(d, o)
           /\ \A d, s, p, o : Constraint("STORE", d, s) \in constraints /\ <<d, p>> \in sol /\ Tracked(s, o)
                                => Tracked(p, o)
           /\ <<UniversalPtr, UniversalObj>> \in sol
<1>1. /\ constraints \subseteq ConstraintsOver(nodes) /\ UniversalObj \in nodes
      /\ Constraint("ADDR_OF", UniversalPtr, UniversalObj) \in constraints
  BY DEF CollectInv, TypeInv, Special, AddressesMet
<1>2. sol \in SUBSET (nodes \X nodes) /\ Solves(nodes, constraints, sol)
  BY DEF RunInv
<1>3. \A type, d, s : Constraint(type, d, s) \in constraints => {d, s} \subseteq nodes
  BY <1>1, ConstraintIs
<1>4. \A n, o : <<n, o>> \in sol => n \in nodes /\ o \in nodes
  BY <1>2
<1>5. ASSUME NEW type, NEW d, NEW s, Constraint(type, d, s) \in constraints,
             NEW n \in nodes, NEW o \in nodes, Derives(nodes, Constraint(type, d, s), sol, n, o)
      PROVE  <<n, o>> \in sol
  BY <1>2, <1>5 DEF Solves
<1>6. \A d, s : Constraint("ADDR_OF", d, s) \in constraints => <<d, s>> \in sol
  <2> SUFFICES ASSUME NEW d, NEW s, Constraint("ADDR_OF", d, s) \in constraints
               PROVE  <<d, s>> \in sol
    OBVIOUS
  <2> DEFINE c == Constraint("ADDR_OF", d, s)
  <2>1. c.type = "ADDR_OF" /\ c.dest = d /\ c.src = s
    BY ConstraintIs
  <2> HIDE DEF c
  <2>2. Derives(nodes, c, sol, d, s)
    BY <2>1 DEF Derives
  <2> QED
    BY <1>3, <1>5, <2>2 DEF c
<1>7. \A d, s, o : Constraint("COPY", d, s) \in constraints /\ <<s, o>> \in sol => <<d, o>> \in sol
  <2> SUFFICES ASSUME NEW d, NEW s, NEW o, Constraint("COPY", d, s) \in constraints, <<s, o>> \in sol
               PROVE  <<d, o>> \in sol
    OBVIOUS
  <2> DEFINE c == Constraint("COPY", d, s)
  <2>1. c.type = "COPY" /\ c.dest = d /\ c.src = s
    BY ConstraintIs
  <2> HIDE DEF c
  <2>2. Derives(nodes, c, sol, d, o)
    BY <2>1 DEF Derives
  <2> QED
    BY <1>3, <1>4, <1>5, <2>2 DEF c
<1>8. \A d, s, p, o : Constraint("LOAD", d, s) \in constraints /\ <<s, p>> \in sol /\ <<p, o>> \in sol
                        => <<d, o>> \in sol
  <2> SUFFICES ASSUME NEW d, NEW s, NEW p, NEW o, Constraint("LOAD", d, s) \in constraints,
                      <<s, p>> \in sol, <<p, o>> \in sol
               PROVE  <<d, o>> \in sol
    OBVIOUS
  <2> DEFINE c == Constraint("LOAD", d, s)
  <2>1. c.type = "LOAD" /\ c.dest = d /\ c.src = s
    BY ConstraintIs
  <2> HIDE DEF c
  <2>2. Derives(nodes, c, sol, d, o)
    BY <1>4, <2>1 DEF Derives
  <2> QED
    BY <1>3, <1>4, <1>5, <2>2 DEF c
<1>9. \A d, s, p, o : Constraint("STORE", d, s) \in constraints /\ <<d, p>> \in sol /\ <<s, o>> \in sol
                        => <<p, o>> \in sol
  BY <1>4, <1>5, ConstraintIs DEF Derives
<1>10. <<UniversalPtr, UniversalObj>> \in sol
  BY <1>1, <1>6
<1> QED
  BY <1>3, <1>6, <1>7, <1>8, <1>9, <1>10 DEF Tracked

\* The instruction that runs, and what was collected for it.
LEMMA HereIs ==
    ASSUME CollectInv, RunInv, pc = "running", stack # << >>
    PROVE  /\ program \in Programs /\ Here \in Functions /\ Here = program.functions[Frame[1]]
           /\ Frame[1] \in DOMAIN program.functions /\ Frame[2] \in DOMAIN Body(Frame[1])
           /\ Instruction = Body(Frame[1])[Frame[2]] /\ Instruction \in ToSet(Here.body)
           /\ Met(constraints, Here, Instruction)
           /\ Len(stack) \in DOMAIN stack
           /\ 1 \in DOMAIN Body(Frame[1])
           /\ Instruction.op # "ret" => Frame[2] + 1 \in DOMAIN Body(Frame[1])
<1>1. program \in Programs
  BY DEF CollectInv, TypeInv
<1>2. Len(stack) \in DOMAIN stack
  <2>1. stack \in Seq(Nat \X Nat)
    BY DEF RunInv, StackInv
  <2> QED
    BY <2>1
<1>3. Frame[1] \in DOMAIN program.functions /\ Frame[2] \in DOMAIN Body(Frame[1])
  BY <1>2 DEF RunInv, StackInv, Frame
<1>4. Here = program.functions[Frame[1]] /\ Here \in Functions /\ Here.body = Body(Frame[1])
  BY <1>1, <1>3, ProgramIs DEF Here, Body
<1>5. Instruction = Body(Frame[1])[Frame[2]] /\ Instruction \in ToSet(Here.body)
  BY ZenonT(30), <1>1, <1>3, <1>4, FunctionIs DEF Instruction
<1>6. Met(constraints, Here, Instruction)
  BY <1>3, <1>4, <1>5 DEF CollectInv, Behind
<1>7. Here.body \in Seq(InstructionRecords)
  BY <1>1, <1>4, FunctionIs
<1>8. \A k \in DOMAIN Here.body : Here.body[k].op = "ret" <=> k = Len(Here.body)
  BY <1>1, <1>4, ProgramIs DEF WellFormed, CodeIsComplete, Functions
<1>9. 1 \in DOMAIN Here.body
  BY <1>3, <1>4, <1>7
<1>10. Instruction.op # "ret" => Frame[2] + 1 \in DOMAIN Here.body
  <2>1. Frame[2] \in 1 .. Len(Here.body) /\ Len(Here.body) \in Nat
    BY <1>3, <1>4, <1>7
  <2>2. Instruction.op # "ret" => Frame[2] # Len(Here.body)
    BY <1>3, <1>4, <1>5, <1>8
  <2> QED
    BY <1>7, <2>1, <2>2
<1> QED
  BY <1>1, <1>2, <1>3, <1>4, <1>5, <1>6, <1>9, <1>10

\* What an operand denotes, the solution has at its node.
LEMMA OperandTracked ==
    ASSUME CollectInv, RunInv, pc = "running", stack # << >>,
           NEW op \in ToSet(Instruction.args), NEW o \in Denotes(op)
    PROVE  /\ o \in nodes
           /\ IsPointer(op) => Tracked(ValueNodeFor(op), o)
           /\ op[1] \in {"ptrtoint", "ptrtoint+"} => Tracked(Val(op[2]), o)
<1>1. program \in Programs /\ Here \in Functions /\ Instruction \in ToSet(Here.body)
  BY HereIs
<1>2. op \in Operands /\ <<Here, Instruction>> \in Instructions
      /\ (op[1] \in {"gep", "bitcast"} => op[2] \in Known)
  BY <1>1, InstructionIs, OperandIs
<1>3. HasAddressTaken(op[2])
  BY <1>2 DEF HasAddressTaken
<1>4. \A x \in Known : Obj(x) \in nodes /\ Tracked(Val(x), Obj(x))
  <2>1. \A x \in Known : Obj(x) \in nodes
    BY DEF CollectInv, Addresses
  <2>2. \A x \in Known : <<Val(x), Obj(x)>> \in sol
    BY Tracks DEF CollectInv, AddressesMet
  <2> QED
    BY <2>1, <2>2 DEF Tracked
<1>5. \A n : \A a \in At(holds, n) : a \in nodes /\ Tracked(n, a)
  <2> SUFFICES ASSUME NEW n, NEW a \in At(holds, n)
               PROVE  a \in nodes /\ Tracked(n, a)
    OBVIOUS
  <2>1. PICK h \in holds : h[1] = n /\ h[2] = a
    BY DEF At
  <2> QED
    BY <2>1 DEF RunInv, Follows, Tracked
<1>6. op[1] \in OperandKinds
  BY <1>2 DEF Operands
<1>7. CASE op[1] \in {"gep", "bitcast"}
  <2>1. o = Obj(op[2])
    BY <1>7 DEF Denotes
  <2>2. ValueNodeFor(op) = Val(op[2])
    BY <1>7 DEF ValueNodeFor
  <2> QED
    BY <1>2, <1>4, <1>7, <2>1, <2>2
<1>8. CASE op[1] \in {"value", "ptrtoint", "ptrtoint+"}
  <2>1. o \in IF op[2] \in FunctionNames \cup Globals THEN {Obj(op[2])} ELSE At(holds, Val(op[2]))
    BY <1>8 DEF Denotes
  <2>2. op[2] \in FunctionNames \cup Globals => op[2] \in Known
    BY <1>3 DEF Known
  <2>3. o \in nodes /\ Tracked(Val(op[2]), o)
    BY <1>4, <1>5, <2>1, <2>2
  <2>4. IsPointer(op) => ValueNodeFor(op) = Val(op[2])
    BY <1>8 DEF IsPointer, IntegerKinds, ValueNodeFor
  <2> QED
    BY <2>3, <2>4
<1>9. CASE op[1] \in {"inttoptr", "int"}
  <2>1. o \in nodes
    BY <1>9 DEF Denotes, Anywhere
  <2>2. IsPointer(op) => ValueNodeFor(op) = UniversalPtr
    BY <1>9 DEF IsPointer, IntegerKinds, ValueNodeFor
  <2> QED
    BY <1>9, <2>1, <2>2, Tracks DEF Tracked
<1>10. CASE op[1] \in {"null", "undef"}
  BY <1>10 DEF Denotes
<1> QED
  BY <1>6, <1>7, <1>8, <1>9, <1>10 DEF OperandKinds

\* A function that is called is one of those that the call was read to reach.
LEMMA CalleeReached ==
    ASSUME CollectInv, RunInv, pc = "running", stack # << >>, NEW k \in Callees(Instruction)
    PROVE  /\ program.functions[k] \in Reached(Instruction)
           /\ k \in DOMAIN program.functions /\ program.functions[k] \in Functions
           /\ IsDirect(Instruction) => Named(Instruction.callee[2]) = program.functions[k]
<1> DEFINE i == Instruction
           g == program.functions[k]
<1>1. program \in Programs /\ Here \in Functions /\ i \in ToSet(Here.body)
  BY HereIs
<1>2. k \in DOMAIN program.functions /\ Obj(g.name) \in Denotes(i.callee)
      /\ (g.vararg \/ Len(g.formals) = Len(i.args))
  BY DEF Callees
<1>3. g \in Functions /\ g.name \in FunctionNames
  BY <1>1, <1>2, ProgramIs, FunctionIs
<1>4. i.callee \in CalleeKinds \X STRING /\ <<Here, i>> \in Instructions
  BY <1>1, InstructionIs
<1> HIDE DEF i, g
<1>5. CASE IsDirect(i)
  <2>1. Denotes(i.callee) = {Obj(i.callee[2])}
    BY <1>5 DEF IsDirect, Denotes
  <2>2. i.callee[2] = g.name
    BY <1>2, <2>1, NodesDiffer
  <2>3. Named(i.callee[2]) = g
    BY <1>1, <1>3, <2>2, NamedIs
  <2> QED
    BY <1>2, <1>3, <1>5, <2>3 DEF Reached, i, g
<1>6. CASE ~IsDirect(i)
  <2>1. Obj(g.name) \in nodes => HasAddressTaken(g.name)
    BY <1>3 DEF CollectInv
  <2>2. HasAddressTaken(g.name)
    <3>1. CASE i.callee[1] = "bitcast"
      <4>1. Obj(g.name) = Obj(i.callee[2])
        BY <1>2, <3>1 DEF Denotes
      <4>2. i.callee = <<"bitcast", g.name>>
        BY <1>4, <3>1, <4>1, NodesDiffer
      <4> QED
        BY <1>4, <4>2 DEF HasAddressTaken
    <3>2. CASE i.callee[1] = "value"
      <4>1. i.callee[2] \notin FunctionNames
        BY <1>6, <3>2 DEF IsDirect
      <4>2. CASE i.callee[2] \in Globals
        <5>1. Obj(g.name) = Obj(i.callee[2])
          BY <1>2, <3>2, <4>2 DEF Denotes
        <5> QED
          BY <1>3, <4>1, <5>1, NodesDiffer
      <4>3. CASE i.callee[2] \notin Globals
        <5>1. Obj(g.name) \in At(holds, Val(i.callee[2]))
          BY <1>2, <3>2, <4>1, <4>3 DEF Denotes
        <5>2. PICK h \in holds : h[2] = Obj(g.name)
          BY <5>1 DEF At
        <5> QED
          BY <2>1, <5>2 DEF RunInv, Follows
      <4> QED
        BY <4>2, <4>3
    <3>3. CASE i.callee[1] = "inttoptr"
      <4>1. Obj(g.name) \in nodes
        BY <1>2, <3>3 DEF Denotes, Anywhere
      <4> QED
        BY <2>1, <4>1
    <3>4. CASE i.callee[1] \in {"none", "null", "undef"}
      BY <1>2, <3>4 DEF Denotes
    <3> QED
      BY <1>4, <3>1, <3>2, <3>3, <3>4 DEF CalleeKinds
  <2> QED
    BY <1>2, <1>3, <1>6, <2>2 DEF Reached, i, g
<1> QED
  BY <1>5, <1>6

\* A step of the program changes what it holds and where it is.
LEMMA RunKeeps ==
    ASSUME CollectInv, RunInv, pc = "running", UNCHANGED <<collecting, sol>>,
           StackInv', \A h \in holds' : h = <<h[1], h[2]>> /\ h[2] \in nodes /\ Tracked(h[1], h[2])
    PROVE  RunInv'
<1>1. sol' = sol /\ nodes' = nodes /\ constraints' = constraints
  BY DEF collecting
<1>2. sol' \in SUBSET (nodes' \X nodes') /\ Solves(nodes', constraints', sol')
  BY <1>1 DEF RunInv
<1>3. Follows(sol', nodes', holds')
  BY <1>1 DEF Follows, Tracked
<1> QED
  BY <1>2, <1>3 DEF RunInv, Solves, Follows, Derives, UniversalObj, Obj

LEMMA HoldsFollow ==
    ASSUME RunInv, pc = "running"
    PROVE  \A h \in holds : h = <<h[1], h[2]>> /\ h[2] \in nodes /\ Tracked(h[1], h[2])
BY DEF RunInv, Follows, Tracked

LEMMA GotoKeeps ==
    ASSUME CollectInv, RunInv, pc = "running", stack # << >>, program' = program,
           NEW k \in DOMAIN Body(Frame[1]), Goto(k)
    PROVE  StackInv'
<1> DEFINE n == Len(stack)
<1>1. stack \in Seq(Nat \X Nat) /\ n \in DOMAIN stack
  BY HereIs DEF RunInv, StackInv
<1>2. k \in Nat
  <2>1. Body(Frame[1]) \in Seq(InstructionRecords)
    BY HereIs, ProgramIs, FunctionIs DEF Body
  <2> QED
    BY <2>1
<1>3. stack[n] \in Nat \X Nat
  BY <1>1
<1>4. stack' = [stack EXCEPT ![n] = <<stack[n][1], k>>]
  BY DEF Goto
<1>5. stack' \in Seq(Nat \X Nat) /\ Len(stack') = n /\ DOMAIN stack' = DOMAIN stack
      /\ stack'[n] = <<stack[n][1], k>>
      /\ \A m \in DOMAIN stack : m # n => stack'[m] = stack[m]
  <2> DEFINE e == <<stack[n][1], k>>
  <2>1. e \in Nat \X Nat
    BY <1>2, <1>3
  <2>2. e[1] = stack[n][1]
    OBVIOUS
  <2>3. stack' = [stack EXCEPT ![n] = e]
    BY <1>4
  <2> HIDE DEF e
  <2>4. stack' \in Seq(Nat \X Nat) /\ Len(stack') = n /\ DOMAIN stack' = DOMAIN stack
        /\ stack'[n] = e /\ \A m \in DOMAIN stack : m # n => stack'[m] = stack[m]
    BY <1>1, <2>1, <2>3
  <2> QED
    BY <2>4 DEF e
<1>6. \A m \in DOMAIN stack : stack'[m][1] = stack[m][1]
  BY <1>5
<1>7. \A m \in DOMAIN stack :
        stack'[m][1] \in DOMAIN program.functions /\ stack'[m][2] \in DOMAIN Body(stack'[m][1])
  <2> SUFFICES ASSUME NEW m \in DOMAIN stack
               PROVE  stack'[m][1] \in DOMAIN program.functions /\ stack'[m][2] \in DOMAIN Body(stack'[m][1])
    OBVIOUS
  <2>1. stack[m][1] \in DOMAIN program.functions /\ stack[m][2] \in DOMAIN Body(stack[m][1])
    BY DEF RunInv, StackInv
  <2>2. CASE m = n
    BY <1>5, <2>1, <2>2 DEF Frame
  <2> QED
    BY <1>5, <2>1, <2>2
<1>8. \A m \in DOMAIN stack : m # n =>
        LET c == Body(stack'[m][1])[stack'[m][2]]
        IN  c.op = "call" /\ (IsDirect(c) => Named(c.callee[2]) = program.functions[stack'[m + 1][1]])
  <2> SUFFICES ASSUME NEW m \in DOMAIN stack, m # n
               PROVE  LET c == Body(stack[m][1])[stack[m][2]]
                      IN  c.op = "call" /\ (IsDirect(c) =>
                            Named(c.callee[2]) = program.functions[stack'[m + 1][1]])
    BY <1>5
  <2>1. m + 1 \in DOMAIN stack
    BY <1>1
  <2> QED
    BY <1>6, <2>1 DEF RunInv, StackInv
<1> QED
  BY ZenonT(30), <1>5, <1>7, <1>8, SameProgram DEF StackInv

\* An instruction that goes on to the next one.
LEMMA ProceedKeeps ==
    ASSUME CollectInv, RunInv, pc = "running", stack # << >>, Proceed, Instruction.op # "ret",
           \A h \in holds' : h = <<h[1], h[2]>> /\ h[2] \in nodes /\ Tracked(h[1], h[2])
    PROVE  RunInv'
<1>1. Frame[2] + 1 \in DOMAIN Body(Frame[1]) /\ Goto(Frame[2] + 1) /\ UNCHANGED <<collecting, sol>>
  BY HereIs DEF Proceed
<1>2. StackInv'
  BY <1>1, GotoKeeps DEF collecting
<1> QED
  BY <1>1, <1>2, RunKeeps

LEMMA AssignFollows ==
    ASSUME CollectInv, RunInv, pc = "running", NEW i, NEW S, Assign(i, S),
           i.ptr => \A o \in S : o \in nodes /\ Tracked(Val(i.name), o)
    PROVE  \A h \in holds' : h = <<h[1], h[2]>> /\ h[2] \in nodes /\ Tracked(h[1], h[2])
<1>1. CASE i.ptr
  <2>1. holds' = {h \in holds : h[1] # Val(i.name)} \cup ({Val(i.name)} \X S)
    BY <1>1 DEF Assign
  <2>2. \A h \in {Val(i.name)} \X S : h = <<h[1], h[2]>> /\ h[1] = Val(i.name) /\ h[2] \in S
    OBVIOUS
  <2> QED
    BY <1>1, <2>1, <2>2, HoldsFollow
<1>2. CASE ~i.ptr
  BY <1>2, HoldsFollow DEF Assign
<1> QED
  BY <1>1, <1>2

LEMMA AllocaKeeps ==
    ASSUME CollectInv, RunInv, Alloca
    PROVE  RunInv'
<1>1. pc = "running" /\ stack # << >> /\ Instruction.op = "alloca"
      /\ Assign(Instruction, {Obj(Instruction.name)}) /\ Proceed
  BY DEF Alloca, Executes
<1>2. Constraint("ADDR_OF", Val(Instruction.name), Obj(Instruction.name)) \in constraints
  BY <1>1, HereIs DEF Met
<1>3. Obj(Instruction.name) \in nodes /\ Tracked(Val(Instruction.name), Obj(Instruction.name))
  BY <1>1, <1>2, Tracks DEF Tracked
<1> QED
  BY <1>1, <1>3, AssignFollows, ProceedKeeps

\* One of the addresses that an operand denotes.
LEMMA SomeIs ==
    ASSUME NEW X, NEW S \in Some(X)
    PROVE  S \subseteq X
BY DEF Some

\* The result of an instruction, when it is copied from a pointer it has as an operand.
LEMMA CopiedFollows ==
    ASSUME CollectInv, RunInv, pc = "running", stack # << >>, NEW arg \in ToSet(Instruction.args),
           Constraint("COPY", Val(Instruction.name), ValueNodeFor(arg)) \in constraints,
           NEW o \in Denotes(arg)
    PROVE  o \in nodes /\ Tracked(Val(Instruction.name), o)
<1>1. IsPointer(arg)
  <2>1. ValueNodeFor(arg) \in nodes /\ nodes \subseteq Places
    BY Tracks DEF CollectInv, TypeInv
  <2> QED
    BY <2>1, HereIs, OperandIs, NodesArePlaces
<1>2. o \in nodes /\ Tracked(ValueNodeFor(arg), o)
  BY <1>1, OperandTracked
<1> QED
  BY <1>2, Tracks

LEMMA CopyPointerKeeps ==
    ASSUME CollectInv, RunInv, CopyPointer
    PROVE  RunInv'
<1> DEFINE i == Instruction
<1>1. /\ pc = "running" /\ stack # << >> /\ Proceed
      /\ i.op \in {"getelementptr", "phi", "bitcast", "select", "inttoptr"}
  BY DEF CopyPointer, Executes
<1>2. PICK arg \in ToSet(i.args) : \E S \in Some(Denotes(arg)) : Assign(i, S)
  BY DEF CopyPointer
<1>3. PICK S \in Some(Denotes(arg)) : Assign(i, S)
  BY <1>2
<1>4. S \subseteq Denotes(arg)
  BY SomeIs
<1>5. /\ program \in Programs /\ Here \in Functions /\ i \in ToSet(Here.body)
      /\ Met(constraints, Here, i)
  BY <1>1, HereIs
<1>6. ASSUME i.ptr, NEW o \in S
      PROVE  o \in nodes /\ Tracked(Val(i.name), o)
  <2>1. o \in Denotes(arg)
    BY <1>4
  <2>2. CASE i.op # "inttoptr"
    <3>1. Constraint("COPY", Val(i.name), ValueNodeFor(arg)) \in constraints
      BY <1>1, <1>5, <1>6, <2>2 DEF Met
    <3> QED
      BY <1>1, <2>1, <3>1, CopiedFollows
  <2>3. CASE i.op = "inttoptr"
    <3>1. Constraint("COPY", Val(i.name),
                     IF i.args[1][1] = "int" THEN UniversalPtr ELSE Val(i.args[1][2])) \in constraints
      BY <1>5, <2>3 DEF Met
    <3>2. Len(i.args) = 1 /\ ~IsPointer(i.args[1]) /\ i.args \in Seq(Operands)
          /\ ToSet(i.args) = {i.args[k] : k \in DOMAIN i.args}
      BY <1>5, <2>3, InstructionIs DEF InstructionFits
    <3>3. arg = i.args[1]
      BY <3>2
    <3>4. arg[1] \in {"int", "ptrtoint", "ptrtoint+"}
      BY <3>2, <3>3 DEF IsPointer, IntegerKinds
    <3>5. o \in nodes /\ (arg[1] # "int" => Tracked(Val(arg[2]), o))
      BY <1>1, <2>1, <3>4, OperandTracked
    <3>6. CASE arg[1] = "int"
      <4>1. Constraint("COPY", Val(i.name), UniversalPtr) \in constraints
        BY <3>1, <3>3, <3>6
      <4> QED
        BY <1>1, <3>5, <4>1, Tracks DEF Tracked
    <3>7. CASE arg[1] # "int"
      <4>1. Constraint("COPY", Val(i.name), Val(arg[2])) \in constraints
        BY <3>1, <3>3, <3>7
      <4> QED
        BY <1>1, <3>5, <3>7, <4>1, Tracks
    <3> QED
      BY <3>6, <3>7
  <2> QED
    BY <2>2, <2>3
<1>7. \A h \in holds' : h = <<h[1], h[2]>> /\ h[2] \in nodes /\ Tracked(h[1], h[2])
  BY <1>1, <1>3, <1>6, AssignFollows
<1> QED
  BY <1>1, <1>7, ProceedKeeps

\* A place that an operand denotes and the solution has not lost.
LEMMA PlaceIsKnown ==
    ASSUME CollectInv, RunInv, pc = "running", stack # << >>, NEW arg \in ToSet(Instruction.args),
           IsPointer(arg), NEW p \in Denotes(arg), ~IsLost(arg, p)
    PROVE  <<ValueNodeFor(arg), p>> \in sol
<1>1. \A n, a : <<n, a>> \in sol => a \in At(sol, n)
  BY DEF At
<1>2. \A n, a : a \in At(sol, n) => <<n, a>> \in sol
  <2>1. sol \in SUBSET (nodes \X nodes)
    BY DEF RunInv
  <2> QED
    BY <2>1 DEF At
<1>3. Tracked(ValueNodeFor(arg), p)
  BY OperandTracked
<1> QED
  BY <1>1, <1>2, <1>3 DEF Tracked, IsLost

LEMMA HeldIsTracked ==
    ASSUME RunInv, pc = "running", NEW p, NEW o \in At(holds, p)
    PROVE  o \in nodes /\ Tracked(p, o)
BY HoldsFollow DEF At

LEMMA LoadKeeps ==
    ASSUME CollectInv, RunInv, Load, ~strayed'
    PROVE  RunInv'
<1> DEFINE i == Instruction
<1>1. /\ pc = "running" /\ stack # << >> /\ Proceed /\ i.op = "load"
      /\ \E p \in Denotes(i.args[1]) :
            /\ \E S \in Some(Contents(p)) : Assign(i, S)
            /\ strayed' = (strayed \/ IsLost(i.args[1], p) \/ IsElsewhere(p))
  BY DEF Load, Executes
<1>2. PICK p \in Denotes(i.args[1]) :
            /\ \E S \in Some(Contents(p)) : Assign(i, S)
            /\ ~IsLost(i.args[1], p) /\ ~IsElsewhere(p)
  BY Zenon, <1>1
<1>3. PICK S \in Some(Contents(p)) : Assign(i, S)
  BY <1>2
<1>4. S \subseteq At(holds, p)
  BY <1>2, SomeIs DEF Contents
<1>5. /\ program \in Programs /\ Here \in Functions /\ i \in ToSet(Here.body)
      /\ Met(constraints, Here, i)
  BY <1>1, HereIs
<1>6. i.args[1] \in ToSet(i.args) /\ IsPointer(i.args[1])
  BY <1>1, <1>5, InstructionIs DEF InstructionFits
<1>7. <<ValueNodeFor(i.args[1]), p>> \in sol
  BY <1>1, <1>2, <1>6, PlaceIsKnown
<1>8. ASSUME i.ptr, NEW o \in S
      PROVE  o \in nodes /\ Tracked(Val(i.name), o)
  <2>1. o \in nodes /\ Tracked(p, o)
    BY <1>1, <1>4, HeldIsTracked
  <2>2. Constraint("LOAD", Val(i.name), ValueNodeFor(i.args[1])) \in constraints
    BY <1>1, <1>5, <1>8 DEF Met
  <2> QED
    BY <1>1, <1>7, <2>1, <2>2, Tracks
<1>9. \A h \in holds' : h = <<h[1], h[2]>> /\ h[2] \in nodes /\ Tracked(h[1], h[2])
  BY <1>1, <1>3, <1>8, AssignFollows
<1> QED
  BY <1>1, <1>9, ProceedKeeps

LEMMA StoreKeeps ==
    ASSUME CollectInv, RunInv, Store, ~strayed'
    PROVE  RunInv'
<1> DEFINE i == Instruction
           held == IF IsPointer(i.args[1]) THEN Denotes(i.args[1]) ELSE {}
<1>1. /\ pc = "running" /\ stack # << >> /\ Proceed /\ i.op = "store"
      /\ \E p \in Denotes(i.args[2]) :
            /\ holds' = holds \cup ({p} \X held)
            /\ strayed' = (strayed \/ IsLost(i.args[2], p))
  BY DEF Store, Executes
<1>2. PICK p \in Denotes(i.args[2]) : holds' = holds \cup ({p} \X held) /\ ~IsLost(i.args[2], p)
  BY Zenon, <1>1
<1>3. /\ program \in Programs /\ Here \in Functions /\ i \in ToSet(Here.body)
      /\ Met(constraints, Here, i)
  BY <1>1, HereIs
<1>4. /\ i.args[1] \in ToSet(i.args) /\ i.args[2] \in ToSet(i.args) /\ IsPointer(i.args[2])
  BY <1>1, <1>3, InstructionIs DEF InstructionFits
<1>5. <<ValueNodeFor(i.args[2]), p>> \in sol
  BY <1>1, <1>2, <1>4, PlaceIsKnown
<1>6. ASSUME NEW o \in held
      PROVE  o \in nodes /\ Tracked(p, o)
  <2>1. IsPointer(i.args[1]) /\ o \in Denotes(i.args[1])
    OBVIOUS
  <2>2. o \in nodes /\ Tracked(ValueNodeFor(i.args[1]), o)
    BY <1>1, <1>4, <2>1, OperandTracked
  <2>3. Constraint("STORE", ValueNodeFor(i.args[2]), ValueNodeFor(i.args[1])) \in constraints
    BY <1>1, <1>3, <2>1 DEF Met
  <2> QED
    BY <1>1, <1>5, <2>2, <2>3, Tracks
<1>7. \A h \in {p} \X held : h = <<h[1], h[2]>> /\ h[1] = p /\ h[2] \in held
  OBVIOUS
<1> HIDE DEF held
<1>8. \A h \in holds' : h = <<h[1], h[2]>> /\ h[2] \in nodes /\ Tracked(h[1], h[2])
  BY <1>1, <1>2, <1>6, <1>7, HoldsFollow
<1> QED
  BY <1>1, <1>8, ProceedKeeps

LEMMA NextArgumentKeeps ==
    ASSUME CollectInv, RunInv, NextArgument
    PROVE  RunInv'
<1> DEFINE i == Instruction
<1>1. /\ pc = "running" /\ stack # << >> /\ Proceed /\ i.op = "va_arg"
      /\ \E S \in Some(At(holds, Vararg(Here.name))) : Assign(i, S)
  BY DEF NextArgument, Executes
<1>2. PICK S \in Some(At(holds, Vararg(Here.name))) : Assign(i, S)
  BY <1>1
<1>3. S \subseteq At(holds, Vararg(Here.name))
  BY SomeIs
<1>4. ASSUME i.ptr, NEW o \in S
      PROVE  o \in nodes /\ Tracked(Val(i.name), o)
  <2>1. o \in nodes /\ Tracked(Vararg(Here.name), o)
    BY <1>1, <1>3, HeldIsTracked
  <2>2. Constraint("COPY", Val(i.name), Vararg(Here.name)) \in constraints
    BY <1>1, <1>4, HereIs DEF Met
  <2> QED
    BY <1>1, <2>1, <2>2, Tracks
<1>5. \A h \in holds' : h = <<h[1], h[2]>> /\ h[2] \in nodes /\ Tracked(h[1], h[2])
  BY <1>1, <1>2, <1>4, AssignFollows
<1> QED
  BY <1>1, <1>5, ProceedKeeps

LEMMA BranchKeeps ==
    ASSUME CollectInv, RunInv, Branch
    PROVE  RunInv'
<1>1. /\ pc = "running" /\ stack # << >> /\ Instruction.op = "br" /\ (Goto(1) \/ Goto(Frame[2] + 1))
      /\ UNCHANGED <<collecting, sol, holds>>
  BY DEF Branch, Executes
<1>2. 1 \in DOMAIN Body(Frame[1]) /\ Frame[2] + 1 \in DOMAIN Body(Frame[1])
  BY <1>1, HereIs
<1>3. StackInv'
  BY <1>1, <1>2, GotoKeeps DEF collecting
<1>4. \A h \in holds' : h = <<h[1], h[2]>> /\ h[2] \in nodes /\ Tracked(h[1], h[2])
  BY <1>1, HoldsFollow
<1> QED
  BY <1>1, <1>3, <1>4, RunKeeps

\* A call adds a frame.
LEMMA AppendKeeps ==
    ASSUME CollectInv, RunInv, pc = "running", stack # << >>, program' = program,
           Instruction.op = "call", NEW k \in Callees(Instruction), IsDefined(program.functions[k]),
           stack' = Append(stack, <<k, 1>>)
    PROVE  StackInv'
<1> DEFINE n == Len(stack)
           e == <<k, 1>>
<1>1. stack \in Seq(Nat \X Nat) /\ n \in Nat /\ n \in DOMAIN stack /\ DOMAIN stack = 1 .. n
  <2>1. stack \in Seq(Nat \X Nat) /\ n \in DOMAIN stack
    BY HereIs DEF RunInv, StackInv
  <2> QED
    BY <2>1
<1>2. k \in DOMAIN program.functions /\ k \in Nat /\ program.functions[k] \in Functions
      /\ (IsDirect(Instruction) => Named(Instruction.callee[2]) = program.functions[k])
  BY CalleeReached, HereIs, ProgramIs
<1>3. 1 \in DOMAIN Body(k)
  <2>1. Body(k) \in Seq(InstructionRecords) /\ Body(k) # << >>
    BY <1>2, HereIs, FunctionIs DEF Body, IsDefined
  <2> QED
    BY <2>1
<1>4. e \in Nat \X Nat /\ e[1] = k /\ e[2] = 1
  BY <1>2
<1>5. stack' = Append(stack, e)
  OBVIOUS
<1> HIDE DEF e
<1>6. /\ stack' \in Seq(Nat \X Nat) /\ Len(stack') = n + 1 /\ DOMAIN stack' = 1 .. (n + 1)
      /\ stack'[n + 1] = e /\ \A m \in 1 .. n : stack'[m] = stack[m]
  BY <1>1, <1>4, <1>5
<1> HIDE DEF n
<1>7. \A m \in DOMAIN stack' :
        stack'[m][1] \in DOMAIN program.functions /\ stack'[m][2] \in DOMAIN Body(stack'[m][1])
  <2> SUFFICES ASSUME NEW m \in DOMAIN stack'
               PROVE  stack'[m][1] \in DOMAIN program.functions /\ stack'[m][2] \in DOMAIN Body(stack'[m][1])
    OBVIOUS
  <2>1. CASE m = n + 1
    BY <1>2, <1>3, <1>4, <1>6, <2>1
  <2>2. CASE m # n + 1
    <3>1. m \in DOMAIN stack /\ stack'[m] = stack[m]
      BY <1>1, <1>6, <2>2
    <3> QED
      BY <3>1 DEF RunInv, StackInv
  <2> QED
    BY <2>1, <2>2
<1>8. ASSUME NEW m \in DOMAIN stack', m # Len(stack')
      PROVE  LET c == Body(stack'[m][1])[stack'[m][2]]
             IN  c.op = "call" /\ (IsDirect(c) => Named(c.callee[2]) = program.functions[stack'[m + 1][1]])
  <2>1. m \in 1 .. n /\ m \in DOMAIN stack /\ stack'[m] = stack[m]
    <3>1. m \in 1 .. (n + 1) /\ m # n + 1
      BY <1>6, <1>8
    <3>2. m \in 1 .. n
      BY <1>1, <3>1
    <3> QED
      BY <1>1, <1>6, <3>2
  <2>2. CASE m = n
    <3>1. Instruction = Body(stack[m][1])[stack[m][2]]
      BY <2>2, HereIs DEF Frame, n
    <3>2. stack'[m + 1][1] = k
      BY <1>4, <1>6, <2>2
    <3> QED
      BY <1>2, <2>1, <3>1, <3>2
  <2>3. CASE m # n
    <3>1. m + 1 \in 1 .. n
      BY SMTT(30), <1>1, <2>1, <2>3
    <3>2. stack'[m + 1] = stack[m + 1]
      BY <1>6, <3>1
    <3>3. LET c == Body(stack[m][1])[stack[m][2]]
          IN  c.op = "call" /\ (IsDirect(c) => Named(c.callee[2]) = program.functions[stack[m + 1][1]])
      BY <2>1, <2>3 DEF RunInv, StackInv, n
    <3> QED
      BY <2>1, <3>2, <3>3
  <2> QED
    BY <2>2, <2>3
<1>9. (stack \in Seq(Nat \X Nat))'
  BY <1>6
<1>10. (\A m \in DOMAIN stack :
          stack[m][1] \in DOMAIN program.functions /\ stack[m][2] \in DOMAIN Body(stack[m][1]))'
  BY <1>7, SameProgram
<1>11. (\A m \in DOMAIN stack : m # Len(stack) =>
          LET c == Body(stack[m][1])[stack[m][2]]
          IN  c.op = "call" /\ (IsDirect(c) => Named(c.callee[2]) = program.functions[stack[m + 1][1]]))'
  BY <1>8, SameProgram
<1> QED
  BY <1>9, <1>10, <1>11 DEF StackInv

LEMMA CallFunctionKeeps ==
    ASSUME CollectInv, RunInv, CallFunction
    PROVE  RunInv'
<1> DEFINE i == Instruction
           args == i.args
<1>1. /\ pc = "running" /\ stack # << >> /\ i.op = "call" /\ UNCHANGED <<collecting, sol>>
  BY Zenon DEF CallFunction, Executes
<1>2. PICK k \in {k \in Callees(i) : IsDefined(program.functions[k])} :
        LET g == program.functions[k]
            pointers == {j \in DOMAIN g.formals : g.formals[j][2]}
            rest == {args[j] : j \in DOMAIN args \ DOMAIN g.formals}
        IN  /\ \E given \in [pointers -> {{}} \cup {{a} : a \in Anywhere}] :
                /\ \A j \in pointers : given[j] \in Some(Denotes(args[j]))
                /\ holds' = {h \in holds : h[1] \notin {Val(g.formals[j][1]) : j \in pointers}}
                            \cup (UNION {{Val(g.formals[j][1])} \X given[j] : j \in pointers})
                            \cup ({Vararg(g.name)} \X UNION {Denotes(a) : a \in {a \in rest : IsPointer(a)}})
            /\ stack' = Append(stack, <<k, 1>>)
  BY Zenon DEF CallFunction
<1> DEFINE g == program.functions[k]
           pointers == {j \in DOMAIN g.formals : g.formals[j][2]}
           rest == {args[j] : j \in DOMAIN args \ DOMAIN g.formals}
           more == UNION {Denotes(a) : a \in {a \in rest : IsPointer(a)}}
<1>3. PICK given \in [pointers -> {{}} \cup {{a} : a \in Anywhere}] :
        /\ \A j \in pointers : given[j] \in Some(Denotes(args[j]))
        /\ holds' = {h \in holds : h[1] \notin {Val(g.formals[j][1]) : j \in pointers}}
                    \cup (UNION {{Val(g.formals[j][1])} \X given[j] : j \in pointers})
                    \cup ({Vararg(g.name)} \X more)
  BY Zenon, <1>2
<1>4. stack' = Append(stack, <<k, 1>>) /\ k \in Callees(i) /\ IsDefined(g)
  BY Zenon, <1>2
<1>5. StackInv'
  BY <1>1, <1>4, AppendKeeps DEF collecting
<1>6. /\ program \in Programs /\ Here \in Functions /\ i \in ToSet(Here.body)
      /\ Met(constraints, Here, i)
  BY <1>1, HereIs
<1>7. g \in Reached(i) /\ g \in Functions
  BY <1>1, <1>4, CalleeReached
<1>8. ArgumentsMet(constraints, i, g)
  BY <1>1, <1>4, <1>6, <1>7 DEF Met, CallMet
<1>9. DOMAIN g.formals \subseteq DOMAIN args /\ (g.vararg \/ DOMAIN args = DOMAIN g.formals)
      /\ \A j \in DOMAIN args : args[j] \in ToSet(args)
  <2>1. args \in Seq(Operands) /\ g.formals \in Seq(STRING \X BOOLEAN)
        /\ ToSet(args) = {args[j] : j \in DOMAIN args}
    BY <1>6, <1>7, InstructionIs, FunctionIs
  <2>2. Len(g.formals) = Len(args) \/ (g.vararg /\ Len(g.formals) =< Len(args))
    BY <1>4 DEF Callees
  <2> QED
    BY <2>1, <2>2
<1> HIDE DEF g, args
<1>10. ASSUME NEW j \in pointers, NEW o \in given[j]
       PROVE  o \in nodes /\ Tracked(Val(g.formals[j][1]), o)
  <2>1. o \in Denotes(args[j])
    BY <1>3, SomeIs
  <2>2. j \in DOMAIN g.formals \cap DOMAIN args /\ g.formals[j][2] /\ args[j] \in ToSet(args)
    BY <1>9
  <2>3. o \in nodes /\ (IsPointer(args[j]) => Tracked(ValueNodeFor(args[j]), o))
    BY <1>1, <2>1, <2>2, OperandTracked DEF args
  <2>4. Constraint("COPY", Val(g.formals[j][1]),
                   IF IsPointer(args[j]) THEN ValueNodeFor(args[j]) ELSE UniversalPtr) \in constraints
    BY <1>8, <2>2 DEF ArgumentsMet, args
  <2>5. CASE IsPointer(args[j])
    BY <1>1, <2>3, <2>4, <2>5, Tracks
  <2>6. CASE ~IsPointer(args[j])
    BY <1>1, <2>3, <2>4, <2>6, Tracks DEF Tracked
  <2> QED
    BY <2>5, <2>6
<1>11. ASSUME NEW o \in more
       PROVE  o \in nodes /\ Tracked(Vararg(g.name), o)
  <2>1. PICK j \in DOMAIN args \ DOMAIN g.formals : IsPointer(args[j]) /\ o \in Denotes(args[j])
    OBVIOUS
  <2>2. g.vararg /\ args[j] \in ToSet(args)
    BY <1>9
  <2>3. o \in nodes /\ Tracked(ValueNodeFor(args[j]), o)
    BY <1>1, <2>1, <2>2, OperandTracked DEF args
  <2>4. Constraint("COPY", Vararg(g.name), ValueNodeFor(args[j])) \in constraints
    BY <1>8, <2>1, <2>2 DEF ArgumentsMet, args
  <2> QED
    BY <1>1, <2>3, <2>4, Tracks
<1> DEFINE passed == UNION {{Val(g.formals[j][1])} \X given[j] : j \in pointers}
           extra == {Vararg(g.name)} \X more
<1>12. \A h \in extra : h = <<h[1], h[2]>> /\ h[1] = Vararg(g.name) /\ h[2] \in more
  OBVIOUS
<1>13. \A h \in passed :
        h = <<h[1], h[2]>> /\ \E j \in pointers : h[1] = Val(g.formals[j][1]) /\ h[2] \in given[j]
  OBVIOUS
<1>14. holds' \subseteq holds \cup passed \cup extra
  BY <1>3
<1> HIDE DEF more, pointers, passed, extra
<1>15. \A h \in extra : h = <<h[1], h[2]>> /\ h[2] \in nodes /\ Tracked(h[1], h[2])
  BY <1>11, <1>12
<1>16. \A h \in passed : h = <<h[1], h[2]>> /\ h[2] \in nodes /\ Tracked(h[1], h[2])
  BY <1>10, <1>13
<1>17. \A h \in holds' : h = <<h[1], h[2]>> /\ h[2] \in nodes /\ Tracked(h[1], h[2])
  BY Zenon, <1>1, <1>14, <1>15, <1>16, HoldsFollow
<1> QED
  BY <1>1, <1>5, <1>17, RunKeeps

\* A sequence without its last element, and with one element replaced.
LEMMA LastDropped ==
    ASSUME NEW X, NEW s \in Seq(X), s # << >>, Len(s) # 1
    PROVE  LET n == Len(s)
           IN  /\ n \in Nat /\ n - 1 \in Nat /\ n \in DOMAIN s /\ n - 1 \in DOMAIN s
               /\ n - 1 # n /\ (n - 1) + 1 = n /\ DOMAIN s = 1 .. n
               /\ n - 1 \in 1 .. (n - 1) /\ s[n - 1] \in X
               /\ Front(s) \in Seq(X) /\ Len(Front(s)) = n - 1 /\ DOMAIN Front(s) = 1 .. (n - 1)
               /\ \A m \in 1 .. (n - 1) : Front(s)[m] = s[m]
<1> DEFINE n == Len(s)
<1>1. n \in Nat /\ DOMAIN s = 1 .. n /\ n # 0
  OBVIOUS
<1>2. n \in DOMAIN s
  BY <1>1
<1>3. Front(s) \in Seq(X) /\ Len(Front(s)) = n - 1 /\ \A m \in 1 .. (n - 1) : Front(s)[m] = s[m]
  <2>1. Front(s) = SubSeq(s, 1, n - 1)
    BY DEF Front
  <2> QED
    BY <1>1, <2>1
<1>4. DOMAIN Front(s) = 1 .. (n - 1)
  BY <1>3
<1>5. n # 1
  OBVIOUS
<1> HIDE DEF n
<1>6. n - 1 \in Nat /\ n - 1 \in 1 .. n /\ n - 1 # n /\ (n - 1) + 1 = n /\ n - 1 \in 1 .. (n - 1)
  BY <1>1, <1>5
<1>7. s[n - 1] \in X
  <2>1. \A m \in DOMAIN s : s[m] \in X
    OBVIOUS
  <2> QED
    BY <1>1, <1>6, <2>1
<1> QED
  BY Zenon, <1>1, <1>2, <1>3, <1>4, <1>6, <1>7 DEF n

LEMMA OneReplaced ==
    ASSUME NEW X, NEW s \in Seq(X), NEW n \in DOMAIN s, NEW e \in X
    PROVE  LET t == [s EXCEPT ![n] = e]
           IN  /\ t \in Seq(X) /\ Len(t) = Len(s) /\ DOMAIN t = DOMAIN s
               /\ t[n] = e /\ \A m \in DOMAIN s : m # n => t[m] = s[m]
BY SMTT(30)

\* A return drops the last frame, and the one before it goes on after its call.
LEMMA ReturnKeepsStack ==
    ASSUME CollectInv, RunInv, pc = "running", program' = program, Len(stack) # 1, stack # << >>,
           stack' = [Front(stack) EXCEPT ![Len(stack) - 1] =
                        <<stack[Len(stack) - 1][1], stack[Len(stack) - 1][2] + 1>>]
    PROVE  StackInv'
<1> DEFINE n == Len(stack)
           caller == stack[n - 1]
           e == <<caller[1], caller[2] + 1>>
<1>1. stack \in Seq(Nat \X Nat) /\ n \in Nat /\ DOMAIN stack = 1 .. n
      /\ n - 1 \in DOMAIN stack /\ n - 1 # n /\ n - 1 \in Nat
  BY LastDropped DEF RunInv, StackInv
<1>2. caller \in Nat \X Nat /\ e \in Nat \X Nat /\ e[1] = caller[1] /\ e[2] = caller[2] + 1
  <2>1. caller \in Nat \X Nat
    BY Zenon, LastDropped DEF RunInv, StackInv
  <2> QED
    BY <2>1
<1>3. /\ caller[1] \in DOMAIN program.functions /\ caller[2] \in DOMAIN Body(caller[1])
      /\ Body(caller[1])[caller[2]].op = "call"
  BY Zenon, <1>1 DEF RunInv, StackInv
<1>4. caller[2] + 1 \in DOMAIN Body(caller[1])
  <2> DEFINE f == program.functions[caller[1]]
  <2>1. program \in Programs /\ f \in Functions
    BY <1>3, HereIs, ProgramIs
  <2>2. f.body \in Seq(InstructionRecords) /\ f.body = Body(caller[1])
    BY <2>1, FunctionIs DEF Body
  <2>3. \A k \in DOMAIN f.body : f.body[k].op = "ret" <=> k = Len(f.body)
    BY <2>1, ProgramIs DEF WellFormed, CodeIsComplete, Functions
  <2>4. caller[2] # Len(f.body)
    BY <1>3, <2>2, <2>3
  <2>5. caller[2] \in 1 .. Len(f.body) /\ Len(f.body) \in Nat
    BY <1>3, <2>2
  <2> QED
    BY <2>2, <2>4, <2>5
<1>5. stack' = [Front(stack) EXCEPT ![n - 1] = e]
  BY Zenon
<1>6. /\ Front(stack) \in Seq(Nat \X Nat) /\ Len(Front(stack)) = n - 1
      /\ DOMAIN Front(stack) = 1 .. (n - 1) /\ n - 1 \in 1 .. (n - 1)
      /\ \A m \in 1 .. (n - 1) : Front(stack)[m] = stack[m]
  BY Zenon, <1>1, LastDropped
<1> HIDE DEF e, caller, n
<1>7. /\ stack' \in Seq(Nat \X Nat) /\ Len(stack') = n - 1 /\ DOMAIN stack' = 1 .. (n - 1)
      /\ stack'[n - 1] = e
      /\ \A m \in 1 .. (n - 1) : m # n - 1 => stack'[m] = stack[m]
  <2> DEFINE s == Front(stack)
             p == n - 1
  <2>1. s \in Seq(Nat \X Nat) /\ Len(s) = p /\ DOMAIN s = 1 .. p /\ p \in DOMAIN s
        /\ stack' = [s EXCEPT ![p] = e] /\ \A m \in 1 .. p : s[m] = stack[m]
    BY <1>5, <1>6
  <2> HIDE DEF s, p
  <2>2. stack' \in Seq(Nat \X Nat) /\ Len(stack') = Len(s) /\ DOMAIN stack' = DOMAIN s
        /\ stack'[p] = e /\ \A m \in DOMAIN s : m # p => stack'[m] = s[m]
    <3> DEFINE t == [s EXCEPT ![p] = e]
               X == Nat \X Nat
    <3>1. s \in Seq(X) /\ p \in DOMAIN s /\ e \in X
      BY <1>2, <2>1
    <3>2. stack' = t
      BY <2>1
    <3> HIDE DEF X
    <3>3. t \in Seq(X) /\ Len(t) = Len(s) /\ DOMAIN t = DOMAIN s
          /\ t[p] = e /\ \A m \in DOMAIN s : m # p => t[m] = s[m]
      BY <3>1, OneReplaced
    <3> HIDE DEF t
    <3> QED
      BY <3>2, <3>3 DEF X
  <2>3. stack' \in Seq(Nat \X Nat) /\ Len(stack') = p /\ DOMAIN stack' = 1 .. p
        /\ stack'[p] = e /\ \A m \in 1 .. p : m # p => stack'[m] = stack[m]
    BY <2>1, <2>2
  <2> QED
    BY <2>3 DEF p
<1>8. \A m \in 1 .. (n - 1) : m \in DOMAIN stack /\ stack'[m][1] = stack[m][1]
  <2> SUFFICES ASSUME NEW m \in 1 .. (n - 1)
               PROVE  m \in DOMAIN stack /\ stack'[m][1] = stack[m][1]
    OBVIOUS
  <2>1. m \in DOMAIN stack
    BY <1>1
  <2> QED
    BY <1>2, <1>7, <2>1 DEF caller, n
<1>9. \A m \in DOMAIN stack' :
        stack'[m][1] \in DOMAIN program.functions /\ stack'[m][2] \in DOMAIN Body(stack'[m][1])
  <2> SUFFICES ASSUME NEW m \in 1 .. (n - 1)
               PROVE  stack'[m][1] \in DOMAIN program.functions /\ stack'[m][2] \in DOMAIN Body(stack'[m][1])
    BY <1>7
  <2>1. CASE m = n - 1
    BY <1>2, <1>3, <1>4, <1>7, <2>1
  <2>2. CASE m # n - 1
    <3>1. stack'[m] = stack[m] /\ m \in DOMAIN stack
      BY <1>7, <1>8, <2>2
    <3> QED
      BY <3>1 DEF RunInv, StackInv
  <2> QED
    BY <2>1, <2>2
<1>10. ASSUME NEW m \in DOMAIN stack', m # Len(stack')
       PROVE  LET c == Body(stack'[m][1])[stack'[m][2]]
              IN  c.op = "call" /\ (IsDirect(c) => Named(c.callee[2]) = program.functions[stack'[m + 1][1]])
  <2>1. m \in 1 .. (n - 1) /\ m # n - 1 /\ m \in DOMAIN stack /\ stack'[m] = stack[m]
    BY <1>7, <1>8, <1>10
  <2>2. m + 1 \in 1 .. (n - 1) /\ m # n
    <3>1. n \in Nat
      BY <1>1
    <3>2. m \in 1 .. (n - 1) /\ m # n - 1
      BY <2>1
    <3> HIDE DEF n
    <3> QED
      BY <3>1, <3>2
  <2>3. stack'[m + 1][1] = stack[m + 1][1]
    BY <1>8, <2>2
  <2>4. LET c == Body(stack[m][1])[stack[m][2]]
        IN  c.op = "call" /\ (IsDirect(c) => Named(c.callee[2]) = program.functions[stack[m + 1][1]])
    BY <2>1, <2>2 DEF RunInv, StackInv, n
  <2> QED
    BY <2>1, <2>3, <2>4
<1>11. (stack \in Seq(Nat \X Nat))'
  BY <1>7
<1>12. (\A m \in DOMAIN stack :
          stack[m][1] \in DOMAIN program.functions /\ stack[m][2] \in DOMAIN Body(stack[m][1]))'
  BY <1>9, SameProgram
<1>13. (\A m \in DOMAIN stack : m # Len(stack) =>
          LET c == Body(stack[m][1])[stack[m][2]]
          IN  c.op = "call" /\ (IsDirect(c) => Named(c.callee[2]) = program.functions[stack[m + 1][1]]))'
  BY <1>10, SameProgram
<1> QED
  BY <1>11, <1>12, <1>13 DEF StackInv

LEMMA EmptyStackKeeps ==
    ASSUME stack' = << >>
    PROVE  StackInv'
BY DEF StackInv

LEMMA ReturnKeeps ==
    ASSUME CollectInv, RunInv, Return
    PROVE  RunInv'
<1> DEFINE i == Instruction
           n == Len(stack)
           caller == stack[n - 1]
           call == program.functions[caller[1]].body[caller[2]]
           Goes == call.ptr /\ i.args # << >> /\ IsPointer(i.args[1])
<1>1. /\ pc = "running" /\ stack # << >> /\ i.op = "ret" /\ UNCHANGED <<collecting, sol>>
  BY Zenon DEF Return, Executes
<1>2. CASE Len(stack) = 1
  <2>1. stack' = << >> /\ holds' = holds
    BY <1>2 DEF Return
  <2>2. \A h \in holds' : h = <<h[1], h[2]>> /\ h[2] \in nodes /\ Tracked(h[1], h[2])
    BY <1>1, <2>1, HoldsFollow
  <2> QED
    BY <1>1, <2>1, <2>2, EmptyStackKeeps, RunKeeps
<1>3. CASE Len(stack) # 1
  <2>1. /\ stack' = [Front(stack) EXCEPT ![n - 1] = <<caller[1], caller[2] + 1>>]
        /\ IF Goes
           THEN \E S \in Some(Denotes(i.args[1])) :
                    holds' = ({h \in holds : h[1] # Val(call.name)} \cup ({Val(call.name)} \X S))
                             \cup ({Ret(Here.name)} \X S)
           ELSE holds' = holds
    BY Zenon, <1>3 DEF Return
  <2>2. StackInv'
    BY Zenon, <1>1, <1>3, <2>1, ReturnKeepsStack DEF collecting
  <2>3. CASE ~Goes
    <3>1. \A h \in holds' : h = <<h[1], h[2]>> /\ h[2] \in nodes /\ Tracked(h[1], h[2])
      BY Zenon, <1>1, <2>1, <2>3, HoldsFollow
    <3> QED
      BY Zenon, <1>1, <2>2, <3>1, RunKeeps
  <2>4. CASE Goes
    <3>1. PICK S \in Some(Denotes(i.args[1])) :
                    holds' = ({h \in holds : h[1] # Val(call.name)} \cup ({Val(call.name)} \X S))
                             \cup ({Ret(Here.name)} \X S)
      BY Zenon, <2>1, <2>4
    <3>2. /\ program \in Programs /\ Here \in Functions /\ i \in ToSet(Here.body)
          /\ Met(constraints, Here, i) /\ Here = program.functions[Frame[1]]
          /\ n \in DOMAIN stack
      BY <1>1, HereIs
    <3>3. i.args[1] \in ToSet(i.args)
      <4>1. i.args \in Seq(Operands) /\ ToSet(i.args) = {i.args[k] : k \in DOMAIN i.args}
        BY <3>2, InstructionIs
      <4> QED
        BY <2>4, <4>1
    <3>4. n - 1 \in DOMAIN stack /\ n - 1 # n /\ (n - 1) + 1 = n
      BY Zenon, <1>1, <1>3, LastDropped DEF RunInv, StackInv
    <3>5. /\ caller[1] \in DOMAIN program.functions /\ caller[2] \in DOMAIN Body(caller[1])
          /\ call = Body(caller[1])[caller[2]] /\ call.op = "call"
          /\ IsDirect(call) => Named(call.callee[2]) = Here
      <4>1. call = Body(caller[1])[caller[2]]
        BY DEF Body
      <4> HIDE DEF call
      <4>2. /\ caller[1] \in DOMAIN program.functions /\ caller[2] \in DOMAIN Body(caller[1])
            /\ call.op = "call"
            /\ IsDirect(call) => Named(call.callee[2]) = program.functions[stack[(n - 1) + 1][1]]
        BY Zenon, <1>1, <3>4, <4>1 DEF RunInv, StackInv
      <4> QED
        BY Zenon, <3>2, <3>4, <4>1, <4>2 DEF Frame
    <3>6. Met(constraints, program.functions[caller[1]], call)
      BY <1>1, <3>5 DEF CollectInv, Behind
    <3>7. IsDefined(Here)
      <4>1. 1 \in DOMAIN Here.body
        BY <1>1, HereIs DEF Body
      <4> QED
        BY <4>1 DEF IsDefined
    <3> HIDE DEF caller, call
    <3>8. ASSUME NEW o \in S
          PROVE  o \in nodes /\ Tracked(Ret(Here.name), o) /\ Tracked(Val(call.name), o)
      <4>1. o \in Denotes(i.args[1])
        BY SomeIs
      <4>2. o \in nodes /\ Tracked(ValueNodeFor(i.args[1]), o)
        BY <1>1, <2>4, <3>3, <4>1, OperandTracked
      <4>3. Constraint("COPY", Ret(Here.name), ValueNodeFor(i.args[1])) \in constraints
        BY <1>1, <2>4, <3>2 DEF Met
      <4>4. Tracked(Ret(Here.name), o)
        BY <1>1, <4>2, <4>3, Tracks
      <4>5. CASE IsDirect(call)
        <5>1. CallMet(constraints, call, Here)
          BY <3>5, <3>6, <4>5 DEF Met, Reached
        <5>2. Constraint("COPY", Val(call.name), Ret(Here.name)) \in constraints
          BY <2>4, <3>7, <4>5, <5>1 DEF CallMet
        <5> QED
          BY <1>1, <4>2, <4>4, <5>2, Tracks
      <4>6. CASE ~IsDirect(call)
        <5>1. Constraint("COPY", Val(call.name), UniversalPtr) \in constraints
          BY <2>4, <3>5, <3>6, <4>6 DEF Met
        <5> QED
          BY <1>1, <4>2, <4>4, <5>1, Tracks DEF Tracked
      <4> QED
        BY <4>5, <4>6
    <3> DEFINE A == {Val(call.name)} \X S
               B == {Ret(Here.name)} \X S
    <3>9. \A h \in A : h = <<h[1], h[2]>> /\ h[1] = Val(call.name) /\ h[2] \in S
      OBVIOUS
    <3>10. \A h \in B : h = <<h[1], h[2]>> /\ h[1] = Ret(Here.name) /\ h[2] \in S
      OBVIOUS
    <3>11. holds' \subseteq holds \cup A \cup B
      BY <3>1
    <3> HIDE DEF A, B
    <3>12. \A h \in holds' : h = <<h[1], h[2]>> /\ h[2] \in nodes /\ Tracked(h[1], h[2])
      BY <1>1, <3>8, <3>9, <3>10, <3>11, HoldsFollow
    <3> QED
      BY Zenon, <1>1, <2>2, <3>12, RunKeeps
  <2> QED
    BY Zenon, <2>3, <2>4
<1> QED
  BY <1>2, <1>3

LEMMA CallLibraryKeeps ==
    ASSUME CollectInv, RunInv, CallLibrary
    PROVE  RunInv'
<1> DEFINE i == Instruction
           Held == \A h \in holds' : h = <<h[1], h[2]>> /\ h[2] \in nodes /\ Tracked(h[1], h[2])
<1>1. pc = "running" /\ stack # << >> /\ i.op = "call" /\ Proceed
  BY DEF CallLibrary, Executes
<1> SUFFICES Held
  BY <1>1, ProceedKeeps
<1>2. PICK k \in LibraryCallees(i) :
        LET kind == program.functions[k].kind
            Arg(j) == Denotes(i.args[j])
        IN  CASE kind = "malloc" -> Assign(i, {Obj(i.name)})
              [] kind = "noop" /\ ~i.ptr -> UNCHANGED holds
              [] kind = "va_start" -> UNCHANGED holds
              [] kind = "unknown" /\ i.ptr -> \E S \in Some(Anywhere) : Assign(i, S)
              [] kind = "retArg0" -> \E S \in Some(Arg(1)) : Assign(i, S)
              [] kind = "retArg1" -> \E S \in Some(Arg(2)) : Assign(i, S)
              [] kind = "retArg2" -> \E S \in Some(Arg(3)) : Assign(i, S)
              [] OTHER -> FALSE
  BY DEF CallLibrary
<1> DEFINE g == program.functions[k]
<1>3. /\ program \in Programs /\ Here \in Functions /\ i \in ToSet(Here.body)
      /\ Met(constraints, Here, i) /\ g \in Reached(i) /\ ~IsDefined(g)
  BY <1>1, HereIs, CalleeReached DEF LibraryCallees
<1>4. LibraryMet(constraints, i, g) /\
      (g.kind = "unknown" /\ i.ptr => Constraint("COPY", Val(i.name), UniversalPtr) \in constraints)
  BY <1>1, <1>3 DEF Met, CallMet
<1>5. \A j \in DOMAIN i.args : i.args[j] \in ToSet(i.args)
  BY <1>3, InstructionIs
<1>6. CASE g.kind = "malloc"
  <2>1. Assign(i, {Obj(i.name)})
    BY <1>2, <1>6
  <2>2. Constraint("ADDR_OF", Val(i.name), Obj(i.name)) \in constraints
    BY <1>4, <1>6 DEF LibraryMet
  <2>3. Obj(i.name) \in nodes /\ Tracked(Val(i.name), Obj(i.name))
    BY <1>1, <2>2, Tracks DEF Tracked
  <2> QED
    BY <1>1, <2>1, <2>3, AssignFollows
<1>7. CASE g.kind \in {"noop", "va_start"}
  <2>1. holds' = holds
    BY <1>2, <1>7
  <2> QED
    BY <1>1, <2>1, HoldsFollow
<1>8. CASE g.kind = "unknown"
  <2>1. i.ptr /\ \E S \in Some(Anywhere) : Assign(i, S)
    BY <1>2, <1>8
  <2>2. PICK S \in Some(Anywhere) : Assign(i, S)
    BY <2>1
  <2>3. S \subseteq Anywhere
    BY SomeIs
  <2>4. <<Val(i.name), UniversalObj>> \in sol
    BY <1>1, <1>4, <1>8, <2>1, Tracks
  <2>5. \A o \in S : o \in nodes /\ Tracked(Val(i.name), o)
    BY <2>3, <2>4 DEF Anywhere, Tracked
  <2> QED
    BY <1>1, <2>2, <2>5, AssignFollows
<1>9. ASSUME NEW j, j \in DOMAIN i.args,
             Constraint("COPY", Val(i.name), ValueNodeFor(i.args[j])) \in constraints,
             NEW S \in Some(Denotes(i.args[j])), Assign(i, S)
      PROVE  Held
  <2>1. \A o \in S : o \in nodes /\ Tracked(Val(i.name), o)
    <3> SUFFICES ASSUME NEW o \in S
                 PROVE  o \in nodes /\ Tracked(Val(i.name), o)
      OBVIOUS
    <3>1. o \in Denotes(i.args[j])
      BY SomeIs
    <3> QED
      BY <1>1, <1>5, <1>9, <3>1, CopiedFollows
  <2> QED
    BY <1>1, <1>9, <2>1, AssignFollows
<1>10. CASE g.kind = "retArg0"
  <2>1. PICK S \in Some(Denotes(i.args[1])) : Assign(i, S)
    BY <1>2, <1>10
  <2>2. 1 \in DOMAIN i.args /\ Constraint("COPY", Val(i.name), ValueNodeFor(i.args[1])) \in constraints
    BY <1>4, <1>10 DEF LibraryMet
  <2> QED
    BY <1>9, <2>1, <2>2
<1>11. CASE g.kind = "retArg1"
  <2>1. PICK S \in Some(Denotes(i.args[2])) : Assign(i, S)
    BY <1>2, <1>11
  <2>2. 2 \in DOMAIN i.args /\ Constraint("COPY", Val(i.name), ValueNodeFor(i.args[2])) \in constraints
    BY <1>4, <1>11 DEF LibraryMet
  <2> QED
    BY <1>9, <2>1, <2>2
<1>12. CASE g.kind = "retArg2"
  <2>1. PICK S \in Some(Denotes(i.args[3])) : Assign(i, S)
    BY <1>2, <1>12
  <2>2. 3 \in DOMAIN i.args /\ Constraint("COPY", Val(i.name), ValueNodeFor(i.args[3])) \in constraints
    BY <1>4, <1>12 DEF LibraryMet
  <2> QED
    BY <1>9, <2>1, <2>2
<1>13. g.kind \in {"malloc", "noop", "va_start", "unknown", "retArg0", "retArg1", "retArg2"}
  BY <1>2
<1> QED
  BY <1>6, <1>7, <1>8, <1>10, <1>11, <1>12, <1>13

LEMMA CopyMemoryKeeps ==
    ASSUME CollectInv, RunInv, CopyMemory, ~strayed'
    PROVE  RunInv'
<1> DEFINE i == Instruction
           Copied(d, s) == {d} \X Contents(s)
           Held == \A h \in holds' : h = <<h[1], h[2]>> /\ h[2] \in nodes /\ Tracked(h[1], h[2])
<1>1. pc = "running" /\ stack # << >> /\ i.op = "call" /\ Proceed
  BY DEF CopyMemory, Executes
<1> SUFFICES Held
  BY <1>1, ProceedKeeps
<1>2. PICK k \in LibraryCallees(i) : program.functions[k].kind = "memcpy"
  BY DEF CopyMemory
<1>3. \E d \in Denotes(i.args[1]), s \in Denotes(i.args[2]) :
        /\ IF i.ptr
           THEN holds' = {h \in holds : h[1] # Val(i.name)} \cup Copied(d, s) \cup {<<Val(i.name), d>>}
           ELSE holds' = holds \cup Copied(d, s)
        /\ strayed' = (strayed \/ IsLost(i.args[1], d) \/ IsLost(i.args[2], s) \/ IsElsewhere(s))
  BY DEF CopyMemory
<1>4. PICK d \in Denotes(i.args[1]), s \in Denotes(i.args[2]) :
        /\ IF i.ptr
           THEN holds' = {h \in holds : h[1] # Val(i.name)} \cup Copied(d, s) \cup {<<Val(i.name), d>>}
           ELSE holds' = holds \cup Copied(d, s)
        /\ ~IsLost(i.args[1], d) /\ ~IsLost(i.args[2], s) /\ ~IsElsewhere(s)
  BY Zenon, <1>3
<1> DEFINE g == program.functions[k]
           copied == Copied(d, s)
           temp == Temp(i.name, g.name)
<1>5. /\ program \in Programs /\ Here \in Functions /\ i \in ToSet(Here.body)
      /\ Met(constraints, Here, i) /\ g \in Reached(i) /\ ~IsDefined(g)
  BY <1>1, HereIs, CalleeReached DEF LibraryCallees
<1>6. LibraryMet(constraints, i, g)
  BY <1>1, <1>2, <1>5 DEF Met, CallMet
<1>7. \A j \in DOMAIN i.args : i.args[j] \in ToSet(i.args)
  BY <1>5, InstructionIs
<1>8. /\ {1, 2} \subseteq DOMAIN i.args
      /\ Constraint("LOAD", temp, ValueNodeFor(i.args[2])) \in constraints
      /\ Constraint("STORE", ValueNodeFor(i.args[1]), temp) \in constraints
      /\ i.ptr => Constraint("COPY", Val(i.name), ValueNodeFor(i.args[1])) \in constraints
  BY <1>2, <1>6 DEF LibraryMet
<1>9. i.args[1] \in ToSet(i.args) /\ i.args[2] \in ToSet(i.args)
  BY <1>7, <1>8
<1>10. IsPointer(i.args[1]) /\ IsPointer(i.args[2])
  <2>1. ValueNodeFor(i.args[1]) \in Places /\ ValueNodeFor(i.args[2]) \in Places
    BY <1>1, <1>8, Tracks DEF CollectInv, TypeInv
  <2>2. NoNode \notin Places
    BY NodesArePlaces
  <2>3. /\ ~IsPointer(i.args[1]) => ValueNodeFor(i.args[1]) = NoNode
        /\ ~IsPointer(i.args[2]) => ValueNodeFor(i.args[2]) = NoNode
    BY <1>5, <1>9, OperandIs
  <2> QED
    BY <2>1, <2>2, <2>3
<1>11. <<ValueNodeFor(i.args[1]), d>> \in sol /\ <<ValueNodeFor(i.args[2]), s>> \in sol
  BY <1>1, <1>4, <1>9, <1>10, PlaceIsKnown
<1>12. \A o \in Contents(s) : o \in nodes /\ Tracked(d, o)
  <2> SUFFICES ASSUME NEW o \in Contents(s)
               PROVE  o \in nodes /\ Tracked(d, o)
    OBVIOUS
  <2>1. o \in nodes /\ Tracked(s, o)
    BY <1>1, <1>4, HeldIsTracked DEF Contents
  <2>2. Tracked(temp, o)
    BY <1>1, <1>8, <1>11, <2>1, Tracks
  <2> QED
    BY <1>1, <1>8, <1>11, <2>1, <2>2, Tracks
<1>13. i.ptr => d \in nodes /\ Tracked(Val(i.name), d)
  BY <1>1, <1>8, <1>9, CopiedFollows
<1>14. \A h \in copied : h = <<h[1], h[2]>> /\ h[2] \in nodes /\ Tracked(h[1], h[2])
  BY <1>12
<1>15. holds' \subseteq IF i.ptr THEN holds \cup copied \cup {<<Val(i.name), d>>} ELSE holds \cup copied
  BY <1>4
<1> HIDE DEF copied
<1> QED
  BY <1>1, <1>13, <1>14, <1>15, HoldsFollow

-----------------------------------------------------------------------------
(* The invariant, and that the collection is sound.                            *)

LEMMA InvIsInductive ==
    /\ Init => Inv
    /\ Inv /\ [Next]_vars => Inv'
<1>1. Init => Inv
  BY InitCollects DEF Inv, RunInv, Init
<1>2. ASSUME Inv, CollectGlobals \/ CreateValueNodes \/ CollectInstruction
      PROVE  Inv'
  <2>1. CollectInv
    BY <1>2 DEF Inv
  <2>2. CollectInv'
    BY <1>2, <2>1, GlobalsCollect, ValuesCollect, InstructionCollects
  <2> QED
    BY <1>2, <2>1, <2>2, CollectingKeepsRun DEF Inv
<1>3. ASSUME Inv, Run
      PROVE  Inv'
  <2>1. CollectInv /\ (~strayed => RunInv)
    BY Zenon, <1>3 DEF Inv
  <2>2. UNCHANGED collecting
    BY Zenon, <1>3 DEF Run, Alloca, CopyPointer, Load, Store, NextArgument, Branch, CallFunction,
                Return, CallLibrary, CopyMemory, Proceed
  <2>3. CollectInv'
    BY <2>1, <2>2, KeepsCollected
  <2>4. ASSUME ~strayed'
        PROVE  RunInv'
    <3>1. ~strayed
      BY Zenon, <1>3, <2>4 DEF Run, Alloca, CopyPointer, Load, Store, NextArgument, Branch,
                               CallFunction, Return, CallLibrary, CopyMemory
    <3> QED
      BY <1>3, <2>1, <2>4, <3>1, AllocaKeeps, CopyPointerKeeps, LoadKeeps, StoreKeeps,
         NextArgumentKeeps, BranchKeeps, CallFunctionKeeps, ReturnKeeps, CallLibraryKeeps,
         CopyMemoryKeeps DEF Run
  <2> QED
    BY Zenon, <2>3, <2>4 DEF Inv
<1>4. ASSUME Inv, UNCHANGED vars
      PROVE  Inv'
  <2>1. CollectInv /\ UNCHANGED collecting /\ holds' = holds /\ stack' = stack /\ sol' = sol
        /\ UNCHANGED <<collecting, sol>> /\ program' = program
    BY <1>4 DEF Inv, vars, collecting
  <2>2. CollectInv'
    BY <2>1, KeepsCollected
  <2>3. (~strayed => RunInv) /\ strayed' = strayed
    BY Zenon, <1>4 DEF Inv, vars
  <2>4. ASSUME RunInv
        PROVE  RunInv'
    <3>1. CASE pc = "running"
      <4>1. StackInv'
        BY <2>1, <2>4, <3>1, SameProgram DEF RunInv, StackInv
      <4>2. \A h \in holds' : h = <<h[1], h[2]>> /\ h[2] \in nodes /\ Tracked(h[1], h[2])
        BY <2>1, <2>4, <3>1, HoldsFollow
      <4> QED
        BY <2>1, <2>4, <3>1, <4>1, <4>2, RunKeeps
    <3>2. CASE pc # "running"
      BY <2>1, <3>2 DEF RunInv, collecting
    <3> QED
      BY <3>1, <3>2
  <2> QED
    BY Zenon, <2>2, <2>3, <2>4 DEF Inv
<1> QED
  BY <1>1, <1>2, <1>3, <1>4 DEF Next

\* The invariant holds throughout.
THEOREM InvHolds == Spec => []Inv
BY InvIsInductive, PTL DEF Spec

\* Whatever an address the running program holds, in a register, in an object, among variable
\* arguments or as a result, the least solution of the constraints collected from it
\* (ConstraintCollect.cpp, ExternalLibrary.cpp) has it there or has lost track of the place, for
\* as long as the program has neither read a global of another translation unit nor used an
\* object that the solution knows only as the universal object.
THEOREM CollectionSound == Spec => []CollectionIsSound
<1>1. ASSUME Inv
      PROVE  CollectionIsSound
  <2> SUFFICES ASSUME pc = "running", ~strayed, NEW h \in holds
               PROVE  At(sol, h[1]) \cap {h[2], UniversalObj} # {}
    BY DEF CollectionIsSound
  <2>1. Tracked(h[1], h[2])
    BY <1>1, HoldsFollow DEF Inv
  <2>2. \A n, o : <<n, o>> \in sol => o \in At(sol, n)
    BY DEF At
  <2> QED
    BY <2>1, <2>2 DEF Tracked
<1> QED
  BY <1>1, InvHolds, PTL

-----------------------------------------------------------------------------
(* A program without the exceptions is read to its end.                        *)

Ordinary ==
    /\ \A f \in Functions : \A i \in ToSet(f.body) : Taken(f, i)
    /\ ~Undefined

\* What is still to be read has no node for what it defines.
Waits(k) == k > fn \/ (k = fn /\ pc = "values")
NewInv ==
    pc \in {"values", "instructions"} =>
        \A k \in DOMAIN program.functions : \A j \in DOMAIN Body(k) :
            LET i == Body(k)[j]
            IN  /\ i.ptr /\ Waits(k) => Val(i.name) \notin nodes
                /\ HasName(i) /\ ~Behind(k, j) => Obj(i.name) \notin nodes

ReadInv == NewInv /\ (Ordinary => pc # "aborted")

\* The instructions that define something have different names.
LEMMA DefinedOnce ==
    ASSUME program \in Programs,
           NEW k \in DOMAIN program.functions, NEW j \in DOMAIN Body(k), HasName(Body(k)[j]),
           NEW l \in DOMAIN program.functions, NEW m \in DOMAIN Body(l), HasName(Body(l)[m]),
           Body(k)[j].name = Body(l)[m].name
    PROVE  k = l /\ j = m
<1> DEFINE f == program.functions[k]
           g == program.functions[l]
<1>1. f \in Functions /\ g \in Functions
  BY ProgramIs
<1>2. f = g /\ j = m
  BY <1>1, ProgramIs DEF WellFormed, NamesAreUnique, Functions, Body
<1>3. k = l
  BY <1>2, ProgramIs DEF WellFormed, NamesAreUnique
<1> QED
  BY <1>2, <1>3

\* What an instruction defines is none of the nodes that there are before the code is read.
LEMMA DefinedLater ==
    ASSUME program \in Programs,
           NEW k \in DOMAIN program.functions, NEW j \in DOMAIN Body(k), HasName(Body(k)[j])
    PROVE  LET i == Body(k)[j]
           IN  Val(i.name) \notin Special \cup Addresses \cup Signatures
               /\ Obj(i.name) \notin Special \cup Addresses \cup Signatures
<1> DEFINE f == program.functions[k]
           i == Body(k)[j]
<1>1. f \in Functions /\ i \in ToSet(f.body)
  <2>1. f \in Functions
    BY ProgramIs
  <2> QED
    BY <2>1, FunctionIs DEF Body
<1> HIDE DEF f, i
<1>2. i.name \notin FunctionNames \cup Globals \cup {"universal", "null"}
  BY <1>1, SpecialIsApart DEF i
<1>3. Val(i.name) \notin Special /\ Obj(i.name) \notin Special
  BY <1>2, NodesDiffer DEF Special, UniversalPtr, UniversalObj, NullPtr, NullObject
<1>4. Val(i.name) \notin Addresses /\ Obj(i.name) \notin Addresses
  BY <1>2, NodesDiffer DEF Addresses, Known
<1>5. \A g \in Functions : \A a \in ToSet(g.formals) : a[1] # i.name
  BY <1>1, ProgramIs DEF WellFormed, NamesAreUnique, Functions, i
<1>6. Val(i.name) \notin Signatures /\ Obj(i.name) \notin Signatures
  <2> SUFFICES ASSUME NEW g \in Functions
               PROVE  Val(i.name) \notin SignatureOf(g) /\ Obj(i.name) \notin SignatureOf(g)
    BY DEF Signatures
  <2> QED
    BY <1>5, NodesDiffer DEF SignatureOf
<1> QED
  BY <1>3, <1>4, <1>6 DEF i

LEMMA IndexIsNat ==
    ASSUME program \in Programs, NEW k \in DOMAIN program.functions, NEW j \in DOMAIN Body(k)
    PROVE  j \in Nat
<1>1. program.functions[k] \in Functions
  BY ProgramIs
<1>2. Body(k) \in Seq(InstructionRecords)
  BY <1>1, FunctionIs DEF Body
<1> QED
  BY <1>2

LEMMA GlobalsAreRead ==
    ASSUME CollectInv, CollectGlobals
    PROVE  ReadInv'
<1> DEFINE special == SpecialFrom(Now)
           st == CollectForGlobals(special)
<1>1. pc = "globals" /\ Collect(st, Leave(st, 0)) /\ program' = program
  BY DEF CollectGlobals, Collect, SpecialFrom
<1>2. program \in Programs /\ Now \in Tidy /\ nodes = Special
  BY <1>1, NowIsTidy DEF CollectInv, TypeInv
<1>3. special \in Tidy /\ special.nodes = Special /\ special.ok
  BY <1>2, SpecialCollected
<1> HIDE DEF special
<1>4. st.nodes = Special \cup Addresses \cup Signatures /\ (~Undefined => st.ok)
  BY <1>2, <1>3, GlobalsCollected
<1> HIDE DEF st
<1>5. Ordinary' => pc' # "aborted"
  <2>1. Ordinary' => ~Undefined
    BY <1>1 DEF Ordinary, Undefined
  <2>2. st.ok => pc' # "aborted"
    BY <1>1, <1>2, LeaveIs DEF Collect
  <2> QED
    BY <1>4, <2>1, <2>2
<1>6. NewInv'
  <2>1. nodes' = Special \cup Addresses \cup Signatures
    BY <1>1, <1>4 DEF Collect
  <2>2. \A k \in DOMAIN program.functions : \A j \in DOMAIN Body(k) :
            LET i == Body(k)[j]
            IN  /\ i.ptr => Val(i.name) \notin nodes'
                /\ HasName(i) => Obj(i.name) \notin nodes'
    BY <1>2, <2>1, DefinedLater DEF HasName
  <2> QED
    BY <1>1, <2>2, SameProgram DEF NewInv, Val, Obj, HasName
<1> QED
  BY <1>5, <1>6 DEF ReadInv

LEMMA ValuesAreRead ==
    ASSUME CollectInv, ReadInv, CreateValueNodes
    PROVE  ReadInv'
<1> DEFINE body == program.functions[fn].body
           S == {Val(i.name) : i \in {i \in ToSet(body) : i.ptr}}
           st == CreateAll(Now, S)
<1>1. /\ pc = "values" /\ program' = program /\ nodes' = st.nodes
      /\ IF st.ok THEN pc' = "instructions" /\ pos' = 1 /\ fn' = fn ELSE pc' = "aborted"
  BY DEF CreateValueNodes, Collect
<1>2. program \in Programs /\ Now \in Tidy /\ Now.nodes = nodes /\ Now.ok
  BY <1>1, NowIsTidy DEF CollectInv, TypeInv
<1>3. fn \in DOMAIN program.functions /\ body = Body(fn) /\ program.functions[fn] \in Functions
      /\ \A k \in DOMAIN program.functions : k \in Nat
  BY <1>1, <1>2, ProgramIs DEF CollectInv, TurnInv, Body
<1>4. S \in SUBSET Places
  BY <1>2, <1>3, FunctionIs, NodesArePlaces
<1>5. st.nodes = nodes \cup S /\ (st.ok <=> S \cap nodes = {})
  BY <1>2, <1>4, CreateAllIs
<1>6. \A n \in S : \E j \in DOMAIN Body(fn) : Body(fn)[j].ptr /\ n = Val(Body(fn)[j].name)
  <2>1. ToSet(Body(fn)) = {Body(fn)[j] : j \in DOMAIN Body(fn)}
    BY DEF ToSet
  <2>2. S = {Val(i.name) : i \in {i \in ToSet(Body(fn)) : i.ptr}}
    BY DEF Body
  <2> QED
    BY <2>1, <2>2
<1> HIDE DEF st, S
<1>7. S \cap nodes = {}
  BY <1>1, <1>3, <1>6 DEF ReadInv, NewInv, Waits
<1>8. pc' = "instructions" /\ pos' = 1 /\ fn' = fn
  BY <1>1, <1>5, <1>7
<1>9. ASSUME NEW k \in DOMAIN program.functions, NEW j \in DOMAIN Body(k)
      PROVE  LET i == Body(k)[j]
             IN  /\ i.ptr /\ k > fn => Val(i.name) \notin nodes'
                 /\ HasName(i) /\ ~(Behind(k, j)') => Obj(i.name) \notin nodes'
  <2> DEFINE i == Body(k)[j]
  <2>1. ASSUME i.ptr, k > fn
        PROVE  Val(i.name) \notin nodes'
    <3>1. Val(i.name) \notin nodes
      BY <1>1, <2>1 DEF ReadInv, NewInv, Waits
    <3>2. Val(i.name) \notin S
      <4> SUFFICES ASSUME NEW m \in DOMAIN Body(fn), Body(fn)[m].ptr, i.name = Body(fn)[m].name
                   PROVE  FALSE
        BY <1>6, NodesDiffer
      <4>1. k = fn
        BY <1>2, <1>3, <2>1, DefinedOnce DEF HasName
      <4> QED
        BY <1>3, <2>1, <4>1
    <3> QED
      BY <1>1, <1>5, <3>1, <3>2
  <2>2. ASSUME HasName(i), ~(Behind(k, j)')
        PROVE  Obj(i.name) \notin nodes'
    <3>1. ~Behind(k, j)
      BY <1>1, <1>8, <2>2 DEF Behind
    <3>2. Obj(i.name) \notin nodes
      BY <1>1, <2>2, <3>1 DEF ReadInv, NewInv
    <3>3. Obj(i.name) \notin S
      BY <1>6, NodesDiffer
    <3> QED
      BY <1>1, <1>5, <3>2, <3>3
  <2> QED
    BY <2>1, <2>2
<1>10. NewInv'
  BY <1>1, <1>8, <1>9, SameProgram DEF NewInv, Waits, Val, Obj, HasName
<1> QED
  BY <1>8, <1>10 DEF ReadInv

\* The pointers that an instruction uses have a node when it is read.
LEMMA InstructionIsReady ==
    ASSUME CollectInv, pc = "instructions", NEW i \in ToSet(Body(fn))
    PROVE  Ready(Now, i)
<1> DEFINE f == program.functions[fn]
<1>1. program \in Programs /\ Now.nodes = nodes
  BY NowIsTidy DEF CollectInv, TypeInv
<1>2. f \in Functions /\ IsDefined(f) /\ f.body = Body(fn)
  <2>1. fn \in DOMAIN program.functions /\ IsDefined(f)
    BY DEF CollectInv, TurnInv
  <2> QED
    BY <1>1, <2>1, ProgramIs DEF Body
<1>3. \A j \in ToSet(Body(fn)) : j.ptr => Val(j.name) \in nodes
  BY DEF CollectInv, TurnInv
<1>4. Special \cup Addresses \cup Signatures \subseteq nodes
  BY DEF CollectInv
<1>5. \A x \in Known \cup Pointers(f) : Val(x) \in nodes
  <2>1. \A x \in Known : Val(x) \in nodes
    BY <1>4 DEF Addresses
  <2>2. ASSUME NEW x \in Pointers(f)
        PROVE  Val(x) \in nodes
    <3>1. CASE \E a \in ToSet(f.formals) : a[2] /\ x = a[1]
      <4>1. Val(x) \in SignatureOf(f)
        BY <3>1 DEF SignatureOf
      <4> QED
        BY <1>2, <1>4, <4>1 DEF Signatures
    <3>2. CASE \E j \in ToSet(f.body) : j.ptr /\ x = j.name
      BY <1>2, <1>3, <3>2
    <3> QED
      BY <2>2, <3>1, <3>2 DEF Pointers
  <2> QED
    BY <2>1, <2>2
<1>6. UniversalPtr \in nodes /\ NullPtr \in nodes
  BY <1>4 DEF Special
<1> HIDE DEF f
<1>7. ASSUME NEW a \in ToSet(i.args)
      PROVE  /\ IsPointer(a) => ValueNodeFor(a) \in nodes
             /\ a[1] \in {"ptrtoint", "ptrtoint+"} => Val(a[2]) \in nodes
  <2>1. /\ a \in Operands
        /\ a[1] \in {"gep", "bitcast"} => a[2] \in Known
        /\ a[1] \in {"value", "ptrtoint", "ptrtoint+"} => a[2] \in Known \cup Pointers(f)
    BY <1>1, <1>2, OperandIs
  <2>2. a[1] \in OperandKinds
    BY <2>1 DEF Operands
  <2>3. CASE a[1] \in {"value", "gep", "bitcast", "ptrtoint", "ptrtoint+"}
    BY <1>5, <2>1, <2>3 DEF ValueNodeFor, IsPointer, IntegerKinds
  <2>4. CASE a[1] \in {"inttoptr", "null", "undef", "int"}
    BY <1>6, <2>4 DEF ValueNodeFor, IsPointer, IntegerKinds
  <2> QED
    BY <2>2, <2>3, <2>4 DEF OperandKinds
<1> QED
  BY <1>1, <1>3, <1>6, <1>7 DEF Ready

LEMMA InstructionsAreRead ==
    ASSUME CollectInv, ReadInv, CollectInstruction
    PROVE  ReadInv'
<1> DEFINE f == program.functions[fn]
           i == f.body[pos]
           st == CollectFor(Now, f, i)
<1>1. /\ pc = "instructions" /\ program' = program /\ nodes' = st.nodes
      /\ IF st.ok THEN IF pos = Len(f.body) THEN Leave(st, fn) ELSE pos' = pos + 1 /\ UNCHANGED <<pc, fn>>
         ELSE pc' = "aborted"
  BY DEF CollectInstruction, Collect
<1>2. program \in Programs /\ Now \in Tidy /\ Now.nodes = nodes /\ Now.ok
  BY <1>1, NowIsTidy DEF CollectInv, TypeInv
<1>3. /\ fn \in DOMAIN program.functions /\ f \in Functions /\ f.body = Body(fn)
      /\ pos \in DOMAIN Body(fn) /\ i = Body(fn)[pos] /\ i \in ToSet(f.body)
      /\ f.body \in Seq(InstructionRecords)
  <2>1. fn \in DOMAIN program.functions /\ pos \in DOMAIN Body(fn)
    BY <1>1 DEF CollectInv, TurnInv
  <2>2. f \in Functions /\ f.body = Body(fn)
    BY <1>2, <2>1, ProgramIs DEF Body
  <2> QED
    BY <1>2, <2>1, <2>2, FunctionIs
<1>4. /\ Special \cup Addresses \cup Signatures \subseteq nodes
      /\ \A j \in ToSet(Body(fn)) : j.ptr => Val(j.name) \in nodes
  BY <1>1 DEF CollectInv, TurnInv
<1>5. \A k \in DOMAIN program.functions : k \in Nat
  BY <1>2, ProgramIs
<1>6. Ready(Now, i)
  BY <1>1, <1>3, InstructionIsReady
<1>7. HasName(i) => Obj(i.name) \notin nodes
  <2>1. pos \in Nat /\ ~Behind(fn, pos)
    BY <1>1, <1>3, <1>5 DEF Behind
  <2> QED
    BY <1>1, <1>3, <2>1 DEF ReadInv, NewInv
<1> HIDE DEF i, f
<1>8. /\ \A x \in FunctionNames : HasAddressTaken(x) => Val(x) \in nodes
      /\ \A g \in Functions : IsDefined(g) => SignatureOf(g) \subseteq nodes
  BY <1>4 DEF Addresses, Known, Signatures
<1>9. Reads(Now, st, i) /\ (Taken(f, i) => st.ok)
  BY <1>2, <1>3, <1>4, <1>6, <1>7, <1>8, InstructionCollected
<1> HIDE DEF st
<1>10. nodes' \subseteq nodes \cup Made(i)
  BY <1>1, <1>2, <1>9 DEF Reads
<1> HIDE DEF st
<1>11. ASSUME pc' \in {"values", "instructions"}
       PROVE  /\ fn' \in Nat /\ fn' >= fn /\ (pc' = "values" => fn' > fn)
              /\ \A k, j : k = fn /\ j = pos => Behind(k, j)'
              /\ \A k \in DOMAIN program.functions : \A j \in DOMAIN Body(k) :
                    Behind(k, j) => Behind(k, j)'
  <2> USE DEF Behind
  <2>1. fn \in Nat /\ pos \in Nat
    BY <1>3, <1>5
  <2>2. CASE st.ok /\ pos = Len(f.body)
    <3>1. pc' = "values" /\ fn' \in DOMAIN program.functions /\ fn' > fn
      BY <1>1, <1>2, <1>3, <1>5, <1>11, <2>2, LeaveIs
    <3>2. fn' \in Nat
      BY <1>5, <3>1
    <3>3. \A k, j : k = fn /\ j = pos => Behind(k, j)'
      BY <3>1
    <3>4. ASSUME NEW k \in DOMAIN program.functions, NEW j, Behind(k, j)
          PROVE  Behind(k, j)'
      <4>1. k \in Nat /\ (k < fn \/ k = fn)
        BY <1>1, <1>5, <3>4
      <4>2. k < fn'
        BY <2>1, <3>1, <3>2, <4>1
      <4> QED
        BY <3>1, <4>2
    <3> QED
      BY <2>1, <3>1, <3>2, <3>3, <3>4
  <2>3. CASE st.ok /\ pos # Len(f.body)
    <3>1. pos' = pos + 1 /\ pc' = pc /\ fn' = fn
      BY <1>1, <2>3
    <3>2. \A k, j : k = fn /\ j = pos => Behind(k, j)'
      BY <1>1, <2>1, <3>1
    <3>3. ASSUME NEW k \in DOMAIN program.functions, NEW j \in DOMAIN Body(k), Behind(k, j)
          PROVE  Behind(k, j)'
      <4>1. j \in Nat
        BY <1>2, IndexIsNat
      <4>2. k < fn \/ (k = fn /\ j < pos)
        BY <1>1, <3>3
      <4>3. k < fn \/ (k = fn /\ j < pos + 1)
        BY <2>1, <4>1, <4>2
      <4> QED
        BY <1>1, <3>1, <4>3
    <3> QED
      BY <1>1, <2>1, <3>1, <3>2, <3>3
  <2>4. CASE ~st.ok
    BY <1>1, <1>11, <2>4
  <2> QED
    BY <2>2, <2>3, <2>4
<1>12. ASSUME pc' \in {"values", "instructions"},
              NEW k \in DOMAIN program.functions, NEW j \in DOMAIN Body(k)
       PROVE  LET b == Body(k)[j]
              IN  /\ b.ptr /\ Waits(k)' => Val(b.name) \notin nodes'
                  /\ HasName(b) /\ ~(Behind(k, j)') => Obj(b.name) \notin nodes'
  <2> DEFINE b == Body(k)[j]
  <2>1. ASSUME b.ptr, Waits(k)'
        PROVE  Val(b.name) \notin nodes'
    <3>1. k > fn
      BY <1>3, <1>5, <1>11, <1>12, <2>1 DEF Waits
    <3>2. Val(b.name) \notin nodes
      BY <1>1, <2>1, <3>1 DEF ReadInv, NewInv, Waits
    <3>3. Val(b.name) \notin Made(i)
      BY NodesDiffer DEF Made
    <3> QED
      BY <1>10, <3>2, <3>3
  <2>2. ASSUME HasName(b), ~(Behind(k, j)')
        PROVE  Obj(b.name) \notin nodes'
    <3>1. ~Behind(k, j)
      BY <1>11, <1>12, <2>2
    <3>2. Obj(b.name) \notin nodes
      BY <1>1, <2>2, <3>1 DEF ReadInv, NewInv
    <3>3. Obj(b.name) \notin Made(i)
      <4> SUFFICES ASSUME Obj(b.name) \in Made(i)
                   PROVE  FALSE
        OBVIOUS
      <4>1. b.name = i.name /\ HasName(i)
        BY NodesDiffer DEF Made, HasName
      <4>2. k = fn /\ j = pos
        BY <1>2, <1>3, <2>2, <4>1, DefinedOnce
      <4> QED
        BY <1>11, <1>12, <2>2, <4>2
    <3> QED
      BY <1>10, <3>2, <3>3
  <2> QED
    BY <2>1, <2>2
<1>13. NewInv'
  BY <1>1, <1>12, SameProgram DEF NewInv, Val, Obj, HasName
<1>14. Ordinary' => pc' # "aborted"
  <2>1. Ordinary' => Taken(f, i)
    <3>1. Ordinary' => Ordinary
      BY <1>1, SameProgram DEF Ordinary, Undefined, Taken
    <3> QED
      BY <1>3, <3>1 DEF Ordinary
  <2>2. st.ok => pc' # "aborted"
    BY <1>1, <1>2, <1>3, <1>5, LeaveIs
  <2> QED
    BY <1>9, <2>1, <2>2
<1> QED
  BY <1>13, <1>14 DEF ReadInv

\* Reading stops at an assertion or a null pointer (ConstraintCollect.cpp, NodeFactory.cpp) only
\* in a program that calls through a pointer, holds an undefined pointer in a global, reads the
\* variable arguments of another function, or has an instruction said to be not implemented.
THEOREM OrdinaryRead == Spec => []OrdinaryProgramsAreRead
<1>1. Init => ReadInv
  BY DEF Init, ReadInv, NewInv
<1>2. ASSUME Inv, ReadInv, [Next]_vars
      PROVE  ReadInv'
  <2>1. CollectInv
    BY <1>2 DEF Inv
  <2>2. CASE CollectGlobals \/ CreateValueNodes \/ CollectInstruction
    BY <1>2, <2>1, <2>2, GlobalsAreRead, ValuesAreRead, InstructionsAreRead
  <2>3. CASE Run \/ UNCHANGED vars
    <3>1. /\ program' = program /\ pc' = pc /\ fn' = fn /\ pos' = pos /\ nodes' = nodes
      BY Zenon, <2>3 DEF Run, Alloca, CopyPointer, Load, Store, NextArgument, Branch, CallFunction,
                  Return, CallLibrary, CopyMemory, Proceed, vars, collecting
    <3>2. NewInv'
      BY <1>2, <3>1, SameProgram DEF ReadInv, NewInv, Waits, Behind, Val, Obj, HasName
    <3>3. Ordinary' => pc' # "aborted"
      BY <1>2, <3>1, SameProgram DEF ReadInv, Ordinary, Undefined, Taken
    <3> QED
      BY Zenon, <3>2, <3>3 DEF ReadInv
  <2> QED
    BY <1>2, <2>2, <2>3 DEF Next
<1>3. ASSUME ReadInv
      PROVE  OrdinaryProgramsAreRead
  <2> SUFFICES ASSUME pc = "aborted", ~Undefined
               PROVE  \E u \in Instructions : \/ u[2].op = "call" /\ ~IsDirect(u[2])
                                              \/ u[2].op \in {"atomicrmw", "other"}
                                              \/ u[2].op = "va_arg" /\ ~u[1].vararg
    BY DEF OrdinaryProgramsAreRead, Undefined
  <2>1. PICK f \in Functions : \E i \in ToSet(f.body) : ~Taken(f, i)
    BY <1>3 DEF ReadInv, Ordinary
  <2>2. PICK i \in ToSet(f.body) : ~Taken(f, i)
    BY <2>1
  <2> DEFINE u == <<f, i>>
  <2>3. u \in Instructions /\ u[1] = f /\ u[2] = i
    BY DEF Instructions
  <2> HIDE DEF u
  <2> QED
    BY <2>2, <2>3 DEF Taken
<1> QED
  BY <1>1, <1>2, <1>3, InvHolds, PTL DEF Spec
================================================================================
