--------------------------- MODULE ConstraintCollect ---------------------------
(* Andersen::collectConstraints (andersen/lib/ConstraintCollect.cpp) with the calls *)
(* of library functions (ExternalLibrary.cpp) and the node maps of NodeFactory.cpp, *)
(* and the program that was read, run beside its solution.                          *)
(*                                                                                  *)
(* An operand is <<kind, x>>: "value" (the register, formal, global or function x), *)
(* the constant expressions "gep", "bitcast" (of the global or function x) and      *)
(* "inttoptr", the constants "null" and "undef", and what is no pointer: "int",     *)
(* "ptrtoint" and "ptrtoint+" (the pointer x as an integer, plus an offset).       *)
(*                                                                                  *)
(* A node is named by the map that finds it, instead of numbered: the value, object,*)
(* return or vararg node of something.  An index that is InvalidIndex is a name     *)
(* that is not in nodes.                                                            *)
EXTENDS InclusionConstraints, SequencesExt

CONSTANTS
    Programs,
    MaxDepth        \* bound on the calls that are active at once

(********************************************************************************)
(* Modules.  A function without a body is external, and its kind is the table   *)
(* of ExternalLibrary.cpp that lists it, or "unknown".                          *)
(********************************************************************************)
OperandKinds == {"value", "gep", "bitcast", "inttoptr", "null", "undef",
                 "int", "ptrtoint", "ptrtoint+"}
IntegerKinds == {"int", "ptrtoint", "ptrtoint+"}
Operands == OperandKinds \X STRING
CalleeKinds == {"none", "value", "bitcast", "inttoptr", "null", "undef"}
LibraryKinds == {"noop", "malloc", "realloc", "posix_memalign", "retArg0", "retArg1", "retArg2",
                 "memcpy", "convert", "va_start", "unknown"}

\* ptr: the result is a pointer.
InstructionRecords ==
    [op : STRING, name : STRING, ptr : BOOLEAN, args : Seq(Operands),
     callee : CalleeKinds \X STRING]

\* Each formal is a name and whether it is a pointer.
FunctionRecords ==
    [name : STRING, kind : LibraryKinds \cup {""}, formals : Seq(STRING \X BOOLEAN),
     vararg : BOOLEAN, ptr : BOOLEAN, body : Seq(InstructionRecords)]

GlobalRecords ==
    [name : STRING, init : [shape : {"none", "zero", "leaves"}, leaves : Seq(Operands)]]

Modules == [globals : Seq(GlobalRecords), functions : Seq(FunctionRecords)]

IsPointer(op) == op[1] \notin IntegerKinds
IsDefined(f) == f.body # << >>
GlobalsOf(p) == {g.name : g \in ToSet(p.globals)}
FunctionsOf(p) == ToSet(p.functions)
NamesOf(p) == {f.name : f \in FunctionsOf(p)}

\* What f defines, and what of it is a pointer.  Calls have a name even without a result.
HasName(i) == i.ptr \/ i.op \in {"alloca", "call"}
Values(f) == {a[1] : a \in ToSet(f.formals)} \cup {i.name : i \in {i \in ToSet(f.body) : HasName(i)}}
Pointers(f) == {a[1] : a \in {a \in ToSet(f.formals) : a[2]}}
               \cup {i.name : i \in {i \in ToSet(f.body) : i.ptr}}

\* A name stands for one thing.
NamesAreUnique(p) ==
    LET Global == GlobalsOf(p) \cup NamesOf(p)
        Special == {"universal", "null"}
    IN  /\ \A j, k \in DOMAIN p.functions : p.functions[j].name = p.functions[k].name => j = k
        /\ GlobalsOf(p) \cap NamesOf(p) = {}
        /\ Global \cap Special = {}
        /\ \A f \in FunctionsOf(p) :
            /\ Values(f) \cap (Global \cup Special) = {}
            /\ \A g \in FunctionsOf(p) : \A i \in ToSet(g.body) :
                HasName(i) => \A a \in ToSet(f.formals) : a[1] # i.name
            /\ \A g \in FunctionsOf(p) : \A j \in DOMAIN f.body, k \in DOMAIN g.body :
                HasName(f.body[j]) /\ HasName(g.body[k]) /\ f.body[j].name = g.body[k].name =>
                    f = g /\ j = k

\* The first function is where the program starts; code ends by returning, and what has no
\* code is a function of a library.
CodeIsComplete(p) ==
    /\ p.functions # << >> /\ IsDefined(p.functions[1])
    /\ \A f \in FunctionsOf(p) : IsDefined(f) \/ f.kind # ""
    /\ \A f \in FunctionsOf(p) : \A k \in DOMAIN f.body : f.body[k].op = "ret" <=> k = Len(f.body)

\* Operands are globals, functions, or pointers of the function.
OperandsAreKnown(p) ==
    LET Global == GlobalsOf(p) \cup NamesOf(p)
    IN  /\ \A f \in FunctionsOf(p) : \A i \in ToSet(f.body) : \A op \in ToSet(i.args) :
            /\ op[1] \in {"gep", "bitcast"} => op[2] \in Global
            /\ op[1] \in {"value", "ptrtoint", "ptrtoint+"} => op[2] \in Global \cup Pointers(f)
        /\ \A g \in ToSet(p.globals) : \A c \in ToSet(g.init.leaves) :
            c[1] \in {"value", "gep", "bitcast"} => c[2] \in Global

\* A call i in f of the library function g, by the table that lists g.
LibraryCallFits(f, i, g) ==
    LET Takes(k) == k \in DOMAIN i.args /\ IsPointer(i.args[k])
    IN  /\ g.kind \in {"malloc", "realloc", "retArg0", "retArg1", "retArg2"} => i.ptr
        /\ g.kind \in {"realloc", "posix_memalign", "retArg0", "memcpy", "convert", "va_start"} => Takes(1)
        /\ g.kind \in {"retArg1", "memcpy", "convert"} => Takes(2)
        /\ g.kind = "retArg2" => Takes(3)
        /\ g.kind = "va_start" => f.vararg

\* The types of i, an instruction of f, fit what it does.
InstructionFits(p, f, i) ==
    LET Takes(k) == k \in DOMAIN i.args /\ IsPointer(i.args[k])
    IN  CASE i.op = "alloca" -> i.ptr
          [] i.op = "ret" -> i.args # << >> /\ IsPointer(i.args[1]) => f.ptr
          [] i.op = "load" -> Takes(1)
          [] i.op = "store" -> 1 \in DOMAIN i.args /\ Takes(2)
          [] i.op \in {"getelementptr", "phi", "bitcast", "select"} ->
                i.ptr => \A a \in ToSet(i.args) : IsPointer(a)
          [] i.op = "inttoptr" -> i.ptr /\ Len(i.args) = 1 /\ ~IsPointer(i.args[1])
          [] i.op = "call" ->
                i.callee[1] = "value" => \A g \in FunctionsOf(p) : g.name = i.callee[2] =>
                    IF IsDefined(g) THEN i.ptr => g.ptr ELSE LibraryCallFits(f, i, g)
          [] OTHER -> TRUE

\* What LLVM's verifier, and the declarations of the library functions, grant of a module.
WellFormed(p) ==
    /\ p \in Modules
    /\ NamesAreUnique(p)
    /\ CodeIsComplete(p)
    /\ OperandsAreKnown(p)
    /\ \A f \in FunctionsOf(p) : \A i \in ToSet(f.body) : InstructionFits(p, f, i)
    /\ \A g \in ToSet(p.globals) : g.init.shape # "leaves" => g.init.leaves = << >>

ASSUME ProgramsAssumption == \A p \in Programs : WellFormed(p)
ASSUME MaxDepthAssumption == MaxDepth \in Nat

VARIABLES
    program,
    pc,             \* "globals", "values", "instructions", "running" or "aborted"
    fn, pos,        \* the function and the instruction whose turn it is
    nodes,          \* the nodes created, as found by the four maps
    constraints,
    sol,            \* the least solution of the constraints
    holds,          \* pairs of a place of the running program and an address it holds
    stack,          \* <<function, instruction>> of the calls that are active
    strayed         \* history: the program has used memory that the solution has lost

collecting == <<program, pc, fn, pos, nodes, constraints>>
vars == <<program, pc, fn, pos, nodes, constraints, sol, holds, stack, strayed>>

Val(x) == <<"val", x>>
Obj(x) == <<"obj", x>>
Ret(f) == <<"ret", f>>
Vararg(f) == <<"vararg", f>>
Temp(call, f) == <<"temp", <<call, f>>>>

UniversalPtr == Val("universal")
UniversalObj == Obj("universal")
NullPtr == Val("null")
NullObject == Obj("null")

Globals == GlobalsOf(program)
Functions == FunctionsOf(program)
FunctionNames == NamesOf(program)
Named(f) == CHOOSE g \in Functions : g.name = f
Instructions == UNION {{<<f, i>> : i \in ToSet(f.body)} : f \in Functions}

\* Mutant: only the uses in instructions are found.
HasAddressTaken_InCode(f) ==
    \E u \in Instructions : \/ \E op \in ToSet(u[2].args) : op[2] = f
                            \/ u[2].callee = <<"bitcast", f>>

\* Function::hasAddressTaken: a use other than as the callee of a call.
HasAddressTaken(f) ==
    \/ \E u \in Instructions :
        \/ \E op \in ToSet(u[2].args) : op[2] = f
        \/ u[2].callee = <<"bitcast", f>>
    \/ \E g \in ToSet(program.globals) : \E c \in ToSet(g.init.leaves) : c[2] = f

(********************************************************************************)
(* What a step has collected: st = [nodes, constraints, ok]; ok is FALSE after  *)
(* an assertion has failed or a null pointer was used.                          *)
(********************************************************************************)
NoNode == <<"none", "">>      \* where the code asserts or cannot go on

\* getValueNodeFor, getValueNodeForConstant.
ValueNodeFor(op) ==
    CASE op[1] \in {"value", "gep", "bitcast"} -> Val(op[2])
      [] op[1] \in {"null", "undef"}           -> NullPtr
      [] op[1] = "inttoptr"                    -> UniversalPtr
      [] OTHER                                 -> NoNode

\* getObjectNodeForConstant, which has no case for undef.
ObjectNodeFor(op) ==
    CASE op[1] \in {"value", "gep", "bitcast"} -> Obj(op[2])
      [] op[1] = "null"                        -> NullObject
      [] op[1] = "inttoptr"                    -> UniversalObj
      [] OTHER                                 -> NoNode

\* createValueNode and its companions; their maps must not have the key yet.
CreateAll(st, S) ==
    [st EXCEPT !.nodes = @ \cup S, !.ok = @ /\ S \cap st.nodes = {}]
Create(st, n) == CreateAll(st, {n})

\* createValueNode for no value: a node that no map has a key for.
CreateTemp(st, n) == [st EXCEPT !.nodes = @ \cup {n}]

\* emplace_back for every constraint of C, after the assertions that both nodes were found.
AddAll(st, C) ==
    [st EXCEPT !.constraints = @ \cup C,
               !.ok = @ /\ \A c \in C : {c.dest, c.src} \subseteq st.nodes]
Add(st, type, d, s) == AddAll(st, {Constraint(type, d, s)})
CopyAll(st, d, S) == AddAll(st, {Constraint("COPY", d, n) : n \in S})
Abort(st) == [st EXCEPT !.ok = FALSE]

\* addGlobalInitializerConstraints.  An initializer is [shape, leaves]: its shape is
\* "none", "zero" (an aggregate of zeros) or "leaves" (the constants that are no aggregates).
InitializerOf(g) ==
    CASE g.init.shape = "none" -> {Constraint("COPY", Obj(g.name), UniversalObj)}
      [] g.init.shape = "zero" -> {Constraint("COPY", Obj(g.name), NullObject)}
      [] OTHER -> {Constraint("ADDR_OF", Obj(g.name), ObjectNodeFor(c)) :
                     c \in {c \in ToSet(g.init.leaves) : IsPointer(c)}}

\* A pointer and an object for each of the names, which a pointer of its own points to.
Address(st, names) ==
    AddAll(CreateAll(st, {Val(x) : x \in names} \cup {Obj(x) : x \in names}),
           {Constraint("ADDR_OF", Val(x), Obj(x)) : x \in names})

\* The return node, the vararg node and the formals that the code of f needs.
SignatureOf(f) ==
    (IF f.ptr THEN {Ret(f.name)} ELSE {}) \cup (IF f.vararg THEN {Vararg(f.name)} ELSE {})
    \cup {Val(a[1]) : a \in {a \in ToSet(f.formals) : a[2]}}

\* collectConstraintsForGlobals: addresses of globals and functions first, then what the
\* signatures need, then the initializers, which may name any of them.
CollectForGlobals(st) ==
    LET variables == Address(st, Globals)
        functions == Address(variables, {x \in FunctionNames : HasAddressTaken(x)})
        signatures == CreateAll(functions, UNION {SignatureOf(f) : f \in {f \in Functions : IsDefined(f)}})
    IN  AddAll(signatures, UNION {InitializerOf(g) : g \in ToSet(program.globals)})

(********************************************************************************)
(* Calls                                                                        *)
(********************************************************************************)
\* CallSite::getCalledFunction is not null.
IsDirect(i) == i.callee[1] = "value" /\ i.callee[2] \in FunctionNames

\* addArgumentConstraintForCall.
AddArguments(st, i, f) ==
    LET Actual(k) == IF IsPointer(i.args[k]) THEN ValueNodeFor(i.args[k]) ELSE UniversalPtr
        bound == AddAll(st, {Constraint("COPY", Val(f.formals[k][1]), Actual(k)) :
                               k \in {k \in DOMAIN f.formals \cap DOMAIN i.args : f.formals[k][2]}})
        rest == {i.args[k] : k \in DOMAIN i.args \ DOMAIN f.formals}
    IN  IF ~f.vararg THEN bound
        ELSE CopyAll(bound, Vararg(f.name), {ValueNodeFor(a) : a \in {a \in rest : IsPointer(a)}})

\* addConstraintForExternalLibrary, for a function that one of its tables lists.
AddForLibrary(st, caller, i, f) ==
    LET Arg(k) == IF k \in DOMAIN i.args THEN ValueNodeFor(i.args[k]) ELSE NoNode
        result == Val(i.name)
        created == Create(st, Obj(i.name))
        temp == Temp(i.name, f.name)
        moved == Add(Add(CreateTemp(st, temp), "LOAD", temp, Arg(2)), "STORE", Arg(1), temp)
        table == IF f.kind # "realloc" THEN f.kind
                 ELSE IF i.args[1][1] = "null" THEN "retArg0" ELSE "malloc"
    IN  CASE table = "noop" -> st
          [] table \in {"malloc", "posix_memalign"} ->
                IF result \in st.nodes THEN Add(created, "ADDR_OF", result, Obj(i.name))
                ELSE IF IsDirect(i) /\ table = "posix_memalign"
                     THEN Add(created, "STORE", Arg(1), Obj(i.name))
                ELSE Abort(st)
          [] table = "retArg0" -> Add(st, "COPY", result, Arg(1))
          [] table = "retArg1" -> Add(st, "COPY", result, Arg(2))
          [] table = "retArg2" -> Add(st, "COPY", result, Arg(3))
          [] table = "memcpy" ->
                IF result \in st.nodes THEN Add(moved, "COPY", result, Arg(1)) ELSE moved
          [] table = "convert" ->
                IF i.args[2][1] = "null" THEN st ELSE Add(st, "STORE", Arg(1), Arg(2))
          [] table = "va_start" -> Add(st, "ADDR_OF", Arg(1), Vararg(caller.name))

Pollute(st, args) ==
    AddAll(st, {Constraint("COPY", ValueNodeFor(a), UniversalPtr) : a \in args})

\* Mutant: a variadic function is taken to need the number of its formals.
Candidates_SameArity(st, i) ==
    {f \in Functions : Val(f.name) \in st.nodes /\ Len(f.formals) = Len(i.args)}

\* What an indirect call may reach: any function whose address is taken and that takes
\* as many arguments.
Candidates(st, i) ==
    {f \in Functions : /\ Val(f.name) \in st.nodes
                       /\ f.vararg \/ Len(f.formals) = Len(i.args)}

\* addConstraintForCall.
AddForCall(st, caller, i) ==
    LET f == Named(i.callee[2])
        ResultFrom(n) == IF i.ptr THEN Add(st, "COPY", Val(i.name), n) ELSE st
        args == ToSet(i.args)
        Reach(g, s) == IF IsDefined(g) THEN AddArguments(s, i, g)
                       ELSE IF g.kind # "unknown" THEN AddForLibrary(s, caller, i, g)
                       ELSE Pollute(s, args)
    IN  IF ~IsDirect(i) THEN FoldSet(Reach, ResultFrom(UniversalPtr), Candidates(st, i))
        ELSE IF IsDefined(f) THEN AddArguments(ResultFrom(Ret(f.name)), i, f)
        ELSE IF f.kind # "unknown" THEN AddForLibrary(st, caller, i, f)
        ELSE Pollute(ResultFrom(UniversalPtr), {a \in args : IsPointer(a)})

(********************************************************************************)
(* Instructions                                                                 *)
(********************************************************************************)
\* collectConstraintsForInstruction.  The operands of a select are its two values and
\* that of a getelementptr its base.
CollectFor(st, f, i) ==
    LET result == Val(i.name)
        Arg(k) == ValueNodeFor(i.args[k])
    IN  CASE i.op = "alloca" -> Add(Create(st, Obj(i.name)), "ADDR_OF", result, Obj(i.name))
          [] i.op = "call" -> AddForCall(st, f, i)
          [] i.op = "ret" /\ i.args # << >> /\ IsPointer(i.args[1]) ->
                Add(st, "COPY", Ret(f.name), Arg(1))
          [] i.op = "load" /\ i.ptr -> Add(st, "LOAD", result, Arg(1))
          [] i.op = "store" /\ IsPointer(i.args[1]) -> Add(st, "STORE", Arg(2), Arg(1))
          [] i.op \in {"getelementptr", "phi", "bitcast", "select"} /\ i.ptr ->
                CopyAll(st, result, {ValueNodeFor(a) : a \in ToSet(i.args)})
          [] i.op = "inttoptr" ->
                Add(st, "COPY", result, IF i.args[1][1] = "int" THEN UniversalPtr
                                        ELSE Val(i.args[1][2]))
          [] i.op = "va_arg" /\ i.ptr -> Add(st, "COPY", result, Vararg(f.name))
          [] i.op = "atomicrmw" \/ (i.op = "other" /\ i.ptr) -> Abort(st)
          [] OTHER -> st

Init ==
    /\ program \in Programs
    /\ pc = "globals" /\ fn = 0 /\ pos = 0
    /\ nodes = {UniversalPtr, UniversalObj, NullPtr, NullObject}
    /\ constraints = {}
    /\ sol = {} /\ holds = {} /\ stack = << >> /\ strayed = FALSE

Now == [nodes |-> nodes, constraints |-> constraints, ok |-> TRUE]

\* What the program's memory holds before it runs.
InitialMemory ==
    UNION {{Obj(g.name)} \X {Obj(c[2]) : c \in {c \in ToSet(g.init.leaves) :
                                             c[1] \in {"value", "gep", "bitcast"}}} :
              g \in ToSet(program.globals)}

\* The step is taken over by st; the next function with a body, if any, has its turn, or
\* the program runs.
Leave(st, f) ==
    LET later == {k \in DOMAIN program.functions : k > f /\ IsDefined(program.functions[k])}
    IN  IF later # {}
        THEN /\ pc' = "values" /\ fn' = CHOOSE k \in later : \A j \in later : k =< j
             /\ pos' = 0
             /\ UNCHANGED <<sol, holds, stack>>
        ELSE /\ pc' = "running" /\ fn' = 0 /\ pos' = 0
             /\ sol' = LeastSolution(st.constraints)
             /\ holds' = InitialMemory
             /\ stack' = <<<<1, 1>>>>

Collect(st, Go) ==
    /\ nodes' = st.nodes
    /\ constraints' = st.constraints
    /\ IF st.ok THEN Go
       ELSE pc' = "aborted" /\ UNCHANGED <<fn, pos, sol, holds, stack>>
    /\ UNCHANGED <<program, strayed>>

\* collectConstraints up to its loop.
CollectGlobals ==
    /\ pc = "globals"
    /\ LET special == Add(Add(Add(Now, "ADDR_OF", UniversalPtr, UniversalObj),
                              "STORE", UniversalObj, UniversalObj),
                          "ADDR_OF", NullPtr, NullObject)
       IN  \E st \in {CollectForGlobals(special)} : Collect(st, Leave(st, 0))

\* A value node for each instruction of pointer type, before any operand is looked up.
CreateValueNodes ==
    /\ pc = "values"
    /\ LET body == program.functions[fn].body
       IN  Collect(CreateAll(Now, {Val(i.name) : i \in {i \in ToSet(body) : i.ptr}}),
                   pc' = "instructions" /\ pos' = 1 /\ UNCHANGED <<fn, sol, holds, stack>>)

CollectInstruction ==
    /\ pc = "instructions"
    /\ LET f == program.functions[fn]
       IN  \E st \in {CollectFor(Now, f, f.body[pos])} :
              Collect(st, IF pos = Len(f.body) THEN Leave(st, fn)
                          ELSE pos' = pos + 1 /\ UNCHANGED <<pc, fn, sol, holds, stack>>)

(********************************************************************************)
(* The program runs: the meaning of LLVM's instructions, on which the code      *)
(* relies.  A register holds at most one address, an object what was stored in  *)
(* any of its fields.  A null pointer has no address: a run that uses one ends   *)
(* there.                                                                       *)
(********************************************************************************)
Anywhere == {n \in nodes : n[1] = "obj"} \ {UniversalObj, NullObject}

Denotes(op) ==
    CASE op[1] \in {"gep", "bitcast"} -> {Obj(op[2])}
      [] op[1] \in {"value", "ptrtoint", "ptrtoint+"} ->
            IF op[2] \in FunctionNames \cup Globals THEN {Obj(op[2])} ELSE At(holds, Val(op[2]))
      [] op[1] \in {"inttoptr", "int"} -> Anywhere
      [] OTHER -> {}

\* A global of another translation unit, which may hold any address.
IsElsewhere(p) == \E g \in ToSet(program.globals) : g.init.shape = "none" /\ p = Obj(g.name)
Contents(p) == IF IsElsewhere(p) THEN Anywhere ELSE At(holds, p)

\* The solution has p among the pointees of op only as the universal object.
IsLost(op, p) ==
    LET pointees == At(sol, ValueNodeFor(op))
    IN  UniversalObj \in pointees /\ p \notin pointees

\* One of the addresses in S; none for a null pointer.
Some(S) == IF S = {} THEN {{}} ELSE {{a} : a \in S}

Frame == stack[Len(stack)]
Here == program.functions[Frame[1]]
Instruction == Here.body[Frame[2]]
Executes(op) == pc = "running" /\ stack # << >> /\ Instruction.op = op
Goto(k) == stack' = [stack EXCEPT ![Len(stack)] = <<@[1], k>>]
Proceed == Goto(Frame[2] + 1) /\ UNCHANGED <<collecting, sol>>

\* The result of an instruction that yields a pointer; an integer is no address.
Assign(i, S) ==
    holds' = IF i.ptr THEN {h \in holds : h[1] # Val(i.name)} \cup ({Val(i.name)} \X S)
             ELSE holds

Alloca ==
    /\ Executes("alloca")
    /\ Assign(Instruction, {Obj(Instruction.name)})
    /\ Proceed /\ UNCHANGED strayed

CopyPointer ==
    /\ \E op \in {"getelementptr", "phi", "bitcast", "select", "inttoptr"} : Executes(op)
    /\ \E arg \in ToSet(Instruction.args) :
        \E S \in Some(Denotes(arg)) : Assign(Instruction, S)
    /\ Proceed /\ UNCHANGED strayed

Load ==
    /\ Executes("load")
    /\ \E p \in Denotes(Instruction.args[1]) :
        /\ \E S \in Some(Contents(p)) : Assign(Instruction, S)
        /\ strayed' = (strayed \/ IsLost(Instruction.args[1], p) \/ IsElsewhere(p))
    /\ Proceed

Store ==
    /\ Executes("store")
    /\ LET value == Instruction.args[1]
       IN  \E p \in Denotes(Instruction.args[2]) :
            /\ holds' = holds \cup ({p} \X (IF IsPointer(value) THEN Denotes(value) ELSE {}))
            /\ strayed' = (strayed \/ IsLost(Instruction.args[2], p))
    /\ Proceed

\* The argument that va_arg reads.
NextArgument ==
    /\ Executes("va_arg")
    /\ \E S \in Some(At(holds, Vararg(Here.name))) : Assign(Instruction, S)
    /\ Proceed /\ UNCHANGED strayed

\* A conditional branch back to the start of the function.
Branch ==
    /\ Executes("br")
    /\ Goto(1) \/ Goto(Frame[2] + 1)
    /\ UNCHANGED <<collecting, sol, holds, strayed>>

Callees(i) ==
    {k \in DOMAIN program.functions :
        LET g == program.functions[k]
        IN  /\ Obj(g.name) \in Denotes(i.callee)
            /\ \/ Len(g.formals) = Len(i.args)
               \/ g.vararg /\ Len(g.formals) =< Len(i.args)}

CallFunction ==
    /\ Executes("call")
    /\ Len(stack) < MaxDepth
    /\ \E k \in {k \in Callees(Instruction) : IsDefined(program.functions[k])} :
        LET g == program.functions[k]
            args == Instruction.args
            pointers == {j \in DOMAIN g.formals : g.formals[j][2]}
            rest == {args[j] : j \in DOMAIN args \ DOMAIN g.formals}
        IN  /\ \E given \in [pointers -> {{}} \cup {{a} : a \in Anywhere}] :
                /\ \A j \in pointers : given[j] \in Some(Denotes(args[j]))
                /\ holds' = {h \in holds : h[1] \notin {Val(g.formals[j][1]) : j \in pointers}}
                            \cup (UNION {{Val(g.formals[j][1])} \X given[j] : j \in pointers})
                            \cup ({Vararg(g.name)} \X UNION {Denotes(a) : a \in {a \in rest : IsPointer(a)}})
            /\ stack' = Append(stack, <<k, 1>>)
    /\ UNCHANGED <<collecting, sol, strayed>>

Return ==
    /\ Executes("ret")
    /\ IF Len(stack) = 1 THEN stack' = << >> /\ UNCHANGED holds
       ELSE LET caller == stack[Len(stack) - 1]
                call == program.functions[caller[1]].body[caller[2]]
            IN  /\ stack' = [Front(stack) EXCEPT ![Len(stack) - 1] = <<caller[1], caller[2] + 1>>]
                /\ IF call.ptr /\ Instruction.args # << >> /\ IsPointer(Instruction.args[1])
                   THEN \E S \in Some(Denotes(Instruction.args[1])) :
                            /\ holds' = ({h \in holds : h[1] # Val(call.name)}
                                         \cup ({Val(call.name)} \X S))
                                        \cup ({Ret(Here.name)} \X S)
                   ELSE UNCHANGED holds
    /\ UNCHANGED <<collecting, sol, strayed>>

LibraryCallees(i) == {k \in Callees(i) : ~IsDefined(program.functions[k])}

\* The library functions of which the constraints say what they do, but for memcpy.  Of an
\* unknown one only the result is described here.
CallLibrary ==
    /\ Executes("call")
    /\ \E k \in LibraryCallees(Instruction) :
        LET kind == program.functions[k].kind
            i == Instruction
            Arg(j) == Denotes(Instruction.args[j])
        IN  CASE kind = "malloc" -> Assign(i, {Obj(i.name)})
              [] kind = "noop" /\ ~Instruction.ptr -> UNCHANGED holds
              [] kind = "va_start" -> UNCHANGED holds
              [] kind = "unknown" /\ Instruction.ptr -> \E S \in Some(Anywhere) : Assign(i, S)
              [] kind = "retArg0" -> \E S \in Some(Arg(1)) : Assign(i, S)
              [] kind = "retArg1" -> \E S \in Some(Arg(2)) : Assign(i, S)
              [] kind = "retArg2" -> \E S \in Some(Arg(3)) : Assign(i, S)
              [] OTHER -> FALSE
    /\ Proceed /\ UNCHANGED strayed

\* memcpy and its companions, which return where they copied to.
CopyMemory ==
    /\ Executes("call")
    /\ \E k \in LibraryCallees(Instruction) : program.functions[k].kind = "memcpy"
    /\ LET i == Instruction
       IN  \E d \in Denotes(i.args[1]), s \in Denotes(i.args[2]) :
            LET copied == {d} \X Contents(s)
            IN  /\ IF i.ptr
                   THEN holds' = {h \in holds : h[1] # Val(i.name)} \cup copied
                                 \cup {<<Val(i.name), d>>}
                   ELSE holds' = holds \cup copied
                /\ strayed' = (strayed \/ IsLost(i.args[1], d) \/ IsLost(i.args[2], s)
                                       \/ IsElsewhere(s))
    /\ Proceed

Run == Alloca \/ CopyPointer \/ Load \/ Store \/ NextArgument \/ Branch \/ CallFunction
       \/ Return \/ CallLibrary \/ CopyMemory

Next == CollectGlobals \/ CreateValueNodes \/ CollectInstruction \/ Run
Spec == Init /\ [][Next]_vars

(********************************************************************************)
(* Properties                                                                   *)
(********************************************************************************)
\* Whatever an address the running program holds, in a register, in an object, among
\* variable arguments or as a result, the solution of the collected constraints has it
\* there, or says that it has lost track, until the program has strayed: it has read a global
\* of another translation unit, or used an object through a pointer for which the solution
\* has only the universal object.  Such memory is to point to the universal object by the
\* comments (ConstraintCollect.cpp:18, :113); the code copies from the universal object,
\* which nothing makes point to itself, so that what is read there may point to nothing.
CollectionIsSound ==
    pc = "running" /\ ~strayed =>
        \A h \in holds : At(sol, h[1]) \cap {h[2], UniversalObj} # {}

\* Reading a program never stops at an assertion or a null pointer unless the program
\* calls through a pointer, holds an undefined pointer in a global, reads the variable
\* arguments of another function, or has an instruction the code says is not implemented:
\* every node is created before it is looked up, and created once, whatever the order of
\* definitions and uses.
OrdinaryProgramsAreRead ==
    pc = "aborted" =>
        \/ \E u \in Instructions :
            \/ u[2].op = "call" /\ ~IsDirect(u[2])
            \/ u[2].op \in {"atomicrmw", "other"}
            \/ u[2].op = "va_arg" /\ ~u[1].vararg
        \/ \E g \in ToSet(program.globals) : \E c \in ToSet(g.init.leaves) : c[1] = "undef"

\* AndersenAA::andersenAlias with this solution, before any node is merged.
AnswersNoAlias(m, n) ==
    /\ m # n
    /\ At(sol, m) # {} /\ At(sol, n) # {}
    /\ \/ {NullObject} \in {At(sol, m), At(sol, n)}
       \/ At(sol, m) \cap At(sol, n) \subseteq {NullObject}

\* Pointers that are said not to alias are never equal: the comment on indirect calls
\* (ConstraintCollect.cpp:386) assumes that the returned value can be anything.
NoAliasHolds ==
    pc = "running" =>
        \A m, n \in {h[1] : h \in holds} :
            (m[1] = "val" /\ n[1] = "val" /\ AnswersNoAlias(m, n)) =>
                At(holds, m) \cap At(holds, n) = {}
================================================================================
