# A verification project for programslicer

programslicer is a set of LLVM passes that cut a module down to the part that may
influence (backward slice) or be influenced by (forward slice) chosen instructions.
This directory holds TLA+ models of it, the TLC configurations that check them on
small instances, and theorems proved with TLAPS. `PROJECT.json` lists the runs, the
mutants that show each property can fail, the source lines of each definition, the
findings, the hazards and the theorems. Paths below are relative to `src/`.

    tlc -config MCSlicePass.cfg MCSlicePass.tla     # one run; each cfg names its properties
    tlapm SlicePassProofs.tla                       # one proof module

## 1. The system

One run of the slicer is one thread. `opt` loads the passes; each requires the ones
below it, and they communicate through the data the lower pass leaves.

    slice.conf ──► BackSlice / ForwardSlice ──► the module, cut down
                          │  getGraph, getInstNodeMap, getEntryNodeMap
                         SDG
             getBBGraph ┌─┴──────────┐ alias (through AliasSetTracker)
                       CDG       AndersenAA
           getNode, getIDom │        │ ptsGraph, getMergeTarget
      LLVM PostDominatorTree      Andersen: collect → optimise → solve

| Component | State it keeps | Operations | What makes it correct |
|---|---|---|---|
| `BackSlice.cpp` | `markedNodes`, the work list, the module | `readInit`, `markVerticesOfBackSlice` (two phases), `sliceModule` | the marks are the two-phase slice in every visiting order; it ends; what is kept refers to nothing that is gone |
| `ForwardSlice.cpp` | the same | the same along successors; no function is removed | the same, and nothing that is deleted depends on what is kept |
| `readInit` | stream state, `toSliceList`, `lineToBounds`, `boundsMap` | read a line, mark | every listed instruction is marked; it ends |
| `CDG.cpp` | `_bbGraph`, shared by all functions | `runOnFunction` | the edges are control dependence; ENTRY reaches what nothing controls; no null pointer is used |
| `DirectedGraph.h` | `succMap`, `predMap`, `nodeSet` | `insert`, `getPredSet`, `getSuccSet` (`erase` is unused) | the two maps agree; an insert loses no dependence |
| `SDG.cpp` | the graph and six node maps, `defNodeMap` | control, calls, def-use, memory edges | every dependence of the program is an edge of the right kind |
| `andersen/lib/ConstraintCollect.cpp`, `ExternalLibrary.cpp` | `constraints`, the node factory's maps | one constraint set per instruction, global and call | the constraints cover what the program can do with pointers |
| `andersen/lib/ConstraintOptimize.cpp` | predecessor graph, labels, merges | HVN, HU, rewriting | the least solution is unchanged |
| `andersen/lib/ConstraintSolving.cpp` | `ptsGraph`, constraint graph, two worklists, `cycleCandidates`, `checkedEdges`, `collapseMap` | HCD offline pass, LCD and HCD collapsing, loads, stores, propagation | it ends with the least solution |
| `andersen/include/CycleDetector.h` | DFS numbers, SCC stack | `runOnGraph`, `runOnNode` | components found exactly and in the right order, no node visited twice |
| `andersen/lib/NodeFactory.cpp` | nodes, merge links, value and object maps | create, `mergeNode`, `getMergeTarget` | links have no cycle; `getMergeTarget` ends at a representative |
| `andersen/lib/AndersenAA.cpp`, `Andersen.cpp` | the solved `ptsGraph` | `alias`, `pointsToConstantMemory`, `copyValue`, `getPointsToSet` | answers are sound for the solution |
| `ptranalysis/anders/cons_opt.cpp`, `solve.cpp`, `main.cpp` | an older Andersen analysis: nodes with union-find, points-to sets, edges, `hcd_var`, priorities | clumping, HVN, HR, HCD, factoring, `solve_node`, GEPs, indirect and external calls, LCD, cleanup | it ends with the least solution, or gives up with a part of it; the slicer does not use it (`SDG.h:27` is commented out) |
| `ptranalysis/include/heap.h`, `worklist.h`, `bitmap.h` | two heaps; a list of bitmap elements and a cached iterator | push, pop, swap; 18 set operations (`>>=`, `set_range`, `clear_range`, `&=` are never called) | they behave as a priority list and as a set of numbers |
| `ptranalysis/anders/obj_cons_id.cpp`, `extinfo.cpp` | objects, fields, constraints of a module | one case per instruction; a table of library functions | the constraints cover what the program can do |
| `PA/`, BuDDy headers, build files | | declarations, a vendored library, configuration | not part of the program's own logic |

What is hard here is not concurrency but order and staleness:

- work lists ordered by address (`BackSlice.cpp:125`), hash-map iteration order in the analysis,
  two alternating worklists in one solver, two heaps with outdated entries in the other;
- indices that were merged away after they were stored, and sets that grow while
  they are iterated (`ConstraintSolving.cpp:567`);
- null results used unchecked (`CDG.cpp:28`, `SDG.cpp:121`), assertions on what the
  analysis returns (`SDG.cpp:274`);
- nodes that must exist before anything looks them up, whatever the order of definitions, uses,
  functions and initializers (`ConstraintCollect.cpp:42`);
- what the analysis does not know, which must not look like something that aliases nothing
  (`ConstraintCollect.cpp:21`);
- loops whose end depends on the data: cyclic dependence graphs, growing points-to sets,
  a reader that stops on end-of-file only (`BackSlice.cpp:188`);
- two passes that must agree: a marked node is deleted when its function's entry is not
  marked (`BackSlice.cpp:64`).

Each of these is an entry of `hazards` in `PROJECT.json`, with the properties that
would catch it, or a note when none does yet.

## 2. Modules

| Module | Models | Composes |
|---|---|---|
| `DependenceGraph` | `DirectedGraph.h`, edge kinds; closures and the work-list invariant | |
| `SlicePass` | what the two slicing passes have in common: the module, its graphs, the criteria and the variables both keep | `DependenceGraph` |
| `BackSlice`, `ForwardSlice` | the two slicing passes; a name of the forward one that the backward one has, too, starts with `Forward` | `SlicePass` |
| `SliceConf` | `readInit` | |
| `PostDominance` | post-dominance, control dependence; LLVM's tree (external) | |
| `CDG` | `CDG.cpp` | `PostDominance` |
| `SDG` | `SDG.cpp` | `DependenceGraph`, `PostDominance` |
| `Slicer` | the backward slicer as a whole | `SDG`, and `BackSlice` by `INSTANCE` |
| `InclusionConstraints` | `Constraint.h`; the least solution, the reference for the analysis | |
| `ConstraintCollect` | `ConstraintCollect.cpp`, `ExternalLibrary.cpp`, the maps of `NodeFactory.cpp`; the program that was read, running (external) | `InclusionConstraints` |
| `CycleDetector` | the recursive search of `CycleDetector.h` | |
| `ConstraintSolving` | `ConstraintSolving.cpp` with merge links and the result of the cycle detector | `InclusionConstraints` |
| `ConstraintOptimize` | `ConstraintOptimize.cpp`: predecessor graph, HVN, HU, rewriting | `ConstraintSolving` |
| `Andersen` | `Andersen::runOnModule` after collection: the optional passes, the solver; `andersenAlias` | `ConstraintOptimize` |
| `Worklist` | `worklist.h`, `heap.h` | |
| `PointerGraph` | the constraint graph of the older analysis and `merge_nodes` | `Worklist` |
| `OfflineGraph` | its offline passes: HVN, HR, HCD, factoring (`cons_opt.cpp`) | `PointerGraph` |
| `AndersSolver` | its solver's steps and cleanups (`solve.cpp`, `main.cpp`) | `PointerGraph` |
| `Anders` | the older analysis, from its constraints to its answers | `OfflineGraph`, `AndersSolver` |
| `BitSet` | abstract: a set of numbers with the bitmap's operations | |
| `Bitmap` | `bitmap.h` | refines `BitSet` |
| `MC*` | instances for TLC | |
| `SharedProofs` | lemmas: sets that grow by rounds, folds over finite sets, least solutions, closures, the work-list invariant | `DependenceGraph`, `InclusionConstraints` |
| `SlicePassProofs` | the slicing passes | `BackSlice`, `ForwardSlice`, `SharedProofs` |
| `SliceConfProofs` | the reader | `SliceConf` |
| `CDGProofs` | post-dominance and control dependence | `CDG`, `SharedProofs` |
| `SlicerProofs` | the backward slicer as a whole | `Slicer`, `SharedProofs` |
| `AndersenProofs` | the analysis: optimiser's shape, offline pass, solver, alias queries | `Andersen`, `SharedProofs` |
| `ConstraintCollectProofs` | the collection of constraints, and the program beside its solution | `ConstraintCollect`, `SharedProofs` |
| `BitmapProofs` | the bitmap and its operations | `Bitmap`, `SharedProofs` |

A definition whose name extends that of the definition after it (`Mask2NoFlow` before `Mask2`,
`Absorb_KeepPrev` before `Absorb`) is not used by any specification: it is the form that
definition would have after a plausible mistake in the code, and `PROJECT.json` names the
property that notices it.

### Correspondence

*Graphs.* `succMap` and `predMap` hold the same pairs with the same attribute, because
`insert` is their only writer; a graph is a set of triples, with at most one triple for
a pair of nodes. `Insert` overwrites, as `operator[]` does. A node is named by what the
maps of `SDG.h` find it under.

*Slicing passes.* One action per turn of the work-list loop; `*workSet.begin()` is any
member, since the set is ordered by address. `pass` says which of the two passes runs and `Start`
is how either begins, since they keep the same variables; `pc` separates `readInit`, the two calls of
`markReachingVertices...` and `sliceModule`. The second call gets a copy of the result as its
work list (the parameter is by value). The range conditions are commented out in the
code, so the model has none. The mask of each call is the code's; what the comments beside it say
is a property of its own (`StaysOutOfCallees`). `removeFromParent` of functions comes before that of
instructions and takes their instructions with it.

*readInit.* A file is a sequence of lines of words and whether a newline follows the last
word; the stream's position is a line and a word in it. `Extract` is `operator>>` with failbit
and eofbit: on a stream that is not good it sets fail and leaves the variable; an extraction that ends at the end of the file sets
eof. `ReadLine` is one turn of the loop with the short-circuit of `||` at line 183.

*CDG.* `bi`, `todo`, `n`, `nNode` are the loops' variables. The tree is a record computed
when the pass starts on a function; what reaches an exit is found in rounds, by a recursive
function on subsets of the blocks. A block that reaches no exit has no node, which is how
the version of LLVM the code is written for builds the tree; `NullDereference` is the
crash that follows.

*SDG.* The four steps are one action each: within a step nothing reads what it writes, so
the order inside it cannot be seen, except the overwriting that `NoEdgeLost` rules out.
The control dependence of a function is the operator `BBGraph`; run `cdg` shows that the
pass computes it. Alias sets are an input.

*Slicer.* `BackSlice` is instantiated with the SDG's nodes and its actions are used as they
are; a phase is one step, which `SliceCorrectness` justifies and the lemma `CollectedIsReaching`
of `SlicerProofs` connects to the computable form `Collected`.

*ConstraintCollect.* A node is named by the map that finds it (`Val`, `Obj`, `Ret`, `Vararg`)
and not numbered; `InvalidIndex` is a name that is not in `nodes`. One action reads the globals,
one creates the value nodes of a function, one reads an instruction; a lookup that fails, a node
created twice, a null `getCalledFunction` and the cases that are "not implemented yet" end in
`aborted`, as the assertions of the code do. The tables of `ExternalLibrary.cpp` are the `kind` of
a function without a body. When everything is read the program runs, one LLVM instruction per
step, on a stack of calls: `holds` says which address each register, object, vararg list and
result holds. That half is external, the meaning of LLVM's instructions, on which the code relies.
It is field-insensitive like the analysis, and stops at a null pointer. A global without an initializer
is defined in another translation unit and may hold any address. `strayed` records that the program has
read one, or used an object that the solution has only as the universal one (`Load`, `Store`,
`CopyMemory`); the program goes on, and the properties say which of them hold after that. `WellFormed`
is what the code and the semantics rely on in a module: what LLVM's verifier guarantees (types,
terminators, operands in scope, one name for one thing) and that library functions are called with
the arguments they take.

*Cycle detector.* `Visit` is the recursion of `visit`, with the state of the class as a record.
The solver and the optimiser use only what it finds; that this is `Components`, each entered by
a root or from outside and found after those it leads to, is the assumption
`DetectorFindsComponents` of `MCAndersen`, which TLC evaluates for all graphs of three nodes
(with and without merging during the search, from several roots) and of four.

*ConstraintSolving.* `rep[n]` is `getMergeTarget(n)` (path compression cannot be observed).
`pts` and `graph` are partial functions because an absent entry and an empty one behave
differently. `ExamineNode` is one turn of the inner loop; the loops inside are folded in the
order of the sets (`InOrder`), since a queued node and a grown set are seen by the later turns.
`PointeeLoaded` and `PointeeStored` are the two inner loops of line 591, `PropagateTo` a turn of the
loop of line 637. `PointeeMoves` is what HCD merges first; when that is into the node whose set the
loop of line 567 iterates, `VisitedPointees` gives every set of pointees it may have seen. LCD
collapses whole components: which member survives is any node by which the search can
have entered it. `constraints` is kept after the build, where the code clears it, for the
properties to refer to; no action after the build reads it.

*ConstraintOptimize.* A pass (HVN or HU) is one step: the graph is built from the constraints, every
component gets a label after those it depends on, nodes of one label are merged, the constraints
are rewritten. Hash maps decide by which node a component is entered (the model takes the lowest
or the highest) and which node of a label stays (any). `runOnGraph` iterates over a hash map into
which the search inserts nodes; with `rehash` the iteration may be cut short after the
lowest or the highest root, since what follows an insertion that rehashes is undefined.

*Anders, OfflineGraph, AndersSolver, PointerGraph.* The passes of `cons_opt` are one step each, on
a record of the fields of all nodes; the solver's loop is one step per turn. `bad` holds the first
assertion that failed. Decision diagrams are sets, and `off_mask` is the operator the code builds as
a diagram. Node numbers are renumbered by `Clump` as the code does, since the later stages compare
them with the last object; `least` is what the constraints say in the first numbering.
The search of LCD iterates over the live `copy_to`, which merges further down the search change:
`LcdEdges` looks at it again when the 64-bit word the iterator has copied runs out, as the iterator
does. `Worklist` has the heaps as arrays with their index of positions: which of two nodes with one
priority comes first is visible in the result, so they are not abstracted.

*Bitmap.* Elements are a sequence of index and bits, and the cached iterator is part of the
state. Words have two bits instead of 64, elements two words as in the default build. Every loop
over the list is a recursive function whose arguments are the loop's variables, so that the loop can
be reasoned about. All operations that change or test a bitmap are there but four, `>>=`, `clear_range`, `set_range` and
`&=`: nothing calls these members of a class template, so no build contains them.

## 3. Runs

| Run | Instance and bounds | What it shows |
|---|---|---|
| `slice_passes` | functions f (i, j) and g (k); every graph of ≤ 3 edges (`MaxEdges`) of three kinds that stand for all (followed by both masks, by the first, by the second); every criterion; either pass; an instruction outside the criterion stands for a parameter node | the marks are what the two masks reach, one after the other (`MarkedIsSlice`, `ForwardMarkedIsSlice`), the loop invariant (`Frontier`), no dangling dependence (`DependencesKept`), nothing deleted that depends on what is kept (`NoAffectedDeleted`), they end (`Terminates`) |
| `forward_callees` (violation) | the same with ≤ 2 edges | the first phase of the forward pass enters called procedures, which its comment denies |
| `slice_conf` | ≤ 3 lines of 0–2 bounds, two functions and an unknown name, with and without last newline, two values of unassigned ints | which lines count (`MarkedAsRead`), complete files are read to the end, a failed stream spins for ever (`StuckForever`) |
| `cdg` | all control-flow graphs of a 4-block and a 2-block function, ≤ 2 successors | the edges are exactly control dependence and the entry block depends on ENTRY (`Complete`), it ends, and it crashes exactly when a block with a predecessor reaches no exit |
| `slicer` | main with three blocks and two calls, two callees; 4 shapes of control flow, recursive, external and indirect callees, 3 aliasings, 8 sets of optional chains | what is marked stays (`MarkedAreKeptIfRooted`), with it what its value comes from (`SourcesAreKept`) and the calls that lead to it (`CallsAreKept`); no insert loses an edge |
| `slicer_loop` (violation) | one shape | a criterion behind an uncontrolled loop: the function is removed with its marked nodes |
| `solve` | 4 nodes (`NumNodes`); seven skeletons and ≤ 2 more constraints of any kind (`MaxExtra`; one more for the skeletons about labels and for `Hollow`, a cycle through the pointees of a node that has none); HCD and LCD off and on; HVN, HU and both on the smaller problems | it ends; the solution, read through the merge links, is the least one of the constraints as collected (`SolutionIsLeast`, which names the exceptions), and alias answers hold of it (`AliasAnswersHold`); nothing is held back by a node that is not queued (`HandedOn`), nothing sits on a merged node, no step loses a pointee |
| `solve_fixed_point` (violation) | HCD alone | the solver may stop before a fixed point |
| `anders` | a function, an external function of every kind, a struct of two fields, a variable, five pointers, up to two indirect calls; 474 programs in six families (`OnThePath`: a merge inside the search of LCD); one or a few LCD starts, giving up every 4 runs | no assertion fails but two of LCD (`AbortsOnlyInLcd`); a converged run satisfies every constraint of its input; nothing is in any set that the constraints do not say, not even in a partial result; merged nodes are equal in the end; a node with undone work is on the worklist; it ends |
| `bitmap` | 12 bits in elements of 4, ≤ 3 bits set (`MaxCount`), 7 right-hand sides; every modelled operation from every list and cached iterator they lead to | the list is canonical and the operations are those of a set of numbers (`ImplementsBitSet`) |
| `collect` | 716 small modules: main, a function, a variadic function, a library function of each table, two globals; every instruction, operand and initializer case; calls direct, through a loaded pointer and through a cast; ≤ 3 active calls (`MaxDepth`) | until the program has strayed, every address it holds is in the least solution of the constraints (`CollectionIsSound`); only what the code says it does not handle stops the reading (`OrdinaryProgramsAreRead`) |
| `collect_alias` (violation) | modules with an indirect call | the result of the call is said not to alias a pointer it equals |

Why the bounds are enough to be of interest. Three edges let a path climb to a caller in
the first phase, descend through a return in the second and close a cycle, and the proofs
remove the bound for the slicing passes. Four blocks hold a loop with an exit inside a
branch, two exits, and an endless loop beside a terminating path; the second function
is there because `_bbGraph` is shared. Two calls of two functions, one of which calls,
give two call sites of one callee, recursion, and a function that is reached only through
memory. Four nodes and a skeleton of three or four constraints are the least in which a
cycle closes while solving, after its members have been propagated to different sets, and in
which variables have the label of an address or of each other; `DetectCycles`,
`CollapseExamined`, `MergePastTheEnd` and both optimiser passes all happen there. The programs of
`anders` were chosen until every branch of its operators was taken: two nodes with HCD targets,
calls or members that are merged only while solving, variables that are merged while LCD is still
at them, offline cycles that HU closes for HCD, every external function with every kind of
argument. Twelve bits give three elements, the least in which a cached iterator is before, at and after the element wanted. The modules of `collect` have one
instruction of each kind between two allocations and a store, a backward branch when
a phi reads what a later load defines, and one nested call, the least depth at which a callee
passes on what it was passed.

The abstract slice is stated with an intersection of closed sets; `Slicer` computes it in rounds
(`Collected`). `SlicerProofs` proves that the two agree; the assumption `CollectedIsReaching` of
`MCSlicePass` has TLC compare them on every graph of two edges.

`CHECK_DEADLOCK FALSE` is set where the pass ends (or crashes) and the behaviour stops there;
`ConstraintSolving` has an explicit `Stopped` instead, and `Bitmap` never stops.

Fairness is weak fairness of `Next` in every liveness run. Each pass is sequential code on one
thread, which executes its next statement as long as there is one; nothing stronger is
assumed (each of the two slicing passes gets its own, as only one of them runs), in particular nothing
about the order of visits. In `ConstraintSolving`, `Andersen` and
`Anders` it is written out (`Running`, `AndersenRunning`), which says the same because `Next` is
enabled until the end.

### Findings

Shown by a run that expects the violation:

1. A loop head that nothing outside the loop controls depends on itself only, so `CDG.cpp:46`
   does not attach it to ENTRY. A criterion behind it does not mark its function's entry, and
   `sliceModule` removes the function, marked nodes included (`slicer_loop`). `SourcesAreKept`
   and its companions are therefore stated for programs in which every block is reached from ENTRY
   (`Rooted`).
2. HCD may end short of the fixed point: `ConstraintSolving.cpp:575` merges pointees into the
   collapse target without queuing it (`solve_fixed_point`). With HCD `SolutionIsLeast` therefore
   says only that nothing is added, and `HandedOn` and `AliasAnswersHold` are stated without HCD.
3. The result of an indirect call is to be "anything" (`ConstraintCollect.cpp:386`); it points to
   the universal object, and `AndersenAA.cpp:36-44` takes that for one object among others and
   answers NoAlias for pointers that are equal (`collect_alias`). `CollectionIsSound` therefore
   counts the universal object as a way of saying that anything may be there.
4. `ForwardSlice.cpp:103` says that the first phase does not descend into called procedures and `:106`
   that the second does not ascend to call sites. The masks are those of the backward pass, and along
   successors they do the opposite (`forward_callees`). `ForwardMarkedIsSlice` is therefore about the
   masks and not about these comments.

Met while modelling, and kept in the models:

- `BackSlice.cpp:188` (and `ForwardSlice.cpp:180`) drops the last criterion of a list that does
  not end in a newline; `MarkedAsRead` says so exactly.
- `BackSlice.cpp:86-98` removes an unmarked branch or return like any other instruction, so that what is
  left of a block may have no terminator. A slice is not a module that can be run as it stands;
  `SourcesAreKept` says only that what a kept value comes from is kept.
- The second phase follows memory edges out of the procedures it slices, although
  `BackSlice.cpp:112` says that it stays below call sites: a function it reaches that way is kept
  and nothing calls it. `CallsAreKept` excepts such programs (`LocalMemory`).
- The universal object does not point to itself, as `ConstraintCollect.cpp:18` has it: it gets a
  STORE through its own, empty set. A global without an initializer does not point to "the universal
  set", as `:113` has it: it gets a copy from that empty set. What is read through a universal
  pointer or from such a global therefore points to nothing in the solution, while the program may
  hold any address there. `CollectionIsSound` holds up to the first such use only (`~strayed`);
  without that exception TLC finds it violated.
- The offline cycle detection of HCD merges the variables of a cycle that leads through `*n`
  (`ConstraintSolving.cpp:371`, `389`) although the cycle exists only if `n` points to something.
  When it points nowhere, a variable gets what is never copied to it, and the alias query may
  answer MustAlias for pointers to different objects. The attempt to prove that nothing is added
  stopped at this case, the instance `Hollow` shows it, and `SolutionIsLeast` excepts it
  (`HollowCycle`).
- HU after HVN takes the address of a merged variable for that of its representative, and a
  search of `runOnGraph` that a rehash cuts short leaves nodes with the label 0, whose constraints
  are dropped (`ConstraintOptimize.cpp:273`); `SolutionIsLeast` names both exceptions.
- `pts_cleanup` (`main.cpp:68`) drops sets by the first value of a node, which other values may share.
- `va_arg` in a function that is not variadic, which C allows when a `va_list` is passed on, stops at
  an assertion: the function has no vararg node. Pointers that are stored as integers are not
  followed through memory; `inttoptr` of anything but a visible `ptrtoint` is the universal pointer.
- When LCD merges two nodes that are each the pointer of an offline cycle, `merge_nodes` merges the
  variables of the two cycles (`cons_opt.cpp:212-219`), and one of them may be a node the search
  is still at. Then it is no representative any more (the assertion at `solve.cpp:923` fails) or has become
  its own successor (`:919`). The programs `OnThePath` reach both, for example
  `d = *b; *b = d; e = *c; *c = e; b = d` with a call argument copied to and from; a build without
  assertions goes on with a node that was merged away. `AbortsOnlyInLcd` excepts these two assertions by name
  (`LcdPathMerged`).
- The same `merge_nodes` does not queue the variable it has merged. `NothingForgotten` holds all the
  same because the pointer of the cycle is queued, and its run brings the variable along (`Awaited`).
- The bitmap's `>>=`, `set_range` and `clear_range` build masks of 32 bits (`1 << k`, `~0U`) for words of 64
  (`bitmap.h:56`), so that a shift by 1 loses bits and `set_range(31, 1)` leaves an empty element; `&=`
  does not report the elements it erases at the end, although `bitmap.h:714` says it
  returns whether the bitmap changed. Nothing calls these members, and they are not modelled.
- Null dereferences (`NullDereference`, `CrashInCalls`), failing assertions (`CrashInPointers`,
  `aborted` in `ConstraintCollect`) and a merge past the end of the nodes (`MergePastTheEnd`, the
  REF node of index 0 at `ConstraintSolving.cpp:365`) end the runs that meet them.

## 4. Proofs

`tlapm` proves these for every value of the constants:

| Module | Theorem | Statement |
|---|---|---|
| `SlicePassProofs` | `TypeCorrectness`, `FrontierInvariant`, `SliceCorrectness`, `DependencesCorrectness` | `TypeOK`, `Frontier`, `MarkedIsSlice`, `DependencesKept` always in the backward pass |
| `SlicePassProofs` | `ForwardTypeCorrectness`, `ForwardFrontierInvariant`, `ForwardSliceCorrectness`, `ForwardAffectedCorrectness` | `TypeOK`, `ForwardFrontier`, `ForwardMarkedIsSlice`, `NoAffectedDeleted` always in the forward pass |
| `SliceConfProofs` | `TypeCorrectness`, `MarkingCorrectness`, `Stuckness` | `TypeOK`, `MarkedAsRead` always; `StuckForever` |
| `CDGProofs` | `TypeCorrectness`, `Completeness`, `CrashCorrectness` | `TypeOK`, `Complete` always; `CrashExactly` |
| `SlicerProofs` | `NoEdgeIsLost`, `MarkedStay`, `SourcesStay`, `SliceIsEntered` | `NoEdgeLost`; `MarkedAreKeptIfRooted`, `SourcesAreKept`, `CallsAreKept` always |
| `AndersenProofs` | `TypeCorrectness`, `OnlyRepresentativesHold`, `WorkIsHandedOn` | `AndersenTypeOK`, `OnlyRepresentatives`, `HandedOn` always |
| | `NothingIsLost` | `NothingLost` |
| | `SolvedWithoutHcd` | `FixedPointReached` always, without HCD |
| | `LeastSolutionFound`, `AliasAnswersAreRight` | `SolutionIsLeast`, `AliasAnswersHold` always, when neither HVN nor HU ran |
| `ConstraintCollectProofs` | `CollectionSound`, `OrdinaryRead` | `CollectionIsSound`, `OrdinaryProgramsAreRead` always |
| `BitmapProofs` | `CanonicalHolds`, `Refinement` | `Canonical` always; `ImplementsBitSet` |

`tlapm` reads `UNION A \cup B` as `UNION (A \cup B)` where SANY and TLC read `(UNION A) \cup B`; the
modules write the parentheses.

### Assumptions

Each is an `ASSUME` of the module that declares the constants, and TLC evaluates it on the
instances of section 3.

- `FunctionOfAssumption`, `CriteriaAssumption`, `GraphsAssumption`, `LinesAssumption`,
  `BoundsAssumption`, `NumNodesAssumption`, `ProblemsAssumption`, `OptionsAssumption`: the constants
  have the shapes of the code's maps and settings. The node factory always has its special nodes.
- `FunctionsAssumption`, `NamesAssumption`, `FiniteAssumption`, `PlacesAssumption`: a module is
  finite; functions have a first block, blocks are not empty, and neither blocks, instructions nor
  arguments belong to two functions. These are properties of LLVM's in-memory form.
- `EntryAssumption`: no edge leads to the block a function starts with. LLVM's verifier rejects
  anything else.
- `ProgramsAssumption` of `Slicer`: operands of an instruction are instructions and arguments of its own
  function, constants or globals (the verifier again), and the address of a load is an operand.
- `ProgramsAssumption` of `ConstraintCollect`: every module is `WellFormed`. The verifier grants the
  types, that a function ends in a terminator, that operands are known, that a direct call fits its
  callee; that C's library functions are declared with their own types is taken from their headers.
- `SizesAssumption`, `BitsAssumption` of `Bitmap`: a word has at least one bit, an element a whole number
  of words, and numbers are not negative (they are `unsigned`). Nothing is said of how many.
- `TerminatorAssumption`: the last instruction of a block is no store and no operand of
  another; that excludes `invoke`, which the front end for C does not produce.

### The arguments

*Slicing passes.* That the final marks are the slice is not inductive: half-way through, the
marks are neither closed nor complete. The strengthening is `Frontier`: what is marked or
waiting lies in the closure of the phase's seed, and the neighbours of a marked node that
is not waiting are marked or waiting. `WorkListVisit` shows that one visit keeps this
whatever node it takes, `WorkListStart` that a phase starts with it, and `WorkListEnd` that with
an empty list the marks *are* the closure. The second phase starts with everything marked
and everything waiting, so that the test against the result hides nothing. `IInv` adds that
the module is whole until `sliceModule`, from which what is deleted follows: the second mask
contains control and flow, so the marks are closed under both. The forward pass is the
same over the reversed graph (`SuccsArePredsOfReverse`). `Reaching` is an intersection of closed
sets, so that closure and leastness are one-line lemmas.

*Reader.* A turn of the loop leaves the stream good, drained, failed or failed at the end. The invariant says
that at its head, while the loop goes on, there are two cases: `Good(k)`, k complete lines read and
recorded and a newline behind them, or `Stuck(k)`, failed in line k before the end of the file, with `func` and `inst` of that line.
A turn from `Good` reads one line whatever is missing in it (`Turn`); a turn from `Stuck` records
the same entry again, which a set does not show.

*Control dependence.* First the theory of post-dominance: what reaches an exit is the least closed
set (`ReachingExitLeast`), post-dominance is an order whose members above a block form a chain,
and so the parent the tree gives a block exists and is unique. `IInv` then follows the loops.
`Climbing(s)` is the invariant of the innermost: the nodes from the successor s up to the current
one, exclusive, are recorded; the strict post-dominators of the block are not below the current
one, so the climb cannot pass the block's parent; at the virtual root the block has no parent among
the blocks either. `Completeness` needs the other direction as well: `_bbGraph` is the exact
contribution of the functions, blocks and successors done, which is why it is an equation and why
the loop heads of `CDG.cpp:46` are seen with edges of their own function only. The crash is exact
because what has been passed is known to reach an exit (`NoCrashSoFar`).

*Slicer.* `GraphSoFar` says which pairs each step of the SDG has inserted, as a union and not as
overwriting; this is inductive because the steps insert disjoint pairs, two kinds of flow edges
aside, and gives `NoEdgeIsLost`. `MarksSoFar` says that the two phases compute closures, and
`ModuleSoFar` what is left. The three end properties are then about closures of a known graph. The
hardest is `SliceIsEntered`: `Home` is the function a node belongs to, and without memory edges the
first phase stays inside the functions from which calls lead to the criterion (`Phase1Ascends`).
`SourcesStay` uses that every use, controlling branch, reaching store and return of a
called function is an edge of the second mask. `MarkedStay` walks up control dependence, block by
block, from a marked instruction to ENTRY, which needs `Rooted`.

*Analysis.* `IInv == Tidy /\ Settled /\ Covered /\ Idle /\ SoundSoFar`, for any number of nodes.

- `Tidy` is the shape of the state, with merge links that lead to a representative in one step and
  nothing held by a merged node. `GoodMove` is what a merge must be for this to last: representatives
  move to representatives that stay. Every pass is shown to make such moves (`OfflineMoveIsGood`
  for HCD's offline pass, `ToRootsIsGood` for LCD, `MoveAllIsGood` for the merges of pointees).
- `Settled` is `HandedOn` up to merging: a representative that is on no worklist has handed on what
  it holds (`AllHanded`), where edges and queued nodes are read through the merge links. It
  survives a merge only because the components LCD merges hold the same when none of
  their members waits (`CycleHoldsTheSame`); HCD merges others, so it is excluded.
- `Covered` (every constraint is in the graph, up to merging) and `Idle` (no work in the end) then
  make the end a solution (`EndSolves`).
- `SoundSoFar` is the converse: there is nothing in the state that the least solution does not say.
  Merged nodes are equal in it (`Same`), pointees belong to it, and each edge of the graph is one along which it
  flows (`Sound`); what HCD plans to merge is equal in it as well (`Planned`), since a cycle through
  `*n` is one of the solution as soon as `n` points to anything, which is where `HollowCycle` comes in.
  That `LeastSolution`, computed in rounds, is the least is `LeastSolutionIsLeast`.

*Collection.* `Inv == CollectInv /\ (~strayed => RunInv)`, for any number of functions, instructions and
calls: once the program has strayed nothing is claimed of what it holds, and it never comes back.

- `CollectInv` follows the reading: everything behind the current instruction is `Met`, the
  constraints it asks for are there. A step only adds constraints, and what it adds for its own
  instruction is shown case by case (`InstructionCollected`); the calls reached by an indirect call
  are a fold over the candidates, in an order nobody knows. `AddressesMet` says that the globals and the
  functions whose address is taken have their objects, which is why no later instruction can
  meet an address that nothing points to.
- `RunInv` follows the program that was read. `Follows` says that whatever it holds is in the
  solution, or the solution has lost track of the place. Each instruction keeps this because it is
  `Met` and the solution closed (`Solves`). What makes it inductive is `StackInv`: each frame but the
  last stands at a call, and the frame above it runs a function that this call may reach, so that
  a result goes where the return constraint of that very call sends it.
- `ReadInv` says that what is still to be read has no nodes of its own yet; with names that are
  unique, nothing is created twice (`NewInv`), and `Ready` that whatever an instruction looks up was created
  with the globals, the signatures, or the values of its function.

*Bitmap.* `IInv` is `Canonical` and that the list is one of elements; it is inductive. The work is in
what each operation makes of a canonical list.

- A list is read through `BitsAt(s, i)`, the bits at index i, and a bitmap through `Contents`; division
  with remainder ties the two (`ContentsAre`, `QuotientOrder`). Two canonical lists with the same contents
  are the same list (`ContentsDetermine`), which is why `operator==` and the results of `|=` may compare lists.
- `LowerBound`: from wherever the cursor stands, the search ends where the smaller indices are on one
  side and the greater ones on the other, but for the one it may stop at before i, which `set` corrects.
- `Descent` and `LoopExists` are the two facts about loops: what holds of a state when it holds of all
  smaller ones holds of all, and a loop whose states get smaller has a value. Each loop then has a measure and
  one lemma for its body: `EmitsBits` for the loops over two lists, `WalkStep` for the iterator.
- `WalkStep` says that the iterator goes from a number to the one that follows, in the word, the element or the
  list; `SortedIs` that a set of numbers can be listed in order in one way only.

The loops of the solver are folds over sets of nodes. `SharedProofs` shows, by well-founded
induction on the subsets of a finite set, that such a fold exists, that it keeps what each step
keeps (`FoldKeeps`), and that sets that grow in rounds reach their fixed point (`GrowthEnds`). The
library's induction theorems take an operator and cannot be used here; that every set of
subsets has a smallest member can be stated without one.

### Only model-checked

- Termination of every pass, `WellFormedEnds` included: liveness is beyond the prover.
- `SolutionIsLeast` and `AliasAnswersHold` when HVN or HU ran. That nodes with one label are
  equivalent is an induction on the order in which the search leaves components.
- `AbortsOnlyInLcd`, `Converged`, `NothingSpurious`, `MergedAreEquivalent` and `NothingForgotten` of
  `Anders`: it extends modules that declare recursive operators, on which the provers give up.
- That the search of `CycleDetector.h` finds `Components`, for the same reason; TLC compares the two
  on small graphs (`DetectorFindsComponents`).

## 5. Plan

Done: the slicing passes, the reader, control dependence, the dependence graph and their
composition, all with proofs; the analysis from collection over optimisation and solving to its alias
answers, proved but for the optimiser; the older analysis from its constraints to its answers, with its
worklist, model-checked; its bitmap, proved.

Left, in order of what matters to the slicer's results:

1. Proofs: that what HVN and HU merge is equivalent, which would extend `LeastSolutionFound` and
   `AliasAnswersAreRight` to the optimiser.
2. The older analysis with folds or recursive functions in place of recursive operators, as `Bitmap` has
   them, and its invariants.
3. One composition from the collected constraints to the alias sets `SDG` takes as an input.

## 6. Not modelled

- `obj_cons_id.cpp` and `extinfo.cpp`: objects with their fields laid out from LLVM types, and a
  case per instruction and per library function. Nothing the slicer uses depends on them; the
  programs of `MCAnders` have the shape of their output, which is all that the later stages see.
- Of the analysis: `pointsToConstantMemory`, `copyValue` and `deleteValue`, which forward to other
  analyses or edit the value map; `removeNodeForValue` and `getAllocSites`, which nothing here calls;
  the order of constraints and hash functions, beyond the choices the models leave open.
- What library functions do beyond their tables: `CallLibrary` and `CopyMemory` run only the functions whose
  constraints describe them (not `strtol`, `posix_memalign` or what an unknown function writes).
- Of the bitmap and worklist: `>>=`, `clear_range`, `set_range` and `&=`, which nothing calls; the free
  list of elements (memory management), `getHashValue`, `dump`,
  and the FIFO and LIFO worklists, which the default build compiles out.
- Printing, statistics, profiling, `bdd2vec`'s cache: no state that a result depends on. BuDDy is a
  vendored library; its diagrams are sets here. `PA/` holds declarations only. Build files and the
  unit tests of `andersen` are not part of the program.
- Memory management: edges are leaked on purpose ("XXX: Memory leak"), which no result depends on.
- Integer widths, but for the words of the bitmap's iterator in LCD: node numbers, DFS numbers and time stamps
  count things that are in memory, and bounds are stored but not used. Where widths do matter is in
  the masks of the three bitmap members above. The masks of the members that are modelled (`bitmap.h:145`,
  `191`) are built from `1L` and `~0L`, which have the width of a word on the 64-bit build.
- `DirectedGraph::erase` and `print`: nothing calls the first, the second only writes.
