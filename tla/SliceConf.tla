------------------------------ MODULE SliceConf ------------------------------
(* readInit of the slicing passes: slice.conf is read with operator>>, four     *)
(* words to a criterion (function, instruction number, lower and upper bound),  *)
(* and the instructions it names are marked.  How the text splits into words is *)
(* left out; what a stream does at a word that is no number and at the end of   *)
(* the file is kept, because the loop ends on eof() and on nothing else.        *)
EXTENDS Integers, Sequences, SequencesExt

CONSTANTS
    Body,       \* a function's instructions in order, for the functions of the module
    Lines,      \* the lines slice.conf may hold: [func, inst, bounds]
    MaxLines,   \* bound on the number of lines
    Newline,    \* whether the last line may or must end in a newline
    Junk        \* what an int that was never assigned may hold

ASSUME LinesAssumption == \A l \in Lines : l.bounds \in Seq(Int) /\ Len(l.bounds) <= 2
ASSUME BoundsAssumption == MaxLines \in Nat /\ Newline \subseteq BOOLEAN

\* slice.conf: its lines, and whether a newline follows the last of them.
Files == [lines : BoundedSeq(Lines, MaxLines), newline : Newline]

\* A line is its function, its number and its bounds.
WordsIn(l) == 2 + Len(l.bounds)
Word(kind, v) == [kind |-> kind, val |-> v]
WordOf(l, k) ==
    IF k = 1 THEN Word("name", l.func)
    ELSE Word("num", IF k = 2 THEN l.inst ELSE l.bounds[k - 2])

VARIABLES
    file,           \* the contents of slice.conf
    in,             \* the stream: lines and words of the next line read, failbit, eofbit
    funcName, instNum, lower, upper,    \* the locals of readInit
    toSliceList,    \* <<function, number>> pairs
    lineToBounds,   \* bounds by instruction number
    useRange,       \* the global of BackSlice.cpp (left alone by the forward pass)
    markedNodes,
    boundsMap,      \* bounds by marked node
    pc

vars == <<file, in, funcName, instNum, lower, upper, toSliceList, lineToBounds,
          useRange, markedNodes, boundsMap, pc>>

Init ==
    /\ file \in Files
    /\ in = [line |-> 0, word |-> 0, fail |-> FALSE, eof |-> FALSE]
    /\ funcName = ""
    /\ instNum \in Junk /\ lower \in Junk /\ upper \in Junk
    /\ toSliceList = {}
    /\ lineToBounds = <<>>
    /\ useRange = TRUE
    /\ markedNodes = {}
    /\ boundsMap = <<>>
    /\ pc = "read"

\* `s >> x` for an x that holds old.  A stream that is not good fails and leaves x;
\* so does one with white space only before the end.  A word that is no number puts
\* 0 in an int, fails and is not consumed.  A word that ends with the file sets eof.
AtEnd(s) == s.line = Len(file.lines)
Consume(s) ==
    IF s.word + 1 = WordsIn(file.lines[s.line + 1])
    THEN [s EXCEPT !.line = @ + 1, !.word = 0]
    ELSE [s EXCEPT !.word = @ + 1]
Extract(s, kind, old) ==
    IF s.fail \/ s.eof
    THEN [s |-> [s EXCEPT !.fail = TRUE], x |-> old]
    ELSE IF AtEnd(s)
    THEN [s |-> [s EXCEPT !.fail = TRUE, !.eof = TRUE], x |-> old]
    ELSE LET w == WordOf(file.lines[s.line + 1], s.word + 1)
             next == Consume(s)
         IN  IF kind = "num" /\ w.kind = "name"
             THEN [s |-> [s EXCEPT !.fail = TRUE], x |-> 0]
             ELSE [s |-> [next EXCEPT !.eof = AtEnd(next) /\ ~file.newline], x |-> w.val]

Put(f, k, v) == [x \in DOMAIN f \cup {k} |-> IF x = k THEN v ELSE f[x]]

\* One turn of the loop: four extractions, the fourth only if the third succeeded,
\* then break on eof or record the criterion.  The mutants look for failure where
\* the code looks for the end of the file, and drop the check.
EndsOnFail(s) == s.fail
EndsNever(s) == FALSE
Ends(s) == s.eof

ReadLine ==
    /\ pc = "read"
    /\ \E name \in {Extract(in, "name", funcName)} :
       \E num \in {Extract(name.s, "num", instNum)} :
       \E lo \in {Extract(num.s, "num", lower)} :
       \E up \in {IF lo.s.fail THEN [s |-> lo.s, x |-> upper]
                                ELSE Extract(lo.s, "num", upper)} :
          /\ in' = up.s
          /\ funcName' = name.x
          /\ instNum' = num.x
          /\ lower' = lo.x
          /\ upper' = up.x
          /\ useRange' = (useRange /\ ~up.s.fail)
    /\ IF Ends(in')
       THEN pc' = "mark" /\ UNCHANGED <<toSliceList, lineToBounds>>
       ELSE /\ pc' = "read"
            /\ toSliceList' = toSliceList \cup {<<funcName', instNum'>>}
            /\ lineToBounds' = Put(lineToBounds, instNum', <<lower', upper'>>)
    /\ UNCHANGED <<file, markedNodes, boundsMap>>

\* The node of the instruction a function has at position n, counted from 0.
Listed(pairs) ==
    {p \in pairs : p[1] \in DOMAIN Body /\ p[2] + 1 \in DOMAIN Body[p[1]]}
Nodes(pairs) == {Body[p[1]][p[2] + 1] : p \in Listed(pairs)}

\* The loops over the module.  Every marked node gets the bounds of the number read
\* last, not of its own: lineToBounds is indexed with instNum.  The mutant keys
\* boundsMap by the entries of slice.conf instead of the nodes.
MarkByEntry ==
    /\ pc = "mark"
    /\ markedNodes' = markedNodes \cup Nodes(toSliceList)
    /\ boundsMap' = [p \in toSliceList |-> <<0, 0>>]
    /\ pc' = "done"
    /\ UNCHANGED <<file, in, funcName, instNum, lower, upper, toSliceList,
                   lineToBounds, useRange>>
Mark ==
    /\ pc = "mark"
    /\ markedNodes' = markedNodes \cup Nodes(toSliceList)
    /\ boundsMap' =
          [n \in Nodes(toSliceList) |->
              IF instNum \in DOMAIN lineToBounds THEN lineToBounds[instNum] ELSE <<0, 0>>]
    /\ lineToBounds' =
          IF Nodes(toSliceList) = {} \/ instNum \in DOMAIN lineToBounds
          THEN lineToBounds ELSE Put(lineToBounds, instNum, <<0, 0>>)
    /\ pc' = "done"
    /\ UNCHANGED <<file, in, funcName, instNum, lower, upper, toSliceList, useRange>>

Next == ReadLine \/ Mark

Spec == Init /\ [][Next]_vars

\* readInit is one thread of straight-line code: it always takes its next step.
FairSpec == Spec /\ WF_vars(Next)

-----------------------------------------------------------------------------
(* Properties.                                                                  *)

\* Every variable keeps its shape, and between two turns the stream stands where a line
\* begins: a turn that does not find the four words it wants has still used up its line.
TypeOK ==
    /\ in \in [line : 0 .. Len(file.lines), word : {0}, fail : BOOLEAN, eof : BOOLEAN]
    /\ \A p \in toSliceList : p \in {<<l.func, l.inst>> : l \in Lines}
    /\ markedNodes \subseteq UNION {ToSet(Body[f]) : f \in DOMAIN Body}
    /\ DOMAIN boundsMap = markedNodes
    /\ pc \in {"read", "mark", "done"}

\* The criteria of the first n lines of the file.
CriteriaOf(n) == {<<file.lines[k].func, file.lines[k].inst>> : k \in 1 .. n}

Complete(l) == Len(l.bounds) = 2
WellFormed(f) == \A k \in DOMAIN f.lines : Complete(f.lines[k])

\* If reading ends, the nodes marked are those of every line but, when it lacks a
\* bound or its newline, the last: the loop breaks on eof() before it records what
\* it has just read.
LastLineCounts ==
    /\ file.lines # <<>>
    /\ Complete(file.lines[Len(file.lines)])
    /\ file.newline
MarkedAsRead ==
    pc = "done" =>
        markedNodes = Nodes(CriteriaOf(IF LastLineCounts \/ file.lines = <<>>
                                       THEN Len(file.lines) ELSE Len(file.lines) - 1))

\* A file whose lines are complete is read to its end.
WellFormedEnds == WellFormed(file) ~> pc = "done"

\* A stream that failed before the end of the file never reaches it: a line that
\* lacks a bound, unless it is the last, makes the loop spin, recording the same
\* criterion over and over.
StuckForever ==
    [][in.fail /\ ~in.eof => UNCHANGED <<in, funcName, instNum, toSliceList, pc>>]_vars
=============================================================================
