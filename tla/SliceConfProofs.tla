---------------------------- MODULE SliceConfProofs ----------------------------
(* Proofs about readInit: which criteria it records, for a slice.conf of any       *)
(* number of lines over any functions of the module.                              *)
EXTENDS SliceConf, TLAPS

-----------------------------------------------------------------------------
(* The inductive invariant.                                                        *)

L == Len(file.lines)

\* The criteria a file that is read to its end is worth.
Read == CriteriaOf(IF LastLineCounts \/ file.lines = <<>> THEN L ELSE L - 1)

\* A stream before a word of a line: good, after the last word of a file that does not
\* end in a newline, failed before the end of the file, and failed at it.
Ok(line, word) == [line |-> line, word |-> word, fail |-> FALSE, eof |-> FALSE]
Drained(line, word) == [line |-> line, word |-> word, fail |-> FALSE, eof |-> TRUE]
Failed(line, word) == [line |-> line, word |-> word, fail |-> TRUE, eof |-> FALSE]
Ended(line, word) == [line |-> line, word |-> word, fail |-> TRUE, eof |-> TRUE]

\* The head of the loop with a good stream: k lines were read, all complete, and there
\* is a newline after the last one.
Good(k) ==
    /\ in = Ok(k, 0)
    /\ \A j \in 1 .. k : Complete(file.lines[j])
    /\ toSliceList = CriteriaOf(k)
    /\ k = L /\ L > 0 => file.newline

\* ... with a stream that failed before the end of the file: line k, where it stopped,
\* is recorded, and the next turns record it again.
Stuck(k) ==
    /\ in = Failed(k, 0)
    /\ toSliceList = CriteriaOf(k)
    /\ funcName = file.lines[k].func /\ instNum = file.lines[k].inst

Reading == (\E k \in 0 .. L : Good(k)) \/ (\E k \in 1 .. L : Stuck(k))

IInv ==
    /\ file \in Files
    /\ TypeOK
    /\ pc \in {"read", "mark"} => markedNodes = {} /\ boundsMap = <<>>
    /\ pc = "read" => Reading
    /\ pc \in {"mark", "done"} => toSliceList = Read /\ in.eof
    /\ pc = "done" => markedNodes = Nodes(Read)

-----------------------------------------------------------------------------
(* One turn of the loop.                                                           *)

\* A file is a sequence of lines.
LEMMA FileShape ==
    ASSUME file \in Files
    PROVE  /\ file.lines \in Seq(Lines) /\ L \in Nat /\ file.newline \in BOOLEAN
           /\ \A k \in 1 .. L : /\ file.lines[k] \in Lines
                                /\ Len(file.lines[k].bounds) \in {0, 1, 2}
                                /\ WordsIn(file.lines[k]) = 2 + Len(file.lines[k].bounds)
                                /\ Complete(file.lines[k]) <=> Len(file.lines[k].bounds) = 2
<1>1. file.lines \in BoundedSeq(Lines, MaxLines) /\ file.newline \in BOOLEAN
  BY BoundsAssumption DEF Files
<1>2. PICK m \in 0 .. MaxLines : file.lines \in [1 .. m -> Lines]
  BY <1>1 DEF BoundedSeq, SeqOf
<1>3. file.lines \in Seq(Lines)
  BY <1>2, BoundsAssumption
<1>4. L \in Nat /\ \A k \in 1 .. L : file.lines[k] \in Lines
  BY <1>3 DEF L
<1>5. \A l \in Lines : Len(l.bounds) \in {0, 1, 2}
  <2> SUFFICES ASSUME NEW l \in Lines PROVE Len(l.bounds) \in {0, 1, 2}
    OBVIOUS
  <2> DEFINE n == Len(l.bounds)
  <2>1. l.bounds \in Seq(Int) /\ n <= 2
    BY LinesAssumption
  <2>2. n \in Nat
    BY <2>1
  <2> HIDE DEF n
  <2>3. n \in {0, 1, 2}
    BY <2>1, <2>2
  <2> QED
    BY <2>3 DEF n
<1> QED
  BY <1>1, <1>3, <1>4, <1>5 DEF WordsIn, Complete

\* Extracting from a stream that is not good.
LEMMA ExtractFails ==
    ASSUME NEW a, NEW b, NEW kind, NEW old
    PROVE  /\ Extract(Failed(a, b), kind, old) = [s |-> Failed(a, b), x |-> old]
           /\ Extract(Ended(a, b), kind, old) = [s |-> Ended(a, b), x |-> old]
           /\ Extract(Drained(a, b), kind, old) = [s |-> Ended(a, b), x |-> old]
BY DEF Extract, Failed, Ended, Drained

\* ... at the end of the file.
LEMMA ExtractEnds ==
    ASSUME NEW b, NEW kind, NEW old
    PROVE  Extract(Ok(L, b), kind, old) = [s |-> Ended(L, b), x |-> old]
BY DEF Extract, Ok, Ended, AtEnd, L

\* ... a number where the next line begins.
LEMMA ExtractMisfits ==
    ASSUME NEW a, a # L, NEW old
    PROVE  Extract(Ok(a, 0), "num", old) = [s |-> Failed(a, 0), x |-> 0]
<1>1. WordOf(file.lines[a + 1], 0 + 1).kind = "name"
  BY DEF WordOf, Word
<1> QED
  BY <1>1 DEF Extract, Ok, Failed, AtEnd, L

\* Setting the flag of the end of the file.
LEMMA SetEof ==
    ASSUME NEW a, NEW b
    PROVE  [Ok(a, b) EXCEPT !.eof = FALSE] = Ok(a, b) /\ [Ok(a, b) EXCEPT !.eof = TRUE] = Drained(a, b)
<1>1. ASSUME NEW f \in BOOLEAN, NEW e \in BOOLEAN, NEW x \in BOOLEAN, NEW s,
             s = [line |-> a, word |-> b, fail |-> f, eof |-> e]
      PROVE  [s EXCEPT !.eof = x] = [line |-> a, word |-> b, fail |-> f, eof |-> x]
  BY <1>1
<1>2. TRUE \in BOOLEAN /\ FALSE \in BOOLEAN
  OBVIOUS
<1> QED
  BY ONLY <1>1, <1>2, Zenon DEF Ok, Drained

\* ... a word of the kind that is expected, in the middle of its line or the last of it.
LEMMA ExtractReads ==
    ASSUME NEW a \in Nat, a # L, NEW b \in Nat, NEW kind, kind = "name" \/ b > 0, NEW old
    PROVE  Extract(Ok(a, b), kind, old) =
              [s |-> IF b + 1 # WordsIn(file.lines[a + 1]) THEN Ok(a, b + 1)
                     ELSE IF a + 1 = L /\ ~file.newline THEN Drained(a + 1, 0)
                     ELSE Ok(a + 1, 0),
               x |-> WordOf(file.lines[a + 1], b + 1).val]
<1> DEFINE s == Ok(a, b)
           l == file.lines[a + 1]
           v == WordOf(l, b + 1).val
           next == Consume(s)
           flag == AtEnd(next) /\ ~file.newline
           t == [next EXCEPT !.eof = flag]
<1>1. ~(kind = "num" /\ WordOf(l, b + 1).kind = "name")
  BY DEF WordOf, Word
<1>2. Extract(s, kind, old) = [s |-> t, x |-> v]
  BY <1>1 DEF Extract, AtEnd, L, Ok
<1>3. ASSUME b + 1 # WordsIn(l)
      PROVE  t = Ok(a, b + 1)
  <2>1. next = Ok(a, b + 1)
    BY <1>3 DEF Consume, Ok
  <2> HIDE DEF next
  <2>2. flag = FALSE
    BY <2>1 DEF Ok, AtEnd, L
  <2> HIDE DEF flag
  <2> QED
    BY ONLY <2>1, <2>2, SetEof, Zenon
<1>4. ASSUME b + 1 = WordsIn(l)
      PROVE  t = IF a + 1 = L /\ ~file.newline THEN Drained(a + 1, 0) ELSE Ok(a + 1, 0)
  <2>1. next = Ok(a + 1, 0)
    BY <1>4 DEF Consume, Ok
  <2> HIDE DEF next
  <2>2. AtEnd(next) <=> a + 1 = L
    BY <2>1 DEF Ok, AtEnd, L
  <2>3. CASE a + 1 = L /\ ~file.newline
    <3>1. flag = TRUE
      BY <2>2, <2>3
    <3> HIDE DEF flag
    <3>2. t = Drained(a + 1, 0)
      BY ONLY <2>1, <3>1, SetEof, Zenon
    <3> QED
      BY <2>3, <3>2
  <2>4. CASE ~(a + 1 = L /\ ~file.newline)
    <3>1. flag = FALSE
      BY <2>2, <2>4
    <3> HIDE DEF flag
    <3>2. t = Ok(a + 1, 0)
      BY ONLY <2>1, <3>1, SetEof, Zenon
    <3> QED
      BY <2>4, <3>2
  <2> QED
    BY <2>3, <2>4
<1> HIDE DEF t
<1> QED
  BY <1>2, <1>3, <1>4

\* The four extractions of a turn.
Name == Extract(in, "name", funcName)
Num == Extract(Name.s, "num", instNum)
Lo == Extract(Num.s, "num", lower)
Up == IF Lo.s.fail THEN [s |-> Lo.s, x |-> upper] ELSE Extract(Lo.s, "num", upper)

\* What a turn does, in terms of its four extractions.
LEMMA Turn ==
    ASSUME ReadLine
    PROVE  /\ in' = Up.s /\ funcName' = Name.x /\ instNum' = Num.x
           /\ pc = "read" /\ UNCHANGED <<file, markedNodes, boundsMap>>
           /\ Up.s.eof => pc' = "mark" /\ toSliceList' = toSliceList
           /\ ~Up.s.eof => pc' = "read" /\ toSliceList' = toSliceList \cup {<<funcName', instNum'>>}
<1>1. in' = Up.s /\ funcName' = Name.x /\ instNum' = Num.x
  BY DEF ReadLine, Up, Lo, Num, Name
<1>2. /\ pc = "read" /\ UNCHANGED <<file, markedNodes, boundsMap>>
      /\ in'.eof => pc' = "mark" /\ toSliceList' = toSliceList
      /\ ~in'.eof => pc' = "read" /\ toSliceList' = toSliceList \cup {<<funcName', instNum'>>}
  BY DEF ReadLine, Ends
<1> QED
  BY <1>1, <1>2

\* A turn that a failed stream takes changes nothing.
LEMMA StuckTurn ==
    ASSUME NEW a, in = Failed(a, 0)
    PROVE  Up.s = in /\ Name.x = funcName /\ Num.x = instNum
<1>1. Name = [s |-> in, x |-> funcName]
  BY ExtractFails DEF Name
<1>2. Num = [s |-> in, x |-> instNum]
  BY <1>1, ExtractFails DEF Num
<1>3. Lo = [s |-> in, x |-> lower]
  BY <1>2, ExtractFails DEF Lo
<1>4. Lo.s.fail
  BY <1>3 DEF Failed
<1> QED
  BY <1>1, <1>2, <1>3, <1>4 DEF Up

\* A turn at the end of the file fails and ends the loop.
LEMMA LastTurn ==
    ASSUME in = Ok(L, 0)
    PROVE  Up.s = Ended(L, 0)
<1>1. Name = [s |-> Ended(L, 0), x |-> funcName]
  BY ExtractEnds DEF Name
<1>2. Num = [s |-> Ended(L, 0), x |-> instNum]
  BY <1>1, ExtractFails DEF Num
<1>3. Lo = [s |-> Ended(L, 0), x |-> lower]
  BY <1>2, ExtractFails DEF Lo
<1>4. Lo.s.fail
  BY <1>3 DEF Ended
<1> QED
  BY <1>3, <1>4 DEF Up

\* The stream after the last word of a line.
AfterLine(k) == IF k = L /\ ~file.newline THEN Drained(k, 0) ELSE Ok(k, 0)

\* Extracting one more bound than the line has: it fails where the next line begins,
\* or at the end of the file, whether a newline is before it or not.
LEMMA MissingBound ==
    ASSUME NEW k, NEW old
    PROVE  Extract(AfterLine(k), "num", old).s = IF k = L THEN Ended(k, 0) ELSE Failed(k, 0)
<1>1. CASE k = L /\ ~file.newline
  BY <1>1, ExtractFails DEF AfterLine
<1>2. CASE k = L /\ file.newline
  BY <1>2, ExtractEnds DEF AfterLine
<1>3. CASE k # L
  BY <1>3, ExtractMisfits DEF AfterLine
<1> QED
  BY <1>1, <1>2, <1>3

\* A turn of a good stream with a line ahead uses up that line and takes its function and
\* its number; it fails when a bound is missing.
LEMMA ReadingTurn ==
    ASSUME file \in Files, NEW k \in Nat, k < L, in = Ok(k, 0)
    PROVE  LET l == file.lines[k + 1]
           IN  /\ Name.x = l.func /\ Num.x = l.inst
               /\ Complete(l) => Up.s = AfterLine(k + 1)
               /\ ~Complete(l) => Up.s = IF k + 1 = L THEN Ended(k + 1, 0) ELSE Failed(k + 1, 0)
<1> DEFINE l == file.lines[k + 1]
           n == Len(l.bounds)
<1>1. /\ L \in Nat /\ k # L /\ n \in {0, 1, 2} /\ WordsIn(l) = 2 + n
      /\ Complete(l) <=> n = 2
  BY FileShape
<1> HIDE DEF n
<1>2. Name = [s |-> Ok(k, 1), x |-> l.func]
  <2>1. 0 + 1 # WordsIn(l)
    BY <1>1
  <2>2. WordOf(l, 0 + 1).val = l.func
    BY DEF WordOf, Word
  <2> QED
    BY <1>1, <2>1, <2>2, ExtractReads DEF Name
<1>3. Num.x = l.inst /\ Num.s = IF n = 0 THEN AfterLine(k + 1) ELSE Ok(k, 2)
  <2>1. 1 + 1 # WordsIn(l) <=> n # 0
    BY <1>1
  <2>2. WordOf(l, 1 + 1).val = l.inst
    BY DEF WordOf, Word
  <2>3. Num = Extract(Ok(k, 1), "num", instNum)
    BY <1>2 DEF Num
  <2> QED
    BY <1>1, <2>1, <2>2, <2>3, ExtractReads DEF AfterLine
<1>4. CASE n = 0
  <2>1. Lo.s = IF k + 1 = L THEN Ended(k + 1, 0) ELSE Failed(k + 1, 0)
    BY <1>3, <1>4, MissingBound DEF Lo
  <2>2. Lo.s.fail
    BY <2>1 DEF Ended, Failed
  <2> QED
    BY <1>1, <1>2, <1>3, <1>4, <2>1, <2>2 DEF Up
<1>5. CASE n # 0
  <2>1. Lo = Extract(Ok(k, 2), "num", lower)
    BY <1>3, <1>5 DEF Lo
  <2>2. Lo.s = IF n = 1 THEN AfterLine(k + 1) ELSE Ok(k, 3)
    <3>1. 2 + 1 # WordsIn(l) <=> n # 1
      BY <1>1
    <3> QED
      BY <1>1, <2>1, <3>1, ExtractReads DEF AfterLine
  <2>3. ~Lo.s.fail
    BY <2>2 DEF AfterLine, Ok, Drained
  <2>4. Up = Extract(Lo.s, "num", upper)
    BY <2>3 DEF Up
  <2>5. CASE n = 1
    BY <1>1, <1>2, <1>3, <2>2, <2>4, <2>5, MissingBound
  <2>6. CASE n = 2
    <3>1. ~(3 + 1 # WordsIn(l))
      BY <1>1, <2>6
    <3>2. Up.s = AfterLine(k + 1)
      BY <1>1, <2>2, <2>4, <2>6, <3>1, ExtractReads DEF AfterLine
    <3> QED
      BY <1>1, <1>2, <1>3, <2>6, <3>2
  <2> QED
    BY <1>1, <1>5, <2>5, <2>6
<1> QED
  BY <1>4, <1>5

-----------------------------------------------------------------------------
(* The invariant holds throughout.                                                 *)

\* What the criteria of the first lines are.
LEMMA CriteriaShape ==
    ASSUME file \in Files
    PROVE  /\ \A k \in 0 .. L : CriteriaOf(k) \subseteq {<<l.func, l.inst>> : l \in Lines}
           /\ CriteriaOf(0) = {}
           /\ \A k \in 1 .. L : CriteriaOf(k) =
                 CriteriaOf(k - 1) \cup {<<file.lines[k].func, file.lines[k].inst>>}
<1>1. L \in Nat /\ \A k \in 1 .. L : file.lines[k] \in Lines
  BY FileShape
<1>2. ASSUME NEW k \in 0 .. L
      PROVE  CriteriaOf(k) \subseteq {<<l.func, l.inst>> : l \in Lines}
  BY <1>1 DEF CriteriaOf
<1>3. CriteriaOf(0) = {}
  BY DEF CriteriaOf
<1>4. ASSUME NEW k \in 1 .. L
      PROVE  CriteriaOf(k) = CriteriaOf(k - 1) \cup {<<file.lines[k].func, file.lines[k].inst>>}
  <2>1. 1 .. k = (1 .. (k - 1)) \cup {k}
    BY <1>1
  <2> QED
    BY <2>1 DEF CriteriaOf
<1> QED
  BY <1>2, <1>3, <1>4

\* The fields of a stream.
LEMMA StreamFields ==
    ASSUME NEW a, NEW b
    PROVE  /\ ~Ok(a, b).fail /\ ~Ok(a, b).eof
           /\ ~Drained(a, b).fail /\ Drained(a, b).eof
           /\ Failed(a, b).fail /\ ~Failed(a, b).eof
           /\ Ended(a, b).fail /\ Ended(a, b).eof
           /\ a \in 0 .. L /\ b = 0 =>
                 {Ok(a, b), Drained(a, b), Failed(a, b), Ended(a, b)}
                     \subseteq [line : 0 .. L, word : {0}, fail : BOOLEAN, eof : BOOLEAN]
BY DEF Ok, Drained, Failed, Ended

\* Nothing is read yet.
LEMMA InitInvariant == Init => IInv
<1> SUFFICES ASSUME Init PROVE IInv
  OBVIOUS
<1>1. /\ file \in Files /\ in = Ok(0, 0) /\ toSliceList = {} /\ markedNodes = {}
      /\ boundsMap = <<>> /\ pc = "read" /\ L \in Nat
  BY FileShape DEF Init, Ok
<1>2. Good(0)
  BY <1>1, CriteriaShape DEF Good
<1>3. TypeOK
  BY <1>1, StreamFields DEF TypeOK, L
<1> QED
  BY <1>1, <1>2, <1>3 DEF IInv, Reading

\* One turn of the loop, from each state it may find the stream in.
LEMMA ReadLineKeeps == IInv /\ ReadLine => IInv'
<1> SUFFICES ASSUME IInv, ReadLine PROVE IInv'
  OBVIOUS
<1> USE DEF IInv
<1>1. /\ pc = "read" /\ file' = file /\ markedNodes' = {} /\ boundsMap' = <<>>
      /\ in' = Up.s /\ funcName' = Name.x /\ instNum' = Num.x
      /\ Up.s.eof => pc' = "mark" /\ toSliceList' = toSliceList
      /\ ~Up.s.eof => pc' = "read" /\ toSliceList' = toSliceList \cup {<<funcName', instNum'>>}
  BY Turn
<1>2. file \in Files /\ L \in Nat /\ L' = L /\ \A k : CriteriaOf(k)' = CriteriaOf(k)
  BY <1>1, FileShape DEF L, CriteriaOf
<1> DEFINE Next1 ==
               /\ \E k \in 0 .. L : in' \in {Ok(k, 0), Drained(k, 0), Failed(k, 0), Ended(k, 0)}
               /\ \E k \in 0 .. L : toSliceList' = CriteriaOf(k)
               /\ pc' \in {"read", "mark"}
               /\ pc' = "read" => Reading'
               /\ pc' = "mark" => toSliceList' = Read /\ in'.eof
<1>3. ASSUME Next1 PROVE IInv'
  <2>1. Read' = Read
    BY <1>1 DEF Read, L, CriteriaOf, LastLineCounts
  <2>2. in' \in [line : 0 .. L, word : {0}, fail : BOOLEAN, eof : BOOLEAN]
    BY <1>3, StreamFields
  <2>3. toSliceList' \subseteq {<<l.func, l.inst>> : l \in Lines}
    BY <1>2, <1>3, CriteriaShape
  <2>4. TypeOK'
    BY <1>1, <1>3, <2>2, <2>3 DEF TypeOK, L
  <2> QED
    BY <1>1, <1>2, <1>3, <2>1, <2>4
<1>4. ASSUME NEW k \in 1 .. L, Stuck(k)
      PROVE  in' = in /\ toSliceList' = toSliceList /\ pc' = "read" /\ Stuck(k)'
  <2>1. in' = in /\ funcName' = funcName /\ instNum' = instNum
    BY <1>1, <1>4, StuckTurn DEF Stuck
  <2>2. pc' = "read" /\ toSliceList' = toSliceList \cup {<<funcName, instNum>>}
    BY <1>1, <1>4, <2>1, StreamFields DEF Stuck
  <2>3. <<funcName, instNum>> \in toSliceList
    BY <1>2, <1>4, CriteriaShape DEF Stuck
  <2> QED
    BY <1>1, <1>2, <1>4, <2>1, <2>2, <2>3 DEF Stuck, Failed
<1>5. ASSUME NEW k \in 0 .. L, Good(k), k = L
      PROVE  in' = Ended(L, 0) /\ toSliceList' = CriteriaOf(L) /\ pc' = "mark" /\ toSliceList' = Read
  <2>1. in' = Ended(L, 0) /\ pc' = "mark" /\ toSliceList' = CriteriaOf(L)
    BY <1>1, <1>5, LastTurn, StreamFields DEF Good
  <2>2. file.lines = <<>> \/ LastLineCounts
    <3>1. file.lines = <<>> \/ L > 0
      BY <1>2, FileShape DEF L
    <3> QED
      BY <1>2, <1>5, <3>1 DEF Good, LastLineCounts, L
  <2> QED
    BY <2>1, <2>2 DEF Read
<1>6. ASSUME NEW k \in 0 .. L, Good(k), k # L
      PROVE  /\ in' \in {Ok(k + 1, 0), Drained(k + 1, 0), Failed(k + 1, 0), Ended(k + 1, 0)}
             /\ toSliceList' \in {CriteriaOf(k), CriteriaOf(k + 1)}
             /\ pc' \in {"read", "mark"}
             /\ pc' = "read" => Good(k + 1)' \/ Stuck(k + 1)'
             /\ pc' = "mark" => toSliceList' = Read /\ in'.eof
  <2> DEFINE l == file.lines[k + 1]
  <2>1. k \in Nat /\ k < L /\ k + 1 \in 1 .. L /\ in = Ok(k, 0) /\ toSliceList = CriteriaOf(k)
    BY <1>2, <1>6 DEF Good
  <2>2. /\ funcName' = l.func /\ instNum' = l.inst
        /\ Complete(l) => in' = AfterLine(k + 1)
        /\ ~Complete(l) => in' = IF k + 1 = L THEN Ended(k + 1, 0) ELSE Failed(k + 1, 0)
    BY <1>1, <1>2, <2>1, ReadingTurn
  <2>3. CriteriaOf(k + 1) = CriteriaOf(k) \cup {<<l.func, l.inst>>}
    <3>1. (k + 1) - 1 = k
      BY <2>1
    <3> QED
      BY <1>2, <2>1, <3>1, CriteriaShape
  <2>4. /\ in'.eof => pc' = "mark" /\ toSliceList' = CriteriaOf(k)
        /\ ~in'.eof => pc' = "read" /\ toSliceList' = CriteriaOf(k + 1)
    BY <1>1, <2>1, <2>2, <2>3
  <2>5. ASSUME k + 1 = L, ~(Complete(l) /\ file.newline)
        PROVE  CriteriaOf(k) = Read
    <3>1. file.lines # <<>> /\ ~LastLineCounts /\ L - 1 = k
      BY <2>1, <2>5 DEF LastLineCounts, L
    <3> QED
      BY <3>1 DEF Read
  <2>6. CASE Complete(l) /\ ~(k + 1 = L /\ ~file.newline)
    <3>1. in' = Ok(k + 1, 0)
      BY <2>2, <2>6 DEF AfterLine
    <3>2. pc' = "read" /\ toSliceList' = CriteriaOf(k + 1)
      BY <2>4, <3>1, StreamFields
    <3>3. Good(k + 1)'
      BY <1>1, <1>2, <1>6, <2>1, <2>6, <3>1, <3>2 DEF Good, Ok
    <3> QED
      BY <3>1, <3>2, <3>3
  <2>7. CASE Complete(l) /\ k + 1 = L /\ ~file.newline
    <3>1. in' = Drained(k + 1, 0)
      BY <2>2, <2>7 DEF AfterLine
    <3> QED
      BY <2>4, <2>5, <2>7, <3>1, StreamFields
  <2>8. CASE ~Complete(l) /\ k + 1 = L
    <3>1. in' = Ended(k + 1, 0)
      BY <2>2, <2>8
    <3> QED
      BY <2>4, <2>5, <2>8, <3>1, StreamFields
  <2>9. CASE ~Complete(l) /\ k + 1 # L
    <3>1. in' = Failed(k + 1, 0)
      BY <2>2, <2>9
    <3>2. pc' = "read" /\ toSliceList' = CriteriaOf(k + 1)
      BY <2>4, <3>1, StreamFields
    <3>3. Stuck(k + 1)'
      BY <1>1, <1>2, <2>2, <3>1, <3>2 DEF Stuck, Failed
    <3> QED
      BY <3>1, <3>2, <3>3
  <2> QED
    BY <2>6, <2>7, <2>8, <2>9
<1>7. ASSUME NEW k \in 1 .. L, Stuck(k)
      PROVE  Next1
  <2>1. in' = Failed(k, 0) /\ toSliceList' = CriteriaOf(k) /\ k \in 0 .. L
    BY <1>2, <1>4, <1>7 DEF Stuck
  <2>2. pc' = "read" /\ Reading'
    BY <1>2, <1>4, <1>7 DEF Reading
  <2> QED
    BY <2>1, <2>2
<1>8. ASSUME NEW k \in 0 .. L, Good(k), k = L
      PROVE  Next1
  BY <1>2, <1>5, <1>8, StreamFields
<1>9. ASSUME NEW k \in 0 .. L, Good(k), k # L
      PROVE  Next1
  <2>1. k + 1 \in 0 .. L /\ k + 1 \in 1 .. L
    BY <1>2, <1>9
  <2>2. pc' = "read" => Reading'
    BY <1>2, <1>6, <1>9, <2>1 DEF Reading
  <2> QED
    BY <1>6, <1>9, <2>1, <2>2
<1>10. Reading
  BY <1>1
<1> QED
  BY <1>3, <1>7, <1>8, <1>9, <1>10 DEF Reading

\* Marking the nodes of what was recorded.
LEMMA MarkKeeps == IInv /\ Mark => IInv'
<1> SUFFICES ASSUME IInv, Mark PROVE IInv'
  OBVIOUS
<1>1. /\ pc = "mark" /\ pc' = "done" /\ UNCHANGED <<file, in, toSliceList>>
      /\ markedNodes = {} /\ toSliceList = Read /\ in.eof /\ file \in Files /\ TypeOK
      /\ markedNodes' = Nodes(Read) /\ DOMAIN boundsMap' = Nodes(Read)
  BY DEF Mark, IInv
<1>2. Read' = Read
  BY <1>1 DEF Read, L, CriteriaOf, LastLineCounts
<1>3. Nodes(Read) \subseteq UNION {ToSet(Body[f]) : f \in DOMAIN Body}
  BY DEF Nodes, Listed, ToSet
<1>4. TypeOK'
  BY <1>1, <1>3 DEF TypeOK
<1> QED
  BY <1>1, <1>2, <1>4 DEF IInv, Nodes, Listed

\* A step of something else.
LEMMA StutteringKeeps == IInv /\ UNCHANGED vars => IInv'
BY DEF IInv, TypeOK, Reading, Good, Stuck, Read, L, CriteriaOf, LastLineCounts, vars, Nodes, Listed

\* In every reachable state readInit has recorded the lines it has read, up to the one
\* that stopped it.
THEOREM Invariance == Spec => []IInv
<1>1. IInv /\ [Next]_vars => IInv'
  BY ReadLineKeeps, MarkKeeps, StutteringKeeps DEF Next
<1> QED
  BY <1>1, InitInvariant, PTL DEF Spec

\* Every variable keeps its shape, and a turn uses up a whole line, for any slice.conf.
THEOREM TypeCorrectness == Spec => []TypeOK
<1>1. IInv => TypeOK
  BY DEF IInv
<1> QED
  BY <1>1, Invariance, PTL

\* When reading ends, exactly the instructions of the lines are marked, but for a last
\* line without its bounds or its newline.
THEOREM MarkingCorrectness == Spec => []MarkedAsRead
<1>1. IInv => MarkedAsRead
  BY DEF IInv, MarkedAsRead, Read, L
<1> QED
  BY <1>1, Invariance, PTL

\* A stream that failed before the end of the file never changes again: the loop of a
\* slice.conf with an incomplete line that is not the last does not end.
THEOREM Stuckness == Spec => StuckForever
<1>1. IInv /\ [Next]_vars =>
          [in.fail /\ ~in.eof => UNCHANGED <<in, funcName, instNum, toSliceList, pc>>]_vars
  <2> SUFFICES ASSUME IInv, Next, in.fail, ~in.eof
               PROVE  UNCHANGED <<in, funcName, instNum, toSliceList, pc>>
    OBVIOUS
  <2>0. ASSUME Mark
        PROVE  FALSE
    <3>1. pc = "mark"
      BY <2>0 DEF Mark
    <3>2. in.eof
      BY <3>1, Zenon DEF IInv
    <3> QED
      BY <3>2
  <2>1. ReadLine /\ pc = "read" /\ Reading
    BY <2>0 DEF Next, IInv, ReadLine
  <2>7. ASSUME NEW k, Good(k)
        PROVE  FALSE
    <3>1. in = Ok(k, 0)
      BY <2>7 DEF Good
    <3> QED
      BY <3>1, StreamFields
  <2>2. PICK k \in 1 .. L : Stuck(k)
    <3>1. \E k \in 1 .. L : Stuck(k)
      BY <2>1, <2>7, Zenon DEF Reading
    <3> QED
      BY <3>1, Zenon
  <2>3. L \in Nat /\ file \in Files
    BY FileShape DEF IInv
  <2>4. in' = in /\ funcName' = funcName /\ instNum' = instNum
    BY <2>1, <2>2, Turn, StuckTurn DEF Stuck
  <2>5. pc' = "read" /\ toSliceList' = toSliceList \cup {<<funcName, instNum>>}
    BY <2>1, <2>2, <2>4, Turn, StreamFields DEF Stuck
  <2>6. <<funcName, instNum>> \in toSliceList
    BY <2>2, <2>3, CriteriaShape DEF Stuck
  <2> QED
    BY <2>1, <2>4, <2>5, <2>6
<1> QED
  BY <1>1, Invariance, PTL DEF Spec, StuckForever
=============================================================================
