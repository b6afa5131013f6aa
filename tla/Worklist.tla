------------------------------ MODULE Worklist ------------------------------
(****************************************************************************)
(* The solver's worklist: two binary min-heaps, the one being emptied       *)
(* (curr) and the one being filled (next), as ptranalysis/include/heap.h    *)
(* and worklist.h implement them under WL_ORDER == WLO_PRIO, DUAL_WL == 1.  *)
(* A heap is a record: k and v are hk[1..nv] and hv[1..nv], idx is idxv     *)
(* with 0 for NONE.                                                         *)
(****************************************************************************)
EXTENDS Integers, Sequences

EmptyHeap(V) == [k |-> <<>>, v |-> <<>>, idx |-> [x \in V |-> 0]]

HeapSwap(h, i, j) ==
    [h EXCEPT !.k[i] = h.k[j], !.k[j] = h.k[i],
              !.v[i] = h.v[j], !.v[j] = h.v[i],
              !.idx[h.v[i]] = j, !.idx[h.v[j]] = i]

\* From position i towards the root, while the parent's key is greater.
RECURSIVE PercUp(_, _)
PercUp(h, i) ==
    IF i = 1 \/ h.k[i \div 2] <= h.k[i] THEN h
    ELSE PercUp(HeapSwap(h, i, i \div 2), i \div 2)

\* From position i towards the leaves: the right child only if it is smaller.
RECURSIVE PercDn(_, _)
PercDn(h, i) ==
    LET l == 2 * i
        c == IF l < Len(h.k) /\ h.k[l + 1] < h.k[l] THEN l + 1 ELSE l
    IN  IF l > Len(h.k) \/ h.k[c] >= h.k[i] THEN h
        ELSE PercDn(HeapSwap(h, i, c), c)

\* A value that is already there only has its key changed.
HeapPush(h, v, k) ==
    LET i == h.idx[v]
        n == Len(h.k) + 1
    IN  IF i = 0
          THEN PercUp([k |-> Append(h.k, k), v |-> Append(h.v, v),
                       idx |-> [h.idx EXCEPT ![v] = n]], n)
        ELSE IF k = h.k[i] THEN h
        ELSE IF k < h.k[i] THEN PercUp([h EXCEPT !.k[i] = k], i)
        ELSE PercDn([h EXCEPT !.k[i] = k], i)

\* The last item takes the place of the first and moves down.
HeapPop(h) ==
    LET n == Len(h.k)
        gone == [h.idx EXCEPT ![h.v[1]] = 0]
    IN  IF n = 1 THEN [k |-> <<>>, v |-> <<>>, idx |-> gone]
        ELSE PercDn([k |-> [SubSeq(h.k, 1, n - 1) EXCEPT ![1] = h.k[n]],
                     v |-> [SubSeq(h.v, 1, n - 1) EXCEPT ![1] = h.v[n]],
                     idx |-> [gone EXCEPT ![h.v[n]] = 1]], 1)

----------------------------------------------------------------------------
\* The dual worklist: push onto next, pop from curr, swap when curr is empty.

EmptyWorklist(V) == [curr |-> EmptyHeap(V), next |-> EmptyHeap(V)]

WLEmpty(w) == w.curr.k = <<>>
SwapIfEmpty(w) == IF WLEmpty(w) THEN [curr |-> w.next, next |-> w.curr] ELSE w
WLPush(w, v, p) == [w EXCEPT !.next = HeapPush(@, v, p)]
WLTop(w) == w.curr.v[1]
WLTopKey(w) == w.curr.k[1]
WLPop(w) == [w EXCEPT !.curr = HeapPop(@)]

----------------------------------------------------------------------------
\* What both heaps promise: the keys are in heap order, and idx is exactly the
\* inverse of v, so that no value is there twice.
HeapOK(h) ==
    /\ \A i \in 2..Len(h.k) : h.k[i \div 2] <= h.k[i]
    /\ Len(h.v) = Len(h.k)
    /\ \A i \in DOMAIN h.v : h.idx[h.v[i]] = i
    /\ \A x \in DOMAIN h.idx : h.idx[x] # 0 => h.v[h.idx[x]] = x

WorklistOK(w) == HeapOK(w.curr) /\ HeapOK(w.next)
=============================================================================
