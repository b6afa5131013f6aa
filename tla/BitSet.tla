------------------------------- MODULE BitSet -------------------------------
(****************************************************************************)
(* What MySparseBitVector promises: a set of numbers with operations of its *)
(* public interface. ret is the operation that was called and what it       *)
(* returned, none for a void one; idle when the caller has gone on.         *)
(****************************************************************************)
EXTENDS Integers, FiniteSets, FiniteSetsExt, Sequences

CONSTANTS Bits,    \* the numbers that occur
          Others,  \* the right-hand sides, sets of numbers
          none     \* the value of a void operation

VARIABLES set, ret

idle == <<>>
Init == set = {} /\ ret = idle

\* An operation that makes the set S: it returns whether that changed it, or
\* nothing.
Become(op, S) == set' = S /\ ret' = <<op, S # set>>
Silently(op, S) == set' = S /\ ret' = <<op, none>>
Answer(op, v) == set' = set /\ ret' = <<op, v>>

Sorted(S) == CHOOSE s \in [1..Cardinality(S) -> S] :
               \A i, j \in 1..Cardinality(S) : i < j => s[i] < s[j]

Call ==
    \/ \E n \in Bits : \/ Answer("test", n \in set)
                       \/ Silently("reset", set \ {n})
                       \/ Silently("set", set \cup {n})
                       \/ Become("test_and_set", set \cup {n})
    \/ \E R \in Others : \/ Become("or", set \cup R)
                         \/ Become("without", set \ R)
                         \/ Answer("equal", set = R)
                         \/ Answer("intersects", set \cap R # {})
    \/ \E R, S \in Others : Silently("fill", R \ S)
    \/ Silently("clear", {})
    \/ Answer("find_first", IF set = {} THEN -1 ELSE Min(set))
    \/ Answer("count", Cardinality(set))
    \/ Answer("single", Cardinality(set) = 1)
    \/ Answer("walk", Sorted(set))

Next == \/ ret = idle /\ Call
        \/ ret # idle /\ ret' = idle /\ UNCHANGED set

Spec == Init /\ [][Next]_<<set, ret>>
=============================================================================
