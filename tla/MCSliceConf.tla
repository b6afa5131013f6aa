----------------------------- MODULE MCSliceConf -----------------------------
(* Files of up to MaxLines lines over two functions of the module and one name  *)
(* that is not in it, with instruction numbers inside and outside the function. *)
EXTENDS SliceConf

CONSTANT BoundCounts   \* how many bounds a line may give

MCBody == [f \in {"main", "g"} |-> IF f = "main" THEN <<"i0", "i1">> ELSE <<"j0">>]
MCBounds == {SubSeq(<<5, 7>>, 1, n) : n \in BoundCounts}
MCLines ==
    [func : {"main", "g", "absent"}, inst : {0, 1}, bounds : MCBounds]
=============================================================================
