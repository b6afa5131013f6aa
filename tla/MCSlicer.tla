------------------------------- MODULE MCSlicer -------------------------------
(* A main with three blocks and two calls, and two functions it may call: g stores *)
(* and loads through a pointer, h loads through a pointer and makes a call, which  *)
(* may be recursive.  The programs differ in control flow, callees, def-use chains *)
(* and aliasing.                                                                   *)
EXTENDS Slicer

CONSTANTS Shapes, Callees, Aliasings

MCFunctions == {"main", "g", "h"}
MCBlocksOf ==
    [f \in MCFunctions |->
        CASE f = "main" -> {"m1", "m2", "m3"} [] f = "g" -> {"g1"} [] f = "h" -> {"h1"}]
MCInstsOf ==
    [b \in {"m1", "m2", "m3", "g1", "h1"} |->
        CASE b = "m1" -> <<"ma", "mbr">>
          [] b = "m2" -> <<"mc1", "mbr2">>
          [] b = "m3" -> <<"mc2", "mret">>
          [] b = "g1" -> <<"gp", "gst", "gld", "gret">>
          [] b = "h1" -> <<"hp", "hld", "hc", "hret">>]
MCFormals == [f \in MCFunctions |-> CASE f = "main" -> <<>> [] f = "g" -> <<"ga">> [] f = "h" -> <<"ha">>]
MCOtherValues == {"7", "@x"}
MCCalls == {"mc1", "mc2", "hc"}
MCRets == {"mret", "gret", "hret"}
MCLoads == {"gld", "hld"}
MCStores == {"gst"}

\* Control flow of main.
Shape(s) ==
    CASE s = "straight" -> {<<"m1", "m2">>, <<"m2", "m3">>}
      [] s = "if" -> {<<"m1", "m2">>, <<"m1", "m3">>, <<"m2", "m3">>}
      [] s = "loopInIf" -> {<<"m1", "m2">>, <<"m1", "m3">>, <<"m2", "m2">>, <<"m2", "m3">>}
      [] s = "loop" -> {<<"m1", "m2">>, <<"m2", "m2">>, <<"m2", "m3">>}

Address == [i \in {"gst", "gld", "hld"} |-> IF i = "hld" THEN "hp" ELSE "gp"]
Aliasing(a) ==
    CASE a = "local" -> {{"gp"}, {"hp"}}
      [] a = "shared" -> {{"gp", "hp"}}
      [] a = "global" -> {{"gp", "@x"}, {"hp"}}

\* The chains every program has, and those only some have.
FixedUses ==
    {<<"ma", "mbr">>, <<"gp", "gst">>, <<"gp", "gld">>, <<"hp", "hld">>,
     <<"hld", "hret">>, <<"ha", "hc">>, <<"mc2", "mret">>}
OptionalUses == {<<"ga", "gst">>, <<"gld", "gret">>, <<"hc", "hret">>}

\* What the calls of main pass: the first, an instruction of main or a constant; the
\* second, that instruction or the result of the first call.
MCPrograms ==
    {[cfg |-> Shape(s),
      callee |-> c,
      actuals |-> [ci \in MCCalls |->
                      CASE ci = "mc1" -> <<w>> [] ci = "mc2" -> <<v>> [] ci = "hc" -> <<"ha">>],
      uses |-> FixedUses \cup {<<w, "mc1">>, <<v, "mc2">>} \cup u,
      address |-> Address,
      aliasSets |-> Aliasing(a)] :
        s \in Shapes, c \in {k \in [MCCalls -> Callees] : {k["mc1"], k["mc2"]} \subseteq MCFunctions}, v \in {"ma", "mc1"},
        w \in {"ma", "7"}, u \in SUBSET OptionalUses, a \in Aliasings}

MCCriteria == {{InstNode(i)} : i \in {"mret", "mc1", "gret", "hld"}}
=============================================================================
