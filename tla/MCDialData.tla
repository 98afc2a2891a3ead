----------------------------- MODULE MCDialData -----------------------------
(***************************************************************************)
(* DialData for TLC: a plain key and a plain value, a key and a value that *)
(* are cut, a key with a space, and one that is cut at its space.          *)
(***************************************************************************)
EXTENDS DialData

MCKeys == {<<"k1">>, <<"long">>, <<"k", "sp">>, <<"k", "end">>}

MCCut == [t \in {<<"long">>, <<"k", "end">>} |-> IF Len(t) = 1 THEN <<"cut">> ELSE <<"k">>]
=============================================================================
