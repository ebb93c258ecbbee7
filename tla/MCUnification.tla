---------------------------- MODULE MCUnification ----------------------------
(* The type table on small instances: every table and sequence of calls.  *)
EXTENDS UnificationCalls

(* Curried and higher-order types, with all their parts. *)
Number  == <<"int">>
List    == <<"data", 7>>
Unary   == <<"function", Number, List>>
Binary  == <<"function", Number, Unary>>
Applies == <<"function", Unary, Number>>

MCGroundTypes == {Number, List, Unary, Binary, Applies}

(* The number of arrows. *)
MCTypeSize[t \in MCGroundTypes] ==
  IF t[1] = "function" THEN 1 + MCTypeSize[t[2]] + MCTypeSize[t[3]] ELSE 0
=============================================================================
