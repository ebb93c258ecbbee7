------------------------------ MODULE TypeGraph ------------------------------
(***************************************************************************)
(* The table of types that TypeAnalyzer keeps in types_                    *)
(* (semantics/type_table.cpp) and what it promises to inference: whatever  *)
(* calls the analyzer makes, the table changes in only three ways: it is   *)
(* extended, bound variables are redirected to the end of their chains     *)
(* (path compression), or an unbound variable is bound to a type it does   *)
(* not occur in.                                                           *)
(*                                                                         *)
(* A TypeId is an index into types_.  Indices count from 1 here and from 0 *)
(* in the code, so that NoType = 0 can stand for an empty optional.        *)
(***************************************************************************)
EXTENDS Integers, Sequences

VARIABLE types        \* types_, the vector of InternalType

-----------------------------------------------------------------------------
(* InternalType: a variant of four alternatives; a SymbolId is a number. *)

NoType == 0

IntEntry            == [kind |-> "int"]
DataEntry(symbol)   == [kind |-> "data", symbol |-> symbol]
FunctionEntry(p, r) == [kind |-> "function", parameter |-> p, result |-> r]
VarEntry(binding)   == [kind |-> "var", binding |-> binding]

Entry == [kind : {"int"}]
           \cup [kind : {"data"}, symbol : Nat]
           \cup [kind : {"function"}, parameter : Nat, result : Nat]
           \cup [kind : {"var"}, binding : Nat]

(***************************************************************************)
(* The operators below take the table as an argument: the properties       *)
(* compare the tables before and after a step.                             *)
(***************************************************************************)
Ids(g)           == 1..Len(g)
IsVar(g, i)      == g[i].kind = "var"
IsFunction(g, i) == g[i].kind = "function"
Bound(g, i)      == IsVar(g, i) /\ g[i].binding # NoType

(* The types an entry refers to. *)
Succ(g, i) == IF Bound(g, i) THEN {g[i].binding}
              ELSE IF IsFunction(g, i) THEN {g[i].parameter, g[i].result}
              ELSE {}

(***************************************************************************)
(* Where resolve and peek arrive: the end of a chain of bound variables.   *)
(***************************************************************************)
Root(g) ==
  LET root[i \in Ids(g)] == IF Bound(g, i) THEN root[g[i].binding] ELSE i
  IN  root

(***************************************************************************)
(* The resolved types met in walking a type from i, which is what occurs   *)
(* compares its variable with.                                             *)
(***************************************************************************)
Reps(g) ==
  LET reps[i \in Ids(g)] ==
        IF Bound(g, i) THEN reps[g[i].binding]
        ELSE IF IsFunction(g, i)
             THEN {i} \cup reps[g[i].parameter] \cup reps[g[i].result]
             ELSE {i}
  IN  reps

-----------------------------------------------------------------------------
GraphInit == types = << >>

(* Entry i of h is made by makeType: it refers to older entries only. *)
FreshEntry(h, i) ==
  /\ ~Bound(h, i)
  /\ IsFunction(h, i) => {h[i].parameter, h[i].result} \subseteq 1..(i - 1)

(* h is g with entries that makeType has added, one after another. *)
Extends(g, h) ==
  /\ h \in Seq(Entry)
  /\ Len(g) < Len(h)
  /\ \A i \in Ids(g) : h[i] = g[i]
  /\ \A i \in Ids(h) \ Ids(g) : FreshEntry(h, i)

Grow == Extends(types, types')

(* Some bound variables of g are redirected to their root in h. *)
RedirectedExcept(g, h, V) ==
  /\ h \in [Ids(g) -> Entry]
  /\ \A i \in Ids(g) \ V :
        h[i] = g[i] \/ (Bound(g, i) /\ h[i] = VarEntry(Root(g)[i]))

(* resolve, and the calls that only resolve. *)
Compress == RedirectedExcept(types, types', {})

(* bindVariable once occurs has answered no. *)
Bind(v, t) ==
  /\ IsVar(types, v) /\ ~Bound(types, v)
  /\ ~Bound(types, t)
  /\ types'[v] = VarEntry(t)
  /\ v \notin Reps(types)[t]
  /\ RedirectedExcept(types, types', {v})

GraphNext == \/ Grow
             \/ Compress
             \/ \E v, t \in Ids(types) : Bind(v, t)

GraphSpec == GraphInit /\ [][GraphNext]_types

-----------------------------------------------------------------------------
(* What the table promises. *)

TypesOK == /\ types \in Seq(Entry)
           /\ \A i \in Ids(types) : Succ(types, i) \subseteq Ids(types)

(***************************************************************************)
(* No type contains itself: every set of types has a member that refers to *)
(* none of the others.  resolve, peek, occurs, describe and materialize    *)
(* recurse with no other bound, so on a cycle they would not return.       *)
(***************************************************************************)
AcyclicGraph(g) ==
  \A S \in SUBSET Ids(g) : S # {} => \E i \in S : Succ(g, i) \cap S = {}

Acyclic == AcyclicGraph(types)

(***************************************************************************)
(* A step never separates two types that unification has merged: the type  *)
(* of a parameter, once equal to another, stays equal to it for the rest   *)
(* of the analysis, path compression and failed unifications included.     *)
(***************************************************************************)
MergedStayMerged ==
  [][LET root == Root(types)
         next == Root(types')
     IN  \A i, j \in Ids(types) : root[i] = root[j] => next[i] = next[j]]_types
=============================================================================
