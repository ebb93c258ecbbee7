------------------------------- MODULE Typing -------------------------------
(***************************************************************************)
(* What it means for an MF program to have a type, stated on the tree      *)
(* alone: the reference that the inference of type_table.cpp is compared   *)
(* with.  Types are monomorphic.  A typing gives types to the parameters   *)
(* and the result of every function; the type of every expression follows  *)
(* from it.                                                                *)
(***************************************************************************)
EXTENDS LexicalScoping

IntType     == <<"int">>
Data(name)  == <<"data", name>>
Arrow(p, r) == <<"function", p, r>>
Untypable   == <<"untypable">>

(* p1 -> ... -> pn -> r *)
Arrows(ps, r) ==
  LET from[k \in 1..(Len(ps) + 1)] ==
        IF k > Len(ps) THEN r ELSE Arrow(ps[k], from[k + 1])
  IN  from[1]

-----------------------------------------------------------------------------
(* Constructors. *)

NamedType(name) == IF name = "Int" THEN IntType ELSE Data(name)
Fields(p, c)    == [k \in DOMAIN p.nodes[c].fields |-> NamedType(p.nodes[c].fields[k])]
DataOf(p, c)    == Data(p.nodes[Parent(p, c)].name)

FieldsAreTypes(p) ==
  \A c \in OfKind(p, {"constructor"}) : \A k \in DOMAIN p.nodes[c].fields :
    Global(p, p.nodes[c].fields[k]).kind \in {"builtin", "data"}

IndexOf(seq, x) == CHOOSE k \in DOMAIN seq : seq[k] = x

(* Whether pattern n fits values of type s, and what it gives a name then. *)
Fits(p, n, s) ==
  LET x == p.nodes[n]
      c == Global(p, x.name).declaration
  IN  \/ x.kind = "variable_pattern" /\ s # Untypable
      \/ /\ x.kind = "constructor_pattern"
         /\ s = DataOf(p, c) /\ Len(x.arguments) = Len(Fields(p, c))

PatternType(p, n, name, s) ==
  LET x == p.nodes[n]
  IN  IF x.kind = "variable_pattern" THEN s
      ELSE Fields(p, Global(p, x.name).declaration)[IndexOf(x.arguments, name)]

-----------------------------------------------------------------------------
(* Place <<d, k>> is the k-th parameter of function d, <<d, 0>> its result. *)
Places(p) ==
  UNION {{<<d, k>> : k \in 0..Len(p.nodes[d].parameters)} : d \in OfKind(p, {"defn"})}

Parameters(p, typing, d) ==
  [k \in DOMAIN p.nodes[d].parameters |-> typing[<<d, k>>]]

(***************************************************************************)
(* The type of every expression under a typing, bottom up, if the names    *)
(* have the meanings of uses.                                              *)
(***************************************************************************)
Types(p, uses, typing) ==
  LET type[n \in OfKind(p, Expressions)] ==
        LET x == p.nodes[n]
            m == uses[n]
            d == m.declaration
            matched == type[p.nodes[Parent(p, Parent(p, d))].scrutinee]
            branch(k) == p.nodes[x.branches[k]]
        IN
        CASE x.kind = "int" -> IntType
          [] x.kind = "operator" ->
               IF {type[x.left], type[x.right]} = {IntType} THEN IntType ELSE Untypable
          [] x.kind = "application" ->
               LET f == type[x.function]
               IN  IF Len(f) = 3 /\ f[2] = type[x.argument] THEN f[3] ELSE Untypable
          [] x.kind = "case" ->
               LET s == type[x.scrutinee]
                   r == type[branch(1).body]
               IN  IF \A k \in DOMAIN x.branches :
                        Fits(p, branch(k).pattern, s) /\ type[branch(k).body] = r
                   THEN r ELSE Untypable
          [] x.kind = "variable" /\ m.kind = "constructor" ->
               Arrows(Fields(p, d), DataOf(p, d))
          [] x.kind = "variable" /\ m.kind = "function" ->
               Arrows(Parameters(p, typing, d), typing[<<d, 0>>])
          [] x.kind = "variable" /\ m.kind = "parameter" ->
               typing[<<d, IndexOf(p.nodes[d].parameters, x.name)>>]
          [] x.kind = "variable" /\ m.kind = "pattern_variable" ->
               IF Fits(p, d, matched) THEN PatternType(p, d, x.name, matched)
               ELSE Untypable
  IN  type

(***************************************************************************)
(* Types with at most one arrow.  Deeper ones are not needed to tell       *)
(* whether a program has exactly one typing and that one is first-order:   *)
(* if something is not determined, two of these can be had for it.         *)
(***************************************************************************)
Leaves(p)     == {IntType} \cup {Data(p.nodes[d].name) : d \in OfKind(p, {"data"})}
Candidates(p) == Leaves(p) \cup {Arrow(a, b) : a \in Leaves(p), b \in Leaves(p)}

(* The typings that give every function the type that its body has. *)
Typings(p, T) ==
  LET uses == Resolution(p)
  IN  {typing \in [Places(p) -> T] :
         \A d \in OfKind(p, {"defn"}) :
           Types(p, uses, typing)[p.nodes[d].body] = typing[<<d, 0>>]}

MainHasNoParameters(p) ==
  \A d \in OfKind(p, {"defn"}) :
    p.nodes[d].name = "main" => p.nodes[d].parameters = << >>

(***************************************************************************)
(* The typing of a program that the compiler is to accept: the only one    *)
(* there is, with no function as a parameter or as a result.               *)
(***************************************************************************)
AcceptableTypings(p) ==
  IF WellScoped(p) /\ FieldsAreTypes(p) /\ MainHasNoParameters(p)
  THEN LET all == Typings(p, Candidates(p))
       IN  {typing \in all : all = {typing} /\ \A w \in Places(p) : typing[w] \in Leaves(p)}
  ELSE {}

(***************************************************************************)
(* The same, cheaper to evaluate.  If something is not determined, it may  *)
(* be any type, so it may be any of the leaves, of which there are two as  *)
(* soon as a program defines a data type.                                  *)
(***************************************************************************)
FirstOrderTypings(p) ==
  IF WellScoped(p) /\ FieldsAreTypes(p) /\ MainHasNoParameters(p) /\ OfKind(p, {"data"}) # {}
  THEN LET all == Typings(p, Leaves(p)) IN {typing \in all : all = {typing}}
  ELSE {}
=============================================================================
