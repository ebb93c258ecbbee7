------------------------------ MODULE MCScopes ------------------------------
(***************************************************************************)
(* Programs for the analyzer: three shapes of tree, with the names varied  *)
(* so that shadowing, repeated declarations, names out of scope, forward   *)
(* references and types used as values all occur.                          *)
(***************************************************************************)
EXTENDS Scopes

MCUpperNames == {"Int", "T", "A", "B"}
MCNames      == MCUpperNames \cup {"f", "g", "x", "y"}

SomePatterns ==
  {VariablePattern("x"), ConstructorPattern("A", <<"x">>),
   ConstructorPattern("A", <<"x", "x">>), ConstructorPattern("T", <<"y">>)}

(* data T = { c }  defn f ps = { case u of { p -> { v } q -> { w } } + y } *)
SiblingBranches ==
  {[nodes |-> << Constructor(c, <<"Int">>), DataTypeDefinition("T", <<1>>),
                 Variable(u), p, Variable(v), Branch(4, 5),
                 q, Variable(w), Branch(7, 8), CaseExpression(3, <<6, 9>>),
                 BinaryOperator("+", 10, 12), Variable("y"),
                 FunctionDefinition("f", ps, 11) >>,
    definitions |-> <<2, 13>>] :
      c \in {"A", "T"}, ps \in {<< >>, <<"x">>, <<"y", "x">>, <<"x", "x">>},
      u \in {"x", "A"}, v \in {"x", "y", "f", "T"}, w \in {"x", "y"},
      p \in SomePatterns,
      q \in {VariablePattern("y"), ConstructorPattern("A", << >>)}}

(* defn f x = { (case u of { p -> { case v of { q -> { w } } } }) z }      *)
(* defn g = { 1 }  data T = { A }, in either order, with g and T renamed.  *)
NestedBranches ==
  {[nodes |-> << Variable(u), p, Variable(v), q, Variable(w), Branch(4, 5),
                 CaseExpression(3, <<6>>), Branch(2, 7), CaseExpression(1, <<8>>),
                 Variable(z), Application(9, 10),
                 FunctionDefinition("f", <<"x">>, 11),
                 IntLiteral(1), FunctionDefinition(g, << >>, 13),
                 Constructor("A", << >>), DataTypeDefinition(t, <<15>>) >>,
    definitions |-> order] :
      u \in {"x", "g"}, v \in {"x", "y"}, w \in {"x", "y", "f"}, z \in {"g", "x"},
      p \in {VariablePattern("x"), VariablePattern("y")},
      q \in {VariablePattern("x"), ConstructorPattern("A", <<"y">>)},
      g \in {"f", "g"}, t \in {"T", "Int"},
      order \in {<<12, 14, 16>>, <<16, 14, 12>>}}

(* data T = { c d }  data t = { e }, with no function at all. *)
OnlyData ==
  {[nodes |-> << Constructor(c, << >>), Constructor(d, <<"T">>),
                 DataTypeDefinition("T", <<1, 2>>),
                 Constructor(e, << >>), DataTypeDefinition(t, <<4>>) >>,
    definitions |-> <<3, 5>>] :
      c, d, e \in {"A", "B", "T"}, t \in {"T", "A", "Int"}}

MCPrograms == SiblingBranches \cup NestedBranches \cup OnlyData
=============================================================================
