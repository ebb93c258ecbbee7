--------------------------- MODULE MCTypeAnalysis ---------------------------
(***************************************************************************)
(* Programs for type inference, in two shapes.  The parts vary so that     *)
(* recursion, calls before the definition, partial and excess application, *)
(* a type that would contain itself, fields that are no types, patterns of *)
(* the wrong type or arity, and types left open all occur.                 *)
(***************************************************************************)
EXTENDS TypeAnalysis

MCUpperNames == {"Int", "T", "A", "B"}
MCNames      == MCUpperNames \cup {"f", "g", "main", "x", "y"}

(* Parameters of f, name and parameters of g, order of the definitions. *)
Signatures ==
  {<< <<"x">>, "main", << >>, <<2, 6, 10>> >>, << <<"x">>, "main", <<"x">>, <<2, 6, 10>> >>,
   << <<"x">>, "g", << >>, <<10, 6, 2>> >>, << <<"y", "x">>, "g", << >>, <<10, 6, 2>> >>}

(* data T = { A fs }  defn f ps = { u v } or { u + v }  defn g qs = { a b } *)
Calls ==
  {[nodes |-> << Constructor("A", fs), DataTypeDefinition("T", <<1>>),
                 Variable(u), w[1], w[2], FunctionDefinition("f", s[1], w[3]),
                 Variable(c[1]), c[2], Application(7, 8),
                 FunctionDefinition(s[2], s[3], 9) >>,
    definitions |-> s[4]] :
      fs \in {<< >>, <<"Int">>}, u \in {"x", "y", "f", "A"},
      w \in UNION {{<<v, Application(3, 4), 5>>, <<BinaryOperator("+", 3, 5), v, 4>>} :
                       v \in {IntLiteral(1), Variable("x")}},
      s \in Signatures,
      c \in {<<"f", IntLiteral(1)>>, <<"f", Variable("A")>>, <<"A", IntLiteral(1)>>}}

(* data T = { A fs B }                                                     *)
(* defn f x = { case u of { p -> { v w } q -> { y } } }                    *)
Matches ==
  {[nodes |-> << Constructor("A", fs), Constructor("B", << >>),
                 DataTypeDefinition("T", <<1, 2>>), u, p, v, w, Application(6, 7),
                 Branch(5, 8), q, z, Branch(10, 11), CaseExpression(4, <<9, 12>>),
                 FunctionDefinition("f", <<"x">>, 13) >>,
    definitions |-> <<14, 3>>] :
      fs \in {<<"Int">>, <<"T">>, <<"A">>},
      u \in {Variable("x"), IntLiteral(1)},
      p \in {ConstructorPattern("A", <<"y">>), ConstructorPattern("A", << >>),
             VariablePattern("y")},
      v \in {Variable("f"), Variable("A")}, w \in {IntLiteral(1), Variable("x"), Variable("y")},
      q \in {ConstructorPattern("B", << >>), VariablePattern("y")},
      z \in {IntLiteral(1), Variable("x"), Variable("B")}}

MCPrograms == Calls \cup Matches
=============================================================================
