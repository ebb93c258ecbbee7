------------------------------ MODULE Printer -------------------------------
(***************************************************************************)
(* The functions print of visitors/print_visitor.cpp, on readings (a tree  *)
(* with nodes in the place of ids).  The text is given as its tokens; the  *)
(* spaces and line breaks between them are left out, as two tokens that    *)
(* would join are always apart.                                            *)
(***************************************************************************)
EXTENDS Syntax, Tokens, SequencesExt

Signs(kinds)   == [k \in DOMAIN kinds |-> Token(kinds[k])]

(* joinFormatted *)
Joined(texts, separator) ==
  FoldLeft(LAMBDA text, next : IF text = << >> THEN next ELSE text \o separator \o next,
           << >>, texts)

Named(case, names) == [k \in DOMAIN names |-> NameToken(case, names[k])]

PrintHeadWithArguments(head, case, args) == <<NameToken("upper", head)>> \o Named(case, args)

PrintPattern(x) ==
  IF x.kind = "variable_pattern" THEN <<NameToken("lower", x.name)>>
  ELSE PrintHeadWithArguments(x.name, "lower", x.arguments)

PrintConstructor(x) == PrintHeadWithArguments(x.name, "upper", x.fields)

(* Faulty: an application is printed without parentheses. *)
Bare(function, argument) == function \o argument

PrintApplication(function, argument) ==
  Signs(<<"(">>) \o function \o argument \o Signs(<<")">>)

PrintBinaryOperator(left, op, right) ==
  Signs(<<"(">>) \o left \o Signs(<<op>>) \o right \o Signs(<<")">>)

PrintExpression(expr) ==
  LET RECURSIVE print(_)
      branch(x) == PrintPattern(x.pattern)
                     \o Signs(<<"->", "{">>) \o print(x.body) \o Signs(<<"}">>)
      print(x) ==
        CASE x.kind = "int"      -> <<IntToken(x.value)>>
          [] x.kind = "variable" ->
               <<NameToken(IF x.name \in UpperNames THEN "upper" ELSE "lower", x.name)>>
          [] x.kind = "operator" -> PrintBinaryOperator(print(x.left), x.op, print(x.right))
          [] x.kind = "application" -> PrintApplication(print(x.function), print(x.argument))
          [] x.kind = "case" ->
               Signs(<<"case">>) \o print(x.scrutinee) \o Signs(<<"of", "{">>)
                 \o Joined([k \in DOMAIN x.branches |-> branch(x.branches[k])], << >>)
                 \o Signs(<<"}">>)
  IN  print(expr)

PrintDefinition(x) ==
  CASE x.kind = "defn" ->
         Signs(<<"defn">>) \o Named("lower", <<x.name>> \o x.parameters)
           \o Signs(<<"=", "{">>) \o PrintExpression(x.body) \o Signs(<<"}">>)
    [] x.kind = "data" ->
         Signs(<<"data">>) \o Named("upper", <<x.name>>) \o Signs(<<"=", "{">>)
           \o Joined([k \in DOMAIN x.constructors |-> PrintConstructor(x.constructors[k])],
                     Signs(<<",">>))
           \o Signs(<<"}">>)

PrintProgram(x) ==
  Joined([k \in DOMAIN x.definitions |-> PrintDefinition(x.definitions[k])], << >>)
=============================================================================
