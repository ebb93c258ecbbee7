------------------------------- MODULE Syntax -------------------------------
(***************************************************************************)
(* The abstract syntax tree that the parser hands to every later phase     *)
(* (parsing/ast.hpp, ParsedProgram of parsing/parse.hpp).                  *)
(*                                                                         *)
(* The parser numbers the nodes and indexes positions_ with the number, so *)
(* a program is kept as the sequence of its nodes: node n of the model is  *)
(* NodeId n - 1, and NoNode stands for kInvalidNodeId.  A node gets its    *)
(* number when its children are finished, with one exception: an operator  *)
(* gets it between its operands.  Parser is shown to number this way.      *)
(***************************************************************************)
EXTENDS Integers, Sequences

CONSTANTS
  Programs,    \* the parsed programs under study
  Names,       \* identifiers
  UpperNames   \* those of them that start with an upper-case letter

NoNode == 0

-----------------------------------------------------------------------------
(* The nodes. *)

IntLiteral(value)         == [kind |-> "int", value |-> value]
Variable(name)            == [kind |-> "variable", name |-> name]
BinaryOperator(op, l, r)  == [kind |-> "operator", op |-> op, left |-> l, right |-> r]
Application(f, a)         == [kind |-> "application", function |-> f, argument |-> a]
CaseExpression(s, bs)     == [kind |-> "case", scrutinee |-> s, branches |-> bs]
Branch(p, body)           == [kind |-> "branch", pattern |-> p, body |-> body]
VariablePattern(name)     == [kind |-> "variable_pattern", name |-> name]
ConstructorPattern(c, as) == [kind |-> "constructor_pattern", name |-> c, arguments |-> as]
FunctionDefinition(f, ps, body) ==
  [kind |-> "defn", name |-> f, parameters |-> ps, body |-> body]
DataTypeDefinition(t, cs) == [kind |-> "data", name |-> t, constructors |-> cs]
Constructor(c, fs)        == [kind |-> "constructor", name |-> c, fields |-> fs]

LowerNames  == Names \ UpperNames
Expressions == {"int", "variable", "operator", "application", "case"}
Patterns    == {"variable_pattern", "constructor_pattern"}

NodeIds(p)      == DOMAIN p.nodes
OfKind(p, K)    == {n \in NodeIds(p) : p.nodes[n].kind \in K}
Definitions(p)  == {p.definitions[k] : k \in DOMAIN p.definitions}
Below(p, n, K)  == {m \in 1..(n - 1) : p.nodes[m].kind \in K}
Above(p, n, K)  == {m \in (n + 1)..Len(p.nodes) : p.nodes[m].kind \in K}

(***************************************************************************)
(* What the grammar allows at node n: names of the right case, children of *)
(* the right kind, numbered earlier but for the right operand.             *)
(***************************************************************************)
IsNode(p, n) ==
  LET x == p.nodes[n]
      expression == Below(p, n, Expressions)
  IN  \/ x.kind = "int" /\ x = IntLiteral(x.value)
      \/ x.kind = "variable" /\ x = Variable(x.name) /\ x.name \in Names
      \/ /\ x.kind = "operator" /\ x = BinaryOperator(x.op, x.left, x.right)
         /\ x.op \in {"+", "-", "*", "/"}
         /\ x.left \in expression /\ x.right \in Above(p, n, Expressions)
      \/ /\ x.kind = "application" /\ x = Application(x.function, x.argument)
         /\ {x.function, x.argument} \subseteq expression
      \/ /\ x.kind = "case" /\ x = CaseExpression(x.scrutinee, x.branches)
         /\ x.scrutinee \in expression
         /\ x.branches \in Seq(Below(p, n, {"branch"})) /\ x.branches # << >>
      \/ /\ x.kind = "branch" /\ x = Branch(x.pattern, x.body)
         /\ x.pattern \in Below(p, n, Patterns) /\ x.body \in expression
      \/ /\ x.kind = "variable_pattern" /\ x = VariablePattern(x.name)
         /\ x.name \in LowerNames
      \/ /\ x.kind = "constructor_pattern"
         /\ x = ConstructorPattern(x.name, x.arguments)
         /\ x.name \in UpperNames /\ x.arguments \in Seq(LowerNames)
      \/ /\ x.kind = "defn" /\ x = FunctionDefinition(x.name, x.parameters, x.body)
         /\ x.name \in LowerNames /\ x.parameters \in Seq(LowerNames)
         /\ x.body \in expression
      \/ /\ x.kind = "data" /\ x = DataTypeDefinition(x.name, x.constructors)
         /\ x.name \in UpperNames
         /\ x.constructors \in Seq(Below(p, n, {"constructor"}))
         /\ x.constructors # << >>
      \/ /\ x.kind = "constructor" /\ x = Constructor(x.name, x.fields)
         /\ x.name \in UpperNames /\ x.fields \in Seq(UpperNames)

(* The children of a node, in the order of the source text. *)
Children(p, n) ==
  LET x == p.nodes[n] IN
  CASE x.kind = "operator"    -> <<x.left, x.right>>
    [] x.kind = "application" -> <<x.function, x.argument>>
    [] x.kind = "case"        -> <<x.scrutinee>> \o x.branches
    [] x.kind = "branch"      -> <<x.pattern, x.body>>
    [] x.kind = "defn"        -> <<x.body>>
    [] x.kind = "data"        -> x.constructors
    [] OTHER                  -> << >>

(* The nodes reached from the definitions. *)
Reached(p) ==
  LET reach[d \in 0..Len(p.nodes)] ==
        IF d = 0 THEN Definitions(p)
        ELSE LET above == reach[d - 1]
             IN  above \cup UNION {{Children(p, m)[k] : k \in DOMAIN Children(p, m)} :
                                      m \in above}
  IN  reach[Len(p.nodes)]

(* The nodes form a forest with the definitions as roots. *)
IsForest(p) ==
  LET places(m) == DOMAIN Children(p, m)
  IN  /\ Reached(p) = NodeIds(p)
      /\ \A n \in NodeIds(p) :
           n \in Definitions(p) <=>
             \A m \in NodeIds(p) : \A k \in places(m) : Children(p, m)[k] # n
      /\ \A m1, m2 \in NodeIds(p) : \A j \in places(m1), k \in places(m2) :
           Children(p, m1)[j] = Children(p, m2)[k] => m1 = m2 /\ j = k
      /\ \A j, k \in DOMAIN p.definitions :
           p.definitions[j] = p.definitions[k] => j = k

IsProgram(p) ==
  /\ p = [nodes |-> p.nodes, definitions |-> p.definitions]
  /\ Len(p.nodes) \in Nat /\ DOMAIN p.nodes = 1..Len(p.nodes)
  /\ \A n \in NodeIds(p) : IsNode(p, n)
  /\ p.definitions \in Seq(OfKind(p, {"defn", "data"}))
  /\ IsForest(p)

ASSUME NamesAssumption    == UpperNames \subseteq Names /\ "Int" \in UpperNames
ASSUME ProgramsAssumption == \A p \in Programs : IsProgram(p)
=============================================================================
