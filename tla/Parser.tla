------------------------------- MODULE Parser -------------------------------
(***************************************************************************)
(* The recursive-descent parser (parsing/parse.cpp).                       *)
(*                                                                         *)
(* The functions of the parser call each other; `work` is what the pending *)
(* calls have left to do, the running one's first.  A call of a function   *)
(* that parses a production is the step Parse(production), which its       *)
(* action replaces by the steps of the function's body; a loop is a step   *)
(* that puts itself back.  `parsed` holds what has been parsed and belongs *)
(* to no node yet: names, values, ids of nodes and lists of them, tagged.  *)
(*                                                                         *)
(* A position is kept as the index of its token.  The limit on the number  *)
(* of nodes, that of std::size_t, is left out.                             *)
(***************************************************************************)
EXTENDS Syntax, Tokens

CONSTANT Inputs   \* the sequences of tokens to parse

(* What the tokenizer yields: tokens, each name with the case of its kind. *)
IsInput(s) ==
  /\ Len(s) \in Nat /\ DOMAIN s = 1..Len(s)
  /\ \A k \in DOMAIN s :
       /\ IsToken(s[k])
       /\ s[k].kind = "lower" => s[k].name \in LowerNames
       /\ s[k].kind = "upper" => s[k].name \in UpperNames

ASSUME InputsAssumption == \A s \in Inputs : IsInput(s)

VARIABLES
  tokens,       \* the input
  it,           \* it_: the next token; Len(tokens) + 1 at the end
  nodes,        \* the nodes made so far, by id
  positions,    \* positions_
  definitions,  \* program.definitions
  work,         \* what the pending calls have left to do
  parsed,       \* what they have parsed
  outcome       \* "parsing", "accepted", or "refused" by an exception

vars == <<tokens, it, nodes, positions, definitions, work, parsed, outcome>>

-----------------------------------------------------------------------------
(* The steps that the functions consist of. *)

(* Faulty: an argument in parentheses is not seen as one. *)
NoParentheses == {"int", "lower", "upper", "case"}

PrimaryStart == {"int", "lower", "upper", "(", "case"}

Expect(k)        == [do |-> "expect", token |-> k]
ExpectName(k)    == [do |-> "expectName", token |-> k]
NamesWhile(k)    == [do |-> "parseNamesWhile", token |-> k]
Parse(what)      == [do |-> "parse", what |-> what]
OperatorLoop(l)  == [do |-> "operators", level |-> l]
ArgumentLoop     == [do |-> "arguments"]
List(what, n)    == [do |-> "list", what |-> what, count |-> n]
Operator(op, n)  == [do |-> "operator", op |-> op, node |-> n]
Make(kind, at)   == [do |-> "make", kind |-> kind, at |-> at]

(* The place of an operator that has its number and not yet its operands. *)
Reserved == [kind |-> "reserved"]

AtEnd       == it = Len(tokens) + 1
CheckAny(K) == ~AtEnd /\ tokens[it].kind \in K
Check(k)    == CheckAny({k})

Top          == Head(work)
Running(d)   == outcome = "parsing" /\ work # << >> /\ Top.do = d
Called(what) == Running("parse") /\ Top.what = what
Text(t)      == IF t.kind = "int" THEN t.value ELSE t.name
Item(k, x)   == [kind |-> k, value |-> x]
Part(k, n)   == parsed[Len(parsed) - n + k].value    \* the k-th of the last n
Without(n)   == SubSeq(parsed, 1, Len(parsed) - n)

(* An exception leaves parse. *)
Throw ==
  /\ outcome' = "refused"
  /\ UNCHANGED <<tokens, it, nodes, positions, definitions, work, parsed>>

(* A function calls its steps before the pending ones go on. *)
Do(steps) ==
  /\ work' = steps \o Tail(work)
  /\ UNCHANGED <<tokens, it, nodes, positions, definitions, parsed, outcome>>

(* Faulty: the number of the last node instead of the next one. *)
LastId == Len(nodes)

NextId == Len(nodes) + 1

(* The tokens up to next are consumed and what they say is kept. *)
Consume(next, items) ==
  /\ it' = next /\ work' = Tail(work) /\ parsed' = parsed \o items
  /\ UNCHANGED <<tokens, nodes, positions, definitions, outcome>>

(* Faulty: the position is forgotten, or is that of the next token. *)
AllocateWithoutPosition(node, at) ==
  /\ nodes' = Append(nodes, node) /\ positions' = positions

AllocateHere(node, at) ==
  /\ nodes' = Append(nodes, node) /\ positions' = Append(positions, it)

AllocateNode(node, at) ==
  /\ nodes' = Append(nodes, node) /\ positions' = Append(positions, at)

-----------------------------------------------------------------------------
Init ==
  /\ tokens \in Inputs
  /\ it = 1 /\ nodes = << >> /\ positions = << >> /\ definitions = << >>
  /\ work = << >> /\ parsed = << >> /\ outcome = "parsing"

ParseProgram ==
  /\ outcome = "parsing" /\ work = << >>
  /\ IF AtEnd THEN work' = work /\ outcome' = "accepted"
     ELSE work' = <<Parse("definition")>> /\ outcome' = outcome
  /\ UNCHANGED <<tokens, it, nodes, positions, definitions, parsed>>

ExpectToken ==
  /\ Running("expect")
  /\ IF Check(Top.token) THEN Consume(it + 1, << >>) ELSE Throw

ExpectText ==
  /\ Running("expectName")
  /\ IF Check(Top.token) THEN Consume(it + 1, <<Item(Top.token, Text(tokens[it]))>>)
     ELSE Throw

ParseNamesWhile ==
  /\ Running("parseNamesWhile")
  /\ \E next \in it..(Len(tokens) + 1) :
       /\ \A k \in it..(next - 1) : tokens[k].kind = Top.token
       /\ next <= Len(tokens) => tokens[next].kind # Top.token
       /\ Consume(next, <<Item("names", [k \in 1..(next - it) |-> tokens[it + k - 1].name])>>)

ParseDefinition ==
  /\ Called("definition")
  /\ \/ /\ Check("defn")
        /\ Do(<<Expect("defn"), ExpectName("lower"), NamesWhile("lower"), Expect("="),
                Expect("{"), Parse("expression"), Expect("}"), Make("defn", it)>>)
     \/ /\ Check("data")
        /\ Do(<<Expect("data"), ExpectName("upper"), Expect("="), Expect("{"),
                Parse("constructor"), List("constructor", 1), Expect("}"),
                Make("data", it)>>)
     \/ ~CheckAny({"defn", "data"}) /\ Throw

ParseConstructor ==
  /\ Called("constructor")
  /\ Do(<<ExpectName("upper"), NamesWhile("upper"), Make("constructor", it)>>)

(* The n nodes of a list are parsed; another follows or the list is complete. *)
ParseList ==
  /\ Running("list")
  /\ LET one == <<Parse(Top.what), List(Top.what, Top.count + 1)>>
     IN  CASE Top.what = "constructor" /\ Check(",") -> Do(<<Expect(",")>> \o one)
           [] Top.what = "branch" /\ ~Check("}") /\ ~AtEnd -> Do(one)
           [] OTHER ->
                /\ work' = Tail(work)
                /\ parsed' = Append(Without(Top.count),
                       Item("nodes", [k \in 1..Top.count |-> Part(k, Top.count)]))
                /\ UNCHANGED <<tokens, it, nodes, positions, definitions, outcome>>

(* The levels of precedence. *)
Operand(level) == IF level = "expression" THEN "term" ELSE "application"

(* Faulty: the levels take each other's operators. *)
MatchAnyOperator(level) == CheckAny({"+", "-", "*", "/"})

MatchOperator(level) ==
  CheckAny(IF level = "expression" THEN {"+", "-"} ELSE {"*", "/"})

ParseBinaryLevel ==
  /\ Called("expression") \/ Called("term")
  /\ Do(<<Parse(Operand(Top.what)), OperatorLoop(Top.what)>>)

ParseOperator ==
  /\ Running("operators")
  /\ IF MatchOperator(Top.level)
     THEN /\ AllocateNode(Reserved, it)
          /\ it' = it + 1
          /\ work' = <<Parse(Operand(Top.level)), Operator(tokens[it].kind, NextId)>>
                       \o work
          /\ UNCHANGED <<tokens, definitions, parsed, outcome>>
     ELSE Do(<< >>)

MakeBinaryOperator ==
  /\ Running("operator")
  /\ nodes' = [nodes EXCEPT ![Top.node] = BinaryOperator(Top.op, Part(1, 2), Part(2, 2))]
  /\ parsed' = Append(Without(2), Item("node", Top.node))
  /\ work' = Tail(work)
  /\ UNCHANGED <<tokens, it, positions, definitions, outcome>>

ParseApplication ==
  /\ Called("application")
  /\ Do(<<Parse("primary"), ArgumentLoop>>)

(* Faulty: the loop goes on when nothing follows. *)
ParseArgumentAgain ==
  /\ Running("arguments")
  /\ Do(IF CheckAny(PrimaryStart)
        THEN <<Parse("primary"), Make("application", it), ArgumentLoop>> ELSE <<Top>>)

ParseArgument ==
  /\ Running("arguments")
  /\ Do(IF CheckAny(PrimaryStart)
        THEN <<Parse("primary"), Make("application", it), ArgumentLoop>> ELSE << >>)

ParsePrimary ==
  /\ Called("primary")
  /\ \/ Check("(") /\ Do(<<Expect("("), Parse("expression"), Expect(")")>>)
     \/ Check("int") /\ Do(<<ExpectName("int"), Make("int", it)>>)
     \/ /\ CheckAny({"lower", "upper"})
        /\ Do(<<ExpectName(tokens[it].kind), Make("variable", it)>>)
     \/ /\ Check("case")
        /\ Do(<<Expect("case"), Parse("expression"), Expect("of"), Expect("{"),
                Parse("branch"), List("branch", 1), Expect("}"), Make("case", it)>>)
     \/ ~CheckAny(PrimaryStart) /\ Throw

ParseBranch ==
  /\ Called("branch")
  /\ Do(<<Parse("pattern"), Expect("->"), Expect("{"), Parse("expression"), Expect("}"),
          Make("branch", it)>>)

ParsePattern ==
  /\ Called("pattern")
  /\ \/ Check("lower") /\ Do(<<ExpectName("lower"), Make("variable_pattern", it)>>)
     \/ /\ Check("upper")
        /\ Do(<<ExpectName("upper"), NamesWhile("lower"), Make("constructor_pattern", it)>>)
     \/ ~CheckAny({"lower", "upper"}) /\ Throw

(* The number of parts of a node, and the node made of the last ones parsed. *)
Parts(kind) ==
  CASE kind \in {"int", "variable", "variable_pattern"} -> 1
    [] kind = "defn" -> 3
    [] OTHER         -> 2

Made(kind) ==
  CASE kind = "int"                 -> IntLiteral(Part(1, 1))
    [] kind = "variable"            -> Variable(Part(1, 1))
    [] kind = "application"         -> Application(Part(1, 2), Part(2, 2))
    [] kind = "case"                -> CaseExpression(Part(1, 2), Part(2, 2))
    [] kind = "branch"              -> Branch(Part(1, 2), Part(2, 2))
    [] kind = "variable_pattern"    -> VariablePattern(Part(1, 1))
    [] kind = "constructor_pattern" -> ConstructorPattern(Part(1, 2), Part(2, 2))
    [] kind = "constructor"         -> Constructor(Part(1, 2), Part(2, 2))
    [] kind = "data"                -> DataTypeDefinition(Part(1, 2), Part(2, 2))
    [] kind = "defn"                -> FunctionDefinition(Part(1, 3), Part(2, 3), Part(3, 3))

MakeNode ==
  LET rest == Without(Parts(Top.kind))
  IN  /\ Running("make")
      /\ AllocateNode(Made(Top.kind), Top.at)
      /\ IF Top.kind \in {"defn", "data"}
         THEN definitions' = Append(definitions, NextId) /\ parsed' = rest
         ELSE definitions' = definitions /\ parsed' = Append(rest, Item("node", NextId))
      /\ work' = Tail(work)
      /\ UNCHANGED <<tokens, it, outcome>>

Finished == outcome # "parsing" /\ UNCHANGED vars

Next ==
  \/ ParseProgram \/ ExpectToken \/ ExpectText \/ ParseNamesWhile
  \/ ParseDefinition \/ ParseConstructor \/ ParseList
  \/ ParseBinaryLevel \/ ParseOperator \/ MakeBinaryOperator
  \/ ParseApplication \/ ParseArgument \/ ParsePrimary \/ ParseBranch \/ ParsePattern
  \/ MakeNode \/ Finished

Spec == Init /\ [][Next]_vars /\ WF_vars(Next)

-----------------------------------------------------------------------------
(***************************************************************************)
(* TypeOK: the cursor stays within the input and its end, there is one     *)
(* position for each node, and every node has the position of a token      *)
(* there is: what parseConstructor and parseBranch take at the end of the  *)
(* input is never kept.                                                    *)
(***************************************************************************)
TypeOK ==
  /\ it \in 1..(Len(tokens) + 1) /\ \A k \in DOMAIN tokens : IsToken(tokens[k])
  /\ outcome \in {"parsing", "accepted", "refused"}
  /\ positions \in Seq(DOMAIN tokens) /\ DOMAIN nodes = DOMAIN positions
  /\ definitions \in Seq(DOMAIN nodes)
  /\ \A k \in DOMAIN work : work[k].do = "operator" => nodes[work[k].node] = Reserved

(***************************************************************************)
(* YieldsAProgram: what parse returns is a program as every later phase    *)
(* assumes it: numbered without gaps, every node in one place below one    *)
(* definition, an operator between its operands in the numbering, every    *)
(* other node after its children, and nothing left over.                   *)
(***************************************************************************)
YieldsAProgram ==
  outcome = "accepted" =>
    parsed = << >> /\ IsProgram([nodes |-> nodes, definitions |-> definitions])

(***************************************************************************)
(* PositionsPointAtTheNodes: the position that a diagnostic about a node   *)
(* shows is where the node is: at its own name, literal, keyword or        *)
(* operator, or, for an application, where its argument begins.            *)
(***************************************************************************)
PositionsPointAtTheNodes ==
  outcome = "accepted" =>
    \A n \in DOMAIN nodes :
      LET x == nodes[n]
          t == tokens[positions[n]]
          at(m) == positions[m]
      IN  CASE x.kind = "int" -> t = IntToken(x.value)
            [] x.kind = "operator" ->
                 t = Token(x.op) /\ at(x.left) < at(n) /\ at(n) < at(x.right)
            [] x.kind = "application" ->
                 /\ t.kind \in PrimaryStart
                 /\ at(x.function) < at(n) /\ at(n) <= at(x.argument)
            [] x.kind = "branch" -> at(n) = at(x.pattern)
            [] x.kind \in {"case", "defn", "data"} -> t = Token(x.kind)
            [] OTHER -> t = NameToken(t.kind, x.name)

(* ParsingEnds: the parser ends on every input, at the latest with it. *)
ParsingEnds == <>(outcome # "parsing")
=============================================================================
