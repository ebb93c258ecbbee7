------------------------------ MODULE Grammar -------------------------------
(***************************************************************************)
(* That the parser reads what the grammar derives.                         *)
(***************************************************************************)
EXTENDS Parser, Readings, Printer

(* The reading that the parser has made: its nodes in the place of ids. *)
Tree ==
  LET tree[n \in DOMAIN nodes] ==
        LET x == nodes[n]
            all(ids) == [k \in DOMAIN ids |-> tree[ids[k]]]
        IN  CASE x.kind = "operator" -> BinaryOperator(x.op, tree[x.left], tree[x.right])
              [] x.kind = "application" -> Application(tree[x.function], tree[x.argument])
              [] x.kind = "case" -> CaseExpression(tree[x.scrutinee], all(x.branches))
              [] x.kind = "branch" -> Branch(tree[x.pattern], tree[x.body])
              [] x.kind = "defn" -> FunctionDefinition(x.name, x.parameters, tree[x.body])
              [] x.kind = "data" -> DataTypeDefinition(x.name, all(x.constructors))
              [] OTHER -> x
  IN  [kind |-> "program",
       definitions |-> [k \in DOMAIN definitions |-> tree[definitions[k]]]]

(***************************************************************************)
(* ReadsTheGrammar: the parser accepts exactly the sequences of tokens     *)
(* that the grammar derives, and gives each the tree that the grammar      *)
(* does: application binds tightest, * and / bind tighter than + and -,    *)
(* and all of them associate to the left.                                  *)
(***************************************************************************)
ReadsTheGrammar ==
  /\ outcome = "accepted" => Tree = Reading(tokens)
  /\ outcome = "refused" => Reading(tokens) = NoReading

Sentences == {s \in Inputs : Reading(s) # NoReading}

(***************************************************************************)
(* BlamesNoGoodToken: the token that a refusal names is not one that some  *)
(* sentence of the grammar has there after the same beginning, so the      *)
(* mistake is at the position shown or before it.                          *)
(***************************************************************************)
BlamesNoGoodToken ==
  outcome = "refused" /\ ~AtEnd =>
    \A s \in Sentences : ~IsPrefix(SubSeq(tokens, 1, it), s)

(***************************************************************************)
(* PrintingKeepsTheProgram: what print makes of a program reads as the     *)
(* same program: where it leaves parentheses out, at case expressions and  *)
(* at bodies, none are needed.                                             *)
(***************************************************************************)
PrintingKeepsTheProgram ==
  outcome = "accepted" => Reading(PrintProgram(Tree)) = Tree
=============================================================================
