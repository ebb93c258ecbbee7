---------------------------- MODULE TypeAnalysis ----------------------------
(***************************************************************************)
(* Type inference: analyzeTypes and the TypeAnalyzer it runs on the result *)
(* of name resolution (semantics/type_table.cpp).                          *)
(*                                                                         *)
(* The module composes three: Scopes runs first and leaves the scopes, the *)
(* symbols and the two maps from nodes; then the analyzer walks the tree,  *)
(* its pending calls being the stack work; and each of its calls of unify  *)
(* runs to its end, by the steps of Unification, before the walk goes on.  *)
(***************************************************************************)
EXTENDS Unification, Syntax

VARIABLES
  program,         \* parsed_
  scoping, scopes, symbols, scopeByNode, resolved, scopeErrors,
                   \* the Analyzer's pending calls, its ScopeTree, its errors
  work,            \* the pending calls of the TypeAnalyzer, innermost first
  typeOf,          \* what inferExpression has returned for a node
  symbolTypes,     \* symbol_types_
  constructors,    \* constructor_signatures_, with types by id
  functions,       \* function_signatures_, with types by id
  table            \* result_.types, the signatures with concrete types

analysis  == <<program, scoping, scopes, symbols, scopeByNode, resolved, scopeErrors>>
knowledge == <<symbolTypes, constructors, functions>>
vars      == <<unification, analysis, work, typeOf, knowledge, table>>

S == INSTANCE Scopes WITH work <- scoping, diagnostics <- scopeErrors
T == INSTANCE Typing

-----------------------------------------------------------------------------
(* Lookups; NoSymbol for nullptr. *)

SymbolIn(scope, name, kinds) ==
  LET id == S!GetLocalSymbolId(scope, name)
  IN  IF id # S!NoSymbol /\ symbols[id].kind \in kinds THEN id ELSE S!NoSymbol

GetRootSymbol(name, kind) == SymbolIn(S!RootScope, name, {kind})

GetSymbolInNodeScope(n, name, kind) ==
  IF n \in DOMAIN scopeByNode THEN SymbolIn(scopeByNode[n], name, {kind})
  ELSE S!NoSymbol

TypeSymbol(name) == SymbolIn(S!RootScope, name, S!TypeKinds)

-----------------------------------------------------------------------------
(* Entries that makeType appends to a table of n entries. *)

Variables(k) == [j \in 1..k |-> VarEntry(NoType)]

(* makeFunction(ps, r): one entry for each parameter, the last one first... *)
Arrows(n, ps, r) ==
  [j \in 1..Len(ps) |->
     FunctionEntry(ps[Len(ps) + 1 - j], IF j = 1 THEN r ELSE n + j - 1)]

(* ... and the id it returns. *)
ArrowsId(n, ps, r) == IF ps = << >> THEN r ELSE n + Len(ps)

(* typeOfTypeSymbol.  Faulty: Int is taken for a data type. *)
DataOfTypeSymbol(id) == DataEntry(id)

TypeOfTypeSymbol(id) ==
  IF symbols[id].kind = "builtin" THEN IntEntry ELSE DataEntry(id)

NewIds(n, k) == [j \in 1..k |-> n + j]

(* What a loop over seq takes if it passes over all that is not in K. *)
Selected(seq, K) ==
  LET select[k \in 0..Len(seq)] ==
        IF k = 0 THEN << >>
        ELSE IF seq[k] \in K THEN Append(select[k - 1], seq[k])
        ELSE select[k - 1]
  IN  select[Len(seq)]

-----------------------------------------------------------------------------
(* The walk. *)

Call(call, n)      == [call |-> call, node |-> n]
Infer(n)           == Call("infer", n)
UnifyCall(n, t)    == [call |-> "unify", node |-> n, expected |-> t]
BranchCall(b, s, r) == [call |-> "branch", node |-> b, expected |-> s, result |-> r]

Top  == Head(work)
Node == program.nodes[Top.node]

(* The analyzer runs the innermost of its pending calls. *)
Running(call) ==
  /\ scoping = << >> /\ status # "running"
  /\ work # << >> /\ Top.call = call
  /\ UNCHANGED analysis

Then(calls) == work' = calls \o Tail(work)

OfDefinitions(kind, call) ==
  LET some == Selected(program.definitions, OfKind(program, {kind}))
  IN  [k \in DOMAIN some |-> Call(call, some[k])]

Init ==
  /\ S!Init
  /\ UnificationInit
  /\ work = <<Call("analyze", NoNode)>>
  /\ typeOf = << >> /\ symbolTypes = << >>
  /\ constructors = << >> /\ functions = << >>
  /\ table = [constructors |-> << >>, functions |-> << >>]

(* Name resolution, before the analyzer is there. *)
ResolveNames ==
  /\ scoping # << >>
  /\ S!Next
  /\ UNCHANGED <<unification, work, typeOf, knowledge, table>>

(* Faulty: a body is inferred before all functions have signatures. *)
PhasesOneByOne ==
  <<Call("builtins", NoNode)>>
    \o OfDefinitions("data", "data")
    \o [k \in 1..(2 * Len(OfDefinitions("defn", "body"))) |->
          IF k % 2 = 1 THEN OfDefinitions("defn", "signature")[(k + 1) \div 2]
          ELSE OfDefinitions("defn", "body")[k \div 2]]
    \o <<Call("finalize", NoNode), Call("restrictions", NoNode)>>

Phases ==
  <<Call("builtins", NoNode)>>
    \o OfDefinitions("data", "data")
    \o OfDefinitions("defn", "signature")
    \o OfDefinitions("defn", "body")
    \o <<Call("finalize", NoNode), Call("restrictions", NoNode)>>

(* analyze: the diagnostics of name resolution are passed on. *)
Analyze ==
  /\ Running("analyze")
  /\ diagnosed' = ~S!Ok
  /\ Then(IF S!Ok THEN Phases ELSE << >>)
  /\ Proceed
  /\ UNCHANGED <<types, typeOf, knowledge, table>>

RegisterBuiltins ==
  /\ Running("builtins")
  /\ LET id == S!GetLocalSymbolId(S!RootScope, "Int")
     IN  IF id # S!NoSymbol
         THEN /\ types' = Append(types, IntEntry)
              /\ symbolTypes' = S!Put(symbolTypes, id, Len(types) + 1)
         ELSE UNCHANGED <<types, symbolTypes>>
  /\ Then(<< >>)
  /\ Proceed
  /\ UNCHANGED <<diagnosed, typeOf, constructors, functions, table>>

(* One turn of the loop of registerConstructors. *)
RegisterDataType ==
  /\ Running("data")
  /\ LET id == GetRootSymbol(Node.name, "data")
         cs == Node.constructors
     IN  IF id # S!NoSymbol
         THEN /\ types' = Append(types, DataEntry(id))
              /\ symbolTypes' = S!Put(symbolTypes, id, Len(types) + 1)
              /\ Then([k \in DOMAIN cs |->
                         [call |-> "constructor", node |-> cs[k], data |-> id]])
         ELSE Then(<< >>) /\ UNCHANGED <<types, symbolTypes>>
  /\ Proceed
  /\ UNCHANGED <<diagnosed, typeOf, constructors, functions, table>>

(***************************************************************************)
(* registerConstructor makes a type for each field up to the first one     *)
(* that names no type; such a constructor gets an error and no signature.  *)
(***************************************************************************)
RegisterConstructor ==
  /\ Running("constructor")
  /\ LET id     == GetRootSymbol(Node.name, "constructor")
         size   == Len(Node.fields)
         bad    == {k \in 1..size : TypeSymbol(Node.fields[k]) = S!NoSymbol}
         made   == CHOOSE k \in 0..size : /\ 1..k \cap bad = {}
                                          /\ k = size \/ k + 1 \in bad
         fields == NewIds(Len(types), made)
         result == Len(types) + size + 1
         entries == [k \in 1..made |-> TypeOfTypeSymbol(TypeSymbol(Node.fields[k]))]
     IN  CASE id = S!NoSymbol -> UNCHANGED <<types, diagnosed, symbolTypes, constructors>>
           [] id # S!NoSymbol /\ made < size ->
                /\ types' = types \o entries
                /\ diagnosed' = TRUE
                /\ UNCHANGED <<symbolTypes, constructors>>
           [] id # S!NoSymbol /\ made = size ->
                /\ types' = types \o entries \o <<DataEntry(Top.data)>>
                              \o Arrows(result, fields, result)
                /\ symbolTypes' =
                     S!Put(symbolTypes, id, ArrowsId(result, fields, result))
                /\ constructors' =
                     S!Put(constructors, id, [data |-> Top.data, fields |-> fields])
                /\ UNCHANGED diagnosed
  /\ Then(<< >>)
  /\ Proceed
  /\ UNCHANGED <<typeOf, functions, table>>

(* prepareFunctionSignature: a variable for each parameter and the result. *)
PrepareFunctionSignature ==
  /\ Running("signature")
  /\ LET id == GetRootSymbol(Node.name, "function")
         InFunction(name) == S!GetLocalSymbolId(scopeByNode[Top.node], name)
         found  == Selected(Node.parameters,
                            {name \in Names : InFunction(name) # S!NoSymbol})
         ps     == NewIds(Len(types), Len(found))
         result == Len(types) + Len(found) + 1
         locals == {InFunction(found[k]) : k \in DOMAIN found}
     IN  IF id # S!NoSymbol /\ Top.node \in DOMAIN scopeByNode
         THEN /\ types' = types \o Variables(Len(found) + 1) \o Arrows(result, ps, result)
              /\ symbolTypes' =
                   [s \in DOMAIN symbolTypes \cup locals \cup {id} |->
                      IF s = id THEN ArrowsId(result, ps, result)
                      ELSE IF s \in locals
                      THEN ps[CHOOSE k \in DOMAIN ps : InFunction(found[k]) = s]
                      ELSE symbolTypes[s]]
              /\ functions' = S!Put(functions, id, [parameters |-> ps, result |-> result])
         ELSE UNCHANGED <<types, symbolTypes, functions>>
  /\ Then(<< >>)
  /\ Proceed
  /\ UNCHANGED <<diagnosed, typeOf, constructors, table>>

(* One turn of the loop of inferFunctionBodies. *)
InferFunctionBody ==
  /\ Running("body")
  /\ LET id == GetRootSymbol(Node.name, "function")
     IN  Then(IF id \in DOMAIN functions
              THEN <<Infer(Node.body), UnifyCall(Node.body, functions[id].result)>>
              ELSE << >>)
  /\ Proceed
  /\ UNCHANGED <<types, diagnosed, typeOf, knowledge, table>>

(* unify(type of a node that has been inferred, expected) *)
Unify ==
  /\ Running("unify")
  /\ UNCHANGED types
  /\ CallUnify(typeOf[Top.node], Top.expected)
  /\ Then(<< >>)
  /\ UNCHANGED <<typeOf, knowledge, table>>

-----------------------------------------------------------------------------
(* inferExpression, by the kind of the node. *)

InferIntLiteral ==
  /\ Running("infer") /\ Node.kind = "int"
  /\ types' = Append(types, IntEntry)
  /\ typeOf' = S!Put(typeOf, Top.node, Len(types) + 1)
  /\ Then(<< >>)
  /\ Proceed
  /\ UNCHANGED <<diagnosed, knowledge, table>>

(* A symbol that has no type yet is given a variable of its own. *)
InferVariable ==
  /\ Running("infer") /\ Node.kind = "variable"
  /\ IF Top.node \in DOMAIN resolved /\ resolved[Top.node] \in DOMAIN symbolTypes
     THEN /\ typeOf' = S!Put(typeOf, Top.node, symbolTypes[resolved[Top.node]])
          /\ UNCHANGED types
     ELSE /\ types' = Append(types, VarEntry(NoType))
          /\ typeOf' = S!Put(typeOf, Top.node, Len(types) + 1)
  /\ Then(<< >>)
  /\ Proceed
  /\ UNCHANGED <<diagnosed, knowledge, table>>

(* The parts of an expression come first, in their order. *)
InferParts ==
  /\ Running("infer") /\ Node.kind \in {"operator", "application", "case"}
  /\ Then(CASE Node.kind = "operator" ->
                 <<Infer(Node.left), Infer(Node.right), Call("operate", Top.node)>>
            [] Node.kind = "application" ->
                 <<Infer(Node.function), Infer(Node.argument), Call("apply", Top.node)>>
            [] Node.kind = "case" ->
                 <<Infer(Node.scrutinee), Call("match", Top.node)>>)
  /\ Proceed
  /\ UNCHANGED <<types, diagnosed, typeOf, knowledge, table>>

(* inferBinaryOperator, when both operands have types. *)
InferBinaryOperator ==
  /\ Running("operate")
  /\ types' = Append(types, IntEntry)
  /\ LET integer == Len(types) + 1
     IN  Then(<<UnifyCall(Node.left, integer), UnifyCall(Node.right, integer),
                Call("result", Top.node)>>)
  /\ Proceed
  /\ UNCHANGED <<diagnosed, typeOf, knowledge, table>>

InferOperatorResult ==
  /\ Running("result")
  /\ types' = Append(types, IntEntry)
  /\ typeOf' = S!Put(typeOf, Top.node, Len(types) + 1)
  /\ Then(<< >>)
  /\ Proceed
  /\ UNCHANGED <<diagnosed, knowledge, table>>

(* inferApplication, when function and argument have types. *)
InferApplication ==
  /\ Running("apply")
  /\ LET result == Len(types) + 1
     IN  /\ types' = types \o <<VarEntry(NoType),
                                FunctionEntry(typeOf[Node.argument], result)>>
         /\ CallUnify(typeOf[Node.function], result + 1)
         /\ typeOf' = S!Put(typeOf, Top.node, result)
  /\ Then(<< >>)
  /\ UNCHANGED <<knowledge, table>>

(* inferCaseExpression, when the scrutinee has a type. *)
InferCaseExpression ==
  /\ Running("match")
  /\ types' = Append(types, VarEntry(NoType))
  /\ LET scrutinee == typeOf[Node.scrutinee]
         result    == Len(types) + 1
         bs        == Node.branches
     IN  /\ typeOf' = S!Put(typeOf, Top.node, result)
         /\ Then([k \in DOMAIN bs |-> BranchCall(bs[k], scrutinee, result)])
  /\ Proceed
  /\ UNCHANGED <<diagnosed, knowledge, table>>

(* What follows the pattern of a branch.  Faulty: in the wrong order. *)
UnifyBodyFirst == <<UnifyCall(Node.body, Top.result), Infer(Node.body)>>

BodyCalls == <<Infer(Node.body), UnifyCall(Node.body, Top.result)>>

Pattern == program.nodes[Node.pattern]

InferVariablePattern ==
  /\ Running("branch") /\ Pattern.kind = "variable_pattern"
  /\ LET id == GetSymbolInNodeScope(Node.pattern, Pattern.name, "pattern_variable")
     IN  symbolTypes' = IF id # S!NoSymbol THEN S!Put(symbolTypes, id, Top.expected)
                        ELSE symbolTypes
  /\ Then(BodyCalls)
  /\ Proceed
  /\ UNCHANGED <<types, diagnosed, typeOf, constructors, functions, table>>

(* inferConstructorPattern, up to its call of unify. *)
InferConstructorPattern ==
  /\ Running("branch") /\ Pattern.kind = "constructor_pattern"
  /\ IF /\ Node.pattern \in DOMAIN resolved
        /\ resolved[Node.pattern] \in DOMAIN constructors
     THEN /\ types' = Append(types, DataEntry(constructors[resolved[Node.pattern]].data))
          /\ CallUnify(Top.expected, Len(types) + 1)
          /\ Then(<<Call("arguments", Node.pattern)>> \o BodyCalls)
     ELSE /\ Then(BodyCalls)
          /\ Proceed
          /\ UNCHANGED <<types, diagnosed>>
  /\ UNCHANGED <<typeOf, knowledge, table>>

(* The rest of it: the arguments, up to the first that is not declared. *)
InferPatternArguments ==
  /\ Running("arguments")
  /\ LET arguments == Node.arguments
         fields    == constructors[resolved[Top.node]].fields
         Id(k)     == GetSymbolInNodeScope(Top.node, arguments[k], "pattern_variable")
         places    == {k \in DOMAIN arguments : \A j \in 1..k : Id(j) # S!NoSymbol}
         named     == {Id(k) : k \in places}
     IN  IF Len(arguments) = Len(fields)
         THEN /\ symbolTypes' =
                   [s \in DOMAIN symbolTypes \cup named |->
                      IF s \in named
                      THEN fields[CHOOSE k \in places :
                                    Id(k) = s /\ \A j \in places : Id(j) = s => j <= k]
                      ELSE symbolTypes[s]]
              /\ UNCHANGED diagnosed
         ELSE diagnosed' = TRUE /\ UNCHANGED symbolTypes
  /\ Then(<< >>)
  /\ Proceed
  /\ UNCHANGED <<types, typeOf, constructors, functions, table>>

-----------------------------------------------------------------------------
(* finalizeTypes and checkFunctionRestrictions. *)

(***************************************************************************)
(* Every symbol is materialized, parameters among them, then every result; *)
(* a signature that has no concrete types is left out.                     *)
(***************************************************************************)
FinalizeTypes ==
  /\ Running("finalize")
  /\ LET type    == Materialized(types)
         every   == {symbolTypes[s] : s \in DOMAIN symbolTypes}
         results == {functions[f].result : f \in DOMAIN functions}
         Concrete(ids) == [k \in DOMAIN ids |-> type[ids[k]]]
         AllConcrete(ids) == \A k \in DOMAIN ids : type[ids[k]] # NoConcreteType
     IN  /\ types' = Resolve(types, UNION {MaterializeVisits(types)[t] :
                                             t \in every \cup results})
         /\ diagnosed' = (diagnosed \/ \E t \in every : type[t] = NoConcreteType)
         /\ table' =
              [constructors |->
                 [c \in {c \in DOMAIN constructors : AllConcrete(constructors[c].fields)} |->
                    [data |-> constructors[c].data,
                     fields |-> Concrete(constructors[c].fields)]],
               functions |->
                 [f \in {f \in DOMAIN functions :
                           /\ AllConcrete(functions[f].parameters)
                           /\ type[functions[f].result] # NoConcreteType} |->
                    [parameters |-> Concrete(functions[f].parameters),
                     result     |-> type[functions[f].result]]]]
  /\ Then(<< >>)
  /\ Proceed
  /\ UNCHANGED <<typeOf, knowledge>>

ContainsFunctionType(type) == type[1] = "function"

(* The errors of checkFunctionRestrictions for symbol f. *)
Restricted(f) ==
  LET signature == table.functions[f]
  IN  \/ symbols[f].name = "main" /\ signature.parameters # << >>
      \/ \E k \in DOMAIN signature.parameters : ContainsFunctionType(signature.parameters[k])
      \/ ContainsFunctionType(signature.result)

CheckFunctionRestrictions ==
  /\ Running("restrictions")
  /\ diagnosed' = (diagnosed \/ \E f \in DOMAIN table.functions : Restricted(f))
  /\ Then(<< >>)
  /\ Proceed
  /\ UNCHANGED <<types, typeOf, knowledge, table>>

(* A step of the call of unify that the analyzer is waiting for. *)
TryUnifyStep ==
  /\ TryUnify
  /\ UNCHANGED <<analysis, work, typeOf, knowledge, table>>

Finished == scoping = << >> /\ work = << >> /\ status # "running"

Done == Finished /\ UNCHANGED vars

Next ==
  \/ ResolveNames
  \/ Analyze \/ RegisterBuiltins \/ RegisterDataType \/ RegisterConstructor
  \/ PrepareFunctionSignature \/ InferFunctionBody \/ Unify
  \/ InferIntLiteral \/ InferVariable \/ InferParts
  \/ InferBinaryOperator \/ InferOperatorResult \/ InferApplication
  \/ InferCaseExpression \/ InferVariablePattern \/ InferConstructorPattern
  \/ InferPatternArguments
  \/ FinalizeTypes \/ CheckFunctionRestrictions
  \/ TryUnifyStep
  \/ Done

Spec == Init /\ [][Next]_vars /\ WF_vars(Next)

-----------------------------------------------------------------------------
(* The calls that end with a type for their node in typeOf. *)
Producers == {"infer", "operate", "result", "apply", "match"}

(* Node n has a type when the k-th pending call runs. *)
TypedBefore(n, k) ==
  \/ n \in DOMAIN typeOf
  \/ \E j \in 1..(k - 1) : work[j].call \in Producers /\ work[j].node = n

(* The nodes whose type a call reads, and the ids it carries. *)
Reads(c) ==
  LET x == program.nodes[c.node] IN
  CASE c.call = "unify"   -> {c.node}
    [] c.call = "operate" -> {x.left, x.right}
    [] c.call = "apply"   -> {x.function, x.argument}
    [] c.call = "match"   -> {x.scrutinee}
    [] OTHER              -> {}

Carries(c) ==
  CASE c.call = "unify"  -> {c.expected}
    [] c.call = "branch" -> {c.expected, c.result}
    [] OTHER             -> {}

(***************************************************************************)
(* The type invariant: what is kept by id is in the table, and when a call *)
(* runs, the types it reads have been inferred.                            *)
(***************************************************************************)
TypeOK ==
  /\ TypesOK /\ CallsOK
  /\ \A n \in DOMAIN typeOf : typeOf[n] \in Ids(types)
  /\ \A s \in DOMAIN symbolTypes : symbolTypes[s] \in Ids(types)
  /\ \A c \in DOMAIN constructors : constructors[c].fields \in Seq(Ids(types))
  /\ \A f \in DOMAIN functions : /\ functions[f].parameters \in Seq(Ids(types))
                                 /\ functions[f].result \in Ids(types)
  /\ \A k \in DOMAIN work : /\ Carries(work[k]) \subseteq Ids(types)
                            /\ \A n \in Reads(work[k]) : TypedBefore(n, k)

(***************************************************************************)
(* The analysis reports nothing exactly when the program has one typing    *)
(* and that one is first-order: no ill-typed program gets through, and no  *)
(* order of the definitions makes a good one be refused.                   *)
(***************************************************************************)
AcceptsTheTypable ==
  Finished => (~diagnosed <=> T!AcceptableTypings(program) # {})

(* A type of the reference, with a symbol for its name. *)
WithSymbols(type) ==
  IF type[1] = "data" THEN <<"data", GetRootSymbol(type[2], "data")>> ELSE type

(***************************************************************************)
(* The result of an accepted program has a signature for every function    *)
(* and constructor, with the types of that typing: code generation looks   *)
(* each of them up, and lays data out by them.                             *)
(***************************************************************************)
SignaturesAreTheTyping ==
  Finished /\ ~diagnosed =>
    \A typing \in T!AcceptableTypings(program) :
      /\ \A d \in OfKind(program, {"defn"}) :
           LET f == GetRootSymbol(program.nodes[d].name, "function")
               ps == T!Parameters(program, typing, d)
           IN  /\ f \in DOMAIN table.functions
               /\ table.functions[f] =
                    [parameters |-> [k \in DOMAIN ps |-> WithSymbols(ps[k])],
                     result     |-> WithSymbols(typing[<<d, 0>>])]
      /\ \A n \in OfKind(program, {"constructor"}) :
           LET c == GetRootSymbol(program.nodes[n].name, "constructor")
               fs == T!Fields(program, n)
           IN  /\ c \in DOMAIN table.constructors
               /\ table.constructors[c] =
                    [data   |-> WithSymbols(T!DataOf(program, n))[2],
                     fields |-> [k \in DOMAIN fs |-> WithSymbols(fs[k])]]

(* Every analysis ends, whatever errors it meets on the way. *)
AnalysisEnds == <>Finished
=============================================================================
