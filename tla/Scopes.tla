------------------------------- MODULE Scopes -------------------------------
(***************************************************************************)
(* Name resolution: the ScopeTree and the Analyzer that fills it           *)
(* (semantics/symbol_table.cpp).                                           *)
(*                                                                         *)
(* The analyzer is a recursive walk of the tree; its pending calls are the *)
(* stack work, whose top runs next.  Ids count from 1 here: scope 1 is the *)
(* root, and NoScope and NoSymbol stand for kInvalidScopeId and for an     *)
(* empty optional.  A diagnostic keeps its node and its kind, not its text.*)
(***************************************************************************)
EXTENDS LexicalScoping

VARIABLES
  program,       \* parsed_
  work,          \* the calls still to be made, innermost first
  scopes,        \* scopes_
  symbols,       \* symbols_
  scopeByNode,   \* scope_by_node_
  resolved,      \* resolved_symbols_
  diagnostics    \* result_.diagnostics

tree == <<scopes, symbols, scopeByNode, resolved>>
vars == <<program, work, scopes, symbols, scopeByNode, resolved, diagnostics>>

NoScope   == 0
RootScope == 1
NoSymbol  == 0

Symbol(name, kind, declaration) ==
  [name |-> name, kind |-> kind, declaration |-> declaration]

ValueKinds == {"constructor", "function", "parameter", "pattern_variable"}
TypeKinds  == {"builtin", "data"}

-----------------------------------------------------------------------------
(* ScopeTree *)

(* map[key] = value, on a map with any keys. *)
Put(map, key, value) ==
  [k \in DOMAIN map \cup {key} |-> IF k = key THEN value ELSE map[k]]

GetLocalSymbolId(s, name) ==
  IF name \in DOMAIN scopes[s].symbols THEN scopes[s].symbols[name] ELSE NoSymbol

(* Faulty: a global hides a local declaration. *)
GetGlobalSymbolFirst(s, name) ==
  IF GetLocalSymbolId(RootScope, name) # NoSymbol
  THEN GetLocalSymbolId(RootScope, name) ELSE GetLocalSymbolId(s, name)

(* Out through the parents, from s to the root. *)
GetResolvedSymbolId(s, name) ==
  LET find[c \in NoScope..Len(scopes)] ==
        IF c = NoScope THEN NoSymbol
        ELSE IF GetLocalSymbolId(c, name) # NoSymbol THEN GetLocalSymbolId(c, name)
        ELSE find[scopes[c].parent]
  IN  find[s]

EmptyScope(parent, owner) ==
  [parent |-> parent, owner |-> owner, symbols |-> << >>, children |-> << >>]

(* Faulty: the size is read after the scope has been added. *)
ScopeAfterNew == Len(scopes) + 2

(* createScope; the id of the new scope is the old number of scopes. *)
NewScope == Len(scopes) + 1

(* Faulty: the parent does not list the new scope. *)
CreateUnlistedScope(parent, owner) ==
  scopes' = Append(scopes, EmptyScope(parent, owner))

CreateScope(parent, owner) ==
  scopes' = Append([scopes EXCEPT ![parent].children = Append(@, NewScope)],
                   EmptyScope(parent, owner))

-----------------------------------------------------------------------------
(* Analyzer *)

AddSymbolCall(s, symbol)   == [call |-> "addSymbol", scope |-> s, symbol |-> symbol]
RegisterCall(d)            == [call |-> "register", node |-> d]
CheckCall(d)               == [call |-> "check", node |-> d]
BindFunctionCall(d)        == [call |-> "bindFunction", node |-> d]
BindExpressionCall(s, n)   == [call |-> "bindExpression", scope |-> s, node |-> n]
BindBranchCall(s, n)       == [call |-> "bindBranch", scope |-> s, node |-> n]

ForEach(seq, Call(_)) == [k \in DOMAIN seq |-> Call(seq[k])]

(* Faulty: the nodes of the globals are bound after the function bodies. *)
AnalyzeChecksLast(p) ==
  <<AddSymbolCall(RootScope, Symbol("Int", "builtin", NoNode))>>
    \o ForEach(p.definitions, RegisterCall)
    \o ForEach(p.definitions, BindFunctionCall)
    \o ForEach(p.definitions, CheckCall)

(* analyze: builtins, globals, their nodes, then the function bodies. *)
Analyze(p) ==
  <<AddSymbolCall(RootScope, Symbol("Int", "builtin", NoNode))>>
    \o ForEach(p.definitions, RegisterCall)
    \o ForEach(p.definitions, CheckCall)
    \o ForEach(p.definitions, BindFunctionCall)

Init ==
  /\ program \in Programs
  /\ work = Analyze(program)
  /\ scopes = <<EmptyScope(NoScope, NoNode)>>
  /\ symbols = << >> /\ scopeByNode = << >> /\ resolved = << >>
  /\ diagnostics = << >>

Top  == Head(work)
Node == program.nodes[Top.node]

Running(call) == work # << >> /\ Top.call = call

(* The running call returns after making calls. *)
Then(calls) == work' = calls \o Tail(work) /\ UNCHANGED program

AddError(node, what) ==
  diagnostics' = Append(diagnostics, [node |-> node, what |-> what])

(* addLocalSymbol, for a name that scope s does not have yet. *)
Declare(s, symbol) ==
  /\ symbols' = Append(symbols, symbol)
  /\ scopes' = [scopes EXCEPT ![s].symbols = Put(@, symbol.name, Len(symbols) + 1)]
  /\ UNCHANGED <<scopeByNode, resolved, diagnostics>>

(***************************************************************************)
(* A repeated declaration.  Faulty: it takes the name over, it replaces    *)
(* the symbol in place, it is dropped without a diagnostic.                *)
(***************************************************************************)
RedeclareAsNew(s, symbol) == Declare(s, symbol)

RedeclareInPlace(s, symbol) ==
  /\ symbols' = [symbols EXCEPT ![scopes[s].symbols[symbol.name]] = symbol]
  /\ AddError(symbol.declaration, "redefinition")
  /\ UNCHANGED <<scopes, scopeByNode, resolved>>

RedeclareSilently(s, symbol) == UNCHANGED <<tree, diagnostics>>

Redeclare(s, symbol) ==
  AddError(symbol.declaration, "redefinition") /\ UNCHANGED tree

(* addSymbol: the first declaration of a name in a scope stays. *)
AddSymbol ==
  /\ Running("addSymbol")
  /\ IF Top.symbol.name \in DOMAIN scopes[Top.scope].symbols
     THEN Redeclare(Top.scope, Top.symbol)
     ELSE Declare(Top.scope, Top.symbol)
  /\ Then(<< >>)

(* One turn of the loop of registerGlobalDefinitions. *)
RegisterDefinition ==
  /\ Running("register")
  /\ LET AsGlobal(kind, n) ==
           AddSymbolCall(RootScope, Symbol(program.nodes[n].name, kind, n))
         GlobalConstructor(c) == AsGlobal("constructor", c)
     IN  IF Node.kind = "defn"
         THEN Then(<<AsGlobal("function", Top.node)>>)
         ELSE Then(<<AsGlobal("data", Top.node)>>
                     \o ForEach(Node.constructors, GlobalConstructor))
  /\ UNCHANGED <<tree, diagnostics>>

(* One turn of the loop of checkGlobalDefinitions. *)
CheckDefinition ==
  /\ Running("check")
  /\ LET bound == {Top.node} \cup
                  (IF Node.kind = "data"
                   THEN {Node.constructors[k] : k \in DOMAIN Node.constructors}
                   ELSE {})
     IN  scopeByNode' = [n \in DOMAIN scopeByNode \cup bound |->
                           IF n \in bound THEN RootScope ELSE scopeByNode[n]]
  /\ Then(<< >>)
  /\ UNCHANGED <<scopes, symbols, resolved, diagnostics>>

(* One turn of the loop of bindFunctionBodies; a data type is skipped. *)
BindFunction ==
  /\ Running("bindFunction")
  /\ IF Node.kind = "defn"
     THEN LET AsParameter(name) ==
                AddSymbolCall(NewScope, Symbol(name, "parameter", Top.node))
          IN  /\ CreateScope(RootScope, Top.node)
              /\ scopeByNode' = Put(scopeByNode, Top.node, NewScope)
              /\ Then(ForEach(Node.parameters, AsParameter)
                        \o <<BindExpressionCall(NewScope, Node.body)>>)
     ELSE Then(<< >>) /\ UNCHANGED <<scopes, scopeByNode>>
  /\ UNCHANGED <<symbols, resolved, diagnostics>>

(* Faulty: the left operand is bound in place of the right one. *)
LeftOperandTwice ==
  LET LeftFor(n) == BindExpressionCall(Top.scope, Children(program, Top.node)[1])
  IN  ForEach(Children(program, Top.node), LeftFor)

(* The calls for the operands of the node. *)
BindOperands == LET Bind(n) == BindExpressionCall(Top.scope, n)
                IN  ForEach(Children(program, Top.node), Bind)

(***************************************************************************)
(* bindExpression: the node belongs to the scope of the call, and so do    *)
(* the operands, the function, the argument and the scrutinee.             *)
(***************************************************************************)
BindLeafOrOperator ==
  /\ Running("bindExpression")
  /\ Node.kind \in {"int", "operator", "application"}
  /\ Then(BindOperands)
  /\ scopeByNode' = Put(scopeByNode, Top.node, Top.scope)
  /\ UNCHANGED <<scopes, symbols, resolved, diagnostics>>

(* The diagnostic that a use of name as a value deserves, or none. *)
VariableError(name, id) ==
  CASE id = NoSymbol -> "undefined"
    [] name \in UpperNames /\ symbols[id].kind # "constructor" -> "not a constructor"
    [] name \notin UpperNames /\ symbols[id].kind \notin ValueKinds -> "not a value"
    [] OTHER -> "none"

BindVariable ==
  /\ Running("bindExpression")
  /\ Node.kind = "variable"
  /\ LET id == GetResolvedSymbolId(Top.scope, Node.name)
         error == VariableError(Node.name, id)
     IN  IF error = "none"
         THEN resolved' = Put(resolved, Top.node, id) /\ UNCHANGED diagnostics
         ELSE AddError(Top.node, error) /\ UNCHANGED resolved
  /\ scopeByNode' = Put(scopeByNode, Top.node, Top.scope)
  /\ Then(<< >>)
  /\ UNCHANGED <<scopes, symbols>>

BindCaseExpression ==
  /\ Running("bindExpression")
  /\ Node.kind = "case"
  /\ LET Bind(b) == BindBranchCall(Top.scope, b)
     IN  Then(<<BindExpressionCall(Top.scope, Node.scrutinee)>>
                \o ForEach(Node.branches, Bind))
  /\ scopeByNode' = Put(scopeByNode, Top.node, Top.scope)
  /\ UNCHANGED <<scopes, symbols, resolved, diagnostics>>

(***************************************************************************)
(* bindConstructorPattern, before the arguments: the constructor is looked *)
(* up in the root scope only.  Faulty: what is found is not recorded.      *)
(***************************************************************************)
NameConstructorOnly(n) ==
  LET id == GetLocalSymbolId(RootScope, program.nodes[n].name)
  IN  /\ IF id # NoSymbol /\ symbols[id].kind = "constructor"
         THEN UNCHANGED diagnostics
         ELSE AddError(n, "undefined constructor")
      /\ UNCHANGED resolved

NameConstructor(n) ==
  LET id == GetLocalSymbolId(RootScope, program.nodes[n].name)
  IN  IF id # NoSymbol /\ symbols[id].kind = "constructor"
      THEN resolved' = Put(resolved, n, id) /\ UNCHANGED diagnostics
      ELSE AddError(n, "undefined constructor") /\ UNCHANGED resolved

(***************************************************************************)
(* A branch opens a scope of its own; bindPattern declares the names of    *)
(* the pattern in it, and the body is bound in it.                         *)
(***************************************************************************)
BindBranch ==
  /\ Running("bindBranch")
  /\ CreateScope(Top.scope, Top.node)
  /\ scopeByNode' = Put(Put(scopeByNode, Top.node, NewScope), Node.pattern, NewScope)
  /\ LET AsPatternVariable(name) ==
           AddSymbolCall(NewScope, Symbol(name, "pattern_variable", Node.pattern))
     IN  Then(ForEach(PatternNames(program, Node.pattern), AsPatternVariable)
                \o <<BindExpressionCall(NewScope, Node.body)>>)
  /\ IF program.nodes[Node.pattern].kind = "constructor_pattern"
     THEN NameConstructor(Node.pattern)
     ELSE UNCHANGED <<resolved, diagnostics>>
  /\ UNCHANGED symbols

Done == work = << >> /\ UNCHANGED vars

Next == \/ AddSymbol \/ RegisterDefinition \/ CheckDefinition \/ BindFunction
        \/ BindLeafOrOperator \/ BindVariable \/ BindCaseExpression \/ BindBranch
        \/ Done

Spec == Init /\ [][Next]_vars /\ WF_vars(Next)

-----------------------------------------------------------------------------
Finished == work = << >>
Ok       == diagnostics = << >>

SymbolKinds == ValueKinds \cup TypeKinds

(* The type invariant, with the ids that maps and calls may hold. *)
ScopeIds  == 1..Len(scopes)
SymbolIds == 1..Len(symbols)
Symbols   == [name : Names, kind : SymbolKinds,
              declaration : NodeIds(program) \cup {NoNode}]

Calls ==
  [call : {"addSymbol"}, scope : ScopeIds, symbol : Symbols]
    \cup [call : {"register", "check", "bindFunction"},
          node : OfKind(program, {"defn", "data"})]
    \cup [call : {"bindExpression"}, scope : ScopeIds, node : OfKind(program, Expressions)]
    \cup [call : {"bindBranch"}, scope : ScopeIds, node : OfKind(program, {"branch"})]

TypeOK ==
  /\ program \in Programs
  /\ work \in Seq(Calls)
  /\ \A s \in ScopeIds :
       /\ DOMAIN scopes[s].symbols \subseteq Names
       /\ \A name \in DOMAIN scopes[s].symbols : scopes[s].symbols[name] \in SymbolIds
  /\ symbols \in Seq(Symbols)
  /\ DOMAIN scopeByNode \subseteq NodeIds(program)
  /\ \A n \in DOMAIN scopeByNode : scopeByNode[n] \in ScopeIds
  /\ DOMAIN resolved \subseteq NodeIds(program)
  /\ \A n \in DOMAIN resolved : resolved[n] \in SymbolIds

(***************************************************************************)
(* The scopes are a tree rooted at RootScope: a parent is older than its   *)
(* children, which it lists, so the loop of getResolvedSymbolId ends.      *)
(***************************************************************************)
ScopesFormTree ==
  /\ scopes[RootScope].parent = NoScope
  /\ \A s \in ScopeIds \ {RootScope} : scopes[s].parent \in 1..(s - 1)
  /\ \A s, c \in ScopeIds :
       scopes[c].parent = s <=>
         \E k \in DOMAIN scopes[s].children : scopes[s].children[k] = c

(***************************************************************************)
(* Every symbol is declared in exactly one scope, under its own name: two  *)
(* declarations of one name are never one symbol, and none is lost.        *)
(***************************************************************************)
OneScopePerSymbol ==
  \A k \in SymbolIds :
    \E s \in ScopeIds :
      /\ symbols[k].name \in DOMAIN scopes[s].symbols
      /\ scopes[s].symbols[symbols[k].name] = k
      /\ \A t \in ScopeIds : \A name \in DOMAIN scopes[t].symbols :
           scopes[t].symbols[name] = k => t = s /\ name = symbols[k].name

(***************************************************************************)
(* The walk binds every node once: two pending calls never bind one node,  *)
(* none binds a node that is bound already, a node is bound after the node *)
(* above it, and what is resolved is bound.  A second visit would resolve  *)
(* a variable again, and could open a second scope for a branch.           *)
(***************************************************************************)
BindCalls  == {"bindFunction", "bindExpression", "bindBranch"}
BoundKinds == Expressions \cup Patterns \cup {"branch"}

Pending(n) == \E k \in DOMAIN work : work[k].call \in BindCalls /\ work[k].node = n
Met(n)     == n \in DOMAIN scopeByNode \/ Pending(n)

(* The calls for the nodes below u have been made. *)
Expanded(u) == IF program.nodes[u].kind = "defn" THEN ~Pending(u)
               ELSE u \in DOMAIN scopeByNode

NodesAreBoundOnce ==
  /\ \A j, k \in DOMAIN work :
       work[j].call \in BindCalls /\ work[k].call \in BindCalls
         /\ work[j].node = work[k].node => j = k
  /\ \A k \in DOMAIN work :
       work[k].call \in BindCalls \ {"bindFunction"} =>
         work[k].node \notin DOMAIN scopeByNode
  /\ \A n \in OfKind(program, BoundKinds) :
       Met(n) =>
         \A u \in NodeIds(program) : \A i \in DOMAIN Children(program, u) :
           Children(program, u)[i] = n => Expanded(u)
  /\ DOMAIN resolved \subseteq DOMAIN scopeByNode

(***************************************************************************)
(* A variable is resolved to its innermost enclosing declaration, the      *)
(* first one if a scope declares the name twice, and to none if that       *)
(* declaration is of the wrong sort.                                       *)
(***************************************************************************)
ResolvesLexically ==
  Finished =>
    \A n \in OfKind(program, {"variable"}) :
      LET name == program.nodes[n].name
          meaning == Meaning(program, n, name)
      IN  IF Usable(name, meaning)
          THEN /\ n \in DOMAIN resolved
               /\ symbols[resolved[n]] =
                    Symbol(name, meaning.kind, meaning.declaration)
          ELSE n \notin DOMAIN resolved

(* The analysis reports nothing exactly when the program is well scoped. *)
AcceptsTheWellScoped == Finished => (Ok <=> WellScoped(program))

(***************************************************************************)
(* Every node ends up in the scope of the function or branch around it; a  *)
(* function's own node moves from the global scope to its inner one.       *)
(***************************************************************************)
ScopesFollowTheTree ==
  Finished =>
    \A n \in NodeIds(program) :
      /\ n \in DOMAIN scopeByNode
      /\ scopes[scopeByNode[n]].owner = Encloser(program, n)

(***************************************************************************)
(* The lookups that type inference and code generation make in an accepted *)
(* program all succeed (prepareFunctionSignature, inferConstructorPattern, *)
(* inferVariablePattern return early when one does not, which would lose a *)
(* type without a diagnostic).                                             *)
(***************************************************************************)
LaterLookupsSucceed ==
  Finished /\ Ok =>
    /\ \A d \in OfKind(program, {"defn"}) :
         LET id == GetLocalSymbolId(RootScope, program.nodes[d].name)
         IN  id # NoSymbol /\ symbols[id] = Symbol(program.nodes[d].name, "function", d)
    /\ \A n \in OfKind(program, {"defn", "branch"}) :
         LET names == LocalNames(program, n) IN
         \A k \in DOMAIN names :
           LET id == GetLocalSymbolId(scopeByNode[n], names[k]) IN
           /\ id # NoSymbol
           /\ symbols[id].kind = Local(program, n).kind
           /\ symbols[id].declaration = Local(program, n).declaration
    /\ \A n \in OfKind(program, {"constructor_pattern"}) :
         n \in DOMAIN resolved /\ symbols[resolved[n]].kind = "constructor"

(***************************************************************************)
(* What has been declared or resolved stays as it is: a later declaration, *)
(* in this scope or another, never changes what an earlier use means.      *)
(***************************************************************************)
KeepsMeanings ==
  /\ \A k \in SymbolIds : k \in SymbolIds' /\ symbols'[k] = symbols[k]
  /\ \A s \in ScopeIds :
       /\ s \in ScopeIds' /\ scopes'[s].parent = scopes[s].parent
       /\ \A name \in DOMAIN scopes[s].symbols :
            /\ name \in DOMAIN scopes'[s].symbols
            /\ scopes'[s].symbols[name] = scopes[s].symbols[name]
  /\ \A n \in DOMAIN resolved : n \in DOMAIN resolved' /\ resolved'[n] = resolved[n]

DeclarationsAreFinal == [][KeepsMeanings]_vars
=============================================================================
