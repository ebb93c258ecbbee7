-------------------------- MODULE TypeAnalysisProofs --------------------------
(***************************************************************************)
(* Type inference, for every program: the analyzer uses its table only as  *)
(* TypeGraph says, every id it keeps is in the table, and a type is read   *)
(* only after it has been inferred.                                        *)
(***************************************************************************)
EXTENDS TypeAnalysis, UnificationProofs

(***************************************************************************)
(* What inference relies on in the scopes: they are records, and what they *)
(* have for a name is a number.                                            *)
(***************************************************************************)
ScopeRecord(x) ==
  /\ x = [parent |-> x.parent, owner |-> x.owner,
          symbols |-> x.symbols, children |-> x.children]
  /\ \A name \in DOMAIN x.symbols : x.symbols[name] \in Nat

ScopesInv ==
  /\ \E P : symbols \in Seq(P)
  /\ \E P : scopes \in Seq(P)
  /\ S!RootScope \in DOMAIN scopes
  /\ \A s \in DOMAIN scopes : ScopeRecord(scopes[s])

(* A function on 1..n is a sequence. *)
LEMMA FunctionIsSeq ==
  ASSUME NEW n \in Nat, NEW f, f = [i \in 1..n |-> f[i]]
  PROVE  (\E P : f \in Seq(P)) /\ Len(f) = n /\ DOMAIN f = 1..n
  <1> DEFINE P == {f[i] : i \in 1..n}
  <1>1. f \in [1..n -> P]
    OBVIOUS
  <1> HIDE DEF P
  <1>2. f \in Seq(P)
    BY <1>1
  <1> QED BY <1>1, <1>2

(* Appending to a sequence. *)
LEMMA AppendIsSeq ==
  ASSUME NEW q, \E P : q \in Seq(P), NEW x
  PROVE  /\ \E P : Append(q, x) \in Seq(P)
         /\ Len(q) \in Nat /\ Len(Append(q, x)) = Len(q) + 1
         /\ DOMAIN q = 1..Len(q) /\ DOMAIN Append(q, x) = 1..(Len(q) + 1)
         /\ Append(q, x)[Len(q) + 1] = x
         /\ \A k \in 1..Len(q) : Append(q, x)[k] = q[k]
  <1>1. PICK P : q \in Seq(P)
    OBVIOUS
  <1>2. q \in Seq(P \cup {x}) /\ x \in P \cup {x}
    BY <1>1
  <1> QED BY <1>2

(* A scope with another symbol, or with another child. *)
LEMMA ChangedScope ==
  ASSUME ScopesInv, NEW s, NEW x, ScopeRecord(scopes[s]) => ScopeRecord(x),
         NEW h, h = [scopes EXCEPT ![s] = x]
  PROVE  /\ \E P : h \in Seq(P)
         /\ DOMAIN h = DOMAIN scopes /\ Len(h) = Len(scopes)
         /\ \A t \in DOMAIN h : ScopeRecord(h[t])
  <1> DEFINE n == Len(scopes)
  <1>1. n \in Nat /\ DOMAIN scopes = 1..n
    BY DEF ScopesInv
  <1>2. h = [i \in 1..n |-> h[i]]
    <2> HIDE DEF n
    <2> QED BY <1>1
  <1>3. (\E P : h \in Seq(P)) /\ Len(h) = n /\ DOMAIN h = 1..n
    <2> HIDE DEF n
    <2> QED BY <1>1, <1>2, FunctionIsSeq
  <1>4. \A t \in DOMAIN h : ScopeRecord(h[t])
    <2> HIDE DEF n
    <2> QED BY <1>1, <1>3 DEF ScopesInv
  <1> QED BY <1>1, <1>3, <1>4

LEMMA DeclareKeepsScopes ==
  ASSUME ScopesInv, NEW s, NEW symbol, S!Declare(s, symbol)
  PROVE  ScopesInv'
  <1>1. /\ symbols' = Append(symbols, symbol)
        /\ scopes' = [scopes EXCEPT ![s].symbols =
                        S!Put(@, symbol.name, Len(symbols) + 1)]
    BY DEF S!Declare
  <1>2. (\E P : symbols' \in Seq(P)) /\ Len(symbols) \in Nat
    BY <1>1, AppendIsSeq DEF ScopesInv
  <1> DEFINE m == S!Put(scopes[s].symbols, symbol.name, Len(symbols) + 1)
             x == [scopes[s] EXCEPT !.symbols = m]
  <1>3. scopes' = [scopes EXCEPT ![s] = x]
    BY <1>1
  <1>4. ScopeRecord(scopes[s]) => ScopeRecord(x)
    <2> SUFFICES ASSUME ScopeRecord(scopes[s]) PROVE ScopeRecord(x)
      OBVIOUS
    <2>1. \A name \in DOMAIN m : m[name] \in Nat
      BY <1>2 DEF ScopeRecord, S!Put
    <2> HIDE DEF m
    <2>2. x = [parent |-> scopes[s].parent, owner |-> scopes[s].owner,
               symbols |-> m, children |-> scopes[s].children]
      BY DEF ScopeRecord
    <2> HIDE DEF x
    <2> QED BY <2>1, <2>2 DEF ScopeRecord
  <1> HIDE DEF x
  <1>5. /\ \E P : scopes' \in Seq(P)
        /\ DOMAIN scopes' = DOMAIN scopes
        /\ \A t \in DOMAIN scopes' : ScopeRecord(scopes'[t])
    BY <1>3, <1>4, ChangedScope
  <1> QED BY <1>2, <1>5 DEF ScopesInv, S!RootScope, ScopeRecord

LEMMA CreateScopeKeepsScopes ==
  ASSUME ScopesInv, NEW parent, NEW owner, S!CreateScope(parent, owner),
         UNCHANGED symbols
  PROVE  ScopesInv'
  <1> DEFINE cs == Append(scopes[parent].children, S!NewScope)
             x == [scopes[parent] EXCEPT !.children = cs]
             h == [scopes EXCEPT ![parent] = x]
             new == S!EmptyScope(parent, owner)
  <1>1. scopes' = Append(h, new)
    BY DEF S!CreateScope
  <1>2. ScopeRecord(scopes[parent]) => ScopeRecord(x)
    <2> SUFFICES ASSUME ScopeRecord(scopes[parent]) PROVE ScopeRecord(x)
      OBVIOUS
    <2> HIDE DEF cs
    <2>1. x = [parent |-> scopes[parent].parent, owner |-> scopes[parent].owner,
               symbols |-> scopes[parent].symbols, children |-> cs]
      BY DEF ScopeRecord
    <2> HIDE DEF x
    <2> QED BY <2>1 DEF ScopeRecord
  <1>3. ScopeRecord(new)
    BY DEF ScopeRecord, S!EmptyScope
  <1> HIDE DEF x, new
  <1>4. /\ \E P : h \in Seq(P)
        /\ DOMAIN h = DOMAIN scopes
        /\ \A t \in DOMAIN h : ScopeRecord(h[t])
    BY <1>2, ChangedScope
  <1> HIDE DEF h, cs
  <1>a. \E P : h \in Seq(P)
    BY <1>4
  <1>5. /\ \E P : scopes' \in Seq(P)
        /\ DOMAIN scopes' = 1..(Len(h) + 1) /\ Len(h) \in Nat
        /\ DOMAIN h = 1..Len(h)
        /\ scopes'[Len(h) + 1] = new
        /\ \A t \in 1..Len(h) : scopes'[t] = h[t]
    <2>1. /\ \E P : Append(h, new) \in Seq(P)
          /\ Len(h) \in Nat /\ DOMAIN h = 1..Len(h)
          /\ DOMAIN Append(h, new) = 1..(Len(h) + 1)
          /\ Append(h, new)[Len(h) + 1] = new
          /\ \A k \in 1..Len(h) : Append(h, new)[k] = h[k]
      <3> DEFINE q == Append(h, new)
      <3>1. \E P : q \in Seq(P)
        BY <1>a, AppendIsSeq
      <3>2. Len(h) \in Nat /\ DOMAIN h = 1..Len(h)
        BY <1>a, AppendIsSeq
      <3>3. DOMAIN q = 1..(Len(h) + 1)
        BY <1>a, AppendIsSeq
      <3>4. q[Len(h) + 1] = new
        BY <1>a, AppendIsSeq
      <3>5. \A k \in 1..Len(h) : q[k] = h[k]
        BY <1>a, AppendIsSeq
      <3> QED BY <3>1, <3>2, <3>3, <3>4, <3>5
    <2> QED BY <1>1, <2>1, Zenon
  <1>6. \A t \in DOMAIN scopes' : ScopeRecord(scopes'[t])
    <2> TAKE t \in DOMAIN scopes'
    <2>1. t \in 1..Len(h) \/ t = Len(h) + 1
      BY <1>5
    <2> QED BY <1>3, <1>4, <1>5, <2>1
  <1>7. S!RootScope \in DOMAIN scopes'
    BY <1>4, <1>5 DEF ScopesInv, S!RootScope
  <1> QED BY <1>5, <1>6, <1>7 DEF ScopesInv, S!RootScope, ScopeRecord

(* Name resolution keeps to it. *)
LEMMA ScopingStep ==
  ASSUME ScopesInv, S!Next, scoping # << >>
  PROVE  ScopesInv' /\ program' = program
  <1>1. ASSUME UNCHANGED <<scopes, symbols>> PROVE ScopesInv'
    BY <1>1 DEF ScopesInv, ScopeRecord, S!RootScope
  <1>2. CASE S!AddSymbol
    <2>1. program' = program
      BY <1>2 DEF S!AddSymbol, S!Then
    <2>2. \/ S!Redeclare(S!Top.scope, S!Top.symbol)
          \/ S!Declare(S!Top.scope, S!Top.symbol)
      BY <1>2 DEF S!AddSymbol
    <2> QED BY <1>1, <2>1, <2>2, DeclareKeepsScopes DEF S!Redeclare, S!tree
  <1>3. CASE S!RegisterDefinition \/ S!CheckDefinition \/ S!BindLeafOrOperator
               \/ S!BindVariable \/ S!BindCaseExpression
    <2>1. program' = program
      BY <1>3 DEF S!RegisterDefinition, S!CheckDefinition, S!BindLeafOrOperator,
                  S!BindVariable, S!BindCaseExpression, S!Then
    <2>2. UNCHANGED <<scopes, symbols>>
      BY <1>3 DEF S!RegisterDefinition, S!CheckDefinition, S!BindLeafOrOperator,
                  S!BindVariable, S!BindCaseExpression, S!tree
    <2> QED BY <1>1, <2>1, <2>2
  <1>4. CASE S!BindFunction
    <2>1. program' = program
      BY <1>4 DEF S!BindFunction, S!Then
    <2>2. symbols' = symbols /\ (S!CreateScope(S!RootScope, S!Top.node) \/ scopes' = scopes)
      BY <1>4 DEF S!BindFunction
    <2> QED BY <1>1, <2>1, <2>2, CreateScopeKeepsScopes
  <1>5. CASE S!BindBranch
    <2>1. program' = program
      BY <1>5 DEF S!BindBranch, S!Then
    <2>2. symbols' = symbols /\ S!CreateScope(S!Top.scope, S!Top.node)
      BY <1>5 DEF S!BindBranch
    <2> QED BY <2>1, <2>2, CreateScopeKeepsScopes
  <1> QED BY <1>2, <1>3, <1>4, <1>5 DEF S!Next, S!Done
-----------------------------------------------------------------------------
(* What the grammar says of the nodes that inference visits. *)
LEMMA ProgramNodes ==
  ASSUME NEW p \in Programs, NEW n \in NodeIds(p)
  PROVE  /\ IsNode(p, n) /\ NodeIds(p) = 1..Len(p.nodes)
         /\ \A K : /\ Below(p, n, K) \subseteq OfKind(p, K)
                   /\ Above(p, n, K) \subseteq OfKind(p, K)
  <1>1. IsProgram(p)
    BY ProgramsAssumption
  <1> QED BY <1>1 DEF IsProgram, NodeIds, Below, Above, OfKind

LEMMA DefinitionParts ==
  ASSUME NEW p \in Programs, NEW n \in OfKind(p, {"defn"})
  PROVE  /\ p.nodes[n].parameters \in Seq(LowerNames)
         /\ p.nodes[n].body \in OfKind(p, Expressions)
  <1>1. IsNode(p, n) /\ p.nodes[n].kind = "defn"
    BY ProgramNodes DEF OfKind
  <1>2. /\ p.nodes[n].parameters \in Seq(LowerNames)
        /\ p.nodes[n].body \in Below(p, n, Expressions)
    BY <1>1 DEF IsNode
  <1> QED BY <1>2, ProgramNodes DEF OfKind

LEMMA DataParts ==
  ASSUME NEW p \in Programs, NEW n \in OfKind(p, {"data"})
  PROVE  p.nodes[n].constructors \in Seq(OfKind(p, {"constructor"}))
  <1>1. IsNode(p, n) /\ p.nodes[n].kind = "data" /\ n \in NodeIds(p)
    BY ProgramNodes DEF OfKind
  <1>2. p.nodes[n].constructors \in Seq(Below(p, n, {"constructor"}))
    BY <1>1 DEF IsNode
  <1>3. Below(p, n, {"constructor"}) \subseteq OfKind(p, {"constructor"})
    BY <1>1, ProgramNodes
  <1> QED BY <1>2, <1>3

LEMMA ConstructorParts ==
  ASSUME NEW p \in Programs, NEW n \in OfKind(p, {"constructor"})
  PROVE  p.nodes[n].fields \in Seq(UpperNames)
  <1>1. IsNode(p, n) /\ p.nodes[n].kind = "constructor"
    BY ProgramNodes DEF OfKind
  <1> QED BY <1>1 DEF IsNode

LEMMA OperatorParts ==
  ASSUME NEW p \in Programs, NEW n \in OfKind(p, {"operator"})
  PROVE  /\ p.nodes[n].left \in OfKind(p, Expressions)
         /\ p.nodes[n].right \in OfKind(p, Expressions)
  <1>1. IsNode(p, n) /\ p.nodes[n].kind = "operator" /\ n \in NodeIds(p)
    BY ProgramNodes DEF OfKind
  <1>2. /\ p.nodes[n].left \in Below(p, n, Expressions)
        /\ p.nodes[n].right \in Above(p, n, Expressions)
    BY <1>1 DEF IsNode
  <1> QED BY <1>1, <1>2, ProgramNodes

LEMMA ApplicationParts ==
  ASSUME NEW p \in Programs, NEW n \in OfKind(p, {"application"})
  PROVE  /\ p.nodes[n].function \in OfKind(p, Expressions)
         /\ p.nodes[n].argument \in OfKind(p, Expressions)
  <1>1. IsNode(p, n) /\ p.nodes[n].kind = "application" /\ n \in NodeIds(p)
    BY ProgramNodes DEF OfKind
  <1>2. {p.nodes[n].function, p.nodes[n].argument} \subseteq Below(p, n, Expressions)
    BY <1>1 DEF IsNode
  <1> QED BY <1>1, <1>2, ProgramNodes

LEMMA CaseParts ==
  ASSUME NEW p \in Programs, NEW n \in OfKind(p, {"case"})
  PROVE  /\ p.nodes[n].scrutinee \in OfKind(p, Expressions)
         /\ p.nodes[n].branches \in Seq(OfKind(p, {"branch"}))
  <1>1. IsNode(p, n) /\ p.nodes[n].kind = "case" /\ n \in NodeIds(p)
    BY ProgramNodes DEF OfKind
  <1>2. /\ p.nodes[n].scrutinee \in Below(p, n, Expressions)
        /\ p.nodes[n].branches \in Seq(Below(p, n, {"branch"}))
    BY <1>1 DEF IsNode
  <1>3. /\ Below(p, n, Expressions) \subseteq OfKind(p, Expressions)
        /\ Below(p, n, {"branch"}) \subseteq OfKind(p, {"branch"})
    BY <1>1, ProgramNodes
  <1> QED BY <1>2, <1>3

LEMMA BranchParts ==
  ASSUME NEW p \in Programs, NEW n \in OfKind(p, {"branch"})
  PROVE  /\ p.nodes[n].pattern \in OfKind(p, Patterns)
         /\ p.nodes[n].body \in OfKind(p, Expressions)
  <1>1. IsNode(p, n) /\ p.nodes[n].kind = "branch" /\ n \in NodeIds(p)
    BY ProgramNodes DEF OfKind
  <1>2. /\ p.nodes[n].pattern \in Below(p, n, Patterns)
        /\ p.nodes[n].body \in Below(p, n, Expressions)
    BY <1>1 DEF IsNode
  <1> QED BY <1>1, <1>2, ProgramNodes

LEMMA PatternParts ==
  ASSUME NEW p \in Programs, NEW n \in OfKind(p, {"constructor_pattern"})
  PROVE  p.nodes[n].arguments \in Seq(LowerNames)
  <1>1. IsNode(p, n) /\ p.nodes[n].kind = "constructor_pattern"
    BY ProgramNodes DEF OfKind
  <1> QED BY <1>1 DEF IsNode

-----------------------------------------------------------------------------
(***************************************************************************)
(* The calls that may be pending, with the ids they carry.  The rest of a  *)
(* constructor pattern is there only if its constructor has a signature.   *)
(***************************************************************************)
CallSet(p, ids, matched) ==
  [call : {"analyze", "builtins", "finalize", "restrictions"}, node : {NoNode}]
    \cup [call : {"data"}, node : OfKind(p, {"data"})]
    \cup [call : {"constructor"}, node : OfKind(p, {"constructor"}), data : Nat]
    \cup [call : {"signature", "body"}, node : OfKind(p, {"defn"})]
    \cup [call : {"infer"}, node : OfKind(p, Expressions)]
    \cup [call : {"unify"}, node : OfKind(p, Expressions), expected : ids]
    \cup [call : {"branch"}, node : OfKind(p, {"branch"}), expected : ids, result : ids]
    \cup [call : {"operate", "result"}, node : OfKind(p, {"operator"})]
    \cup [call : {"apply"}, node : OfKind(p, {"application"})]
    \cup [call : {"match"}, node : OfKind(p, {"case"})]
    \cup [call : {"arguments"}, node : matched]

Matched == {n \in OfKind(program, {"constructor_pattern"}) :
              n \in DOMAIN resolved /\ resolved[n] \in DOMAIN constructors}

(* Reads and TypedBefore, of a program and calls that are given. *)
NodesRead(p, c) ==
  LET x == p.nodes[c.node] IN
  CASE c.call = "unify"   -> {c.node}
    [] c.call = "operate" -> {x.left, x.right}
    [] c.call = "apply"   -> {x.function, x.argument}
    [] c.call = "match"   -> {x.scrutinee}
    [] OTHER              -> {}

Produces(c, n) == c.call \in Producers /\ c.node = n

Ordered(p, calls, known) ==
  \A k \in DOMAIN calls : \A n \in NodesRead(p, calls[k]) :
    n \in known \/ \E j \in 1..(k - 1) : Produces(calls[j], n)

(* The invariant. *)
KnowledgeInv ==
  /\ \A n \in DOMAIN typeOf : typeOf[n] \in Ids(types)
  /\ \A s \in DOMAIN symbolTypes : symbolTypes[s] \in Ids(types)
  /\ \A c \in DOMAIN constructors : /\ constructors[c].fields \in Seq(Ids(types))
                                    /\ constructors[c].data \in Nat
  /\ \A f \in DOMAIN functions : /\ functions[f].parameters \in Seq(Ids(types))
                                 /\ functions[f].result \in Ids(types)

WorkInv ==
  /\ work \in Seq(CallSet(program, Ids(types), Matched))
  /\ Ordered(program, work, DOMAIN typeOf)
  /\ scoping # << >> => work = <<Call("analyze", NoNode)>>

Inv == /\ program \in Programs
       /\ ScopesInv
       /\ UnificationInv
       /\ KnowledgeInv
       /\ WorkInv

(* With more ids and more signatures there are more calls. *)
LEMMA CallSetGrows ==
  ASSUME NEW p, NEW ids, NEW more, ids \subseteq more,
         NEW M, NEW N, M \subseteq N
  PROVE  CallSet(p, ids, M) \subseteq CallSet(p, more, N)
  BY DEF CallSet

(***************************************************************************)
(* A call that returns after making calls leaves them in order, if it has  *)
(* given its node a type or one of the new calls does.                     *)
(***************************************************************************)
LEMMA ThenKeepsOrder ==
  ASSUME NEW p, NEW C, NEW old \in Seq(C), old # << >>, NEW known, NEW more,
         known \subseteq more, NEW D, NEW calls \in Seq(D),
         Ordered(p, old, known), Ordered(p, calls, more),
         \A n : Produces(Head(old), n) =>
           n \in more \/ \E j \in DOMAIN calls : Produces(calls[j], n)
  PROVE  Ordered(p, calls \o Tail(old), more)
  <1> DEFINE new == calls \o Tail(old)
             m == Len(calls)
  <1>1. /\ m \in Nat /\ DOMAIN calls = 1..m /\ Len(old) \in Nat \ {0}
        /\ DOMAIN old = 1..Len(old) /\ Head(old) = old[1]
        /\ DOMAIN new = 1..(m + Len(old) - 1)
        /\ \A k \in 1..m : new[k] = calls[k]
        /\ \A k \in 1..(Len(old) - 1) : new[m + k] = old[k + 1]
    <2>1. Tail(old) \in Seq(C) /\ Len(Tail(old)) = Len(old) - 1
          /\ \A k \in 1..(Len(old) - 1) : Tail(old)[k] = old[k + 1]
      OBVIOUS
    <2> QED BY <2>1
  <1> HIDE DEF new, m
  <1>2. SUFFICES ASSUME NEW k \in DOMAIN new, NEW n \in NodesRead(p, new[k])
                 PROVE  n \in more \/ \E j \in 1..(k - 1) : Produces(new[j], n)
    BY DEF Ordered, new
  <1>3. CASE k \in 1..m
    <2>1. n \in more \/ \E j \in 1..(k - 1) : Produces(calls[j], n)
      BY <1>1, <1>2, <1>3 DEF Ordered
    <2>2. \A j \in 1..(k - 1) : new[j] = calls[j]
      BY <1>1, <1>3
    <2> QED BY <2>1, <2>2
  <1>4. CASE k \notin 1..m
    <2> DEFINE i == k - m
    <2>1. i \in 1..(Len(old) - 1) /\ i + 1 \in DOMAIN old /\ k = m + i
      BY <1>1, <1>4
    <2> HIDE DEF i
    <2>2. new[k] = old[i + 1]
      BY <1>1, <2>1
    <2>3. n \in known \/ \E j \in 1..i : Produces(old[j], n)
      BY <1>2, <2>1, <2>2 DEF Ordered
    <2>4. CASE n \in known
      BY <2>4
    <2>5. CASE Produces(old[1], n)
      <3>1. n \in more \/ \E j \in 1..m : Produces(calls[j], n)
        BY <1>1, <2>5
      <3>2. \A j \in 1..m : j \in 1..(k - 1) /\ new[j] = calls[j]
        BY <1>1, <2>1
      <3> QED BY <3>1, <3>2
    <2>6. ASSUME NEW j \in 2..i, Produces(old[j], n)
          PROVE  \E l \in 1..(k - 1) : Produces(new[l], n)
      <3>1. j - 1 \in 1..(Len(old) - 1) /\ (j - 1) + 1 = j
        BY <2>1
      <3>2. new[m + (j - 1)] = old[j]
        BY <1>1, <3>1
      <3>3. m + (j - 1) \in 1..(k - 1)
        BY <1>1, <2>1
      <3> QED BY <2>6, <3>2, <3>3
    <2>7. \A j \in 1..i : j = 1 \/ j \in 2..i
      BY <2>1
    <2> QED BY <2>3, <2>4, <2>5, <2>6, <2>7
  <1> QED BY <1>3, <1>4

(* The calls the top one may be. *)
LEMMA TopCall ==
  ASSUME Inv, NEW call, Running(call)
  PROVE  /\ Top \in CallSet(program, Ids(types), Matched) /\ Top.call = call
         /\ \A n \in NodesRead(program, Top) : n \in DOMAIN typeOf
         /\ todo = << >>
  <1>1. /\ work \in Seq(CallSet(program, Ids(types), Matched)) /\ work # << >>
        /\ Ordered(program, work, DOMAIN typeOf)
        /\ Top = Head(work) /\ Top.call = call /\ status # "running"
    BY DEF Inv, WorkInv, Running, Top
  <1> DEFINE C == CallSet(program, Ids(types), Matched)
  <1> HIDE DEF C
  <1>2. Top \in C /\ Top = work[1] /\ 1 \in DOMAIN work
    BY <1>1 DEF C
  <1>3. ~\E j \in 1..(1 - 1) : TRUE
    OBVIOUS
  <1>4. \A n \in NodesRead(program, Top) : n \in DOMAIN typeOf
    BY <1>1, <1>2, <1>3 DEF Ordered
  <1> QED BY <1>1, <1>2, <1>4 DEF C, Inv, UnificationInv, CallsOK
-----------------------------------------------------------------------------
(* An entry that makeType may add as entry i: free, or of older types. *)
Fresh(e, i) ==
  /\ e.kind = "var" => e.binding = NoType
  /\ e.kind = "function" => e.parameter \in 1..(i - 1) /\ e.result \in 1..(i - 1)

NewEntries(n, new) == /\ new \in Seq(Entry)
                      /\ \A k \in 1..Len(new) : Fresh(new[k], n + k)

(* Adding such entries, if there are any, extends the table. *)
LEMMA AddEntries ==
  ASSUME WellFormed(types), NEW new, NewEntries(Len(types), new), types' = types \o new
  PROVE  /\ [GraphNext]_types
         /\ Len(types) \in Nat /\ Ids(types) = 1..Len(types)
         /\ Ids(types') = 1..(Len(types) + Len(new)) /\ Ids(types) \subseteq Ids(types')
  <1> DEFINE n == Len(types)
             h == types \o new
  <1>1. types \in Seq(Entry) /\ n \in Nat /\ Len(new) \in Nat /\ new \in Seq(Entry)
    BY DEF WellFormed, NewEntries
  <1>2. /\ h \in Seq(Entry) /\ Len(h) = n + Len(new)
        /\ \A i \in 1..n : h[i] = types[i]
        /\ \A k \in 1..Len(new) : h[n + k] = new[k]
    BY <1>1
  <1>3. new = << >> => h = types
    BY <1>1
  <1> HIDE DEF h, n
  <1>4. ASSUME NEW i \in Ids(h) \ Ids(types) PROVE FreshEntry(h, i)
    <2>1. i - n \in 1..Len(new) /\ n + (i - n) = i
      BY <1>1, <1>2 DEF Ids, n
    <2>2. h[i] = new[i - n] /\ Fresh(new[i - n], i)
      BY <1>2, <2>1 DEF n, NewEntries
    <2> QED BY <2>2 DEF FreshEntry, Fresh, Bound, IsVar, IsFunction
  <1>5. types' = h
    BY DEF h
  <1>6. new # << >> => Grow
    <2>1. new # << >> => Len(new) # 0
      BY <1>1
    <2> QED BY <1>1, <1>2, <1>4, <1>5, <2>1 DEF Grow, Extends, Ids, n
  <1> QED BY <1>1, <1>2, <1>3, <1>5, <1>6 DEF Ids, n, GraphNext

LEMMA AddEntry ==
  ASSUME WellFormed(types), NEW e \in Entry, types' = Append(types, e),
         Fresh(e, Len(types) + 1)
  PROVE  /\ [GraphNext]_types
         /\ Len(types) \in Nat /\ Ids(types) = 1..Len(types)
         /\ Ids(types') = 1..(Len(types) + 1) /\ Ids(types) \subseteq Ids(types')
  <1>1. <<e>> \in Seq(Entry) /\ Len(<<e>>) = 1 /\ <<e>>[1] = e
    OBVIOUS
  <1>2. types' = types \o <<e>>
    BY DEF WellFormed
  <1>3. NewEntries(Len(types), <<e>>)
    BY <1>1 DEF NewEntries
  <1> QED BY <1>1, <1>2, <1>3, AddEntries

(* Sequences of entries, and joining them, as facts to match and not to take apart. *)
Entries(s) == s \in Seq(Entry)
JoinAgain(a, b, c) == a \o b \o c = a \o (b \o c)
JoinAll(a, b, c, d) == a \o b \o c \o d = a \o (b \o c \o d)

(* Joining sequences of entries is associative. *)
LEMMA JoinThree ==
  ASSUME NEW a, NEW b, NEW c, Entries(a), Entries(b), Entries(c)
  PROVE  JoinAgain(a, b, c)
  <1>1. a \in Seq(Entry) /\ b \in Seq(Entry) /\ c \in Seq(Entry)
    BY DEF Entries
  <1> QED BY <1>1, SMTT(30) DEF JoinAgain

LEMMA JoinFour ==
  ASSUME NEW a, NEW b, NEW c, NEW d, Entries(a), Entries(b), Entries(c), Entries(d)
  PROVE  JoinAll(a, b, c, d)
  <1>1. a \in Seq(Entry) /\ b \in Seq(Entry) /\ c \in Seq(Entry) /\ d \in Seq(Entry)
    BY DEF Entries
  <1> QED BY <1>1, SMTT(30) DEF JoinAll

(* Entries after entries. *)
LEMMA MoreEntries ==
  ASSUME NEW n \in Nat, NEW a, NEW b, NewEntries(n, a), NewEntries(n + Len(a), b)
  PROVE  NewEntries(n, a \o b) /\ Len(a \o b) = Len(a) + Len(b)
  <1> DEFINE h == a \o b
  <1>1. a \in Seq(Entry) /\ b \in Seq(Entry) /\ Len(a) \in Nat /\ Len(b) \in Nat
    BY DEF NewEntries
  <1>2. /\ h \in Seq(Entry) /\ Len(h) = Len(a) + Len(b)
        /\ \A k \in 1..Len(a) : h[k] = a[k]
        /\ \A k \in 1..Len(b) : h[Len(a) + k] = b[k]
    BY <1>1
  <1> HIDE DEF h
  <1>3. ASSUME NEW k \in 1..Len(h) PROVE Fresh(h[k], n + k)
    <2>1. CASE k \in 1..Len(a)
      BY <1>2, <2>1 DEF NewEntries
    <2>2. CASE k \notin 1..Len(a)
      <3>1. k - Len(a) \in 1..Len(b) /\ Len(a) + (k - Len(a)) = k
        BY <1>1, <1>2, <2>2
      <3>2. (n + Len(a)) + (k - Len(a)) = n + k
        BY <1>1, <3>1
      <3>3. h[k] = b[k - Len(a)]
        BY <1>2, <3>1
      <3>4. Fresh(b[k - Len(a)], (n + Len(a)) + (k - Len(a)))
        BY <3>1 DEF NewEntries
      <3> QED BY <3>2, <3>3, <3>4
    <2> QED BY <2>1, <2>2
  <1>4. NewEntries(n, h)
    BY <1>2, <1>3 DEF NewEntries
  <1> QED BY <1>2, <1>4 DEF h

(* makeVariable, a number of times. *)
LEMMA NewVariables ==
  ASSUME NEW n \in Nat, NEW k \in Nat
  PROVE  NewEntries(n, Variables(k)) /\ Len(Variables(k)) = k
  <1> DEFINE v == VarEntry(NoType)
  <1>1. v \in Entry /\ \A i : Fresh(v, i)
    BY DEF VarEntry, Entry, Fresh, NoType
  <1>2. Variables(k) = [j \in 1..k |-> v]
    BY DEF Variables
  <1> HIDE DEF v
  <1>3. Variables(k) \in Seq(Entry) /\ Len(Variables(k)) = k
    BY <1>1, <1>2
  <1> QED BY <1>1, <1>2, <1>3 DEF NewEntries

(* makeFunction returns a type it has made, or the result if it made none. *)
LEMMA NewArrows ==
  ASSUME NEW n \in Nat, NEW ps \in Seq(1..n), NEW r \in 1..n
  PROVE  /\ NewEntries(n, Arrows(n, ps, r))
         /\ Len(Arrows(n, ps, r)) = Len(ps)
         /\ ArrowsId(n, ps, r) \in 1..(n + Len(ps))
  <1> DEFINE m == Len(ps)
             h == Arrows(n, ps, r)
             e(j) == FunctionEntry(ps[m + 1 - j], IF j = 1 THEN r ELSE n + j - 1)
  <1>1. m \in Nat /\ h = [j \in 1..m |-> e(j)]
    BY DEF Arrows
  <1>2. ASSUME NEW j \in 1..m PROVE e(j) \in Entry /\ Fresh(e(j), n + j)
    <2>1. m + 1 - j \in 1..m
      BY <1>1
    <2>2. ps[m + 1 - j] \in 1..n
      BY <2>1
    <2> DEFINE q == IF j = 1 THEN r ELSE n + j - 1
    <2>3. q \in 1..(n + j - 1)
      BY <1>1
    <2>4. ps[m + 1 - j] \in 1..(n + j - 1)
      BY <1>1, <2>2
    <2> HIDE DEF q, m
    <2>5. e(j) = [kind |-> "function", parameter |-> ps[m + 1 - j], result |-> q]
      BY DEF q, FunctionEntry
    <2> HIDE DEF e
    <2> QED BY <1>1, <2>3, <2>4, <2>5 DEF Entry, Fresh
  <1> HIDE DEF e, h, m
  <1>3. h \in Seq(Entry) /\ Len(h) = m
    BY <1>1, <1>2
  <1>4. NewEntries(n, h)
    BY <1>1, <1>2, <1>3 DEF NewEntries
  <1>5. ArrowsId(n, ps, r) \in 1..(n + m)
    <2>1. ps # << >> => m # 0
      BY DEF m
    <2> QED BY <1>1, <2>1 DEF ArrowsId, m
  <1> QED BY <1>3, <1>4, <1>5 DEF h, m

(* The entries that refer to no other type. *)
LEMMA LeafEntries ==
  ASSUME NEW i
  PROVE  /\ IntEntry \in Entry /\ Fresh(IntEntry, i)
         /\ VarEntry(NoType) \in Entry /\ Fresh(VarEntry(NoType), i)
         /\ \A d \in Nat : DataEntry(d) \in Entry /\ Fresh(DataEntry(d), i)
  BY DEF IntEntry, VarEntry, DataEntry, Entry, Fresh, NoType

(* What the analyzer knows stays true as the table grows. *)
LEMMA KnowledgeKept ==
  ASSUME KnowledgeInv, Ids(types) \subseteq Ids(types')
  PROVE  /\ \A n \in DOMAIN typeOf : typeOf[n] \in Ids(types')
         /\ \A s \in DOMAIN symbolTypes : symbolTypes[s] \in Ids(types')
         /\ \A c \in DOMAIN constructors : /\ constructors[c].fields \in Seq(Ids(types'))
                                           /\ constructors[c].data \in Nat
         /\ \A f \in DOMAIN functions : /\ functions[f].parameters \in Seq(Ids(types'))
                                        /\ functions[f].result \in Ids(types')
  <1>1. Seq(Ids(types)) \subseteq Seq(Ids(types'))
    OBVIOUS
  <1> QED BY <1>1 DEF KnowledgeInv

(* How a step of the analyzer uses unification. *)
UsesUnify == Proceed \/ \E a, e \in Ids(types') : CallUnify(a, e)

(***************************************************************************)
(* A step of the analyzer keeps the invariant if it uses the table as it   *)
(* may, keeps what it knows in the table, and leaves calls that are in     *)
(* order.                                                                  *)
(***************************************************************************)
LEMMA StepKeeps ==
  ASSUME Inv, NEW call, Running(call),
         NEW calls \in Seq(CallSet(program, Ids(types'), Matched')),
         work' = calls \o Tail(work),
         [GraphNext]_types, UsesUnify, diagnosed' \in BOOLEAN, KnowledgeInv',
         DOMAIN typeOf \subseteq DOMAIN typeOf',
         DOMAIN constructors \subseteq DOMAIN constructors',
         Ordered(program, calls, DOMAIN typeOf'),
         \A n : Produces(Top, n) =>
           n \in DOMAIN typeOf' \/ \E j \in DOMAIN calls : Produces(calls[j], n)
  PROVE  Inv'
  <1>1. /\ UNCHANGED <<program, scoping, scopes, symbols, scopeByNode, resolved, scopeErrors>>
        /\ work # << >> /\ scoping = << >> /\ Top = Head(work)
    BY DEF Running, analysis, Top
  <1>2. WellFormed(types') /\ Ids(types) \subseteq Ids(types')
    BY GraphStep DEF Inv, UnificationInv
  <1>a. CallsOK'
    <2>1. UnificationInv
      BY DEF Inv
    <2>2. CASE Proceed
      BY <2>1, <2>2, ProceedKeepsCalls
    <2>3. ASSUME NEW a \in Ids(types'), NEW e \in Ids(types'), CallUnify(a, e)
          PROVE  CallsOK'
      BY <2>1, <2>3, CallUnifyKeepsCalls
    <2> QED BY <2>2, <2>3 DEF UsesUnify
  <1>3. ScopesInv'
    BY <1>1 DEF Inv, ScopesInv, ScopeRecord, S!RootScope
  <1>4. Matched \subseteq Matched'
    BY <1>1 DEF Matched
  <1> DEFINE C == CallSet(program, Ids(types), Matched)
             D == CallSet(program, Ids(types'), Matched')
  <1>5. C \subseteq D /\ work \in Seq(C)
    BY <1>2, <1>4, CallSetGrows DEF Inv, WorkInv
  <1>6. CallSet(program, Ids(types), Matched)' = D
    BY <1>1
  <1> HIDE DEF C, D
  <1>7. calls \in Seq(D)
    BY DEF D
  <1>8. Tail(work) \in Seq(D)
    <2>1. Tail(work) \in Seq(C)
      BY <1>1, <1>5
    <2> QED BY <1>5, <2>1
  <1>9. work' \in Seq(D)
    BY <1>7, <1>8
  <1>10. Ordered(program, calls \o Tail(work), DOMAIN typeOf')
    <2>1. Ordered(program, work, DOMAIN typeOf)
      BY DEF Inv, WorkInv
    <2> QED BY <1>1, <1>5, <1>7, <2>1, ThenKeepsOrder
  <1>11. WorkInv'
    <2>1. Ordered(program', work', DOMAIN typeOf')
      BY <1>1, <1>10
    <2> QED BY <1>1, <1>6, <1>9, <2>1 DEF WorkInv
  <1>12. program' \in Programs
    BY <1>1 DEF Inv
  <1> QED BY <1>2, <1>a, <1>3, <1>11, <1>12 DEF Inv, UnificationInv

(* The same for a step that only returns. *)
LEMMA ReturnKeeps ==
  ASSUME Inv, NEW call, Running(call), Then(<< >>),
         [GraphNext]_types, UsesUnify, diagnosed' \in BOOLEAN, KnowledgeInv',
         DOMAIN typeOf \subseteq DOMAIN typeOf',
         DOMAIN constructors \subseteq DOMAIN constructors',
         call \in Producers => Top.node \in DOMAIN typeOf'
  PROVE  Inv'
  <1> DEFINE D == CallSet(program, Ids(types'), Matched')
  <1>1. << >> \in Seq(D)
    OBVIOUS
  <1>2. work' = << >> \o Tail(work) /\ Top.call = call
    BY DEF Then, Running
  <1>3. Ordered(program, << >>, DOMAIN typeOf')
    BY DEF Ordered
  <1>4. \A n : Produces(Top, n) => n \in DOMAIN typeOf'
    BY <1>2 DEF Produces
  <1> QED BY <1>1, <1>2, <1>3, <1>4, StepKeeps

(* An error may have been added, or not. *)
LEMMA DiagnosedType ==
  ASSUME Inv
  PROVE  diagnosed \in BOOLEAN
  BY DEF Inv, UnificationInv, CallsOK

(* A symbol that is looked up in the root scope is a number. *)
LEMMA RootSymbols ==
  ASSUME Inv, NEW name
  PROVE  /\ S!GetLocalSymbolId(S!RootScope, name) \in Nat
         /\ \A kind : GetRootSymbol(name, kind) \in Nat
         /\ TypeSymbol(name) \in Nat
  <1>1. S!GetLocalSymbolId(S!RootScope, name) \in Nat
    BY DEF Inv, ScopesInv, ScopeRecord, S!GetLocalSymbolId, S!NoSymbol
  <1> QED BY <1>1 DEF GetRootSymbol, TypeSymbol, SymbolIn, S!NoSymbol

(* A map with another value. *)
LEMMA PutValue ==
  ASSUME NEW f, NEW k, NEW v, NEW R, v \in R, \A x \in DOMAIN f : f[x] \in R
  PROVE  /\ DOMAIN S!Put(f, k, v) = DOMAIN f \cup {k}
         /\ \A x \in DOMAIN S!Put(f, k, v) : S!Put(f, k, v)[x] \in R
  BY DEF S!Put

-----------------------------------------------------------------------------
(* f satisfies the recursive definition in Selected. *)
Selects(f, n, seq, K) ==
  f = [k \in 0..n |-> IF k = 0 THEN << >>
                      ELSE IF seq[k] \in K THEN Append(f[k - 1], seq[k])
                      ELSE f[k - 1]]

LEMMA SelectionExists ==
  ASSUME NEW N \in Nat, NEW seq, NEW K
  PROVE  \E f : Selects(f, N, seq, K)
  <1> DEFINE Is(f, n) == Selects(f, n, seq, K)
             Missing == {n \in 0..N : ~\E f : Is(f, n)}
  <1>1. SUFFICES ASSUME Missing # {} PROVE FALSE
    OBVIOUS
  <1>2. PICK n \in Missing : \A m \in Missing : n <= m
    <2>1. Missing \in SUBSET Nat
      OBVIOUS
    <2> HIDE DEF Missing
    <2> QED BY <1>1, <2>1, LeastElement
  <1>3. CASE n = 0
    <2>1. Is([k \in 0..0 |-> << >>], 0)
      BY DEF Selects
    <2> QED BY <1>2, <1>3, <2>1
  <1>4. CASE n # 0
    <2>1. n - 1 \in 0..N /\ ~(n <= n - 1) /\ n \in Nat
      BY <1>4
    <2>2. n - 1 \notin Missing
      <3> HIDE DEF Missing
      <3> QED BY <1>2, <2>1
    <2>3. PICK f : Is(f, n - 1)
      <3> HIDE DEF Is
      <3> QED BY <2>1, <2>2
    <2> DEFINE h == [k \in 0..n |-> IF k = 0 THEN << >>
                                   ELSE IF seq[k] \in K THEN Append(f[k - 1], seq[k])
                                   ELSE f[k - 1]]
    <2>4. \A k \in 0..(n - 1) : h[k] = f[k]
      <3>1. \A k \in 0..(n - 1) :
              f[k] = IF k = 0 THEN << >>
                     ELSE IF seq[k] \in K THEN Append(f[k - 1], seq[k])
                     ELSE f[k - 1]
        BY <2>3, Zenon DEF Selects
      <3>2. \A k \in 0..(n - 1) : k \in 0..n
        BY <2>1
      <3> QED BY <3>1, <3>2, Zenon
    <2>5. \A k \in 0..n : k # 0 => h[k - 1] = f[k - 1]
      <3>1. \A k \in 0..n : k # 0 => k - 1 \in 0..(n - 1)
        BY <2>1
      <3> HIDE DEF h
      <3> QED BY <2>4, <3>1
    <2>6. h = [k \in 0..n |-> IF k = 0 THEN << >>
                              ELSE IF seq[k] \in K THEN Append(h[k - 1], seq[k])
                              ELSE h[k - 1]]
      <3>1. \A k \in 0..n : h[k] = IF k = 0 THEN << >>
                                   ELSE IF seq[k] \in K THEN Append(h[k - 1], seq[k])
                                   ELSE h[k - 1]
        BY <2>5
      <3> QED BY <3>1, Zenon
    <2> QED BY <1>2, <2>6 DEF Selects
  <1> QED BY <1>3, <1>4

(* A loop that passes over what is not in K takes what is in K. *)
LEMMA SelectedFacts ==
  ASSUME NEW P, NEW seq \in Seq(P), NEW K
  PROVE  Selected(seq, K) \in Seq(P \cap K)
  <1> DEFINE N == Len(seq)
             Q == P \cap K
  <1>1. N \in Nat /\ \A k \in 1..N : seq[k] \in P
    OBVIOUS
  <1>2. \E f : Selects(f, N, seq, K)
    BY <1>1, SelectionExists
  <1>3. PICK f : Selects(f, N, seq, K) /\ Selected(seq, K) = f[N]
    <2> DEFINE g == CHOOSE f : Selects(f, N, seq, K)
    <2>1. Selects(g, N, seq, K)
      BY <1>2
    <2>2. Selected(seq, K) = g[N]
      BY DEF Selected, Selects
    <2> QED BY <2>1, <2>2
  <1> HIDE DEF N, Q
  <1>4. \A k \in 0..N : f[k] = IF k = 0 THEN << >>
                               ELSE IF seq[k] \in K THEN Append(f[k - 1], seq[k])
                               ELSE f[k - 1]
    BY <1>3, Zenon DEF Selects
  <1>a. \A k \in 0..N : /\ k = 0 => f[k] = << >>
                        /\ k # 0 /\ seq[k] \in K => f[k] = Append(f[k - 1], seq[k])
                        /\ k # 0 /\ seq[k] \notin K => f[k] = f[k - 1]
    BY <1>4, Zenon
  <1> DEFINE Bad == {k \in 0..N : f[k] \notin Seq(Q)}
  <1>5. ASSUME Bad # {} PROVE FALSE
    <2>1. Bad \in SUBSET Nat
      BY <1>1
    <2>2. PICK k \in Bad : \A j \in Bad : k <= j
      <3> HIDE DEF Bad
      <3> QED BY <1>5, <2>1, LeastElement
    <2>a. f[k] \notin Seq(Q) /\ k \in 0..N
      BY <2>2
    <2>3. CASE k = 0
      <3>1. f[k] = << >>
        BY <1>a, <2>a, <2>3, Zenon
      <3> QED BY <2>a, <3>1
    <2>4. CASE k # 0
      <3>1. k - 1 \in 0..N /\ ~(k <= k - 1) /\ k \in 1..N
        BY <1>1, <2>4
      <3>2. k - 1 \notin Bad
        <4> HIDE DEF Bad
        <4> QED BY <2>2, <3>1
      <3>3. f[k - 1] \in Seq(Q)
        BY <3>1, <3>2
      <3>4. seq[k] \in K => seq[k] \in Q
        BY <1>1, <3>1 DEF Q
      <3>5. \/ seq[k] \in K /\ f[k] = Append(f[k - 1], seq[k])
            \/ f[k] = f[k - 1]
        BY <1>a, <2>a, <2>4, Zenon
      <3>6. seq[k] \in Q => Append(f[k - 1], seq[k]) \in Seq(Q)
        BY <3>3
      <3> QED BY <2>a, <3>3, <3>4, <3>5, <3>6, Zenon
    <2> QED BY <2>3, <2>4
  <1>6. f[N] \in Seq(Q)
    BY <1>1, <1>5
  <1> QED BY <1>3, <1>6 DEF Q

LEMMA DefinitionCalls ==
  ASSUME program \in Programs, NEW kind, NEW call
  PROVE  OfDefinitions(kind, call) \in
           Seq([call : {call}, node : OfKind(program, {kind})])
  <1> DEFINE some == Selected(program.definitions, OfKind(program, {kind}))
             K == OfKind(program, {kind})
  <1>1. program.definitions \in Seq(OfKind(program, {"defn", "data"}))
    BY ProgramsAssumption DEF IsProgram
  <1>2. some \in Seq(K)
    <2>1. some \in Seq(OfKind(program, {"defn", "data"}) \cap K)
      BY <1>1, SelectedFacts
    <2> HIDE DEF some, K
    <2> QED BY <2>1
  <1>3. OfDefinitions(kind, call) = [k \in DOMAIN some |-> [call |-> call, node |-> some[k]]]
    BY DEF OfDefinitions, Call
  <1> DEFINE C == [call : {call}, node : K]
  <1> HIDE DEF some, K
  <1>4. \A k \in DOMAIN some : [call |-> call, node |-> some[k]] \in C
    BY <1>2
  <1> HIDE DEF C
  <1>5. OfDefinitions(kind, call) \in Seq(C)
    BY <1>2, <1>3, <1>4
  <1> QED BY <1>5 DEF C, K

-----------------------------------------------------------------------------
(* What a step of the analyzer keeps, and how it uses the table. *)
Keeps == Inv' /\ [GraphNext]_types /\ UsesUnify

LEMMA AnalyzeKeeps ==
  ASSUME Inv, Analyze
  PROVE  Keeps
  <1>1. /\ Running("analyze") /\ Proceed /\ UNCHANGED <<types, typeOf, knowledge, table>>
        /\ Then(IF S!Ok THEN Phases ELSE << >>)
        /\ diagnosed' \in BOOLEAN
    BY DEF Analyze, S!Ok
  <1> DEFINE C == [call : {"builtins", "finalize", "restrictions"}, node : {NoNode}]
                    \cup [call : {"data"}, node : OfKind(program, {"data"})]
                    \cup [call : {"signature", "body"}, node : OfKind(program, {"defn"})]
             D == CallSet(program, Ids(types'), Matched')
  <1>2. Phases \in Seq(C)
    <2>1. program \in Programs
      BY DEF Inv
    <2> DEFINE Of(call, kind) == [call : {call}, node : OfKind(program, {kind})]
    <2>2. /\ OfDefinitions("data", "data") \in Seq(Of("data", "data"))
          /\ OfDefinitions("defn", "signature") \in Seq(Of("signature", "defn"))
          /\ OfDefinitions("defn", "body") \in Seq(Of("body", "defn"))
      BY <2>1, DefinitionCalls
    <2>3. /\ Of("data", "data") \subseteq C /\ Of("signature", "defn") \subseteq C
          /\ Of("body", "defn") \subseteq C
      OBVIOUS
    <2>4. /\ Call("builtins", NoNode) \in C /\ Call("finalize", NoNode) \in C
          /\ Call("restrictions", NoNode) \in C
      BY DEF Call
    <2> HIDE DEF C, Of
    <2>5. /\ OfDefinitions("data", "data") \in Seq(C)
          /\ OfDefinitions("defn", "signature") \in Seq(C)
          /\ OfDefinitions("defn", "body") \in Seq(C)
      BY <2>2, <2>3
    <2>6. /\ <<Call("builtins", NoNode)>> \in Seq(C)
          /\ <<Call("finalize", NoNode), Call("restrictions", NoNode)>> \in Seq(C)
      BY <2>4
    <2> QED BY <2>5, <2>6 DEF Phases
  <1>3. C \subseteq D
    BY DEF CallSet
  <1>4. \A c \in C : NodesRead(program, c) = {}
    BY DEF NodesRead
  <1> DEFINE calls == IF S!Ok THEN Phases ELSE << >>
  <1>5. calls \in Seq(C)
    BY <1>2
  <1> HIDE DEF C, D, calls
  <1>6. calls \in Seq(D)
    BY <1>3, <1>5
  <1>7. Ordered(program, calls, DOMAIN typeOf')
    BY <1>4, <1>5 DEF Ordered
  <1>8. \A n : ~Produces(Top, n)
    BY <1>1 DEF Running, Produces, Producers
  <1>9. KnowledgeInv' /\ UNCHANGED <<types, typeOf, constructors>>
    BY <1>1 DEF Inv, KnowledgeInv, knowledge
  <1>10. work' = calls \o Tail(work)
    BY <1>1 DEF Then, calls
  <1>11. UsesUnify
    BY <1>1 DEF UsesUnify
  <1>12. Inv'
    BY <1>1, <1>6, <1>7, <1>8, <1>9, <1>10, <1>11, StepKeeps DEF D
  <1> QED BY <1>9, <1>11, <1>12 DEF Keeps

LEMMA RegisterBuiltinsKeeps ==
  ASSUME Inv, RegisterBuiltins
  PROVE  Keeps
  <1>1. /\ Running("builtins") /\ Then(<< >>) /\ UsesUnify
        /\ UNCHANGED <<diagnosed, typeOf, constructors, functions, table>>
    BY DEF RegisterBuiltins, UsesUnify
  <1> DEFINE id == S!GetLocalSymbolId(S!RootScope, "Int")
  <1>2. /\ [GraphNext]_types /\ Ids(types) \subseteq Ids(types')
        /\ \A s \in DOMAIN symbolTypes' : symbolTypes'[s] \in Ids(types')
    <2>1. CASE id # S!NoSymbol
      <3>1. /\ types' = Append(types, IntEntry)
            /\ symbolTypes' = S!Put(symbolTypes, id, Len(types) + 1)
        BY <2>1 DEF RegisterBuiltins
      <3>2. /\ [GraphNext]_types /\ Ids(types) \subseteq Ids(types')
            /\ Len(types) + 1 \in Ids(types')
        BY <3>1, LeafEntries, AddEntry DEF Inv, UnificationInv
      <3>3. \A s \in DOMAIN symbolTypes : symbolTypes[s] \in Ids(types')
        BY <3>2, KnowledgeKept DEF Inv
      <3> HIDE DEF id
      <3> QED BY <3>1, <3>2, <3>3, PutValue
    <2>2. CASE id = S!NoSymbol
      BY <2>2 DEF RegisterBuiltins, Inv, KnowledgeInv
    <2> QED BY <2>1, <2>2
  <1>3. KnowledgeInv'
    BY <1>1, <1>2, KnowledgeKept DEF KnowledgeInv, Inv
  <1>4. Inv'
    BY <1>1, <1>2, <1>3, ReturnKeeps, DiagnosedType DEF Producers
  <1> QED BY <1>1, <1>2, <1>4 DEF Keeps

(* What the call that runs is about. *)
LEMMA TopParts ==
  ASSUME Inv, NEW call, Running(call)
  PROVE  /\ call = "data" => Top.node \in OfKind(program, {"data"})
         /\ call = "constructor" =>
              Top.node \in OfKind(program, {"constructor"}) /\ Top.data \in Nat
         /\ call \in {"signature", "body"} => Top.node \in OfKind(program, {"defn"})
         /\ call = "infer" => Top.node \in OfKind(program, Expressions)
         /\ call = "unify" => /\ Top.node \in OfKind(program, Expressions)
                              /\ Top.expected \in Ids(types)
         /\ call = "branch" => /\ Top.node \in OfKind(program, {"branch"})
                               /\ Top.expected \in Ids(types)
                               /\ Top.result \in Ids(types)
         /\ call \in {"operate", "result"} => Top.node \in OfKind(program, {"operator"})
         /\ call = "apply" => Top.node \in OfKind(program, {"application"})
         /\ call = "match" => Top.node \in OfKind(program, {"case"})
         /\ call = "arguments" => Top.node \in Matched
  <1>1. Top \in CallSet(program, Ids(types), Matched) /\ Top.call = call
    BY TopCall
  <1> DEFINE t == Top
  <1>2. t \in CallSet(program, Ids(types), Matched) /\ t.call = call
    BY <1>1
  <1> HIDE DEF t
  <1>3. /\ t.call = "data" => t.node \in OfKind(program, {"data"})
        /\ t.call = "constructor" =>
              t.node \in OfKind(program, {"constructor"}) /\ t.data \in Nat
        /\ t.call \in {"signature", "body"} => t.node \in OfKind(program, {"defn"})
        /\ t.call = "infer" => t.node \in OfKind(program, Expressions)
        /\ t.call = "unify" => /\ t.node \in OfKind(program, Expressions)
                               /\ t.expected \in Ids(types)
    BY <1>2 DEF CallSet
  <1>4. /\ t.call = "branch" => /\ t.node \in OfKind(program, {"branch"})
                                /\ t.expected \in Ids(types)
                                /\ t.result \in Ids(types)
        /\ t.call \in {"operate", "result"} => t.node \in OfKind(program, {"operator"})
        /\ t.call = "apply" => t.node \in OfKind(program, {"application"})
        /\ t.call = "match" => t.node \in OfKind(program, {"case"})
        /\ t.call = "arguments" => t.node \in Matched
    BY <1>2 DEF CallSet
  <1> QED BY <1>2, <1>3, <1>4 DEF t

LEMMA RegisterDataTypeKeeps ==
  ASSUME Inv, RegisterDataType
  PROVE  Keeps
  <1> DEFINE id == GetRootSymbol(Node.name, "data")
             cs == Node.constructors
             calls == [k \in DOMAIN cs |->
                         [call |-> "constructor", node |-> cs[k], data |-> id]]
  <1>1. /\ Running("data") /\ UsesUnify
        /\ UNCHANGED <<diagnosed, typeOf, constructors, functions, table>>
    BY DEF RegisterDataType, UsesUnify
  <1>2. id \in Nat /\ diagnosed' \in BOOLEAN
    BY <1>1, RootSymbols, DiagnosedType
  <1>3. CASE id # S!NoSymbol
    <2>1. /\ types' = Append(types, DataEntry(id))
          /\ symbolTypes' = S!Put(symbolTypes, id, Len(types) + 1)
          /\ work' = calls \o Tail(work)
      BY <1>3 DEF RegisterDataType, Then
    <2>2. cs \in Seq(OfKind(program, {"constructor"}))
      BY <1>1, TopParts, DataParts DEF Inv, Node
    <2> HIDE DEF id
    <2>3. /\ [GraphNext]_types /\ Ids(types) \subseteq Ids(types')
          /\ Len(types) + 1 \in Ids(types')
      <3>1. DataEntry(id) \in Entry /\ Fresh(DataEntry(id), Len(types) + 1)
        BY <1>2, LeafEntries
      <3> QED BY <2>1, <3>1, AddEntry DEF Inv, UnificationInv
    <2>4. \A s \in DOMAIN symbolTypes : symbolTypes[s] \in Ids(types')
      BY <2>3, KnowledgeKept DEF Inv
    <2>5. \A s \in DOMAIN symbolTypes' : symbolTypes'[s] \in Ids(types')
      BY <2>1, <2>3, <2>4, PutValue
    <2>6. KnowledgeInv'
      BY <1>1, <2>3, <2>5, KnowledgeKept DEF KnowledgeInv, Inv
    <2> DEFINE D == CallSet(program, Ids(types'), Matched')
               C == [call : {"constructor"}, node : OfKind(program, {"constructor"}),
                     data : Nat]
    <2>7. C \subseteq D
      BY DEF CallSet
    <2>8. calls \in Seq(C)
      <3>1. \A k \in DOMAIN cs : [call |-> "constructor", node |-> cs[k], data |-> id] \in C
        BY <1>2, <2>2
      <3> HIDE DEF C, cs
      <3> QED BY <2>2, <3>1
    <2>9. \A c \in C : NodesRead(program, c) = {}
      BY DEF NodesRead
    <2> HIDE DEF C, D, calls
    <2>10. calls \in Seq(D) /\ Ordered(program, calls, DOMAIN typeOf')
      BY <2>7, <2>8, <2>9 DEF Ordered
    <2>11. \A n : ~Produces(Top, n)
      BY <1>1 DEF Running, Produces, Producers
    <2>12. Inv'
      BY <1>1, <1>2, <2>1, <2>3, <2>6, <2>10, <2>11, StepKeeps DEF D
    <2> QED BY <1>1, <2>3, <2>12 DEF Keeps
  <1>4. CASE id = S!NoSymbol
    <2>1. Then(<< >>) /\ UNCHANGED <<types, symbolTypes>>
      BY <1>4 DEF RegisterDataType
    <2>2. KnowledgeInv'
      BY <1>1, <2>1 DEF KnowledgeInv, Inv
    <2>3. Inv'
      BY <1>1, <1>2, <2>1, <2>2, ReturnKeeps DEF Producers
    <2> QED BY <1>1, <2>1, <2>3 DEF Keeps
  <1> QED BY <1>3, <1>4

(* A set of numbers from 1 to n has a first gap. *)
LEMMA FirstBad ==
  ASSUME NEW n \in Nat, NEW bad \in SUBSET (1..n), NEW made,
         made = CHOOSE k \in 0..n : /\ 1..k \cap bad = {}
                                    /\ k = n \/ k + 1 \in bad
  PROVE  made \in 0..n /\ 1..made \cap bad = {}
  <1>1. \E k \in 0..n : /\ 1..k \cap bad = {}
                        /\ k = n \/ k + 1 \in bad
    <2>1. CASE bad = {}
      BY <2>1
    <2>2. CASE bad # {}
      <3>1. PICK m \in bad : \A j \in bad : m <= j
        BY <2>2, LeastElement
      <3> WITNESS m - 1 \in 0..n
      <3> QED BY <3>1
    <2> QED BY <2>1, <2>2
  <1> QED BY <1>1

LEMMA RegisterConstructorKeeps ==
  ASSUME Inv, RegisterConstructor
  PROVE  Keeps
  <1> DEFINE id     == GetRootSymbol(Node.name, "constructor")
             size   == Len(Node.fields)
             bad    == {k \in 1..size : TypeSymbol(Node.fields[k]) = S!NoSymbol}
             made   == CHOOSE k \in 0..size : /\ 1..k \cap bad = {}
                                              /\ k = size \/ k + 1 \in bad
             fields == NewIds(Len(types), made)
             result == Len(types) + size + 1
             entries == [k \in 1..made |-> TypeOfTypeSymbol(TypeSymbol(Node.fields[k]))]
             arrows == Arrows(result, fields, result)
             n == Len(types)
  <1>1. /\ Running("constructor") /\ UsesUnify /\ Then(<< >>)
        /\ UNCHANGED <<typeOf, functions, table>>
    BY DEF RegisterConstructor, UsesUnify
  <1>2. /\ id \in Nat /\ diagnosed \in BOOLEAN /\ n \in Nat /\ Top.data \in Nat
        /\ WellFormed(types)
    <2>1. id \in Nat /\ diagnosed \in BOOLEAN
      BY RootSymbols, DiagnosedType
    <2>2. Top.data \in Nat
      BY <1>1, TopParts
    <2>3. n \in Nat /\ WellFormed(types)
      BY DEF Inv, UnificationInv, WellFormed
    <2> QED BY <2>1, <2>2, <2>3
  <1>3. size \in Nat /\ made \in 0..size
    <2>1. Node.fields \in Seq(UpperNames)
      BY <1>1, TopParts, ConstructorParts DEF Inv, Node
    <2>2. size \in Nat
      BY <2>1
    <2> HIDE DEF size
    <2>3. made \in 0..size
      BY <2>2, FirstBad
    <2> QED BY <2>2, <2>3
  <1> HIDE DEF made, bad
  <1>4. NewEntries(n, entries) /\ Len(entries) = made
    <2>1. \A k \in 1..made : /\ TypeOfTypeSymbol(TypeSymbol(Node.fields[k])) \in Entry
                             /\ Fresh(TypeOfTypeSymbol(TypeSymbol(Node.fields[k])), n + k)
      BY RootSymbols, LeafEntries DEF TypeOfTypeSymbol
    <2> DEFINE e(k) == TypeOfTypeSymbol(TypeSymbol(Node.fields[k]))
    <2>2. \A k \in 1..made : e(k) \in Entry /\ Fresh(e(k), n + k)
      BY <2>1
    <2> HIDE DEF e, size, n
    <2>3. entries \in Seq(Entry) /\ Len(entries) = made /\ \A k \in 1..made : entries[k] = e(k)
      BY <1>3, <2>2 DEF e
    <2> HIDE DEF entries
    <2> QED BY <2>2, <2>3 DEF NewEntries
  <1>5. \/ UNCHANGED <<types, diagnosed, symbolTypes, constructors>>
        \/ /\ types' = types \o entries
           /\ diagnosed' = TRUE
           /\ UNCHANGED <<symbolTypes, constructors>>
        \/ /\ made = size
           /\ types' = types \o entries \o <<DataEntry(Top.data)>> \o arrows
           /\ symbolTypes' = S!Put(symbolTypes, id, ArrowsId(result, fields, result))
           /\ constructors' = S!Put(constructors, id, [data |-> Top.data, fields |-> fields])
           /\ diagnosed' = diagnosed
    <2>1. CASE id = S!NoSymbol
      BY <2>1 DEF RegisterConstructor, made, bad
    <2>2. CASE id # S!NoSymbol /\ made < size
      BY <2>2 DEF RegisterConstructor, made, bad
    <2>3. CASE id # S!NoSymbol /\ made = size
      BY <2>3 DEF RegisterConstructor, made, bad
    <2>4. made < size \/ made = size
      <3> HIDE DEF size
      <3> QED BY <1>3
    <2> HIDE DEF id, size, fields, result, entries, arrows
    <2> QED BY <2>1, <2>2, <2>3, <2>4, Zenon
  <1> HIDE DEF id, size, entries
  <1>6. CASE UNCHANGED <<types, diagnosed, symbolTypes, constructors>>
    <2>1. KnowledgeInv'
      BY <1>1, <1>6 DEF KnowledgeInv, Inv
    <2>2. Inv'
      BY <1>1, <1>2, <1>6, <2>1, ReturnKeeps DEF Producers
    <2> QED BY <1>1, <1>6, <2>2 DEF Keeps
  <1>7. CASE /\ types' = types \o entries
             /\ diagnosed' = TRUE
             /\ UNCHANGED <<symbolTypes, constructors>>
    <2>1. [GraphNext]_types /\ Ids(types) \subseteq Ids(types')
      BY <1>2, <1>4, <1>7, AddEntries
    <2>2. KnowledgeInv'
      BY <1>1, <1>7, <2>1, KnowledgeKept DEF KnowledgeInv, Inv
    <2>3. Inv'
      BY <1>1, <1>2, <1>7, <2>1, <2>2, ReturnKeeps DEF Producers
    <2> QED BY <1>1, <2>1, <2>3 DEF Keeps
  <1>8. CASE /\ made = size
             /\ types' = types \o entries \o <<DataEntry(Top.data)>> \o arrows
             /\ symbolTypes' = S!Put(symbolTypes, id, ArrowsId(result, fields, result))
             /\ constructors' = S!Put(constructors, id, [data |-> Top.data, fields |-> fields])
             /\ diagnosed' = diagnosed
    <2> DEFINE data == <<DataEntry(Top.data)>>
               new  == entries \o data \o arrows
    <2>1. fields \in Seq(1..result) /\ Len(fields) = size /\ result \in 1..result
          /\ result \in Nat /\ fields \in Seq(1..(n + size))
      BY <1>2, <1>3, <1>8 DEF NewIds
    <2>2. NewEntries(n + size, data) /\ Len(data) = 1
      <3>1. DataEntry(Top.data) \in Entry /\ \A i : Fresh(DataEntry(Top.data), i)
        BY <1>2, LeafEntries
      <3> QED BY <3>1 DEF NewEntries
    <2> HIDE DEF fields, data
    <2>3. /\ NewEntries(result, arrows) /\ Len(arrows) = size
          /\ ArrowsId(result, fields, result) \in 1..(result + size)
      BY <2>1, NewArrows
    <2> HIDE DEF arrows
    <2>4. NewEntries(n, entries \o data) /\ Len(entries \o data) = size + 1
      <3>1. NewEntries(n + Len(entries), data)
        BY <1>4, <1>8, <2>2
      <3> HIDE DEF n
      <3>2. /\ NewEntries(n, entries \o data)
            /\ Len(entries \o data) = Len(entries) + Len(data)
        BY <1>2, <1>4, <3>1, MoreEntries
      <3> QED BY <1>4, <1>8, <2>2, <3>2
    <2>5. NewEntries(n, new) /\ Len(new) = size + 1 + size
      <3>1. n + (size + 1) = result
        BY <1>2, <1>3
      <3> DEFINE front == entries \o data
      <3>2. NewEntries(n, front) /\ Len(front) = size + 1
        BY <2>4
      <3> HIDE DEF result, n, front
      <3>3. NewEntries(n + Len(front), arrows)
        BY <2>3, <3>1, <3>2
      <3>4. NewEntries(n, front \o arrows) /\ Len(front \o arrows) = Len(front) + Len(arrows)
        BY <1>2, <3>2, <3>3, MoreEntries, SMTT(30), Zenon
      <3> QED BY <2>3, <3>2, <3>4 DEF front
    <2>6. types' = types \o new
      <3>1. types \in Seq(Entry) /\ entries \in Seq(Entry) /\ data \in Seq(Entry)
            /\ arrows \in Seq(Entry)
        BY <1>2, <1>4, <2>2, <2>3 DEF WellFormed, NewEntries
      <3>2. types' = types \o entries \o data \o arrows
        BY <1>8 DEF data
      <3> HIDE DEF data, n, result
      <3>3. Entries(types) /\ Entries(entries) /\ Entries(data) /\ Entries(arrows)
        BY <3>1 DEF Entries
      <3>4. JoinAll(types, entries, data, arrows)
        BY <3>3, JoinFour
      <3> QED BY <3>2, <3>4 DEF JoinAll
    <2> HIDE DEF new
    <2>7. /\ [GraphNext]_types /\ Ids(types) \subseteq Ids(types')
          /\ Ids(types') = 1..(n + (size + 1 + size))
      BY <1>2, <2>5, <2>6, AddEntries
    <2>8. result + size = n + (size + 1 + size) /\ n + size <= n + (size + 1 + size)
      BY <1>2, <1>3
    <2>9. ArrowsId(result, fields, result) \in Ids(types')
      BY <2>3, <2>7, <2>8
    <2>10. fields \in Seq(Ids(types'))
      <3>1. 1..(n + size) \subseteq Ids(types')
        BY <1>2, <1>3, <2>7, <2>8
      <3> QED BY <2>1, <3>1, SMTT(30), Zenon
    <2> HIDE DEF n, result
    <2>11. \A s \in DOMAIN symbolTypes' : symbolTypes'[s] \in Ids(types')
      <3>1. \A s \in DOMAIN symbolTypes : symbolTypes[s] \in Ids(types')
        BY <2>7, KnowledgeKept DEF Inv
      <3> QED BY <1>8, <2>9, <3>1, PutValue
    <2>12. /\ DOMAIN constructors \subseteq DOMAIN constructors'
           /\ \A c \in DOMAIN constructors' : /\ constructors'[c].fields \in Seq(Ids(types'))
                                              /\ constructors'[c].data \in Nat
      <3>1. \A c \in DOMAIN constructors : /\ constructors[c].fields \in Seq(Ids(types'))
                                           /\ constructors[c].data \in Nat
        BY <2>7, KnowledgeKept DEF Inv
      <3> QED BY <1>2, <1>8, <2>10, <3>1 DEF S!Put
    <2>13. KnowledgeInv'
      BY <1>1, <2>7, <2>11, <2>12, KnowledgeKept DEF KnowledgeInv, Inv
    <2>14. Inv'
      BY <1>1, <1>2, <1>8, <2>7, <2>12, <2>13, ReturnKeeps DEF Producers
    <2> QED BY <1>1, <2>7, <2>14 DEF Keeps
  <1> QED BY <1>5, <1>6, <1>7, <1>8

LEMMA PrepareFunctionSignatureKeeps ==
  ASSUME Inv, PrepareFunctionSignature
  PROVE  Keeps
  <1> DEFINE id == GetRootSymbol(Node.name, "function")
             InFunction(name) == S!GetLocalSymbolId(scopeByNode[Top.node], name)
             found  == Selected(Node.parameters,
                                {name \in Names : InFunction(name) # S!NoSymbol})
             ps     == NewIds(Len(types), Len(found))
             result == Len(types) + Len(found) + 1
             locals == {InFunction(found[k]) : k \in DOMAIN found}
             n == Len(types)
             m == Len(found)
             variables == Variables(m + 1)
             arrows == Arrows(result, ps, result)
             callable == ArrowsId(result, ps, result)
             signature == [parameters |-> ps, result |-> result]
             typed == [s \in DOMAIN symbolTypes \cup locals \cup {id} |->
                        IF s = id THEN callable
                        ELSE IF s \in locals
                        THEN ps[CHOOSE k \in DOMAIN ps : InFunction(found[k]) = s]
                        ELSE symbolTypes[s]]
  <1>1. /\ Running("signature") /\ UsesUnify /\ Then(<< >>)
        /\ UNCHANGED <<diagnosed, typeOf, constructors, table>>
    BY DEF PrepareFunctionSignature, UsesUnify
  <1>2. diagnosed' \in BOOLEAN /\ n \in Nat /\ WellFormed(types)
    BY <1>1, DiagnosedType DEF Inv, UnificationInv, WellFormed
  <1>3. \/ /\ types' = types \o variables \o arrows
           /\ symbolTypes' = typed
           /\ functions' = S!Put(functions, id, signature)
        \/ UNCHANGED <<types, symbolTypes, functions>>
    BY DEF PrepareFunctionSignature
  <1>4. CASE UNCHANGED <<types, symbolTypes, functions>>
    <2>1. KnowledgeInv'
      BY <1>1, <1>4 DEF KnowledgeInv, Inv
    <2>2. Inv'
      BY <1>1, <1>2, <1>4, <2>1, ReturnKeeps DEF Producers
    <2> QED BY <1>1, <1>4, <2>2 DEF Keeps
  <1>5. CASE /\ types' = types \o variables \o arrows
             /\ symbolTypes' = typed
             /\ functions' = S!Put(functions, id, signature)
    <2>1. m \in Nat /\ DOMAIN found = 1..m
      <3> DEFINE K == {name \in Names : InFunction(name) # S!NoSymbol}
      <3>1. Node.parameters \in Seq(LowerNames)
        BY <1>1, TopParts, DefinitionParts DEF Inv, Node
      <3> HIDE DEF K
      <3>2. found \in Seq(LowerNames \cap K)
        BY <3>1, SelectedFacts DEF K
      <3> HIDE DEF found
      <3> QED BY <3>2
    <2> HIDE DEF found, InFunction, id
    <2>2. /\ ps \in Seq(1..result) /\ Len(ps) = m /\ result \in 1..result /\ result \in Nat
          /\ DOMAIN ps = 1..m /\ \A k \in 1..m : ps[k] \in 1..result
      BY <1>2, <2>1 DEF NewIds
    <2>3. NewEntries(n, variables) /\ Len(variables) = m + 1
      BY <1>2, <2>1, NewVariables
    <2> HIDE DEF variables, ps
    <2>4. NewEntries(result, arrows) /\ Len(arrows) = m /\ callable \in 1..(result + m)
      BY <2>2, NewArrows
    <2> HIDE DEF arrows, callable
    <2> DEFINE new == variables \o arrows
    <2>5. NewEntries(n, new) /\ Len(new) = m + 1 + m
      <3>1. n + (m + 1) = result
        BY <1>2, <2>1
      <3> HIDE DEF n, result, m
      <3>2. NewEntries(n + Len(variables), arrows)
        BY <2>3, <2>4, <3>1
      <3> QED BY <1>2, <2>3, <2>4, <3>2, MoreEntries
    <2>6. types' = types \o new
      <3>1. types \in Seq(Entry) /\ variables \in Seq(Entry) /\ arrows \in Seq(Entry)
        BY <1>2, <2>3, <2>4 DEF WellFormed, NewEntries
      <3>2. Entries(types) /\ Entries(variables) /\ Entries(arrows)
        BY <3>1 DEF Entries
      <3>3. JoinAgain(types, variables, arrows)
        BY <3>2, JoinThree
      <3> QED BY <1>5, <3>3 DEF JoinAgain
    <2> HIDE DEF new
    <2>7. /\ [GraphNext]_types /\ Ids(types) \subseteq Ids(types')
          /\ Ids(types') = 1..(n + (m + 1 + m))
      BY <1>2, <2>5, <2>6, AddEntries
    <2>8. 1..result \subseteq Ids(types') /\ callable \in Ids(types')
      <3>1. result + m = n + (m + 1 + m) /\ result <= result + m
        BY <1>2, <2>1
      <3> HIDE DEF n, m, result
      <3> QED BY <2>1, <2>2, <2>4, <2>7, <3>1
    <2> HIDE DEF n, m, result
    <2>9. ps \in Seq(Ids(types')) /\ result \in Ids(types')
      BY <2>2, <2>8
    <2>10. \A s \in DOMAIN symbolTypes' : symbolTypes'[s] \in Ids(types')
      <3>1. \A s \in DOMAIN symbolTypes : symbolTypes[s] \in Ids(types')
        BY <2>7, KnowledgeKept DEF Inv
      <3>2. ASSUME NEW s \in locals
            PROVE  ps[CHOOSE k \in DOMAIN ps : InFunction(found[k]) = s] \in Ids(types')
        <4>1. \E k \in DOMAIN ps : InFunction(found[k]) = s
          BY <2>1, <2>2, <3>2
        <4>2. (CHOOSE k \in DOMAIN ps : InFunction(found[k]) = s) \in DOMAIN ps
          BY <4>1
        <4> QED BY <2>2, <2>8, <4>2
      <3> HIDE DEF locals
      <3> QED BY <1>5, <2>8, <3>1, <3>2
    <2>11. \A f \in DOMAIN functions' : /\ functions'[f].parameters \in Seq(Ids(types'))
                                        /\ functions'[f].result \in Ids(types')
      <3>1. \A f \in DOMAIN functions : /\ functions[f].parameters \in Seq(Ids(types'))
                                        /\ functions[f].result \in Ids(types')
        BY <2>7, KnowledgeKept DEF Inv
      <3> QED BY <1>5, <2>9, <3>1 DEF S!Put
    <2>12. KnowledgeInv'
      BY <1>1, <2>7, <2>10, <2>11, KnowledgeKept DEF KnowledgeInv, Inv
    <2>13. Inv'
      BY <1>1, <1>2, <2>7, <2>12, ReturnKeeps DEF Producers
    <2> QED BY <1>1, <2>7, <2>13 DEF Keeps
  <1> QED BY <1>3, <1>4, <1>5

LEMMA InferFunctionBodyKeeps ==
  ASSUME Inv, InferFunctionBody
  PROVE  Keeps
  <1> DEFINE id == GetRootSymbol(Node.name, "function")
             calls == IF id \in DOMAIN functions
                      THEN <<Infer(Node.body), UnifyCall(Node.body, functions[id].result)>>
                      ELSE << >>
             D == CallSet(program, Ids(types'), Matched')
  <1>1. /\ Running("body") /\ UsesUnify
        /\ UNCHANGED <<types, diagnosed, typeOf, knowledge, table>>
        /\ work' = calls \o Tail(work)
    BY DEF InferFunctionBody, UsesUnify, Then
  <1>2. KnowledgeInv' /\ diagnosed' \in BOOLEAN
    BY <1>1, DiagnosedType, SMTT(30), Zenon DEF Inv, KnowledgeInv, knowledge
  <1>3. Node.body \in OfKind(program, Expressions)
    BY <1>1, TopParts, DefinitionParts DEF Inv, Node
  <1>4. calls \in Seq(D) /\ Ordered(program, calls, DOMAIN typeOf')
    <2>1. CASE id \notin DOMAIN functions
      BY <2>1 DEF Ordered
    <2>2. CASE id \in DOMAIN functions
      <3> DEFINE c1 == Infer(Node.body)
                 c2 == UnifyCall(Node.body, functions[id].result)
      <3>1. c1 \in D /\ c2 \in D
        <4>1. functions[id].result \in Ids(types')
          BY <1>1, <2>2 DEF Inv, KnowledgeInv
        <4> QED BY <1>3, <4>1 DEF CallSet, Infer, Call, UnifyCall
      <3>2. /\ NodesRead(program, c1) = {}
            /\ NodesRead(program, c2) = {Node.body}
            /\ Produces(c1, Node.body)
        BY DEF NodesRead, Infer, Call, UnifyCall, Produces, Producers
      <3>3. calls = <<c1, c2>>
        BY <2>2
      <3> HIDE DEF c1, c2, D, calls
      <3>4. /\ <<c1, c2>> \in Seq(D) /\ DOMAIN <<c1, c2>> = 1..2
            /\ <<c1, c2>>[1] = c1 /\ <<c1, c2>>[2] = c2
        BY <3>1
      <3>5. Ordered(program, <<c1, c2>>, DOMAIN typeOf')
        <4>1. \A k \in 1..2 : k = 1 \/ (k = 2 /\ 1 \in 1..(k - 1))
          OBVIOUS
        <4> QED BY <3>2, <3>4, <4>1 DEF Ordered
      <3> QED BY <3>3, <3>4, <3>5
    <2> QED BY <2>1, <2>2
  <1>5. \A n : ~Produces(Top, n)
    BY <1>1 DEF Running, Produces, Producers
  <1> HIDE DEF calls, D
  <1>6. UNCHANGED <<typeOf, constructors>>
    BY <1>1 DEF knowledge
  <1>7. Inv'
    BY <1>1, <1>2, <1>4, <1>5, <1>6, StepKeeps DEF D
  <1> QED BY <1>1, <1>7 DEF Keeps

LEMMA UnifyKeeps ==
  ASSUME Inv, Unify
  PROVE  Keeps
  <1>1. /\ Running("unify") /\ Then(<< >>) /\ CallUnify(typeOf[Top.node], Top.expected)
        /\ UNCHANGED <<types, typeOf, knowledge, table>>
    BY DEF Unify
  <1>2. Top.node \in DOMAIN typeOf /\ Top.expected \in Ids(types)
    <2>1. NodesRead(program, Top) = {Top.node}
      BY <1>1 DEF Running, NodesRead
    <2> QED BY <1>1, <2>1, TopCall, TopParts
  <1>3. UsesUnify
    BY <1>1, <1>2 DEF UsesUnify, Inv, KnowledgeInv
  <1>4. KnowledgeInv' /\ diagnosed' \in BOOLEAN /\ UNCHANGED constructors
    BY <1>1, DiagnosedType DEF Inv, KnowledgeInv, knowledge, CallUnify
  <1>5. Inv'
    BY <1>1, <1>3, <1>4, ReturnKeeps DEF Producers
  <1> QED BY <1>1, <1>3, <1>5 DEF Keeps

-----------------------------------------------------------------------------
(* An expression is given a type that has just been made. *)
LEMMA GivesType ==
  ASSUME Inv, NEW call, Running(call), Then(<< >>), UsesUnify, [GraphNext]_types,
         Ids(types) \subseteq Ids(types'), diagnosed' \in BOOLEAN,
         NEW t \in Ids(types'), typeOf' = S!Put(typeOf, Top.node, t),
         UNCHANGED knowledge
  PROVE  Keeps
  <1>1. \A n \in DOMAIN typeOf : typeOf[n] \in Ids(types')
    BY KnowledgeKept DEF Inv
  <1>2. /\ DOMAIN typeOf' = DOMAIN typeOf \cup {Top.node}
        /\ \A n \in DOMAIN typeOf' : typeOf'[n] \in Ids(types')
    BY <1>1, PutValue
  <1>3. KnowledgeInv' /\ UNCHANGED constructors
    BY <1>2, KnowledgeKept DEF KnowledgeInv, Inv, knowledge
  <1>4. Inv'
    BY <1>2, <1>3, ReturnKeeps
  <1> QED BY <1>4 DEF Keeps

LEMMA InferIntLiteralKeeps ==
  ASSUME Inv, InferIntLiteral \/ InferOperatorResult
  PROVE  Keeps
  <1>1. /\ Running("infer") \/ Running("result")
        /\ Then(<< >>) /\ UsesUnify /\ types' = Append(types, IntEntry)
        /\ typeOf' = S!Put(typeOf, Top.node, Len(types) + 1)
        /\ UNCHANGED <<diagnosed, knowledge>>
    BY DEF InferIntLiteral, InferOperatorResult, UsesUnify
  <1>2. /\ [GraphNext]_types /\ Ids(types) \subseteq Ids(types')
        /\ Len(types) + 1 \in Ids(types')
    BY <1>1, LeafEntries, AddEntry DEF Inv, UnificationInv
  <1>3. diagnosed' \in BOOLEAN
    BY <1>1, DiagnosedType
  <1> QED BY <1>1, <1>2, <1>3, GivesType

LEMMA InferVariableKeeps ==
  ASSUME Inv, InferVariable
  PROVE  Keeps
  <1>1. /\ Running("infer") /\ Then(<< >>) /\ UsesUnify
        /\ UNCHANGED <<diagnosed, knowledge>>
        /\ \/ /\ resolved[Top.node] \in DOMAIN symbolTypes
              /\ typeOf' = S!Put(typeOf, Top.node, symbolTypes[resolved[Top.node]])
              /\ types' = types
           \/ /\ types' = Append(types, VarEntry(NoType))
              /\ typeOf' = S!Put(typeOf, Top.node, Len(types) + 1)
    BY DEF InferVariable, UsesUnify
  <1>2. diagnosed' \in BOOLEAN
    BY <1>1, DiagnosedType
  <1>3. CASE /\ resolved[Top.node] \in DOMAIN symbolTypes
             /\ typeOf' = S!Put(typeOf, Top.node, symbolTypes[resolved[Top.node]])
             /\ types' = types
    <2>1. symbolTypes[resolved[Top.node]] \in Ids(types')
      BY <1>3 DEF Inv, KnowledgeInv
    <2> QED BY <1>1, <1>2, <1>3, <2>1, GivesType
  <1>4. CASE /\ types' = Append(types, VarEntry(NoType))
             /\ typeOf' = S!Put(typeOf, Top.node, Len(types) + 1)
    <2>1. /\ [GraphNext]_types /\ Ids(types) \subseteq Ids(types')
          /\ Len(types) + 1 \in Ids(types')
      BY <1>4, LeafEntries, AddEntry DEF Inv, UnificationInv
    <2> QED BY <1>1, <1>2, <1>4, <2>1, GivesType
  <1> QED BY <1>1, <1>3, <1>4

LEMMA InferApplicationKeeps ==
  ASSUME Inv, InferApplication
  PROVE  Keeps
  <1> DEFINE n == Len(types)
             v == VarEntry(NoType)
             f == FunctionEntry(typeOf[Node.argument], n + 1)
             new == <<v, f>>
  <1>1. /\ Running("apply") /\ Then(<< >>) /\ types' = types \o new
        /\ CallUnify(typeOf[Node.function], n + 1 + 1)
        /\ typeOf' = S!Put(typeOf, Top.node, n + 1)
        /\ UNCHANGED <<diagnosed, knowledge>>
    BY DEF InferApplication, CallUnify
  <1>2. typeOf[Node.argument] \in Ids(types) /\ typeOf[Node.function] \in Ids(types)
    <2>1. NodesRead(program, Top) = {Node.function, Node.argument}
      BY <1>1 DEF Running, NodesRead, Node
    <2>2. Node.argument \in DOMAIN typeOf /\ Node.function \in DOMAIN typeOf
      BY <1>1, <2>1, TopCall
    <2> QED BY <2>2 DEF Inv, KnowledgeInv
  <1>3. n \in Nat /\ WellFormed(types) /\ Ids(types) = 1..n
    BY DEF Inv, UnificationInv, WellFormed, Ids
  <1>4. NewEntries(n, new) /\ Len(new) = 2
    <2>1. v \in Entry /\ Fresh(v, n + 1)
      BY LeafEntries
    <2>2. typeOf[Node.argument] \in 1..n
      BY <1>2, <1>3
    <2> DEFINE a == typeOf[Node.argument]
    <2>3. f = [kind |-> "function", parameter |-> a, result |-> n + 1] /\ a \in 1..n
      BY <2>2 DEF FunctionEntry
    <2> HIDE DEF f, v, a, n
    <2>4. f \in Entry /\ Fresh(f, n + 2)
      BY <1>3, <2>3 DEF Entry, Fresh
    <2>5. new \in Seq(Entry) /\ Len(new) = 2 /\ new[1] = v /\ new[2] = f
      BY <2>1, <2>4
    <2>6. \A k \in 1..2 : k = 1 \/ k = 2
      OBVIOUS
    <2> HIDE DEF new
    <2> QED BY <2>1, <2>4, <2>5, <2>6 DEF NewEntries
  <1> HIDE DEF new
  <1>5. [GraphNext]_types /\ Ids(types) \subseteq Ids(types') /\ Ids(types') = 1..(n + 2)
    BY <1>1, <1>3, <1>4, AddEntries
  <1>6. n + 1 \in Ids(types') /\ n + 1 + 1 \in Ids(types') /\ n + 1 = Len(types) + 1
    BY <1>3, <1>5
  <1> HIDE DEF n
  <1>7. UsesUnify
    BY <1>1, <1>2, <1>5, <1>6 DEF UsesUnify
  <1>8. diagnosed' \in BOOLEAN
    BY <1>1, DiagnosedType
  <1> QED BY <1>1, <1>5, <1>6, <1>7, <1>8, GivesType

(* Two calls, or three, are in order if each reads what an earlier one types. *)
LEMMA TwoCalls ==
  ASSUME NEW p, NEW known, NEW D, NEW a \in D, NEW b \in D,
         \A n \in NodesRead(p, a) : n \in known,
         \A n \in NodesRead(p, b) : n \in known \/ Produces(a, n)
  PROVE  <<a, b>> \in Seq(D) /\ Ordered(p, <<a, b>>, known)
  <1>1. DOMAIN <<a, b>> = 1..2 /\ <<a, b>>[1] = a /\ <<a, b>>[2] = b
    OBVIOUS
  <1>2. \A k \in 1..2 : k = 1 \/ (k = 2 /\ 1 \in 1..(k - 1))
    OBVIOUS
  <1> QED BY <1>1, <1>2 DEF Ordered

LEMMA ThreeCalls ==
  ASSUME NEW p, NEW known, NEW D, NEW a \in D, NEW b \in D, NEW c \in D,
         \A n \in NodesRead(p, a) : n \in known,
         \A n \in NodesRead(p, b) : n \in known \/ Produces(a, n),
         \A n \in NodesRead(p, c) : n \in known \/ Produces(a, n) \/ Produces(b, n)
  PROVE  <<a, b, c>> \in Seq(D) /\ Ordered(p, <<a, b, c>>, known)
  <1>1. /\ DOMAIN <<a, b, c>> = 1..3 /\ <<a, b, c>>[1] = a
        /\ <<a, b, c>>[2] = b /\ <<a, b, c>>[3] = c
    OBVIOUS
  <1>2. \A k \in 1..3 : \/ k = 1
                        \/ k = 2 /\ 1 \in 1..(k - 1)
                        \/ k = 3 /\ 1 \in 1..(k - 1) /\ 2 \in 1..(k - 1)
    OBVIOUS
  <1> QED BY <1>1, <1>2 DEF Ordered

(* A call before two others. *)
LEMMA ConsTwo ==
  ASSUME NEW a, NEW b, NEW c
  PROVE  <<c>> \o <<a, b>> = <<c, a, b>>
  <1> DEFINE D == {a, b, c}
             l == <<c>> \o <<a, b>>
             r == <<c, a, b>>
  <1>1. <<c>> \in Seq(D) /\ <<a, b>> \in Seq(D)
    OBVIOUS
  <1>2. /\ l \in Seq(D) /\ Len(l) = 3
        /\ l[1] = c /\ l[2] = a /\ l[3] = b
    BY <1>1
  <1>3. /\ r \in Seq(D) /\ Len(r) = 3
        /\ r[1] = c /\ r[2] = a /\ r[3] = b
    OBVIOUS
  <1>4. \A i \in 1..3 : i = 1 \/ i = 2 \/ i = 3
    OBVIOUS
  <1> HIDE DEF l, r, D
  <1>5. l = r
    BY <1>2, <1>3, <1>4, SeqEqual
  <1> QED BY <1>5 DEF l, r

(* inferExpression infers the parts before it reads their types. *)
LEMMA InferPartsKeeps ==
  ASSUME Inv, InferParts
  PROVE  Keeps
  <1> DEFINE D == CallSet(program, Ids(types'), Matched')
  <1>1. /\ Running("infer") /\ UsesUnify
        /\ Node.kind \in {"operator", "application", "case"}
        /\ UNCHANGED <<types, diagnosed, typeOf, knowledge, table>>
    BY DEF InferParts, UsesUnify
  <1>2. KnowledgeInv' /\ diagnosed' \in BOOLEAN /\ UNCHANGED <<typeOf, constructors>>
    BY <1>1, DiagnosedType DEF Inv, KnowledgeInv, knowledge
  <1>3. Top.node \in OfKind(program, {Node.kind}) /\ program \in Programs
    BY <1>1, TopParts DEF OfKind, Node, Inv
  <1>4. ASSUME NEW calls, work' = calls \o Tail(work),
               calls \in Seq(D), Ordered(program, calls, DOMAIN typeOf'),
               \E j \in DOMAIN calls : Produces(calls[j], Top.node)
        PROVE  Keeps
    <2>1. \A n : Produces(Top, n) => \E j \in DOMAIN calls : Produces(calls[j], n)
      BY <1>4 DEF Produces
    <2>2. Inv'
      BY <1>1, <1>2, <1>4, <2>1, StepKeeps
    <2> QED BY <1>1, <2>2 DEF Keeps
  <1>5. CASE Node.kind = "operator"
    <2> DEFINE a == Infer(Node.left)
               b == Infer(Node.right)
               c == Call("operate", Top.node)
    <2>1. work' = <<a, b, c>> \o Tail(work)
      BY <1>5 DEF InferParts, Then
    <2>2. a \in D /\ b \in D /\ c \in D
      <3>1. Node.left \in OfKind(program, Expressions) /\ Node.right \in OfKind(program, Expressions)
        BY <1>3, <1>5, OperatorParts DEF Node
      <3> QED BY <1>3, <1>5, <3>1 DEF CallSet, Infer, Call
    <2>3. /\ NodesRead(program, a) = {} /\ NodesRead(program, b) = {}
          /\ NodesRead(program, c) = {Node.left, Node.right}
          /\ Produces(a, Node.left) /\ Produces(b, Node.right) /\ Produces(c, Top.node)
      BY DEF NodesRead, Produces, Producers, Infer, Call, Node
    <2> HIDE DEF a, b, c, D
    <2>4. <<a, b, c>> \in Seq(D) /\ Ordered(program, <<a, b, c>>, DOMAIN typeOf')
      BY <2>2, <2>3, ThreeCalls
    <2>5. 3 \in DOMAIN <<a, b, c>> /\ <<a, b, c>>[3] = c
      OBVIOUS
    <2> QED BY <1>4, <2>1, <2>3, <2>4, <2>5
  <1>6. CASE Node.kind = "application"
    <2> DEFINE a == Infer(Node.function)
               b == Infer(Node.argument)
               c == Call("apply", Top.node)
    <2>1. work' = <<a, b, c>> \o Tail(work)
      BY <1>6 DEF InferParts, Then
    <2>2. a \in D /\ b \in D /\ c \in D
      <3>1. /\ Node.function \in OfKind(program, Expressions)
            /\ Node.argument \in OfKind(program, Expressions)
        BY <1>3, <1>6, ApplicationParts DEF Node
      <3> QED BY <1>3, <1>6, <3>1 DEF CallSet, Infer, Call
    <2>3. /\ NodesRead(program, a) = {} /\ NodesRead(program, b) = {}
          /\ NodesRead(program, c) = {Node.function, Node.argument}
          /\ Produces(a, Node.function) /\ Produces(b, Node.argument)
          /\ Produces(c, Top.node)
      BY DEF NodesRead, Produces, Producers, Infer, Call, Node
    <2> HIDE DEF a, b, c, D
    <2>4. <<a, b, c>> \in Seq(D) /\ Ordered(program, <<a, b, c>>, DOMAIN typeOf')
      BY <2>2, <2>3, ThreeCalls
    <2>5. 3 \in DOMAIN <<a, b, c>> /\ <<a, b, c>>[3] = c
      OBVIOUS
    <2> QED BY <1>4, <2>1, <2>3, <2>4, <2>5
  <1>7. CASE Node.kind = "case"
    <2> DEFINE a == Infer(Node.scrutinee)
               b == Call("match", Top.node)
    <2>1. work' = <<a, b>> \o Tail(work)
      BY <1>7 DEF InferParts, Then
    <2>2. a \in D /\ b \in D
      <3>1. Node.scrutinee \in OfKind(program, Expressions)
        BY <1>3, <1>7, CaseParts DEF Node
      <3> QED BY <1>3, <1>7, <3>1 DEF CallSet, Infer, Call
    <2>3. /\ NodesRead(program, a) = {} /\ NodesRead(program, b) = {Node.scrutinee}
          /\ Produces(a, Node.scrutinee) /\ Produces(b, Top.node)
      BY DEF NodesRead, Produces, Producers, Infer, Call, Node
    <2> HIDE DEF a, b, D
    <2>4. <<a, b>> \in Seq(D) /\ Ordered(program, <<a, b>>, DOMAIN typeOf')
      BY <2>2, <2>3, TwoCalls
    <2>5. 2 \in DOMAIN <<a, b>> /\ <<a, b>>[2] = b
      OBVIOUS
    <2> QED BY <1>4, <2>1, <2>3, <2>4, <2>5
  <1> QED BY <1>1, <1>5, <1>6, <1>7

LEMMA InferBinaryOperatorKeeps ==
  ASSUME Inv, InferBinaryOperator
  PROVE  Keeps
  <1> DEFINE D == CallSet(program, Ids(types'), Matched')
             integer == Len(types) + 1
             a == UnifyCall(Node.left, integer)
             b == UnifyCall(Node.right, integer)
             c == Call("result", Top.node)
  <1>1. /\ Running("operate") /\ UsesUnify /\ types' = Append(types, IntEntry)
        /\ UNCHANGED <<diagnosed, typeOf, knowledge, table>>
        /\ work' = <<a, b, c>> \o Tail(work)
    BY DEF InferBinaryOperator, UsesUnify, Then
  <1>2. /\ [GraphNext]_types /\ Ids(types) \subseteq Ids(types')
        /\ integer \in Ids(types')
    BY <1>1, LeafEntries, AddEntry DEF Inv, UnificationInv
  <1>3. KnowledgeInv' /\ diagnosed' \in BOOLEAN /\ UNCHANGED <<typeOf, constructors>>
    BY <1>1, <1>2, KnowledgeKept, DiagnosedType DEF Inv, KnowledgeInv, knowledge
  <1>4. Top.node \in OfKind(program, {"operator"}) /\ program \in Programs
    BY <1>1, TopParts DEF Inv
  <1>5. a \in D /\ b \in D /\ c \in D
    <2>1. Node.left \in OfKind(program, Expressions) /\ Node.right \in OfKind(program, Expressions)
      BY <1>4, OperatorParts DEF Node
    <2> HIDE DEF integer
    <2> QED BY <1>2, <1>4, <2>1 DEF CallSet, UnifyCall, Call
  <1>6. Node.left \in DOMAIN typeOf' /\ Node.right \in DOMAIN typeOf'
    <2>1. NodesRead(program, Top) = {Node.left, Node.right}
      BY <1>1 DEF Running, NodesRead, Node
    <2> QED BY <1>1, <2>1, TopCall
  <1>7. /\ NodesRead(program, a) = {Node.left} /\ NodesRead(program, b) = {Node.right}
        /\ NodesRead(program, c) = {} /\ Produces(c, Top.node)
    BY DEF NodesRead, Produces, Producers, UnifyCall, Call
  <1> HIDE DEF a, b, c, D, integer
  <1>8. <<a, b, c>> \in Seq(D) /\ Ordered(program, <<a, b, c>>, DOMAIN typeOf')
    BY <1>5, <1>6, <1>7, ThreeCalls
  <1>9. \A n : Produces(Top, n) =>
          \E j \in DOMAIN <<a, b, c>> : Produces(<<a, b, c>>[j], n)
    <2>1. 3 \in DOMAIN <<a, b, c>> /\ <<a, b, c>>[3] = c
      OBVIOUS
    <2> QED BY <1>7, <2>1 DEF Produces
  <1>10. Inv'
    BY <1>1, <1>2, <1>3, <1>8, <1>9, StepKeeps DEF D
  <1> QED BY <1>1, <1>2, <1>10 DEF Keeps

LEMMA InferCaseExpressionKeeps ==
  ASSUME Inv, InferCaseExpression
  PROVE  Keeps
  <1> DEFINE D == CallSet(program, Ids(types'), Matched')
             scrutinee == typeOf[Node.scrutinee]
             result == Len(types) + 1
             bs == Node.branches
             calls == [k \in DOMAIN bs |-> BranchCall(bs[k], scrutinee, result)]
  <1>1. /\ Running("match") /\ UsesUnify /\ types' = Append(types, VarEntry(NoType))
        /\ typeOf' = S!Put(typeOf, Top.node, result)
        /\ UNCHANGED <<diagnosed, knowledge, table>>
        /\ work' = calls \o Tail(work)
    BY DEF InferCaseExpression, UsesUnify, Then
  <1>2. /\ [GraphNext]_types /\ Ids(types) \subseteq Ids(types')
        /\ result \in Ids(types')
    BY <1>1, LeafEntries, AddEntry DEF Inv, UnificationInv
  <1>3. scrutinee \in Ids(types')
    <2>1. NodesRead(program, Top) = {Node.scrutinee}
      BY <1>1 DEF Running, NodesRead, Node
    <2>2. Node.scrutinee \in DOMAIN typeOf
      <3>1. Running("match") /\ Node.scrutinee \in NodesRead(program, Top)
        BY <1>1, <2>1
      <3> QED BY <3>1, TopCall, SMTT(30), Zenon
    <2>3. typeOf[Node.scrutinee] \in Ids(types)
      BY <2>2, SMTT(30), Zenon DEF Inv, KnowledgeInv
    <2>4. scrutinee \in Ids(types)
      BY <2>3
    <2> HIDE DEF scrutinee
    <2> QED BY <1>2, <2>4
  <1>4. bs \in Seq(OfKind(program, {"branch"}))
    BY <1>1, TopParts, CaseParts DEF Inv, Node
  <1> HIDE DEF result, scrutinee, bs
  <1>5. /\ DOMAIN typeOf' = DOMAIN typeOf \cup {Top.node}
        /\ \A n \in DOMAIN typeOf' : typeOf'[n] \in Ids(types')
    <2>1. \A n \in DOMAIN typeOf : typeOf[n] \in Ids(types')
      BY <1>2, KnowledgeKept DEF Inv
    <2> QED BY <1>1, <1>2, <2>1, PutValue
  <1>6. KnowledgeInv' /\ diagnosed' \in BOOLEAN /\ UNCHANGED constructors
    BY <1>1, <1>2, <1>5, KnowledgeKept, DiagnosedType DEF Inv, KnowledgeInv, knowledge
  <1> DEFINE C == [call : {"branch"}, node : OfKind(program, {"branch"}),
                   expected : Ids(types'), result : Ids(types')]
  <1>7. C \subseteq D
    BY DEF CallSet
  <1>8. calls \in Seq(C)
    <2>1. \A k \in DOMAIN bs : BranchCall(bs[k], scrutinee, result) \in C
      BY <1>2, <1>3, <1>4 DEF BranchCall
    <2> HIDE DEF C
    <2> QED BY <1>4, <2>1
  <1>9. \A c \in C : NodesRead(program, c) = {}
    BY DEF NodesRead
  <1> HIDE DEF C, D, calls
  <1>10. calls \in Seq(D) /\ Ordered(program, calls, DOMAIN typeOf')
    BY <1>7, <1>8, <1>9 DEF Ordered
  <1>11. \A n : Produces(Top, n) => n \in DOMAIN typeOf'
    BY <1>5 DEF Produces
  <1>12. Inv'
    BY <1>1, <1>2, <1>5, <1>6, <1>10, <1>11, StepKeeps DEF D
  <1> QED BY <1>1, <1>2, <1>12 DEF Keeps

-----------------------------------------------------------------------------
(* The calls for the body of a branch, whatever its pattern was. *)
LEMMA BranchCalls ==
  ASSUME Inv, Running("branch"), Ids(types) \subseteq Ids(types'),
         NEW D, D = CallSet(program, Ids(types'), Matched')
  PROVE  /\ BodyCalls = <<Infer(Node.body), UnifyCall(Node.body, Top.result)>>
         /\ Infer(Node.body) \in D /\ UnifyCall(Node.body, Top.result) \in D
         /\ NodesRead(program, Infer(Node.body)) = {}
         /\ NodesRead(program, UnifyCall(Node.body, Top.result)) = {Node.body}
         /\ Produces(Infer(Node.body), Node.body)
         /\ Node.pattern \in OfKind(program, Patterns)
         /\ \A n : ~Produces(Top, n)
  <1>1. /\ Top.node \in OfKind(program, {"branch"}) /\ Top.result \in Ids(types')
        /\ program \in Programs
    BY TopParts DEF Inv
  <1>2. Node.body \in OfKind(program, Expressions) /\ Node.pattern \in OfKind(program, Patterns)
    BY <1>1, BranchParts DEF Node
  <1>3. Infer(Node.body) \in D /\ UnifyCall(Node.body, Top.result) \in D
    BY <1>1, <1>2 DEF CallSet, Infer, Call, UnifyCall
  <1>4. /\ NodesRead(program, Infer(Node.body)) = {}
        /\ NodesRead(program, UnifyCall(Node.body, Top.result)) = {Node.body}
        /\ Produces(Infer(Node.body), Node.body)
    BY DEF NodesRead, Produces, Producers, UnifyCall, Infer, Call
  <1>5. \A n : ~Produces(Top, n)
    BY DEF Running, Produces, Producers
  <1> QED BY <1>2, <1>3, <1>4, <1>5 DEF BodyCalls

LEMMA InferVariablePatternKeeps ==
  ASSUME Inv, InferVariablePattern
  PROVE  Keeps
  <1> DEFINE D == CallSet(program, Ids(types'), Matched')
             a == Infer(Node.body)
             b == UnifyCall(Node.body, Top.result)
             id == GetSymbolInNodeScope(Node.pattern, Pattern.name, "pattern_variable")
  <1>1. /\ Running("branch") /\ UsesUnify /\ Then(BodyCalls)
        /\ UNCHANGED <<types, diagnosed, typeOf, constructors, functions, table>>
        /\ symbolTypes' = IF id # S!NoSymbol THEN S!Put(symbolTypes, id, Top.expected)
                          ELSE symbolTypes
    BY DEF InferVariablePattern, UsesUnify
  <1>2. \A s \in DOMAIN symbolTypes' : symbolTypes'[s] \in Ids(types')
    <2>1. /\ Top.expected \in Ids(types')
          /\ \A s \in DOMAIN symbolTypes : symbolTypes[s] \in Ids(types')
      BY <1>1, TopParts DEF Inv, KnowledgeInv
    <2> HIDE DEF id
    <2> QED BY <1>1, <2>1, PutValue
  <1>3. KnowledgeInv' /\ diagnosed' \in BOOLEAN
    BY <1>1, <1>2, DiagnosedType DEF Inv, KnowledgeInv
  <1>4. /\ BodyCalls = <<a, b>> /\ a \in D /\ b \in D
        /\ NodesRead(program, a) = {} /\ NodesRead(program, b) = {Node.body}
        /\ Produces(a, Node.body) /\ \A n : ~Produces(Top, n)
    BY <1>1, BranchCalls
  <1> HIDE DEF a, b, D
  <1>5. <<a, b>> \in Seq(D) /\ Ordered(program, <<a, b>>, DOMAIN typeOf')
    BY <1>4, TwoCalls
  <1>6. work' = <<a, b>> \o Tail(work)
    BY <1>1, <1>4 DEF Then
  <1>7. Inv'
    BY <1>1, <1>3, <1>4, <1>5, <1>6, StepKeeps DEF D
  <1> QED BY <1>1, <1>7 DEF Keeps

LEMMA InferConstructorPatternKeeps ==
  ASSUME Inv, InferConstructorPattern
  PROVE  Keeps
  <1> DEFINE D == CallSet(program, Ids(types'), Matched')
             a == Infer(Node.body)
             b == UnifyCall(Node.body, Top.result)
             c == Call("arguments", Node.pattern)
             data == constructors[resolved[Node.pattern]].data
  <1>1. /\ Running("branch") /\ Pattern.kind = "constructor_pattern"
        /\ UNCHANGED <<diagnosed, typeOf, knowledge, table>>
        /\ \/ /\ Node.pattern \in DOMAIN resolved
              /\ resolved[Node.pattern] \in DOMAIN constructors
              /\ types' = Append(types, DataEntry(data))
              /\ CallUnify(Top.expected, Len(types) + 1)
              /\ Then(<<c>> \o BodyCalls)
           \/ /\ Then(BodyCalls) /\ Proceed /\ types' = types
    BY DEF InferConstructorPattern, CallUnify
  <1>2. diagnosed' \in BOOLEAN /\ UNCHANGED <<typeOf, constructors>>
    BY <1>1, DiagnosedType DEF knowledge
  <1>3. CASE /\ Node.pattern \in DOMAIN resolved
             /\ resolved[Node.pattern] \in DOMAIN constructors
             /\ types' = Append(types, DataEntry(data))
             /\ CallUnify(Top.expected, Len(types) + 1)
             /\ Then(<<c>> \o BodyCalls)
    <2>1. data \in Nat
      BY <1>3 DEF Inv, KnowledgeInv
    <2> HIDE DEF data
    <2>2. DataEntry(data) \in Entry /\ Fresh(DataEntry(data), Len(types) + 1)
      BY <2>1, LeafEntries
    <2>3. /\ [GraphNext]_types /\ Ids(types) \subseteq Ids(types')
          /\ Len(types) + 1 \in Ids(types')
      BY <1>3, <2>2, AddEntry DEF Inv, UnificationInv
    <2>4. UsesUnify
      BY <1>1, <1>3, <2>3, TopParts DEF UsesUnify
    <2>5. KnowledgeInv'
      BY <1>1, <2>3, KnowledgeKept DEF Inv, KnowledgeInv, knowledge
    <2>6. /\ BodyCalls = <<a, b>> /\ a \in D /\ b \in D
          /\ NodesRead(program, a) = {} /\ NodesRead(program, b) = {Node.body}
          /\ Produces(a, Node.body) /\ \A n : ~Produces(Top, n)
          /\ Node.pattern \in OfKind(program, Patterns)
      BY <1>1, <2>3, BranchCalls
    <2>7. c \in D /\ NodesRead(program, c) = {}
      <3>1. Node.pattern \in OfKind(program, {"constructor_pattern"})
        BY <1>1, <2>6 DEF OfKind, Pattern
      <3>2. UNCHANGED <<program, resolved>>
        BY <1>1 DEF Running, analysis
      <3>3. Node.pattern \in Matched'
        BY <1>2, <1>3, <3>1, <3>2 DEF Matched
      <3> QED BY <3>3 DEF CallSet, NodesRead, Call
    <2> HIDE DEF a, b, c, D
    <2>8. <<c, a, b>> \in Seq(D) /\ Ordered(program, <<c, a, b>>, DOMAIN typeOf')
      BY <2>6, <2>7, ThreeCalls
    <2>9. work' = <<c, a, b>> \o Tail(work)
      <3>1. <<c>> \o <<a, b>> = <<c, a, b>>
        BY ConsTwo
      <3> QED BY <1>3, <2>6, <3>1 DEF Then
    <2>10. Inv'
      BY <1>1, <1>2, <2>3, <2>4, <2>5, <2>6, <2>8, <2>9, StepKeeps DEF D
    <2> QED BY <2>3, <2>4, <2>10 DEF Keeps
  <1>4. CASE Then(BodyCalls) /\ Proceed /\ types' = types
    <2>1. KnowledgeInv' /\ UsesUnify
      BY <1>1, <1>4 DEF Inv, KnowledgeInv, knowledge, UsesUnify
    <2>2. /\ BodyCalls = <<a, b>> /\ a \in D /\ b \in D
          /\ NodesRead(program, a) = {} /\ NodesRead(program, b) = {Node.body}
          /\ Produces(a, Node.body) /\ \A n : ~Produces(Top, n)
      BY <1>1, <1>4, BranchCalls
    <2> HIDE DEF a, b, D
    <2>3. <<a, b>> \in Seq(D) /\ Ordered(program, <<a, b>>, DOMAIN typeOf')
      BY <2>2, TwoCalls
    <2>4. work' = <<a, b>> \o Tail(work)
      BY <1>4, <2>2 DEF Then
    <2>5. Inv'
      BY <1>1, <1>2, <1>4, <2>1, <2>2, <2>3, <2>4, StepKeeps DEF D
    <2> QED BY <1>4, <2>1, <2>5 DEF Keeps
  <1> QED BY <1>1, <1>3, <1>4

(* A nonempty set of numbers up to n has a greatest one. *)
LEMMA GreatestElement ==
  ASSUME NEW n \in Nat, NEW K \in SUBSET (1..n), K # {}
  PROVE  \E k \in K : \A j \in K : j <= k
  <1> DEFINE L == {i \in Nat : n - i \in K}
  <1>1. PICK k \in K : TRUE
    OBVIOUS
  <1>2. n - k \in L
    BY <1>1
  <1>3. L \in SUBSET Nat /\ L # {}
    BY <1>2
  <1> HIDE DEF L
  <1>4. PICK i \in L : \A j \in L : i <= j
    BY <1>3, LeastElement
  <1>5. n - i \in K /\ i \in Nat
    BY <1>4 DEF L
  <1>6. \A j \in K : n - j \in L
    BY DEF L
  <1>7. \A j \in K : j <= n - i
    BY <1>4, <1>5, <1>6, SMTT(30), Zenon
  <1> QED BY <1>5, <1>7

LEMMA InferPatternArgumentsKeeps ==
  ASSUME Inv, InferPatternArguments
  PROVE  Keeps
  <1> DEFINE arguments == Node.arguments
             fields == constructors[resolved[Top.node]].fields
             Id(k) == GetSymbolInNodeScope(Top.node, arguments[k], "pattern_variable")
             places == {k \in DOMAIN arguments : \A j \in 1..k : Id(j) # S!NoSymbol}
             named == {Id(k) : k \in places}
             last(s) == CHOOSE k \in places :
                          Id(k) = s /\ \A j \in places : Id(j) = s => j <= k
             typed == [s \in DOMAIN symbolTypes \cup named |->
                         IF s \in named THEN fields[last(s)] ELSE symbolTypes[s]]
  <1>1. /\ Running("arguments") /\ UsesUnify /\ Then(<< >>)
        /\ UNCHANGED <<types, typeOf, constructors, functions, table>>
        /\ \/ /\ Len(arguments) = Len(fields)
              /\ symbolTypes' = typed /\ diagnosed' = diagnosed
           \/ diagnosed' = TRUE /\ symbolTypes' = symbolTypes
    BY DEF InferPatternArguments, UsesUnify
  <1>2. diagnosed' \in BOOLEAN
    BY <1>1, DiagnosedType
  <1>3. /\ arguments \in Seq(LowerNames) /\ fields \in Seq(Ids(types))
        /\ program \in Programs
    <2>1. /\ Top.node \in OfKind(program, {"constructor_pattern"})
          /\ resolved[Top.node] \in DOMAIN constructors
      <3>1. Running("arguments")
        BY <1>1
      <3>2. Top.node \in Matched
        BY <3>1, TopParts
      <3> HIDE DEF typed, last, named, places, Id, fields, arguments
      <3> QED BY <3>2, SMTT(30), Zenon DEF Matched
    <2>2. fields \in Seq(Ids(types))
      BY <2>1 DEF Inv, KnowledgeInv
    <2>3. program \in Programs
      BY DEF Inv
    <2>4. arguments \in Seq(LowerNames)
      BY <2>1, <2>3, PatternParts, SMTT(30), Zenon DEF Node
    <2> QED BY <2>2, <2>3, <2>4
  <1>4. \A s \in DOMAIN symbolTypes' : symbolTypes'[s] \in Ids(types')
    <2>1. \A s \in DOMAIN symbolTypes : symbolTypes[s] \in Ids(types')
      BY <1>1 DEF Inv, KnowledgeInv
    <2>2. CASE symbolTypes' = symbolTypes
      BY <2>1, <2>2
    <2>3. CASE Len(arguments) = Len(fields) /\ symbolTypes' = typed
      <3> DEFINE n == Len(arguments)
      <3>1. /\ n \in Nat /\ DOMAIN arguments = 1..n
            /\ \A k \in 1..n : fields[k] \in Ids(types')
        <4> HIDE DEF arguments, fields
        <4> QED BY <1>1, <1>3, <2>3
      <3>2. places \in SUBSET (1..n)
        BY <3>1
      <3> HIDE DEF places, arguments, fields, Id
      <3>3. ASSUME NEW s \in named PROVE fields[last(s)] \in Ids(types')
        <4> DEFINE K == {k \in places : Id(k) = s}
        <4>1. K \in SUBSET (1..n) /\ K # {}
          BY <3>2, <3>3
        <4>2. \E k \in K : \A j \in K : j <= k
          <5> HIDE DEF K, n
          <5> QED BY <3>1, <4>1, GreatestElement
        <4>3. \E k \in places : Id(k) = s /\ \A j \in places : Id(j) = s => j <= k
          BY <4>2
        <4>4. last(s) \in places
          BY <4>3, SMTT(30), Zenon
        <4> HIDE DEF last
        <4> QED BY <3>1, <3>2, <4>4
      <3> HIDE DEF last, named
      <3> QED BY <2>1, <2>3, <3>3
    <2> QED BY <1>1, <2>2, <2>3
  <1> HIDE DEF typed, last, named, places, Id, fields, arguments
  <1>5. KnowledgeInv'
    <2>1. UNCHANGED <<types, typeOf, constructors, functions>>
      BY <1>1
    <2>2. KnowledgeInv
      BY DEF Inv
    <2>3. Ids(types') = Ids(types)
      BY <2>1
    <2> QED BY <1>4, <2>1, <2>2, <2>3, SMTT(30), Zenon DEF KnowledgeInv
  <1>6. Inv'
    BY <1>1, <1>2, <1>5, ReturnKeeps DEF Producers
  <1> QED BY <1>1, <1>6, SMTT(30), Zenon DEF Keeps

-----------------------------------------------------------------------------
(* finalizeTypes materializes, which only compresses paths. *)
LEMMA FinalizeTypesKeeps ==
  ASSUME Inv, FinalizeTypes
  PROVE  Keeps
  <1>1. /\ Running("finalize") /\ UsesUnify /\ Then(<< >>)
        /\ UNCHANGED <<typeOf, knowledge>>
        /\ \E W : types' = Resolve(types, W)
        /\ diagnosed' \in BOOLEAN
    BY DiagnosedType DEF FinalizeTypes, UsesUnify
  <1>2. WellFormed(types)
    BY DEF Inv, UnificationInv
  <1>3. Compress
    BY <1>1, <1>2, ResolveRedirects DEF Compress
  <1>4. [GraphNext]_types
    BY <1>3 DEF GraphNext
  <1>5. Ids(types) \subseteq Ids(types')
    BY <1>2, <1>4, GraphStep
  <1>6. KnowledgeInv' /\ UNCHANGED constructors
    BY <1>1, <1>5, KnowledgeKept DEF Inv, KnowledgeInv, knowledge
  <1>7. Inv'
    BY <1>1, <1>4, <1>6, ReturnKeeps DEF Producers
  <1> QED BY <1>1, <1>4, <1>7 DEF Keeps

LEMMA CheckFunctionRestrictionsKeeps ==
  ASSUME Inv, CheckFunctionRestrictions
  PROVE  Keeps
  <1>1. /\ Running("restrictions") /\ UsesUnify /\ Then(<< >>)
        /\ UNCHANGED <<types, typeOf, knowledge, table>>
        /\ diagnosed' \in BOOLEAN
    BY DiagnosedType DEF CheckFunctionRestrictions, UsesUnify
  <1>2. KnowledgeInv' /\ UNCHANGED constructors
    BY <1>1 DEF Inv, KnowledgeInv, knowledge
  <1>3. Inv'
    BY <1>1, <1>2, ReturnKeeps DEF Producers
  <1> QED BY <1>1, <1>3 DEF Keeps

(* Name resolution runs before the table is there. *)
LEMMA ResolveNamesKeeps ==
  ASSUME Inv, ResolveNames
  PROVE  Inv' /\ UNCHANGED unification
  <1>1. /\ scoping # << >> /\ S!Next
        /\ UNCHANGED unification /\ UNCHANGED <<work, typeOf, knowledge>>
    BY DEF ResolveNames
  <1>2. ScopesInv' /\ program' = program
    BY <1>1, ScopingStep DEF Inv
  <1>3. UnificationInv' /\ KnowledgeInv'
    BY <1>1 DEF Inv, UnificationInv, CallsOK, KnowledgeInv, knowledge, unification
  <1>4. work' = <<Call("analyze", NoNode)>>
    BY <1>1 DEF Inv, WorkInv
  <1> DEFINE c == Call("analyze", NoNode)
             D == CallSet(program, Ids(types), Matched)'
  <1>5. c \in D /\ NodesRead(program', c) = {}
    BY DEF CallSet, Call, NodesRead
  <1> HIDE DEF c, D
  <1>6. <<c>> \in Seq(D) /\ DOMAIN <<c>> = {1} /\ <<c>>[1] = c
    BY <1>5
  <1>7. Ordered(program', <<c>>, DOMAIN typeOf')
    BY <1>5, <1>6 DEF Ordered
  <1>8. WorkInv'
    BY <1>4, <1>6, <1>7 DEF WorkInv, c, D
  <1> QED BY <1>1, <1>2, <1>3, <1>8 DEF Inv

(* A step of unify while the analyzer waits. *)
LEMMA TryUnifyStepKeeps ==
  ASSUME Inv, TryUnifyStep
  PROVE  Inv' /\ GraphNext
  <1>1. TryUnify /\ UNCHANGED analysis /\ UNCHANGED <<work, typeOf, knowledge, table>>
    BY DEF TryUnifyStep
  <1>2. UnificationInv' /\ GraphNext
    BY <1>1, TryUnifyKeepsCalls, TryUnifyIsGraphStep DEF Inv
  <1>3. Ids(types) \subseteq Ids(types')
    BY <1>2, GraphStep DEF Inv, UnificationInv
  <1>4. /\ UNCHANGED <<program, scoping, scopes, symbols, resolved>>
        /\ UNCHANGED <<symbolTypes, constructors, functions>>
    BY <1>1 DEF analysis, knowledge
  <1>5. ScopesInv' /\ program' \in Programs
    BY <1>4 DEF Inv, ScopesInv, ScopeRecord, S!RootScope
  <1>6. KnowledgeInv'
    BY <1>1, <1>3, <1>4, KnowledgeKept DEF Inv, KnowledgeInv
  <1>7. WorkInv'
    <2> DEFINE C == CallSet(program, Ids(types), Matched)
               D == CallSet(program, Ids(types), Matched)'
    <2>1. Matched' = Matched
      BY <1>4 DEF Matched
    <2>2. D = CallSet(program, Ids(types'), Matched)
      BY <1>4, <2>1
    <2>3. C \subseteq D
      BY <1>3, <2>2, CallSetGrows
    <2>4. /\ work \in Seq(C) /\ Ordered(program, work, DOMAIN typeOf)
          /\ scoping # << >> => work = <<Call("analyze", NoNode)>>
      BY DEF Inv, WorkInv
    <2> HIDE DEF C, D
    <2>5. work \in Seq(D)
      BY <2>3, <2>4
    <2>6. Ordered(program', work', DOMAIN typeOf')
      BY <1>1, <1>4, <2>4
    <2> QED BY <1>1, <1>4, <2>4, <2>5, <2>6 DEF WorkInv, D
  <1> QED BY <1>2, <1>5, <1>6, <1>7 DEF Inv

(* Every step, by the action it is of. *)
LEMMA StepCases ==
  ASSUME Inv, [Next]_vars
  PROVE  \/ Keeps
         \/ TryUnifyStep
         \/ Inv' /\ UNCHANGED unification
  <1>1. CASE ResolveNames
    BY <1>1, ResolveNamesKeeps
  <1>2. CASE Analyze \/ RegisterBuiltins \/ RegisterDataType \/ RegisterConstructor
    BY <1>2, AnalyzeKeeps, RegisterBuiltinsKeeps, RegisterDataTypeKeeps,
       RegisterConstructorKeeps
  <1>3. CASE PrepareFunctionSignature \/ InferFunctionBody \/ Unify
    BY <1>3, PrepareFunctionSignatureKeeps, InferFunctionBodyKeeps, UnifyKeeps
  <1>4. CASE \/ InferIntLiteral \/ InferVariable \/ InferParts
             \/ InferBinaryOperator \/ InferOperatorResult \/ InferApplication
    BY <1>4, InferIntLiteralKeeps, InferVariableKeeps, InferPartsKeeps,
       InferBinaryOperatorKeeps, InferApplicationKeeps
  <1>5. CASE \/ InferCaseExpression \/ InferVariablePattern \/ InferConstructorPattern
             \/ InferPatternArguments \/ FinalizeTypes \/ CheckFunctionRestrictions
    BY <1>5, InferCaseExpressionKeeps, InferVariablePatternKeeps,
       InferConstructorPatternKeeps, InferPatternArgumentsKeeps,
       FinalizeTypesKeeps, CheckFunctionRestrictionsKeeps
  <1>6. CASE UNCHANGED vars
    <2>1. /\ UNCHANGED unification
          /\ UNCHANGED <<program, scoping, scopes, symbols, resolved>>
          /\ UNCHANGED <<symbolTypes, constructors, functions, work, typeOf>>
      BY <1>6 DEF vars, analysis, knowledge
    <2>2. UnificationInv' /\ KnowledgeInv' /\ UNCHANGED types
      BY <2>1 DEF Inv, UnificationInv, CallsOK, KnowledgeInv, unification
    <2>3. ScopesInv' /\ program' \in Programs
      BY <2>1 DEF Inv, ScopesInv, ScopeRecord, S!RootScope
    <2>4. Matched' = Matched
      BY <2>1 DEF Matched
    <2>5. WorkInv'
      BY <2>1, <2>2, <2>4 DEF Inv, WorkInv
    <2> QED BY <2>1, <2>2, <2>3, <2>5 DEF Inv
  <1> QED BY <1>1, <1>2, <1>3, <1>4, <1>5, <1>6 DEF Next, Done

LEMMA InitInv == Init => Inv
  <1> SUFFICES ASSUME Init PROVE Inv
    OBVIOUS
  <1>1. program \in Programs
    BY DEF Init, S!Init
  <1>2. ScopesInv
    <2> DEFINE e == S!EmptyScope(S!NoScope, S!NoNode)
    <2>1. scopes = <<e>> /\ symbols = << >>
      BY DEF Init, S!Init
    <2>2. ScopeRecord(e)
      BY DEF ScopeRecord, S!EmptyScope
    <2> HIDE DEF e
    <2>3. <<e>> \in Seq({e}) /\ DOMAIN <<e>> = {1} /\ <<e>>[1] = e
      OBVIOUS
    <2>4. symbols \in Seq({})
      BY <2>1
    <2>5. \A s \in DOMAIN scopes : ScopeRecord(scopes[s])
      BY <2>1, <2>2, <2>3
    <2>6. \E P : scopes \in Seq(P)
      BY <2>1, <2>3
    <2>7. \E P : symbols \in Seq(P)
      BY <2>4
    <2>8. S!RootScope \in DOMAIN scopes
      BY <2>1, <2>3 DEF S!RootScope
    <2> QED BY <2>5, <2>6, <2>7, <2>8 DEF ScopesInv
  <1>3. UnificationInv
    <2>1. WellFormed(types)
      BY EmptyWellFormed DEF Init, UnificationInit, GraphInit
    <2>2. diagnosed \in BOOLEAN
      BY Zenon DEF Init, UnificationInit
    <2> QED BY <2>1, <2>2 DEF Init, UnificationInit, UnificationInv, CallsOK
  <1>4. KnowledgeInv
    BY DEF Init, KnowledgeInv
  <1>5. WorkInv
    <2> DEFINE c == Call("analyze", NoNode)
               D == CallSet(program, Ids(types), Matched)
    <2>1. c \in D /\ NodesRead(program, c) = {} /\ work = <<c>>
      BY DEF CallSet, Call, NodesRead, Init
    <2> HIDE DEF c, D
    <2>2. <<c>> \in Seq(D) /\ DOMAIN <<c>> = {1} /\ <<c>>[1] = c
      BY <2>1
    <2> QED BY <2>1, <2>2 DEF WorkInv, Ordered, c, D
  <1> QED BY <1>1, <1>2, <1>3, <1>4, <1>5 DEF Inv

LEMMA AnalysisInvariant == Spec => []Inv
  <1>1. Inv /\ [Next]_vars => Inv'
    BY StepCases, TryUnifyStepKeeps DEF Keeps
  <1> QED BY <1>1, InitInv, PTL DEF Spec

-----------------------------------------------------------------------------
(***************************************************************************)
(* Whatever program is analyzed, every id that the analyzer keeps is in    *)
(* the table, and a type is read only after it has been inferred.          *)
(***************************************************************************)
THEOREM AnalysisTypeOK == Spec => []TypeOK
  <1>1. Inv => TypeOK
    <2> SUFFICES ASSUME Inv PROVE TypeOK
      OBVIOUS
    <2>1. TypesOK /\ CallsOK
      BY DEF Inv, UnificationInv, TypesOK, WellFormed, InRange
    <2> DEFINE C == CallSet(program, Ids(types), Matched)
    <2>2. \A k \in DOMAIN work : work[k] \in C
      <3>1. work \in Seq(C)
        BY DEF Inv, WorkInv
      <3> HIDE DEF C
      <3> QED BY <3>1
    <2>3. ASSUME NEW c \in C PROVE Carries(c) \subseteq Ids(types)
      BY DEF CallSet, Carries
    <2>4. ASSUME NEW k \in DOMAIN work, NEW n \in Reads(work[k])
          PROVE  TypedBefore(n, k)
      <3>1. n \in NodesRead(program, work[k])
        BY <2>4 DEF Reads, NodesRead
      <3>2. n \in DOMAIN typeOf \/ \E j \in 1..(k - 1) : Produces(work[j], n)
        BY <3>1 DEF Inv, WorkInv, Ordered
      <3> QED BY <3>2 DEF TypedBefore, Produces
    <2> HIDE DEF C
    <2> QED BY <2>1, <2>2, <2>3, <2>4 DEF TypeOK, Inv, KnowledgeInv
  <1> QED BY <1>1, AnalysisInvariant, PTL

(***************************************************************************)
(* Type inference uses types_ only as the abstract table allows, from the  *)
(* first type it makes to materialize.                                     *)
(***************************************************************************)
THEOREM AnalysisRefinesGraph == Spec => GraphSpec
  <1>1. Init => GraphInit
    BY DEF Init, UnificationInit
  <1>2. Inv /\ [Next]_vars => [GraphNext]_types
    BY StepCases, TryUnifyStepKeeps DEF Keeps, unification
  <1> QED BY <1>1, <1>2, AnalysisInvariant, PTL DEF Spec, GraphSpec

(* No program, well-typed or not, makes inference build a cyclic type. *)
THEOREM AnalysisAcyclic == Spec => []Acyclic
  BY AnalysisRefinesGraph, GraphSafety, PTL

(***************************************************************************)
(* Once materialize can answer for an id with a concrete type, the rest of *)
(* the analysis, errors included, leaves the answer as it is.              *)
(***************************************************************************)
THEOREM AnalysisKeepsConcreteTypes == Spec => ConcreteTypesAreFinal
  BY AnalysisRefinesGraph, GraphKeepsConcreteTypes, PTL

(***************************************************************************)
(* Each unify of inference that reports no mismatch has made its two types *)
(* equal, whatever the program.                                            *)
(***************************************************************************)
THEOREM AnalysisSound == Spec => []Sound
  <1>1. Init => SoundInv
    BY DEF Init, UnificationInit, SoundInv
  <1>2. Inv /\ SoundInv /\ [Next]_vars => SoundInv'
    <2> SUFFICES ASSUME Inv, SoundInv, [Next]_vars PROVE SoundInv'
      OBVIOUS
    <2>1. CASE UsesUnify
      <3>1. CASE Proceed
        BY <3>1 DEF Proceed, SoundInv
      <3>2. ASSUME NEW a \in Ids(types'), NEW e \in Ids(types'), CallUnify(a, e)
            PROVE  SoundInv'
        BY <3>2, CallUnifyKeepsSoundInv
      <3> QED BY <2>1, <3>1, <3>2 DEF UsesUnify
    <2>2. CASE TryUnifyStep
      BY <2>2, TryUnifyKeepsSoundInv DEF TryUnifyStep, Inv
    <2>3. CASE UNCHANGED unification
      BY <2>3 DEF unification, SoundInv
    <2> QED BY <2>1, <2>2, <2>3, StepCases DEF Keeps
  <1>3. Inv /\ SoundInv => Sound
    BY SoundAtTheEnd DEF Inv
  <1> QED BY <1>1, <1>2, <1>3, AnalysisInvariant, PTL DEF Spec
==============================================================================
