---------------------------- MODULE ScopesProofs ----------------------------
(***************************************************************************)
(* Name resolution, for every program: ids are in range, the scopes are a  *)
(* tree, every symbol has one scope, and nothing declared or resolved ever *)
(* changes.                                                                *)
(***************************************************************************)
EXTENDS Scopes, SequenceTheorems, TLAPS, WellFoundedInduction

(* Functions from part of D to R. *)
Maps(D, R) == UNION {[E -> R] : E \in SUBSET D}

ScopeSet == [parent : Nat, owner : NodeIds(program) \cup {NoNode},
             symbols : Maps(Names, Nat), children : Seq(Nat)]

ChildrenInRange ==
  \A s \in ScopeIds : \A k \in DOMAIN scopes[s].children :
    scopes[s].children[k] \in ScopeIds

(* The invariant: types, and what makes the scopes a tree. *)
Inv ==
  /\ TypeOK
  /\ scopes \in Seq(ScopeSet)
  /\ RootScope \in ScopeIds
  /\ ChildrenInRange
  /\ ScopesFormTree
  /\ OneScopePerSymbol

-----------------------------------------------------------------------------
(* A nonempty set of natural numbers has a least one. *)
LEMMA LeastElement ==
  ASSUME NEW S \in SUBSET Nat, S # {}
  PROVE  \E i \in S : \A j \in S : i <= j
  <1>1. PICK i \in S : \A j \in S : ~(<<j, i>> \in OpToRel(<, Nat))
    BY NatLessThanWellFounded, WFMin
  <1>2. \A j \in S : ~(j < i)
    BY <1>1 DEF OpToRel
  <1> QED BY <1>2

-----------------------------------------------------------------------------
(* What the grammar says of the nodes of a program under study. *)
LEMMA ProgramFacts ==
  ASSUME NEW p \in Programs
  PROVE  /\ NodeIds(p) = 1..Len(p.nodes) /\ NodeIds(p) \subseteq Nat
         /\ \A n \in NodeIds(p) : IsNode(p, n)
         /\ p.definitions \in Seq(OfKind(p, {"defn", "data"}))
  BY ProgramsAssumption DEF IsProgram, NodeIds

(* A function definition has lower-case names and an expression. *)
LEMMA DefinitionNode ==
  ASSUME NEW p \in Programs, NEW d \in OfKind(p, {"defn"})
  PROVE  /\ p.nodes[d].name \in Names
         /\ p.nodes[d].parameters \in Seq(Names)
         /\ p.nodes[d].body \in OfKind(p, Expressions)
  <1>1. IsNode(p, d) /\ p.nodes[d].kind = "defn" /\ d \in NodeIds(p) /\ NodeIds(p) = 1..Len(p.nodes)
    BY ProgramFacts DEF OfKind
  <1>2. /\ p.nodes[d].name \in LowerNames /\ p.nodes[d].parameters \in Seq(LowerNames)
        /\ p.nodes[d].body \in Below(p, d, Expressions)
    BY <1>1 DEF IsNode
  <1>3. LowerNames \subseteq Names /\ Below(p, d, Expressions) \subseteq OfKind(p, Expressions)
    BY <1>1 DEF LowerNames, Below, OfKind
  <1> QED BY <1>2, <1>3

(* A data type has an upper-case name and constructors. *)
LEMMA DataNode ==
  ASSUME NEW p \in Programs, NEW d \in OfKind(p, {"data"})
  PROVE  /\ p.nodes[d].name \in Names
         /\ p.nodes[d].constructors \in Seq(OfKind(p, {"constructor"}))
  <1>1. IsNode(p, d) /\ p.nodes[d].kind = "data" /\ d \in NodeIds(p) /\ NodeIds(p) = 1..Len(p.nodes)
    BY ProgramFacts DEF OfKind
  <1>2. /\ p.nodes[d].name \in UpperNames
        /\ p.nodes[d].constructors \in Seq(Below(p, d, {"constructor"}))
    BY <1>1 DEF IsNode
  <1>3. Below(p, d, {"constructor"}) \subseteq OfKind(p, {"constructor"})
    BY <1>1 DEF Below, OfKind
  <1> QED BY <1>2, <1>3, NamesAssumption

(* A constructor has a name. *)
LEMMA ConstructorNode ==
  ASSUME NEW p \in Programs, NEW c \in OfKind(p, {"constructor"})
  PROVE  p.nodes[c].name \in Names
  <1>1. IsNode(p, c) /\ p.nodes[c].kind = "constructor"
    BY ProgramFacts DEF OfKind
  <1>2. p.nodes[c].name \in UpperNames
    BY <1>1 DEF IsNode
  <1> QED BY <1>2, NamesAssumption

(* A case has an expression to look at, and branches. *)
LEMMA CaseNode ==
  ASSUME NEW p \in Programs, NEW n \in OfKind(p, {"case"})
  PROVE  /\ p.nodes[n].scrutinee \in OfKind(p, Expressions)
         /\ p.nodes[n].branches \in Seq(OfKind(p, {"branch"}))
  <1>1. IsNode(p, n) /\ p.nodes[n].kind = "case" /\ n \in NodeIds(p) /\ NodeIds(p) = 1..Len(p.nodes)
    BY ProgramFacts DEF OfKind
  <1>2. /\ p.nodes[n].scrutinee \in Below(p, n, Expressions)
        /\ p.nodes[n].branches \in Seq(Below(p, n, {"branch"}))
    BY <1>1 DEF IsNode
  <1>3. /\ Below(p, n, Expressions) \subseteq OfKind(p, Expressions)
        /\ Below(p, n, {"branch"}) \subseteq OfKind(p, {"branch"})
    BY <1>1 DEF Below, OfKind
  <1> QED BY <1>2, <1>3

(* A branch has a pattern, which binds names, and an expression. *)
LEMMA BranchNode ==
  ASSUME NEW p \in Programs, NEW n \in OfKind(p, {"branch"})
  PROVE  /\ p.nodes[n].pattern \in OfKind(p, Patterns)
         /\ p.nodes[n].body \in OfKind(p, Expressions)
         /\ PatternNames(p, p.nodes[n].pattern) \in Seq(Names)
  <1> DEFINE q == p.nodes[n].pattern
  <1>1. IsNode(p, n) /\ p.nodes[n].kind = "branch" /\ n \in NodeIds(p) /\ NodeIds(p) = 1..Len(p.nodes)
    BY ProgramFacts DEF OfKind
  <1>2. q \in Below(p, n, Patterns) /\ p.nodes[n].body \in Below(p, n, Expressions)
    BY <1>1 DEF IsNode
  <1>3. q \in OfKind(p, Patterns) /\ p.nodes[n].body \in OfKind(p, Expressions)
    BY <1>1, <1>2 DEF Below, OfKind
  <1> HIDE DEF q
  <1>4. IsNode(p, q) /\ p.nodes[q].kind \in Patterns
    BY <1>3, ProgramFacts DEF OfKind
  <1>5. CASE p.nodes[q].kind = "variable_pattern"
    <2>1. p.nodes[q].name \in Names
      BY <1>4, <1>5 DEF IsNode, LowerNames
    <2> QED BY <1>3, <1>5, <2>1 DEF PatternNames, q
  <1>6. CASE p.nodes[q].kind = "constructor_pattern"
    <2>1. p.nodes[q].arguments \in Seq(Names)
      BY <1>4, <1>6 DEF IsNode, LowerNames
    <2> QED BY <1>3, <1>6, <2>1 DEF PatternNames, q
  <1> QED BY <1>4, <1>5, <1>6 DEF Patterns

(* The children of an operator or an application are expressions. *)
LEMMA OperandNodes ==
  ASSUME NEW p \in Programs,
         NEW n \in OfKind(p, {"int", "operator", "application"})
  PROVE  Children(p, n) \in Seq(OfKind(p, Expressions))
  <1>1. /\ IsNode(p, n) /\ p.nodes[n].kind \in {"int", "operator", "application"}
        /\ n \in NodeIds(p) /\ NodeIds(p) = 1..Len(p.nodes)
    BY ProgramFacts DEF OfKind
  <1>2. /\ Below(p, n, Expressions) \subseteq OfKind(p, Expressions)
        /\ Above(p, n, Expressions) \subseteq OfKind(p, Expressions)
    BY <1>1 DEF Below, Above, OfKind
  <1>3. CASE p.nodes[n].kind = "int"
    BY <1>3 DEF Children
  <1>4. CASE p.nodes[n].kind = "operator"
    <2>1. /\ p.nodes[n].left \in Below(p, n, Expressions)
          /\ p.nodes[n].right \in Above(p, n, Expressions)
      BY <1>1, <1>4 DEF IsNode
    <2> QED BY <1>2, <1>4, <2>1 DEF Children
  <1>5. CASE p.nodes[n].kind = "application"
    <2>1. {p.nodes[n].function, p.nodes[n].argument} \subseteq Below(p, n, Expressions)
      BY <1>1, <1>5 DEF IsNode
    <2> QED BY <1>2, <1>5, <2>1 DEF Children
  <1> QED BY <1>1, <1>3, <1>4, <1>5

-----------------------------------------------------------------------------
(* f is what a search through parents from c finds, for every c. *)
Searches(f, N, parent, found) ==
  f = [c \in 0..N |-> IF c = 0 THEN 0 ELSE IF found[c] # 0 THEN found[c]
                     ELSE f[parent[c]]]

(***************************************************************************)
(* A search through parents that are always smaller has a function to      *)
(* define it, built up from the root.                                      *)
(***************************************************************************)
LEMMA SearchExists ==
  ASSUME NEW N \in Nat, NEW parent, NEW found,
         \A c \in 1..N : parent[c] \in 0..(c - 1)
  PROVE  \E f : Searches(f, N, parent, found)
  <1> DEFINE Is(f, n) == Searches(f, n, parent, found)
             Missing == {n \in 0..N : ~\E f : Is(f, n)}
  <1>1. SUFFICES ASSUME Missing # {} PROVE FALSE
    OBVIOUS
  <1>2. PICK n \in Missing : \A m \in Missing : n <= m
    <2>1. Missing \in SUBSET Nat
      OBVIOUS
    <2> HIDE DEF Missing
    <2> QED BY <1>1, <2>1, LeastElement
  <1>3. \A m \in 0..(n - 1) : \E f : Is(f, m)
    <2> TAKE m \in 0..(n - 1)
    <2>1. m \in 0..N /\ ~(n <= m)
      OBVIOUS
    <2>2. m \notin Missing
      <3> HIDE DEF Missing
      <3> QED BY <1>2, <2>1
    <2> HIDE DEF Is
    <2> QED BY <2>1, <2>2
  <1>4. CASE n = 0
    <2>1. Is([c \in 0..0 |-> 0], 0)
      BY DEF Searches
    <2> QED BY <1>2, <1>4, <2>1
  <1>5. CASE n > 0
    <2>1. n - 1 \in 0..N /\ n \in 1..N
      BY <1>5
    <2>2. PICK f : Is(f, n - 1)
      <3> HIDE DEF Is
      <3> QED BY <1>3, <2>1, <1>5
    <2> DEFINE h == [c \in 0..n |-> IF c = 0 THEN 0
                                   ELSE IF found[c] # 0 THEN found[c]
                                   ELSE f[parent[c]]]
    <2>3. \A c \in 0..(n - 1) : h[c] = f[c]
      BY <2>1, <2>2 DEF Searches
    <2>4. \A c \in 1..n : parent[c] \in 0..(n - 1)
      BY <2>1
    <2>5. \A c \in 1..n : h[parent[c]] = f[parent[c]]
      BY <2>3, <2>4
    <2>6. h = [c \in 0..n |-> IF c = 0 THEN 0 ELSE IF found[c] # 0 THEN found[c]
                             ELSE h[parent[c]]]
      <3>1. \A c \in 0..n : h[c] = IF c = 0 THEN 0 ELSE IF found[c] # 0 THEN found[c]
                                  ELSE h[parent[c]]
        BY <2>5, <2>1
      <3> QED BY <3>1, Zenon
    <2> QED BY <1>2, <2>6 DEF Searches
  <1> QED BY <1>4, <1>5

(* f satisfies the recursive definition in GetResolvedSymbolId. *)
IsSearch(f, name) ==
  f = [c \in NoScope..Len(scopes) |->
         IF c = NoScope THEN NoSymbol
         ELSE IF GetLocalSymbolId(c, name) # NoSymbol THEN GetLocalSymbolId(c, name)
         ELSE f[scopes[c].parent]]

(* What getResolvedSymbolId returns is given by a search. *)
LEMMA SearchDef ==
  ASSUME NEW s, NEW name, NEW f, IsSearch(f, name)
  PROVE  \E g : IsSearch(g, name) /\ GetResolvedSymbolId(s, name) = g[s]
  <1>1. \E g : g = [c \in NoScope..Len(scopes) |->
                    IF c = NoScope THEN NoSymbol
                    ELSE IF GetLocalSymbolId(c, name) # NoSymbol
                    THEN GetLocalSymbolId(c, name)
                    ELSE g[scopes[c].parent]]
    BY DEF IsSearch
  <1> QED BY <1>1, Zenon DEF IsSearch, GetResolvedSymbolId

(* The search through the scopes, from the root out to s. *)
LEMMA SearchFrom ==
  ASSUME Inv, NEW s \in ScopeIds, NEW name
  PROVE  \E g : /\ GetResolvedSymbolId(s, name) = g[s]
                /\ g[NoScope] = NoSymbol
                /\ \A c \in ScopeIds :
                     g[c] = IF GetLocalSymbolId(c, name) # NoSymbol
                            THEN GetLocalSymbolId(c, name) ELSE g[scopes[c].parent]
  <1> DEFINE N == Len(scopes)
             found  == [c \in 1..N |-> GetLocalSymbolId(c, name)]
             parent == [c \in 1..N |-> scopes[c].parent]
  <1>1. /\ N \in Nat \ {0} /\ ScopeIds = 1..N
        /\ \A c \in 1..N : parent[c] \in 0..(c - 1)
    BY DEF Inv, ScopesFormTree, ScopeIds, RootScope, NoScope
  <1>3. PICK f : Searches(f, N, parent, found)
    <2> HIDE DEF N, found, parent
    <2> QED BY <1>1, SearchExists
  <1>4. IsSearch(f, name)
    <2>1. \A c \in 0..N : f[c] = IF c = NoScope THEN NoSymbol
             ELSE IF GetLocalSymbolId(c, name) # NoSymbol THEN GetLocalSymbolId(c, name)
             ELSE f[scopes[c].parent]
      <3>1. \A c \in 0..N : f[c] = IF c = 0 THEN 0 ELSE IF found[c] # 0 THEN found[c]
                                   ELSE f[parent[c]]
        <4> HIDE DEF N, found, parent
        <4> QED BY <1>3 DEF Searches
      <3>2. \A c \in 0..N : c = 0 \/ c \in 1..N
        BY <1>1
      <3> QED BY <3>1, <3>2 DEF NoScope, NoSymbol
    <2>2. f = [c \in 0..N |-> f[c]]
      BY <1>3, Zenon DEF Searches
    <2> QED BY <2>1, <2>2, Zenon DEF IsSearch, NoScope
  <1>5. PICK g : IsSearch(g, name) /\ GetResolvedSymbolId(s, name) = g[s]
    BY <1>4, SearchDef
  <1>6. /\ NoScope \in NoScope..Len(scopes)
        /\ \A c \in ScopeIds : c \in NoScope..Len(scopes) /\ c # NoScope
    BY <1>1 DEF NoScope
  <1> QED BY <1>5, <1>6, ZenonT(40) DEF IsSearch

(* The loop of getResolvedSymbolId finds a symbol there is, or none. *)
LEMMA SearchFinds ==
  ASSUME Inv, NEW s \in ScopeIds, NEW name
  PROVE  GetResolvedSymbolId(s, name) \in SymbolIds \cup {NoSymbol}
  <1>1. PICK g : /\ GetResolvedSymbolId(s, name) = g[s]
                 /\ g[NoScope] = NoSymbol
                 /\ \A c \in ScopeIds :
                      g[c] = IF GetLocalSymbolId(c, name) # NoSymbol
                             THEN GetLocalSymbolId(c, name) ELSE g[scopes[c].parent]
    BY SearchFrom
  <1>2. /\ ScopeIds \subseteq Nat
        /\ \A c \in ScopeIds : /\ ~(c <= scopes[c].parent)
                               /\ scopes[c].parent \in ScopeIds \cup {NoScope}
    <2>1. /\ ScopeIds = 1..Len(scopes) /\ Len(scopes) \in Nat
          /\ \A c \in ScopeIds : scopes[c].parent \in 0..(c - 1)
      BY DEF Inv, ScopesFormTree, ScopeIds, RootScope, NoScope
    <2> QED BY <2>1 DEF NoScope
  <1>3. \A c \in ScopeIds : GetLocalSymbolId(c, name) \in SymbolIds \cup {NoSymbol}
    BY DEF Inv, TypeOK, GetLocalSymbolId
  <1> DEFINE Wrong == {c \in ScopeIds : g[c] \notin SymbolIds \cup {NoSymbol}}
  <1>4. ASSUME Wrong # {} PROVE FALSE
    <2>1. Wrong \in SUBSET Nat
      BY <1>2
    <2>2. PICK c \in Wrong : \A m \in Wrong : c <= m
      <3> HIDE DEF Wrong
      <3> QED BY <1>4, <2>1, LeastElement
    <2>3. g[c] = g[scopes[c].parent]
      BY <1>1, <1>3
    <2>4. scopes[c].parent \in Wrong /\ ~(c <= scopes[c].parent)
      BY <1>1, <1>2, <2>3
    <2> HIDE DEF Wrong
    <2> QED BY <2>2, <2>4
  <1> QED BY <1>1, <1>4

-----------------------------------------------------------------------------
(* The part of the invariant that speaks of scopes and symbols. *)
TreeInv ==
  /\ program \in Programs
  /\ symbols \in Seq(Symbols)
  /\ scopes \in Seq(ScopeSet)
  /\ RootScope \in ScopeIds
  /\ \A s \in ScopeIds : \A name \in DOMAIN scopes[s].symbols :
       scopes[s].symbols[name] \in SymbolIds
  /\ ChildrenInRange
  /\ ScopesFormTree
  /\ OneScopePerSymbol

(* A scope that has been given other children, or another symbol. *)
LEMMA ScopeFacts ==
  ASSUME NEW x \in ScopeSet
  PROVE  /\ x.children \in Seq(Nat) /\ x.symbols \in Maps(Names, Nat)
         /\ \A cs \in Seq(Nat) :
              LET y == [x EXCEPT !.children = cs]
              IN  y \in ScopeSet /\ y.parent = x.parent /\ y.symbols = x.symbols
                  /\ y.children = cs
         /\ \A m \in Maps(Names, Nat) :
              LET y == [x EXCEPT !.symbols = m]
              IN  y \in ScopeSet /\ y.parent = x.parent /\ y.symbols = m
                  /\ y.children = x.children
  BY DEF ScopeSet

(* createScope adds a leaf to the tree and touches no symbol. *)
LEMMA CreateChanges ==
  ASSUME TreeInv, NEW p \in ScopeIds, NEW o \in NodeIds(program),
         CreateScope(p, o), program' = program
  PROVE  /\ scopes' \in Seq(ScopeSet)' /\ Len(scopes') = Len(scopes) + 1
         /\ scopes'[NewScope] = EmptyScope(p, o)
         /\ \A s \in ScopeIds :
              /\ scopes'[s].parent = scopes[s].parent
              /\ scopes'[s].symbols = scopes[s].symbols
              /\ scopes'[s].children = IF s = p THEN Append(scopes[p].children, NewScope)
                                       ELSE scopes[s].children
  <1> DEFINE grown == [scopes EXCEPT ![p].children = Append(@, NewScope)]
  <1>1. /\ scopes \in Seq(ScopeSet) /\ ScopeIds = 1..Len(scopes) /\ Len(scopes) \in Nat
        /\ NewScope = Len(scopes) + 1 /\ ScopeSet' = ScopeSet
    BY DEF TreeInv, ScopeIds, NewScope, ScopeSet
  <1>2. /\ grown \in Seq(ScopeSet) /\ Len(grown) = Len(scopes)
        /\ \A s \in ScopeIds :
             /\ grown[s].parent = scopes[s].parent
             /\ grown[s].symbols = scopes[s].symbols
             /\ grown[s].children = IF s = p THEN Append(scopes[p].children, NewScope)
                                    ELSE scopes[s].children
    <2>1. scopes[p] \in ScopeSet
      BY <1>1
    <2> DEFINE cs      == Append(scopes[p].children, NewScope)
               changed == [scopes[p] EXCEPT !.children = cs]
    <2>2. cs \in Seq(Nat)
      BY <1>1, <2>1, ScopeFacts
    <2>3. /\ changed \in ScopeSet /\ changed.parent = scopes[p].parent
          /\ changed.symbols = scopes[p].symbols
          /\ changed.children = cs
      <3> HIDE DEF cs
      <3> QED BY <2>1, <2>2, ScopeFacts
    <2>4. grown = [scopes EXCEPT ![p] = changed]
      OBVIOUS
    <2>5. p \in 1..Len(scopes)
      BY <1>1
    <2> HIDE DEF changed, grown, cs
    <2>6. grown \in Seq(ScopeSet) /\ Len(grown) = Len(scopes)
      BY <1>1, <2>3, <2>4, <2>5, ExceptSeq
    <2>7. \A s \in ScopeIds : grown[s] = IF s = p THEN changed ELSE scopes[s]
      BY <1>1, <2>4, <2>5, ExceptSeq
    <2>8. \A s \in ScopeIds :
             /\ grown[s].parent = scopes[s].parent
             /\ grown[s].symbols = scopes[s].symbols
             /\ grown[s].children = IF s = p THEN cs ELSE scopes[s].children
      BY <2>3, <2>7
    <2> QED BY <2>6, <2>8 DEF cs
  <1>3. EmptyScope(p, o) \in ScopeSet
    <2>1. << >> \in [{} -> Nat] /\ {} \in SUBSET Names
      OBVIOUS
    <2>2. << >> \in Maps(Names, Nat)
      BY <2>1 DEF Maps
    <2>3. p \in Nat /\ << >> \in Seq(Nat)
      BY <1>1
    <2> QED BY <2>2, <2>3 DEF EmptyScope, ScopeSet
  <1>4. scopes' = Append(grown, EmptyScope(p, o))
    BY DEF CreateScope
  <1> HIDE DEF grown
  <1> QED BY <1>1, <1>2, <1>3, <1>4

(* So it keeps the tree. *)
LEMMA CreateKeepsTree ==
  ASSUME TreeInv, NEW p \in ScopeIds, NEW o \in NodeIds(program),
         CreateScope(p, o), program' = program, symbols' = symbols
  PROVE  TreeInv'
  <1>1. /\ scopes' \in Seq(ScopeSet)' /\ Len(scopes') = Len(scopes) + 1
        /\ scopes'[NewScope] = EmptyScope(p, o)
        /\ \A s \in ScopeIds :
             /\ scopes'[s].parent = scopes[s].parent
             /\ scopes'[s].symbols = scopes[s].symbols
             /\ scopes'[s].children = IF s = p THEN Append(scopes[p].children, NewScope)
                                      ELSE scopes[s].children
    BY CreateChanges
  <1>2. /\ ScopeIds = 1..Len(scopes) /\ Len(scopes) \in Nat /\ NewScope = Len(scopes) + 1
        /\ ScopeIds' = ScopeIds \cup {NewScope} /\ NewScope \notin ScopeIds
        /\ SymbolIds' = SymbolIds /\ RootScope \in ScopeIds
    <2>1. scopes \in Seq(ScopeSet) /\ RootScope \in ScopeIds
      BY DEF TreeInv
    <2>2. ScopeIds = 1..Len(scopes) /\ Len(scopes) \in Nat /\ NewScope = Len(scopes) + 1
      BY <2>1 DEF ScopeIds, NewScope
    <2>3. ScopeIds' = 1..(Len(scopes) + 1)
      BY <1>1 DEF ScopeIds
    <2>4. SymbolIds' = SymbolIds
      BY DEF SymbolIds
    <2> QED BY <2>1, <2>2, <2>3, <2>4
  <1>3. /\ scopes'[NewScope].parent = p /\ scopes'[NewScope].symbols = << >>
        /\ scopes'[NewScope].children = << >>
    BY <1>1 DEF EmptyScope
  <1>a. /\ Len(scopes[p].children) + 1 \in DOMAIN scopes'[p].children
        /\ DOMAIN scopes'[p].children =
             DOMAIN scopes[p].children \cup {Len(scopes[p].children) + 1}
        /\ scopes'[p].children[Len(scopes[p].children) + 1] = NewScope
        /\ \A k \in DOMAIN scopes[p].children :
             scopes'[p].children[k] = scopes[p].children[k]
    <2> DEFINE old == scopes[p].children
    <2>1. old \in Seq(Nat) /\ NewScope \in Nat /\ scopes'[p].children = Append(old, NewScope)
      <3>1. scopes[p] \in ScopeSet
        BY <1>2 DEF TreeInv
      <3>2. old \in Seq(Nat)
        BY <3>1, ScopeFacts
      <3>3. NewScope \in Nat
        BY <1>2
      <3>4. scopes'[p].children = Append(old, NewScope)
        <4> HIDE DEF old
        <4> QED BY <1>1 DEF old
      <3> QED BY <3>2, <3>3, <3>4
    <2> HIDE DEF old
    <2>2. /\ DOMAIN old = 1..Len(old) /\ Len(old) \in Nat
          /\ DOMAIN Append(old, NewScope) = 1..(Len(old) + 1)
          /\ Append(old, NewScope)[Len(old) + 1] = NewScope
          /\ \A k \in 1..Len(old) : Append(old, NewScope)[k] = old[k]
      BY <2>1, AppendProperties
    <2> QED BY <2>1, <2>2 DEF old
  <1>4. ChildrenInRange'
    <2> SUFFICES ASSUME NEW s \in ScopeIds', NEW k \in DOMAIN scopes'[s].children
                 PROVE  scopes'[s].children[k] \in ScopeIds'
      BY DEF ChildrenInRange
    <2>1. CASE s = NewScope
      BY <1>3, <2>1
    <2>2. CASE s = p
      BY <1>2, <1>a, <2>2 DEF TreeInv, ChildrenInRange
    <2>3. CASE s \in ScopeIds /\ s # p
      BY <1>1, <1>2, <2>3 DEF TreeInv, ChildrenInRange
    <2> QED BY <1>2, <2>1, <2>2, <2>3
  <1>5. ScopesFormTree'
    <2>1. scopes'[RootScope].parent = NoScope
      BY <1>1, <1>2 DEF TreeInv, ScopesFormTree
    <2>2. ASSUME NEW s \in ScopeIds' \ {RootScope}
          PROVE  scopes'[s].parent \in 1..(s - 1)
      <3>1. CASE s = NewScope
        BY <1>2, <1>3, <3>1
      <3>2. CASE s \in ScopeIds
        BY <1>1, <3>2 DEF TreeInv, ScopesFormTree
      <3> QED BY <1>2, <3>1, <3>2
    <2>3. ASSUME NEW s \in ScopeIds', NEW c \in ScopeIds'
          PROVE  scopes'[c].parent = s <=>
                   \E k \in DOMAIN scopes'[s].children : scopes'[s].children[k] = c
      <3>1. CASE s = NewScope
        <4>1. scopes'[c].parent # NewScope
          BY <1>1, <1>2, <1>3, <2>1, <2>2 DEF NoScope
        <4> QED BY <1>3, <3>1, <4>1
      <3>2. CASE s \in ScopeIds /\ c = NewScope
        <4>1. \A k \in DOMAIN scopes[s].children : scopes[s].children[k] # NewScope
          BY <1>2, <3>2 DEF TreeInv, ChildrenInRange
        <4>2. CASE s = p
          BY <1>3, <1>a, <3>2, <4>2
        <4>3. CASE s # p
          BY <1>1, <1>3, <3>2, <4>1, <4>3
        <4> QED BY <4>2, <4>3
      <3>3. CASE s \in ScopeIds /\ c \in ScopeIds
        <4>1. (scopes[c].parent = s) <=>
                \E k \in DOMAIN scopes[s].children : scopes[s].children[k] = c
          BY <3>3 DEF TreeInv, ScopesFormTree
        <4>2. CASE s = p
          BY <1>1, <1>2, <1>a, <3>3, <4>1, <4>2
        <4>3. CASE s # p
          BY <1>1, <3>3, <4>1, <4>3
        <4> QED BY <4>2, <4>3
      <3> QED BY <1>2, <3>1, <3>2, <3>3
    <2> QED BY <2>1, <2>2, <2>3 DEF ScopesFormTree
  <1>b. \A s \in ScopeIds' : scopes'[s].symbols = IF s = NewScope THEN << >>
                                                   ELSE scopes[s].symbols
    BY <1>1, <1>2, <1>3
  <1>6. \A s \in ScopeIds' : \A name \in DOMAIN scopes'[s].symbols :
          s \in ScopeIds /\ name \in DOMAIN scopes[s].symbols
    BY <1>2, <1>b
  <1>8. \A s \in ScopeIds' : \A name \in DOMAIN scopes'[s].symbols :
          scopes'[s].symbols[name] \in SymbolIds'
    BY <1>1, <1>2, <1>6, SMTT(30), Zenon DEF TreeInv
  <1>9. OneScopePerSymbol'
    <2> DEFINE Holds(k, s) ==
                 /\ symbols[k].name \in DOMAIN scopes[s].symbols
                 /\ scopes[s].symbols[symbols[k].name] = k
                 /\ \A t \in ScopeIds : \A name \in DOMAIN scopes[t].symbols :
                      scopes[t].symbols[name] = k => t = s /\ name = symbols[k].name
    <2>1. ASSUME NEW k \in SymbolIds, NEW s \in ScopeIds, Holds(k, s)
          PROVE  Holds(k, s)'
      <3>1. /\ symbols[k].name \in DOMAIN scopes'[s].symbols
            /\ scopes'[s].symbols[symbols[k].name] = k
        BY <1>1, <2>1
      <3>2. ASSUME NEW t \in ScopeIds', NEW name \in DOMAIN scopes'[t].symbols,
                   scopes'[t].symbols[name] = k
            PROVE  t = s /\ name = symbols[k].name
        <4>1. t \in ScopeIds /\ name \in DOMAIN scopes[t].symbols
          BY <1>6
        <4>2. scopes[t].symbols[name] = k
          BY <1>1, <3>2, <4>1
        <4> QED BY <2>1, <4>1, <4>2
      <3> QED BY <3>1, <3>2
    <2>2. \A k \in SymbolIds : \E s \in ScopeIds : Holds(k, s)
      BY DEF TreeInv, OneScopePerSymbol
    <2>3. \A k \in SymbolIds' : \E s \in ScopeIds' : Holds(k, s)'
      <3> HIDE DEF Holds
      <3> QED BY <1>2, <2>1, <2>2
    <2> QED BY <2>3 DEF OneScopePerSymbol
  <1>7. symbols' \in Seq(Symbols)'
    BY DEF TreeInv, Symbols
  <1> QED BY <1>1, <1>2, <1>4, <1>5, <1>7, <1>8, <1>9 DEF TreeInv

(* A declaration adds one symbol, under a new name of one scope. *)
LEMMA DeclareChanges ==
  ASSUME TreeInv, NEW s \in ScopeIds, NEW symbol \in Symbols,
         symbol.name \notin DOMAIN scopes[s].symbols,
         Declare(s, symbol), program' = program
  PROVE  /\ symbols' \in Seq(Symbols)' /\ SymbolIds' = SymbolIds \cup {Len(symbols) + 1}
         /\ Len(symbols) + 1 \notin SymbolIds
         /\ symbols'[Len(symbols) + 1] = symbol
         /\ \A k \in SymbolIds : symbols'[k] = symbols[k]
         /\ scopes' \in Seq(ScopeSet)' /\ ScopeIds' = ScopeIds
         /\ \A t \in ScopeIds :
              /\ scopes'[t].parent = scopes[t].parent
              /\ scopes'[t].children = scopes[t].children
              /\ scopes'[t].symbols =
                   IF t = s THEN Put(scopes[s].symbols, symbol.name, Len(symbols) + 1)
                   ELSE scopes[t].symbols
  <1> DEFINE new == Len(symbols) + 1
             map == Put(scopes[s].symbols, symbol.name, new)
             changed == [scopes[s] EXCEPT !.symbols = map]
  <1>1. /\ scopes \in Seq(ScopeSet) /\ ScopeIds = 1..Len(scopes) /\ Len(scopes) \in Nat
        /\ symbols \in Seq(Symbols) /\ SymbolIds = 1..Len(symbols) /\ Len(symbols) \in Nat
        /\ ScopeSet' = ScopeSet /\ Symbols' = Symbols
    BY DEF TreeInv, ScopeIds, ScopeSet, SymbolIds, Symbols
  <1>2. symbols' = Append(symbols, symbol)
    BY DEF Declare
  <1>3. /\ symbols' \in Seq(Symbols) /\ Len(symbols') = new
        /\ symbols'[new] = symbol /\ \A k \in SymbolIds : symbols'[k] = symbols[k]
    BY <1>1, <1>2, AppendProperties
  <1>4. SymbolIds' = SymbolIds \cup {new} /\ new \notin SymbolIds
    BY <1>1, <1>3 DEF SymbolIds
  <1>5. scopes[s] \in ScopeSet /\ s \in 1..Len(scopes)
    BY <1>1
  <1>6. map \in Maps(Names, Nat)
    <2> DEFINE old == scopes[s].symbols
    <2>1. PICK E \in SUBSET Names : old \in [E -> Nat]
      BY <1>5, ScopeFacts DEF Maps
    <2>2. symbol.name \in Names /\ new \in Nat
      BY <1>1 DEF Symbols
    <2> HIDE DEF old
    <2>3. Put(old, symbol.name, new) \in [E \cup {symbol.name} -> Nat]
      BY <1>1, <2>1, <2>2 DEF Put
    <2> QED BY <2>2, <2>3 DEF Maps, old
  <1>7. /\ changed \in ScopeSet /\ changed.parent = scopes[s].parent
        /\ changed.children = scopes[s].children /\ changed.symbols = map
    <2> HIDE DEF map
    <2> QED BY <1>5, <1>6, ScopeFacts
  <1>8. scopes' = [scopes EXCEPT ![s] = changed]
    BY DEF Declare
  <1> HIDE DEF changed, map, new
  <1>9. scopes' \in Seq(ScopeSet) /\ Len(scopes') = Len(scopes)
    BY <1>1, <1>5, <1>7, <1>8, ExceptSeq
  <1>10. \A t \in ScopeIds : scopes'[t] = IF t = s THEN changed ELSE scopes[t]
    BY <1>1, <1>5, <1>7, <1>8, ExceptSeq
  <1>11. \A t \in ScopeIds :
           /\ scopes'[t].parent = scopes[t].parent
           /\ scopes'[t].children = scopes[t].children
           /\ scopes'[t].symbols = IF t = s THEN map ELSE scopes[t].symbols
    BY <1>7, <1>10
  <1>12. ScopeIds' = ScopeIds
    BY <1>1, <1>9 DEF ScopeIds
  <1> QED BY <1>1, <1>3, <1>4, <1>9, <1>11, <1>12 DEF new, map

(* So it keeps the tree, and the new symbol has that scope only. *)
LEMMA DeclareKeepsTree ==
  ASSUME TreeInv, NEW s \in ScopeIds, NEW symbol \in Symbols,
         symbol.name \notin DOMAIN scopes[s].symbols,
         Declare(s, symbol), program' = program
  PROVE  TreeInv'
  <1>0. PICK new : new = Len(symbols) + 1
    OBVIOUS
  <1>1. /\ symbols' \in Seq(Symbols)' /\ SymbolIds' = SymbolIds \cup {new}
        /\ new \notin SymbolIds /\ symbols'[new] = symbol
        /\ \A k \in SymbolIds : symbols'[k] = symbols[k]
        /\ scopes' \in Seq(ScopeSet)' /\ ScopeIds' = ScopeIds
        /\ \A t \in ScopeIds :
             /\ scopes'[t].parent = scopes[t].parent
             /\ scopes'[t].children = scopes[t].children
             /\ scopes'[t].symbols =
                  IF t = s THEN Put(scopes[s].symbols, symbol.name, new)
                  ELSE scopes[t].symbols
    BY <1>0, DeclareChanges
  <1> DEFINE map == Put(scopes[s].symbols, symbol.name, new)
  <1>a. /\ DOMAIN map = DOMAIN scopes[s].symbols \cup {symbol.name}
        /\ map[symbol.name] = new
        /\ \A name \in DOMAIN scopes[s].symbols : map[name] = scopes[s].symbols[name]
    BY DEF Put
  <1>b. \A t \in ScopeIds : scopes'[t].symbols = IF t = s THEN map ELSE scopes[t].symbols
    BY <1>1
  <1> HIDE DEF map
  <1>2. /\ \A t \in ScopeIds : \A name \in DOMAIN scopes[t].symbols :
             /\ name \in DOMAIN scopes'[t].symbols
             /\ scopes'[t].symbols[name] = scopes[t].symbols[name]
        /\ symbol.name \in DOMAIN scopes'[s].symbols
        /\ scopes'[s].symbols[symbol.name] = new
        /\ \A t \in ScopeIds : \A name \in DOMAIN scopes'[t].symbols :
             \/ name \in DOMAIN scopes[t].symbols
             \/ t = s /\ name = symbol.name
    BY <1>1, <1>a, <1>b
  <1>3. ChildrenInRange'
    BY <1>1 DEF TreeInv, ChildrenInRange
  <1>4. ScopesFormTree'
    <2>1. /\ scopes'[RootScope].parent = NoScope
          /\ \A t \in ScopeIds' \ {RootScope} : scopes'[t].parent \in 1..(t - 1)
      BY <1>1 DEF TreeInv, ScopesFormTree
    <2>2. \A t, c \in ScopeIds' :
            scopes'[c].parent = t <=>
              \E k \in DOMAIN scopes'[t].children : scopes'[t].children[k] = c
      <3>1. \A t, c \in ScopeIds :
              scopes[c].parent = t <=>
                \E k \in DOMAIN scopes[t].children : scopes[t].children[k] = c
        BY DEF TreeInv, ScopesFormTree
      <3>2. ASSUME NEW t \in ScopeIds, NEW c \in ScopeIds
            PROVE  scopes'[c].parent = t <=>
                     \E k \in DOMAIN scopes'[t].children : scopes'[t].children[k] = c
        <4>1. scopes'[c].parent = scopes[c].parent /\ scopes'[t].children = scopes[t].children
          BY <1>1
        <4> QED BY <3>1, <4>1
      <3> QED BY <1>1, <3>2
    <2> QED BY <2>1, <2>2 DEF ScopesFormTree
  <1>5. \A t \in ScopeIds' : \A name \in DOMAIN scopes'[t].symbols :
          scopes'[t].symbols[name] \in SymbolIds'
    BY <1>1, <1>2 DEF TreeInv
  <1>6. OneScopePerSymbol'
    <2> DEFINE Holds(k, t) ==
                 /\ symbols[k].name \in DOMAIN scopes[t].symbols
                 /\ scopes[t].symbols[symbols[k].name] = k
                 /\ \A u \in ScopeIds : \A name \in DOMAIN scopes[u].symbols :
                      scopes[u].symbols[name] = k => u = t /\ name = symbols[k].name
    <2>1. ASSUME NEW k \in SymbolIds, NEW t \in ScopeIds, Holds(k, t)
          PROVE  Holds(k, t)'
      <3>1. symbols'[k] = symbols[k] /\ k # new
        BY <1>1
      <3>2. /\ symbols'[k].name \in DOMAIN scopes'[t].symbols
            /\ scopes'[t].symbols[symbols'[k].name] = k
        BY <1>2, <2>1, <3>1
      <3>3. ASSUME NEW u \in ScopeIds', NEW name \in DOMAIN scopes'[u].symbols,
                   scopes'[u].symbols[name] = k
            PROVE  u = t /\ name = symbols'[k].name
        <4>1. u \in ScopeIds /\ name \in DOMAIN scopes[u].symbols
          BY <1>1, <1>2, <3>1, <3>3
        <4>2. scopes[u].symbols[name] = k
          BY <1>2, <3>3, <4>1
        <4> QED BY <2>1, <3>1, <4>1, <4>2
      <3> QED BY <3>2, <3>3
    <2>2. Holds(new, s)'
      <3>1. \A u \in ScopeIds : \A name \in DOMAIN scopes[u].symbols :
              scopes'[u].symbols[name] # new
        BY <1>1, <1>2 DEF TreeInv
      <3>2. \A u \in ScopeIds' : \A name \in DOMAIN scopes'[u].symbols :
              scopes'[u].symbols[name] = new => u = s /\ name = symbol.name
        BY <1>1, <1>2, <3>1
      <3> QED BY <1>1, <1>2, <3>2
    <2>3. \A k \in SymbolIds : \E t \in ScopeIds : Holds(k, t)
      BY DEF TreeInv, OneScopePerSymbol
    <2>4. \A k \in SymbolIds' : \E t \in ScopeIds' : Holds(k, t)'
      <3> HIDE DEF Holds
      <3> QED BY <1>1, <2>1, <2>2, <2>3
    <2> QED BY <2>4 DEF OneScopePerSymbol
  <1> QED BY <1>1, <1>3, <1>4, <1>5, <1>6 DEF TreeInv

-----------------------------------------------------------------------------
(* What the maps of nodes hold. *)
NodesInv ==
  /\ DOMAIN scopeByNode \subseteq NodeIds(program)
  /\ \A n \in DOMAIN scopeByNode : scopeByNode[n] \in ScopeIds
  /\ DOMAIN resolved \subseteq NodeIds(program)
  /\ \A n \in DOMAIN resolved : resolved[n] \in SymbolIds

(* The invariant has three parts, which the actions disturb separately. *)
LEMMA InvParts == Inv <=> TreeInv /\ work \in Seq(Calls) /\ NodesInv
  <1>1. Inv => TreeInv /\ work \in Seq(Calls) /\ NodesInv
    BY DEF Inv, TypeOK, TreeInv, NodesInv
  <1>2. ASSUME TreeInv PROVE \A s \in ScopeIds : DOMAIN scopes[s].symbols \subseteq Names
    <2> TAKE s \in ScopeIds
    <2>1. scopes[s] \in ScopeSet
      BY <1>2 DEF TreeInv, ScopeIds
    <2>2. scopes[s].symbols \in Maps(Names, Nat)
      BY <2>1, ScopeFacts
    <2> QED BY <2>2 DEF Maps
  <1>3. TreeInv /\ work \in Seq(Calls) /\ NodesInv => Inv
    BY <1>2 DEF Inv, TypeOK, TreeInv, NodesInv
  <1> QED BY <1>1, <1>3

(* A sequence built along another one. *)
LEMMA SeqAlong ==
  ASSUME NEW S, NEW q \in Seq(S), NEW T, NEW f,
         DOMAIN f = DOMAIN q, f = [k \in DOMAIN q |-> f[k]],
         \A k \in DOMAIN q : f[k] \in T
  PROVE  f \in Seq(T)
  <1>1. Len(q) \in Nat /\ DOMAIN q = 1..Len(q)
    OBVIOUS
  <1>2. f \in [1..Len(q) -> T]
    BY <1>1
  <1> QED BY <1>1, <1>2

(* The elements of a sequence are in the set it is over. *)
LEMMA ElementOf ==
  ASSUME NEW S, NEW q \in Seq(S), NEW k \in DOMAIN q
  PROVE  q[k] \in S
  OBVIOUS

(* The running call is one of the calls there can be. *)
LEMMA RunningCall ==
  ASSUME work \in Seq(Calls), work # << >>
  PROVE  /\ Top \in Calls /\ Tail(work) \in Seq(Calls)
         /\ Top.call = "addSymbol" =>
              Top.scope \in ScopeIds /\ Top.symbol \in Symbols
         /\ Top.call \in {"register", "check", "bindFunction"} =>
              Top.node \in OfKind(program, {"defn", "data"})
         /\ Top.call = "bindExpression" =>
              Top.scope \in ScopeIds /\ Top.node \in OfKind(program, Expressions)
         /\ Top.call = "bindBranch" =>
              Top.scope \in ScopeIds /\ Top.node \in OfKind(program, {"branch"})
  <1>1. Top \in Calls /\ Tail(work) \in Seq(Calls)
    BY DEF Top
  <1> QED BY <1>1 DEF Calls

(* More scopes allow more calls. *)
LEMMA CallsGrow ==
  ASSUME program' = program, ScopeIds \subseteq ScopeIds'
  PROVE  Calls \subseteq Calls'
  BY DEF Calls, Symbols, OfKind, NodeIds

(* A call that returns leaves well-formed calls if it makes such calls. *)
LEMMA ThenKeepsWork ==
  ASSUME work \in Seq(Calls), work # << >>, ScopeIds \subseteq ScopeIds',
         NEW calls \in Seq(Calls'), Then(calls)
  PROVE  work' \in Seq(Calls)'
  <1>1. program' = program /\ work' = calls \o Tail(work)
    BY DEF Then
  <1>2. Calls \subseteq Calls'
    BY <1>1, CallsGrow
  <1>3. Tail(work) \in Seq(Calls)
    OBVIOUS
  <1>4. Tail(work) \in Seq(Calls')
    BY <1>2, <1>3
  <1> QED BY <1>1, <1>4

(* The nodes stay as they are when only scopes and symbols are added. *)
LEMMA NodesKept ==
  ASSUME NodesInv, program' = program, ScopeIds \subseteq ScopeIds',
         SymbolIds \subseteq SymbolIds', scopeByNode' = scopeByNode, resolved' = resolved
  PROVE  NodesInv'
  BY DEF NodesInv, NodeIds

(* The invariant holds when analyze has made its first calls. *)
LEMMA InitInv == Init => Inv
  <1> SUFFICES ASSUME Init PROVE Inv
    OBVIOUS
  <1>1. /\ program \in Programs /\ scopes = <<EmptyScope(NoScope, NoNode)>>
        /\ symbols = << >> /\ scopeByNode = << >> /\ resolved = << >>
        /\ work = Analyze(program)
    BY DEF Init
  <1>2. ScopeIds = {1} /\ SymbolIds = {}
    BY <1>1 DEF ScopeIds, SymbolIds
  <1>3. EmptyScope(NoScope, NoNode) \in ScopeSet
    <2>1. << >> \in [{} -> Nat] /\ {} \in SUBSET Names
      OBVIOUS
    <2>2. << >> \in Maps(Names, Nat)
      BY <2>1 DEF Maps
    <2> QED BY <2>2 DEF EmptyScope, ScopeSet, NoScope, NoNode
  <1>4. TreeInv
    <2>1. scopes[1] = EmptyScope(NoScope, NoNode)
      BY <1>1
    <2>2. scopes[1].parent = 0 /\ scopes[1].symbols = << >> /\ scopes[1].children = << >>
      BY <2>1 DEF EmptyScope, NoScope
    <2>3. ChildrenInRange /\ OneScopePerSymbol
      BY <1>2, <2>2 DEF ChildrenInRange, OneScopePerSymbol
    <2>4. ScopesFormTree
      BY <1>2, <2>2 DEF ScopesFormTree, RootScope, NoScope
    <2>5. symbols \in Seq(Symbols) /\ scopes \in Seq(ScopeSet)
      BY <1>1, <1>3
    <2> QED BY <1>1, <1>2, <2>2, <2>3, <2>4, <2>5 DEF TreeInv, RootScope
  <1>5. work \in Seq(Calls)
    <2> DEFINE ds == program.definitions
               D == OfKind(program, {"defn", "data"})
    <2>1. ds \in Seq(D)
      BY <1>1, ProgramFacts
    <2> HIDE DEF ds
    <2>2. /\ \A d \in D : RegisterCall(d) \in Calls
          /\ \A d \in D : CheckCall(d) \in Calls
          /\ \A d \in D : BindFunctionCall(d) \in Calls
      BY DEF Calls, RegisterCall, CheckCall, BindFunctionCall
    <2> HIDE DEF D
    <2>3. ForEach(ds, RegisterCall) \in Seq(Calls)
      BY <2>1, <2>2, SeqAlong, ElementOf DEF ForEach
    <2>4. ForEach(ds, CheckCall) \in Seq(Calls)
      BY <2>1, <2>2, SeqAlong, ElementOf DEF ForEach
    <2>5. ForEach(ds, BindFunctionCall) \in Seq(Calls)
      BY <2>1, <2>2, SeqAlong, ElementOf DEF ForEach
    <2>6. AddSymbolCall(RootScope, Symbol("Int", "builtin", NoNode)) \in Calls
      <3>1. Symbol("Int", "builtin", NoNode) \in Symbols
        BY NamesAssumption DEF Symbol, Symbols, SymbolKinds, TypeKinds
      <3> QED BY <1>2, <3>1 DEF Calls, AddSymbolCall, RootScope
    <2> QED BY <1>1, <2>3, <2>4, <2>5, <2>6 DEF Analyze, ds
  <1>6. NodesInv
    BY <1>1 DEF NodesInv
  <1> QED BY <1>4, <1>5, <1>6, InvParts

-----------------------------------------------------------------------------
(* A step that leaves scopes and symbols alone keeps the tree. *)
LEMMA TreeKept ==
  ASSUME TreeInv, UNCHANGED <<program, scopes, symbols>>
  PROVE  TreeInv' /\ ScopeIds' = ScopeIds /\ SymbolIds' = SymbolIds
  BY DEF TreeInv, ScopeIds, SymbolIds, Symbols, ScopeSet, ChildrenInRange,
     ScopesFormTree, OneScopePerSymbol

(* The parts after a step make the invariant after it. *)
LEMMA InvPartsNext == (TreeInv /\ work \in Seq(Calls) /\ NodesInv => Inv)'
  BY InvParts, PTL

(* Each action keeps the invariant; a repeated declaration only adds an error. *)
LEMMA AddSymbolKeeps == ASSUME Inv, AddSymbol PROVE Inv'
  <1>1. TreeInv /\ work \in Seq(Calls) /\ NodesInv
    BY InvParts
  <1>2. /\ work # << >> /\ Then(<< >>) /\ program' = program
        /\ Top.scope \in ScopeIds /\ Top.symbol \in Symbols
    BY <1>1, RunningCall DEF AddSymbol, Running, Then
  <1>3. << >> \in Seq(Calls')
    OBVIOUS
  <1>4. CASE Top.symbol.name \in DOMAIN scopes[Top.scope].symbols
    <2>1. UNCHANGED <<scopes, symbols, scopeByNode, resolved, program>>
      BY <1>2, <1>4 DEF AddSymbol, Redeclare, tree
    <2>2. TreeInv' /\ ScopeIds' = ScopeIds /\ SymbolIds' = SymbolIds
      BY <1>1, <2>1, TreeKept
    <2>3. NodesInv'
      BY <1>1, <2>1, <2>2, NodesKept
    <2>4. work' \in Seq(Calls)'
      BY <1>1, <1>2, <1>3, <2>2, ThenKeepsWork
    <2> QED BY <2>2, <2>3, <2>4, InvPartsNext
  <1>5. CASE Top.symbol.name \notin DOMAIN scopes[Top.scope].symbols
    <2>1. Declare(Top.scope, Top.symbol)
      BY <1>5 DEF AddSymbol
    <2>2. TreeInv'
      BY <1>1, <1>2, <1>5, <2>1, DeclareKeepsTree
    <2>3. ScopeIds' = ScopeIds /\ SymbolIds \subseteq SymbolIds'
      BY <1>1, <1>2, <1>5, <2>1, DeclareChanges
    <2>4. NodesInv'
      BY <1>1, <1>2, <2>1, <2>3, NodesKept DEF Declare
    <2>5. work' \in Seq(Calls)'
      BY <1>1, <1>2, <1>3, <2>3, ThenKeepsWork
    <2> QED BY <2>2, <2>4, <2>5, InvPartsNext
  <1> QED BY <1>4, <1>5

(* A declaration of a node of the program at the root. *)
LEMMA GlobalCall ==
  ASSUME TreeInv, NEW n \in NodeIds(program), program.nodes[n].name \in Names,
         NEW kind \in SymbolKinds
  PROVE  AddSymbolCall(RootScope, Symbol(program.nodes[n].name, kind, n)) \in Calls
  BY DEF Calls, AddSymbolCall, Symbol, Symbols, TreeInv

(* registerGlobalDefinitions only makes calls that declare globals. *)
LEMMA RegisterDefinitionKeeps == ASSUME Inv, RegisterDefinition PROVE Inv'
  <1>1. TreeInv /\ work \in Seq(Calls) /\ NodesInv
    BY InvParts
  <1> DEFINE AsGlobal(kind, n) ==
               AddSymbolCall(RootScope, Symbol(program.nodes[n].name, kind, n))
             GlobalConstructor(c) == AsGlobal("constructor", c)
             C == OfKind(program, {"constructor"})
  <1>2. /\ work # << >> /\ Top.node \in OfKind(program, {"defn", "data"})
        /\ UNCHANGED <<program, scopes, symbols, scopeByNode, resolved>>
    BY <1>1, RunningCall DEF RegisterDefinition, Running, Then, tree
  <1>3. TreeInv' /\ ScopeIds' = ScopeIds /\ SymbolIds' = SymbolIds
    BY <1>1, <1>2, TreeKept
  <1>4. NodesInv'
    BY <1>1, <1>2, <1>3, NodesKept
  <1>5. Calls \subseteq Calls'
    BY <1>2, <1>3, CallsGrow
  <1>6. program \in Programs /\ Top.node \in NodeIds(program)
    BY <1>1, <1>2 DEF TreeInv, OfKind
  <1>7. CASE Node.kind = "defn"
    <2>1. Top.node \in OfKind(program, {"defn"})
      BY <1>2, <1>7 DEF OfKind, Node
    <2>2. AsGlobal("function", Top.node) \in Calls
      BY <1>1, <1>6, <2>1, DefinitionNode, GlobalCall DEF SymbolKinds, ValueKinds
    <2>3. Then(<<AsGlobal("function", Top.node)>>)
      BY <1>7 DEF RegisterDefinition
    <2> HIDE DEF AsGlobal
    <2>4. <<AsGlobal("function", Top.node)>> \in Seq(Calls')
      BY <1>5, <2>2
    <2> QED BY <1>1, <1>2, <1>3, <2>3, <2>4, ThenKeepsWork, <1>4, InvPartsNext
  <1>8. CASE Node.kind # "defn"
    <2>1. Top.node \in OfKind(program, {"data"})
      BY <1>2, <1>8 DEF OfKind, Node
    <2>2. AsGlobal("data", Top.node) \in Calls
      BY <1>1, <1>6, <2>1, DataNode, GlobalCall DEF SymbolKinds, TypeKinds
    <2>3. \A c \in C : GlobalConstructor(c) \in Calls
      <3> TAKE c \in C
      <3>1. c \in NodeIds(program) /\ program.nodes[c].name \in Names
        BY <1>6, ConstructorNode DEF OfKind
      <3> QED BY <1>1, <3>1, GlobalCall DEF SymbolKinds, ValueKinds
    <2>4. Node.constructors \in Seq(C)
      BY <1>6, <2>1, DataNode DEF Node
    <2>5. Then(<<AsGlobal("data", Top.node)>> \o ForEach(Node.constructors, GlobalConstructor))
      BY <1>8 DEF RegisterDefinition
    <2> HIDE DEF AsGlobal, GlobalConstructor, C
    <2>6. ForEach(Node.constructors, GlobalConstructor) \in Seq(Calls')
      BY <1>5, <2>3, <2>4, SeqAlong, ElementOf DEF ForEach
    <2>7. <<AsGlobal("data", Top.node)>> \o ForEach(Node.constructors, GlobalConstructor)
            \in Seq(Calls')
      BY <1>5, <2>2, <2>6
    <2> QED BY <1>1, <1>2, <1>3, <2>5, <2>7, ThenKeepsWork, <1>4, InvPartsNext
  <1> QED BY <1>7, <1>8

(* checkGlobalDefinitions binds definitions and constructors to the root. *)
LEMMA CheckDefinitionKeeps == ASSUME Inv, CheckDefinition PROVE Inv'
  <1>1. TreeInv /\ work \in Seq(Calls) /\ NodesInv
    BY InvParts
  <1>2. /\ work # << >> /\ Top.node \in OfKind(program, {"defn", "data"}) /\ Then(<< >>)
        /\ UNCHANGED <<program, scopes, symbols, resolved>>
    BY <1>1, RunningCall DEF CheckDefinition, Running, Then
  <1>3. TreeInv' /\ ScopeIds' = ScopeIds /\ SymbolIds' = SymbolIds
    BY <1>1, <1>2, TreeKept
  <1>4. << >> \in Seq(Calls')
    OBVIOUS
  <1>5. work' \in Seq(Calls)'
    BY <1>1, <1>2, <1>3, <1>4, ThenKeepsWork
  <1>6. NodesInv'
    <2> DEFINE bound == {Top.node} \cup
                        (IF Node.kind = "data"
                         THEN {Node.constructors[k] : k \in DOMAIN Node.constructors}
                         ELSE {})
    <2>1. program \in Programs /\ Top.node \in NodeIds(program)
      BY <1>1, <1>2 DEF TreeInv, OfKind
    <2>2. ASSUME Node.kind = "data", NEW k \in DOMAIN Node.constructors
          PROVE  Node.constructors[k] \in NodeIds(program)
      <3>1. Top.node \in OfKind(program, {"data"})
        BY <2>1, <2>2 DEF OfKind, Node
      <3>2. Node.constructors \in Seq(OfKind(program, {"constructor"}))
        BY <2>1, <3>1, DataNode DEF Node
      <3>3. Node.constructors[k] \in OfKind(program, {"constructor"})
        BY <2>2, <3>2, ElementOf
      <3> QED BY <3>3 DEF OfKind
    <2>3. bound \subseteq NodeIds(program)
      BY <2>1, <2>2
    <2>4. scopeByNode' = [n \in DOMAIN scopeByNode \cup bound |->
                            IF n \in bound THEN RootScope ELSE scopeByNode[n]]
      BY DEF CheckDefinition
    <2> HIDE DEF bound
    <2> QED BY <1>1, <1>2, <1>3, <2>3, <2>4 DEF NodesInv, TreeInv, NodeIds
  <1> QED BY <1>3, <1>5, <1>6, InvPartsNext

(* An action that only makes calls and records where a node belongs. *)
LEMMA BindingKeeps ==
  ASSUME Inv, work # << >>, NEW calls \in Seq(Calls), Then(calls),
         NEW n \in NodeIds(program), NEW s \in ScopeIds,
         scopeByNode' = Put(scopeByNode, n, s), UNCHANGED <<scopes, symbols, resolved>>
  PROVE  Inv'
  <1>1. TreeInv /\ work \in Seq(Calls) /\ NodesInv /\ program' = program
    BY InvParts DEF Then
  <1>2. TreeInv' /\ ScopeIds' = ScopeIds /\ SymbolIds' = SymbolIds
    BY <1>1, TreeKept
  <1>3. calls \in Seq(Calls')
    BY <1>1, <1>2, CallsGrow
  <1>4. work' \in Seq(Calls)'
    BY <1>1, <1>2, <1>3, ThenKeepsWork
  <1>5. NodesInv'
    BY <1>1, <1>2 DEF NodesInv, NodeIds, Put
  <1> QED BY <1>2, <1>4, <1>5, InvPartsNext

(* Calls that bind a node. *)
LEMMA BindingCalls ==
  ASSUME NEW s \in ScopeIds
  PROVE  /\ \A n \in OfKind(program, Expressions) : BindExpressionCall(s, n) \in Calls
         /\ \A n \in OfKind(program, {"branch"}) : BindBranchCall(s, n) \in Calls
  BY DEF Calls, BindExpressionCall, BindBranchCall

(* The operands of an operator are bound in its own scope. *)
LEMMA BindLeafOrOperatorKeeps == ASSUME Inv, BindLeafOrOperator PROVE Inv'
  <1>1. TreeInv /\ work \in Seq(Calls) /\ NodesInv
    BY InvParts
  <1>2. /\ work # << >> /\ Top.scope \in ScopeIds /\ Top.node \in OfKind(program, Expressions)
        /\ Node.kind \in {"int", "operator", "application"}
        /\ Then(BindOperands) /\ scopeByNode' = Put(scopeByNode, Top.node, Top.scope)
        /\ UNCHANGED <<scopes, symbols, resolved>>
    BY <1>1, RunningCall DEF BindLeafOrOperator, Running
  <1>3. program \in Programs /\ Top.node \in NodeIds(program)
    BY <1>1, <1>2 DEF TreeInv, OfKind
  <1>4. Children(program, Top.node) \in Seq(OfKind(program, Expressions))
    <2>1. Top.node \in OfKind(program, {"int", "operator", "application"})
      BY <1>2, <1>3 DEF OfKind, Node
    <2> QED BY <1>3, <2>1, OperandNodes
  <1>5. BindOperands \in Seq(Calls)
    <2> DEFINE Bind(n) == BindExpressionCall(Top.scope, n)
    <2>1. \A n \in OfKind(program, Expressions) : Bind(n) \in Calls
      BY <1>2, BindingCalls
    <2>2. BindOperands = ForEach(Children(program, Top.node), Bind)
      BY DEF BindOperands
    <2> HIDE DEF Bind
    <2>3. ForEach(Children(program, Top.node), Bind) \in Seq(Calls)
      BY <1>4, <2>1, SeqAlong, ElementOf DEF ForEach
    <2> QED BY <2>2, <2>3
  <1> QED BY <1>2, <1>3, <1>5, BindingKeeps

(* The scrutinee and the branches are bound from the scope of the case. *)
LEMMA BindCaseExpressionKeeps == ASSUME Inv, BindCaseExpression PROVE Inv'
  <1> DEFINE Bind(b) == BindBranchCall(Top.scope, b)
             B == OfKind(program, {"branch"})
             calls == <<BindExpressionCall(Top.scope, Node.scrutinee)>>
                        \o ForEach(Node.branches, Bind)
  <1>1. TreeInv /\ work \in Seq(Calls) /\ NodesInv
    BY InvParts
  <1>2. /\ work # << >> /\ Top.scope \in ScopeIds /\ Top.node \in OfKind(program, Expressions)
        /\ Node.kind = "case" /\ Then(calls)
        /\ scopeByNode' = Put(scopeByNode, Top.node, Top.scope)
        /\ UNCHANGED <<scopes, symbols, resolved>>
    BY <1>1, RunningCall DEF BindCaseExpression, Running
  <1>3. program \in Programs /\ Top.node \in NodeIds(program)
    BY <1>1, <1>2 DEF TreeInv, OfKind
  <1>4. Node.scrutinee \in OfKind(program, Expressions) /\ Node.branches \in Seq(B)
    <2>1. Top.node \in OfKind(program, {"case"})
      BY <1>2, <1>3 DEF OfKind, Node
    <2> QED BY <1>3, <2>1, CaseNode DEF Node
  <1>5. /\ BindExpressionCall(Top.scope, Node.scrutinee) \in Calls
        /\ \A b \in B : Bind(b) \in Calls
    BY <1>2, <1>4, BindingCalls
  <1> HIDE DEF Bind, B
  <1>6. ForEach(Node.branches, Bind) \in Seq(Calls)
    BY <1>4, <1>5, SeqAlong, ElementOf DEF ForEach
  <1>7. calls \in Seq(Calls)
    BY <1>5, <1>6
  <1> HIDE DEF calls
  <1> QED BY <1>2, <1>3, <1>7, BindingKeeps

(* A variable is resolved to a symbol that there is, or not at all. *)
LEMMA BindVariableKeeps == ASSUME Inv, BindVariable PROVE Inv'
  <1> DEFINE id == GetResolvedSymbolId(Top.scope, Node.name)
  <1>1. TreeInv /\ work \in Seq(Calls) /\ NodesInv
    BY InvParts
  <1>2. /\ work # << >> /\ Top.scope \in ScopeIds /\ Top.node \in OfKind(program, Expressions)
        /\ Then(<< >>) /\ program' = program
        /\ scopeByNode' = Put(scopeByNode, Top.node, Top.scope)
        /\ UNCHANGED <<scopes, symbols>>
    BY <1>1, RunningCall DEF BindVariable, Running, Then
  <1>3. program \in Programs /\ Top.node \in NodeIds(program)
    BY <1>1, <1>2 DEF TreeInv, OfKind
  <1>4. TreeInv' /\ ScopeIds' = ScopeIds /\ SymbolIds' = SymbolIds
    BY <1>1, <1>2, TreeKept
  <1>5. << >> \in Seq(Calls')
    OBVIOUS
  <1>6. work' \in Seq(Calls)'
    BY <1>1, <1>2, <1>4, <1>5, ThenKeepsWork
  <1>7. \/ resolved' = resolved
        \/ resolved' = Put(resolved, Top.node, id) /\ id \in SymbolIds
    <2>1. id \in SymbolIds \cup {NoSymbol}
      BY <1>2, SearchFinds
    <2> HIDE DEF id
    <2>2. id = NoSymbol => VariableError(Node.name, id) # "none"
      BY DEF VariableError
    <2>3. VariableError(Node.name, id) = "none" => resolved' = Put(resolved, Top.node, id)
      BY DEF BindVariable, id
    <2>4. VariableError(Node.name, id) # "none" => resolved' = resolved
      BY DEF BindVariable, id
    <2> QED BY <2>1, <2>2, <2>3, <2>4
  <1> HIDE DEF id
  <1>8. NodesInv'
    BY <1>1, <1>2, <1>3, <1>4, <1>7 DEF NodesInv, NodeIds, Put
  <1> QED BY <1>4, <1>6, <1>8, InvPartsNext

(***************************************************************************)
(* An action that opens a scope for a node, declares names in it and binds *)
(* an expression in it.                                                    *)
(***************************************************************************)
LEMMA OpeningCalls ==
  ASSUME TreeInv, NEW p \in ScopeIds, NEW o \in NodeIds(program), CreateScope(p, o),
         program' = program, NEW names \in Seq(Names), NEW f,
         DOMAIN f = DOMAIN names, f = [k \in DOMAIN names |-> f[k]],
         NEW kind \in SymbolKinds, NEW declaration \in NodeIds(program),
         \A k \in DOMAIN names :
           f[k] = AddSymbolCall(NewScope, Symbol(names[k], kind, declaration)),
         NEW e \in OfKind(program, Expressions)
  PROVE  f \o <<BindExpressionCall(NewScope, e)>> \in Seq(Calls')
  <1>1. NewScope \in ScopeIds'
    <2>1. Len(scopes') = Len(scopes) + 1 /\ Len(scopes) \in Nat
      BY CreateChanges DEF TreeInv
    <2> QED BY <2>1 DEF ScopeIds, NewScope
  <1> DEFINE new == NewScope
  <1> HIDE DEF new
  <1>2. new \in ScopeIds'
    BY <1>1 DEF new
  <1>3. \A name \in Names :
          AddSymbolCall(new, Symbol(name, kind, declaration)) \in Calls'
    BY <1>2 DEF Calls, AddSymbolCall, Symbol, Symbols, NodeIds
  <1>4. \A k \in DOMAIN names : f[k] \in Calls'
    BY <1>3, ElementOf DEF new
  <1>5. f \in Seq(Calls')
    BY <1>4, SeqAlong
  <1>6. BindExpressionCall(new, e) \in Calls'
    BY <1>2 DEF Calls, BindExpressionCall, OfKind, NodeIds
  <1> QED BY <1>5, <1>6 DEF new

(* The new scope is in range after the action. *)
LEMMA OpenedScope ==
  ASSUME TreeInv, NEW p \in ScopeIds, NEW o \in NodeIds(program), CreateScope(p, o),
         program' = program
  PROVE  NewScope \in ScopeIds' /\ ScopeIds \subseteq ScopeIds'
  <1>1. Len(scopes') = Len(scopes) + 1 /\ Len(scopes) \in Nat
    BY CreateChanges DEF TreeInv
  <1> QED BY <1>1 DEF ScopeIds, NewScope

(* A function opens a scope below the root. *)
LEMMA BindFunctionKeeps == ASSUME Inv, BindFunction PROVE Inv'
  <1>1. TreeInv /\ work \in Seq(Calls) /\ NodesInv
    BY InvParts
  <1>2. /\ work # << >> /\ Top.node \in OfKind(program, {"defn", "data"})
        /\ program' = program /\ UNCHANGED <<symbols, resolved>>
    BY <1>1, RunningCall DEF BindFunction, Running, Then
  <1>3. program \in Programs /\ Top.node \in NodeIds(program)
    BY <1>1, <1>2 DEF TreeInv, OfKind
  <1>4. CASE Node.kind = "defn"
    <2> DEFINE AsParameter(name) ==
                 AddSymbolCall(NewScope, Symbol(name, "parameter", Top.node))
               declared == ForEach(Node.parameters, AsParameter)
               calls == declared \o <<BindExpressionCall(NewScope, Node.body)>>
    <2>1. /\ CreateScope(RootScope, Top.node)
          /\ scopeByNode' = Put(scopeByNode, Top.node, NewScope)
          /\ Then(calls)
      BY <1>4 DEF BindFunction
    <2>2. /\ Node.parameters \in Seq(Names) /\ Node.body \in OfKind(program, Expressions)
      <3>1. Top.node \in OfKind(program, {"defn"})
        BY <1>2, <1>4 DEF OfKind, Node
      <3> QED BY <1>3, <3>1, DefinitionNode DEF Node
    <2>3. RootScope \in ScopeIds
      BY <1>1 DEF TreeInv
    <2>4. TreeInv'
      BY <1>1, <1>2, <1>3, <2>1, <2>3, CreateKeepsTree
    <2>5. NewScope \in ScopeIds' /\ ScopeIds \subseteq ScopeIds' /\ SymbolIds' = SymbolIds
      BY <1>1, <1>2, <1>3, <2>1, <2>3, OpenedScope DEF SymbolIds
    <2>6. calls \in Seq(Calls')
      <3>1. /\ DOMAIN declared = DOMAIN Node.parameters
            /\ declared = [k \in DOMAIN Node.parameters |-> declared[k]]
            /\ \A k \in DOMAIN Node.parameters :
                 declared[k] =
                   AddSymbolCall(NewScope, Symbol(Node.parameters[k], "parameter", Top.node))
        BY DEF ForEach
      <3>2. "parameter" \in SymbolKinds
        BY DEF SymbolKinds, ValueKinds
      <3> HIDE DEF declared
      <3> QED BY <1>1, <1>2, <1>3, <2>1, <2>2, <2>3, <3>1, <3>2, OpeningCalls
    <2> HIDE DEF calls
    <2>7. work' \in Seq(Calls)'
      BY <1>1, <1>2, <2>1, <2>5, <2>6, ThenKeepsWork
    <2>8. NodesInv'
      <3> DEFINE new == NewScope
      <3>1. new \in ScopeIds' /\ scopeByNode' = Put(scopeByNode, Top.node, new)
        BY <2>1, <2>5
      <3> HIDE DEF new
      <3> QED BY <1>1, <1>2, <1>3, <2>5, <3>1 DEF NodesInv, NodeIds, Put
    <2> QED BY <2>4, <2>7, <2>8, InvPartsNext
  <1>5. CASE Node.kind # "defn"
    <2>1. Then(<< >>) /\ UNCHANGED <<scopes, scopeByNode>>
      BY <1>5 DEF BindFunction
    <2>2. TreeInv' /\ ScopeIds' = ScopeIds /\ SymbolIds' = SymbolIds
      BY <1>1, <1>2, <2>1, TreeKept
    <2>3. << >> \in Seq(Calls')
      OBVIOUS
    <2>4. work' \in Seq(Calls)'
      BY <1>1, <1>2, <2>1, <2>2, <2>3, ThenKeepsWork
    <2>5. NodesInv'
      BY <1>1, <1>2, <2>1, <2>2, NodesKept
    <2> QED BY <2>2, <2>4, <2>5, InvPartsNext
  <1> QED BY <1>4, <1>5

(* A branch opens a scope below the one of its case. *)
LEMMA BindBranchKeeps == ASSUME Inv, BindBranch PROVE Inv'
  <1> DEFINE names == PatternNames(program, Node.pattern)
             AsPatternVariable(name) ==
               AddSymbolCall(NewScope, Symbol(name, "pattern_variable", Node.pattern))
             declared == ForEach(names, AsPatternVariable)
             calls == declared \o <<BindExpressionCall(NewScope, Node.body)>>
             id == GetLocalSymbolId(RootScope, program.nodes[Node.pattern].name)
  <1>1. TreeInv /\ work \in Seq(Calls) /\ NodesInv
    BY InvParts
  <1>2. /\ work # << >> /\ Top.scope \in ScopeIds /\ Top.node \in OfKind(program, {"branch"})
        /\ program' = program /\ symbols' = symbols
        /\ CreateScope(Top.scope, Top.node) /\ Then(calls)
        /\ scopeByNode' = Put(Put(scopeByNode, Top.node, NewScope), Node.pattern, NewScope)
    BY <1>1, RunningCall DEF BindBranch, Running, Then
  <1>3. program \in Programs /\ Top.node \in NodeIds(program)
    BY <1>1, <1>2 DEF TreeInv, OfKind
  <1>4. /\ Node.pattern \in NodeIds(program) /\ names \in Seq(Names)
        /\ Node.body \in OfKind(program, Expressions)
    BY <1>2, <1>3, BranchNode DEF Node, OfKind
  <1>5. TreeInv'
    BY <1>1, <1>2, <1>3, CreateKeepsTree
  <1>6. NewScope \in ScopeIds' /\ ScopeIds \subseteq ScopeIds' /\ SymbolIds' = SymbolIds
    BY <1>1, <1>2, <1>3, OpenedScope DEF SymbolIds
  <1>7. calls \in Seq(Calls')
    <2>1. /\ DOMAIN declared = DOMAIN names
          /\ declared = [k \in DOMAIN names |-> declared[k]]
          /\ \A k \in DOMAIN names :
               declared[k] =
                 AddSymbolCall(NewScope, Symbol(names[k], "pattern_variable", Node.pattern))
      BY DEF ForEach
    <2>2. "pattern_variable" \in SymbolKinds
      BY DEF SymbolKinds, ValueKinds
    <2> HIDE DEF declared, names
    <2> QED BY <1>1, <1>2, <1>3, <1>4, <2>1, <2>2, OpeningCalls
  <1> HIDE DEF calls
  <1>8. work' \in Seq(Calls)'
    BY <1>1, <1>2, <1>6, <1>7, ThenKeepsWork
  <1>9. \/ resolved' = resolved
        \/ resolved' = Put(resolved, Node.pattern, id) /\ id \in SymbolIds
    <2>1. id \in SymbolIds \cup {NoSymbol}
      BY <1>1 DEF TreeInv, GetLocalSymbolId
    <2>2. \/ resolved' = resolved
          \/ resolved' = Put(resolved, Node.pattern, id) /\ id # NoSymbol
      BY DEF BindBranch, NameConstructor
    <2> QED BY <2>1, <2>2
  <1> HIDE DEF id
  <1>10. NodesInv'
    <2> DEFINE new == NewScope
    <2>1. /\ new \in ScopeIds'
          /\ scopeByNode' = Put(Put(scopeByNode, Top.node, new), Node.pattern, new)
      BY <1>2, <1>6
    <2> HIDE DEF new
    <2>2. /\ DOMAIN scopeByNode' \subseteq NodeIds(program)
          /\ \A n \in DOMAIN scopeByNode' : scopeByNode'[n] \in ScopeIds'
      BY <1>1, <1>3, <1>4, <1>6, <2>1 DEF NodesInv, Put
    <2>3. /\ DOMAIN resolved' \subseteq NodeIds(program)
          /\ \A n \in DOMAIN resolved' : resolved'[n] \in SymbolIds'
      BY <1>1, <1>4, <1>6, <1>9 DEF NodesInv, Put
    <2> QED BY <1>2, <2>2, <2>3 DEF NodesInv, NodeIds
  <1> QED BY <1>5, <1>8, <1>10, InvPartsNext

(* Doing nothing keeps it too. *)
LEMMA StutterKeeps == ASSUME Inv, UNCHANGED vars PROVE Inv'
  <1>1. TreeInv /\ work \in Seq(Calls) /\ NodesInv
    BY InvParts
  <1>2. UNCHANGED <<program, work, scopes, symbols, scopeByNode, resolved>>
    BY DEF vars
  <1>3. TreeInv' /\ ScopeIds' = ScopeIds /\ SymbolIds' = SymbolIds
    BY <1>1, <1>2, TreeKept
  <1>4. NodesInv'
    BY <1>1, <1>2, <1>3, NodesKept
  <1>5. Calls \subseteq Calls'
    BY <1>2, <1>3, CallsGrow
  <1>6. work' \in Seq(Calls)'
    BY <1>1, <1>2, <1>5
  <1> QED BY <1>3, <1>4, <1>6, InvPartsNext

(* Every step keeps the invariant. *)
LEMMA StepKeepsInv == Inv /\ [Next]_vars => Inv'
  BY AddSymbolKeeps, RegisterDefinitionKeeps, CheckDefinitionKeeps, BindFunctionKeeps,
     BindLeafOrOperatorKeeps, BindVariableKeeps, BindCaseExpressionKeeps, BindBranchKeeps,
     StutterKeeps
     DEF Next, Done

(* The invariant holds always. *)
THEOREM ScopesInv == Spec => []Inv
  BY InitInv, StepKeepsInv, PTL DEF Spec

(***************************************************************************)
(* Types: the ids that the maps of names and of nodes hold are the ids of  *)
(* symbols and scopes there are, and the walk only ever meets nodes of the *)
(* kinds that its std::visit and std::get expect.                          *)
(***************************************************************************)
THEOREM ScopesTypeOK == Spec => []TypeOK
  <1>1. Inv => TypeOK
    BY DEF Inv
  <1> QED BY <1>1, ScopesInv, PTL

(***************************************************************************)
(* The scopes are a tree whose parents are older than their children, so   *)
(* the loop of getResolvedSymbolId ends whatever the program.              *)
(***************************************************************************)
THEOREM ScopesAreATree == Spec => []ScopesFormTree
  <1>1. Inv => ScopesFormTree
    BY DEF Inv
  <1> QED BY <1>1, ScopesInv, PTL

(* Every symbol has one scope, and is there under its own name. *)
THEOREM SymbolsHaveOneScope == Spec => []OneScopePerSymbol
  <1>1. Inv => OneScopePerSymbol
    BY DEF Inv
  <1> QED BY <1>1, ScopesInv, PTL

-----------------------------------------------------------------------------
(***************************************************************************)
(* Every node is bound once.  A call for a node is made when the node      *)
(* above it is bound; a node has one place in the tree, so no call is made *)
(* twice.                                                                  *)
(***************************************************************************)

(* A node of a program has one place, and a definition has none. *)
LEMMA OnePlace ==
  ASSUME NEW p \in Programs, NEW m \in NodeIds(p), NEW n \in NodeIds(p),
         NEW j \in DOMAIN Children(p, m), NEW k \in DOMAIN Children(p, n),
         Children(p, m)[j] = Children(p, n)[k]
  PROVE  m = n /\ j = k
  BY ProgramsAssumption DEF IsProgram, IsForest

(* A definition is listed once. *)
LEMMA OneDefinition ==
  ASSUME NEW p \in Programs,
         NEW j \in DOMAIN p.definitions, NEW k \in DOMAIN p.definitions,
         p.definitions[j] = p.definitions[k]
  PROVE  j = k
  BY ProgramsAssumption DEF IsProgram, IsForest

(* A list of calls with one more call at its end, or at its beginning. *)
LEMMA OneMore ==
  ASSUME NEW C, NEW f \in Seq(C), NEW x
  PROVE  /\ \A k \in DOMAIN (f \o <<x>>) :
              \/ k \in DOMAIN f /\ (f \o <<x>>)[k] = f[k]
              \/ k = Len(f) + 1 /\ (f \o <<x>>)[k] = x
         /\ f \o <<x>> \in Seq(C \cup {x})
  <1>1. f \in Seq(C \cup {x}) /\ <<x>> \in Seq(C \cup {x}) /\ Len(f) \in Nat /\ DOMAIN f = 1..Len(f)
    OBVIOUS
  <1>2. Len(<<x>>) = 1 /\ <<x>>[1] = x
    OBVIOUS
  <1>3. /\ f \o <<x>> \in Seq(C \cup {x}) /\ DOMAIN (f \o <<x>>) = 1..(Len(f) + 1)
        /\ \A k \in 1..(Len(f) + 1) :
             (f \o <<x>>)[k] = IF k <= Len(f) THEN f[k] ELSE <<x>>[k - Len(f)]
    BY <1>1, <1>2, ConcatProperties
  <1> QED BY <1>1, <1>2, <1>3

(* The same for a call put in front. *)
LEMMA OneBefore ==
  ASSUME NEW C, NEW f \in Seq(C), NEW x
  PROVE  /\ \A k \in DOMAIN (<<x>> \o f) :
              \/ k = 1 /\ (<<x>> \o f)[k] = x
              \/ k - 1 \in DOMAIN f /\ (<<x>> \o f)[k] = f[k - 1]
         /\ <<x>> \o f \in Seq(C \cup {x})
         /\ DOMAIN (<<x>> \o f) \subseteq Nat
  <1>1. f \in Seq(C \cup {x}) /\ <<x>> \in Seq(C \cup {x}) /\ Len(f) \in Nat /\ DOMAIN f = 1..Len(f)
    OBVIOUS
  <1>2. Len(<<x>>) = 1 /\ <<x>>[1] = x
    OBVIOUS
  <1>3. /\ <<x>> \o f \in Seq(C \cup {x}) /\ DOMAIN (<<x>> \o f) = 1..(1 + Len(f))
        /\ \A k \in 1..(1 + Len(f)) :
             (<<x>> \o f)[k] = IF k <= 1 THEN <<x>>[k] ELSE f[k - 1]
    BY <1>1, <1>2, ConcatProperties
  <1> QED BY <1>1, <1>2, <1>3

(* The children of a node have other numbers than it. *)
LEMMA ChildrenAreOther ==
  ASSUME NEW p \in Programs, NEW n \in NodeIds(p), NEW k \in DOMAIN Children(p, n)
  PROVE  Children(p, n)[k] # n
  <1>1. IsNode(p, n) /\ n \in Nat
    BY ProgramFacts
  <1>2. \A K : \A m \in Below(p, n, K) \cup Above(p, n, K) : m # n
    BY <1>1 DEF Below, Above
  <1> DEFINE x == p.nodes[n]
             E == Below(p, n, Expressions)
  <1>3. CASE x.kind \in {"int", "variable", "variable_pattern", "constructor_pattern",
                        "constructor"}
    BY <1>3 DEF Children
  <1>4. CASE x.kind = "operator"
    <2>1. /\ Children(p, n) = <<x.left, x.right>>
          /\ x.left \in E /\ x.right \in Above(p, n, Expressions)
      BY <1>1, <1>4 DEF IsNode, Children
    <2> QED BY <1>2, <2>1
  <1>5. CASE x.kind = "application"
    <2>1. Children(p, n) = <<x.function, x.argument>> /\ {x.function, x.argument} \subseteq E
      BY <1>1, <1>5 DEF IsNode, Children
    <2> QED BY <1>2, <2>1
  <1>6. CASE x.kind = "case"
    <2> DEFINE B == Below(p, n, {"branch"})
    <2>1. Children(p, n) = <<x.scrutinee>> \o x.branches /\ x.scrutinee \in E /\ x.branches \in Seq(B)
      BY <1>1, <1>6 DEF IsNode, Children
    <2>2. x.scrutinee # n /\ \A i \in DOMAIN x.branches : x.branches[i] # n
      BY <1>2, <2>1, ElementOf
    <2> HIDE DEF B, x
    <2> QED BY <2>1, <2>2, OneBefore
  <1>7. CASE x.kind = "branch"
    <2>1. /\ Children(p, n) = <<x.pattern, x.body>>
          /\ x.pattern \in Below(p, n, Patterns) /\ x.body \in E
      BY <1>1, <1>7 DEF IsNode, Children
    <2> QED BY <1>2, <2>1
  <1>8. CASE x.kind = "defn"
    <2>1. Children(p, n) = <<x.body>> /\ x.body \in E
      BY <1>1, <1>8 DEF IsNode, Children
    <2> QED BY <1>2, <2>1
  <1>9. CASE x.kind = "data"
    <2>1. /\ Children(p, n) = x.constructors
          /\ x.constructors \in Seq(Below(p, n, {"constructor"}))
      BY <1>1, <1>9 DEF IsNode, Children
    <2> QED BY <1>2, <2>1, ElementOf
  <1> QED BY <1>1, <1>3, <1>4, <1>5, <1>6, <1>7, <1>8, <1>9 DEF IsNode

(* The calls after the running one has returned: new ones, then the others. *)
LEMMA WorkAfter ==
  ASSUME NEW C, work \in Seq(C), work # << >>, NEW D, NEW calls \in Seq(D),
         work' = calls \o Tail(work)
  PROVE  /\ \A k \in DOMAIN work' :
              \/ k \in DOMAIN calls /\ work'[k] = calls[k]
              \/ /\ k - Len(calls) + 1 \in DOMAIN work \ {1}
                 /\ work'[k] = work[k - Len(calls) + 1]
         /\ 1 \in DOMAIN work /\ Top = work[1]
  <1>1. Tail(work) \in Seq(C) /\ Len(work) \in Nat \ {0} /\ Len(calls) \in Nat
        /\ DOMAIN work = 1..Len(work) /\ DOMAIN calls = 1..Len(calls)
    OBVIOUS
  <1>2. Len(Tail(work)) = Len(work) - 1
        /\ \A i \in 1..(Len(work) - 1) : Tail(work)[i] = work[i + 1]
    BY <1>1
  <1> DEFINE rest == Tail(work)
  <1>3. /\ DOMAIN (calls \o rest) = 1..(Len(calls) + Len(rest))
        /\ \A k \in 1..(Len(calls) + Len(rest)) :
             (calls \o rest)[k] = IF k <= Len(calls) THEN calls[k] ELSE rest[k - Len(calls)]
    BY <1>1, ConcatProperties
  <1> HIDE DEF rest
  <1>4. Len(rest) = Len(work) - 1 /\ \A i \in 1..(Len(work) - 1) : rest[i] = work[i + 1]
    BY <1>2 DEF rest
  <1>5. work' = calls \o rest
    BY DEF rest
  <1>6. ASSUME NEW k \in DOMAIN work', ~(k \in DOMAIN calls)
        PROVE  /\ k - Len(calls) + 1 \in DOMAIN work \ {1}
               /\ work'[k] = work[k - Len(calls) + 1]
    BY <1>1, <1>3, <1>4, <1>5, <1>6
  <1>7. ASSUME NEW k \in DOMAIN work', k \in DOMAIN calls
        PROVE  work'[k] = calls[k]
    BY <1>1, <1>3, <1>5, <1>7
  <1> QED BY <1>1, <1>6, <1>7 DEF Top

(* Nothing below a node that is about to be bound has been met. *)
LEMMA NothingBelowIsMet ==
  ASSUME NodesAreBoundOnce, work # << >>, NEW C, work \in Seq(C),
         Top.call \in BindCalls, Top.node \in NodeIds(program),
         Top.call = "bindFunction" => Node.kind = "defn",
         Top.call # "bindFunction" => Node.kind # "defn",
         NEW i \in DOMAIN Children(program, Top.node),
         Children(program, Top.node)[i] \in OfKind(program, BoundKinds)
  PROVE  ~Met(Children(program, Top.node)[i])
  <1>1. SUFFICES ASSUME Met(Children(program, Top.node)[i]) PROVE FALSE
    OBVIOUS
  <1>2. 1 \in DOMAIN work /\ work[1] = Top
    BY DEF Top
  <1>3. Expanded(Top.node)
    BY <1>1 DEF NodesAreBoundOnce
  <1>4. Pending(Top.node)
    BY <1>2 DEF Pending
  <1>5. CASE Node.kind = "defn"
    BY <1>3, <1>4, <1>5 DEF Expanded, Node
  <1>6. CASE Node.kind # "defn"
    <2>1. Top.node \in DOMAIN scopeByNode
      BY <1>3, <1>6 DEF Expanded, Node
    <2>2. Top.call \in BindCalls \ {"bindFunction"}
      BY <1>6
    <2> QED BY <1>2, <2>1, <2>2 DEF NodesAreBoundOnce
  <1> QED BY <1>5, <1>6

(* A pending call binds a node of its kind. *)
LEMMA PendingKinds ==
  ASSUME work \in Seq(Calls), NEW j \in DOMAIN work
  PROVE  /\ work[j].call \in BindCalls \ {"bindFunction"} =>
              work[j].node \in OfKind(program, BoundKinds)
         /\ work[j].call = "bindFunction" => work[j].node \in OfKind(program, {"defn", "data"})
  <1>1. work[j] \in Calls
    BY ElementOf
  <1> QED BY <1>1 DEF Calls, BindCalls, BoundKinds, OfKind

(***************************************************************************)
(* A step that binds the nodes new and makes the given calls: if it only   *)
(* binds the running call's node and nodes below it, and only makes calls  *)
(* for other nodes below it, one for each, nothing is bound twice.         *)
(***************************************************************************)
ChildrenOf(n) == {Children(program, n)[i] : i \in DOMAIN Children(program, n)}

BindsBelow(calls, new) ==
  /\ Node.kind # "data" /\ Top.call \in BindCalls
  /\ Top.call = "bindFunction" <=> Node.kind = "defn"
  /\ Top.node \in new
  /\ \A m \in new : m = Top.node \/ m \in ChildrenOf(Top.node)
  /\ \A k \in DOMAIN calls :
       calls[k].call \in BindCalls =>
         /\ calls[k].call # "bindFunction"
         /\ calls[k].node \in OfKind(program, BoundKinds)
         /\ calls[k].node \in ChildrenOf(Top.node) \ new
  /\ \A j, k \in DOMAIN calls :
       calls[j].call \in BindCalls /\ calls[k].call \in BindCalls
         /\ calls[j].node = calls[k].node => j = k

BindsNothing(calls, new) ==
  /\ new \cap OfKind(program, BoundKinds) = {}
  /\ \A k \in DOMAIN calls : calls[k].call \notin BindCalls

(* A step of either sort keeps every node bound once. *)
LEMMA BindingOnce ==
  ASSUME Inv, NodesAreBoundOnce, work # << >>, NEW D, NEW calls \in Seq(D), Then(calls),
         NEW new, DOMAIN scopeByNode' = DOMAIN scopeByNode \cup new,
         DOMAIN resolved' \subseteq DOMAIN resolved \cup new,
         BindsBelow(calls, new) \/ BindsNothing(calls, new)
  PROVE  NodesAreBoundOnce'
  <1>0. PICK n : n = Top.node
    OBVIOUS
  <1> DEFINE E == BindsBelow(calls, new)
             back(k) == k - Len(calls) + 1
  <1>1. /\ program \in Programs /\ work \in Seq(Calls) /\ program' = program
        /\ work' = calls \o Tail(work)
    BY DEF Inv, TypeOK, Then
  <1>2. /\ \A k \in DOMAIN work' :
             \/ k \in DOMAIN calls /\ work'[k] = calls[k]
             \/ back(k) \in DOMAIN work \ {1} /\ work'[k] = work[back(k)]
        /\ 1 \in DOMAIN work /\ Top = work[1]
    BY <1>1, WorkAfter
  <1>3. E => n \in NodeIds(program) \ OfKind(program, {"data"})
    <2>1. Top.call \in BindCalls => n \in NodeIds(program)
      BY <1>0, <1>1, <1>2, PendingKinds DEF OfKind, BindCalls
    <2> QED BY <1>0, <2>1 DEF BindsBelow, OfKind, Node
  <1>4. ASSUME E, NEW c \in ChildrenOf(n), c \in OfKind(program, BoundKinds)
        PROVE  /\ c \notin DOMAIN scopeByNode
               /\ \A j \in DOMAIN work : work[j].call \in BindCalls => work[j].node # c
               /\ \A u \in NodeIds(program) : \A i \in DOMAIN Children(program, u) :
                    Children(program, u)[i] = c => u = n
    <2>1. PICK i \in DOMAIN Children(program, n) : c = Children(program, n)[i]
      BY DEF ChildrenOf
    <2>2. ~Met(Children(program, n)[i])
      BY <1>0, <1>1, <1>3, <1>4, <2>1, NothingBelowIsMet DEF BindsBelow
    <2> QED BY <1>1, <1>3, <1>4, <2>1, <2>2, OnePlace DEF Met, Pending
  <1>5. \A j \in DOMAIN work : \A k \in DOMAIN work :
          work[j].call \in BindCalls /\ work[k].call \in BindCalls
            /\ work[j].node = work[k].node => j = k
    BY DEF NodesAreBoundOnce
  <1>6. \A j \in DOMAIN work :
          work[j].call \in BindCalls \ {"bindFunction"} =>
            /\ work[j].node \in OfKind(program, BoundKinds)
            /\ work[j].node \notin DOMAIN scopeByNode
    BY <1>1, PendingKinds DEF NodesAreBoundOnce
  <1>7. \A k \in DOMAIN calls :
          calls[k].call \in BindCalls =>
            /\ E /\ calls[k].call # "bindFunction"
            /\ calls[k].node \in OfKind(program, BoundKinds)
            /\ calls[k].node \in ChildrenOf(n) /\ calls[k].node \notin new
    BY <1>0 DEF BindsBelow, BindsNothing
  <1>8. \A m \in new : m \in OfKind(program, BoundKinds) =>
                         E /\ (m = n \/ m \in ChildrenOf(n))
    BY <1>0 DEF BindsBelow, BindsNothing
  <1>a. E => Top.call \in BindCalls /\ n \in new /\ (Top.call = "bindFunction" <=> Node.kind = "defn")
    BY <1>0 DEF BindsBelow
  <1>b. \A j, k \in DOMAIN calls :
          calls[j].call \in BindCalls /\ calls[k].call \in BindCalls
            /\ calls[j].node = calls[k].node => j = k
    BY DEF BindsBelow, BindsNothing
  <1>c. Len(calls) \in Nat /\ DOMAIN work' \subseteq Nat
    BY <1>1
  <1> HIDE DEF E
  <1>9. ASSUME NEW j \in DOMAIN work', NEW k \in DOMAIN work',
               work'[j].call \in BindCalls, work'[k].call \in BindCalls,
               work'[j].node = work'[k].node
        PROVE  j = k
    <2>1. CASE j \in DOMAIN calls /\ work'[j] = calls[j]
      <3>1. CASE k \in DOMAIN calls /\ work'[k] = calls[k]
        BY <1>9, <1>b, <2>1, <3>1
      <3>2. CASE back(k) \in DOMAIN work \ {1} /\ work'[k] = work[back(k)]
        BY <1>4, <1>7, <1>9, <2>1, <3>2
      <3> QED BY <1>2, <3>1, <3>2
    <2>2. CASE back(j) \in DOMAIN work \ {1} /\ work'[j] = work[back(j)]
      <3>1. CASE k \in DOMAIN calls /\ work'[k] = calls[k]
        BY <1>4, <1>7, <1>9, <2>2, <3>1
      <3>2. CASE back(k) \in DOMAIN work \ {1} /\ work'[k] = work[back(k)]
        <4>1. back(j) = back(k)
          BY <1>5, <1>9, <2>2, <3>2
        <4> QED BY <1>c, <4>1
      <3> QED BY <1>2, <3>1, <3>2
    <2> QED BY <1>2, <2>1, <2>2
  <1>10. ASSUME NEW k \in DOMAIN work', work'[k].call \in BindCalls \ {"bindFunction"}
         PROVE  work'[k].node \notin DOMAIN scopeByNode'
    <2>1. CASE k \in DOMAIN calls /\ work'[k] = calls[k]
      BY <1>4, <1>7, <1>10, <2>1
    <2>2. CASE back(k) \in DOMAIN work \ {1} /\ work'[k] = work[back(k)]
      <3> DEFINE m == work[back(k)].node
      <3>1. m \in OfKind(program, BoundKinds) /\ m \notin DOMAIN scopeByNode
        BY <1>6, <1>10, <2>2
      <3>2. m # n \/ ~E
        BY <1>0, <1>2, <1>5, <1>10, <1>a, <2>2
      <3>3. m \notin ChildrenOf(n) \/ ~E
        BY <1>4, <1>10, <2>2, <3>1
      <3>4. m \notin new
        BY <1>8, <3>1, <3>2, <3>3
      <3> QED BY <2>2, <3>1, <3>4
    <2> QED BY <1>2, <2>1, <2>2
  <1>11. ASSUME NEW u \in NodeIds(program), Expanded(u)
         PROVE  Expanded(u)'
    <2>1. CASE program.nodes[u].kind = "defn"
      <3>1. ASSUME NEW k \in DOMAIN work', work'[k].call \in BindCalls, work'[k].node = u
            PROVE  FALSE
        <4>1. CASE k \in DOMAIN calls /\ work'[k] = calls[k]
          BY <1>7, <2>1, <3>1, <4>1 DEF OfKind, BoundKinds, Expressions, Patterns
        <4>2. CASE back(k) \in DOMAIN work \ {1} /\ work'[k] = work[back(k)]
          BY <1>11, <2>1, <3>1, <4>2 DEF Expanded, Pending
        <4> QED BY <1>2, <4>1, <4>2
      <3> QED BY <1>1, <2>1, <3>1 DEF Expanded, Pending
    <2>2. CASE program.nodes[u].kind # "defn"
      BY <1>1, <1>11, <2>2 DEF Expanded
    <2> QED BY <2>1, <2>2
  <1>12. E => Expanded(n)'
    <2> SUFFICES ASSUME E PROVE Expanded(n)'
      OBVIOUS
    <2>1. CASE Node.kind = "defn"
      <3>1. ASSUME NEW k \in DOMAIN work', work'[k].call \in BindCalls, work'[k].node = n
            PROVE  FALSE
        <4>1. CASE k \in DOMAIN calls /\ work'[k] = calls[k]
          BY <1>0, <1>7, <2>1, <3>1, <4>1 DEF OfKind, BoundKinds, Expressions, Patterns, Node
        <4>2. CASE back(k) \in DOMAIN work \ {1} /\ work'[k] = work[back(k)]
          BY <1>0, <1>2, <1>5, <1>a, <3>1, <4>2
        <4> QED BY <1>2, <4>1, <4>2
      <3>2. program'.nodes[n].kind = "defn"
        BY <1>0, <1>1, <2>1 DEF Node
      <3> QED BY <3>1, <3>2 DEF Expanded, Pending
    <2>2. CASE Node.kind # "defn"
      BY <1>0, <1>1, <1>a, <2>2 DEF Expanded, Node
    <2> QED BY <2>1, <2>2
  <1>13. ASSUME NEW c \in OfKind(program, BoundKinds), Met(c)', NEW u \in NodeIds(program),
                NEW i \in DOMAIN Children(program, u), Children(program, u)[i] = c
         PROVE  Expanded(u)'
    <2>1. CASE E /\ c \in ChildrenOf(n)
      BY <1>4, <1>12, <1>13, <2>1
    <2>2. CASE Met(c)
      <3>1. Expanded(u)
        BY <1>13, <2>2 DEF NodesAreBoundOnce
      <3> QED BY <1>11, <3>1
    <2>3. Met(c) \/ (E /\ c \in ChildrenOf(n))
      <3>1. CASE c \in DOMAIN scopeByNode'
        <4>1. E => Met(n)
          BY <1>0, <1>2, <1>a DEF Met, Pending
        <4> QED BY <1>8, <1>13, <3>1, <4>1 DEF Met
      <3>2. CASE c \notin DOMAIN scopeByNode'
        <4>1. PICK k \in DOMAIN work' : work'[k].call \in BindCalls /\ work'[k].node = c
          BY <1>13, <3>2 DEF Met, Pending
        <4>2. CASE k \in DOMAIN calls /\ work'[k] = calls[k]
          BY <1>7, <4>1, <4>2
        <4>3. CASE back(k) \in DOMAIN work \ {1} /\ work'[k] = work[back(k)]
          BY <4>1, <4>3 DEF Met, Pending
        <4> QED BY <1>2, <4>2, <4>3
      <3> QED BY <3>1, <3>2
    <2> QED BY <2>1, <2>2, <2>3
  <1>14. DOMAIN resolved' \subseteq DOMAIN scopeByNode'
    BY DEF NodesAreBoundOnce
  <1>15. \A c \in OfKind(program', BoundKinds) :
           Met(c)' => \A u \in NodeIds(program') : \A i \in DOMAIN Children(program', u) :
                        Children(program', u)[i] = c => Expanded(u)'
    BY <1>1, <1>13
  <1> QED BY <1>9, <1>10, <1>14, <1>15 DEF NodesAreBoundOnce

(* analyze makes one call to bind each definition. *)
LEMMA InitOnce == Init => NodesAreBoundOnce
  <1> SUFFICES ASSUME Init PROVE NodesAreBoundOnce
    OBVIOUS
  <1> DEFINE ds == program.definitions
             int == AddSymbolCall(RootScope, Symbol("Int", "builtin", NoNode))
             registers == ForEach(ds, RegisterCall)
             checks == ForEach(ds, CheckCall)
             binds == ForEach(ds, BindFunctionCall)
             other == <<int>> \o registers \o checks
             C == {c \in {int} \cup {registers[k] : k \in DOMAIN ds} \cup {checks[k] : k \in DOMAIN ds} :
                     c.call \notin BindCalls}
  <1>1. program \in Programs /\ scopeByNode = << >> /\ resolved = << >>
        /\ work = other \o binds
    BY DEF Init, Analyze
  <1>2. ds \in Seq(OfKind(program, {"defn", "data"}))
    BY <1>1, ProgramFacts
  <1>3. <<int>> \in Seq(C)
    BY DEF AddSymbolCall, BindCalls
  <1>4. /\ DOMAIN registers = DOMAIN ds /\ registers = [k \in DOMAIN ds |-> registers[k]]
        /\ \A k \in DOMAIN ds : registers[k] \in C
    BY DEF ForEach, RegisterCall, BindCalls
  <1>5. /\ DOMAIN checks = DOMAIN ds /\ checks = [k \in DOMAIN ds |-> checks[k]]
        /\ \A k \in DOMAIN ds : checks[k] \in C
    BY DEF ForEach, CheckCall, BindCalls
  <1>6. /\ DOMAIN binds = DOMAIN ds /\ binds = [k \in DOMAIN ds |-> binds[k]]
        /\ \A k \in DOMAIN ds : binds[k] = BindFunctionCall(ds[k])
    BY DEF ForEach
  <1> HIDE DEF C, registers, checks, binds, int, ds
  <1>7. registers \in Seq(C) /\ checks \in Seq(C)
    BY <1>2, <1>4, <1>5, SeqAlong
  <1>8. other \in Seq(C)
    BY <1>3, <1>7
  <1> DEFINE B == {binds[k] : k \in DOMAIN ds}
  <1>9. binds \in Seq(B)
    BY <1>2, <1>6, SeqAlong
  <1> HIDE DEF other, B
  <1>10. \A k \in DOMAIN work :
           \/ k \in DOMAIN other /\ work[k] = other[k]
           \/ k - Len(other) \in DOMAIN binds /\ work[k] = binds[k - Len(other)]
    <2>1. /\ other \in Seq(C \cup B) /\ binds \in Seq(C \cup B)
          /\ Len(other) \in Nat /\ Len(binds) \in Nat
          /\ DOMAIN other = 1..Len(other) /\ DOMAIN binds = 1..Len(binds)
      BY <1>8, <1>9
    <2>2. /\ DOMAIN work = 1..(Len(other) + Len(binds))
          /\ \A k \in 1..(Len(other) + Len(binds)) :
               work[k] = IF k <= Len(other) THEN other[k] ELSE binds[k - Len(other)]
      BY <1>1, <2>1, ConcatProperties
    <2> QED BY <2>1, <2>2
  <1>11. \A k \in DOMAIN other : other[k].call \notin BindCalls
    <2>1. \A c \in C : c.call \notin BindCalls
      BY DEF C
    <2> QED BY <1>8, <2>1, ElementOf
  <1>12. \A k \in DOMAIN work :
           work[k].call \in BindCalls =>
             /\ k - Len(other) \in DOMAIN ds /\ work[k].call = "bindFunction"
             /\ work[k].node = ds[k - Len(other)]
    BY <1>6, <1>10, <1>11 DEF BindFunctionCall
  <1>13. ASSUME NEW j \in DOMAIN work, NEW k \in DOMAIN work,
                work[j].call \in BindCalls, work[k].call \in BindCalls,
                work[j].node = work[k].node
         PROVE  j = k
    <2>1. j - Len(other) = k - Len(other)
      BY <1>1, <1>12, <1>13, OneDefinition DEF ds
    <2>2. Len(other) \in Nat /\ DOMAIN work \subseteq Nat
      <3>1. work \in Seq(C \cup B) 
        BY <1>1, <1>8, <1>9
      <3> QED BY <1>8, <3>1
    <2> QED BY <2>1, <2>2
  <1>14. \A n \in OfKind(program, BoundKinds) : ~Met(n)
    <2>1. \A k \in DOMAIN ds : ds[k] \in OfKind(program, {"defn", "data"})
      BY <1>2, ElementOf
    <2>2. \A k \in DOMAIN work :
            work[k].call \in BindCalls => work[k].node \in OfKind(program, {"defn", "data"})
      BY <1>12, <2>1
    <2>3. OfKind(program, BoundKinds) \cap OfKind(program, {"defn", "data"}) = {}
      BY DEF OfKind, BoundKinds, Expressions, Patterns
    <2> QED BY <1>1, <2>2, <2>3 DEF Met, Pending
  <1> QED BY <1>1, <1>12, <1>13, <1>14 DEF NodesAreBoundOnce

(* A running call that binds, and what it may bind. *)
LEMMA RunningBinds ==
  ASSUME Inv, NodesAreBoundOnce, work # << >>
  PROVE  /\ Top.call = "bindExpression" =>
              /\ Top.node \in OfKind(program, Expressions)
              /\ Top.node \notin DOMAIN scopeByNode /\ Top.node \notin DOMAIN resolved
         /\ Top.call = "bindBranch" =>
              /\ Top.node \in OfKind(program, {"branch"})
              /\ Top.node \notin DOMAIN scopeByNode /\ Top.node \notin DOMAIN resolved
  <1>1. work \in Seq(Calls)
    BY DEF Inv, TypeOK
  <1>2. 1 \in DOMAIN work /\ work[1] = Top
    BY <1>1 DEF Top
  <1>3. Top.call \in BindCalls \ {"bindFunction"} => Top.node \notin DOMAIN scopeByNode
    BY <1>2 DEF NodesAreBoundOnce
  <1>4. DOMAIN resolved \subseteq DOMAIN scopeByNode
    BY DEF NodesAreBoundOnce
  <1> QED BY <1>1, <1>3, <1>4, RunningCall DEF BindCalls

(* A step that leaves scopes and symbols, and what is resolved, alone. *)
LEMMA NothingChanges ==
  ASSUME UNCHANGED <<scopes, symbols>>,
         \A n \in DOMAIN resolved : n \in DOMAIN resolved' /\ resolved'[n] = resolved[n]
  PROVE  KeepsMeanings
  BY DEF KeepsMeanings, SymbolIds, ScopeIds

(* A declaration binds no node, and changes no other name. *)
LEMMA AddSymbolOnce ==
  ASSUME Inv, NodesAreBoundOnce, AddSymbol PROVE NodesAreBoundOnce' /\ KeepsMeanings
  <1>1. TreeInv /\ work \in Seq(Calls)
    BY InvParts
  <1>2. /\ work # << >> /\ Then(<< >>) /\ program' = program
        /\ Top.scope \in ScopeIds /\ Top.symbol \in Symbols
        /\ UNCHANGED <<scopeByNode, resolved>>
    BY <1>1, RunningCall DEF AddSymbol, Running, Then, Redeclare, Declare, tree
  <1>3. BindsNothing(<< >>, {}) /\ << >> \in Seq(Calls)
    BY DEF BindsNothing
  <1>4. DOMAIN scopeByNode' = DOMAIN scopeByNode \cup {}
        /\ DOMAIN resolved' \subseteq DOMAIN resolved \cup {}
    BY <1>2
  <1>5. NodesAreBoundOnce'
    BY <1>2, <1>3, <1>4, BindingOnce
  <1>6. CASE Top.symbol.name \in DOMAIN scopes[Top.scope].symbols
    <2>1. UNCHANGED <<scopes, symbols, resolved>>
      BY <1>6 DEF AddSymbol, Redeclare, tree
    <2> QED BY <1>5, <2>1, NothingChanges
  <1>7. CASE Top.symbol.name \notin DOMAIN scopes[Top.scope].symbols
    <2> DEFINE s == Top.scope
               symbol == Top.symbol
    <2> HIDE DEF s, symbol
    <2>1. /\ s \in ScopeIds /\ symbol \in Symbols
          /\ symbol.name \notin DOMAIN scopes[s].symbols /\ Declare(s, symbol)
      BY <1>2, <1>7 DEF AddSymbol, s, symbol
    <2>2. /\ SymbolIds \subseteq SymbolIds' /\ ScopeIds' = ScopeIds
          /\ \A k \in SymbolIds : symbols'[k] = symbols[k]
          /\ \A t \in ScopeIds :
               /\ scopes'[t].parent = scopes[t].parent
               /\ scopes'[t].symbols =
                    IF t = s THEN Put(scopes[s].symbols, symbol.name, Len(symbols) + 1)
                    ELSE scopes[t].symbols
      BY <1>1, <1>2, <2>1, DeclareChanges
    <2> DEFINE map == Put(scopes[s].symbols, symbol.name, Len(symbols) + 1)
    <2>a. \A name \in DOMAIN scopes[s].symbols :
            name \in DOMAIN map /\ map[name] = scopes[s].symbols[name]
      BY <2>1 DEF Put
    <2>b. \A t \in ScopeIds : scopes'[t].symbols = IF t = s THEN map ELSE scopes[t].symbols
      BY <2>2
    <2> HIDE DEF map
    <2>3. \A t \in ScopeIds : \A name \in DOMAIN scopes[t].symbols :
            /\ name \in DOMAIN scopes'[t].symbols
            /\ scopes'[t].symbols[name] = scopes[t].symbols[name]
      BY <2>a, <2>b
    <2> QED BY <1>2, <1>5, <2>2, <2>3 DEF KeepsMeanings
  <1> QED BY <1>6, <1>7

(* registerGlobalDefinitions binds no node. *)
LEMMA RegisterDefinitionOnce ==
  ASSUME Inv, NodesAreBoundOnce, RegisterDefinition
  PROVE  NodesAreBoundOnce' /\ KeepsMeanings
  <1> DEFINE AsGlobal(kind, n) ==
               AddSymbolCall(RootScope, Symbol(program.nodes[n].name, kind, n))
             GlobalConstructor(c) == AsGlobal("constructor", c)
             data == AsGlobal("data", Top.node)
             declared == ForEach(Node.constructors, GlobalConstructor)
  <1>1. /\ TreeInv /\ work \in Seq(Calls) /\ work # << >>
        /\ Top.node \in OfKind(program, {"defn", "data"})
        /\ UNCHANGED <<program, scopes, symbols, scopeByNode, resolved>>
    BY InvParts, RunningCall DEF RegisterDefinition, Running, Then, tree
  <1>2. KeepsMeanings
    BY <1>1, NothingChanges
  <1>3. DOMAIN scopeByNode' = DOMAIN scopeByNode \cup {}
        /\ DOMAIN resolved' \subseteq DOMAIN resolved \cup {}
    BY <1>1
  <1>4. CASE Node.kind = "defn"
    <2> DEFINE calls == <<AsGlobal("function", Top.node)>>
    <2>1. Then(calls) /\ calls \in Seq({AsGlobal("function", Top.node)})
      BY <1>4 DEF RegisterDefinition
    <2>2. BindsNothing(calls, {})
      BY DEF BindsNothing, AddSymbolCall, BindCalls
    <2> HIDE DEF calls
    <2> QED BY <1>1, <1>2, <1>3, <2>1, <2>2, BindingOnce
  <1>5. CASE Node.kind # "defn"
    <2>1. Then(<<data>> \o declared)
      BY <1>5 DEF RegisterDefinition
    <2>2. Node.constructors \in Seq(OfKind(program, {"constructor"}))
      <3>1. Top.node \in OfKind(program, {"data"}) /\ program \in Programs
        BY <1>1, <1>5 DEF OfKind, Node, TreeInv
      <3> QED BY <3>1, DataNode DEF Node
    <2> DEFINE A == {declared[k] : k \in DOMAIN Node.constructors}
    <2>3. /\ DOMAIN declared = DOMAIN Node.constructors
          /\ declared = [k \in DOMAIN Node.constructors |-> declared[k]]
          /\ \A k \in DOMAIN Node.constructors : declared[k] \in A
      BY DEF ForEach
    <2>a. (\A x \in A : x.call = "addSymbol") /\ data.call = "addSymbol"
      <3>1. \A k \in DOMAIN Node.constructors : declared[k].call = "addSymbol"
        BY DEF ForEach, AddSymbolCall
      <3>2. data.call = "addSymbol"
        BY DEF AddSymbolCall
      <3> HIDE DEF declared, data
      <3> QED BY <3>1, <3>2
    <2> HIDE DEF declared, A, data
    <2> DEFINE q == Node.constructors
    <2>b. q \in Seq(OfKind(program, {"constructor"}))
      BY <2>2
    <2>c. /\ DOMAIN declared = DOMAIN q /\ declared = [k \in DOMAIN q |-> declared[k]]
          /\ \A k \in DOMAIN q : declared[k] \in A
      BY <2>3
    <2> HIDE DEF q
    <2>4. declared \in Seq(A)
      BY <2>b, <2>c, SeqAlong
    <2>d. \A k \in DOMAIN declared : declared[k] \in A
      BY <2>c
    <2>5. <<data>> \o declared \in Seq(A \cup {data})
          /\ \A k \in DOMAIN (<<data>> \o declared) :
               (<<data>> \o declared)[k] \in A \cup {data}
      BY <2>d, <2>4, OneBefore
    <2>6. BindsNothing(<<data>> \o declared, {})
      BY <2>a, <2>5 DEF BindsNothing, BindCalls
    <2> QED BY <1>1, <1>2, <1>3, <2>1, <2>5, <2>6, BindingOnce
  <1> QED BY <1>4, <1>5

(* checkGlobalDefinitions binds nodes that the walk does not resolve. *)
LEMMA CheckDefinitionOnce ==
  ASSUME Inv, NodesAreBoundOnce, CheckDefinition
  PROVE  NodesAreBoundOnce' /\ KeepsMeanings
  <1> DEFINE bound == {Top.node} \cup
                      (IF Node.kind = "data"
                       THEN {Node.constructors[k] : k \in DOMAIN Node.constructors}
                       ELSE {})
             K == {"defn", "data", "constructor"}
  <1>1. /\ TreeInv /\ work \in Seq(Calls) /\ work # << >> /\ Then(<< >>)
        /\ Top.node \in OfKind(program, {"defn", "data"}) /\ program \in Programs
        /\ UNCHANGED <<program, scopes, symbols, resolved>>
    BY InvParts, RunningCall DEF CheckDefinition, Running, Then, TreeInv
  <1>2. KeepsMeanings
    BY <1>1, NothingChanges
  <1>3. bound \subseteq OfKind(program, K)
    <2>1. Top.node \in OfKind(program, K)
      BY <1>1 DEF OfKind
    <2>2. ASSUME Node.kind = "data", NEW k \in DOMAIN Node.constructors
          PROVE  Node.constructors[k] \in OfKind(program, K)
      <3>1. Top.node \in OfKind(program, {"data"})
        BY <1>1, <2>2 DEF OfKind, Node
      <3>2. Node.constructors \in Seq(OfKind(program, {"constructor"}))
        BY <1>1, <3>1, DataNode DEF Node
      <3>3. Node.constructors[k] \in OfKind(program, {"constructor"})
        BY <2>2, <3>2, ElementOf
      <3> QED BY <3>3 DEF OfKind
    <2> QED BY <2>1, <2>2
  <1>4. BindsNothing(<< >>, bound) /\ << >> \in Seq(Calls)
    <2>1. OfKind(program, K) \cap OfKind(program, BoundKinds) = {}
      BY DEF OfKind, BoundKinds, Expressions, Patterns
    <2> HIDE DEF bound, K
    <2> QED BY <1>3, <2>1 DEF BindsNothing
  <1>5. DOMAIN scopeByNode' = DOMAIN scopeByNode \cup bound
        /\ DOMAIN resolved' \subseteq DOMAIN resolved \cup bound
    <2>1. scopeByNode' = [n \in DOMAIN scopeByNode \cup bound |->
                            IF n \in bound THEN RootScope ELSE scopeByNode[n]]
      BY DEF CheckDefinition
    <2> HIDE DEF bound
    <2> QED BY <1>1, <2>1
  <1> HIDE DEF bound
  <1> QED BY <1>1, <1>2, <1>4, <1>5, BindingOnce

(* A function's body is its only child. *)
LEMMA BindFunctionOnce ==
  ASSUME Inv, NodesAreBoundOnce, BindFunction
  PROVE  NodesAreBoundOnce' /\ KeepsMeanings
  <1>1. /\ TreeInv /\ work \in Seq(Calls) /\ work # << >>
        /\ Top.node \in OfKind(program, {"defn", "data"}) /\ Top.call = "bindFunction"
        /\ program \in Programs /\ UNCHANGED <<program, symbols, resolved>>
    BY InvParts, RunningCall DEF BindFunction, Running, Then, TreeInv
  <1>2. CASE Node.kind = "defn"
    <2> DEFINE AsParameter(name) ==
                 AddSymbolCall(NewScope, Symbol(name, "parameter", Top.node))
               declared == ForEach(Node.parameters, AsParameter)
               body == BindExpressionCall(NewScope, Node.body)
               A == {declared[k] : k \in DOMAIN Node.parameters}
               q == Node.parameters
    <2>1. /\ CreateScope(RootScope, Top.node)
          /\ scopeByNode' = Put(scopeByNode, Top.node, NewScope)
          /\ Then(declared \o <<body>>)
      BY <1>2 DEF BindFunction
    <2>2. /\ q \in Seq(Names) /\ Node.body \in OfKind(program, Expressions)
          /\ Children(program, Top.node) = <<Node.body>>
      <3>1. Top.node \in OfKind(program, {"defn"})
        BY <1>1, <1>2 DEF OfKind, Node
      <3> QED BY <1>1, <1>2, <3>1, DefinitionNode DEF Node, Children
    <2>3. KeepsMeanings
      <3>1. RootScope \in ScopeIds /\ Top.node \in NodeIds(program)
        BY <1>1 DEF TreeInv, OfKind
      <3>2. /\ Len(scopes') = Len(scopes) + 1 /\ Len(scopes) \in Nat
            /\ \A s \in ScopeIds : /\ scopes'[s].parent = scopes[s].parent
                                   /\ scopes'[s].symbols = scopes[s].symbols
        BY <1>1, <2>1, <3>1, CreateChanges DEF TreeInv
      <3> QED BY <1>1, <3>2 DEF KeepsMeanings, ScopeIds, SymbolIds
    <2>4. \A k \in DOMAIN q : declared[k].call = "addSymbol"
      BY DEF ForEach, AddSymbolCall
    <2>5. /\ DOMAIN declared = DOMAIN q /\ declared = [k \in DOMAIN q |-> declared[k]]
          /\ \A k \in DOMAIN q : declared[k] \in A
      BY DEF ForEach
    <2>6. body.call = "bindExpression" /\ body.node = Node.body
      BY DEF BindExpressionCall
    <2> HIDE DEF declared, body, A, q
    <2>7. declared \in Seq(A)
      BY <2>2, <2>5, SeqAlong
    <2>8. BindsBelow(declared \o <<body>>, {Top.node})
      <3>1. \A k \in DOMAIN (declared \o <<body>>) :
              (declared \o <<body>>)[k].call \in BindCalls =>
                k = Len(declared) + 1 /\ (declared \o <<body>>)[k] = body
        BY <2>4, <2>5, <2>7, OneMore DEF BindCalls
      <3>2. Node.body \in ChildrenOf(Top.node) /\ Node.body # Top.node
        BY <1>1, <2>2 DEF ChildrenOf, OfKind, Expressions
      <3>3. Node.body \in OfKind(program, BoundKinds)
        BY <2>2 DEF OfKind, BoundKinds
      <3> QED BY <1>1, <1>2, <2>6, <3>1, <3>2, <3>3 DEF BindsBelow, BindCalls
    <2>9. /\ DOMAIN scopeByNode' = DOMAIN scopeByNode \cup {Top.node}
          /\ DOMAIN resolved' \subseteq DOMAIN resolved \cup {Top.node}
      BY <1>1, <2>1 DEF Put
    <2>10. declared \o <<body>> \in Seq(A \cup {body})
      BY <2>7, OneMore
    <2> QED BY <1>1, <2>1, <2>3, <2>8, <2>9, <2>10, BindingOnce
  <1>3. CASE Node.kind # "defn"
    <2>1. Then(<< >>) /\ UNCHANGED <<scopes, scopeByNode>>
      BY <1>3 DEF BindFunction
    <2>2. KeepsMeanings
      BY <1>1, <2>1, NothingChanges
    <2>3. BindsNothing(<< >>, {}) /\ << >> \in Seq(Calls)
      BY DEF BindsNothing
    <2>4. DOMAIN scopeByNode' = DOMAIN scopeByNode \cup {}
          /\ DOMAIN resolved' \subseteq DOMAIN resolved \cup {}
      BY <1>1, <2>1
    <2> QED BY <1>1, <2>1, <2>2, <2>3, <2>4, BindingOnce
  <1> QED BY <1>2, <1>3

(* The operands are different nodes below the operator, one call each. *)
LEMMA BindLeafOrOperatorOnce ==
  ASSUME Inv, NodesAreBoundOnce, BindLeafOrOperator
  PROVE  NodesAreBoundOnce' /\ KeepsMeanings
  <1> DEFINE cs == Children(program, Top.node)
             B == {BindOperands[k] : k \in DOMAIN cs}
  <1>1. /\ work \in Seq(Calls) /\ work # << >> /\ Then(BindOperands)
        /\ Top.node \in OfKind(program, Expressions) /\ Top.call = "bindExpression"
        /\ Node.kind \in {"int", "operator", "application"}
        /\ program \in Programs /\ UNCHANGED <<scopes, symbols, resolved>>
        /\ scopeByNode' = Put(scopeByNode, Top.node, Top.scope)
    BY InvParts, RunningCall DEF BindLeafOrOperator, Running, TreeInv
  <1>2. KeepsMeanings
    BY <1>1, NothingChanges
  <1>3. cs \in Seq(OfKind(program, Expressions))
    <2>1. Top.node \in OfKind(program, {"int", "operator", "application"})
      BY <1>1 DEF OfKind, Node
    <2> QED BY <1>1, <2>1, OperandNodes
  <1>4. /\ DOMAIN BindOperands = DOMAIN cs
        /\ BindOperands = [k \in DOMAIN cs |-> BindOperands[k]]
        /\ \A k \in DOMAIN cs : BindOperands[k] \in B
    BY DEF BindOperands, ForEach
  <1>5. \A k \in DOMAIN cs :
          BindOperands[k].call = "bindExpression" /\ BindOperands[k].node = cs[k]
    BY DEF BindOperands, ForEach, BindExpressionCall
  <1>6. \A k \in DOMAIN cs : cs[k] \in ChildrenOf(Top.node) /\ cs[k] # Top.node
    <2>1. \A k \in DOMAIN cs : cs[k] \in ChildrenOf(Top.node)
      BY DEF ChildrenOf
    <2>2. \A k \in DOMAIN cs : cs[k] # Top.node
      BY <1>1, ChildrenAreOther DEF OfKind
    <2> QED BY <2>1, <2>2
  <1>7. \A j, k \in DOMAIN cs : cs[j] = cs[k] => j = k
    <2>1. Top.node \in NodeIds(program)
      BY <1>1 DEF OfKind
    <2> QED BY <1>1, <2>1, OnePlace
  <1> HIDE DEF cs, B
  <1>8. BindOperands \in Seq(B)
    BY <1>3, <1>4, SeqAlong
  <1>9. BindsBelow(BindOperands, {Top.node})
    <2>1. \A k \in DOMAIN cs : cs[k] \in OfKind(program, BoundKinds)
      <3>1. OfKind(program, Expressions) \subseteq OfKind(program, BoundKinds)
        BY DEF OfKind, BoundKinds
      <3> QED BY <1>3, <3>1, ElementOf
    <2> QED BY <1>1, <1>4, <1>5, <1>6, <1>7, <2>1 DEF BindsBelow, BindCalls
  <1>10. /\ DOMAIN scopeByNode' = DOMAIN scopeByNode \cup {Top.node}
         /\ DOMAIN resolved' \subseteq DOMAIN resolved \cup {Top.node}
    BY <1>1 DEF Put
  <1> QED BY <1>1, <1>2, <1>8, <1>9, <1>10, BindingOnce

(* A variable is resolved when it is bound, so once. *)
LEMMA BindVariableOnce ==
  ASSUME Inv, NodesAreBoundOnce, BindVariable
  PROVE  NodesAreBoundOnce' /\ KeepsMeanings
  <1>1. /\ work \in Seq(Calls) /\ work # << >> /\ Then(<< >>) /\ Node.kind = "variable"
        /\ Top.node \in OfKind(program, Expressions) /\ Top.call = "bindExpression"
        /\ program \in Programs /\ UNCHANGED <<scopes, symbols>>
        /\ scopeByNode' = Put(scopeByNode, Top.node, Top.scope)
    BY InvParts, RunningCall DEF BindVariable, Running, TreeInv
  <1>2. Top.node \notin DOMAIN resolved
    BY <1>1, RunningBinds
  <1>3. \/ resolved' = resolved
        \/ \E id : resolved' = Put(resolved, Top.node, id)
    BY DEF BindVariable
  <1>4. KeepsMeanings
    BY <1>1, <1>2, <1>3, NothingChanges DEF Put
  <1>5. /\ DOMAIN scopeByNode' = DOMAIN scopeByNode \cup {Top.node}
        /\ DOMAIN resolved' \subseteq DOMAIN resolved \cup {Top.node}
    BY <1>1, <1>3 DEF Put
  <1>6. BindsBelow(<< >>, {Top.node}) /\ << >> \in Seq(Calls)
    BY <1>1 DEF BindsBelow, BindCalls
  <1> QED BY <1>1, <1>4, <1>5, <1>6, BindingOnce

(* The calls of a case are for its children, one each. *)
LEMMA BindCaseExpressionOnce ==
  ASSUME Inv, NodesAreBoundOnce, BindCaseExpression
  PROVE  NodesAreBoundOnce' /\ KeepsMeanings
  <1> DEFINE Bind(b) == BindBranchCall(Top.scope, b)
             first == BindExpressionCall(Top.scope, Node.scrutinee)
             q == Node.branches
             binds == ForEach(q, Bind)
             A == {binds[k] : k \in DOMAIN q}
             calls == <<first>> \o binds
             cs == Children(program, Top.node)
  <1>1. /\ work \in Seq(Calls) /\ work # << >> /\ Then(calls) /\ Node.kind = "case"
        /\ Top.node \in OfKind(program, Expressions) /\ Top.call = "bindExpression"
        /\ program \in Programs /\ UNCHANGED <<scopes, symbols, resolved>>
        /\ scopeByNode' = Put(scopeByNode, Top.node, Top.scope)
    BY InvParts, RunningCall DEF BindCaseExpression, Running, TreeInv
  <1>2. KeepsMeanings
    BY <1>1, NothingChanges
  <1>3. /\ Node.scrutinee \in OfKind(program, Expressions)
        /\ q \in Seq(OfKind(program, {"branch"}))
        /\ cs = <<Node.scrutinee>> \o q
    <2>1. Top.node \in OfKind(program, {"case"})
      BY <1>1 DEF OfKind, Node
    <2> QED BY <1>1, <2>1, CaseNode DEF Node, Children
  <1>4. /\ DOMAIN binds = DOMAIN q /\ binds = [k \in DOMAIN q |-> binds[k]]
        /\ \A k \in DOMAIN q : binds[k] \in A
    BY DEF ForEach
  <1>5. \A k \in DOMAIN q : binds[k].call = "bindBranch" /\ binds[k].node = q[k]
    BY DEF ForEach, BindBranchCall
  <1>6. first.call = "bindExpression" /\ first.node = Node.scrutinee
    BY DEF BindExpressionCall
  <1>7. /\ \A k \in DOMAIN cs : cs[k] \in ChildrenOf(Top.node) /\ cs[k] # Top.node
        /\ \A j, k \in DOMAIN cs : cs[j] = cs[k] => j = k
    <2>1. Top.node \in NodeIds(program)
      BY <1>1 DEF OfKind
    <2> QED BY <1>1, <2>1, ChildrenAreOther, OnePlace DEF ChildrenOf
  <1> HIDE DEF binds, first, q, A, cs
  <1>8. binds \in Seq(A)
    BY <1>3, <1>4, SeqAlong
  <1>9. calls \in Seq(A \cup {first}) /\ DOMAIN calls = DOMAIN cs
    <2>1. Len(binds) = Len(q) /\ Len(q) \in Nat
      BY <1>3, <1>4, <1>8
    <2>2. /\ Len(calls) = 1 + Len(binds) /\ Len(cs) = 1 + Len(q)
          /\ DOMAIN calls = 1..Len(calls) /\ DOMAIN cs = 1..Len(cs)
      <3>1. <<first>> \in Seq({first}) /\ <<Node.scrutinee>> \in Seq({Node.scrutinee})
        OBVIOUS
      <3> QED BY <1>3, <1>8, <3>1
    <2>3. calls \in Seq(A \cup {first})
      BY <1>8, OneBefore
    <2> QED BY <2>1, <2>2, <2>3
  <1>10. \A k \in DOMAIN calls :
           /\ calls[k].call \in BindCalls \ {"bindFunction"}
           /\ calls[k].node = cs[k] /\ cs[k] \in OfKind(program, BoundKinds)
    <2> SUFFICES ASSUME NEW k \in DOMAIN calls
                 PROVE  /\ calls[k].call \in BindCalls \ {"bindFunction"}
                        /\ calls[k].node = cs[k] /\ cs[k] \in OfKind(program, BoundKinds)
      OBVIOUS
    <2>1. \/ k = 1 /\ calls[k] = first
          \/ k - 1 \in DOMAIN binds /\ calls[k] = binds[k - 1]
      BY <1>8, OneBefore
    <2>2. \/ k = 1 /\ cs[k] = Node.scrutinee
          \/ k - 1 \in DOMAIN q /\ cs[k] = q[k - 1]
      BY <1>3, <1>9, OneBefore
    <2>3. \A j \in DOMAIN q : q[j] \in OfKind(program, {"branch"}) /\ DOMAIN q \subseteq Nat \ {0}
      BY <1>3, ElementOf
    <2>4. /\ OfKind(program, {"branch"}) \subseteq OfKind(program, BoundKinds)
          /\ OfKind(program, Expressions) \subseteq OfKind(program, BoundKinds)
      BY DEF OfKind, BoundKinds
    <2>5. CASE k = 1
      BY <1>3, <1>4, <1>6, <2>1, <2>2, <2>3, <2>4, <2>5 DEF BindCalls
    <2>6. CASE k # 1
      BY <1>4, <1>5, <2>1, <2>2, <2>3, <2>4, <2>6 DEF BindCalls
    <2> QED BY <2>5, <2>6
  <1> HIDE DEF calls
  <1>11. BindsBelow(calls, {Top.node})
    BY <1>1, <1>7, <1>9, <1>10 DEF BindsBelow, BindCalls
  <1>12. /\ DOMAIN scopeByNode' = DOMAIN scopeByNode \cup {Top.node}
         /\ DOMAIN resolved' \subseteq DOMAIN resolved \cup {Top.node}
    BY <1>1 DEF Put
  <1> QED BY <1>1, <1>2, <1>9, <1>11, <1>12, BindingOnce

(* A pattern is bound with its branch, so once, and the body after it. *)
LEMMA BindBranchOnce ==
  ASSUME Inv, NodesAreBoundOnce, BindBranch
  PROVE  NodesAreBoundOnce' /\ KeepsMeanings
  <1> DEFINE q == PatternNames(program, Node.pattern)
             AsPatternVariable(name) ==
               AddSymbolCall(NewScope, Symbol(name, "pattern_variable", Node.pattern))
             declared == ForEach(q, AsPatternVariable)
             body == BindExpressionCall(NewScope, Node.body)
             A == {declared[k] : k \in DOMAIN q}
             new == {Top.node, Node.pattern}
  <1>1. /\ TreeInv /\ work \in Seq(Calls) /\ work # << >>
        /\ Top.node \in OfKind(program, {"branch"}) /\ Top.call = "bindBranch"
        /\ Top.scope \in ScopeIds /\ Top.node \in NodeIds(program)
        /\ CreateScope(Top.scope, Top.node) /\ Then(declared \o <<body>>)
        /\ scopeByNode' = Put(Put(scopeByNode, Top.node, NewScope), Node.pattern, NewScope)
        /\ program \in Programs /\ UNCHANGED <<program, symbols>>
    BY InvParts, RunningCall DEF BindBranch, Running, Then, TreeInv, OfKind
  <1>2. /\ q \in Seq(Names) /\ Node.body \in OfKind(program, Expressions)
        /\ Node.pattern \in OfKind(program, Patterns)
        /\ Children(program, Top.node) = <<Node.pattern, Node.body>>
    <2>1. program.nodes[Top.node].kind = "branch"
      BY <1>1 DEF OfKind
    <2> QED BY <1>1, <2>1, BranchNode DEF Node, Children
  <1>3. /\ Node.pattern \in ChildrenOf(Top.node) /\ Node.body \in ChildrenOf(Top.node)
        /\ Node.pattern # Top.node /\ Node.body # Top.node /\ Node.body # Node.pattern
    BY <1>1, <1>2 DEF ChildrenOf, OfKind, Expressions, Patterns
  <1>4. Node.pattern \notin DOMAIN resolved
    <2>1. Children(program, Top.node)[1] = Node.pattern /\ 1 \in DOMAIN Children(program, Top.node)
      BY <1>2
    <2>2. Node.kind = "branch" /\ Node.pattern \in OfKind(program, BoundKinds)
      BY <1>1, <1>2 DEF OfKind, Node, BoundKinds
    <2>3. ~Met(Node.pattern)
      BY <1>1, <2>1, <2>2, NothingBelowIsMet DEF BindCalls
    <2> QED BY <2>3 DEF Met, NodesAreBoundOnce
  <1>5. \/ resolved' = resolved
        \/ \E id : resolved' = Put(resolved, Node.pattern, id)
    BY DEF BindBranch, NameConstructor
  <1>6. KeepsMeanings
    <2>1. /\ Len(scopes') = Len(scopes) + 1 /\ Len(scopes) \in Nat
          /\ \A s \in ScopeIds : /\ scopes'[s].parent = scopes[s].parent
                                 /\ scopes'[s].symbols = scopes[s].symbols
      BY <1>1, CreateChanges DEF TreeInv
    <2>2. \A n \in DOMAIN resolved : n \in DOMAIN resolved' /\ resolved'[n] = resolved[n]
      BY <1>4, <1>5 DEF Put
    <2> QED BY <1>1, <2>1, <2>2 DEF KeepsMeanings, ScopeIds, SymbolIds
  <1>7. \A k \in DOMAIN q : declared[k].call = "addSymbol"
    BY DEF ForEach, AddSymbolCall
  <1>8. /\ DOMAIN declared = DOMAIN q /\ declared = [k \in DOMAIN q |-> declared[k]]
        /\ \A k \in DOMAIN q : declared[k] \in A
    BY DEF ForEach
  <1>9. body.call = "bindExpression" /\ body.node = Node.body
    BY DEF BindExpressionCall
  <1> HIDE DEF declared, body, A, q
  <1>10. declared \in Seq(A)
    BY <1>2, <1>8, SeqAlong
  <1>11. BindsBelow(declared \o <<body>>, new)
    <2>1. \A k \in DOMAIN (declared \o <<body>>) :
            (declared \o <<body>>)[k].call \in BindCalls =>
              k = Len(declared) + 1 /\ (declared \o <<body>>)[k] = body
      BY <1>7, <1>8, <1>10, OneMore DEF BindCalls
    <2>2. Node.body \in OfKind(program, BoundKinds) /\ Node.kind = "branch"
      BY <1>1, <1>2 DEF OfKind, BoundKinds, Node
    <2> QED BY <1>1, <1>3, <1>9, <2>1, <2>2 DEF BindsBelow, BindCalls
  <1>12. /\ DOMAIN scopeByNode' = DOMAIN scopeByNode \cup new
         /\ DOMAIN resolved' \subseteq DOMAIN resolved \cup new
    BY <1>1, <1>5 DEF Put
  <1>13. declared \o <<body>> \in Seq(A \cup {body})
    BY <1>10, OneMore
  <1> QED BY <1>1, <1>6, <1>11, <1>12, <1>13, BindingOnce

(* Doing nothing binds nothing. *)
LEMMA StutterOnce ==
  ASSUME NodesAreBoundOnce, UNCHANGED vars PROVE NodesAreBoundOnce'
  BY DEF vars, NodesAreBoundOnce, Met, Expanded, Pending, OfKind, NodeIds

(* Every step keeps the nodes bound once, and what was found before it. *)
LEMMA StepBindsOnce ==
  Inv /\ NodesAreBoundOnce /\ [Next]_vars => NodesAreBoundOnce' /\ [KeepsMeanings]_vars
  BY AddSymbolOnce, RegisterDefinitionOnce, CheckDefinitionOnce, BindFunctionOnce,
     BindLeafOrOperatorOnce, BindVariableOnce, BindCaseExpressionOnce, BindBranchOnce,
     StutterOnce
     DEF Next, Done

(***************************************************************************)
(* The walk never binds a node twice, whatever the program: the recursion  *)
(* of bindExpression follows a tree.                                       *)
(***************************************************************************)
THEOREM WalkBindsOnce == Spec => []NodesAreBoundOnce
  BY ScopesInv, InitOnce, StepBindsOnce, PTL DEF Spec

(***************************************************************************)
(* No step changes what an earlier one declared or resolved.  That the     *)
(* walk binds a node once is what keeps resolved_symbols_ from being       *)
(* written twice.                                                          *)
(***************************************************************************)
THEOREM MeaningsAreFinal == Spec => DeclarationsAreFinal
  BY ScopesInv, WalkBindsOnce, StepBindsOnce, PTL DEF Spec, DeclarationsAreFinal

=============================================================================
