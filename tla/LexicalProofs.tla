---------------------------- MODULE LexicalProofs ----------------------------
(***************************************************************************)
(* The analyzer of symbol_table.cpp resolves names as the tree says, for   *)
(* every program: the scopes it makes are the enclosing functions and      *)
(* branches, a variable is resolved to its innermost declaration, and a    *)
(* program is accepted exactly when it is well scoped.                     *)
(*                                                                         *)
(* The reference is defined on the finished tree, while the analyzer looks *)
(* names up as it goes, in scopes that are being filled.  So the invariant *)
(* relates the calls still to be made to the tree, in layers:              *)
(*   OrderInv    globals are registered before any function body is bound  *)
(*   CoverInv    every node is bound or some pending call leads to it      *)
(*   OwnersInv   scopes, calls and bound nodes are where the tree has them *)
(*   LocalsInv   a scope holds the first names of its owner, and the next  *)
(*               calls declare the others, before anything is bound in it  *)
(*   GlobalsInv  the root scope holds the globals up to the running call   *)
(*   UsesInv     what is bound is resolved to what it means                *)
(***************************************************************************)
EXTENDS ScopesProofs

(***************************************************************************)
(* The tree above a node, for any program: every node is reached from a    *)
(* definition, so going from parent to parent comes to an end.             *)
(***************************************************************************)

(* f is reach, of the definition of Reached, up to depth N. *)
IsReach(p, f, N) ==
  f = [d \in 0..N |->
         IF d = 0 THEN Definitions(p)
         ELSE LET above == f[d - 1]
              IN  above \cup UNION {{Children(p, m)[k] : k \in DOMAIN Children(p, m)} :
                                       m \in above}]

(* There is such a function, built up depth by depth. *)
LEMMA ReachExists ==
  ASSUME NEW p, NEW N \in Nat
  PROVE  \E f : IsReach(p, f, N)
  <1> DEFINE Missing == {n \in 0..N : ~\E f : IsReach(p, f, n)}
  <1>1. SUFFICES ASSUME Missing # {} PROVE FALSE
    OBVIOUS
  <1>2. PICK n \in Missing : \A m \in Missing : n <= m
    <2>1. Missing \in SUBSET Nat
      OBVIOUS
    <2> HIDE DEF Missing
    <2> QED BY <1>1, <2>1, LeastElement
  <1>3. CASE n = 0
    <2>1. IsReach(p, [d \in 0..0 |-> Definitions(p)], 0)
      BY DEF IsReach
    <2> QED BY <1>2, <1>3, <2>1
  <1>4. CASE n > 0
    <2>1. n - 1 \in 0..N /\ n - 1 \notin Missing
      <3>1. n - 1 \in 0..N /\ ~(n <= n - 1)
        BY <1>4
      <3> HIDE DEF Missing
      <3> QED BY <1>2, <3>1
    <2>2. PICK f : IsReach(p, f, n - 1)
      BY <2>1
    <2> DEFINE Deeper(S) == S \cup UNION {{Children(p, m)[k] : k \in DOMAIN Children(p, m)} :
                                             m \in S}
               h == [d \in 0..n |-> IF d = 0 THEN Definitions(p) ELSE Deeper(f[d - 1])]
    <2>3. \A d \in 0..(n - 1) : f[d] = IF d = 0 THEN Definitions(p) ELSE Deeper(f[d - 1])
      BY <2>2, Zenon DEF IsReach
    <2>4. \A d \in 0..(n - 1) : h[d] = f[d]
      <3> HIDE DEF Deeper
      <3> QED BY <1>4, <2>3
    <2>5. \A d \in 0..n : h[d] = IF d = 0 THEN Definitions(p) ELSE Deeper(h[d - 1])
      <3>1. \A d \in 0..n : d # 0 => d - 1 \in 0..(n - 1)
        BY <1>4
      <3> HIDE DEF Deeper
      <3> QED BY <2>4, <3>1
    <2>6. h = [d \in 0..n |-> IF d = 0 THEN Definitions(p) ELSE Deeper(h[d - 1])]
      <3> HIDE DEF Deeper
      <3> QED BY <2>5, Zenon
    <2>7. IsReach(p, h, n)
      BY <2>6, Zenon DEF IsReach
    <2> QED BY <1>2, <2>7
  <1> QED BY <1>3, <1>4

(* A child has one parent, and a definition none. *)
LEMMA ParentOf ==
  ASSUME NEW p \in Programs, NEW n \in NodeIds(p)
  PROVE  /\ \A m \in NodeIds(p) : \A k \in DOMAIN Children(p, m) :
              Children(p, m)[k] = n => Parent(p, n) = m
         /\ n \in Definitions(p) => Parent(p, n) = NoNode
         /\ n \notin Definitions(p) =>
              /\ Parent(p, n) \in NodeIds(p)
              /\ \E k \in DOMAIN Children(p, Parent(p, n)) : Children(p, Parent(p, n))[k] = n
  <1> DEFINE above == {m \in NodeIds(p) : \E k \in DOMAIN Children(p, m) :
                                             Children(p, m)[k] = n}
  <1>1. Parent(p, n) = IF above = {} THEN NoNode ELSE CHOOSE m \in above : TRUE
    BY DEF Parent
  <1>2. \A m1, m2 \in above : m1 = m2
    BY OnePlace
  <1>3. n \in Definitions(p) <=> above = {}
    BY ProgramsAssumption DEF IsProgram, IsForest
  <1> QED BY <1>1, <1>2, <1>3

(* The children of a node are nodes: the constructors of a data type, or    *)
(* what is bound below a function.                                         *)
LEMMA ChildKinds ==
  ASSUME NEW p \in Programs, NEW n \in NodeIds(p), NEW k \in DOMAIN Children(p, n)
  PROVE  /\ Children(p, n)[k] \in NodeIds(p)
         /\ p.nodes[n].kind = "data" => Children(p, n)[k] \in OfKind(p, {"constructor"})
         /\ p.nodes[n].kind # "data" => Children(p, n)[k] \in OfKind(p, BoundKinds)
  <1>1. IsNode(p, n) /\ n \in Nat /\ NodeIds(p) = 1..Len(p.nodes) /\ Len(p.nodes) \in Nat
        /\ n <= Len(p.nodes)
    BY ProgramFacts, ProgramsAssumption DEF IsProgram
  <1>2. /\ \A K : Below(p, n, K) \subseteq OfKind(p, K) /\ Above(p, n, K) \subseteq OfKind(p, K)
        /\ \A K : OfKind(p, K) \subseteq NodeIds(p)
    BY <1>1 DEF Below, Above, OfKind
  <1>3. OfKind(p, Expressions) \subseteq OfKind(p, BoundKinds)
        /\ OfKind(p, Patterns) \subseteq OfKind(p, BoundKinds)
        /\ OfKind(p, {"branch"}) \subseteq OfKind(p, BoundKinds)
    BY DEF OfKind, BoundKinds
  <1> DEFINE x == p.nodes[n]
             E == Below(p, n, Expressions)
  <1>4. CASE x.kind \in {"int", "variable", "variable_pattern", "constructor_pattern",
                        "constructor"}
    BY <1>4 DEF Children
  <1>5. CASE x.kind = "operator"
    <2>1. /\ Children(p, n) = <<x.left, x.right>>
          /\ x.left \in E /\ x.right \in Above(p, n, Expressions)
      BY <1>1, <1>5 DEF IsNode, Children
    <2> QED BY <1>2, <1>3, <1>5, <2>1
  <1>6. CASE x.kind = "application"
    <2>1. Children(p, n) = <<x.function, x.argument>> /\ {x.function, x.argument} \subseteq E
      BY <1>1, <1>6 DEF IsNode, Children
    <2> QED BY <1>2, <1>3, <1>6, <2>1
  <1>7. CASE x.kind = "case"
    <2> DEFINE B == Below(p, n, {"branch"})
    <2>1. Children(p, n) = <<x.scrutinee>> \o x.branches /\ x.scrutinee \in E /\ x.branches \in Seq(B)
      BY <1>1, <1>7 DEF IsNode, Children
    <2>2. /\ x.scrutinee \in OfKind(p, BoundKinds)
          /\ \A i \in DOMAIN x.branches : x.branches[i] \in OfKind(p, BoundKinds)
      <3>1. \A i \in DOMAIN x.branches : x.branches[i] \in B
        <4> HIDE DEF B, x
        <4> QED BY <2>1, ElementOf
      <3> QED BY <1>2, <1>3, <2>1, <3>1
    <2>3. Children(p, n)[k] \in OfKind(p, BoundKinds)
      <3> HIDE DEF B, x
      <3> QED BY <2>1, <2>2, OneBefore
    <2> QED BY <1>2, <1>7, <2>3
  <1>8. CASE x.kind = "branch"
    <2>1. /\ Children(p, n) = <<x.pattern, x.body>>
          /\ x.pattern \in Below(p, n, Patterns) /\ x.body \in E
      BY <1>1, <1>8 DEF IsNode, Children
    <2> QED BY <1>2, <1>3, <1>8, <2>1
  <1>9. CASE x.kind = "defn"
    <2>1. Children(p, n) = <<x.body>> /\ x.body \in E
      BY <1>1, <1>9 DEF IsNode, Children
    <2> QED BY <1>2, <1>3, <1>9, <2>1
  <1>10. CASE x.kind = "data"
    <2>1. /\ Children(p, n) = x.constructors
          /\ x.constructors \in Seq(Below(p, n, {"constructor"}))
      BY <1>1, <1>10 DEF IsNode, Children
    <2>2. Children(p, n)[k] \in Below(p, n, {"constructor"})
      BY <2>1, ElementOf
    <2> QED BY <1>2, <1>10, <2>2
  <1> QED BY <1>1, <1>4, <1>5, <1>6, <1>7, <1>8, <1>9, <1>10 DEF IsNode

(***************************************************************************)
(* The nodes by their depth: the parent of one at depth d is at d - 1.     *)
(***************************************************************************)
LEMMA Depths ==
  ASSUME NEW p \in Programs
  PROVE  \E N \in Nat : \E reach :
           /\ NodeIds(p) = reach[N]
           /\ \A d \in 0..N : reach[d] \subseteq NodeIds(p)
           /\ \A n \in reach[0] : Parent(p, n) = NoNode
           /\ \A d \in 1..N :
                /\ reach[d - 1] \subseteq reach[d]
                /\ \A n \in reach[d] : Parent(p, n) \in reach[d - 1] \cup {NoNode}
  <1> DEFINE N == Len(p.nodes)
             Deeper(A) == A \cup UNION {{Children(p, m)[k] : k \in DOMAIN Children(p, m)} :
                                           m \in A}
  <1>1. N \in Nat
    BY ProgramsAssumption DEF IsProgram
  <1>2. PICK reach : IsReach(p, reach, N) /\ NodeIds(p) = reach[N]
    <2>0. \E f : IsReach(p, f, N)
      BY <1>1, ReachExists
    <2>1. \E f : f = [d \in 0..N |-> IF d = 0 THEN Definitions(p) ELSE
                        LET above == f[d - 1]
                        IN  above \cup UNION {{Children(p, m)[k] : k \in DOMAIN Children(p, m)} :
                                                 m \in above}]
      BY <2>0, Zenon DEF IsReach
    <2>2. \E f : IsReach(p, f, N) /\ Reached(p) = f[N]
      BY <2>1, Zenon DEF IsReach, Reached
    <2> QED BY <2>2, ProgramsAssumption DEF IsProgram, IsForest
  <1>3. \A d \in 0..N : reach[d] = IF d = 0 THEN Definitions(p) ELSE Deeper(reach[d - 1])
    BY <1>2, Zenon DEF IsReach
  <1>31. \A x : /\ x \in reach[0] => x \in Definitions(p)
                /\ \A d \in 1..N : x \in reach[d] =>
                     \/ x \in reach[d - 1]
                     \/ \E m \in reach[d - 1] : \E k \in DOMAIN Children(p, m) :
                          Children(p, m)[k] = x
    <2>1. \A d \in 1..N : d \in 0..N /\ d # 0
      OBVIOUS
    <2>2. reach[0] = Definitions(p) /\ \A d \in 1..N : reach[d] = Deeper(reach[d - 1])
      <3> HIDE DEF Deeper
      <3> QED BY <1>1, <1>3, <2>1
    <2>3. \A A, x : x \in Deeper(A) =>
            \/ x \in A
            \/ \E m \in A : \E k \in DOMAIN Children(p, m) : Children(p, m)[k] = x
      BY Zenon
    <2> HIDE DEF Deeper
    <2> QED BY <2>2, <2>3
  <1>4. Definitions(p) \subseteq NodeIds(p)
    <2>1. p.definitions \in Seq(OfKind(p, {"defn", "data"}))
      BY ProgramFacts
    <2>2. \A k \in DOMAIN p.definitions : p.definitions[k] \in OfKind(p, {"defn", "data"})
      BY <2>1, ElementOf
    <2> QED BY <2>2 DEF Definitions, OfKind
  <1>5. \A d \in 0..N : reach[d] \subseteq NodeIds(p)
    <2> DEFINE Wrong == {d \in 0..N : ~(reach[d] \subseteq NodeIds(p))}
    <2>1. SUFFICES ASSUME Wrong # {} PROVE FALSE
      OBVIOUS
    <2>2. PICK d \in Wrong : \A e \in Wrong : d <= e
      <3>1. Wrong \in SUBSET Nat
        BY <1>1
      <3> HIDE DEF Wrong
      <3> QED BY <2>1, <3>1, LeastElement
    <2>3. d \in 0..N /\ d # 0
      BY <1>3, <1>4
    <2>4. d - 1 \in 0..N /\ ~(d <= d - 1)
      BY <2>3
    <2>5. reach[d - 1] \subseteq NodeIds(p)
      BY <2>2, <2>4
    <2>6. reach[d] \subseteq NodeIds(p)
      BY <1>31, <2>3, <2>5, ChildKinds
    <2> QED BY <2>2, <2>6
  <1>6. \A n \in reach[0] : Parent(p, n) = NoNode
    BY <1>1, <1>31, <1>5, ParentOf
  <1> DEFINE Up(d, n) == Parent(p, n) \in reach[d - 1] \cup {NoNode}
             Wrong == {d \in 1..N : \E n \in reach[d] : ~Up(d, n)}
  <1>7. ASSUME Wrong # {} PROVE FALSE
    <2>1. PICK d \in Wrong : \A e \in Wrong : d <= e
      <3>1. Wrong \in SUBSET Nat
        BY <1>1
      <3> HIDE DEF Wrong
      <3> QED BY <1>7, <3>1, LeastElement
    <2>2. PICK n \in reach[d] : ~Up(d, n)
      OBVIOUS
    <2>3. d \in 1..N /\ d \in 0..N /\ d - 1 \in 0..N /\ ~(d <= d - 1) /\ n \in NodeIds(p)
      BY <1>5
    <2>4. CASE n \in reach[d - 1]
      <3>1. d - 1 # 0
        BY <1>6, <2>2, <2>4
      <3>2. d - 1 \in 1..N
        BY <2>3, <3>1
      <3>3. Up(d - 1, n)
        <4> HIDE DEF Up
        <4> QED BY <2>1, <2>3, <2>4, <3>2
      <3>4. reach[d - 1 - 1] \subseteq reach[d - 1]
        <4>1. d - 1 \in 0..N /\ d - 1 # 0
          BY <3>2
        <4>2. reach[d - 1] = Deeper(reach[d - 1 - 1])
          <5> HIDE DEF Deeper
          <5> QED BY <1>3, <4>1
        <4> QED BY <4>2
      <3> QED BY <2>2, <3>3, <3>4
    <2>5. CASE n \notin reach[d - 1]
      <3>1. PICK m \in reach[d - 1] : \E k \in DOMAIN Children(p, m) : Children(p, m)[k] = n
        BY <1>31, <2>2, <2>3, <2>5
      <3>2. Parent(p, n) = m
        BY <1>5, <2>3, <3>1, ParentOf
      <3> QED BY <2>2, <3>1, <3>2
    <2> QED BY <2>4, <2>5
  <1> HIDE DEF N
  <1>8. ASSUME NEW d \in 1..N
        PROVE  /\ reach[d - 1] \subseteq reach[d]
               /\ \A n \in reach[d] : Parent(p, n) \in reach[d - 1] \cup {NoNode}
    <2>1. d \in 0..N /\ d # 0
      OBVIOUS
    <2>2. reach[d] = Deeper(reach[d - 1])
      <3> HIDE DEF Deeper
      <3> QED BY <1>3, <2>1
    <2> QED BY <1>7, <2>2
  <1> QED BY <1>1, <1>2, <1>5, <1>6, <1>8

(* Some node of any set has its parent outside: none is above itself. *)
LEMMA TopOf ==
  ASSUME NEW p \in Programs, NEW S \in SUBSET NodeIds(p), S # {}
  PROVE  \E n \in S : Parent(p, n) \notin S
  <1>1. NoNode \notin S
    BY ProgramFacts DEF NoNode
  <1>2. PICK N \in Nat : \E reach :
           /\ NodeIds(p) = reach[N]
           /\ \A d \in 0..N : reach[d] \subseteq NodeIds(p)
           /\ \A n \in reach[0] : Parent(p, n) = NoNode
           /\ \A d \in 1..N :
                /\ reach[d - 1] \subseteq reach[d]
                /\ \A n \in reach[d] : Parent(p, n) \in reach[d - 1] \cup {NoNode}
    BY Depths
  <1>3. PICK reach :
           /\ NodeIds(p) = reach[N]
           /\ \A n \in reach[0] : Parent(p, n) = NoNode
           /\ \A d \in 1..N : \A n \in reach[d] : Parent(p, n) \in reach[d - 1] \cup {NoNode}
    BY <1>2
  <1> DEFINE D == {d \in 0..N : S \cap reach[d] # {}}
  <1>4. D \in SUBSET Nat /\ N \in D
    BY <1>3
  <1>5. PICK d \in D : \A e \in D : d <= e
    <2> HIDE DEF D
    <2> QED BY <1>4, LeastElement
  <1>6. PICK n \in S : n \in reach[d]
    OBVIOUS
  <1>7. CASE d = 0
    BY <1>1, <1>3, <1>6, <1>7
  <1>8. CASE d # 0
    <2>1. d \in 1..N /\ d - 1 \in 0..N /\ ~(d <= d - 1)
      BY <1>8
    <2>2. d - 1 \notin D
      <3> HIDE DEF D
      <3> QED BY <1>5, <2>1
    <2>3. S \cap reach[d - 1] = {}
      BY <2>1, <2>2
    <2> QED BY <1>1, <1>3, <1>6, <2>1, <2>3
  <1> QED BY <1>7, <1>8

(***************************************************************************)
(* f is what a walk finds that goes from parent to parent until stop, for  *)
(* every node of C it may start at.                                        *)
(***************************************************************************)
IsWalk(p, f, C, stop, value) ==
  f = [m \in C |-> IF stop[m] THEN value[m] ELSE f[Parent(p, m)]]

(* There is such a function, built up by depth. *)
LEMMA WalkExists ==
  ASSUME NEW p \in Programs, NEW stop, stop[NoNode], NEW value
  PROVE  \E f : IsWalk(p, f, NodeIds(p) \cup {NoNode}, stop, value)
  <1>1. PICK N \in Nat : \E reach :
           /\ NodeIds(p) = reach[N]
           /\ \A d \in 0..N : reach[d] \subseteq NodeIds(p)
           /\ \A n \in reach[0] : Parent(p, n) = NoNode
           /\ \A d \in 1..N :
                /\ reach[d - 1] \subseteq reach[d]
                /\ \A n \in reach[d] : Parent(p, n) \in reach[d - 1] \cup {NoNode}
    BY Depths
  <1>2. PICK reach :
           /\ NodeIds(p) = reach[N]
           /\ \A n \in reach[0] : Parent(p, n) = NoNode
           /\ \A d \in 1..N :
                /\ reach[d - 1] \subseteq reach[d]
                /\ \A n \in reach[d] : Parent(p, n) \in reach[d - 1] \cup {NoNode}
    BY <1>1
  <1> DEFINE C(d) == reach[d] \cup {NoNode}
             Found(d) == \E f : IsWalk(p, f, C(d), stop, value)
             Missing == {d \in 0..N : ~Found(d)}
  <1>3. ASSUME NEW A, NEW B, B \subseteq A, \E f : IsWalk(p, f, B, stop, value),
               \A m \in A : m = NoNode \/ Parent(p, m) \in B
        PROVE  \E f : IsWalk(p, f, A, stop, value)
    <2>1. PICK f : IsWalk(p, f, B, stop, value)
      BY <1>3
    <2> DEFINE h == [m \in A |-> IF stop[m] THEN value[m] ELSE f[Parent(p, m)]]
    <2>2. \A m \in B : f[m] = IF stop[m] THEN value[m] ELSE f[Parent(p, m)]
      BY <2>1, Zenon DEF IsWalk
    <2>3. \A m \in B : h[m] = f[m]
      BY <1>3, <2>2
    <2>4. \A m \in A : h[m] = IF stop[m] THEN value[m] ELSE h[Parent(p, m)]
      <3>1. \A m \in A : ~stop[m] => Parent(p, m) \in B
        BY <1>3
      <3> QED BY <2>3, <3>1
    <2>5. h = [m \in A |-> IF stop[m] THEN value[m] ELSE h[Parent(p, m)]]
      BY <2>4, Zenon
    <2> HIDE DEF h
    <2> QED BY <2>5, Zenon DEF IsWalk
  <1>4. Found(0)
    <2>1. IsWalk(p, [m \in {NoNode} |-> value[m]], {NoNode}, stop, value)
      BY DEF IsWalk
    <2>2. \A m \in C(0) : m = NoNode \/ Parent(p, m) \in {NoNode}
      BY <1>2
    <2> QED BY <1>3, <2>1, <2>2
  <1>5. ASSUME NEW d \in 1..N, Found(d - 1) PROVE Found(d)
    BY <1>2, <1>3, <1>5
  <1>6. ASSUME Missing # {} PROVE FALSE
    <2>1. PICK d \in Missing : \A e \in Missing : d <= e
      <3>1. Missing \in SUBSET Nat
        OBVIOUS
      <3> HIDE DEF Missing
      <3> QED BY <1>6, <3>1, LeastElement
    <2>2. d \in 0..N /\ ~Found(d)
      OBVIOUS
    <2>3. d # 0
      BY <1>4, <2>2
    <2>4. d \in 1..N /\ d - 1 \in 0..N /\ ~(d <= d - 1)
      BY <2>2, <2>3
    <2>5. d - 1 \notin Missing
      <3> HIDE DEF Missing
      <3> QED BY <2>1, <2>4
    <2>6. Found(d - 1)
      BY <2>4, <2>5
    <2> QED BY <1>5, <2>2, <2>4, <2>6
  <1>7. Found(N)
    <2> HIDE DEF Found
    <2> QED BY <1>6
  <1> QED BY <1>2, <1>7

(***************************************************************************)
(* Encloser and Meaning satisfy their recursive definitions, and Meaning   *)
(* depends only on the node whose scope the given one is in.               *)
(***************************************************************************)
Scoping == {"defn", "branch"}

(* The scope of a node is its own, or the one of the node above it. *)
LEMMA EncloserOf ==
  ASSUME NEW p \in Programs
  PROVE  /\ Encloser(p, NoNode) = NoNode
         /\ \A n \in NodeIds(p) :
              Encloser(p, n) = IF p.nodes[n].kind \in Scoping THEN n
                               ELSE Encloser(p, Parent(p, n))
  <1> DEFINE All  == NodeIds(p) \cup {NoNode}
             stop == [m \in All |-> m = NoNode \/ p.nodes[m].kind \in {"defn", "branch"}]
             same == [m \in All |-> m]
             Is(f) == f = [m \in NoNode..Len(p.nodes) |->
                             IF m = NoNode \/ p.nodes[m].kind \in {"defn", "branch"} THEN m
                             ELSE f[Parent(p, m)]]
  <1>1. All = NoNode..Len(p.nodes) /\ NoNode \notin NodeIds(p)
    BY ProgramsAssumption DEF IsProgram, NodeIds, NoNode
  <1>2. PICK f : IsWalk(p, f, All, stop, same)
    <2>1. stop[NoNode]
      OBVIOUS
    <2> HIDE DEF stop, same
    <2> QED BY <2>1, WalkExists
  <1>3. Is(f)
    <2>1. \A m \in All : f[m] = IF m = NoNode \/ p.nodes[m].kind \in {"defn", "branch"} THEN m
                                ELSE f[Parent(p, m)]
      <3>1. \A m \in All : f[m] = IF stop[m] THEN same[m] ELSE f[Parent(p, m)]
        <4> HIDE DEF stop, same, All
        <4> QED BY <1>2, Zenon DEF IsWalk
      <3> QED BY <3>1
    <2>2. f = [m \in All |-> f[m]]
      <3> HIDE DEF stop, same, All
      <3> QED BY <1>2, Zenon DEF IsWalk
    <2> HIDE DEF All
    <2> QED BY <1>1, <2>1, <2>2, Zenon
  <1>4. \E g : Is(g) /\ \A n : Encloser(p, n) = g[n]
    BY <1>3, Zenon DEF Encloser
  <1>5. PICK g : Is(g) /\ \A n : Encloser(p, n) = g[n]
    BY <1>4
  <1>6. \A m \in All : g[m] = IF m = NoNode \/ p.nodes[m].kind \in {"defn", "branch"} THEN m
                              ELSE g[Parent(p, m)]
    <2> HIDE DEF All
    <2> QED BY <1>1, <1>5, Zenon
  <1> QED BY <1>1, <1>5, <1>6 DEF Scoping

(* Node m declares the name for what is below it. *)
Declares(p, m, name) == \E k \in DOMAIN LocalNames(p, m) : LocalNames(p, m)[k] = name

(* The same for what a name means. *)
LEMMA MeaningOf ==
  ASSUME NEW p \in Programs, NEW name
  PROVE  /\ Meaning(p, NoNode, name) = Global(p, name)
         /\ \A n \in NodeIds(p) :
              Meaning(p, n, name) = IF Declares(p, n, name) THEN Local(p, n)
                                    ELSE Meaning(p, Parent(p, n), name)
  <1> DEFINE All   == NodeIds(p) \cup {NoNode}
             stop  == [m \in All |-> m = NoNode \/ Declares(p, m, name)]
             value == [m \in All |-> IF m = NoNode THEN Global(p, name) ELSE Local(p, m)]
             Is(f) == f = [m \in NoNode..Len(p.nodes) |->
                             IF m = NoNode THEN Global(p, name)
                             ELSE IF \E k \in DOMAIN LocalNames(p, m) : LocalNames(p, m)[k] = name
                             THEN Local(p, m)
                             ELSE f[Parent(p, m)]]
  <1>1. All = NoNode..Len(p.nodes) /\ NoNode \notin NodeIds(p)
    BY ProgramsAssumption DEF IsProgram, NodeIds, NoNode
  <1>2. PICK f : IsWalk(p, f, All, stop, value)
    <2>1. stop[NoNode]
      OBVIOUS
    <2> HIDE DEF stop, value
    <2> QED BY <2>1, WalkExists
  <1>3. Is(f)
    <2>1. \A m \in All : f[m] = IF m = NoNode THEN Global(p, name)
                                ELSE IF Declares(p, m, name) THEN Local(p, m)
                                ELSE f[Parent(p, m)]
      <3>1. \A m \in All : f[m] = IF stop[m] THEN value[m] ELSE f[Parent(p, m)]
        <4> HIDE DEF stop, value, All
        <4> QED BY <1>2, Zenon DEF IsWalk
      <3> QED BY <3>1
    <2>2. f = [m \in All |-> f[m]]
      <3> HIDE DEF stop, value, All
      <3> QED BY <1>2, Zenon DEF IsWalk
    <2> HIDE DEF All
    <2> QED BY <1>1, <2>1, <2>2, Zenon DEF Declares
  <1>4. \E g : Is(g) /\ \A n : Meaning(p, n, name) = g[n]
    BY <1>3, Zenon DEF Meaning
  <1>5. PICK g : Is(g) /\ \A n : Meaning(p, n, name) = g[n]
    BY <1>4
  <1>6. \A m \in All : g[m] = IF m = NoNode THEN Global(p, name)
                              ELSE IF Declares(p, m, name) THEN Local(p, m)
                              ELSE g[Parent(p, m)]
    <2> HIDE DEF All
    <2> QED BY <1>1, <1>5, Zenon DEF Declares
  <1> QED BY <1>1, <1>5, <1>6

(* A name means at a node what it means where its scope is opened. *)
LEMMA EncloserMeans ==
  ASSUME NEW p \in Programs, NEW n \in NodeIds(p) \cup {NoNode}
  PROVE  /\ Encloser(p, n) \in OfKind(p, Scoping) \cup {NoNode}
         /\ \A name : Meaning(p, n, name) = Meaning(p, Encloser(p, n), name)
  <1> DEFINE Right(m) == /\ Encloser(p, m) \in OfKind(p, Scoping) \cup {NoNode}
                         /\ \A name : Meaning(p, m, name) = Meaning(p, Encloser(p, m), name)
             S == {m \in NodeIds(p) : ~Right(m)}
  <1>1. Right(NoNode)
    BY EncloserOf
  <1>2. ASSUME S # {} PROVE FALSE
    <2>1. PICK m \in S : Parent(p, m) \notin S
      <3>1. S \in SUBSET NodeIds(p)
        OBVIOUS
      <3> HIDE DEF S
      <3> QED BY <1>2, <3>1, TopOf
    <2>2. m \in NodeIds(p) /\ ~Right(m)
      OBVIOUS
    <2>3. CASE p.nodes[m].kind \in Scoping
      <3>1. Encloser(p, m) = m
        BY <2>2, <2>3, EncloserOf
      <3> QED BY <2>2, <2>3, <3>1 DEF OfKind
    <2>4. CASE p.nodes[m].kind \notin Scoping
      <3>1. Encloser(p, m) = Encloser(p, Parent(p, m))
        BY <2>2, <2>4, EncloserOf
      <3>2. \A name : ~Declares(p, m, name)
        BY <2>4 DEF Declares, LocalNames, Scoping
      <3>3. \A name : Meaning(p, m, name) = Meaning(p, Parent(p, m), name)
        BY <2>2, <3>2, MeaningOf
      <3>4. Parent(p, m) \in NodeIds(p) \cup {NoNode}
        BY <2>2, ParentOf
      <3>5. Right(Parent(p, m))
        BY <1>1, <2>1, <3>4, SMTT(30), Zenon
      <3> QED BY <2>2, <3>1, <3>3, <3>5
    <2> QED BY <2>3, <2>4
  <1> QED BY <1>1, <1>2

-----------------------------------------------------------------------------
(***************************************************************************)
(* The places of the globals: each declares a node of its own, and they    *)
(* are ordered, so every name that is declared has a first declaration.    *)
(***************************************************************************)
NameAt(p, w) == p.nodes[DeclaredAt(p, w)].name

(* A place is of a definition, or of a constructor of a data type. *)
LEMMA PlaceFacts ==
  ASSUME NEW p \in Programs, NEW w \in GlobalPlaces(p)
  PROVE  /\ w = <<w[1], w[2]>> /\ w[1] \in DOMAIN p.definitions /\ w[1] \in Nat /\ w[2] \in Nat
         /\ p.definitions[w[1]] \in OfKind(p, {"defn", "data"})
         /\ w[2] = 0 => DeclaredAt(p, w) = p.definitions[w[1]]
         /\ w[2] # 0 => /\ p.nodes[p.definitions[w[1]]].kind = "data"
                        /\ w[2] \in DOMAIN p.nodes[p.definitions[w[1]]].constructors
                        /\ DeclaredAt(p, w) = p.nodes[p.definitions[w[1]]].constructors[w[2]]
                        /\ DeclaredAt(p, w) \in OfKind(p, {"constructor"})
  <1>0. PICK k \in DOMAIN p.definitions :
          \E j \in 0..Len(ConstructorsOf(p, p.definitions[k])) : w = <<k, j>>
    BY DEF GlobalPlaces
  <1>1. PICK j \in 0..Len(ConstructorsOf(p, p.definitions[k])) : w = <<k, j>>
    BY <1>0
  <1>2. p.definitions \in Seq(OfKind(p, {"defn", "data"}))
    BY ProgramFacts
  <1>3. p.definitions[k] \in OfKind(p, {"defn", "data"}) /\ k \in Nat
    BY <1>2, ElementOf
  <1> DEFINE d == p.definitions[k]
             cs == ConstructorsOf(p, d)
  <1>4. CASE p.nodes[d].kind = "data"
    <2>1. d \in OfKind(p, {"data"})
      BY <1>3, <1>4 DEF OfKind
    <2>2. cs \in Seq(OfKind(p, {"constructor"})) /\ cs = p.nodes[d].constructors
      <3> HIDE DEF d
      <3> QED BY <1>4, <2>1, DataNode DEF ConstructorsOf
    <2>3. j # 0 => j \in DOMAIN cs /\ cs[j] \in OfKind(p, {"constructor"})
      <3>1. Len(cs) \in Nat /\ DOMAIN cs = 1..Len(cs)
        BY <2>2
      <3>2. j # 0 => j \in DOMAIN cs
        BY <3>1
      <3> HIDE DEF cs
      <3> QED BY <2>2, <3>2, ElementOf
    <2>4. j \in Nat
      OBVIOUS
    <2> HIDE DEF d, cs
    <2> QED BY <1>1, <1>3, <1>4, <2>2, <2>3, <2>4 DEF DeclaredAt, d, cs
  <1>5. CASE p.nodes[d].kind # "data"
    <2>1. cs = << >>
      BY <1>5 DEF ConstructorsOf
    <2>2. j = 0
      BY <2>1
    <2> QED BY <1>1, <1>3, <2>2 DEF DeclaredAt
  <1> QED BY <1>4, <1>5

(* Two places never declare the same node. *)
LEMMA OneDeclaration ==
  ASSUME NEW p \in Programs, NEW v \in GlobalPlaces(p), NEW w \in GlobalPlaces(p),
         DeclaredAt(p, v) = DeclaredAt(p, w)
  PROVE  v = w
  <1>1. v[2] = 0 <=> w[2] = 0
    BY PlaceFacts DEF OfKind
  <1>2. CASE v[2] = 0
    <2>1. v[1] = w[1]
      BY <1>1, <1>2, PlaceFacts, OneDefinition
    <2> QED BY <1>1, <1>2, <2>1, PlaceFacts
  <1>3. CASE v[2] # 0
    <2> DEFINE dv == p.definitions[v[1]]
               dw == p.definitions[w[1]]
    <2>1. /\ p.nodes[dv].kind = "data" /\ p.nodes[dw].kind = "data"
          /\ v[2] \in DOMAIN p.nodes[dv].constructors /\ w[2] \in DOMAIN p.nodes[dw].constructors
          /\ p.nodes[dv].constructors[v[2]] = p.nodes[dw].constructors[w[2]]
          /\ dv \in NodeIds(p) /\ dw \in NodeIds(p)
      BY <1>1, <1>3, PlaceFacts DEF OfKind
    <2>2. Children(p, dv) = p.nodes[dv].constructors /\ Children(p, dw) = p.nodes[dw].constructors
      BY <2>1 DEF Children
    <2>3. dv = dw /\ v[2] = w[2]
      <3> HIDE DEF dv, dw
      <3> QED BY <2>1, <2>2, OnePlace
    <2>4. v[1] = w[1]
      BY <2>3, PlaceFacts, OneDefinition
    <2> QED BY <2>3, <2>4, PlaceFacts, SMTT(30), Zenon
  <1> QED BY <1>2, <1>3

(* The places are in a strict order, ... *)
LEMMA BeforeOrder ==
  ASSUME NEW p \in Programs, NEW u \in GlobalPlaces(p), NEW v \in GlobalPlaces(p),
         NEW w \in GlobalPlaces(p)
  PROVE  /\ ~Before(v, v)
         /\ v = w \/ Before(v, w) \/ Before(w, v)
         /\ Before(u, v) /\ Before(v, w) => Before(u, w)
  <1>1. \A x \in {u, v, w} : x = <<x[1], x[2]>> /\ x[1] \in Nat /\ x[2] \in Nat
    BY PlaceFacts
  <1> QED BY <1>1 DEF Before

(* ... so any of them have a first. *)
LEMMA FirstPlace ==
  ASSUME NEW p \in Programs, NEW S \in SUBSET GlobalPlaces(p), S # {}
  PROVE  \E w \in S : \A v \in S : v = w \/ Before(w, v)
  <1>1. \A x \in S : x = <<x[1], x[2]>> /\ x[1] \in Nat /\ x[2] \in Nat
    BY PlaceFacts
  <1> DEFINE K == {x[1] : x \in S}
  <1>2. PICK k \in K : \A e \in K : k <= e
    <2>1. K \in SUBSET Nat /\ K # {}
      BY <1>1
    <2> HIDE DEF K
    <2> QED BY <2>1, LeastElement
  <1> DEFINE J == {x[2] : x \in {y \in S : y[1] = k}}
  <1>3. PICK j \in J : \A e \in J : j <= e
    <2>1. J \in SUBSET Nat /\ J # {}
      BY <1>1
    <2> HIDE DEF J
    <2> QED BY <2>1, LeastElement
  <1>4. PICK w \in S : w[1] = k /\ w[2] = j
    OBVIOUS
  <1>5. ASSUME NEW v \in S PROVE v = w \/ Before(w, v)
    <2>1. k <= v[1] /\ (v[1] = k => j <= v[2])
      BY <1>2, <1>3
    <2> QED BY <1>1, <1>4, <2>1 DEF Before
  <1> QED BY <1>5

(* What a global is as a symbol: its sort, and where it is declared. *)
GlobalAt(p, w) ==
  LET kind == p.nodes[DeclaredAt(p, w)].kind
  IN  [kind |-> IF kind = "defn" THEN "function" ELSE kind, declaration |-> DeclaredAt(p, w)]

(* The first declaration of a global name is at w. *)
First(p, w, name) ==
  /\ w \in GlobalPlaces(p) /\ NameAt(p, w) = name
  /\ \A v \in GlobalPlaces(p) : NameAt(p, v) = name => v = w \/ Before(w, v)

(* What a global name means: its first declaration, or Int, or nothing. *)
LEMMA GlobalOf ==
  ASSUME NEW p \in Programs, NEW name
  PROVE  /\ name = "Int" => Global(p, name) = [kind |-> "builtin", declaration |-> NoNode]
         /\ \A w : name # "Int" /\ First(p, w, name) => Global(p, name) = GlobalAt(p, w)
         /\ name # "Int" /\ (\A w \in GlobalPlaces(p) : NameAt(p, w) # name) =>
              Global(p, name) = None
         /\ (\E w \in GlobalPlaces(p) : NameAt(p, w) = name) => \E w : First(p, w, name)
  <1> DEFINE places == {w \in GlobalPlaces(p) : p.nodes[DeclaredAt(p, w)].name = name}
             first  == CHOOSE w \in places : \A v \in places : v = w \/ Before(w, v)
             kind   == p.nodes[DeclaredAt(p, first)].kind
  <1>1. Global(p, name) = IF name = "Int" THEN [kind |-> "builtin", declaration |-> NoNode]
                          ELSE IF places = {} THEN None
                          ELSE [kind |-> IF kind = "defn" THEN "function" ELSE kind,
                                declaration |-> DeclaredAt(p, first)]
    BY DEF Global
  <1>2. places # {} => \E w \in places : \A v \in places : v = w \/ Before(w, v)
    <2>1. places \in SUBSET GlobalPlaces(p)
      OBVIOUS
    <2> HIDE DEF places
    <2> QED BY <2>1, FirstPlace
  <1>3. \A w : First(p, w, name) <=> w \in places /\ \A v \in places : v = w \/ Before(w, v)
    BY DEF First, NameAt
  <1>4. ASSUME NEW w, First(p, w, name) PROVE first = w
    <2>1. w \in places /\ \A v \in places : v = w \/ Before(w, v)
      BY <1>3, <1>4
    <2>2. first \in places /\ \A v \in places : v = first \/ Before(first, v)
      <3> HIDE DEF places
      <3> QED BY <1>2, <2>1
    <2>3. first \in GlobalPlaces(p) /\ w \in GlobalPlaces(p)
      BY <2>1, <2>2
    <2>4. first = w \/ (Before(w, first) /\ Before(first, w))
      <3> HIDE DEF first, places
      <3> QED BY <2>1, <2>2
    <2> HIDE DEF first
    <2> QED BY <2>3, <2>4, BeforeOrder
  <1>5. ASSUME NEW w, First(p, w, name), name # "Int" PROVE Global(p, name) = GlobalAt(p, w)
    <2>1. w \in places /\ first = w
      BY <1>3, <1>4, <1>5
    <2> HIDE DEF first, places
    <2> QED BY <1>1, <1>5, <2>1 DEF GlobalAt
  <1>6. (\A w \in GlobalPlaces(p) : NameAt(p, w) # name) => places = {}
    BY DEF NameAt
  <1>7. (\E w \in GlobalPlaces(p) : NameAt(p, w) = name) => places # {}
    BY DEF NameAt
  <1> HIDE DEF first, places
  <1> QED BY <1>1, <1>2, <1>3, <1>5, <1>6, <1>7

-----------------------------------------------------------------------------
(***************************************************************************)
(* What the actions do, in one form: the calls they make, in terms of the  *)
(* tree of the program and of the places of its globals.                   *)
(***************************************************************************)
SymbolOf(name, meaning) == Symbol(name, meaning.kind, meaning.declaration)

(* The call that declares the global at w, and the k-th name of node n. *)
DeclareCall(w) == AddSymbolCall(RootScope, SymbolOf(NameAt(program, w), GlobalAt(program, w)))

LocalCall(s, n, k) == AddSymbolCall(s, SymbolOf(LocalNames(program, n)[k], Local(program, n)))

(* The running call makes these calls and returns. *)
Made(calls) == (\E C : calls \in Seq(C)) /\ Then(calls)

(* A turn of the loop of registerGlobalDefinitions, for the i-th one. *)
Registers(i, calls) ==
  /\ Top.call = "register"
  /\ i \in DOMAIN program.definitions /\ program.definitions[i] = Top.node
  /\ Made(calls)
  /\ DOMAIN calls = 1..(Len(ConstructorsOf(program, Top.node)) + 1)
  /\ \A k \in DOMAIN calls : calls[k] = DeclareCall(<<i, k - 1>>)
  /\ UNCHANGED <<tree, diagnostics>>

(* Binding an expression that opens no scope, by calls for what is below. *)
Walks(calls) ==
  /\ Top.call = "bindExpression" /\ Made(calls)
  /\ \A k \in DOMAIN calls :
       /\ calls[k].call = "bindExpression" \/ calls[k].call = "bindBranch"
       /\ calls[k].scope = Top.scope /\ calls[k].node \in ChildrenOf(Top.node)
  /\ \A c \in ChildrenOf(Top.node) : \E k \in DOMAIN calls : calls[k].node = c
  /\ scopeByNode' = Put(scopeByNode, Top.node, Top.scope)
  /\ UNCHANGED <<scopes, symbols>>

(* The nodes that belong to the scope a function or a branch opens. *)
Own == IF Node.kind = "defn" THEN {Top.node} ELSE {Top.node, Node.pattern}

(* Binding a function or a branch, in a scope of its own. *)
Opens(outer, calls) ==
  /\ Top.node \in OfKind(program, Scoping) /\ outer \in ScopeIds
  /\ \/ Top.call = "bindFunction" /\ Node.kind = "defn" /\ outer = RootScope
     \/ Top.call = "bindBranch" /\ Node.kind = "branch" /\ outer = Top.scope
  /\ CreateScope(outer, Top.node)
  /\ Made(calls)
  /\ LET names == LocalNames(program, Top.node)
     IN  /\ names \in Seq(Names) /\ Len(calls) = Len(names) + 1
         /\ \A k \in 1..Len(names) : calls[k] = LocalCall(NewScope, Top.node, k)
         /\ calls[Len(names) + 1] = BindExpressionCall(NewScope, Node.body)
  /\ scopeByNode' = [n \in DOMAIN scopeByNode \cup Own |->
                       IF n \in Own THEN NewScope ELSE scopeByNode[n]]
  /\ symbols' = symbols
  /\ ChildrenOf(Top.node) = (Own \ {Top.node}) \cup {Node.body}
  /\ Node.body \in OfKind(program, Expressions)
  /\ Own \ {Top.node} \subseteq OfKind(program, Patterns)

(* Definitions are the nodes that declare functions and data types. *)
LEMMA DefinitionKinds ==
  ASSUME NEW p \in Programs
  PROVE  Definitions(p) = OfKind(p, {"defn", "data"})
  <1>1. Definitions(p) \subseteq OfKind(p, {"defn", "data"})
    <2>1. p.definitions \in Seq(OfKind(p, {"defn", "data"}))
      BY ProgramFacts
    <2>2. \A k \in DOMAIN p.definitions : p.definitions[k] \in OfKind(p, {"defn", "data"})
      BY <2>1, ElementOf
    <2> QED BY <2>2 DEF Definitions
  <1>2. ASSUME NEW n \in OfKind(p, {"defn", "data"}), n \notin Definitions(p) PROVE FALSE
    <2>1. n \in NodeIds(p)
      BY DEF OfKind
    <2>2. PICK k \in DOMAIN Children(p, Parent(p, n)) :
            Parent(p, n) \in NodeIds(p) /\ Children(p, Parent(p, n))[k] = n
      BY <1>2, <2>1, ParentOf
    <2>3. n \in OfKind(p, {"constructor"}) \/ n \in OfKind(p, BoundKinds)
      BY <2>2, ChildKinds
    <2> QED BY <2>3 DEF OfKind, BoundKinds, Expressions, Patterns
  <1> QED BY <1>1, <1>2

(* registerGlobalDefinitions declares the globals of one definition. *)
LEMMA RegisterEffect ==
  ASSUME Inv, RegisterDefinition
  PROVE  \E i, calls : Registers(i, calls)
  <1>1. TreeInv /\ work \in Seq(Calls)
    BY InvParts
  <1>2. /\ work # << >> /\ Top.node \in OfKind(program, {"defn", "data"})
        /\ Top.call = "register"
        /\ UNCHANGED <<tree, diagnostics>> /\ program \in Programs
    BY <1>1, RunningCall DEF RegisterDefinition, Running, TreeInv
  <1>3. PICK i \in DOMAIN program.definitions : program.definitions[i] = Top.node
    BY <1>2, DefinitionKinds DEF Definitions
  <1> DEFINE AsGlobal(kind, n) ==
               AddSymbolCall(RootScope, Symbol(program.nodes[n].name, kind, n))
             GlobalConstructor(c) == AsGlobal("constructor", c)
  <1>4. DeclaredAt(program, <<i, 0>>) = Top.node
    BY <1>3 DEF DeclaredAt
  <1>5. CASE Node.kind = "defn"
    <2> DEFINE calls == <<AsGlobal("function", Top.node)>>
    <2>1. Then(calls)
      BY <1>5 DEF RegisterDefinition
    <2>2. ConstructorsOf(program, Top.node) = << >>
      BY <1>5 DEF ConstructorsOf, Node
    <2>3. AsGlobal("function", Top.node) = DeclareCall(<<i, 0>>)
      BY <1>4, <1>5 DEF DeclareCall, NameAt, GlobalAt, SymbolOf, Node
    <2>4. calls = <<DeclareCall(<<i, 0>>)>>
      BY <2>3
    <2> HIDE DEF calls
    <2>5. DOMAIN calls = 1..1 /\ calls[1] = DeclareCall(<<i, 1 - 1>>) /\ calls \in Seq({calls[1]})
      BY <2>4
    <2>6. Len(ConstructorsOf(program, Top.node)) + 1 = 1
      BY <2>2
    <2>8. \A k \in DOMAIN calls : calls[k] = DeclareCall(<<i, k - 1>>)
      BY <2>5
    <2> QED BY <1>2, <1>3, <2>1, <2>5, <2>6, <2>8 DEF Registers, Made
  <1>6. CASE Node.kind # "defn"
    <2> DEFINE cs == Node.constructors
               first == AsGlobal("data", Top.node)
               others == ForEach(cs, GlobalConstructor)
               calls == <<first>> \o others
    <2>0. Node.kind = "data" /\ Top.node \in OfKind(program, {"data"})
      BY <1>2, <1>6 DEF OfKind, Node
    <2>1. Then(calls)
      BY <1>6 DEF RegisterDefinition
    <2>2. /\ cs \in Seq(OfKind(program, {"constructor"}))
          /\ ConstructorsOf(program, Top.node) = cs
      BY <1>2, <2>0, DataNode DEF ConstructorsOf, Node
    <2>3. first = DeclareCall(<<i, 0>>)
      BY <1>4, <2>0 DEF DeclareCall, NameAt, GlobalAt, SymbolOf, Node
    <2>4. ASSUME NEW k \in DOMAIN cs PROVE others[k] = DeclareCall(<<i, k>>)
      <3>1. others[k] = AsGlobal("constructor", cs[k])
        BY DEF ForEach
      <3>2. cs[k] \in OfKind(program, {"constructor"}) /\ k # 0
        <4>1. DOMAIN cs = 1..Len(cs) /\ Len(cs) \in Nat
          BY <2>2
        <4> HIDE DEF cs
        <4> QED BY <2>2, <4>1, ElementOf
      <3>3. DeclaredAt(program, <<i, k>>) = cs[k]
        BY <1>3, <2>2, <3>2 DEF DeclaredAt
      <3> QED BY <3>1, <3>2, <3>3 DEF DeclareCall, NameAt, GlobalAt, SymbolOf, OfKind
    <2>5. DOMAIN others = DOMAIN cs /\ others = [k \in DOMAIN cs |-> others[k]]
      BY DEF ForEach
    <2> HIDE DEF first, others, cs
    <2> DEFINE T == {others[k] : k \in DOMAIN others}
    <2>5a. \A k \in DOMAIN cs : others[k] \in T
      BY <2>5
    <2> HIDE DEF T
    <2>6. others \in Seq(T)
      BY <2>2, <2>5, <2>5a, SeqAlong
    <2>7. Len(others) = Len(cs) /\ Len(cs) \in Nat /\ DOMAIN others = 1..Len(cs)
      BY <2>2, <2>5, <2>6
    <2>8. /\ DOMAIN calls = 1..(Len(cs) + 1)
          /\ \A k \in DOMAIN calls : \/ k = 1 /\ calls[k] = first
                                     \/ k - 1 \in DOMAIN others /\ calls[k] = others[k - 1]
          /\ calls \in Seq(T \cup {first})
      <3>1. calls \in Seq(T \cup {first})
        BY <2>6, OneBefore
      <3>2. Len(calls) = 1 + Len(others)
        BY <2>6
      <3> QED BY <2>6, <2>7, <3>1, <3>2, OneBefore
    <2> HIDE DEF calls
    <2>10. ASSUME NEW k \in DOMAIN calls PROVE calls[k] = DeclareCall(<<i, k - 1>>)
      <3>1. CASE k = 1
        <4>1. k - 1 = 0 /\ calls[k] = first
          BY <2>7, <2>8, <3>1
        <4> QED BY <2>3, <4>1
      <3>2. CASE k # 1
        BY <2>4, <2>5, <2>8, <3>2
      <3> QED BY <3>1, <3>2
    <2> QED BY <1>2, <1>3, <2>1, <2>2, <2>8, <2>10 DEF Registers, Made
  <1> QED BY <1>5, <1>6

(* Binding an operator, an application or a leaf walks to its operands. *)
LEMMA OperandsEffect ==
  ASSUME Inv, BindLeafOrOperator
  PROVE  /\ work # << >> /\ \E calls : Walks(calls)
         /\ Node.kind \in {"int", "operator", "application"}
         /\ UNCHANGED <<resolved, diagnostics>>
  <1> DEFINE cs == Children(program, Top.node)
             calls == BindOperands
  <1>1. /\ work \in Seq(Calls) /\ work # << >> /\ Then(BindOperands)
        /\ Top.node \in OfKind(program, Expressions) /\ Top.call = "bindExpression"
        /\ Node.kind \in {"int", "operator", "application"}
        /\ program \in Programs /\ UNCHANGED <<scopes, symbols, resolved, diagnostics>>
        /\ scopeByNode' = Put(scopeByNode, Top.node, Top.scope)
    BY InvParts, RunningCall DEF BindLeafOrOperator, Running, TreeInv
  <1>2. cs \in Seq(OfKind(program, Expressions))
    <2>1. Top.node \in OfKind(program, {"int", "operator", "application"})
      BY <1>1 DEF OfKind, Node
    <2> QED BY <1>1, <2>1, OperandNodes
  <1>3. /\ DOMAIN calls = DOMAIN cs /\ calls = [k \in DOMAIN cs |-> calls[k]]
        /\ \A k \in DOMAIN cs : /\ calls[k].call = "bindExpression"
                                /\ calls[k].scope = Top.scope /\ calls[k].node = cs[k]
    BY DEF BindOperands, ForEach, BindExpressionCall
  <1>4. ChildrenOf(Top.node) = {cs[k] : k \in DOMAIN cs}
    BY DEF ChildrenOf
  <1>5. Then(calls)
    BY <1>1
  <1> DEFINE T == {calls[k] : k \in DOMAIN cs}
  <1>a. \A k \in DOMAIN cs : calls[k] \in T
    OBVIOUS
  <1> HIDE DEF calls, cs, T
  <1>6. calls \in Seq(T)
    BY <1>2, <1>3, <1>a, SeqAlong
  <1>7. Walks(calls)
    BY <1>1, <1>3, <1>4, <1>5, <1>6 DEF Walks, Made
  <1> QED BY <1>1, <1>7

(* Binding a variable makes no calls. *)
LEMMA VariableEffect ==
  ASSUME Inv, BindVariable
  PROVE  /\ work # << >> /\ \E calls : Walks(calls)
         /\ Node.kind = "variable"
  <1>1. /\ work \in Seq(Calls) /\ work # << >> /\ Then(<< >>) /\ Node.kind = "variable"
        /\ Top.node \in OfKind(program, Expressions) /\ Top.call = "bindExpression"
        /\ program \in Programs /\ UNCHANGED <<scopes, symbols>>
        /\ scopeByNode' = Put(scopeByNode, Top.node, Top.scope)
    BY InvParts, RunningCall DEF BindVariable, Running, TreeInv
  <1>2. ChildrenOf(Top.node) = {}
    BY <1>1 DEF ChildrenOf, Children, Node
  <1>3. Walks(<< >>)
    BY <1>1, <1>2 DEF Walks, Made
  <1> QED BY <1>1, <1>3

(* Binding a case walks to the scrutinee and to the branches. *)
LEMMA CaseEffect ==
  ASSUME Inv, BindCaseExpression
  PROVE  /\ work # << >> /\ \E calls : Walks(calls)
         /\ Node.kind = "case" /\ UNCHANGED <<resolved, diagnostics>>
  <1> DEFINE Bind(b) == BindBranchCall(Top.scope, b)
             first == BindExpressionCall(Top.scope, Node.scrutinee)
             q == Node.branches
             binds == ForEach(q, Bind)
             A == {binds[k] : k \in DOMAIN q}
             calls == <<first>> \o binds
             cs == Children(program, Top.node)
  <1>1. /\ work \in Seq(Calls) /\ work # << >> /\ Then(calls) /\ Node.kind = "case"
        /\ Top.node \in OfKind(program, Expressions) /\ Top.call = "bindExpression"
        /\ program \in Programs /\ UNCHANGED <<scopes, symbols, resolved, diagnostics>>
        /\ scopeByNode' = Put(scopeByNode, Top.node, Top.scope)
    BY InvParts, RunningCall, SMTT(30), Zenon DEF BindCaseExpression, Running, TreeInv
  <1>3. /\ q \in Seq(OfKind(program, {"branch"}))
        /\ cs = <<Node.scrutinee>> \o q
    <2>1. Top.node \in OfKind(program, {"case"})
      BY <1>1 DEF OfKind, Node
    <2> QED BY <1>1, <2>1, CaseNode DEF Node, Children
  <1>4. /\ DOMAIN binds = DOMAIN q /\ binds = [k \in DOMAIN q |-> binds[k]]
        /\ \A k \in DOMAIN q : binds[k] \in A
    BY DEF ForEach
  <1>5. \A k \in DOMAIN q : /\ binds[k].call = "bindBranch"
                            /\ binds[k].scope = Top.scope /\ binds[k].node = q[k]
    BY DEF ForEach, BindBranchCall
  <1>6. first.call = "bindExpression" /\ first.scope = Top.scope /\ first.node = Node.scrutinee
    BY DEF BindExpressionCall
  <1>7. ChildrenOf(Top.node) = {cs[k] : k \in DOMAIN cs}
    BY DEF ChildrenOf
  <1> HIDE DEF binds, first, q, A, cs
  <1>8. binds \in Seq(A)
    BY <1>3, <1>4, SeqAlong
  <1>9. calls \in Seq(A \cup {first}) /\ DOMAIN calls = DOMAIN cs /\ DOMAIN q \subseteq Nat \ {0}
    <2>1. Len(binds) = Len(q) /\ Len(q) \in Nat /\ DOMAIN q = 1..Len(q)
      BY <1>3, <1>4, <1>8
    <2>2. /\ Len(calls) = 1 + Len(binds) /\ Len(cs) = 1 + Len(q)
          /\ DOMAIN calls = 1..Len(calls) /\ DOMAIN cs = 1..Len(cs)
      <3>1. <<first>> \in Seq({first}) /\ <<Node.scrutinee>> \in Seq({Node.scrutinee})
        OBVIOUS
      <3> QED BY <1>3, <1>8, <3>1
    <2>3. calls \in Seq(A \cup {first})
      BY <1>8, OneBefore
    <2> QED BY <2>1, <2>2, <2>3
  <1>10. \A k \in DOMAIN calls :
           /\ calls[k].call = "bindExpression" \/ calls[k].call = "bindBranch"
           /\ calls[k].scope = Top.scope /\ calls[k].node = cs[k]
    <2> SUFFICES ASSUME NEW k \in DOMAIN calls
                 PROVE  /\ calls[k].call = "bindExpression" \/ calls[k].call = "bindBranch"
                        /\ calls[k].scope = Top.scope /\ calls[k].node = cs[k]
      OBVIOUS
    <2>1. \/ k = 1 /\ calls[k] = first
          \/ k - 1 \in DOMAIN binds /\ calls[k] = binds[k - 1]
      BY <1>8, OneBefore
    <2>2. \/ k = 1 /\ cs[k] = Node.scrutinee
          \/ k - 1 \in DOMAIN q /\ cs[k] = q[k - 1]
      BY <1>3, <1>9, OneBefore
    <2>3. CASE k = 1
      BY <1>4, <1>6, <1>9, <2>1, <2>2, <2>3
    <2>4. CASE k # 1
      BY <1>4, <1>5, <2>1, <2>2, <2>4
    <2> QED BY <2>3, <2>4
  <1> HIDE DEF calls
  <1>12. Walks(calls)
    BY <1>1, <1>7, <1>9, <1>10 DEF Walks, Made
  <1> QED BY <1>1, <1>12

(* The calls of a scope that is opened: the declarations, then the body. *)
LEMMA DeclaresThenBinds ==
  ASSUME NEW names \in Seq(Names), NEW f, NEW x,
         DOMAIN f = DOMAIN names, f = [k \in DOMAIN names |-> f[k]]
  PROVE  /\ \E C : f \o <<x>> \in Seq(C)
         /\ Len(f \o <<x>>) = Len(names) + 1
         /\ \A k \in 1..Len(names) : (f \o <<x>>)[k] = f[k]
         /\ (f \o <<x>>)[Len(names) + 1] = x
  <1> DEFINE A == {f[k] : k \in DOMAIN names}
  <1>a. \A k \in DOMAIN names : f[k] \in A
    OBVIOUS
  <1> HIDE DEF A
  <1>1. f \in Seq(A)
    BY <1>a, SeqAlong
  <1>2. f \o <<x>> \in Seq(A \cup {x})
    BY <1>1, OneMore
  <1>3. Len(f) = Len(names) /\ Len(names) \in Nat /\ DOMAIN f = 1..Len(names)
    BY <1>1
  <1>4. Len(f \o <<x>>) = Len(names) + 1 /\ DOMAIN (f \o <<x>>) = 1..(Len(names) + 1)
    BY <1>1, <1>3
  <1>5. /\ \A k \in 1..Len(names) : (f \o <<x>>)[k] = f[k]
        /\ (f \o <<x>>)[Len(names) + 1] = x
    BY <1>1, <1>3, <1>4, OneMore
  <1> QED BY <1>2, <1>4, <1>5

(* Binding a function opens a scope below the root. *)
LEMMA FunctionEffect ==
  ASSUME Inv, BindFunction, Node.kind = "defn"
  PROVE  /\ work # << >> /\ \E outer, calls : Opens(outer, calls)
         /\ UNCHANGED <<resolved, diagnostics>>
  <1> DEFINE AsParameter(name) ==
               AddSymbolCall(NewScope, Symbol(name, "parameter", Top.node))
             declared == ForEach(Node.parameters, AsParameter)
             body == BindExpressionCall(NewScope, Node.body)
             q == Node.parameters
             calls == declared \o <<body>>
  <1>1. /\ TreeInv /\ work \in Seq(Calls) /\ work # << >>
        /\ Top.node \in OfKind(program, {"defn", "data"}) /\ Top.call = "bindFunction"
        /\ program \in Programs /\ UNCHANGED <<program, symbols, resolved, diagnostics>>
    BY InvParts, RunningCall DEF BindFunction, Running, Then, TreeInv
  <1>2. /\ CreateScope(RootScope, Top.node)
        /\ scopeByNode' = Put(scopeByNode, Top.node, NewScope)
        /\ Then(calls)
    BY DEF BindFunction
  <1>3. Top.node \in OfKind(program, {"defn"}) /\ Top.node \in OfKind(program, Scoping)
    BY <1>1 DEF OfKind, Node, Scoping
  <1>4. /\ q \in Seq(Names) /\ Node.body \in OfKind(program, Expressions)
        /\ ChildrenOf(Top.node) = {Node.body} /\ LocalNames(program, Top.node) = q
        /\ RootScope \in ScopeIds
    <2>1. Children(program, Top.node) = <<Node.body>> /\ LocalNames(program, Top.node) = q
      BY DEF Node, Children, LocalNames
    <2>2. ChildrenOf(Top.node) = {Node.body}
      BY <2>1 DEF ChildrenOf
    <2> QED BY <1>1, <1>3, <2>1, <2>2, DefinitionNode DEF Node, TreeInv
  <1>5. /\ DOMAIN declared = DOMAIN q /\ declared = [k \in DOMAIN q |-> declared[k]]
        /\ \A k \in DOMAIN q : declared[k] = LocalCall(NewScope, Top.node, k)
    BY <1>4 DEF ForEach, LocalCall, SymbolOf, Local, Node
  <1> HIDE DEF declared, body, q
  <1>6. /\ \E C : calls \in Seq(C)
        /\ Len(calls) = Len(q) + 1
        /\ \A k \in 1..Len(q) : calls[k] = declared[k]
        /\ calls[Len(q) + 1] = body
    BY <1>4, <1>5, DeclaresThenBinds
  <1>7. DOMAIN q = 1..Len(q)
    BY <1>4
  <1>8. Own = {Top.node} /\ scopeByNode' = [n \in DOMAIN scopeByNode \cup Own |->
                                            IF n \in Own THEN NewScope ELSE scopeByNode[n]]
    BY <1>2 DEF Own, Put
  <1>9. Made(calls)
    BY <1>2, <1>6 DEF Made
  <1>10. ChildrenOf(Top.node) = (Own \ {Top.node}) \cup {Node.body}
    BY <1>4, <1>8
  <1> HIDE DEF calls
  <1>11. Opens(RootScope, calls)
    BY <1>1, <1>2, <1>3, <1>4, <1>5, <1>6, <1>7, <1>8, <1>9, <1>10 DEF Opens, body
  <1> QED BY <1>1, <1>11

(* Binding a branch opens a scope in the one around it. *)
LEMMA BranchEffect ==
  ASSUME Inv, BindBranch
  PROVE  /\ work # << >> /\ \E calls : Opens(Top.scope, calls)
         /\ Top.call = "bindBranch" /\ Node.kind = "branch"
  <1> DEFINE q == PatternNames(program, Node.pattern)
             AsPatternVariable(name) ==
               AddSymbolCall(NewScope, Symbol(name, "pattern_variable", Node.pattern))
             declared == ForEach(q, AsPatternVariable)
             body == BindExpressionCall(NewScope, Node.body)
             calls == declared \o <<body>>
  <1>1. /\ TreeInv /\ work \in Seq(Calls) /\ work # << >>
        /\ Top.node \in OfKind(program, {"branch"}) /\ Top.call = "bindBranch"
        /\ Top.scope \in ScopeIds
        /\ CreateScope(Top.scope, Top.node) /\ Then(calls)
        /\ scopeByNode' = Put(Put(scopeByNode, Top.node, NewScope), Node.pattern, NewScope)
        /\ program \in Programs /\ UNCHANGED <<program, symbols>>
    BY InvParts, RunningCall DEF BindBranch, Running, Then, TreeInv
  <1>2. Node.kind = "branch" /\ Top.node \in OfKind(program, Scoping) /\ Own = {Top.node, Node.pattern}
    BY <1>1 DEF OfKind, Node, Scoping, Own
  <1>3. /\ q \in Seq(Names) /\ Node.body \in OfKind(program, Expressions)
        /\ Node.pattern \in OfKind(program, Patterns)
        /\ Children(program, Top.node) = <<Node.pattern, Node.body>>
        /\ LocalNames(program, Top.node) = q
    BY <1>1, <1>2, BranchNode DEF Node, Children, LocalNames
  <1>4. /\ ChildrenOf(Top.node) = {Node.pattern, Node.body}
        /\ Node.pattern # Top.node
    BY <1>1, <1>3 DEF ChildrenOf, OfKind, Patterns
  <1>5. /\ DOMAIN declared = DOMAIN q /\ declared = [k \in DOMAIN q |-> declared[k]]
        /\ \A k \in DOMAIN q : declared[k] = LocalCall(NewScope, Top.node, k)
    BY <1>2, <1>3 DEF ForEach, LocalCall, SymbolOf, Local, Node
  <1> HIDE DEF declared, body, q
  <1>6. /\ \E C : calls \in Seq(C)
        /\ Len(calls) = Len(q) + 1
        /\ \A k \in 1..Len(q) : calls[k] = declared[k]
        /\ calls[Len(q) + 1] = body
    BY <1>3, <1>5, DeclaresThenBinds, SMTT(30), Zenon
  <1>7. DOMAIN q = 1..Len(q)
    BY <1>3
  <1>8. scopeByNode' = [n \in DOMAIN scopeByNode \cup Own |->
                          IF n \in Own THEN NewScope ELSE scopeByNode[n]]
    <2>1. /\ DOMAIN scopeByNode' = DOMAIN scopeByNode \cup Own
          /\ \A n \in DOMAIN scopeByNode' :
               scopeByNode'[n] = IF n \in Own THEN NewScope ELSE scopeByNode[n]
          /\ scopeByNode' = [n \in DOMAIN scopeByNode' |-> scopeByNode'[n]]
      BY <1>1, <1>2 DEF Put
    <2> QED BY <2>1, Zenon
  <1>9. Made(calls)
    BY <1>1, <1>6 DEF Made
  <1>10. ChildrenOf(Top.node) = (Own \ {Top.node}) \cup {Node.body}
         /\ Own \ {Top.node} \subseteq OfKind(program, Patterns)
    BY <1>1, <1>2, <1>3, <1>4 DEF OfKind, Expressions
  <1> HIDE DEF calls
  <1>11. Opens(Top.scope, calls)
    BY <1>1, <1>2, <1>3, <1>5, <1>6, <1>7, <1>8, <1>9, <1>10 DEF Opens, body
  <1> QED BY <1>1, <1>2, <1>11

(* A call for a data type is dropped by bindFunctionBodies. *)
Skips ==
  /\ Top.call = "bindFunction" /\ Node.kind # "defn" /\ Made(<< >>)
  /\ UNCHANGED <<tree, diagnostics>>

(* The nodes of a global that is checked: its own and its constructors. *)
Checked == IF Node.kind = "data" THEN {Top.node} \cup ChildrenOf(Top.node) ELSE {Top.node}

(* A turn of the loop of checkGlobalDefinitions. *)
Checks ==
  /\ Top.call = "check" /\ Top.node \in Definitions(program) /\ Made(<< >>)
  /\ scopeByNode' = [n \in DOMAIN scopeByNode \cup Checked |->
                       IF n \in Checked THEN RootScope ELSE scopeByNode[n]]
  /\ UNCHANGED <<scopes, symbols, resolved, diagnostics>>

(* checkGlobalDefinitions binds a definition and its constructors. *)
LEMMA CheckEffect ==
  ASSUME Inv, CheckDefinition
  PROVE  work # << >> /\ Checks
  <1>1. /\ TreeInv /\ work # << >> /\ Top.call = "check" /\ Then(<< >>)
        /\ Top.node \in OfKind(program, {"defn", "data"})
        /\ UNCHANGED <<scopes, symbols, resolved, diagnostics>>
    BY InvParts, RunningCall DEF CheckDefinition, Running
  <1>2. Top.node \in Definitions(program)
    BY <1>1, DefinitionKinds DEF TreeInv
  <1>3. << >> \in Seq({})
    OBVIOUS
  <1>4. Checked = {Top.node} \cup
                  (IF Node.kind = "data"
                   THEN {Node.constructors[k] : k \in DOMAIN Node.constructors}
                   ELSE {})
    <2>1. Node.kind = "data" => Children(program, Top.node) = Node.constructors
      BY DEF Children, Node
    <2> QED BY <2>1 DEF Checked, ChildrenOf
  <1>5. scopeByNode' = [n \in DOMAIN scopeByNode \cup Checked |->
                          IF n \in Checked THEN RootScope ELSE scopeByNode[n]]
    BY <1>4 DEF CheckDefinition
  <1> QED BY <1>1, <1>2, <1>3, <1>5 DEF Checks, Made

(* bindFunctionBodies passes over data types. *)
LEMMA SkipEffect ==
  ASSUME Inv, BindFunction, Node.kind # "defn"
  PROVE  work # << >> /\ Skips
  <1>1. << >> \in Seq({})
    OBVIOUS
  <1> QED BY <1>1 DEF BindFunction, Running, Skips, Made, tree

(* The calls after a step, by their places. *)
LEMMA WorkSplit ==
  ASSUME Inv, work # << >>, NEW calls, Made(calls)
  PROVE  /\ program' = program
         /\ Len(calls) \in Nat /\ DOMAIN calls = 1..Len(calls)
         /\ DOMAIN work \subseteq Nat \ {0} /\ DOMAIN work' \subseteq Nat \ {0}
         /\ 1 \in DOMAIN work /\ Top = work[1]
         /\ \A k \in DOMAIN calls : k \in DOMAIN work' /\ work'[k] = calls[k]
         /\ \A k \in DOMAIN work \ {1} :
              Len(calls) + k - 1 \in DOMAIN work' /\ work'[Len(calls) + k - 1] = work[k]
         /\ \A k \in DOMAIN work' :
              \/ k \in DOMAIN calls /\ work'[k] = calls[k]
              \/ /\ k > Len(calls) /\ k - Len(calls) + 1 \in DOMAIN work \ {1}
                 /\ work'[k] = work[k - Len(calls) + 1]
  <1>1. PICK D : calls \in Seq(D)
    BY DEF Made
  <1>2. work \in Seq(Calls) /\ program' = program /\ work' = calls \o Tail(work)
    BY InvParts DEF Made, Then
  <1>3. Tail(work) \in Seq(Calls) /\ Len(work) \in Nat \ {0} /\ Len(calls) \in Nat
        /\ DOMAIN work = 1..Len(work) /\ DOMAIN calls = 1..Len(calls)
    BY <1>1, <1>2
  <1>4. Len(Tail(work)) = Len(work) - 1
        /\ \A i \in 1..(Len(work) - 1) : Tail(work)[i] = work[i + 1]
    BY <1>2, <1>3
  <1> DEFINE rest == Tail(work)
  <1>5. /\ DOMAIN (calls \o rest) = 1..(Len(calls) + Len(rest))
        /\ \A k \in 1..(Len(calls) + Len(rest)) :
             (calls \o rest)[k] = IF k <= Len(calls) THEN calls[k] ELSE rest[k - Len(calls)]
    BY <1>1, <1>3, ConcatProperties
  <1> HIDE DEF rest
  <1>6. Len(rest) = Len(work) - 1 /\ \A i \in 1..(Len(work) - 1) : rest[i] = work[i + 1]
    BY <1>4 DEF rest
  <1>7. work' = calls \o rest
    BY <1>2 DEF rest
  <1>8. /\ DOMAIN work' = 1..(Len(calls) + Len(work) - 1)
        /\ \A k \in DOMAIN work' :
             work'[k] = IF k <= Len(calls) THEN calls[k] ELSE work[k - Len(calls) + 1]
    <2>1. \A k \in 1..(Len(calls) + Len(rest)) : k > Len(calls) =>
            rest[k - Len(calls)] = work[k - Len(calls) + 1]
      BY <1>3, <1>6
    <2> QED BY <1>3, <1>5, <1>6, <1>7, <2>1
  <1> QED BY <1>2, <1>3, <1>8, SMTT(30), Zenon DEF Top

(* The same, without the places. *)
LEMMA CallsAfter ==
  ASSUME Inv, work # << >>, NEW calls, Made(calls)
  PROVE  /\ \A k \in DOMAIN work' : \/ \E j \in DOMAIN calls : work'[k] = calls[j]
                                    \/ \E j \in DOMAIN work \ {1} : work'[k] = work[j]
         /\ \A j \in DOMAIN calls : \E k \in DOMAIN work' : work'[k] = calls[j]
         /\ \A j \in DOMAIN work \ {1} : \E k \in DOMAIN work' : work'[k] = work[j]
  BY WorkSplit

(* What an action does with the owners of the scopes. *)
LEMMA DeclareOwners ==
  ASSUME TreeInv, NEW s \in ScopeIds, NEW symbol, Declare(s, symbol)
  PROVE  ScopeIds' = ScopeIds /\ \A t \in ScopeIds : scopes'[t].owner = scopes[t].owner
  <1>1. scopes \in Seq(ScopeSet) /\ ScopeIds = 1..Len(scopes) /\ Len(scopes) \in Nat
    BY DEF TreeInv, ScopeIds
  <1>2. scopes[s] \in ScopeSet
    BY <1>1
  <1> DEFINE m == Put(scopes[s].symbols, symbol.name, Len(symbols) + 1)
             changed == [scopes[s] EXCEPT !.symbols = m]
  <1>3. changed.owner = scopes[s].owner
    BY <1>2 DEF ScopeSet
  <1>4. scopes' = [scopes EXCEPT ![s] = changed]
    BY DEF Declare
  <1> HIDE DEF changed
  <1>5. Len(scopes') = Len(scopes)
    BY <1>1, <1>4
  <1>6. \A t \in ScopeIds : scopes'[t] = IF t = s THEN changed ELSE scopes[t]
    BY <1>1, <1>4
  <1> QED BY <1>1, <1>3, <1>5, <1>6 DEF ScopeIds

(* createScope gives the new scope its owner, and leaves the others theirs. *)
LEMMA CreateOwners ==
  ASSUME TreeInv, NEW p \in ScopeIds, NEW o, CreateScope(p, o)
  PROVE  /\ ScopeIds' = ScopeIds \cup {NewScope} /\ NewScope \notin ScopeIds
         /\ NewScope # RootScope
         /\ scopes'[NewScope] = EmptyScope(p, o)
         /\ \A t \in ScopeIds : scopes'[t].owner = scopes[t].owner
  <1>1. /\ scopes \in Seq(ScopeSet) /\ ScopeIds = 1..Len(scopes) /\ Len(scopes) \in Nat
        /\ NewScope = Len(scopes) + 1 /\ RootScope \in ScopeIds
    BY DEF TreeInv, ScopeIds, NewScope
  <1>2. scopes[p] \in ScopeSet
    BY <1>1
  <1> DEFINE cs == Append(scopes[p].children, NewScope)
             changed == [scopes[p] EXCEPT !.children = cs]
             grown == [scopes EXCEPT ![p] = changed]
  <1>3. changed.owner = scopes[p].owner
    BY <1>2 DEF ScopeSet
  <1>4. scopes' = Append(grown, EmptyScope(p, o))
    BY DEF CreateScope
  <1> HIDE DEF changed
  <1>5. /\ DOMAIN grown = 1..Len(scopes) /\ Len(grown) = Len(scopes)
        /\ \A t \in ScopeIds : grown[t] = IF t = p THEN changed ELSE scopes[t]
    BY <1>1
  <1>6. grown \in Seq({grown[t] : t \in ScopeIds})
    <2> DEFINE T == {grown[t] : t \in ScopeIds}
    <2>1. \A t \in DOMAIN scopes : grown[t] \in T
      BY <1>1
    <2>2. grown = [t \in DOMAIN scopes |-> grown[t]] /\ DOMAIN grown = DOMAIN scopes
      BY <1>1
    <2> HIDE DEF T, grown
    <2>3. grown \in Seq(T)
      BY <1>1, <2>1, <2>2, SeqAlong
    <2> QED BY <2>3 DEF T
  <1> DEFINE T == {grown[t] : t \in ScopeIds} \cup {EmptyScope(p, o)}
  <1>7. grown \in Seq(T) /\ EmptyScope(p, o) \in T
    <2>1. \A A, B : grown \in Seq(A) => grown \in Seq(A \cup B)
      <3> HIDE DEF grown
      <3> QED OBVIOUS
    <2> HIDE DEF grown
    <2> QED BY <1>6, <2>1
  <1> HIDE DEF grown, T
  <1>8. /\ Len(scopes') = Len(scopes) + 1
        /\ scopes'[Len(scopes) + 1] = EmptyScope(p, o)
        /\ \A t \in 1..Len(scopes) : scopes'[t] = grown[t]
    BY <1>1, <1>4, <1>5, <1>7, AppendProperties, SMTT(30), Zenon
  <1>9. ScopeIds' = 1..(Len(scopes) + 1)
    BY <1>8 DEF ScopeIds
  <1> QED BY <1>1, <1>3, <1>5, <1>8, <1>9 DEF RootScope

(* The call that declares Int. *)
IntCall == AddSymbolCall(RootScope, Symbol("Int", "builtin", NoNode))

(* Two sequences in a row. *)
LEMMA Concatenation ==
  ASSUME NEW T, NEW a \in Seq(T), NEW b \in Seq(T)
  PROVE  /\ a \o b \in Seq(T) /\ Len(a \o b) = Len(a) + Len(b)
         /\ DOMAIN (a \o b) = 1..(Len(a) + Len(b))
         /\ \A i \in 1..Len(a) : (a \o b)[i] = a[i]
         /\ \A i \in 1..Len(b) : (a \o b)[Len(a) + i] = b[i]
  <1>1. /\ a \o b \in Seq(T) /\ Len(a \o b) = Len(a) + Len(b)
        /\ \A i \in 1..(Len(a) + Len(b)) :
             (a \o b)[i] = IF i <= Len(a) THEN a[i] ELSE b[i - Len(a)]
    BY ConcatProperties
  <1>2. Len(a) \in Nat /\ Len(b) \in Nat
    OBVIOUS
  <1>3. DOMAIN (a \o b) = 1..(Len(a) + Len(b))
    BY <1>1
  <1>4. ASSUME NEW i \in 1..Len(b) PROVE (a \o b)[Len(a) + i] = b[i]
    <2>1. Len(a) + i \in 1..(Len(a) + Len(b)) /\ ~(Len(a) + i <= Len(a)) /\ Len(a) + i - Len(a) = i
      BY <1>2
    <2> QED BY <1>1, <2>1
  <1> QED BY <1>1, <1>2, <1>3, <1>4

(* The calls that analyze makes, by their places. *)
LEMMA InitWork ==
  ASSUME Init
  PROVE  LET ds == program.definitions
             N  == Len(ds)
         IN  /\ N \in Nat /\ DOMAIN ds = 1..N /\ DOMAIN work = 1..(1 + N + N + N)
             /\ work[1] = IntCall
             /\ \A i \in 1..N : /\ work[1 + i] = RegisterCall(ds[i])
                                /\ work[1 + N + i] = CheckCall(ds[i])
                                /\ work[1 + N + N + i] = BindFunctionCall(ds[i])
  <1> DEFINE ds == program.definitions
             N  == Len(ds)
             D  == OfKind(program, {"defn", "data"})
             registers == ForEach(ds, RegisterCall)
             checks == ForEach(ds, CheckCall)
             binds == ForEach(ds, BindFunctionCall)
             T == {IntCall} \cup {RegisterCall(d) : d \in D} \cup {CheckCall(d) : d \in D}
                    \cup {BindFunctionCall(d) : d \in D}
  <1>1. program \in Programs /\ work = ((<<IntCall>> \o registers) \o checks) \o binds
    BY DEF Init, Analyze, IntCall
  <1>2. ds \in Seq(D)
    BY <1>1, ProgramFacts
  <1>3. /\ DOMAIN registers = DOMAIN ds /\ registers = [k \in DOMAIN ds |-> registers[k]]
        /\ DOMAIN checks = DOMAIN ds /\ checks = [k \in DOMAIN ds |-> checks[k]]
        /\ DOMAIN binds = DOMAIN ds /\ binds = [k \in DOMAIN ds |-> binds[k]]
        /\ \A k \in DOMAIN ds : /\ registers[k] = RegisterCall(ds[k])
                                /\ checks[k] = CheckCall(ds[k])
                                /\ binds[k] = BindFunctionCall(ds[k])
    BY DEF ForEach
  <1> HIDE DEF ds, registers, checks, binds, D
  <1>4. \A k \in DOMAIN ds : registers[k] \in T /\ checks[k] \in T /\ binds[k] \in T
    BY <1>2, <1>3, ElementOf
  <1>5. IntCall \in T
    OBVIOUS
  <1> HIDE DEF T
  <1>6. registers \in Seq(T) /\ checks \in Seq(T) /\ binds \in Seq(T) /\ <<IntCall>> \in Seq(T)
    <2>1. registers \in Seq(T)
      BY <1>2, <1>3, <1>4, SeqAlong
    <2>2. checks \in Seq(T)
      BY <1>2, <1>3, <1>4, SeqAlong
    <2>3. binds \in Seq(T)
      BY <1>2, <1>3, <1>4, SeqAlong
    <2> QED BY <1>5, <2>1, <2>2, <2>3
  <1>7. /\ N \in Nat /\ DOMAIN ds = 1..N /\ Len(registers) = N /\ Len(checks) = N /\ Len(binds) = N
        /\ Len(<<IntCall>>) = 1 /\ <<IntCall>>[1] = IntCall /\ N = Len(ds)
    BY <1>2, <1>3, <1>6
  <1> HIDE DEF N
  <1> DEFINE a == <<IntCall>> \o registers
             b == a \o checks
  <1>8. /\ a \in Seq(T) /\ Len(a) = 1 + N /\ a[1] = IntCall
        /\ \A i \in 1..N : a[1 + i] = registers[i]
    BY <1>6, <1>7, Concatenation
  <1> HIDE DEF a
  <1>9. /\ b \in Seq(T) /\ Len(b) = 1 + N + N /\ b[1] = IntCall
        /\ \A i \in 1..N : b[1 + i] = registers[i] /\ b[1 + N + i] = checks[i]
    <2>1. /\ b \in Seq(T) /\ Len(b) = 1 + N + N
          /\ \A i \in 1..(1 + N) : b[i] = a[i]
          /\ \A i \in 1..N : b[1 + N + i] = checks[i]
      <3>1. /\ b \in Seq(T) /\ Len(b) = Len(a) + Len(checks)
            /\ \A i \in 1..Len(a) : b[i] = a[i]
            /\ \A i \in 1..Len(checks) : b[Len(a) + i] = checks[i]
        <4>1. a \in Seq(T) /\ checks \in Seq(T)
          BY <1>6, <1>8
        <4> QED BY <4>1, Concatenation
      <3> HIDE DEF b
      <3> QED BY <1>7, <1>8, <3>1
    <2> HIDE DEF b
    <2>2. 1 \in 1..(1 + N) /\ \A i \in 1..N : 1 + i \in 1..(1 + N)
      BY <1>7
    <2> QED BY <1>8, <2>1, <2>2
  <1> HIDE DEF b
  <1>10. /\ DOMAIN work = 1..(1 + N + N + N) /\ work[1] = IntCall
         /\ \A i \in 1..N : /\ work[1 + i] = registers[i] /\ work[1 + N + i] = checks[i]
                            /\ work[1 + N + N + i] = binds[i]
    <2>1. work = b \o binds
      BY <1>1 DEF a, b
    <2>2. /\ DOMAIN (b \o binds) = 1..(1 + N + N + N)
          /\ \A i \in 1..(1 + N + N) : (b \o binds)[i] = b[i]
          /\ \A i \in 1..N : (b \o binds)[1 + N + N + i] = binds[i]
      <3>1. /\ DOMAIN (b \o binds) = 1..(Len(b) + Len(binds))
            /\ \A i \in 1..Len(b) : (b \o binds)[i] = b[i]
            /\ \A i \in 1..Len(binds) : (b \o binds)[Len(b) + i] = binds[i]
        <4>1. b \in Seq(T) /\ binds \in Seq(T)
          BY <1>6, <1>9
        <4> QED BY <4>1, Concatenation
      <3> QED BY <1>7, <1>9, <3>1
    <2>3. 1 \in 1..(1 + N + N)
          /\ \A i \in 1..N : 1 + i \in 1..(1 + N + N) /\ 1 + N + i \in 1..(1 + N + N)
      BY <1>7
    <2> QED BY <1>9, <2>1, <2>2, <2>3
  <1> QED BY <1>3, <1>7, <1>10 DEF ds

-----------------------------------------------------------------------------
(***************************************************************************)
(* The passes of analyze: what registers globals and declares names comes  *)
(* before the checks of the globals, which come before the function bodies.*)
(***************************************************************************)
Level(c) == IF c.call \in {"addSymbol", "register"} THEN 0
            ELSE IF c.call = "check" THEN 1 ELSE 2

OrderInv == \A j, k \in DOMAIN work : j <= k => Level(work[j]) <= Level(work[k])

(* The level of each sort of call. *)
LEMMA Levels ==
  /\ \A s, x : Level(AddSymbolCall(s, x)) = 0
  /\ \A d : Level(RegisterCall(d)) = 0 /\ Level(CheckCall(d)) = 1
            /\ Level(BindFunctionCall(d)) = 2
  /\ \A s, n : Level(BindExpressionCall(s, n)) = 2
  /\ \A c : Level(c) \in 0..2
  BY DEF Level, AddSymbolCall, RegisterCall, CheckCall, BindFunctionCall, BindExpressionCall

(* analyze makes its passes one after the other. *)
LEMMA InitOrder == Init => OrderInv
  <1> SUFFICES ASSUME Init, NEW j \in DOMAIN work, NEW k \in DOMAIN work, j <= k
               PROVE  Level(work[j]) <= Level(work[k])
    BY DEF OrderInv
  <1> DEFINE ds == program.definitions
             N == Len(ds)
  <1>1. /\ N \in Nat /\ DOMAIN work = 1..(1 + N + N + N)
        /\ work[1] = IntCall
        /\ \A i \in 1..N : /\ work[1 + i] = RegisterCall(ds[i])
                           /\ work[1 + N + i] = CheckCall(ds[i])
                           /\ work[1 + N + N + i] = BindFunctionCall(ds[i])
    BY InitWork
  <1>2. /\ Level(IntCall) = 0
        /\ \A d : Level(RegisterCall(d)) = 0 /\ Level(CheckCall(d)) = 1
                  /\ Level(BindFunctionCall(d)) = 2
    BY Levels DEF IntCall
  <1> HIDE DEF ds, N
  <1>3. \A m \in DOMAIN work :
          Level(work[m]) = IF m <= 1 + N THEN 0 ELSE IF m <= 1 + N + N THEN 1 ELSE 2
    <2> TAKE m \in DOMAIN work
    <2>1. CASE m = 1
      BY <1>1, <1>2, <2>1
    <2>2. CASE m > 1 /\ m <= 1 + N
      <3>1. m - 1 \in 1..N /\ m = 1 + (m - 1)
        BY <1>1, <2>2
      <3> QED BY <1>1, <1>2, <2>2, <3>1
    <2>3. CASE m > 1 + N /\ m <= 1 + N + N
      <3>0. m \in Nat /\ N \in Nat
        BY <1>1
      <3>1. m - 1 - N \in 1..N /\ m = 1 + N + (m - 1 - N)
        BY <2>3, <3>0
      <3>2. work[m] = CheckCall(ds[m - 1 - N])
        BY <1>1, <3>1
      <3> QED BY <1>1, <1>2, <2>3, <3>2
    <2>4. CASE m > 1 + N + N
      <3>1. m - 1 - N - N \in 1..N /\ m = 1 + N + N + (m - 1 - N - N)
        BY <1>1, <2>4
      <3>2. work[m] = BindFunctionCall(ds[m - 1 - N - N])
        BY <1>1, <3>1
      <3> QED BY <1>1, <1>2, <2>4, <3>2
    <2> QED BY <1>1, <2>1, <2>2, <2>3, <2>4
  <1> QED BY <1>1, <1>3

(* A call makes calls of its own pass, or of an earlier one. *)
LEMMA OrderKept ==
  ASSUME Inv, OrderInv, work # << >>, NEW calls, Made(calls),
         \A k \in DOMAIN calls : Level(calls[k]) <= Level(Top),
         \A j, k \in DOMAIN calls : j <= k => Level(calls[j]) <= Level(calls[k])
  PROVE  OrderInv'
  <1> SUFFICES ASSUME NEW j \in DOMAIN work', NEW k \in DOMAIN work', j <= k
               PROVE  Level(work'[j]) <= Level(work'[k])
    BY DEF OrderInv
  <1> DEFINE n == Len(calls)
             Old(m) == /\ m > n /\ m - n + 1 \in DOMAIN work \ {1}
                       /\ work'[m] = work[m - n + 1]
  <1>1. /\ n \in Nat /\ DOMAIN calls = 1..n /\ j \in Nat /\ k \in Nat
        /\ (j \in DOMAIN calls /\ work'[j] = calls[j]) \/ Old(j)
        /\ (k \in DOMAIN calls /\ work'[k] = calls[k]) \/ Old(k)
        /\ 1 \in DOMAIN work /\ Top = work[1] /\ DOMAIN work \subseteq Nat \ {0}
    BY WorkSplit
  <1>2. \A c : Level(c) \in 0..2
    BY Levels
  <1>3. \A m \in DOMAIN work : Level(Top) <= Level(work[m])
    BY <1>1 DEF OrderInv
  <1>4. CASE Old(j) /\ Old(k)
    <2>1. j - n + 1 <= k - n + 1
      BY <1>1
    <2> QED BY <1>4, <2>1 DEF OrderInv
  <1>5. CASE j \in DOMAIN calls /\ work'[j] = calls[j] /\ Old(k)
    BY <1>2, <1>3, <1>5
  <1>6. CASE j \in DOMAIN calls /\ work'[j] = calls[j] /\ k \in DOMAIN calls /\ work'[k] = calls[k]
    BY <1>6
  <1> QED BY <1>1, <1>4, <1>5, <1>6

(* Each sort of step keeps the order. *)
LEMMA StepOrder == Inv /\ OrderInv /\ [Next]_vars => OrderInv'
  <1> SUFFICES ASSUME Inv, OrderInv, [Next]_vars PROVE OrderInv'
    OBVIOUS
  <1>0. Made(<< >>) /\ work # << >> => OrderInv'
    BY OrderKept
  <1>1. CASE AddSymbol
    <2>1. << >> \in Seq({})
      OBVIOUS
    <2> QED BY <1>0, <1>1, <2>1 DEF AddSymbol, Running, Made
  <1>2. CASE RegisterDefinition
    <2>1. PICK i, calls : Registers(i, calls)
      BY <1>2, RegisterEffect
    <2>2. \A k \in DOMAIN calls : Level(calls[k]) = 0
      <3>1. \A k \in DOMAIN calls : calls[k] = DeclareCall(<<i, k - 1>>)
        BY <2>1 DEF Registers
      <3>2. \A w : Level(DeclareCall(w)) = 0
        BY Levels DEF DeclareCall
      <3> QED BY <3>1, <3>2
    <2>3. work # << >> /\ Level(Top) = 0
      BY <1>2 DEF RegisterDefinition, Running, Level
    <2> QED BY <2>1, <2>2, <2>3, OrderKept DEF Registers
  <1>3. CASE CheckDefinition
    BY <1>0, <1>3, CheckEffect DEF Checks
  <1>4. ASSUME NEW calls, Walks(calls), work # << >> PROVE OrderInv'
    <2>1. Level(Top) = 2 /\ \A k \in DOMAIN calls : Level(calls[k]) = 2
      BY <1>4 DEF Walks, Level
    <2> QED BY <1>4, <2>1, OrderKept DEF Walks
  <1>5. ASSUME NEW outer, NEW calls, Opens(outer, calls), work # << >> PROVE OrderInv'
    <2> DEFINE n == Len(LocalNames(program, Top.node))
    <2>1. Level(Top) = 2
      BY <1>5 DEF Opens, Level
    <2>2. /\ n \in Nat /\ Made(calls) /\ DOMAIN calls = 1..(n + 1)
          /\ \A k \in 1..n : Level(calls[k]) = 0
          /\ Level(calls[n + 1]) = 2
      <3>1. LocalNames(program, Top.node) \in Seq(Names) /\ Len(calls) = n + 1 /\ Made(calls)
        BY <1>5 DEF Opens
      <3>2. /\ \A k \in 1..n : calls[k] = LocalCall(NewScope, Top.node, k)
            /\ calls[n + 1] = BindExpressionCall(NewScope, Node.body)
        BY <1>5 DEF Opens
      <3>3. n \in Nat /\ DOMAIN calls = 1..(n + 1)
        BY <1>5, <3>1, WorkSplit
      <3> HIDE DEF n
      <3> QED BY <3>1, <3>2, <3>3, Levels DEF LocalCall
    <2> HIDE DEF n
    <2>3. \A k \in DOMAIN calls : Level(calls[k]) = IF k = n + 1 THEN 2 ELSE 0
      BY <2>2
    <2>4. \A j, k \in DOMAIN calls : j <= k => Level(calls[j]) <= Level(calls[k])
      BY <2>2, <2>3
    <2>5. \A k \in DOMAIN calls : Level(calls[k]) <= Level(Top)
      BY <2>1, <2>3
    <2> QED BY <1>5, <2>2, <2>4, <2>5, OrderKept
  <1>6. CASE BindFunction
    <2>1. CASE Node.kind = "defn"
      BY <1>5, <1>6, <2>1, FunctionEffect
    <2>2. CASE Node.kind # "defn"
      BY <1>0, <1>6, <2>2, SkipEffect DEF Skips
    <2> QED BY <2>1, <2>2
  <1>7. CASE BindBranch
    BY <1>5, <1>7, BranchEffect
  <1>8. CASE BindLeafOrOperator \/ BindVariable \/ BindCaseExpression
    BY <1>4, <1>8, OperandsEffect, VariableEffect, CaseEffect
  <1>9. CASE UNCHANGED vars
    BY <1>9 DEF OrderInv, vars
  <1> QED BY <1>1, <1>2, <1>3, <1>6, <1>7, <1>8, <1>9 DEF Next, Done

(* addSymbol touches neither the tree of scopes nor what is bound. *)
LEMMA AddEffect ==
  ASSUME Inv, AddSymbol
  PROVE  /\ work # << >> /\ Top.call = "addSymbol" /\ Made(<< >>)
         /\ Top.scope \in ScopeIds /\ Top.symbol \in Symbols
         /\ UNCHANGED <<scopeByNode, resolved>> /\ ScopeIds' = ScopeIds
         /\ \A t \in ScopeIds : /\ scopes'[t].owner = scopes[t].owner
                                /\ scopes'[t].parent = scopes[t].parent
  <1>1. TreeInv /\ work # << >> /\ work \in Seq(Calls) /\ Top.call = "addSymbol" /\ Then(<< >>)
    BY InvParts DEF AddSymbol, Running
  <1>2. Top.scope \in ScopeIds /\ Top.symbol \in Symbols
    BY <1>1, RunningCall
  <1>3. << >> \in Seq({})
    OBVIOUS
  <1>4. CASE Top.symbol.name \in DOMAIN scopes[Top.scope].symbols
    BY <1>1, <1>2, <1>3, <1>4 DEF AddSymbol, Redeclare, tree, Made, ScopeIds
  <1>5. CASE Top.symbol.name \notin DOMAIN scopes[Top.scope].symbols
    <2>1. Declare(Top.scope, Top.symbol) /\ program' = program
      BY <1>1, <1>5 DEF AddSymbol, Then
    <2>2. ScopeIds' = ScopeIds /\ \A t \in ScopeIds : scopes'[t].owner = scopes[t].owner
      BY <1>1, <1>2, <2>1, DeclareOwners
    <2>3. \A t \in ScopeIds : scopes'[t].parent = scopes[t].parent
      BY <1>1, <1>2, <1>5, <2>1, DeclareChanges
    <2> QED BY <1>1, <1>2, <1>3, <2>1, <2>2, <2>3 DEF Declare, Made
  <1> QED BY <1>4, <1>5

(* The sorts of steps. *)
LEMMA StepSorts ==
  ASSUME Inv, [Next]_vars
  PROVE  \/ UNCHANGED vars
         \/ /\ work # << >>
            /\ \/ AddSymbol
               \/ \E i, calls : Registers(i, calls)
               \/ Checks
               \/ Skips
               \/ \E calls : Walks(calls)
               \/ \E outer, calls : Opens(outer, calls)
  <1>1. CASE RegisterDefinition
    <2>1. work # << >>
      BY <1>1 DEF RegisterDefinition, Running
    <2> QED BY <1>1, <2>1, RegisterEffect
  <1>2. CASE BindFunction
    BY <1>2, FunctionEffect, SkipEffect
  <1> QED BY <1>1, <1>2, AddEffect, CheckEffect, BranchEffect, OperandsEffect, VariableEffect,
             CaseEffect
             DEF Next, Done

(* A definition is going to be checked. *)
Checking(d) == \E k \in DOMAIN work : work[k].call = "check" /\ work[k].node = d

(* One of the calls binds node n. *)
Makes(calls, n) == \E k \in DOMAIN calls : calls[k].call \in BindCalls /\ calls[k].node = n

(* What is pending after a step was pending, or is one of its calls. *)
LEMMA PendingAfter ==
  ASSUME Inv, work # << >>, NEW calls, Made(calls), NEW n
  PROVE  /\ Pending(n) => (Top.call \in BindCalls /\ Top.node = n) \/ Pending(n)'
         /\ Makes(calls, n) => Pending(n)'
         /\ Pending(n)' => Pending(n) \/ Makes(calls, n)
         /\ Checking(n) => (Top.call = "check" /\ Top.node = n) \/ Checking(n)'
         /\ (\A k \in DOMAIN calls : calls[k].call # "check") =>
              /\ Checking(n)' => Checking(n)
              /\ Checking(n)' /\ OrderInv => Level(Top) <= 1
  <1>1. /\ \A k \in DOMAIN work' : \/ \E j \in DOMAIN calls : work'[k] = calls[j]
                                   \/ \E j \in DOMAIN work \ {1} : work'[k] = work[j]
        /\ \A j \in DOMAIN calls : \E k \in DOMAIN work' : work'[k] = calls[j]
        /\ \A j \in DOMAIN work \ {1} : \E k \in DOMAIN work' : work'[k] = work[j]
    BY CallsAfter
  <1>2. Top = work[1] /\ DOMAIN work \subseteq Nat \ {0} /\ 1 \in DOMAIN work
    BY WorkSplit
  <1>3. /\ Pending(n) => (Top.call \in BindCalls /\ Top.node = n) \/ Pending(n)'
        /\ Makes(calls, n) => Pending(n)'
    BY <1>1, <1>2 DEF Pending, Makes
  <1>4. Pending(n)' => Pending(n) \/ Makes(calls, n)
    BY <1>1 DEF Pending, Makes
  <1>5. Checking(n) => (Top.call = "check" /\ Top.node = n) \/ Checking(n)'
    BY <1>1, <1>2 DEF Checking
  <1>6. ASSUME \A k \in DOMAIN calls : calls[k].call # "check", Checking(n)'
        PROVE  Checking(n) /\ (OrderInv => Level(Top) <= 1)
    <2>1. PICK k \in DOMAIN work' : work'[k].call = "check" /\ work'[k].node = n
      BY <1>6 DEF Checking
    <2>2. PICK j \in DOMAIN work \ {1} : work'[k] = work[j]
      BY <1>1, <1>6, <2>1
    <2>3. Level(work[j]) = 1 /\ 1 <= j
      BY <1>2, <2>1, <2>2 DEF Level
    <2>4. OrderInv => Level(work[1]) <= Level(work[j])
      BY <1>2, <2>2, <2>3 DEF OrderInv
    <2> QED BY <1>2, <2>1, <2>2, <2>3, <2>4 DEF Checking
  <1> QED BY <1>3, <1>4, <1>5, <1>6

-----------------------------------------------------------------------------
(***************************************************************************)
(* No node is left out: a definition is checked or going to be, and below  *)
(* a node whose calls have been made everything is met.                    *)
(***************************************************************************)
CoverInv ==
  /\ \A d \in Definitions(program) :
       /\ Checking(d) \/ d \in DOMAIN scopeByNode
       /\ Checking(d) /\ program.nodes[d].kind = "defn" => Pending(d)
  /\ \A u \in NodeIds(program) : Expanded(u) => \A c \in ChildrenOf(u) : Met(c)

(* Every definition is going to be checked, every function bound. *)
LEMMA InitCover == Init => CoverInv
  <1> SUFFICES ASSUME Init PROVE CoverInv
    OBVIOUS
  <1> DEFINE ds == program.definitions
             N == Len(ds)
  <1>1. /\ N \in Nat /\ DOMAIN ds = 1..N /\ DOMAIN work = 1..(1 + N + N + N)
        /\ \A i \in 1..N : /\ work[1 + N + i] = CheckCall(ds[i])
                           /\ work[1 + N + N + i] = BindFunctionCall(ds[i])
    BY InitWork
  <1>2. Definitions(program) = {ds[i] : i \in 1..N}
    BY <1>1 DEF Definitions
  <1> HIDE DEF ds, N
  <1>3. \A i \in 1..N : Checking(ds[i]) /\ Pending(ds[i])
    <2> TAKE i \in 1..N
    <2>1. 1 + N + i \in DOMAIN work /\ 1 + N + N + i \in DOMAIN work
      BY <1>1
    <2>2. /\ work[1 + N + i].call = "check" /\ work[1 + N + i].node = ds[i]
          /\ work[1 + N + N + i].call = "bindFunction" /\ work[1 + N + N + i].node = ds[i]
      <3>1. work[1 + N + i] = CheckCall(ds[i]) /\ work[1 + N + N + i] = BindFunctionCall(ds[i])
        BY <1>1
      <3>2. \A d : /\ CheckCall(d).call = "check" /\ CheckCall(d).node = d
                   /\ BindFunctionCall(d).call = "bindFunction" /\ BindFunctionCall(d).node = d
        BY DEF CheckCall, BindFunctionCall
      <3> QED BY <3>1, <3>2
    <2> QED BY <2>1, <2>2 DEF Checking, Pending, BindCalls
  <1>4. \A u \in NodeIds(program) : ~Expanded(u)
    <2> TAKE u \in NodeIds(program)
    <2>1. CASE program.nodes[u].kind = "defn"
      <3>1. u \in Definitions(program)
        BY <2>1, DefinitionKinds DEF OfKind, Init
      <3> QED BY <1>2, <1>3, <2>1, <3>1 DEF Expanded
    <2>2. CASE program.nodes[u].kind # "defn"
      BY <2>2 DEF Expanded, Init
    <2> QED BY <2>1, <2>2
  <1> QED BY <1>2, <1>3, <1>4 DEF CoverInv

(* A step that binds the nodes new, and makes calls for the nodes below. *)
LEMMA CoverKept ==
  ASSUME Inv, OrderInv, CoverInv, work # << >>, NEW calls, Made(calls),
         NEW new, DOMAIN scopeByNode' = DOMAIN scopeByNode \cup new,
         \A k \in DOMAIN calls : calls[k].call # "check",
         Top.call \in BindCalls => Top.node \in new \/ Node.kind = "data",
         Top.call = "check" => Top.node \in new,
         \A u \in new : \A c \in ChildrenOf(u) :
           \/ c \in new \/ Makes(calls, c)
           \/ program.nodes[u].kind = "defn" /\ ~(Top.call \in BindCalls /\ u = Top.node)
  PROVE  CoverInv'
  <1>0. program' = program /\ program \in Programs
    BY WorkSplit DEF Inv, TypeOK
  <1>1. \A d \in Definitions(program) :
          /\ Checking(d)' \/ d \in DOMAIN scopeByNode'
          /\ Checking(d)' /\ program.nodes[d].kind = "defn" => Pending(d)'
    <2> TAKE d \in Definitions(program)
    <2>1. Checking(d)' \/ d \in DOMAIN scopeByNode'
      BY PendingAfter DEF CoverInv
    <2>2. ASSUME Checking(d)', program.nodes[d].kind = "defn" PROVE Pending(d)'
      <3>1. Pending(d) /\ Level(Top) <= 1
        BY <2>2, PendingAfter DEF CoverInv
      <3>2. Top.call \notin BindCalls
        BY <3>1 DEF Level, BindCalls
      <3> QED BY <3>1, <3>2, PendingAfter
    <2> QED BY <2>1, <2>2
  <1>2. ASSUME NEW u \in NodeIds(program), NEW c \in ChildrenOf(u), Met(c) PROVE Met(c)'
    <2>1. CASE c \in DOMAIN scopeByNode
      BY <2>1 DEF Met
    <2>2. CASE Pending(c) /\ ~(Top.call \in BindCalls /\ Top.node = c)
      BY <2>2, PendingAfter DEF Met
    <2>3. CASE Top.call \in BindCalls /\ Top.node = c
      <3>1. PICK i \in DOMAIN Children(program, u) : Children(program, u)[i] = c
        BY DEF ChildrenOf
      <3>2. c \in OfKind(program, {"constructor"}) \cup OfKind(program, BoundKinds)
        BY <1>0, <3>1, ChildKinds
      <3>3. Node.kind # "data"
        BY <2>3, <3>2 DEF OfKind, BoundKinds, Expressions, Patterns, Node
      <3> QED BY <2>3, <3>3 DEF Met
    <2> QED BY <1>2, <2>1, <2>2, <2>3 DEF Met
  <1>3. ASSUME NEW u \in NodeIds(program), Expanded(u)', NEW c \in ChildrenOf(u)
        PROVE  Met(c)'
    <2>1. CASE Expanded(u)
      BY <1>2, <2>1 DEF CoverInv
    <2>2. CASE ~Expanded(u)
      <3>1. u \in new /\ (program.nodes[u].kind = "defn" => Top.call \in BindCalls /\ u = Top.node)
        <4>1. CASE program.nodes[u].kind = "defn"
          <5>1. Pending(u) /\ ~Pending(u)'
            BY <1>0, <1>3, <2>2, <4>1 DEF Expanded
          <5>2. Top.call \in BindCalls /\ Top.node = u
            BY <5>1, PendingAfter
          <5> QED BY <4>1, <5>2 DEF Node
        <4>2. CASE program.nodes[u].kind # "defn"
          BY <1>0, <1>3, <2>2, <4>2 DEF Expanded
        <4> QED BY <4>1, <4>2
      <3>2. c \in new \/ Makes(calls, c)
        BY <1>3, <3>1
      <3> QED BY <3>2, PendingAfter DEF Met
    <2> QED BY <2>1, <2>2
  <1>4. \A u : ChildrenOf(u)' = ChildrenOf(u)
    BY <1>0 DEF ChildrenOf
  <1> QED BY <1>0, <1>1, <1>3, <1>4 DEF CoverInv

(* Patterns and constructors are leaves of the tree. *)
LEMMA Leaves ==
  ASSUME NEW n \in OfKind(program, Patterns \cup {"constructor"})
  PROVE  ChildrenOf(n) = {}
  <1>1. Children(program, n) = << >>
    BY DEF Children, OfKind, Patterns
  <1> QED BY <1>1 DEF ChildrenOf

(* The children of a data type are constructors. *)
LEMMA DataChildren ==
  ASSUME Inv, NEW u \in NodeIds(program), program.nodes[u].kind = "data", NEW c \in ChildrenOf(u)
  PROVE  c \in OfKind(program, {"constructor"}) /\ ChildrenOf(c) = {} /\ Parent(program, c) = u
  <1>1. program \in Programs
    BY DEF Inv, TypeOK
  <1>2. PICK i \in DOMAIN Children(program, u) : Children(program, u)[i] = c
    BY DEF ChildrenOf
  <1>3. c \in OfKind(program, {"constructor"})
    BY <1>1, <1>2, ChildKinds
  <1>4. Parent(program, c) = u
    BY <1>1, <1>2, <1>3, ParentOf DEF OfKind
  <1> QED BY <1>3, <1>4, Leaves DEF OfKind

(* The calls that are made when a scope is opened. *)
LEMMA OpenCalls ==
  ASSUME Inv, work # << >>, NEW outer, NEW calls, Opens(outer, calls)
  PROVE  LET n == Len(LocalNames(program, Top.node))
         IN  /\ n \in Nat /\ DOMAIN calls = 1..(n + 1)
             /\ \A k \in 1..n : calls[k].call = "addSymbol" /\ calls[k].scope = NewScope
             /\ calls[n + 1].call = "bindExpression" /\ calls[n + 1].scope = NewScope
             /\ calls[n + 1].node = Node.body
  <1> DEFINE n == Len(LocalNames(program, Top.node))
  <1>1. /\ LocalNames(program, Top.node) \in Seq(Names) /\ Len(calls) = n + 1
        /\ \A k \in 1..n : calls[k] = LocalCall(NewScope, Top.node, k)
        /\ calls[n + 1] = BindExpressionCall(NewScope, Node.body)
        /\ Made(calls)
    BY DEF Opens
  <1>2. n \in Nat /\ DOMAIN calls = 1..(n + 1)
    BY <1>1, WorkSplit
  <1>3. /\ \A k \in 1..n : LocalCall(NewScope, Top.node, k).call = "addSymbol"
                            /\ LocalCall(NewScope, Top.node, k).scope = NewScope
        /\ BindExpressionCall(NewScope, Node.body).call = "bindExpression"
        /\ BindExpressionCall(NewScope, Node.body).scope = NewScope
        /\ BindExpressionCall(NewScope, Node.body).node = Node.body
    BY DEF AddSymbolCall, BindExpressionCall, LocalCall
  <1> HIDE DEF n
  <1> QED BY <1>1, <1>2, <1>3 DEF n

(* No step leaves a node out. *)
LEMMA StepCover == Inv /\ OrderInv /\ CoverInv /\ [Next]_vars => CoverInv'
  <1> SUFFICES ASSUME Inv, OrderInv, CoverInv, [Next]_vars PROVE CoverInv'
    OBVIOUS
  <1>0. program \in Programs /\ work \in Seq(Calls)
    BY DEF Inv, TypeOK
  <1>1. CASE UNCHANGED vars
    BY <1>1 DEF vars, CoverInv, Checking, Expanded, Pending, Met, ChildrenOf
  <1>a. DOMAIN scopeByNode = DOMAIN scopeByNode \cup {} /\ DOMAIN << >> = {}
    OBVIOUS
  <1>2. CASE AddSymbol
    <2>1. /\ work # << >> /\ Made(<< >>) /\ scopeByNode' = scopeByNode
          /\ Top.call \notin BindCalls /\ Top.call # "check"
      BY <1>2, AddEffect DEF BindCalls
    <2> QED BY <1>a, <2>1, CoverKept
  <1>3. CASE work # << >> /\ \E i, calls : Registers(i, calls)
    <2>1. PICK i, calls : Registers(i, calls)
      BY <1>3
    <2>2. Top.node \in Definitions(program) /\ scopeByNode' = scopeByNode /\ Made(calls)
      BY <2>1 DEF Registers, Definitions, tree
    <2>3. \A k \in DOMAIN calls : calls[k].call = "addSymbol"
      <3>1. \A s, x : AddSymbolCall(s, x).call = "addSymbol"
        BY DEF AddSymbolCall
      <3> QED BY <2>1, <3>1 DEF Registers, DeclareCall
    <2>4. Top.call = "register"
      BY <2>1 DEF Registers
    <2> QED BY <1>3, <1>a, <2>2, <2>3, <2>4, CoverKept DEF BindCalls
  <1>4. CASE work # << >> /\ Checks
    <2>1. /\ DOMAIN scopeByNode' = DOMAIN scopeByNode \cup Checked /\ Made(<< >>)
          /\ Top.call = "check" /\ Top.node \in Checked
      BY <1>4 DEF Checks, Checked
    <2>2. ASSUME NEW u \in Checked, NEW c \in ChildrenOf(u)
          PROVE  c \in Checked \/ program.nodes[u].kind = "defn"
      <3>1. CASE u = Top.node /\ Node.kind = "data"
        BY <3>1 DEF Checked
      <3>2. CASE u = Top.node /\ Node.kind # "data"
        <4>1. Top.node \in OfKind(program, {"defn", "data"})
          BY <1>0, <1>4, DefinitionKinds DEF Checks
        <4> QED BY <3>2, <4>1 DEF OfKind, Node
      <3>3. CASE u # Top.node
        <4>1. Node.kind = "data" /\ u \in ChildrenOf(Top.node)
          BY <3>3 DEF Checked
        <4>2. Top.node \in NodeIds(program)
          BY <1>0, <1>4, DefinitionKinds DEF Checks, OfKind
        <4> QED BY <4>1, <4>2, DataChildren DEF Node
      <3> QED BY <3>1, <3>2, <3>3
    <2>3. \A u \in Checked : \A c \in ChildrenOf(u) :
            \/ c \in Checked
            \/ program.nodes[u].kind = "defn" /\ ~(Top.call \in BindCalls /\ u = Top.node)
      BY <2>1, <2>2 DEF BindCalls
    <2>4. Top.call \notin BindCalls
      BY <2>1 DEF BindCalls
    <2> QED BY <1>4, <1>a, <2>1, <2>3, <2>4, CoverKept
  <1>5. CASE work # << >> /\ Skips
    <2>1. /\ Top.call = "bindFunction" /\ Made(<< >>) /\ scopeByNode' = scopeByNode
          /\ Node.kind = "data"
      <3>1. Top.node \in OfKind(program, {"defn", "data"})
        BY <1>0, <1>5, RunningCall DEF Skips
      <3> QED BY <1>5, <3>1 DEF Skips, tree, OfKind, Node
    <2> QED BY <1>5, <1>a, <2>1, CoverKept
  <1>6. CASE work # << >> /\ \E calls : Walks(calls)
    <2>1. PICK calls : Walks(calls)
      BY <1>6
    <2>2. DOMAIN scopeByNode' = DOMAIN scopeByNode \cup {Top.node} /\ Made(calls)
          /\ Top.call = "bindExpression"
      BY <2>1 DEF Walks, Put
    <2>3. /\ \A k \in DOMAIN calls : calls[k].call # "check"
          /\ \A c \in ChildrenOf(Top.node) : Makes(calls, c)
      BY <2>1 DEF Walks, Makes, BindCalls
    <2> QED BY <1>6, <2>2, <2>3, CoverKept
  <1>7. CASE work # << >> /\ \E outer, calls : Opens(outer, calls)
    <2>1. PICK outer, calls : Opens(outer, calls)
      BY <1>7
    <2> DEFINE n == Len(LocalNames(program, Top.node))
    <2>2. /\ DOMAIN scopeByNode' = DOMAIN scopeByNode \cup Own /\ Made(calls)
          /\ Top.node \in Own /\ Top.call # "check"
      BY <2>1 DEF Opens, Own
    <2>3. /\ DOMAIN calls = 1..(n + 1) /\ n \in Nat
          /\ \A k \in 1..n : calls[k].call = "addSymbol"
          /\ calls[n + 1].call = "bindExpression" /\ calls[n + 1].node = Node.body
      BY <1>7, <2>1, OpenCalls
    <2> HIDE DEF n
    <2>4. /\ \A k \in DOMAIN calls : calls[k].call # "check"
          /\ Makes(calls, Node.body)
      <3>1. n + 1 \in DOMAIN calls /\ \A k \in DOMAIN calls : k \in 1..n \/ k = n + 1
        BY <2>3
      <3> QED BY <2>3, <3>1 DEF Makes, BindCalls
    <2>5. \A u \in Own : \A c \in ChildrenOf(u) : c \in Own \/ Makes(calls, c)
      <3>1. \A c \in ChildrenOf(Top.node) : c \in Own \/ Makes(calls, c)
        BY <2>1, <2>4 DEF Opens
      <3>2. \A u \in Own \ {Top.node} : ChildrenOf(u) = {}
        BY <2>1, Leaves DEF Opens, OfKind
      <3> QED BY <3>1, <3>2
    <2> QED BY <1>7, <2>2, <2>4, <2>5, CoverKept
  <1> QED BY <1>1, <1>2, <1>3, <1>4, <1>5, <1>6, <1>7, StepSorts

-----------------------------------------------------------------------------
(***************************************************************************)
(* The scopes follow the tree: each belongs to a function or a branch and  *)
(* is inside the scope of the node around it, calls carry the scope of     *)
(* their node, and a node is bound in the scope it belongs to, but for a   *)
(* function whose body has not been bound yet.                             *)
(***************************************************************************)
OwnsCall(ss, c) ==
  /\ c.call = "bindExpression" => ss[c.scope].owner = Encloser(program, c.node)
  /\ c.call = "bindBranch" => ss[c.scope].owner = Encloser(program, Parent(program, c.node))

Inside(ss, s) ==
  /\ ss[s].owner \in OfKind(program, Scoping)
  /\ ss[ss[s].parent].owner = Encloser(program, Parent(program, ss[s].owner))

Placed(ss, at, n) == ss[at[n]].owner = Encloser(program, n)

Moving(n) == program.nodes[n].kind = "defn" /\ Pending(n)

OwnersInv ==
  /\ scopes[RootScope].owner = NoNode
  /\ \A s \in ScopeIds \ {RootScope} : Inside(scopes, s)
  /\ \A k \in DOMAIN work : OwnsCall(scopes, work[k])
  /\ \A n \in DOMAIN scopeByNode : Placed(scopes, scopeByNode, n) \/ Moving(n)

(* analyze starts with the root scope alone. *)
LEMMA InitOwners == Init => OwnersInv
  <1> SUFFICES ASSUME Init PROVE OwnersInv
    OBVIOUS
  <1> DEFINE ds == program.definitions
             N == Len(ds)
  <1>1. /\ N \in Nat /\ DOMAIN work = 1..(1 + N + N + N) /\ work[1] = IntCall
        /\ \A i \in 1..N : /\ work[1 + i] = RegisterCall(ds[i])
                           /\ work[1 + N + i] = CheckCall(ds[i])
                           /\ work[1 + N + N + i] = BindFunctionCall(ds[i])
    BY InitWork
  <1> HIDE DEF ds, N
  <1>2. ScopeIds = {RootScope} /\ scopes[RootScope].owner = NoNode /\ DOMAIN scopeByNode = {}
    BY DEF Init, ScopeIds, RootScope, EmptyScope
  <1>3. /\ IntCall.call = "addSymbol"
        /\ \A d : /\ RegisterCall(d).call = "register" /\ CheckCall(d).call = "check"
                  /\ BindFunctionCall(d).call = "bindFunction"
    BY DEF IntCall, AddSymbolCall, RegisterCall, CheckCall, BindFunctionCall
  <1>4. \A m \in DOMAIN work : work[m].call \notin {"bindExpression", "bindBranch"}
    <2> TAKE m \in DOMAIN work
    <2>0. m \in Nat /\ m >= 1 /\ m <= 1 + N + N + N /\ N \in Nat
      BY <1>1
    <2>1. \/ m = 1
          \/ m - 1 \in 1..N
          \/ m - 1 - N \in 1..N
          \/ m - 1 - N - N \in 1..N
      BY <2>0
    <2>2. /\ m = 1 + (m - 1) /\ m = 1 + N + (m - 1 - N)
          /\ m = 1 + N + N + (m - 1 - N - N)
      BY <2>0
    <2>3. CASE m = 1
      BY <1>1, <1>3, <2>3
    <2>4. CASE m - 1 \in 1..N
      <3>1. work[m] = RegisterCall(ds[m - 1])
        BY <1>1, <2>2, <2>4
      <3> QED BY <1>3, <3>1
    <2>5. CASE m - 1 - N \in 1..N
      <3>1. work[m] = CheckCall(ds[m - 1 - N])
        BY <1>1, <2>2, <2>5
      <3> QED BY <1>3, <3>1
    <2>6. CASE m - 1 - N - N \in 1..N
      <3>1. work[m] = BindFunctionCall(ds[m - 1 - N - N])
        BY <1>1, <2>2, <2>6
      <3> QED BY <1>3, <3>1
    <2> QED BY <2>1, <2>3, <2>4, <2>5, <2>6
  <1> QED BY <1>2, <1>4 DEF OwnersInv, OwnsCall

(* A step that leaves the scopes there are where they are. *)
LEMMA OwnersKept ==
  ASSUME Inv, OwnersInv, work # << >>, NEW calls, Made(calls),
         ScopeIds \subseteq ScopeIds',
         \A t \in ScopeIds : /\ scopes'[t].owner = scopes[t].owner
                             /\ scopes'[t].parent = scopes[t].parent,
         \A s \in ScopeIds' \ ScopeIds : Inside(scopes', s),
         \A k \in DOMAIN calls : OwnsCall(scopes', calls[k]),
         NEW new, DOMAIN scopeByNode' = DOMAIN scopeByNode \cup new,
         \A n \in DOMAIN scopeByNode \ new : scopeByNode'[n] = scopeByNode[n],
         \A n \in new : Placed(scopes', scopeByNode', n) \/ Moving(n)',
         Top.call \in BindCalls /\ Node.kind = "defn" => Top.node \in new
  PROVE  OwnersInv'
  <1>0. /\ program' = program /\ RootScope \in ScopeIds /\ work \in Seq(Calls)
        /\ \A n \in DOMAIN scopeByNode : scopeByNode[n] \in ScopeIds
    BY WorkSplit, InvParts DEF Inv, TypeOK
  <1>1. scopes'[RootScope].owner = NoNode
    BY <1>0 DEF OwnersInv
  <1>2. ASSUME NEW s \in ScopeIds' \ {RootScope} PROVE Inside(scopes', s)
    <2>1. CASE s \in ScopeIds
      <3>1. scopes[s].parent \in ScopeIds
        <4>1. s \in Nat /\ scopes[s].parent \in 1..(s - 1) /\ Len(scopes) \in Nat /\ s <= Len(scopes)
          BY <2>1, InvParts DEF Inv, ScopesFormTree, ScopeIds, TreeInv
        <4> QED BY <4>1 DEF ScopeIds
      <3> QED BY <2>1, <3>1 DEF OwnersInv, Inside
    <2> QED BY <2>1
  <1>3. ASSUME NEW k \in DOMAIN work' PROVE OwnsCall(scopes', work'[k])
    <2>1. CASE \E j \in DOMAIN work : work'[k] = work[j]
      <3>0. PICK j \in DOMAIN work : work'[k] = work[j]
        BY <2>1
      <3>1. work[j] \in Calls
        BY <1>0, ElementOf
      <3>2. work[j].call \in {"bindExpression", "bindBranch"} => work[j].scope \in ScopeIds
        BY <3>1 DEF Calls
      <3>3. OwnsCall(scopes, work[j])
        BY DEF OwnersInv
      <3> QED BY <3>0, <3>2, <3>3 DEF OwnsCall
    <2>2. CASE \E j \in DOMAIN calls : work'[k] = calls[j]
      BY <2>2
    <2> QED BY <2>1, <2>2, CallsAfter
  <1>4. ASSUME NEW n \in DOMAIN scopeByNode' PROVE Placed(scopes', scopeByNode', n) \/ Moving(n)'
    <2>1. CASE n \in new
      BY <2>1
    <2>2. CASE n \notin new
      <3>1. /\ n \in DOMAIN scopeByNode /\ scopeByNode'[n] = scopeByNode[n]
            /\ Placed(scopes, scopeByNode, n) \/ Moving(n)
        BY <2>2 DEF OwnersInv
      <3>2. CASE Placed(scopes, scopeByNode, n)
        BY <1>0, <3>1, <3>2 DEF Placed
      <3>3. CASE Moving(n)
        <4>1. Pending(n)'
          BY <2>2, <3>3, PendingAfter DEF Node, Moving
        <4> QED BY <1>0, <3>3, <4>1 DEF Moving
      <3> QED BY <3>1, <3>2, <3>3
    <2> QED BY <2>1, <2>2
  <1> QED BY <1>0, <1>1, <1>2, <1>3, <1>4 DEF OwnersInv, Inside, OwnsCall, Placed, OfKind, NodeIds

(* A child belongs to the scope its parent opens or belongs to. *)
LEMMA ChildEncloser ==
  ASSUME Inv, NEW u \in NodeIds(program), NEW c \in ChildrenOf(u)
  PROVE  /\ c \in NodeIds(program) /\ Parent(program, c) = u
         /\ program.nodes[c].kind \notin Scoping => Encloser(program, c) = Encloser(program, u)
  <1>1. program \in Programs
    BY DEF Inv, TypeOK
  <1>2. PICK i \in DOMAIN Children(program, u) : Children(program, u)[i] = c
    BY DEF ChildrenOf
  <1>3. c \in NodeIds(program)
    BY <1>1, <1>2, ChildKinds
  <1>4. Parent(program, c) = u
    BY <1>1, <1>2, <1>3, ParentOf
  <1> QED BY <1>1, <1>3, <1>4, EncloserOf

(* Definitions belong to the root scope. *)
LEMMA DefinitionEncloser ==
  ASSUME Inv, NEW d \in Definitions(program)
  PROVE  /\ d \in NodeIds(program) /\ Encloser(program, Parent(program, d)) = NoNode
         /\ program.nodes[d].kind = "data" => Encloser(program, d) = NoNode
  <1>1. program \in Programs
    BY DEF Inv, TypeOK
  <1>2. d \in NodeIds(program)
    BY <1>1, DefinitionKinds DEF OfKind
  <1>3. Parent(program, d) = NoNode
    BY <1>1, <1>2, ParentOf
  <1> QED BY <1>1, <1>2, <1>3, EncloserOf DEF Scoping

(* Every step puts nodes and scopes where they belong. *)
LEMMA StepOwners == Inv /\ OrderInv /\ CoverInv /\ OwnersInv /\ [Next]_vars => OwnersInv'
  <1> SUFFICES ASSUME Inv, OrderInv, CoverInv, OwnersInv, [Next]_vars PROVE OwnersInv'
    OBVIOUS
  <1>0. /\ program \in Programs /\ work \in Seq(Calls) /\ TreeInv
        /\ RootScope \in ScopeIds /\ scopes[RootScope].owner = NoNode
        /\ \A n \in DOMAIN scopeByNode : scopeByNode[n] \in ScopeIds
    BY InvParts DEF Inv, TypeOK, OwnersInv
  <1>a. DOMAIN scopeByNode = DOMAIN scopeByNode \cup {} /\ DOMAIN << >> = {}
    OBVIOUS
  <1>1. CASE UNCHANGED vars
    BY <1>1 DEF vars, OwnersInv, Inside, OwnsCall, Placed, Moving, Pending, ScopeIds, OfKind,
              NodeIds
  <1>2. CASE AddSymbol
    <2>1. /\ work # << >> /\ Made(<< >>) /\ scopeByNode' = scopeByNode
          /\ Top.call \notin BindCalls /\ ScopeIds' = ScopeIds
          /\ \A t \in ScopeIds : /\ scopes'[t].owner = scopes[t].owner
                                 /\ scopes'[t].parent = scopes[t].parent
      BY <1>2, AddEffect DEF BindCalls
    <2> QED BY <1>a, <2>1, OwnersKept
  <1>3. CASE work # << >> /\ \E i, calls : Registers(i, calls)
    <2>1. PICK i, calls : Registers(i, calls)
      BY <1>3
    <2>2. /\ scopeByNode' = scopeByNode /\ Made(calls) /\ Top.call \notin BindCalls
          /\ scopes' = scopes /\ ScopeIds' = ScopeIds
      BY <2>1 DEF Registers, tree, ScopeIds, BindCalls
    <2>3. \A k \in DOMAIN calls : OwnsCall(scopes', calls[k])
      <3>1. \A s, x : AddSymbolCall(s, x).call = "addSymbol"
        BY DEF AddSymbolCall
      <3>2. \A k \in DOMAIN calls : calls[k].call = "addSymbol"
        BY <2>1, <3>1 DEF Registers, DeclareCall
      <3> QED BY <3>2 DEF OwnsCall
    <2> QED BY <1>3, <1>a, <2>2, <2>3, OwnersKept
  <1>4. CASE work # << >> /\ Checks
    <2>1. /\ DOMAIN scopeByNode' = DOMAIN scopeByNode \cup Checked /\ Made(<< >>)
          /\ Top.call = "check" /\ scopes' = scopes /\ ScopeIds' = ScopeIds
          /\ Top.node \in Definitions(program)
          /\ \A n \in DOMAIN scopeByNode \ Checked : scopeByNode'[n] = scopeByNode[n]
          /\ \A n \in Checked : scopeByNode'[n] = RootScope
          /\ program' = program
      BY <1>4, WorkSplit DEF Checks, ScopeIds
    <2>2. ASSUME NEW n \in Checked PROVE Placed(scopes', scopeByNode', n) \/ Moving(n)'
      <3>1. CASE n = Top.node /\ Node.kind = "data"
        BY <1>0, <2>1, <3>1, DefinitionEncloser DEF Placed, Node
      <3>2. CASE n = Top.node /\ Node.kind # "data"
        <4>1. Node.kind = "defn"
          BY <1>0, <2>1, <3>2, DefinitionKinds DEF OfKind, Node
        <4>2. Checking(n)
          BY <1>4, <2>1, <3>2, WorkSplit DEF Checking
        <4>3. Pending(n) /\ Top.call \notin BindCalls
          BY <2>1, <3>2, <4>1, <4>2 DEF CoverInv, Node, BindCalls
        <4>4. Pending(n)'
          BY <1>4, <2>1, <4>3, PendingAfter
        <4> QED BY <2>1, <3>2, <4>1, <4>4 DEF Moving, Node
      <3>3. CASE n # Top.node
        <4>1. n \in ChildrenOf(Top.node) /\ Node.kind = "data"
          BY <3>3 DEF Checked
        <4>2. Top.node \in NodeIds(program) /\ Encloser(program, Top.node) = NoNode
          BY <2>1, <4>1, DefinitionEncloser DEF Node
        <4>3. n \in OfKind(program, {"constructor"})
          BY <4>1, <4>2, DataChildren DEF Node
        <4>4. Encloser(program, n) = NoNode
          BY <4>1, <4>2, <4>3, ChildEncloser DEF OfKind, Scoping
        <4> QED BY <1>0, <2>1, <4>4 DEF Placed
      <3> QED BY <3>1, <3>2, <3>3
    <2>3. Top.call \notin BindCalls
      BY <2>1 DEF BindCalls
    <2> QED BY <1>4, <1>a, <2>1, <2>2, <2>3, OwnersKept
  <1>5. CASE work # << >> /\ Skips
    <2>1. /\ Made(<< >>) /\ scopeByNode' = scopeByNode /\ Node.kind # "defn"
          /\ scopes' = scopes /\ ScopeIds' = ScopeIds
      BY <1>5 DEF Skips, tree, ScopeIds
    <2> QED BY <1>5, <1>a, <2>1, OwnersKept
  <1>6. CASE work # << >> /\ \E calls : Walks(calls)
    <2>1. PICK calls : Walks(calls)
      BY <1>6
    <2>2. /\ DOMAIN scopeByNode' = DOMAIN scopeByNode \cup {Top.node} /\ Made(calls)
          /\ Top.call = "bindExpression" /\ scopeByNode'[Top.node] = Top.scope
          /\ \A n \in DOMAIN scopeByNode \ {Top.node} : scopeByNode'[n] = scopeByNode[n]
          /\ scopes' = scopes /\ ScopeIds' = ScopeIds
      BY <2>1 DEF Walks, Put, ScopeIds
    <2>3. /\ scopes[Top.scope].owner = Encloser(program, Top.node)
          /\ Top.node \in OfKind(program, Expressions) /\ program' = program
          /\ Top.node \in NodeIds(program)
      <3>1. OwnsCall(scopes, Top)
        BY <1>6, <2>2, WorkSplit DEF OwnersInv
      <3>2. Top.node \in OfKind(program, Expressions) /\ program' = program
        BY <1>0, <1>6, <2>2, RunningCall, WorkSplit
      <3> QED BY <2>2, <3>1, <3>2 DEF OwnsCall, OfKind
    <2>4. \A n \in {Top.node} : Placed(scopes', scopeByNode', n) \/ Moving(n)'
      BY <2>2, <2>3 DEF Placed
    <2>5. ASSUME NEW k \in DOMAIN calls PROVE OwnsCall(scopes', calls[k])
      <3>1. /\ calls[k].node \in ChildrenOf(Top.node) /\ calls[k].scope = Top.scope
            /\ calls[k].call = "bindExpression" \/ calls[k].call = "bindBranch"
        BY <2>1 DEF Walks
      <3>2. /\ Parent(program, calls[k].node) = Top.node
            /\ program.nodes[calls[k].node].kind \notin Scoping =>
                 Encloser(program, calls[k].node) = Encloser(program, Top.node)
        BY <2>3, <3>1, ChildEncloser
      <3>3. calls[k].call = "bindExpression" => program.nodes[calls[k].node].kind \notin Scoping
        <4>1. work' \in Seq(Calls)'
          BY StepKeepsInv DEF Inv, TypeOK
        <4>2. PICK j \in DOMAIN work' : work'[j] = calls[k]
          BY <1>6, <2>2, CallsAfter
        <4>3. calls[k] \in Calls'
          BY <4>1, <4>2, ElementOf
        <4>4. calls[k].call = "bindExpression" => calls[k].node \in OfKind(program, Expressions)
          BY <2>3, <4>3 DEF Calls, OfKind, NodeIds
        <4> QED BY <4>4 DEF OfKind, Expressions, Scoping
      <3> QED BY <2>2, <2>3, <3>1, <3>2, <3>3 DEF OwnsCall
    <2>6. Node.kind # "defn"
      BY <2>3 DEF OfKind, Expressions, Node
    <2>7. \A n \in DOMAIN scopeByNode \ {Top.node} : scopeByNode'[n] = scopeByNode[n]
      BY <2>2
    <2>8. /\ ScopeIds \subseteq ScopeIds' /\ ScopeIds' \ ScopeIds = {}
          /\ \A t \in ScopeIds : /\ scopes'[t].owner = scopes[t].owner
                                 /\ scopes'[t].parent = scopes[t].parent
      BY <2>2
    <2> QED BY <1>6, <2>2, <2>4, <2>5, <2>6, <2>7, <2>8, OwnersKept
  <1>7. CASE work # << >> /\ \E outer, calls : Opens(outer, calls)
    <2>1. PICK outer, calls : Opens(outer, calls)
      BY <1>7
    <2>2. /\ DOMAIN scopeByNode' = DOMAIN scopeByNode \cup Own /\ Made(calls)
          /\ Top.node \in Own /\ outer \in ScopeIds /\ CreateScope(outer, Top.node)
          /\ \A n \in DOMAIN scopeByNode \ Own : scopeByNode'[n] = scopeByNode[n]
          /\ \A n \in Own : scopeByNode'[n] = NewScope
          /\ Top.node \in OfKind(program, Scoping) /\ Top.node \in NodeIds(program)
          /\ ChildrenOf(Top.node) = (Own \ {Top.node}) \cup {Node.body}
          /\ Node.body \in OfKind(program, Expressions)
          /\ Own \ {Top.node} \subseteq OfKind(program, Patterns)
          /\ program' = program
      BY <1>7, <2>1, WorkSplit DEF Opens, Own, OfKind
    <2>3. /\ ScopeIds' = ScopeIds \cup {NewScope} /\ NewScope \notin ScopeIds
          /\ scopes'[NewScope] = EmptyScope(outer, Top.node)
          /\ \A t \in ScopeIds : scopes'[t].owner = scopes[t].owner
      BY <1>0, <2>2, CreateOwners
    <2>4. \A t \in ScopeIds : scopes'[t].parent = scopes[t].parent
      BY <1>0, <2>2, CreateChanges
    <2>5. scopes'[NewScope].owner = Top.node /\ scopes'[NewScope].parent = outer
      BY <2>3 DEF EmptyScope
    <2>6. Encloser(program, Top.node) = Top.node
      BY <1>0, <2>2, EncloserOf DEF OfKind
    <2>7. scopes[outer].owner = Encloser(program, Parent(program, Top.node))
      <3>1. CASE Top.call = "bindFunction" /\ outer = RootScope
        <4>1. Top.node \in Definitions(program)
          BY <1>0, <1>7, <3>1, RunningCall, DefinitionKinds
        <4> QED BY <1>0, <3>1, <4>1, DefinitionEncloser
      <3>2. CASE Top.call = "bindBranch" /\ outer = Top.scope
        <4>1. OwnsCall(scopes, Top)
          BY <1>7, <2>2, WorkSplit DEF OwnersInv
        <4> QED BY <3>2, <4>1 DEF OwnsCall
      <3> QED BY <2>1, <3>1, <3>2 DEF Opens
    <2>8. Inside(scopes', NewScope)
      BY <2>2, <2>3, <2>5, <2>7 DEF Inside, OfKind, NodeIds
    <2>9. ASSUME NEW c \in ChildrenOf(Top.node), program.nodes[c].kind \notin Scoping
          PROVE  Encloser(program, c) = Top.node
      BY <2>2, <2>6, <2>9, ChildEncloser
    <2>10. ASSUME NEW k \in DOMAIN calls PROVE OwnsCall(scopes', calls[k])
      <3>1. \/ calls[k].call = "addSymbol"
            \/ /\ calls[k].call = "bindExpression" /\ calls[k].scope = NewScope
               /\ calls[k].node = Node.body
        <4> DEFINE n == Len(LocalNames(program, Top.node))
        <4>1. /\ n \in Nat /\ DOMAIN calls = 1..(n + 1)
              /\ \A j \in 1..n : calls[j].call = "addSymbol"
              /\ calls[n + 1].call = "bindExpression" /\ calls[n + 1].scope = NewScope
              /\ calls[n + 1].node = Node.body
          BY <1>7, <2>1, OpenCalls
        <4> HIDE DEF n
        <4>2. k \in 1..n \/ k = n + 1
          BY <4>1
        <4> QED BY <4>1, <4>2
      <3>2. Encloser(program, Node.body) = Top.node
        BY <2>2, <2>9 DEF OfKind, Expressions, Scoping
      <3> QED BY <2>2, <2>5, <3>1, <3>2 DEF OwnsCall
    <2>11. ASSUME NEW n \in Own PROVE Placed(scopes', scopeByNode', n) \/ Moving(n)'
      <3>1. Encloser(program, n) = Top.node
        <4>1. CASE n = Top.node
          BY <2>6, <4>1
        <4>2. CASE n # Top.node
          BY <2>2, <2>9, <4>2 DEF OfKind, Patterns, Scoping
        <4> QED BY <4>1, <4>2
      <3> QED BY <2>2, <2>5, <3>1 DEF Placed
    <2> QED BY <1>7, <2>2, <2>3, <2>4, <2>8, <2>10, <2>11, OwnersKept
  <1> QED BY <1>1, <1>2, <1>3, <1>4, <1>5, <1>6, <1>7, StepSorts

(* When no call is left, every node is bound, where it belongs. *)
LEMMA AllBound ==
  ASSUME Inv, CoverInv, OwnersInv, Finished
  PROVE  /\ \A n \in NodeIds(program) : n \in DOMAIN scopeByNode
         /\ \A n \in NodeIds(program) : scopes[scopeByNode[n]].owner = Encloser(program, n)
  <1>0. program \in Programs
    BY DEF Inv, TypeOK
  <1>1. \A n : ~Pending(n) /\ ~Checking(n)
    BY DEF Pending, Checking, Finished
  <1> DEFINE S == NodeIds(program) \ DOMAIN scopeByNode
  <1>2. ASSUME S # {} PROVE FALSE
    <2>1. PICK n \in S : Parent(program, n) \notin S
      <3>1. S \in SUBSET NodeIds(program)
        OBVIOUS
      <3> HIDE DEF S
      <3> QED BY <1>0, <1>2, <3>1, TopOf
    <2>2. n \notin Definitions(program)
      BY <1>1 DEF CoverInv
    <2>3. /\ Parent(program, n) \in NodeIds(program)
          /\ n \in ChildrenOf(Parent(program, n))
      BY <1>0, <2>2, ParentOf DEF ChildrenOf
    <2>4. Expanded(Parent(program, n))
      BY <1>1, <2>1, <2>3 DEF Expanded
    <2>5. Met(n)
      BY <2>3, <2>4 DEF CoverInv
    <2> QED BY <1>1, <2>1, <2>5 DEF Met
  <1>3. \A n \in NodeIds(program) : Placed(scopes, scopeByNode, n)
    BY <1>1, <1>2 DEF OwnersInv, Moving
  <1> QED BY <1>2, <1>3 DEF Placed

-----------------------------------------------------------------------------
(* What a step keeps of the symbols, and of scope s. *)
KeepsSymbols ==
  /\ \A k \in SymbolIds : symbols'[k] = symbols[k]
  /\ Ok' => Ok

KeepsScope(s) ==
  /\ scopes'[s].owner = scopes[s].owner /\ scopes'[s].symbols = scopes[s].symbols

(* A call that declares a name in scope s. *)
AddsTo(c, s) == c.call = "addSymbol" /\ c.scope = s

(* The first m of the names that n declares have been declared in s, ...   *)
DeclaredIn(s, n, m) ==
  LET names == LocalNames(program, n) IN
  /\ DOMAIN scopes[s].symbols = {names[i] : i \in 1..m}
  /\ \A name \in DOMAIN scopes[s].symbols :
       symbols[scopes[s].symbols[name]] = SymbolOf(name, Local(program, n))
  /\ Ok => \A i, j \in 1..m : names[i] = names[j] => i = j

(* ... and the calls for the others are the next to run. *)
Awaits(s, n, m) ==
  LET left == Len(LocalNames(program, n)) - m
  IN  /\ \A i \in 1..left : i \in DOMAIN work /\ work[i] = LocalCall(s, n, m + i)
      /\ \A k \in DOMAIN work : AddsTo(work[k], s) => k <= left

LocalOk(s) ==
  \E m \in 0..Len(LocalNames(program, scopes[s].owner)) :
    DeclaredIn(s, scopes[s].owner, m) /\ Awaits(s, scopes[s].owner, m)

LocalsInv == \A s \in ScopeIds \ {RootScope} : LocalOk(s)

(* What a function or a branch declares are names. *)
LEMMA LocalNamesOf ==
  ASSUME NEW p \in Programs, NEW n \in NodeIds(p)
  PROVE  /\ LocalNames(p, n) \in Seq(Names) /\ Len(LocalNames(p, n)) \in Nat
         /\ DOMAIN LocalNames(p, n) = 1..Len(LocalNames(p, n))
  <1>1. CASE p.nodes[n].kind = "defn"
    <2>1. LocalNames(p, n) = p.nodes[n].parameters /\ p.nodes[n].parameters \in Seq(Names)
      BY <1>1, DefinitionNode DEF LocalNames, OfKind
    <2> QED BY <2>1
  <1>2. CASE p.nodes[n].kind = "branch"
    <2>1. /\ LocalNames(p, n) = PatternNames(p, p.nodes[n].pattern)
          /\ PatternNames(p, p.nodes[n].pattern) \in Seq(Names)
      BY <1>2, BranchNode DEF LocalNames, OfKind
    <2> QED BY <2>1
  <1>3. CASE p.nodes[n].kind \notin {"defn", "branch"}
    <2>1. LocalNames(p, n) = << >>
      BY <1>3 DEF LocalNames
    <2> QED BY <2>1
  <1> QED BY <1>1, <1>2, <1>3

(* A scope that no running call declares in is complete. *)
Complete(s) ==
  /\ DeclaredIn(s, scopes[s].owner, Len(LocalNames(program, scopes[s].owner)))
  /\ \A k \in DOMAIN work : ~AddsTo(work[k], s)

(* So it is unless the running call declares in it: no call comes between. *)
LEMMA IsComplete ==
  ASSUME Inv, OwnersInv, LocalsInv, NEW s \in ScopeIds \ {RootScope},
         work # << >> => ~AddsTo(Top, s)
  PROVE  Complete(s)
  <1> DEFINE n == scopes[s].owner
             names == LocalNames(program, n)
  <1>1. work \in Seq(Calls) /\ program \in Programs /\ n \in NodeIds(program)
    BY DEF Inv, TypeOK, OwnersInv, Inside, OfKind
  <1>2. PICK m \in 0..Len(names) : DeclaredIn(s, n, m) /\ Awaits(s, n, m)
    BY DEF LocalsInv, LocalOk
  <1>3. Len(names) \in Nat
    BY <1>1, LocalNamesOf
  <1>4. \A k : AddsTo(LocalCall(s, n, k), s)
    BY DEF AddsTo, LocalCall, AddSymbolCall
  <1> HIDE DEF n
  <1>5. Len(names) - m = 0
    <2>1. CASE Len(names) - m >= 1
      <3>1. 1 \in DOMAIN work /\ work[1] = LocalCall(s, n, m + 1)
        <4>1. 1 \in 1..(Len(names) - m)
          BY <1>3, <2>1
        <4> QED BY <1>2, <4>1 DEF Awaits
      <3>2. work # << >> /\ Top = work[1]
        BY <1>1, <3>1 DEF Top
      <3> QED BY <1>4, <3>1, <3>2
    <2> HIDE DEF names
    <2> QED BY <1>3, <2>1
  <1>6. m = Len(names)
    <2> HIDE DEF names
    <2> QED BY <1>3, <1>5
  <1>7. \A k \in DOMAIN work : ~AddsTo(work[k], s)
    <2> SUFFICES ASSUME NEW k \in DOMAIN work, AddsTo(work[k], s) PROVE FALSE
      OBVIOUS
    <2>1. k <= Len(names) - m
      BY <1>2 DEF Awaits
    <2>2. k >= 1
      BY <1>1
    <2> QED BY <1>5, <2>1, <2>2
  <1> QED BY <1>2, <1>6, <1>7 DEF Complete, n

(* A step that does not touch scope s. *)
LEMMA LocalKept ==
  ASSUME Inv, OwnersInv, LocalsInv, work # << >>, NEW calls, Made(calls),
         NEW s \in ScopeIds \ {RootScope},
         ~AddsTo(Top, s), \A k \in DOMAIN calls : ~AddsTo(calls[k], s),
         KeepsScope(s), KeepsSymbols
  PROVE  LocalOk(s)'
  <1>1. Complete(s)
    BY IsComplete
  <1>2. program' = program /\ program \in Programs /\ scopes[s].owner \in NodeIds(program)
    BY WorkSplit DEF Inv, TypeOK, OwnersInv, Inside, OfKind
  <1>3. PICK n, m : n = scopes[s].owner /\ m = Len(LocalNames(program, n))
    OBVIOUS
  <1>4. m \in Nat
    BY <1>2, <1>3, LocalNamesOf
  <1>5. \A name \in DOMAIN scopes[s].symbols : scopes[s].symbols[name] \in SymbolIds
    BY DEF Inv, TypeOK
  <1>6. scopes'[s].owner = n /\ scopes'[s].symbols = scopes[s].symbols
    BY <1>3 DEF KeepsScope
  <1>7. DeclaredIn(s, n, m)
    BY <1>1, <1>3 DEF Complete
  <1>8. DeclaredIn(s, n, m)'
    BY <1>2, <1>5, <1>6, <1>7 DEF DeclaredIn, KeepsSymbols
  <1>9. \A k \in DOMAIN work' : ~AddsTo(work'[k], s)
    BY <1>1, CallsAfter DEF Complete
  <1>10. Awaits(s, n, m)'
    <2>1. m - m = 0
      BY <1>4
    <2> QED BY <1>2, <1>3, <1>9, <2>1 DEF Awaits, AddsTo
  <1> QED BY <1>2, <1>3, <1>4, <1>6, <1>8, <1>10 DEF LocalOk

(* Diagnostics are only ever added. *)
ErrorsInv == \E D : diagnostics \in Seq(D)

(* After a diagnostic there are some. *)
LEMMA AddErrorKeeps ==
  ASSUME ErrorsInv, NEW n, NEW what, AddError(n, what)
  PROVE  ErrorsInv' /\ ~Ok'
  <1>1. PICK D : diagnostics \in Seq(D)
    BY DEF ErrorsInv
  <1>2. PICK x : diagnostics' = Append(diagnostics, x)
    BY DEF AddError
  <1> DEFINE E == D \cup {x}
  <1>3. diagnostics \in Seq(E)
    <2>1. \A k \in 1..Len(diagnostics) : diagnostics[k] \in E
      BY <1>1
    <2>2. Len(diagnostics) \in Nat /\ diagnostics = [k \in 1..Len(diagnostics) |-> diagnostics[k]]
      BY <1>1
    <2> QED BY <2>1, <2>2
  <1>4. x \in E
    OBVIOUS
  <1> HIDE DEF E
  <1>5. diagnostics' \in Seq(E) /\ Len(diagnostics') = Len(diagnostics) + 1 /\ Len(diagnostics) \in Nat
    BY <1>2, <1>3, <1>4
  <1>6. diagnostics' # << >>
    BY <1>5
  <1> QED BY <1>5, <1>6 DEF ErrorsInv, Ok

(* No step takes a diagnostic back. *)
LEMMA StepErrors ==
  ASSUME Inv, ErrorsInv, [Next]_vars
  PROVE  ErrorsInv' /\ (Ok' => Ok)
  <1>1. CASE diagnostics' = diagnostics
    BY <1>1 DEF ErrorsInv, Ok
  <1>2. CASE \E n, what : AddError(n, what)
    BY <1>2, AddErrorKeeps
  <1>3. AddSymbol => diagnostics' = diagnostics \/ \E n, what : AddError(n, what)
    BY Zenon DEF AddSymbol, Redeclare, Declare
  <1>4. BindVariable => diagnostics' = diagnostics \/ \E n, what : AddError(n, what)
    BY Zenon DEF BindVariable
  <1>5. BindBranch => diagnostics' = diagnostics \/ \E n, what : AddError(n, what)
    BY Zenon DEF BindBranch, NameConstructor
  <1>6. \/ RegisterDefinition \/ CheckDefinition \/ BindFunction
        \/ BindLeafOrOperator \/ BindCaseExpression \/ UNCHANGED vars
        => diagnostics' = diagnostics
    BY DEF RegisterDefinition, CheckDefinition, BindFunction, BindLeafOrOperator,
           BindCaseExpression, vars
  <1> QED BY <1>1, <1>2, <1>3, <1>4, <1>5, <1>6 DEF Next, Done

(* addSymbol reports a name that is there, and declares another one. *)
Repeats ==
  /\ Top.symbol.name \in DOMAIN scopes[Top.scope].symbols
  /\ UNCHANGED tree /\ ~Ok'

Enters(id) ==
  /\ Top.symbol.name \notin DOMAIN scopes[Top.scope].symbols
  /\ diagnostics' = diagnostics /\ symbols'[id] = Top.symbol
  /\ \A t \in ScopeIds :
       scopes'[t].symbols = IF t = Top.scope THEN Put(scopes[t].symbols, Top.symbol.name, id)
                            ELSE scopes[t].symbols

(* A declaration is one or the other, and leaves the other scopes alone. *)
LEMMA AddCases ==
  ASSUME Inv, ErrorsInv, AddSymbol
  PROVE  /\ KeepsSymbols
         /\ Repeats \/ \E id : Enters(id)
         /\ \A t \in ScopeIds \ {Top.scope} : KeepsScope(t)
  <1>1. /\ TreeInv /\ Then(<< >>) /\ Top.scope \in ScopeIds /\ Top.symbol \in Symbols
        /\ \A t \in ScopeIds : scopes'[t].owner = scopes[t].owner
        /\ program' = program
    BY InvParts, AddEffect DEF AddSymbol, Then
  <1>2. Ok' => Ok
    BY StepErrors DEF Next
  <1>3. CASE Top.symbol.name \in DOMAIN scopes[Top.scope].symbols
    <2>1. UNCHANGED tree /\ \E n, what : AddError(n, what)
      BY <1>3 DEF AddSymbol, Redeclare
    <2>2. ~Ok'
      BY <2>1, AddErrorKeeps
    <2> QED BY <1>1, <1>2, <1>3, <2>1, <2>2 DEF KeepsSymbols, Repeats, tree, KeepsScope
  <1>4. CASE Top.symbol.name \notin DOMAIN scopes[Top.scope].symbols
    <2>1. Declare(Top.scope, Top.symbol)
      BY <1>4 DEF AddSymbol
    <2>2. /\ symbols'[Len(symbols) + 1] = Top.symbol
          /\ \A k \in SymbolIds : symbols'[k] = symbols[k]
          /\ \A t \in ScopeIds :
               scopes'[t].symbols =
                 IF t = Top.scope
                 THEN Put(scopes[Top.scope].symbols, Top.symbol.name, Len(symbols) + 1)
                 ELSE scopes[t].symbols
      BY <1>1, <1>4, <2>1, DeclareChanges
    <2>3. Enters(Len(symbols) + 1)
      BY <1>4, <2>1, <2>2 DEF Enters, Declare
    <2> QED BY <1>1, <1>2, <2>2, <2>3 DEF KeepsSymbols, KeepsScope
  <1> QED BY <1>3, <1>4

(* A declaration in a scope is of the next name its owner declares. *)
LEMMA NextLocal ==
  ASSUME Inv, OwnersInv, LocalsInv, NEW s \in ScopeIds \ {RootScope},
         work # << >>, AddsTo(Top, s)
  PROVE  \E n, m :
           /\ n = scopes[s].owner /\ n \in NodeIds(program)
           /\ m \in Nat /\ m + 1 \in 1..Len(LocalNames(program, n))
           /\ Len(LocalNames(program, n)) \in Nat
           /\ DeclaredIn(s, n, m) /\ Awaits(s, n, m)
           /\ Top.symbol = SymbolOf(LocalNames(program, n)[m + 1], Local(program, n))
           /\ Top.symbol.name = LocalNames(program, n)[m + 1]
  <1>1. PICK n : n = scopes[s].owner
    OBVIOUS
  <1>2. work \in Seq(Calls) /\ program \in Programs /\ n \in NodeIds(program)
    BY <1>1 DEF Inv, TypeOK, OwnersInv, Inside, OfKind
  <1>3. PICK N : N = Len(LocalNames(program, n)) /\ N \in Nat
    BY <1>2, LocalNamesOf
  <1>4. PICK m \in 0..N : DeclaredIn(s, n, m) /\ Awaits(s, n, m)
    BY <1>1, <1>3 DEF LocalsInv, LocalOk
  <1>5. 1 \in DOMAIN work /\ work[1] = Top
    BY <1>2 DEF Top
  <1>6. 1 <= N - m
    BY <1>3, <1>4, <1>5 DEF Awaits
  <1>7. m + 1 \in 1..N /\ m \in Nat /\ 1 \in 1..(N - m)
    BY <1>3, <1>4, <1>6
  <1>8. Top = LocalCall(s, n, m + 1)
    BY <1>3, <1>4, <1>5, <1>7 DEF Awaits
  <1>9. Top.symbol = SymbolOf(LocalNames(program, n)[m + 1], Local(program, n))
    BY <1>8 DEF LocalCall, AddSymbolCall
  <1>10. Top.symbol.name = LocalNames(program, n)[m + 1]
    BY <1>9 DEF SymbolOf, Symbol
  <1> QED BY <1>1, <1>2, <1>3, <1>4, <1>7, <1>9, <1>10

(* The scope that addSymbol declares in has one more name. *)
LEMMA AddedLocal ==
  ASSUME Inv, ErrorsInv, OwnersInv, LocalsInv, AddSymbol, NEW s \in ScopeIds \ {RootScope},
         AddsTo(Top, s)
  PROVE  LocalOk(s)'
  <1>1. /\ work # << >> /\ Made(<< >>) /\ program' = program /\ s = Top.scope
        /\ scopes'[s].owner = scopes[s].owner
    BY AddEffect, WorkSplit DEF AddsTo
  <1>2. PICK n, m :
           /\ n = scopes[s].owner /\ n \in NodeIds(program)
           /\ m \in Nat /\ m + 1 \in 1..Len(LocalNames(program, n))
           /\ Len(LocalNames(program, n)) \in Nat
           /\ DeclaredIn(s, n, m) /\ Awaits(s, n, m)
           /\ Top.symbol = SymbolOf(LocalNames(program, n)[m + 1], Local(program, n))
           /\ Top.symbol.name = LocalNames(program, n)[m + 1]
    BY <1>1, NextLocal
  <1>3. PICK N, names : names = LocalNames(program, n) /\ N = Len(names)
    OBVIOUS
  <1>4. N \in Nat /\ m + 1 \in 0..N /\ N - (m + 1) = N - m - 1 /\ N - m \in Nat
    BY <1>2, <1>3
  <1>5. names[m + 1] \in {names[i] : i \in 1..(m + 1)}
        /\ 1..(m + 1) = 1..m \cup {m + 1}
    BY <1>2
  <1>6. KeepsSymbols /\ (Repeats \/ \E id : Enters(id))
    BY AddCases
  <1>7. \A name \in DOMAIN scopes[s].symbols : scopes[s].symbols[name] \in SymbolIds
    BY DEF Inv, TypeOK
  <1>8. /\ DOMAIN scopes[s].symbols = {names[i] : i \in 1..m}
        /\ \A name \in DOMAIN scopes[s].symbols :
             symbols[scopes[s].symbols[name]] = SymbolOf(name, Local(program, n))
        /\ Ok => \A i, j \in 1..m : names[i] = names[j] => i = j
    BY <1>2, <1>3 DEF DeclaredIn
  <1>9. /\ DOMAIN scopes'[s].symbols = {names[i] : i \in 1..(m + 1)}
        /\ \A name \in DOMAIN scopes'[s].symbols :
             symbols'[scopes'[s].symbols[name]] = SymbolOf(name, Local(program, n))
        /\ Ok' => \A i, j \in 1..(m + 1) : names[i] = names[j] => i = j
    <2>1. CASE Repeats
      <3>1. names[m + 1] \in DOMAIN scopes[s].symbols
        BY <1>1, <1>2, <1>3, <2>1 DEF Repeats
      <3>2. scopes' = scopes /\ symbols' = symbols /\ ~Ok'
        BY <2>1 DEF Repeats, tree
      <3>3. {names[i] : i \in 1..(m + 1)} = {names[i] : i \in 1..m}
        BY <1>5, <1>8, <3>1
      <3> QED BY <1>8, <3>2, <3>3
    <2>2. CASE \E id : Enters(id)
      <3>1. PICK id : Enters(id)
        BY <2>2
      <3>2. /\ names[m + 1] \notin DOMAIN scopes[s].symbols
            /\ symbols'[id] = SymbolOf(names[m + 1], Local(program, n))
            /\ scopes'[s].symbols = Put(scopes[s].symbols, names[m + 1], id)
        BY <1>1, <1>2, <1>3, <3>1 DEF Enters
      <3>3. /\ DOMAIN scopes'[s].symbols = DOMAIN scopes[s].symbols \cup {names[m + 1]}
            /\ scopes'[s].symbols[names[m + 1]] = id
            /\ \A name \in DOMAIN scopes[s].symbols :
                 scopes'[s].symbols[name] = scopes[s].symbols[name]
        BY <3>2 DEF Put
      <3>4. DOMAIN scopes'[s].symbols = {names[i] : i \in 1..(m + 1)}
        BY <1>5, <1>8, <3>3
      <3>5. ASSUME NEW name \in DOMAIN scopes'[s].symbols
            PROVE  symbols'[scopes'[s].symbols[name]] = SymbolOf(name, Local(program, n))
        <4>1. CASE name = names[m + 1]
          BY <3>2, <3>3, <4>1
        <4>2. CASE name \in DOMAIN scopes[s].symbols
          BY <1>6, <1>7, <1>8, <3>3, <4>2 DEF KeepsSymbols
        <4> QED BY <3>3, <4>1, <4>2
      <3>6. ASSUME Ok', NEW i \in 1..(m + 1), NEW j \in 1..(m + 1), names[i] = names[j]
            PROVE  i = j
        <4>1. Ok
          BY <1>6, <3>6 DEF KeepsSymbols
        <4>2. \A k \in 1..m : names[k] # names[m + 1]
          BY <1>8, <3>2, SMTT(30), Zenon
        <4> QED BY <1>5, <1>8, <3>6, <4>1, <4>2
      <3> QED BY <3>4, <3>5, <3>6
    <2> QED BY <1>6, <2>1, <2>2
  <1>10. DeclaredIn(s, n, m + 1)'
    <2>1. program' = program
      BY <1>1
    <2>2. LocalNames(program', n) = names /\ Local(program', n) = Local(program, n)
      BY <1>3, <2>1
    <2> QED BY <1>9, <2>2 DEF DeclaredIn
  <1>11. /\ \A i \in 1..(N - (m + 1)) : i \in DOMAIN work' /\ work'[i] = LocalCall(s, n, m + 1 + i)
         /\ \A k \in DOMAIN work' : AddsTo(work'[k], s) => k <= N - (m + 1)
    <2>1. /\ \A k \in DOMAIN work \ {1} : k - 1 \in DOMAIN work' /\ work'[k - 1] = work[k]
          /\ \A k \in DOMAIN work' : k + 1 \in DOMAIN work \ {1} /\ work'[k] = work[k + 1]
          /\ DOMAIN work \subseteq Nat \ {0} /\ DOMAIN work' \subseteq Nat \ {0}
      <3>1. PICK none : none = << >>
        OBVIOUS
      <3>2. Made(none) /\ Len(none) = 0 /\ DOMAIN none = {}
        BY <1>1, <3>1
      <3> QED BY <1>1, <3>2, WorkSplit
    <2>2. ASSUME NEW i \in 1..(N - (m + 1))
          PROVE  i \in DOMAIN work' /\ work'[i] = LocalCall(s, n, m + 1 + i)
      <3>1. i + 1 \in 1..(N - m) /\ i + 1 # 1 /\ i + 1 - 1 = i /\ m + (i + 1) = m + 1 + i
        BY <1>2, <1>4
      <3>2. i + 1 \in DOMAIN work /\ work[i + 1] = LocalCall(s, n, m + (i + 1))
        BY <1>2, <1>3, <3>1 DEF Awaits
      <3> QED BY <2>1, <3>1, <3>2
    <2>3. ASSUME NEW k \in DOMAIN work', AddsTo(work'[k], s) PROVE k <= N - (m + 1)
      <3>1. k \in Nat /\ k + 1 \in DOMAIN work /\ AddsTo(work[k + 1], s)
        BY <2>1, <2>3
      <3>2. k + 1 <= N - m
        BY <1>2, <1>3, <3>1 DEF Awaits
      <3> QED BY <1>2, <1>4, <3>1, <3>2
    <2> QED BY <2>2, <2>3
  <1>12. Awaits(s, n, m + 1)'
    BY <1>1, <1>3, <1>11 DEF Awaits, AddsTo, LocalCall
  <1> QED BY <1>1, <1>2, <1>3, <1>4, <1>10, <1>12 DEF LocalOk

(* A scope that has just been opened awaits all its names. *)
LEMMA OpenedLocal ==
  ASSUME Inv, work # << >>, NEW outer, NEW calls, Opens(outer, calls), NEW s, s = NewScope
  PROVE  LocalOk(s)'
  <1>1. /\ CreateScope(outer, Top.node) /\ outer \in ScopeIds
        /\ Made(calls) /\ program' = program /\ program \in Programs /\ TreeInv
        /\ work \in Seq(Calls)
    BY WorkSplit, InvParts DEF Opens, Inv, TypeOK
  <1>2. PICK n, names, N : n = Top.node /\ names = LocalNames(program, n) /\ N = Len(names)
    OBVIOUS
  <1>3. n \in NodeIds(program) /\ N \in Nat
    BY <1>1, <1>2, LocalNamesOf DEF Opens, OfKind
  <1>4. scopes'[s] = EmptyScope(outer, n) /\ s \notin ScopeIds
    BY <1>1, <1>2, CreateOwners
  <1>5. scopes'[s].owner = n /\ DOMAIN scopes'[s].symbols = {}
    BY <1>4 DEF EmptyScope
  <1>6. DeclaredIn(s, n, 0)'
    <2>1. 1..0 = {}
      OBVIOUS
    <2> QED BY <1>5, <2>1 DEF DeclaredIn
  <1>7. /\ DOMAIN calls = 1..(N + 1) /\ \A k \in 1..N : calls[k] = LocalCall(s, n, k)
        /\ calls[N + 1].call = "bindExpression"
    BY <1>2, OpenCalls DEF Opens
  <1>8. ASSUME NEW k \in DOMAIN work', AddsTo(work'[k], s) PROVE k <= N
    <2>1. CASE k \in DOMAIN calls /\ work'[k] = calls[k]
      <3>1. k # N + 1
        BY <1>7, <1>8, <2>1 DEF AddsTo
      <3> QED BY <1>3, <1>7, <2>1, <3>1
    <2>2. CASE \E j \in DOMAIN work : work'[k] = work[j]
      <3>1. PICK j \in DOMAIN work : work'[k] = work[j]
        BY <2>2
      <3>2. work[j] \in Calls
        BY <1>1, ElementOf
      <3>3. work[j].call = "addSymbol" => work[j].scope \in ScopeIds
        BY <3>2 DEF Calls
      <3> QED BY <1>4, <1>8, <3>1, <3>3 DEF AddsTo
    <2> QED BY <1>1, <2>1, <2>2, WorkSplit
  <1>9. \A k \in 1..N : k \in DOMAIN work' /\ work'[k] = LocalCall(s, n, k)
    BY <1>1, <1>3, <1>7, WorkSplit
  <1>10. Awaits(s, n, 0)'
    <2>1. N - 0 = N /\ \A k \in 1..N : 0 + k = k
      BY <1>3
    <2> QED BY <1>1, <1>2, <1>8, <1>9, <2>1 DEF Awaits, AddsTo, LocalCall
  <1> QED BY <1>1, <1>2, <1>3, <1>5, <1>6, <1>10 DEF LocalOk

(* At first there are no scopes but the root, and no diagnostics. *)
LEMMA InitLocals == Init => LocalsInv /\ ErrorsInv
  <1> SUFFICES ASSUME Init PROVE LocalsInv /\ ErrorsInv
    OBVIOUS
  <1>1. ScopeIds = {RootScope}
    BY DEF Init, ScopeIds, RootScope
  <1>2. << >> \in Seq({})
    OBVIOUS
  <1> QED BY <1>1, <1>2 DEF LocalsInv, ErrorsInv, Init

(* Every step declares the next name in its scope, or leaves scopes alone. *)
LEMMA StepLocals == Inv /\ ErrorsInv /\ OwnersInv /\ LocalsInv /\ [Next]_vars => LocalsInv'
  <1> SUFFICES ASSUME Inv, ErrorsInv, OwnersInv, LocalsInv, [Next]_vars,
                      NEW s \in ScopeIds' \ {RootScope}
               PROVE  LocalOk(s)'
    BY DEF LocalsInv
  <1>0. Ok' => Ok
    BY StepErrors
  <1>a. PICK none : none = << >>
    OBVIOUS
  <1>b. DOMAIN none = {}
    BY <1>a
  <1>1. CASE UNCHANGED vars
    <2>1. /\ program' = program /\ work' = work /\ scopes' = scopes /\ symbols' = symbols
          /\ (Ok' <=> Ok) /\ s \in ScopeIds \ {RootScope}
      BY <1>1 DEF vars, Ok, ScopeIds
    <2>2. PICK n, m : /\ n = scopes[s].owner /\ m \in 0..Len(LocalNames(program, n))
                      /\ DeclaredIn(s, n, m) /\ Awaits(s, n, m)
      BY <2>1 DEF LocalsInv, LocalOk
    <2>3. DeclaredIn(s, n, m)'
      BY <2>1, <2>2 DEF DeclaredIn
    <2>4. Awaits(s, n, m)'
      BY <2>1, <2>2 DEF Awaits, AddsTo, LocalCall
    <2> QED BY <2>1, <2>2, <2>3, <2>4 DEF LocalOk
  <1>2. CASE AddSymbol
    <2>1. /\ work # << >> /\ Made(none) /\ ScopeIds' = ScopeIds
          /\ Top.call = "addSymbol" /\ Top.scope \in ScopeIds
      BY <1>2, <1>a, AddEffect
    <2>2. CASE AddsTo(Top, s)
      BY <1>2, <2>1, <2>2, AddedLocal
    <2>3. CASE ~AddsTo(Top, s)
      <3>1. KeepsScope(s) /\ KeepsSymbols
        BY <1>2, <2>1, <2>3, AddCases DEF AddsTo
      <3> QED BY <1>b, <2>1, <2>3, <3>1, LocalKept
    <2> QED BY <2>2, <2>3
  <1>3. ASSUME work # << >>, NEW calls, Made(calls), UNCHANGED <<scopes, symbols>>,
               Top.call # "addSymbol", \A k \in DOMAIN calls : ~AddsTo(calls[k], s)
        PROVE  LocalOk(s)'
    <2>1. KeepsScope(s) /\ KeepsSymbols /\ s \in ScopeIds \ {RootScope} /\ ~AddsTo(Top, s)
      BY <1>0, <1>3 DEF KeepsScope, KeepsSymbols, ScopeIds, AddsTo
    <2> QED BY <1>3, <2>1, LocalKept
  <1>4. CASE work # << >> /\ \E i, calls : Registers(i, calls)
    <2>1. PICK i, calls : Registers(i, calls)
      BY <1>4
    <2>2. /\ Made(calls) /\ UNCHANGED <<scopes, symbols>> /\ Top.call # "addSymbol"
          /\ \A k \in DOMAIN calls : calls[k] = DeclareCall(<<i, k - 1>>)
      BY <2>1 DEF Registers, tree
    <2>3. \A w : DeclareCall(w).scope = RootScope
      BY DEF DeclareCall, AddSymbolCall
    <2> QED BY <1>3, <1>4, <2>2, <2>3 DEF AddsTo
  <1>5. CASE work # << >> /\ (Checks \/ Skips)
    <2>1. Made(none) /\ UNCHANGED <<scopes, symbols>> /\ Top.call # "addSymbol"
      BY <1>5, <1>a DEF Checks, Skips, tree
    <2> QED BY <1>3, <1>5, <1>b, <2>1
  <1>6. CASE work # << >> /\ \E calls : Walks(calls)
    <2>1. PICK calls : Walks(calls)
      BY <1>6
    <2>2. /\ Made(calls) /\ UNCHANGED <<scopes, symbols>> /\ Top.call # "addSymbol"
          /\ \A k \in DOMAIN calls : calls[k].call # "addSymbol"
      BY <2>1 DEF Walks
    <2> QED BY <1>3, <1>6, <2>2 DEF AddsTo
  <1>7. CASE work # << >> /\ \E outer, calls : Opens(outer, calls)
    <2>1. PICK outer, calls : Opens(outer, calls)
      BY <1>7
    <2>2. /\ CreateScope(outer, Top.node) /\ Made(calls) /\ symbols' = symbols
          /\ outer \in ScopeIds /\ Top.node \in NodeIds(program) /\ Top.call # "addSymbol"
          /\ TreeInv /\ program' = program
      BY <1>7, <2>1, InvParts, WorkSplit DEF Opens, OfKind
    <2>3. CASE s = NewScope
      BY <1>7, <2>1, <2>3, OpenedLocal
    <2>4. CASE s # NewScope
      <3>1. s \in ScopeIds \ {RootScope} /\ KeepsScope(s)
        BY <2>2, <2>4, CreateOwners, CreateChanges DEF KeepsScope
      <3>2. ASSUME NEW k \in DOMAIN calls PROVE ~AddsTo(calls[k], s)
        <4>1. PICK n : n = Len(LocalNames(program, Top.node))
          OBVIOUS
        <4>2. /\ n \in Nat /\ DOMAIN calls = 1..(n + 1)
              /\ \A j \in 1..n : calls[j].scope = NewScope
              /\ calls[n + 1].scope = NewScope
          BY <1>7, <2>1, <4>1, OpenCalls
        <4>3. k \in 1..n \/ k = n + 1
          BY <4>2
        <4>4. calls[k].scope = NewScope
          BY <4>2, <4>3
        <4> QED BY <2>4, <4>4 DEF AddsTo
      <3>3. KeepsSymbols /\ ~AddsTo(Top, s)
        BY <1>0, <2>2 DEF KeepsSymbols, AddsTo
      <3> QED BY <1>7, <2>2, <3>1, <3>2, <3>3, LocalKept
    <2> QED BY <2>3, <2>4
  <1> QED BY <1>1, <1>2, <1>4, <1>5, <1>6, <1>7, StepSorts

-----------------------------------------------------------------------------
(***************************************************************************)
(* The globals: the calls declare them, or are going to, in the order of   *)
(* their places; what is no longer awaited is in the root scope.           *)
(***************************************************************************)
Adds(c, w) ==
  c = DeclareCall(w) \/ (c.call = "register" /\ c.node = program.definitions[w[1]])

AwaitedIn(calls, w) == \E k \in DOMAIN calls : Adds(calls[k], w)

InOrder(calls) ==
  \A j, k \in DOMAIN calls : \A v, w \in GlobalPlaces(program) :
    j < k /\ Adds(calls[j], v) /\ Adds(calls[k], w) => Before(v, w)

Root == scopes[RootScope].symbols

(* The root scope when the places in A are awaited: the first declarations *)
(* of the others, and with no diagnostic all of the others.                *)
RootHolds(A) ==
  /\ \A name \in DOMAIN Root :
       /\ symbols[Root[name]] = SymbolOf(name, Global(program, name))
       /\ name = "Int" \/ \E w \in GlobalPlaces(program) \ A : NameAt(program, w) = name
  /\ \A w \in GlobalPlaces(program) \ A :
       /\ NameAt(program, w) \in DOMAIN Root
       /\ Ok => Global(program, NameAt(program, w)).declaration = DeclaredAt(program, w)

(* The places that the calls declare, or are going to. *)
AwaitedPlaces(calls) == {w \in GlobalPlaces(program) : AwaitedIn(calls, w)}

GlobalsInv ==
  /\ InOrder(work)
  /\ \A v, w \in GlobalPlaces(program) :
       Before(v, w) /\ AwaitedIn(work, v) => AwaitedIn(work, w)
  /\ \A k \in DOMAIN work : AddsTo(work[k], RootScope) =>
       \/ k = 1 /\ work[k] = IntCall /\ DOMAIN Root = {}
       \/ \E w \in GlobalPlaces(program) : work[k] = DeclareCall(w)
  /\ \/ "Int" \in DOMAIN Root
     \/ work # << >> /\ Top = IntCall /\ \A w \in GlobalPlaces(program) : AwaitedIn(work, w)
  /\ RootHolds(AwaitedPlaces(work))

(* What a global declares is a node, so no two declare the same. *)
LEMMA DeclareCalls ==
  ASSUME program \in Programs, NEW w \in GlobalPlaces(program)
  PROVE  /\ DeclaredAt(program, w) \in NodeIds(program) /\ DeclaredAt(program, w) # NoNode
         /\ DeclareCall(w).call = "addSymbol" /\ DeclareCall(w).scope = RootScope
         /\ DeclareCall(w).symbol = SymbolOf(NameAt(program, w), GlobalAt(program, w))
         /\ DeclareCall(w).symbol.name = NameAt(program, w)
         /\ DeclareCall(w).symbol.declaration = DeclaredAt(program, w)
         /\ DeclareCall(w) # IntCall
         /\ \A v \in GlobalPlaces(program) : DeclareCall(v) = DeclareCall(w) => v = w
  <1>1. DeclaredAt(program, w) \in NodeIds(program)
    BY PlaceFacts DEF OfKind
  <1>2. DeclaredAt(program, w) # NoNode
    BY <1>1, ProgramFacts DEF NoNode
  <1>3. \A v : /\ DeclareCall(v).call = "addSymbol" /\ DeclareCall(v).scope = RootScope
               /\ DeclareCall(v).symbol = SymbolOf(NameAt(program, v), GlobalAt(program, v))
    BY DEF DeclareCall, AddSymbolCall
  <1>4. \A v : /\ DeclareCall(v).symbol.name = NameAt(program, v)
               /\ DeclareCall(v).symbol.declaration = DeclaredAt(program, v)
    <2>1. \A x, y : SymbolOf(x, y).name = x /\ SymbolOf(x, y).declaration = y.declaration
      BY DEF SymbolOf, Symbol
    <2>2. \A v : GlobalAt(program, v).declaration = DeclaredAt(program, v)
      BY DEF GlobalAt
    <2> QED BY <1>3, <2>1, <2>2
  <1>5. IntCall.symbol.declaration = NoNode
    BY DEF IntCall, AddSymbolCall, Symbol
  <1>6. ASSUME NEW v \in GlobalPlaces(program), DeclareCall(v) = DeclareCall(w) PROVE v = w
    <2>1. DeclaredAt(program, v) = DeclaredAt(program, w)
      BY <1>4, <1>6
    <2> QED BY <2>1, OneDeclaration
  <1> QED BY <1>1, <1>2, <1>3, <1>4, <1>5, <1>6

(* What is awaited after a step. *)
LEMMA AwaitedAfter ==
  ASSUME Inv, work # << >>, NEW calls, Made(calls)
  PROVE  \A w : AwaitedIn(work', w) <=>
                  \/ AwaitedIn(calls, w)
                  \/ \E k \in DOMAIN work \ {1} : Adds(work[k], w)
  BY CallsAfter DEF AwaitedIn

(* And in what order. *)
LEMMA OrderAfter ==
  ASSUME Inv, work # << >>, NEW calls, Made(calls), InOrder(work), InOrder(calls),
         \A j \in DOMAIN calls : \A k \in DOMAIN work \ {1} :
           \A v, w \in GlobalPlaces(program) :
             Adds(calls[j], v) /\ Adds(work[k], w) => Before(v, w)
  PROVE  InOrder(work')
  <1> SUFFICES ASSUME NEW j \in DOMAIN work', NEW k \in DOMAIN work', j < k,
                      NEW v \in GlobalPlaces(program), NEW w \in GlobalPlaces(program),
                      Adds(work'[j], v), Adds(work'[k], w)
               PROVE  Before(v, w)
    BY DEF InOrder
  <1> DEFINE n == Len(calls)
             Old(m) == /\ m > n /\ m - n + 1 \in DOMAIN work \ {1}
                       /\ work'[m] = work[m - n + 1]
  <1>1. /\ n \in Nat /\ DOMAIN calls = 1..n /\ j \in Nat /\ k \in Nat
        /\ (j \in DOMAIN calls /\ work'[j] = calls[j]) \/ Old(j)
        /\ (k \in DOMAIN calls /\ work'[k] = calls[k]) \/ Old(k)
    BY WorkSplit
  <1>2. CASE Old(j) /\ Old(k)
    <2>1. j - n + 1 < k - n + 1
      BY <1>1
    <2> QED BY <1>2, <2>1 DEF InOrder
  <1>3. CASE (j \in DOMAIN calls /\ work'[j] = calls[j]) /\ (k \in DOMAIN calls /\ work'[k] = calls[k])
    BY <1>3 DEF InOrder
  <1>4. CASE (j \in DOMAIN calls /\ work'[j] = calls[j]) /\ Old(k)
    BY <1>4
  <1>5. CASE Old(j) /\ k \in DOMAIN calls
    BY <1>1, <1>5
  <1> QED BY <1>1, <1>2, <1>3, <1>4, <1>5

(* The root scope stays right while it and what is awaited do. *)
LEMMA RootKept ==
  ASSUME Inv, NEW A, RootHolds(A), KeepsScope(RootScope), KeepsSymbols, program' = program
  PROVE  RootHolds(A)'
  <1>1. \A name \in DOMAIN Root : Root[name] \in SymbolIds
    BY InvParts DEF TreeInv, Root
  <1>2. scopes'[RootScope].symbols = Root
    BY DEF KeepsScope, Root
  <1> QED BY <1>1, <1>2 DEF RootHolds, Root, KeepsSymbols

(* What is to be shown of a step. *)
LEMMA GlobalsNext ==
  ASSUME program' = program, InOrder(work'),
         \A v, w \in GlobalPlaces(program) :
           Before(v, w) /\ AwaitedIn(work', v) => AwaitedIn(work', w),
         \A k \in DOMAIN work' : AddsTo(work'[k], RootScope) =>
           \E w \in GlobalPlaces(program) : work'[k] = DeclareCall(w),
         "Int" \in DOMAIN scopes'[RootScope].symbols,
         NEW A, A = AwaitedPlaces(work'), RootHolds(A)'
  PROVE  GlobalsInv'
  <1>1. /\ \A w : DeclareCall(w)' = DeclareCall(w)
        /\ \A c, w : Adds(c, w)' <=> Adds(c, w)
    BY DEF DeclareCall, NameAt, GlobalAt, Adds
  <1>2. /\ \A w : AwaitedIn(work, w)' <=> AwaitedIn(work', w)
        /\ InOrder(work)'
    BY <1>1 DEF AwaitedIn, InOrder, Adds
  <1>3. AwaitedPlaces(work)' = A
    BY <1>2 DEF AwaitedPlaces
  <1>4. (\A v, w \in GlobalPlaces(program) :
           Before(v, w) /\ AwaitedIn(work, v) => AwaitedIn(work, w))'
    BY <1>2
  <1>5. (\A k \in DOMAIN work : AddsTo(work[k], RootScope) =>
           \E w \in GlobalPlaces(program) : work[k] = DeclareCall(w))'
    BY <1>1 DEF AddsTo
  <1>6. ("Int" \in DOMAIN Root)'
    BY DEF Root
  <1>7. RootHolds(AwaitedPlaces(work))'
    BY <1>3 DEF RootHolds
  <1> QED BY <1>2, <1>4, <1>5, <1>6, <1>7 DEF GlobalsInv

(* A step that declares no global. *)
LEMMA GlobalsKept ==
  ASSUME Inv, GlobalsInv, work # << >>, NEW calls, Made(calls),
         KeepsScope(RootScope), KeepsSymbols, ~AddsTo(Top, RootScope),
         InOrder(calls),
         \A k \in DOMAIN calls : AddsTo(calls[k], RootScope) =>
           \E w \in GlobalPlaces(program) : calls[k] = DeclareCall(w),
         \A w \in GlobalPlaces(program) : Adds(Top, w) <=> AwaitedIn(calls, w)
  PROVE  GlobalsInv'
  <1>0. /\ program' = program /\ 1 \in DOMAIN work /\ Top = work[1]
        /\ DOMAIN work \subseteq Nat \ {0}
    BY WorkSplit
  <1>1. \A w \in GlobalPlaces(program) : AwaitedIn(work', w) <=> AwaitedIn(work, w)
    BY <1>0, AwaitedAfter DEF AwaitedIn
  <1>2. InOrder(work')
    <2>1. ASSUME NEW j \in DOMAIN calls, NEW k \in DOMAIN work \ {1},
                 NEW v \in GlobalPlaces(program), NEW w \in GlobalPlaces(program),
                 Adds(calls[j], v), Adds(work[k], w)
          PROVE  Before(v, w)
      <3>1. Adds(Top, v)
        BY <2>1 DEF AwaitedIn
      <3>2. 1 < k
        BY <1>0
      <3> QED BY <1>0, <2>1, <3>1, <3>2 DEF GlobalsInv, InOrder
    <2> QED BY <2>1, OrderAfter DEF GlobalsInv
  <1>3. Top # IntCall
    BY DEF AddsTo, IntCall, AddSymbolCall
  <1>4. "Int" \in DOMAIN Root
    BY <1>3 DEF GlobalsInv
  <1>5. scopes'[RootScope].symbols = Root
    BY DEF KeepsScope, Root
  <1>6. ASSUME NEW k \in DOMAIN work', AddsTo(work'[k], RootScope)
        PROVE  \E w \in GlobalPlaces(program) : work'[k] = DeclareCall(w)
    <2>1. CASE \E j \in DOMAIN calls : work'[k] = calls[j]
      BY <1>6, <2>1
    <2>2. CASE \E j \in DOMAIN work \ {1} : work'[k] = work[j]
      BY <1>6, <2>2 DEF GlobalsInv
    <2> QED BY <2>1, <2>2, CallsAfter
  <1>7. PICK A : A = AwaitedPlaces(work)
    OBVIOUS
  <1>8. AwaitedPlaces(work') = A
    BY <1>1, <1>7 DEF AwaitedPlaces
  <1>9. RootHolds(A)'
    BY <1>0, <1>7, RootKept DEF GlobalsInv
  <1>10. \A v, w \in GlobalPlaces(program) :
           Before(v, w) /\ AwaitedIn(work', v) => AwaitedIn(work', w)
    BY <1>1 DEF GlobalsInv
  <1> QED BY <1>0, <1>2, <1>4, <1>5, <1>6, <1>8, <1>9, <1>10, GlobalsNext

(* At first every global awaits the call for its definition. *)
LEMMA InitGlobals == Init => GlobalsInv
  <1> SUFFICES ASSUME Init PROVE GlobalsInv
    OBVIOUS
  <1> DEFINE ds == program.definitions
             N == Len(ds)
  <1>0. program \in Programs
    BY DEF Init
  <1>1. /\ N \in Nat /\ DOMAIN ds = 1..N /\ DOMAIN work = 1..(1 + N + N + N)
        /\ work[1] = IntCall
        /\ \A i \in 1..N : /\ work[1 + i] = RegisterCall(ds[i])
                           /\ work[1 + N + i] = CheckCall(ds[i])
                           /\ work[1 + N + N + i] = BindFunctionCall(ds[i])
    BY InitWork
  <1> HIDE DEF N
  <1>2. /\ IntCall.call = "addSymbol"
        /\ \A d : /\ RegisterCall(d).call = "register" /\ RegisterCall(d).node = d
                  /\ CheckCall(d).call = "check"
                  /\ BindFunctionCall(d).call = "bindFunction"
    BY DEF IntCall, AddSymbolCall, RegisterCall, CheckCall, BindFunctionCall
  <1> HIDE DEF ds
  <1>3. ASSUME NEW k \in DOMAIN work
        PROVE  \/ k = 1 /\ work[k] = IntCall
               \/ k - 1 \in 1..N /\ work[k] = RegisterCall(ds[k - 1])
               \/ work[k].call \notin {"addSymbol", "register"}
    <2>1. k \in Nat /\ k >= 1 /\ k <= 1 + N + N + N /\ N \in Nat
      BY <1>1
    <2>2. k = 1 \/ k - 1 \in 1..N \/ k - 1 - N \in 1..N \/ k - 1 - N - N \in 1..N
      BY <2>1
    <2>3. k = 1 + (k - 1) /\ k = 1 + N + (k - 1 - N) /\ k = 1 + N + N + (k - 1 - N - N)
      BY <2>1
    <2>4. CASE k = 1
      BY <1>1, <2>4
    <2>5. CASE k - 1 \in 1..N
      BY <1>1, <2>3, <2>5
    <2>6. CASE k - 1 - N \in 1..N
      <3>1. work[k] = CheckCall(ds[k - 1 - N])
        BY <1>1, <2>3, <2>6
      <3> QED BY <1>2, <3>1
    <2>7. CASE k - 1 - N - N \in 1..N
      <3>1. work[k] = BindFunctionCall(ds[k - 1 - N - N])
        BY <1>1, <2>3, <2>7
      <3> QED BY <1>2, <3>1
    <2> QED BY <2>2, <2>4, <2>5, <2>6, <2>7
  <1>4. ASSUME NEW k \in DOMAIN work, NEW w \in GlobalPlaces(program), Adds(work[k], w)
        PROVE  k = 1 + w[1]
    <2>1. work[k].call \in {"addSymbol", "register"} /\ work[k] # IntCall
      BY <1>0, <1>2, <1>4, DeclareCalls DEF Adds
    <2>2. k - 1 \in 1..N /\ work[k] = RegisterCall(ds[k - 1])
      BY <1>3, <2>1, SMTT(30), Zenon
    <2>3. ds[k - 1] = ds[w[1]] /\ w[1] \in DOMAIN ds /\ k - 1 \in DOMAIN ds
      BY <1>0, <1>1, <1>2, <1>4, <2>2, DeclareCalls, PlaceFacts DEF Adds, ds
    <2>4. k - 1 = w[1]
      BY <1>0, <2>3, OneDefinition DEF ds
    <2> QED BY <1>1, <2>2, <2>4
  <1>5. InOrder(work)
    <2> SUFFICES ASSUME NEW j \in DOMAIN work, NEW k \in DOMAIN work, j < k,
                        NEW v \in GlobalPlaces(program), NEW w \in GlobalPlaces(program),
                        Adds(work[j], v), Adds(work[k], w)
                 PROVE  Before(v, w)
      BY DEF InOrder
    <2>1. j = 1 + v[1] /\ k = 1 + w[1] /\ v[1] \in Nat /\ w[1] \in Nat
      BY <1>0, <1>4, PlaceFacts
    <2> QED BY <2>1 DEF Before
  <1>6. \A w \in GlobalPlaces(program) : AwaitedIn(work, w)
    <2> TAKE w \in GlobalPlaces(program)
    <2>1. w[1] \in 1..N
      BY <1>0, <1>1, PlaceFacts DEF ds
    <2>2. 1 + w[1] \in DOMAIN work /\ work[1 + w[1]] = RegisterCall(ds[w[1]])
      BY <1>1, <2>1
    <2> QED BY <1>2, <2>2 DEF AwaitedIn, Adds, ds
  <1>7. DOMAIN Root = {}
    BY DEF Init, Root, RootScope, EmptyScope
  <1>8. 1 \in DOMAIN work /\ work # << >> /\ Top = IntCall
    BY <1>1 DEF Top
  <1>9. \A k \in DOMAIN work : AddsTo(work[k], RootScope) => k = 1 /\ work[k] = IntCall
    BY <1>2, <1>3 DEF AddsTo
  <1>10. RootHolds(AwaitedPlaces(work))
    BY <1>6, <1>7 DEF RootHolds, AwaitedPlaces
  <1> QED BY <1>5, <1>6, <1>7, <1>8, <1>9, <1>10 DEF GlobalsInv

(* registerGlobalDefinitions makes the calls its own call stood for. *)
LEMMA RegisterGlobals ==
  ASSUME Inv, ErrorsInv, GlobalsInv, [Next]_vars, work # << >>, NEW i, NEW calls,
         Registers(i, calls)
  PROVE  GlobalsInv'
  <1>1. /\ program \in Programs /\ Made(calls) /\ Top.call = "register"
        /\ i \in DOMAIN program.definitions /\ program.definitions[i] = Top.node
        /\ scopes' = scopes /\ symbols' = symbols
        /\ KeepsScope(RootScope) /\ KeepsSymbols
    BY StepErrors DEF Inv, TypeOK, Registers, tree, KeepsScope, KeepsSymbols
  <1>2. PICK n : n = Len(ConstructorsOf(program, Top.node))
    OBVIOUS
  <1>3. n \in Nat
    <2>1. Top.node \in OfKind(program, {"defn", "data"})
      BY <1>1, DefinitionKinds DEF Definitions
    <2>2. CASE program.nodes[Top.node].kind = "data"
      BY <1>1, <1>2, <2>1, <2>2, DataNode DEF ConstructorsOf, OfKind
    <2>3. CASE program.nodes[Top.node].kind # "data"
      <3>1. ConstructorsOf(program, Top.node) = << >>
        BY <2>3 DEF ConstructorsOf
      <3> QED BY <1>2, <3>1
    <2> QED BY <2>2, <2>3
  <1>4. DOMAIN calls = 1..(n + 1) /\ \A k \in DOMAIN calls : calls[k] = DeclareCall(<<i, k - 1>>)
    BY <1>2 DEF Registers
  <1>5. \A k \in DOMAIN calls : <<i, k - 1>> \in GlobalPlaces(program) /\ k - 1 \in 0..n /\ k \in Nat
    <2> TAKE k \in DOMAIN calls
    <2>1. k - 1 \in 0..n /\ k \in Nat
      BY <1>3, <1>4
    <2>2. k - 1 \in 0..Len(ConstructorsOf(program, program.definitions[i]))
      BY <1>1, <1>2, <2>1
    <2> QED BY <1>1, <2>1, <2>2 DEF GlobalPlaces
  <1>6. ASSUME NEW w \in GlobalPlaces(program), w[1] = i
        PROVE  \E k \in DOMAIN calls : w = <<i, k - 1>>
    <2>1. PICK k \in DOMAIN program.definitions :
            \E j \in 0..Len(ConstructorsOf(program, program.definitions[k])) : w = <<k, j>>
      BY DEF GlobalPlaces
    <2>2. PICK j \in 0..Len(ConstructorsOf(program, program.definitions[k])) : w = <<k, j>>
      BY <2>1
    <2>3. k = i /\ w[2] = j
      BY <1>6, <2>2
    <2>4. j \in 0..n
      BY <1>1, <1>2, <2>3
    <2>5. PICK e : e = j + 1
      OBVIOUS
    <2>6. e \in DOMAIN calls /\ e - 1 = j
      BY <1>3, <1>4, <2>4, <2>5
    <2> QED BY <2>2, <2>3, <2>6
  <1>7. \A w \in GlobalPlaces(program) : Adds(Top, w) <=> w[1] = i
    <2> TAKE w \in GlobalPlaces(program)
    <2>1. Top # DeclareCall(w)
      BY <1>1, DeclareCalls
    <2>2. w[1] \in DOMAIN program.definitions
      BY <1>1, PlaceFacts
    <2> QED BY <1>1, <2>1, <2>2, OneDefinition DEF Adds
  <1>8. \A k \in DOMAIN calls : \A w \in GlobalPlaces(program) :
          Adds(calls[k], w) <=> w = <<i, k - 1>>
    BY <1>1, <1>4, <1>5, DeclareCalls DEF Adds
  <1>9. ASSUME NEW w \in GlobalPlaces(program) PROVE Adds(Top, w) <=> AwaitedIn(calls, w)
    <2>1. ASSUME w[1] = i PROVE AwaitedIn(calls, w)
      <3>1. PICK k \in DOMAIN calls : w = <<i, k - 1>>
        BY <1>6, <2>1, Zenon
      <3>2. Adds(calls[k], w)
        BY <1>8, <3>1
      <3> QED BY <3>2 DEF AwaitedIn
    <2>2. AwaitedIn(calls, w) => w[1] = i
      BY <1>8 DEF AwaitedIn
    <2> QED BY <1>7, <2>1, <2>2
  <1>10. InOrder(calls)
    <2> SUFFICES ASSUME NEW j \in DOMAIN calls, NEW k \in DOMAIN calls, j < k,
                        NEW v \in GlobalPlaces(program), NEW w \in GlobalPlaces(program),
                        Adds(calls[j], v), Adds(calls[k], w)
                 PROVE  Before(v, w)
      BY DEF InOrder
    <2>1. v = <<i, j - 1>> /\ w = <<i, k - 1>> /\ j \in Nat /\ k \in Nat
      BY <1>5, <1>8
    <2>2. v[1] = w[1] /\ v[2] < w[2]
      BY <2>1
    <2> QED BY <2>2 DEF Before
  <1>11. ~AddsTo(Top, RootScope)
    BY <1>1 DEF AddsTo
  <1> QED BY <1>1, <1>4, <1>5, <1>9, <1>10, <1>11, GlobalsKept

(* The first call declares Int, before any global. *)
LEMMA IntDeclared ==
  ASSUME Inv, ErrorsInv, GlobalsInv, AddSymbol, Top = IntCall, DOMAIN Root = {}
  PROVE  GlobalsInv'
  <1>1. /\ work # << >> /\ program \in Programs
        /\ IntCall.scope = RootScope /\ IntCall.symbol = Symbol("Int", "builtin", NoNode)
        /\ IntCall.symbol.name = "Int" /\ RootScope \in ScopeIds
    BY AddEffect, InvParts DEF Inv, TypeOK, IntCall, AddSymbolCall, Symbol, TreeInv
  <1>2. PICK none : none = << >>
    OBVIOUS
  <1>3. Made(none) /\ DOMAIN none = {}
    BY <1>2, AddEffect
  <1>4. program' = program /\ Top = work[1] /\ 1 \in DOMAIN work
    BY <1>1, <1>3, WorkSplit
  <1>5. PICK id : Enters(id)
    <2>1. ~Repeats
      BY <1>1 DEF Repeats, Root
    <2> QED BY <2>1, AddCases
  <1>6. /\ \A w \in GlobalPlaces(program) : ~Adds(Top, w) /\ AwaitedIn(work, w)
    <2>1. IntCall.call # "register"
      BY DEF IntCall, AddSymbolCall
    <2> QED BY <1>1, <2>1, DeclareCalls DEF Adds, GlobalsInv
  <1>7. \A w \in GlobalPlaces(program) : AwaitedIn(work', w)
    BY <1>1, <1>3, <1>4, <1>6, AwaitedAfter DEF AwaitedIn
  <1>8. InOrder(work')
    <2>1. InOrder(none)
      BY <1>3 DEF InOrder
    <2> QED BY <1>1, <1>3, <2>1, OrderAfter DEF GlobalsInv
  <1>9. \A k \in DOMAIN work' : AddsTo(work'[k], RootScope) =>
          \E w \in GlobalPlaces(program) : work'[k] = DeclareCall(w)
    BY <1>1, <1>3, CallsAfter DEF GlobalsInv
  <1>10. PICK A : A = AwaitedPlaces(work')
    OBVIOUS
  <1>11. GlobalPlaces(program) \ A = {}
    BY <1>7, <1>10 DEF AwaitedPlaces
  <1>12. /\ scopes'[RootScope].symbols = Put(Root, "Int", id)
         /\ symbols'[id] = Symbol("Int", "builtin", NoNode)
    BY <1>1, <1>5 DEF Enters, Root
  <1>13. DOMAIN scopes'[RootScope].symbols = {"Int"} /\ scopes'[RootScope].symbols["Int"] = id
    BY <1>12 DEF Put
  <1>14. symbols'[id] = SymbolOf("Int", Global(program, "Int"))
    BY <1>1, <1>12, GlobalOf DEF SymbolOf
  <1>15. RootHolds(A)'
    BY <1>4, <1>11, <1>13, <1>14 DEF RootHolds, Root
  <1> QED BY <1>4, <1>7, <1>8, <1>9, <1>10, <1>13, <1>15, GlobalsNext

(* The place whose turn it is: those before it are no longer awaited.      *)
LEMMA TurnOf ==
  ASSUME Inv, GlobalsInv, work # << >>, NEW u \in GlobalPlaces(program), Top = DeclareCall(u)
  PROVE  /\ \A w \in GlobalPlaces(program) : ~AwaitedIn(work, w) <=> Before(w, u)
         /\ "Int" \in DOMAIN Root
         /\ \A w \in GlobalPlaces(program) :
              (\E k \in DOMAIN work \ {1} : Adds(work[k], w)) <=> AwaitedIn(work, w) /\ w # u
  <1>1. /\ program \in Programs /\ work \in Seq(Calls) /\ 1 \in DOMAIN work /\ Top = work[1]
        /\ DOMAIN work \subseteq Nat \ {0}
    BY DEF Inv, TypeOK, Top
  <1>2. Adds(Top, u) /\ AwaitedIn(work, u)
    BY <1>1 DEF Adds, AwaitedIn
  <1>3. \A w \in GlobalPlaces(program) : Adds(Top, w) <=> w = u
    BY <1>1, DeclareCalls DEF Adds
  <1>4. \A k \in DOMAIN work \ {1} : \A w \in GlobalPlaces(program) :
          Adds(work[k], w) => Before(u, w)
    <2> TAKE k \in DOMAIN work \ {1}
    <2>1. 1 < k
      BY <1>1
    <2> QED BY <1>1, <1>2, <2>1 DEF GlobalsInv, InOrder
  <1>5. ASSUME NEW w \in GlobalPlaces(program)
        PROVE  /\ Before(w, u) => ~AwaitedIn(work, w)
               /\ ~AwaitedIn(work, w) => Before(w, u)
               /\ (\E k \in DOMAIN work \ {1} : Adds(work[k], w)) <=> AwaitedIn(work, w) /\ w # u
    <2>1. ~Before(u, u) /\ (u = w \/ Before(u, w) \/ Before(w, u))
          /\ ~(Before(u, w) /\ Before(w, u)) /\ ~Before(w, w)
      BY <1>1, BeforeOrder
    <2>2. Before(w, u) => ~AwaitedIn(work, w)
      BY <1>1, <1>3, <1>4, <2>1 DEF AwaitedIn
    <2>3. ~AwaitedIn(work, w) => Before(w, u)
      BY <1>2, <2>1 DEF GlobalsInv
    <2>4. (\E k \in DOMAIN work \ {1} : Adds(work[k], w)) <=> AwaitedIn(work, w) /\ w # u
      BY <1>1, <1>3, <1>4, <2>1 DEF AwaitedIn
    <2> QED BY <2>2, <2>3, <2>4
  <1>6. "Int" \in DOMAIN Root
    BY <1>1, DeclareCalls DEF GlobalsInv
  <1> QED BY <1>5, <1>6

(* A global that is declared is the first one of its name, or repeats one. *)
LEMMA GlobalDeclared ==
  ASSUME Inv, ErrorsInv, GlobalsInv, AddSymbol,
         NEW u \in GlobalPlaces(program), Top = DeclareCall(u)
  PROVE  GlobalsInv'
  <1>1. work # << >> /\ program \in Programs /\ RootScope \in ScopeIds
    BY AddEffect, InvParts DEF Inv, TypeOK, TreeInv
  <1>2. PICK none : none = << >>
    OBVIOUS
  <1>3. Made(none) /\ DOMAIN none = {}
    BY <1>2, AddEffect
  <1>4. program' = program
    BY <1>1, <1>3, WorkSplit
  <1>5. PICK name : name = NameAt(program, u)
    OBVIOUS
  <1>6. /\ Top.scope = RootScope /\ Top.symbol.name = name
        /\ Top.symbol = SymbolOf(name, GlobalAt(program, u))
    BY <1>1, <1>5, DeclareCalls
  <1>7. /\ \A w \in GlobalPlaces(program) : ~AwaitedIn(work, w) <=> Before(w, u)
        /\ "Int" \in DOMAIN Root
        /\ \A w \in GlobalPlaces(program) :
             (\E k \in DOMAIN work \ {1} : Adds(work[k], w)) <=> AwaitedIn(work, w) /\ w # u
    BY <1>1, TurnOf
  <1>8. \A w \in GlobalPlaces(program) : AwaitedIn(work', w) <=> AwaitedIn(work, w) /\ w # u
    BY <1>1, <1>3, <1>7, AwaitedAfter DEF AwaitedIn
  <1>9. InOrder(work')
    <2>1. InOrder(none)
      BY <1>3 DEF InOrder
    <2> QED BY <1>1, <1>3, <2>1, OrderAfter DEF GlobalsInv
  <1>10. ASSUME NEW v \in GlobalPlaces(program), NEW w \in GlobalPlaces(program),
                Before(v, w), AwaitedIn(work', v)
         PROVE  AwaitedIn(work', w)
    <2>1. AwaitedIn(work, v) /\ v # u /\ AwaitedIn(work, w)
      BY <1>8, <1>10 DEF GlobalsInv
    <2>2. ~Before(v, u)
      BY <1>7, <2>1
    <2> QED BY <1>8, <1>10, <2>1, <2>2
  <1>11. \A k \in DOMAIN work' : AddsTo(work'[k], RootScope) =>
           \E w \in GlobalPlaces(program) : work'[k] = DeclareCall(w)
    BY <1>1, <1>3, CallsAfter DEF GlobalsInv
  <1>12. PICK A, B : A = AwaitedPlaces(work') /\ B = AwaitedPlaces(work)
    OBVIOUS
  <1>13. /\ \A w \in GlobalPlaces(program) \ A : w = u \/ w \in GlobalPlaces(program) \ B
         /\ GlobalPlaces(program) \ B \subseteq GlobalPlaces(program) \ A
         /\ u \in GlobalPlaces(program) \ A
    BY <1>8, <1>12 DEF AwaitedPlaces
  <1>14. /\ \A x \in DOMAIN Root :
              /\ symbols[Root[x]] = SymbolOf(x, Global(program, x))
              /\ x = "Int" \/ \E w \in GlobalPlaces(program) \ B : NameAt(program, w) = x
         /\ \A w \in GlobalPlaces(program) \ B :
              /\ NameAt(program, w) \in DOMAIN Root
              /\ Ok => Global(program, NameAt(program, w)).declaration = DeclaredAt(program, w)
    BY <1>12 DEF GlobalsInv, RootHolds
  <1>15. KeepsSymbols /\ \A x \in DOMAIN Root : Root[x] \in SymbolIds
    BY AddCases, InvParts DEF TreeInv, Root
  <1>16. CASE Repeats
    <2>1. scopes'[RootScope].symbols = Root /\ symbols' = symbols /\ ~Ok' /\ name \in DOMAIN Root
      BY <1>6, <1>16 DEF Repeats, tree, Root
    <2>2. RootHolds(A)'
      BY <1>4, <1>5, <1>13, <1>14, <2>1 DEF RootHolds, Root
    <2> QED BY <1>4, <1>7, <1>9, <1>10, <1>11, <1>12, <2>1, <2>2, GlobalsNext
  <1>17. CASE \E id : Enters(id)
    <2>1. PICK id : Enters(id)
      BY <1>17
    <2>2. /\ name \notin DOMAIN Root /\ symbols'[id] = SymbolOf(name, GlobalAt(program, u))
          /\ scopes'[RootScope].symbols = Put(Root, name, id)
      BY <1>1, <1>6, <2>1 DEF Enters, Root
    <2>3. /\ DOMAIN scopes'[RootScope].symbols = DOMAIN Root \cup {name}
          /\ scopes'[RootScope].symbols[name] = id
          /\ \A x \in DOMAIN Root : scopes'[RootScope].symbols[x] = Root[x]
      BY <2>2 DEF Put
    <2>4. First(program, u, name)
      <3>1. ASSUME NEW v \in GlobalPlaces(program), NameAt(program, v) = name
            PROVE  v = u \/ Before(u, v)
        <4>1. ~Before(v, u)
          <5>1. Before(v, u) => v \in GlobalPlaces(program) \ B
            BY <1>7, <1>12 DEF AwaitedPlaces
          <5> QED BY <1>14, <2>2, <3>1, <5>1
        <4> QED BY <1>1, <4>1, BeforeOrder
      <3> QED BY <1>5, <3>1 DEF First
    <2>5. Global(program, name) = GlobalAt(program, u)
      BY <1>1, <1>7, <2>2, <2>4, GlobalOf
    <2>6. Global(program, name).declaration = DeclaredAt(program, u)
      BY <2>5 DEF GlobalAt
    <2>7. ASSUME NEW x \in DOMAIN scopes'[RootScope].symbols
          PROVE  /\ symbols'[scopes'[RootScope].symbols[x]] = SymbolOf(x, Global(program, x))
                 /\ x = "Int" \/ \E w \in GlobalPlaces(program) \ A : NameAt(program, w) = x
      <3>1. CASE x = name
        BY <1>5, <1>13, <2>2, <2>3, <2>5, <3>1
      <3>2. CASE x \in DOMAIN Root
        BY <1>13, <1>14, <1>15, <2>3, <3>2 DEF KeepsSymbols
      <3> QED BY <2>3, <3>1, <3>2
    <2>8. \A w \in GlobalPlaces(program) \ A :
            /\ NameAt(program, w) \in DOMAIN scopes'[RootScope].symbols
            /\ Ok' => Global(program, NameAt(program, w)).declaration = DeclaredAt(program, w)
      BY <1>5, <1>13, <1>14, <1>15, <2>3, <2>6 DEF KeepsSymbols
    <2>9. RootHolds(A)'
      BY <1>4, <2>7, <2>8 DEF RootHolds, Root
    <2>10. "Int" \in DOMAIN scopes'[RootScope].symbols
      BY <1>7, <2>3
    <2> QED BY <1>4, <1>9, <1>10, <1>11, <1>12, <2>9, <2>10, GlobalsNext
  <1> QED BY <1>16, <1>17, AddCases

(* A step whose calls declare no global and that leaves the root scope. *)
LEMMA GlobalsAside ==
  ASSUME Inv, ErrorsInv, GlobalsInv, [Next]_vars, work # << >>, NEW calls, Made(calls),
         KeepsScope(RootScope), KeepsSymbols,
         ~AddsTo(Top, RootScope), Top.call # "register",
         \A k \in DOMAIN calls : ~AddsTo(calls[k], RootScope) /\ calls[k].call # "register"
  PROVE  GlobalsInv'
  <1>1. program \in Programs
    BY DEF Inv, TypeOK
  <1>2. \A w \in GlobalPlaces(program) : AddsTo(DeclareCall(w), RootScope)
    BY <1>1, DeclareCalls DEF AddsTo
  <1>3. /\ \A w \in GlobalPlaces(program) : ~Adds(Top, w)
        /\ \A w \in GlobalPlaces(program) : \A k \in DOMAIN calls : ~Adds(calls[k], w)
    BY <1>2 DEF Adds
  <1>4. InOrder(calls) /\ \A w \in GlobalPlaces(program) : ~AwaitedIn(calls, w)
    BY <1>3 DEF InOrder, AwaitedIn
  <1> QED BY <1>3, <1>4, GlobalsKept

(* Every step keeps the globals in order. *)
LEMMA StepGlobals == Inv /\ ErrorsInv /\ GlobalsInv /\ [Next]_vars => GlobalsInv'
  <1> SUFFICES ASSUME Inv, ErrorsInv, GlobalsInv, [Next]_vars PROVE GlobalsInv'
    OBVIOUS
  <1>0. /\ Ok' => Ok
        /\ RootScope \in ScopeIds /\ TreeInv
    BY StepErrors, InvParts DEF TreeInv
  <1>a. PICK none : none = << >>
    OBVIOUS
  <1>b. DOMAIN none = {}
    BY <1>a
  <1>1. CASE UNCHANGED vars
    <2>0. /\ program' = program /\ work' = work /\ scopes' = scopes /\ symbols' = symbols
          /\ diagnostics' = diagnostics
      BY <1>1 DEF vars
    <2>1. /\ \A w : DeclareCall(w)' = DeclareCall(w)
          /\ \A c, w : Adds(c, w)' <=> Adds(c, w)
      BY <2>0 DEF DeclareCall, NameAt, GlobalAt, Adds
    <2>2. (\A w : AwaitedIn(work, w)' <=> AwaitedIn(work, w)) /\ InOrder(work)'
      BY <2>0, <2>1 DEF AwaitedIn, InOrder, GlobalsInv
    <2>3. PICK A : A = AwaitedPlaces(work)
      OBVIOUS
    <2>4. AwaitedPlaces(work)' = A
      BY <2>0, <2>2, <2>3 DEF AwaitedPlaces
    <2>5. RootHolds(A)'
      BY <2>0, <2>3 DEF GlobalsInv, RootHolds, Root, NameAt, Ok
    <2>6. RootHolds(AwaitedPlaces(work))'
      BY <2>4, <2>5 DEF RootHolds
    <2>7. Root' = Root /\ Top' = Top
      BY <2>0 DEF Root, Top
    <2> QED BY <2>0, <2>1, <2>2, <2>6, <2>7 DEF GlobalsInv, AddsTo
  <1>2. CASE AddSymbol
    <2>1. /\ work # << >> /\ Made(none) /\ Top.call = "addSymbol" /\ Top = work[1]
          /\ 1 \in DOMAIN work
      BY <1>2, <1>a, AddEffect, WorkSplit
    <2>2. CASE AddsTo(Top, RootScope)
      BY <1>2, <2>1, <2>2, IntDeclared, GlobalDeclared DEF GlobalsInv
    <2>3. CASE ~AddsTo(Top, RootScope)
      <3>1. KeepsScope(RootScope) /\ KeepsSymbols
        BY <1>0, <1>2, <2>1, <2>3, AddCases DEF AddsTo
      <3> QED BY <1>b, <2>1, <2>3, <3>1, GlobalsAside
    <2> QED BY <2>2, <2>3
  <1>3. ASSUME work # << >>, NEW calls, Made(calls), UNCHANGED <<scopes, symbols>>,
               Top.call \notin {"addSymbol", "register"},
               \A k \in DOMAIN calls : calls[k].call \notin {"addSymbol", "register"}
        PROVE  GlobalsInv'
    <2>1. KeepsScope(RootScope) /\ KeepsSymbols /\ ~AddsTo(Top, RootScope)
      BY <1>0, <1>3 DEF KeepsScope, KeepsSymbols, AddsTo
    <2> QED BY <1>3, <2>1, GlobalsAside DEF AddsTo
  <1>4. CASE work # << >> /\ \E i, calls : Registers(i, calls)
    BY <1>4, RegisterGlobals
  <1>5. CASE work # << >> /\ (Checks \/ Skips)
    <2>1. /\ Made(none) /\ UNCHANGED <<scopes, symbols>>
          /\ Top.call \notin {"addSymbol", "register"}
      BY <1>5, <1>a DEF Checks, Skips, tree
    <2> QED BY <1>3, <1>5, <1>b, <2>1
  <1>6. CASE work # << >> /\ \E calls : Walks(calls)
    <2>1. PICK calls : Walks(calls)
      BY <1>6
    <2>2. /\ Made(calls) /\ UNCHANGED <<scopes, symbols>>
          /\ Top.call \notin {"addSymbol", "register"}
          /\ \A k \in DOMAIN calls : calls[k].call \notin {"addSymbol", "register"}
      BY <2>1 DEF Walks
    <2> QED BY <1>3, <1>6, <2>2
  <1>7. CASE work # << >> /\ \E outer, calls : Opens(outer, calls)
    <2>1. PICK outer, calls : Opens(outer, calls)
      BY <1>7
    <2>2. /\ CreateScope(outer, Top.node) /\ Made(calls) /\ symbols' = symbols
          /\ outer \in ScopeIds /\ Top.node \in NodeIds(program)
          /\ Top.call \notin {"addSymbol", "register"} /\ program' = program
      BY <1>7, <2>1, WorkSplit DEF Opens, OfKind
    <2>3. KeepsScope(RootScope) /\ NewScope # RootScope
      BY <1>0, <2>2, CreateOwners, CreateChanges DEF KeepsScope
    <2>4. ASSUME NEW k \in DOMAIN calls
          PROVE  ~AddsTo(calls[k], RootScope) /\ calls[k].call # "register"
      <3>1. PICK n : n = Len(LocalNames(program, Top.node))
        OBVIOUS
      <3>2. /\ n \in Nat /\ DOMAIN calls = 1..(n + 1)
            /\ \A j \in 1..n : calls[j].scope = NewScope /\ calls[j].call = "addSymbol"
            /\ calls[n + 1].scope = NewScope /\ calls[n + 1].call = "bindExpression"
        BY <1>7, <2>1, <3>1, OpenCalls
      <3>3. k \in 1..n \/ k = n + 1
        BY <3>2
      <3>4. calls[k].scope = NewScope /\ calls[k].call # "register"
        BY <3>2, <3>3
      <3> QED BY <2>3, <3>4 DEF AddsTo
    <2>5. KeepsSymbols /\ ~AddsTo(Top, RootScope) /\ Top.call # "register"
      BY <1>0, <2>2 DEF KeepsSymbols, AddsTo
    <2> QED BY <1>7, <2>2, <2>3, <2>4, <2>5, GlobalsAside
  <1> QED BY <1>1, <1>2, <1>4, <1>5, <1>6, <1>7, StepSorts

(* A constructor has an upper-case name. *)
LEMMA UpperConstructor ==
  ASSUME NEW p \in Programs, NEW name
  PROVE  Global(p, name).kind = "constructor" => name \in UpperNames
  <1> SUFFICES ASSUME Global(p, name).kind = "constructor" PROVE name \in UpperNames
    OBVIOUS
  <1>1. Global(p, name) # None /\ name # "Int"
    BY GlobalOf DEF None
  <1>2. PICK w : First(p, w, name)
    BY <1>1, GlobalOf
  <1>3. Global(p, name) = GlobalAt(p, w)
    BY <1>1, <1>2, GlobalOf
  <1>4. p.nodes[DeclaredAt(p, w)].kind = "constructor"
    BY <1>3 DEF GlobalAt
  <1>5. w \in GlobalPlaces(p) /\ p.nodes[DeclaredAt(p, w)].name = name
    BY <1>2 DEF First, NameAt
  <1>6. DeclaredAt(p, w) \in NodeIds(p)
    BY <1>5, PlaceFacts DEF OfKind
  <1>7. IsNode(p, DeclaredAt(p, w))
    BY <1>6, ProgramFacts
  <1> QED BY <1>4, <1>5, <1>7 DEF IsNode

-----------------------------------------------------------------------------
(* Nothing is left to declare. *)
Settled == \A k \in DOMAIN work : work[k].call \notin {"addSymbol", "register"}

(* So it is once a call of a later pass runs, as passes do not mix. *)
LEMMA SettledBelow ==
  ASSUME Inv, OrderInv, work # << >> => Level(Top) >= 1
  PROVE  Settled
  <1> SUFFICES ASSUME NEW k \in DOMAIN work PROVE work[k].call \notin {"addSymbol", "register"}
    BY DEF Settled
  <1>1. work \in Seq(Calls)
    BY DEF Inv, TypeOK
  <1>2. 1 \in DOMAIN work /\ 1 <= k /\ Top = work[1] /\ work # << >>
    BY <1>1 DEF Top
  <1>3. Level(work[1]) <= Level(work[k]) /\ Level(work[1]) >= 1
    BY <1>2 DEF OrderInv
  <1> QED BY <1>3 DEF Level

(* Then every scope has all of its names. *)
LEMMA SettledScopes ==
  ASSUME Inv, OwnersInv, LocalsInv, GlobalsInv, Settled
  PROVE  /\ \A s \in ScopeIds \ {RootScope} : Complete(s)
         /\ \A w \in GlobalPlaces(program) : ~AwaitedIn(work, w)
         /\ "Int" \in DOMAIN Root
         /\ RootHolds({})
  <1>1. work \in Seq(Calls) /\ program \in Programs
    BY DEF Inv, TypeOK
  <1>2. work # << >> => 1 \in DOMAIN work /\ Top = work[1]
    BY <1>1 DEF Top
  <1>3. \A s \in ScopeIds \ {RootScope} : Complete(s)
    BY <1>2, IsComplete DEF Settled, AddsTo
  <1>4. \A w \in GlobalPlaces(program) : ~AwaitedIn(work, w)
    BY <1>1, DeclareCalls DEF Settled, AwaitedIn, Adds
  <1>5. IntCall.call = "addSymbol"
    BY DEF IntCall, AddSymbolCall
  <1>6. "Int" \in DOMAIN Root
    BY <1>2, <1>5 DEF GlobalsInv, Settled
  <1>7. AwaitedPlaces(work) = {}
    BY <1>4 DEF AwaitedPlaces
  <1> QED BY <1>3, <1>4, <1>6, <1>7 DEF GlobalsInv

(* A global is found in the root scope as what it means. *)
LEMMA RootLookup ==
  ASSUME Inv, OwnersInv, LocalsInv, GlobalsInv, Settled, NEW name
  PROVE  /\ GetLocalSymbolId(RootScope, name) = NoSymbol => Global(program, name) = None
         /\ GetLocalSymbolId(RootScope, name) # NoSymbol =>
              /\ GetLocalSymbolId(RootScope, name) \in SymbolIds
              /\ symbols[GetLocalSymbolId(RootScope, name)] =
                   SymbolOf(name, Global(program, name))
  <1>1. RootHolds({}) /\ "Int" \in DOMAIN Root /\ program \in Programs
    BY SettledScopes DEF Inv, TypeOK
  <1>2. CASE name \in DOMAIN Root
    <2>1. /\ GetLocalSymbolId(RootScope, name) = Root[name]
          /\ Root[name] \in SymbolIds
          /\ symbols[Root[name]] = SymbolOf(name, Global(program, name))
      BY <1>1, <1>2, InvParts DEF GetLocalSymbolId, Root, TreeInv, RootHolds
    <2>2. Root[name] # NoSymbol
      BY <2>1 DEF SymbolIds, NoSymbol
    <2> QED BY <2>1, <2>2
  <1>3. CASE name \notin DOMAIN Root
    <2>1. GetLocalSymbolId(RootScope, name) = NoSymbol
      BY <1>3 DEF GetLocalSymbolId, Root
    <2>2. name # "Int" /\ \A w \in GlobalPlaces(program) : NameAt(program, w) # name
      BY <1>1, <1>3 DEF RootHolds
    <2> QED BY <1>1, <2>1, <2>2, GlobalOf
  <1> QED BY <1>2, <1>3

(* A scope's own names are found in it as what they mean. *)
LEMMA LocalLookup ==
  ASSUME Inv, OwnersInv, LocalsInv, GlobalsInv, Settled, NEW s \in ScopeIds \ {RootScope},
         NEW name
  PROVE  /\ GetLocalSymbolId(s, name) # NoSymbol <=> Declares(program, scopes[s].owner, name)
         /\ GetLocalSymbolId(s, name) # NoSymbol =>
              symbols[GetLocalSymbolId(s, name)] = SymbolOf(name, Local(program, scopes[s].owner))
  <1>1. PICK n, N : n = scopes[s].owner /\ N = Len(LocalNames(program, n))
    OBVIOUS
  <1>2. program \in Programs /\ n \in NodeIds(program)
    BY <1>1 DEF Inv, TypeOK, OwnersInv, Inside, OfKind
  <1>3. DeclaredIn(s, n, N)
    BY <1>1, SettledScopes DEF Complete
  <1>4. DOMAIN LocalNames(program, n) = 1..N
    BY <1>1, <1>2, LocalNamesOf
  <1>5. name \in DOMAIN scopes[s].symbols <=> Declares(program, n, name)
    BY <1>3, <1>4 DEF DeclaredIn, Declares
  <1>6. CASE name \in DOMAIN scopes[s].symbols
    <2>1. /\ GetLocalSymbolId(s, name) = scopes[s].symbols[name]
          /\ scopes[s].symbols[name] \in SymbolIds
          /\ symbols[scopes[s].symbols[name]] = SymbolOf(name, Local(program, n))
      BY <1>3, <1>6, InvParts DEF GetLocalSymbolId, TreeInv, DeclaredIn
    <2>2. scopes[s].symbols[name] # NoSymbol
      BY <2>1 DEF SymbolIds, NoSymbol
    <2> QED BY <1>1, <1>5, <1>6, <2>1, <2>2
  <1>7. CASE name \notin DOMAIN scopes[s].symbols
    BY <1>1, <1>5, <1>7 DEF GetLocalSymbolId
  <1> QED BY <1>6, <1>7

(***************************************************************************)
(* getResolvedSymbolId finds the innermost declaration around a scope.     *)
(***************************************************************************)
LEMMA Lookup ==
  ASSUME Inv, OwnersInv, LocalsInv, GlobalsInv, Settled, NEW s \in ScopeIds, NEW name
  PROVE  LET id == GetResolvedSymbolId(s, name)
             meaning == Meaning(program, scopes[s].owner, name)
         IN  /\ id = NoSymbol => meaning = None
             /\ id # NoSymbol => symbols[id] = SymbolOf(name, meaning)
             /\ meaning.kind = "constructor" => name \in UpperNames
  <1>1. PICK g : /\ GetResolvedSymbolId(s, name) = g[s]
                 /\ g[NoScope] = NoSymbol
                 /\ \A c \in ScopeIds :
                      g[c] = IF GetLocalSymbolId(c, name) # NoSymbol
                             THEN GetLocalSymbolId(c, name) ELSE g[scopes[c].parent]
    BY SearchFrom
  <1>2. /\ program \in Programs /\ RootScope \in ScopeIds /\ ScopeIds \subseteq Nat
        /\ scopes[RootScope].parent = NoScope /\ scopes[RootScope].owner = NoNode
        /\ \A c \in ScopeIds \ {RootScope} : /\ scopes[c].parent \in ScopeIds
                                             /\ ~(c <= scopes[c].parent)
    <2>1. /\ program \in Programs /\ RootScope \in ScopeIds /\ ScopeIds = 1..Len(scopes)
          /\ Len(scopes) \in Nat /\ scopes[RootScope].owner = NoNode
          /\ scopes[RootScope].parent = NoScope
          /\ \A c \in ScopeIds \ {RootScope} : scopes[c].parent \in 1..(c - 1)
      BY DEF Inv, TypeOK, ScopesFormTree, ScopeIds, OwnersInv
    <2> QED BY <2>1
  <1> DEFINE M(c) == Meaning(program, scopes[c].owner, name)
             Right(c) == /\ g[c] = NoSymbol => M(c) = None
                         /\ g[c] # NoSymbol => symbols[g[c]] = SymbolOf(name, M(c))
                         /\ M(c).kind = "constructor" => name \in UpperNames
             Wrong == {c \in ScopeIds : ~Right(c)}
  <1>3. Right(RootScope)
    <2>1. M(RootScope) = Global(program, name)
      BY <1>2, MeaningOf
    <2>2. g[RootScope] = GetLocalSymbolId(RootScope, name)
      BY <1>1, <1>2
    <2> HIDE DEF M
    <2> QED BY <1>2, <2>1, <2>2, RootLookup, UpperConstructor
  <1>4. ASSUME NEW c \in ScopeIds \ {RootScope}, Right(scopes[c].parent) PROVE Right(c)
    <2>1. PICK n, b : n = scopes[c].owner /\ b = scopes[c].parent
      OBVIOUS
    <2>2. n \in NodeIds(program) /\ scopes[b].owner = Encloser(program, Parent(program, n))
      BY <2>1 DEF OwnersInv, Inside, OfKind
    <2>3. CASE Declares(program, n, name)
      <3>1. M(c) = Local(program, n)
        BY <1>2, <2>1, <2>2, <2>3, MeaningOf
      <3>2. /\ GetLocalSymbolId(c, name) # NoSymbol
            /\ symbols[GetLocalSymbolId(c, name)] = SymbolOf(name, Local(program, n))
        BY <2>1, <2>3, LocalLookup
      <3>3. Local(program, n).kind # "constructor"
        BY DEF Local
      <3> HIDE DEF M
      <3> QED BY <1>1, <3>1, <3>2, <3>3
    <2>4. CASE ~Declares(program, n, name)
      <3>1. M(c) = Meaning(program, Parent(program, n), name)
        BY <1>2, <2>1, <2>2, <2>4, MeaningOf
      <3>2. Parent(program, n) \in NodeIds(program) \cup {NoNode}
        BY <1>2, <2>2, ParentOf
      <3>3. M(c) = M(b)
        BY <1>2, <2>2, <3>1, <3>2, EncloserMeans
      <3>4. GetLocalSymbolId(c, name) = NoSymbol
        BY <2>1, <2>4, LocalLookup
      <3>5. g[c] = g[b]
        BY <1>1, <2>1, <3>4
      <3>6. Right(b)
        BY <1>4, <2>1
      <3> HIDE DEF M
      <3> QED BY <3>3, <3>5, <3>6
    <2> QED BY <2>3, <2>4
  <1>5. ASSUME Wrong # {} PROVE FALSE
    <2>1. Wrong \in SUBSET Nat
      BY <1>2
    <2>2. PICK c \in Wrong : \A m \in Wrong : c <= m
      <3> HIDE DEF Wrong
      <3> QED BY <1>5, <2>1, LeastElement
    <2>3. c \in ScopeIds \ {RootScope} /\ ~Right(c)
      <3> HIDE DEF Right
      <3> QED BY <1>3
    <2>4. scopes[c].parent \in ScopeIds /\ ~(c <= scopes[c].parent)
      BY <1>2, <2>3
    <2>5. Right(scopes[c].parent)
      <3> HIDE DEF Right
      <3> QED BY <2>2, <2>4
    <2> HIDE DEF Right
    <2> QED BY <1>4, <2>3, <2>5
  <1>6. Right(s)
    <2> HIDE DEF Right
    <2> QED BY <1>5
  <1> QED BY <1>1, <1>6

-----------------------------------------------------------------------------
(***************************************************************************)
(* What has been bound so far is resolved to what it means, and there is a *)
(* diagnostic only if the program is not well scoped.                      *)
(***************************************************************************)
VariableOk(n) ==
  LET name    == program.nodes[n].name
      meaning == Meaning(program, n, name)
  IN  IF Usable(name, meaning)
      THEN n \in DOMAIN resolved /\ symbols[resolved[n]] = SymbolOf(name, meaning)
      ELSE n \notin DOMAIN resolved /\ ~Ok

PatternOk(n) ==
  Ok => /\ n \in DOMAIN resolved /\ symbols[resolved[n]].kind = "constructor"
        /\ Global(program, program.nodes[n].name).kind = "constructor"

UsedRight(n) ==
  /\ program.nodes[n].kind = "variable" => VariableOk(n)
  /\ program.nodes[n].kind = "constructor_pattern" => PatternOk(n)

UsesInv ==
  /\ \A n \in DOMAIN scopeByNode : UsedRight(n)
  /\ ~Ok => ~WellScoped(program)

(* A step that binds the nodes new, and resolves no other. *)
LEMMA UsesKept ==
  ASSUME Inv, UsesInv, KeepsSymbols, program' = program,
         \A n \in DOMAIN resolved : n \in DOMAIN resolved' /\ resolved'[n] = resolved[n],
         \A n \in DOMAIN resolved' \ DOMAIN resolved : n \notin DOMAIN scopeByNode,
         NEW new, DOMAIN scopeByNode' = DOMAIN scopeByNode \cup new,
         \A n \in new : UsedRight(n)',
         ~Ok' => ~Ok \/ ~WellScoped(program)
  PROVE  UsesInv'
  <1>1. \A n \in DOMAIN resolved : resolved[n] \in SymbolIds
    BY DEF Inv, TypeOK
  <1>2. ASSUME NEW n \in DOMAIN scopeByNode PROVE UsedRight(n)'
    <2>1. /\ n \in DOMAIN resolved' <=> n \in DOMAIN resolved
          /\ n \in DOMAIN resolved => symbols'[resolved'[n]] = symbols[resolved[n]]
      BY <1>1, <1>2 DEF KeepsSymbols
    <2>2. UsedRight(n)
      BY DEF UsesInv
    <2>3. program.nodes[n].kind = "variable" => VariableOk(n)'
      BY <2>1, <2>2 DEF UsedRight, VariableOk, KeepsSymbols
    <2>4. program.nodes[n].kind = "constructor_pattern" => PatternOk(n)'
      BY <2>1, <2>2 DEF UsedRight, PatternOk, KeepsSymbols
    <2> QED BY <2>3, <2>4 DEF UsedRight
  <1> QED BY <1>2 DEF UsesInv

(* A step that binds nodes that use no name. *)
LEMMA NothingUsed ==
  ASSUME Inv, UsesInv, program' = program, UNCHANGED <<symbols, resolved, diagnostics>>,
         NEW new, DOMAIN scopeByNode' = DOMAIN scopeByNode \cup new,
         \A n \in new : program.nodes[n].kind \notin {"variable", "constructor_pattern"}
  PROVE  UsesInv'
  <1>1. KeepsSymbols /\ (~Ok' => ~Ok)
    BY DEF KeepsSymbols, Ok
  <1>2. \A n \in new : UsedRight(n)'
    BY DEF UsedRight
  <1> QED BY <1>1, <1>2, UsesKept

(* A repeated declaration is an error of the program. *)
LEMMA RepeatIsAnError ==
  ASSUME Inv, OwnersInv, LocalsInv, GlobalsInv, AddSymbol, Repeats
  PROVE  ~WellScoped(program)
  <1>1. /\ work # << >> /\ Top.call = "addSymbol" /\ Top.scope \in ScopeIds
        /\ program \in Programs /\ 1 \in DOMAIN work /\ Top = work[1]
        /\ Top.symbol.name \in DOMAIN scopes[Top.scope].symbols
    <2>1. /\ work # << >> /\ Top.call = "addSymbol" /\ Top.scope \in ScopeIds /\ Made(<< >>)
      BY AddEffect
    <2> QED BY <2>1, WorkSplit DEF Repeats, Inv, TypeOK
  <1>2. CASE Top.scope # RootScope
    <2>1. PICK s : s = Top.scope /\ s \in ScopeIds \ {RootScope}
      BY <1>1, <1>2
    <2>2. PICK n, m :
             /\ n \in NodeIds(program)
             /\ m \in Nat /\ m + 1 \in 1..Len(LocalNames(program, n))
             /\ DeclaredIn(s, n, m)
             /\ Top.symbol.name = LocalNames(program, n)[m + 1]
      BY <1>1, <2>1, NextLocal DEF AddsTo
    <2>3. PICK names : names = LocalNames(program, n)
      OBVIOUS
    <2>4. names[m + 1] \in {names[i] : i \in 1..m}
      BY <1>1, <2>1, <2>2, <2>3 DEF DeclaredIn
    <2>5. PICK i \in 1..m : names[i] = names[m + 1]
      BY <2>4
    <2>6. DOMAIN names = 1..Len(names) /\ Len(names) \in Nat
      BY <1>1, <2>2, <2>3, LocalNamesOf
    <2>7. i \in DOMAIN names /\ m + 1 \in DOMAIN names /\ i # m + 1
      BY <2>2, <2>3, <2>6
    <2>8. ~NoRepeats(names)
      BY <2>5, <2>7 DEF NoRepeats
    <2> QED BY <2>2, <2>3, <2>8 DEF WellScoped
  <1>3. CASE Top.scope = RootScope
    <2>1. Top.symbol.name \in DOMAIN Root
      BY <1>1, <1>3 DEF Root
    <2>2. PICK u \in GlobalPlaces(program) : Top = DeclareCall(u)
      BY <1>1, <1>3, <2>1 DEF GlobalsInv, AddsTo
    <2>3. PICK name : name = NameAt(program, u) /\ name \in DOMAIN Root
      BY <1>1, <2>1, <2>2, DeclareCalls
    <2>4. Global(program, name).declaration # DeclaredAt(program, u)
      <3>1. CASE name = "Int"
        <4>1. Global(program, name).declaration = NoNode
          BY <1>1, <3>1, GlobalOf
        <4> QED BY <1>1, <4>1, DeclareCalls
      <3>2. CASE name # "Int"
        <4>1. PICK w \in GlobalPlaces(program) \ AwaitedPlaces(work) : NameAt(program, w) = name
          BY <2>3, <3>2 DEF GlobalsInv, RootHolds
        <4>2. Before(w, u)
          BY <1>1, <2>2, <4>1, TurnOf DEF AwaitedPlaces
        <4>3. PICK v : First(program, v, name)
          BY <1>1, <4>1, GlobalOf
        <4>4. Global(program, name).declaration = DeclaredAt(program, v)
          BY <1>1, <3>2, <4>3, GlobalOf DEF GlobalAt
        <4>5. v \in GlobalPlaces(program) /\ (w = v \/ Before(v, w))
          BY <4>1, <4>3 DEF First
        <4>6. v # u
          BY <1>1, <4>1, <4>2, <4>5, BeforeOrder
        <4> QED BY <1>1, <4>4, <4>5, <4>6, OneDeclaration
      <3> QED BY <3>1, <3>2
    <2> QED BY <2>2, <2>3, <2>4 DEF WellScoped, NameAt
  <1> QED BY <1>2, <1>3

(* A variable is accepted exactly when what its name means can be used. *)
LEMMA VariableErrors ==
  ASSUME NEW name, NEW id, NEW meaning,
         id = NoSymbol => meaning = None,
         id # NoSymbol => symbols[id] = SymbolOf(name, meaning),
         meaning.kind = "constructor" => name \in UpperNames
  PROVE  VariableError(name, id) = "none" <=> Usable(name, meaning)
  <1>1. CASE id = NoSymbol
    <2>1. VariableError(name, id) # "none" /\ meaning.kind = "none"
      BY <1>1 DEF VariableError, None
    <2> QED BY <2>1 DEF Usable
  <1>2. CASE id # NoSymbol
    <2>1. symbols[id].kind = meaning.kind
      <3>1. \A x, y : SymbolOf(x, y).kind = y.kind
        BY DEF SymbolOf, Symbol
      <3> QED BY <1>2, <3>1
    <2>2. CASE name \in UpperNames
      BY <1>2, <2>1, <2>2 DEF VariableError, Usable
    <2>3. CASE name \notin UpperNames
      BY <1>2, <2>1, <2>3 DEF VariableError, Usable, ValueKinds
    <2> QED BY <2>2, <2>3
  <1> QED BY <1>1, <1>2

(* getResolvedSymbolId finds what a variable means where it stands. *)
LEMMA VariableUsed ==
  ASSUME Inv, NodesAreBoundOnce, OrderInv, OwnersInv, ErrorsInv, LocalsInv, GlobalsInv, UsesInv,
         BindVariable
  PROVE  UsesInv'
  <1>1. PICK n, s, name, id, meaning :
          /\ n = Top.node /\ s = Top.scope /\ name = program.nodes[n].name
          /\ id = GetResolvedSymbolId(s, name) /\ meaning = Meaning(program, n, name)
    OBVIOUS
  <1>2. /\ work # << >> /\ Top.call = "bindExpression" /\ Node.kind = "variable"
        /\ program' = program /\ UNCHANGED <<scopes, symbols>>
        /\ DOMAIN scopeByNode' = DOMAIN scopeByNode \cup {n}
    BY <1>1 DEF BindVariable, Running, Then, Put
  <1>3. /\ program \in Programs /\ n \in NodeIds(program) /\ s \in ScopeIds
        /\ n \notin DOMAIN scopeByNode /\ n \notin DOMAIN resolved
        /\ program.nodes[n].kind = "variable" /\ 1 \in DOMAIN work /\ Top = work[1]
    <2>1. work \in Seq(Calls) /\ program \in Programs
      BY DEF Inv, TypeOK
    <2>2. 1 \in DOMAIN work /\ Top = work[1]
      BY <1>2, <2>1 DEF Top
    <2> QED BY <1>1, <1>2, <2>1, <2>2, RunningBinds, RunningCall DEF Node, OfKind
  <1>4. Settled
    <2>1. Level(Top) = 2
      BY <1>2 DEF Level
    <2> QED BY <2>1, SettledBelow
  <1>5. scopes[s].owner = Encloser(program, n)
    BY <1>1, <1>2, <1>3 DEF OwnersInv, OwnsCall
  <1>6. meaning = Meaning(program, scopes[s].owner, name)
    BY <1>1, <1>3, <1>5, EncloserMeans
  <1>7. /\ id = NoSymbol => meaning = None
        /\ id # NoSymbol => symbols[id] = SymbolOf(name, meaning)
        /\ meaning.kind = "constructor" => name \in UpperNames
    BY <1>1, <1>3, <1>4, <1>6, Lookup
  <1>8. /\ VariableError(name, id) = "none" <=> Usable(name, meaning)
        /\ VariableError(name, id) = "none" => id # NoSymbol
    BY <1>7, VariableErrors DEF VariableError
  <1>9. /\ VariableError(name, id) = "none" => resolved' = Put(resolved, n, id) /\ UNCHANGED diagnostics
        /\ VariableError(name, id) # "none" =>
             resolved' = resolved /\ \E x, what : AddError(x, what)
    BY <1>1 DEF BindVariable, Node
  <1>10. KeepsSymbols
    <2>1. Ok' => Ok
      BY StepErrors DEF Next
    <2> QED BY <1>2, <2>1 DEF KeepsSymbols
  <1>11. CASE Usable(name, meaning)
    <2>1. resolved' = Put(resolved, n, id) /\ UNCHANGED diagnostics
      BY <1>8, <1>9, <1>11
    <2>2. /\ DOMAIN resolved' = DOMAIN resolved \cup {n} /\ resolved'[n] = id
          /\ \A m \in DOMAIN resolved : resolved'[m] = resolved[m]
      BY <1>3, <2>1 DEF Put
    <2>3. symbols'[resolved'[n]] = SymbolOf(name, meaning)
      BY <1>2, <1>7, <1>8, <1>11, <2>2
    <2>4. VariableOk(n)'
      BY <1>1, <1>2, <1>11, <2>2, <2>3 DEF VariableOk
    <2>5. UsedRight(n)'
      BY <1>2, <1>3, <2>4 DEF UsedRight
    <2> QED BY <1>2, <1>3, <1>10, <2>1, <2>2, <2>5, UsesKept, ZenonT(40) DEF Ok
  <1>12. CASE ~Usable(name, meaning)
    <2>1. resolved' = resolved /\ ~Ok'
      BY <1>8, <1>9, <1>12, AddErrorKeeps
    <2>2. VariableOk(n)'
      BY <1>1, <1>2, <1>3, <1>12, <2>1 DEF VariableOk
    <2>3. UsedRight(n)'
      BY <1>2, <1>3, <2>2 DEF UsedRight
    <2>4. ~WellScoped(program)
      BY <1>1, <1>3, <1>12 DEF WellScoped, OfKind
    <2> QED BY <1>2, <1>3, <1>10, <2>1, <2>3, <2>4, UsesKept
  <1> QED BY <1>11, <1>12

(* bindConstructorPattern finds what its constructor means. *)
LEMMA PatternUsed ==
  ASSUME Inv, NodesAreBoundOnce, OrderInv, OwnersInv, ErrorsInv, LocalsInv, GlobalsInv, UsesInv,
         BindBranch
  PROVE  UsesInv'
  <1>1. PICK n, q, new, name, id :
          /\ n = Top.node /\ q = Node.pattern /\ new = {n, q} /\ name = program.nodes[q].name
          /\ id = GetLocalSymbolId(RootScope, name)
    OBVIOUS
  <1>2. /\ work # << >> /\ Top.call = "bindBranch"
        /\ program' = program /\ symbols' = symbols
        /\ DOMAIN scopeByNode' = DOMAIN scopeByNode \cup new
    BY <1>1 DEF BindBranch, Running, Then, Put
  <1>3. /\ program \in Programs /\ work \in Seq(Calls) /\ n \in OfKind(program, {"branch"})
        /\ n \in NodeIds(program) /\ program.nodes[n].kind = "branch"
        /\ Node = program.nodes[n]
    BY <1>1, <1>2, RunningCall DEF Inv, TypeOK, OfKind, Node
  <1>4. q \in OfKind(program, Patterns)
    BY <1>1, <1>3, BranchNode
  <1>5. q \notin DOMAIN scopeByNode /\ q \notin DOMAIN resolved
    <2>1. Children(program, n) = <<q, Node.body>>
      BY <1>1, <1>3 DEF Children
    <2>2. 1 \in DOMAIN Children(program, n) /\ Children(program, n)[1] = q
      BY <2>1
    <2>3. q \in OfKind(program, BoundKinds)
      BY <1>4 DEF OfKind, BoundKinds
    <2>4. Top.call \in BindCalls
      BY <1>2 DEF BindCalls
    <2>5. ~Met(q)
      BY <1>1, <1>2, <1>3, <2>2, <2>3, <2>4, NothingBelowIsMet
    <2> QED BY <2>5 DEF Met, NodesAreBoundOnce
  <1>6. Settled
    <2>1. Level(Top) = 2
      BY <1>2 DEF Level
    <2> QED BY <2>1, SettledBelow
  <1>7. /\ id = NoSymbol => Global(program, name) = None
        /\ id # NoSymbol => symbols[id].kind = Global(program, name).kind
    <2>1. \A x, y : SymbolOf(x, y).kind = y.kind
      BY DEF SymbolOf, Symbol
    <2> QED BY <1>1, <1>6, <2>1, RootLookup
  <1>8. KeepsSymbols
    <2>1. Ok' => Ok
      BY StepErrors DEF Next
    <2> QED BY <1>2, <2>1 DEF KeepsSymbols
  <1>9. UsedRight(n)' /\ program.nodes[q].kind # "variable"
    BY <1>2, <1>3, <1>4 DEF UsedRight, OfKind, Patterns
  <1>10. CASE program.nodes[q].kind # "constructor_pattern"
    <2>1. resolved' = resolved /\ diagnostics' = diagnostics
      BY <1>1, <1>10 DEF BindBranch
    <2>2. UsedRight(q)'
      BY <1>2, <1>9, <1>10 DEF UsedRight
    <2>3. (\A m \in new : UsedRight(m)') /\ (~Ok' => ~Ok)
      BY <1>1, <1>9, <2>1, <2>2 DEF Ok
    <2> QED BY <1>2, <1>8, <2>1, <2>3, UsesKept
  <1>11. CASE program.nodes[q].kind = "constructor_pattern"
    <2>0. NameConstructor(q)
      BY <1>1, <1>11 DEF BindBranch
    <2>1. CASE id # NoSymbol /\ symbols[id].kind = "constructor"
      <3>1. resolved' = Put(resolved, q, id) /\ UNCHANGED diagnostics
        BY <1>1, <2>0, <2>1 DEF NameConstructor
      <3>2. /\ DOMAIN resolved' = DOMAIN resolved \cup {q} /\ resolved'[q] = id
            /\ \A m \in DOMAIN resolved : resolved'[m] = resolved[m]
        BY <1>5, <3>1 DEF Put
      <3>3. Global(program, name).kind = "constructor"
        BY <1>7, <2>1
      <3>4. PatternOk(q)'
        BY <1>1, <1>2, <2>1, <3>2, <3>3 DEF PatternOk
      <3>5. UsedRight(q)'
        BY <1>2, <1>9, <3>4 DEF UsedRight
      <3>6. (\A m \in new : UsedRight(m)') /\ (~Ok' => ~Ok)
        BY <1>1, <1>9, <3>1, <3>5 DEF Ok
      <3> QED BY <1>2, <1>5, <1>8, <3>2, <3>6, UsesKept
    <2>2. CASE ~(id # NoSymbol /\ symbols[id].kind = "constructor")
      <3>1. resolved' = resolved /\ \E x, what : AddError(x, what)
        BY <1>1, <2>0, <2>2 DEF NameConstructor
      <3>2. ~Ok'
        BY <3>1, AddErrorKeeps
      <3>3. UsedRight(q)'
        BY <1>2, <1>9, <3>2 DEF UsedRight, PatternOk
      <3>4. Global(program, name).kind # "constructor"
        BY <1>7, <2>2 DEF None
      <3>5. ~WellScoped(program)
        BY <1>1, <1>4, <1>11, <3>4 DEF WellScoped, OfKind
      <3>6. \A m \in new : UsedRight(m)'
        BY <1>1, <1>9, <3>3
      <3> QED BY <1>2, <1>8, <3>1, <3>5, <3>6, UsesKept
    <2> QED BY <2>1, <2>2
  <1> QED BY <1>10, <1>11

(* Nothing is bound at first. *)
LEMMA InitUses == Init => UsesInv
  <1> SUFFICES ASSUME Init PROVE UsesInv
    OBVIOUS
  <1>1. PICK none : none = << >> /\ DOMAIN none = {}
    OBVIOUS
  <1> QED BY <1>1 DEF UsesInv, Init, Ok

(* Every step resolves what it binds to what it means. *)
LEMMA StepUses ==
  ASSUME Inv, NodesAreBoundOnce, OrderInv, OwnersInv, ErrorsInv, LocalsInv, GlobalsInv, UsesInv,
         [Next]_vars
  PROVE  UsesInv'
  <1>0. work \in Seq(Calls) /\ program \in Programs
    BY DEF Inv, TypeOK
  <1>a. PICK none, own : none = {} /\ own = {Top.node}
    OBVIOUS
  <1>1. CASE UNCHANGED vars
    BY <1>1 DEF vars, UsesInv, UsedRight, VariableOk, PatternOk, Ok
  <1>2. CASE AddSymbol
    <2>1. /\ program' = program /\ UNCHANGED <<scopeByNode, resolved>>
          /\ KeepsSymbols /\ (Repeats \/ \E id : Enters(id))
      BY <1>2, AddEffect, AddCases DEF AddSymbol, Then
    <2>2. ~Ok' => ~Ok \/ ~WellScoped(program)
      <3>1. CASE Repeats
        BY <1>2, <3>1, RepeatIsAnError
      <3>2. CASE \E id : Enters(id)
        BY <3>2 DEF Enters, Ok
      <3> QED BY <2>1, <3>1, <3>2
    <2>3. DOMAIN scopeByNode' = DOMAIN scopeByNode \cup none /\ \A n \in none : UsedRight(n)'
      BY <1>a, <2>1
    <2> QED BY <2>1, <2>2, <2>3, UsesKept
  <1>3. CASE RegisterDefinition
    <2>1. program' = program /\ UNCHANGED <<symbols, resolved, diagnostics, scopeByNode>>
      BY <1>3 DEF RegisterDefinition, Then, tree
    <2> QED BY <1>a, <2>1, NothingUsed
  <1>4. CASE CheckDefinition
    <2>1. /\ program' = program /\ UNCHANGED <<symbols, resolved, diagnostics>>
          /\ DOMAIN scopeByNode' = DOMAIN scopeByNode \cup Checked
          /\ Top.node \in OfKind(program, {"defn", "data"})
      BY <1>0, <1>4, CheckEffect, RunningCall DEF CheckDefinition, Then, Checks, Running
    <2>2. ASSUME NEW n \in Checked
          PROVE  program.nodes[n].kind \notin {"variable", "constructor_pattern"}
      <3>1. CASE n = Top.node
        BY <2>1, <3>1 DEF OfKind
      <3>2. CASE Node.kind = "data" /\ n \in ChildrenOf(Top.node)
        BY <2>1, <3>2, DataChildren DEF OfKind, Node
      <3> QED BY <3>1, <3>2 DEF Checked
    <2> QED BY <2>1, <2>2, NothingUsed
  <1>5. CASE BindFunction
    <2>1. /\ program' = program /\ UNCHANGED <<symbols, resolved, diagnostics>>
          /\ \/ Node.kind = "defn" /\ DOMAIN scopeByNode' = DOMAIN scopeByNode \cup own
             \/ scopeByNode' = scopeByNode
      BY <1>5, <1>a DEF BindFunction, Then, Put
    <2>2. CASE Node.kind = "defn" /\ DOMAIN scopeByNode' = DOMAIN scopeByNode \cup own
      BY <1>a, <2>1, <2>2, NothingUsed DEF Node
    <2>3. CASE scopeByNode' = scopeByNode
      BY <1>a, <2>1, <2>3, NothingUsed
    <2> QED BY <2>1, <2>2, <2>3
  <1>6. CASE BindLeafOrOperator \/ BindCaseExpression
    <2>1. /\ program' = program /\ UNCHANGED <<symbols, resolved, diagnostics>>
          /\ Node.kind \in {"int", "operator", "application", "case"}
          /\ scopeByNode' = Put(scopeByNode, Top.node, Top.scope)
      BY <1>6 DEF BindLeafOrOperator, BindCaseExpression, Then
    <2>2. DOMAIN scopeByNode' = DOMAIN scopeByNode \cup own
      BY <1>a, <2>1 DEF Put
    <2> QED BY <1>a, <2>1, <2>2, NothingUsed DEF Node
  <1> QED BY <1>1, <1>2, <1>3, <1>4, <1>5, <1>6, VariableUsed, PatternUsed DEF Next, Done

-----------------------------------------------------------------------------
(* All that is known of a reachable state, and that it stays so. *)
NamesInv ==
  /\ Inv /\ NodesAreBoundOnce
  /\ OrderInv /\ CoverInv /\ OwnersInv
  /\ ErrorsInv /\ LocalsInv /\ GlobalsInv /\ UsesInv

(* It holds at first and every step keeps it. *)
LEMMA NamesAlways == Spec => []NamesInv
  <1>1. Init => NamesInv
    BY InitInv, InitOnce, InitOrder, InitCover, InitOwners, InitLocals, InitGlobals, InitUses
       DEF NamesInv
  <1>2. NamesInv /\ [Next]_vars => NamesInv'
    BY StepKeepsInv, StepBindsOnce, StepOrder, StepCover, StepOwners, StepErrors, StepLocals,
       StepGlobals, StepUses DEF NamesInv
  <1> QED BY <1>1, <1>2, PTL DEF Spec

(***************************************************************************)
(* Every node ends up in the scope of the function or branch around it; a  *)
(* function's own node is bound twice, to the global scope and its own.    *)
(***************************************************************************)
THEOREM ScopesFollow == Spec => []ScopesFollowTheTree
  <1>1. NamesInv => ScopesFollowTheTree
    BY AllBound DEF NamesInv, ScopesFollowTheTree
  <1> QED BY <1>1, NamesAlways, PTL

(* In the end a function or a branch has a scope with just its names. *)
LEMMA OwnScope ==
  ASSUME NamesInv, Finished, NEW n \in OfKind(program, Scoping)
  PROVE  /\ scopeByNode[n] \in ScopeIds \ {RootScope} /\ scopes[scopeByNode[n]].owner = n
         /\ Settled /\ program \in Programs
         /\ Ok => NoRepeats(LocalNames(program, n))
  <1>1. Inv /\ CoverInv /\ OwnersInv /\ LocalsInv /\ GlobalsInv
    BY DEF NamesInv
  <1>2. Settled /\ program \in Programs /\ n \in NodeIds(program)
    BY <1>1 DEF Settled, Finished, Inv, TypeOK, OfKind
  <1>3. PICK s : s = scopeByNode[n]
    OBVIOUS
  <1>4. s \in ScopeIds /\ scopes[s].owner = n
    <2>1. n \in DOMAIN scopeByNode /\ scopes[s].owner = Encloser(program, n)
      BY <1>1, <1>2, <1>3, AllBound
    <2> QED BY <1>1, <1>2, <1>3, <2>1, EncloserOf DEF Inv, TypeOK, OfKind
  <1>5. s # RootScope
    BY <1>1, <1>2, <1>4, ProgramFacts DEF OwnersInv, NoNode
  <1>6. DeclaredIn(s, n, Len(LocalNames(program, n)))
    BY <1>1, <1>2, <1>4, <1>5, SettledScopes DEF Complete
  <1>7. DOMAIN LocalNames(program, n) = 1..Len(LocalNames(program, n))
    BY <1>2, LocalNamesOf
  <1>8. Ok => NoRepeats(LocalNames(program, n))
    BY <1>6, <1>7 DEF DeclaredIn, NoRepeats
  <1> QED BY <1>2, <1>3, <1>4, <1>5, <1>8

(* In the end every use is resolved. *)
LEMMA UsesInTheEnd ==
  ASSUME NamesInv, Finished
  PROVE  /\ \A n \in OfKind(program, {"variable"}) : VariableOk(n)
         /\ \A n \in OfKind(program, {"constructor_pattern"}) : PatternOk(n)
         /\ ~Ok => ~WellScoped(program)
  <1>1. UsesInv /\ \A n \in NodeIds(program) : n \in DOMAIN scopeByNode
    BY AllBound DEF NamesInv
  <1> QED BY <1>1 DEF UsesInv, UsedRight, OfKind

(***************************************************************************)
(* A variable is resolved to its innermost enclosing declaration, or to    *)
(* none when that cannot be used: getResolvedSymbolId, run while scopes    *)
(* are being filled, agrees with lexical scoping on the finished tree.     *)
(***************************************************************************)
THEOREM LexicalResolution == Spec => []ResolvesLexically
  <1>1. NamesInv => ResolvesLexically
    <2> SUFFICES ASSUME NamesInv, Finished, NEW n \in OfKind(program, {"variable"})
                 PROVE  LET name == program.nodes[n].name
                            meaning == Meaning(program, n, name)
                        IN  IF Usable(name, meaning)
                            THEN /\ n \in DOMAIN resolved
                                 /\ symbols[resolved[n]] =
                                      Symbol(name, meaning.kind, meaning.declaration)
                            ELSE n \notin DOMAIN resolved
      BY DEF ResolvesLexically
    <2>1. VariableOk(n)
      BY UsesInTheEnd
    <2> QED BY <2>1 DEF VariableOk, SymbolOf
  <1> QED BY <1>1, NamesAlways, PTL

(***************************************************************************)
(* The analyzer reports nothing exactly when the program is well scoped:   *)
(* no global, parameter or pattern name twice, every variable usable, and  *)
(* every pattern a constructor's.                                          *)
(***************************************************************************)
THEOREM AcceptsExactly == Spec => []AcceptsTheWellScoped
  <1>1. NamesInv => AcceptsTheWellScoped
    <2> SUFFICES ASSUME NamesInv, Finished, Ok PROVE WellScoped(program)
      BY UsesInTheEnd DEF AcceptsTheWellScoped
    <2>1. RootHolds({}) /\ program \in Programs
      <3>1. Inv /\ OwnersInv /\ LocalsInv /\ GlobalsInv /\ Settled
        BY DEF NamesInv, Settled, Finished
      <3> QED BY <3>1, SettledScopes DEF Inv, TypeOK
    <2>2. ASSUME NEW w \in GlobalPlaces(program)
          PROVE  Global(program, program.nodes[DeclaredAt(program, w)].name).declaration
                   = DeclaredAt(program, w)
      BY <2>1 DEF RootHolds, NameAt
    <2>3. ASSUME NEW n \in NodeIds(program) PROVE NoRepeats(LocalNames(program, n))
      <3>1. CASE program.nodes[n].kind \in Scoping
        <4>1. n \in OfKind(program, Scoping)
          BY <3>1 DEF OfKind
        <4> QED BY <4>1, OwnScope
      <3>2. CASE program.nodes[n].kind \notin Scoping
        <4>1. LocalNames(program, n) = << >>
          BY <3>2 DEF LocalNames, Scoping
        <4>2. PICK none : none = << >> /\ DOMAIN none = {}
          OBVIOUS
        <4> QED BY <4>1, <4>2 DEF NoRepeats
      <3> QED BY <3>1, <3>2
    <2>4. \A n \in OfKind(program, {"variable"}) :
            Usable(program.nodes[n].name, Meaning(program, n, program.nodes[n].name))
      BY UsesInTheEnd DEF VariableOk
    <2>5. \A n \in OfKind(program, {"constructor_pattern"}) :
            Global(program, program.nodes[n].name).kind = "constructor"
      BY UsesInTheEnd DEF PatternOk
    <2> QED BY <2>2, <2>3, <2>4, <2>5 DEF WellScoped
  <1> QED BY <1>1, NamesAlways, PTL

(* A function of an accepted program is found in the root scope. *)
LEMMA FunctionFound ==
  ASSUME NamesInv, Finished, Ok, NEW d \in OfKind(program, {"defn"}),
         NEW name, name = program.nodes[d].name, NEW id, id = GetLocalSymbolId(RootScope, name)
  PROVE  id # NoSymbol /\ symbols[id] = Symbol(name, "function", d)
  <1>1. /\ Inv /\ OwnersInv /\ LocalsInv /\ GlobalsInv /\ Settled
        /\ program \in Programs /\ d \in NodeIds(program) /\ d # NoNode
        /\ program.nodes[d].kind = "defn" /\ d \in OfKind(program, {"defn", "data"})
    <2>1. /\ Inv /\ OwnersInv /\ LocalsInv /\ GlobalsInv /\ Settled
          /\ program \in Programs /\ d \in NodeIds(program)
          /\ program.nodes[d].kind = "defn"
      BY DEF NamesInv, Settled, Finished, Inv, TypeOK, OfKind
    <2>2. d # NoNode
      BY <2>1, ProgramFacts DEF NoNode
    <2> QED BY <2>1, <2>2 DEF OfKind
  <1>2. PICK k \in DOMAIN program.definitions : program.definitions[k] = d
    BY <1>1, DefinitionKinds DEF Definitions
  <1>3. PICK w : w = <<k, 0>>
    OBVIOUS
  <1>4. w \in GlobalPlaces(program) /\ DeclaredAt(program, w) = d
    <2>1. ConstructorsOf(program, d) = << >> /\ Len(<< >>) = 0 /\ 0 \in 0..0
      BY <1>1 DEF ConstructorsOf
    <2>2. w \in GlobalPlaces(program)
      BY <1>2, <1>3, <2>1 DEF GlobalPlaces
    <2> QED BY <1>2, <1>3, <2>2 DEF DeclaredAt
  <1>5. RootHolds({})
    BY <1>1, SettledScopes
  <1>6. name \in DOMAIN Root /\ Global(program, name).declaration = d
    BY <1>4, <1>5 DEF RootHolds, NameAt
  <1>7. name # "Int"
    <2>1. name = "Int" => Global(program, name).declaration = NoNode
      BY <1>1, GlobalOf
    <2> QED BY <1>1, <1>6, <2>1
  <1>8. PICK v : First(program, v, name)
    BY <1>1, <1>4, GlobalOf DEF NameAt
  <1>9. Global(program, name) = GlobalAt(program, v)
    BY <1>1, <1>7, <1>8, GlobalOf
  <1>10. DeclaredAt(program, v) = d
    BY <1>6, <1>9 DEF GlobalAt
  <1>11. Global(program, name) = [kind |-> "function", declaration |-> d]
    BY <1>1, <1>9, <1>10 DEF GlobalAt
  <1>12. id # NoSymbol
    <2>1. id = Root[name] /\ Root[name] \in SymbolIds
      BY <1>1, <1>6, InvParts DEF GetLocalSymbolId, Root, TreeInv
    <2> QED BY <2>1 DEF SymbolIds, NoSymbol
  <1>13. symbols[id] = SymbolOf(name, Global(program, name))
    BY <1>1, <1>12, RootLookup
  <1> QED BY <1>11, <1>12, <1>13 DEF SymbolOf

(***************************************************************************)
(* In an accepted program the lookups of the later phases succeed, so none *)
(* of their early returns is taken: functions in the root scope, names in  *)
(* the scope of the function or branch that declares them, constructors.   *)
(***************************************************************************)
THEOREM LookupsSucceed == Spec => []LaterLookupsSucceed
  <1>1. NamesInv => LaterLookupsSucceed
    <2> SUFFICES ASSUME NamesInv, Finished, Ok
                 PROVE
        /\ \A d \in OfKind(program, {"defn"}) :
             LET id == GetLocalSymbolId(RootScope, program.nodes[d].name)
             IN  id # NoSymbol /\ symbols[id] = Symbol(program.nodes[d].name, "function", d)
        /\ \A n \in OfKind(program, {"defn", "branch"}) :
             LET names == LocalNames(program, n) IN
             \A k \in DOMAIN names :
               LET id == GetLocalSymbolId(scopeByNode[n], names[k]) IN
               /\ id # NoSymbol
               /\ symbols[id].kind = Local(program, n).kind
               /\ symbols[id].declaration = Local(program, n).declaration
        /\ \A n \in OfKind(program, {"constructor_pattern"}) :
             n \in DOMAIN resolved /\ symbols[resolved[n]].kind = "constructor"
      BY DEF LaterLookupsSucceed
    <2>1. \A d \in OfKind(program, {"defn"}) :
            LET id == GetLocalSymbolId(RootScope, program.nodes[d].name)
            IN  id # NoSymbol /\ symbols[id] = Symbol(program.nodes[d].name, "function", d)
      BY FunctionFound
    <2>2. ASSUME NEW n \in OfKind(program, {"defn", "branch"}),
                 NEW k \in DOMAIN LocalNames(program, n),
                 NEW id, id = GetLocalSymbolId(scopeByNode[n], LocalNames(program, n)[k])
          PROVE  /\ id # NoSymbol
                 /\ symbols[id].kind = Local(program, n).kind
                 /\ symbols[id].declaration = Local(program, n).declaration
      <3>1. PICK name, s : name = LocalNames(program, n)[k] /\ s = scopeByNode[n]
        OBVIOUS
      <3>2. /\ s \in ScopeIds \ {RootScope} /\ scopes[s].owner = n
            /\ Settled /\ Inv /\ OwnersInv /\ LocalsInv /\ GlobalsInv
        BY <3>1, OwnScope DEF NamesInv, Scoping
      <3>3. Declares(program, n, name)
        BY <3>1 DEF Declares
      <3>4. id # NoSymbol /\ symbols[id] = SymbolOf(name, Local(program, n))
        BY <2>2, <3>1, <3>2, <3>3, LocalLookup
      <3>5. \A x, y : SymbolOf(x, y).kind = y.kind /\ SymbolOf(x, y).declaration = y.declaration
        BY DEF SymbolOf, Symbol
      <3> QED BY <3>4, <3>5
    <2>3. \A n \in OfKind(program, {"constructor_pattern"}) :
            n \in DOMAIN resolved /\ symbols[resolved[n]].kind = "constructor"
      BY UsesInTheEnd DEF PatternOk
    <2> QED BY <2>1, <2>2, <2>3
  <1> QED BY <1>1, NamesAlways, PTL
=============================================================================
