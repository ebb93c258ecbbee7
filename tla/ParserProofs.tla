---------------------------- MODULE ParserProofs ----------------------------
(***************************************************************************)
(* What the parser yields, for every sequence of tokens: a program as the  *)
(* later phases assume it, with positions that point at its nodes.         *)
(*                                                                         *)
(* The pending calls are typed like the instructions of a stack machine.   *)
(* A sort says what is known of one item of `parsed`; a shape is a stack   *)
(* of sorts; each pending step leads from a shape of what is parsed when   *)
(* it begins to one of what is parsed when it ends, the last to nothing:   *)
(*   CursorInv     the cursor and the sequences are well formed            *)
(*   NodesInv      a node is reserved, or as the grammar allows and placed *)
(*   MakesInv      a node is made after its first token was consumed       *)
(*   OperatorsInv  the reserved nodes are those of the pending operators   *)
(*   FlowInv       what is parsed has a shape that the calls lead to an end*)
(*   OwnersInv     every finished node is in one place                     *)
(*   RanksInv      no node is below itself                                 *)
(***************************************************************************)
EXTENDS Parser, FiniteSetTheorems, SequenceTheorems, TLAPS,
        WellFoundedInduction

(* A set of naturals has a least element. *)
LEMMA LeastElement ==
  ASSUME NEW S \in SUBSET Nat, S # {}
  PROVE  \E i \in S : \A j \in S : i <= j
  <1>1. PICK i \in S : \A j \in S : ~(<<j, i>> \in OpToRel(<, Nat))
    BY NatLessThanWellFounded, WFMin
  <1>2. \A j \in S : ~(j < i)
    BY <1>1 DEF OpToRel
  <1> QED BY <1>2

(***************************************************************************)
(* Sequences, whatever their elements.                                     *)
(***************************************************************************)
IsSeq(s) == \E S : s \in Seq(S)

LEMMA SeqOfElements ==
  ASSUME NEW s, IsSeq(s)
  PROVE  Len(s) \in Nat /\ DOMAIN s = 1..Len(s) /\ s = [k \in 1..Len(s) |-> s[k]]
  BY DEF IsSeq

LEMMA SeqIsSeq ==
  ASSUME NEW S, NEW s \in Seq(S)
  PROVE  IsSeq(s)
  BY DEF IsSeq

LEMMA AppendSeq ==
  ASSUME NEW s, IsSeq(s), NEW x
  PROVE  /\ IsSeq(Append(s, x)) /\ Len(Append(s, x)) = Len(s) + 1
         /\ Append(s, x)[Len(s) + 1] = x
         /\ \A k \in 1..Len(s) : Append(s, x)[k] = s[k]
  <1>1. PICK S : s \in Seq(S)
    BY DEF IsSeq
  <1>2. s \in Seq(S \cup {x}) /\ x \in S \cup {x}
    BY <1>1
  <1>3. Append(s, x) \in Seq(S \cup {x})
    BY <1>2
  <1>4. IsSeq(Append(s, x))
    BY <1>3, SeqIsSeq
  <1> QED BY <1>2, <1>4

LEMMA JoinSeq ==
  ASSUME NEW s, IsSeq(s), NEW r, IsSeq(r)
  PROVE  /\ IsSeq(s \o r) /\ Len(s \o r) = Len(s) + Len(r)
         /\ \A k \in 1..Len(s) : (s \o r)[k] = s[k]
         /\ \A k \in 1..Len(r) : (s \o r)[Len(s) + k] = r[k]
  <1>1. PICK S, R : s \in Seq(S) /\ r \in Seq(R)
    BY DEF IsSeq
  <1> DEFINE U == S \cup R
  <1>2. s \in Seq(U) /\ r \in Seq(U)
    BY <1>1
  <1> HIDE DEF U
  <1>3. s \o r \in Seq(U)
    BY <1>2
  <1>4. IsSeq(s \o r)
    BY <1>3, SeqIsSeq
  <1> QED BY <1>2, <1>4

LEMMA TailSeq ==
  ASSUME NEW s, IsSeq(s), s # << >>
  PROVE  /\ IsSeq(Tail(s)) /\ Len(s) > 0 /\ Len(Tail(s)) = Len(s) - 1
         /\ \A k \in 1..(Len(s) - 1) : Tail(s)[k] = s[k + 1]
         /\ Head(s) = s[1]
  <1>1. PICK S : s \in Seq(S)
    BY DEF IsSeq
  <1>2. Tail(s) \in Seq(S)
    BY <1>1
  <1>3. IsSeq(Tail(s))
    BY <1>2, SeqIsSeq
  <1> QED BY <1>1, <1>3

LEMMA FrontSeq ==
  ASSUME NEW s, IsSeq(s), NEW n \in 0..Len(s)
  PROVE  /\ IsSeq(SubSeq(s, 1, n)) /\ Len(SubSeq(s, 1, n)) = n
         /\ \A k \in 1..n : SubSeq(s, 1, n)[k] = s[k]
  <1>1. PICK S : s \in Seq(S)
    BY DEF IsSeq
  <1>2. SubSeq(s, 1, n) \in Seq(S)
    <2>1. n \in Nat /\ \A k \in 1..n : s[k] \in S
      BY <1>1
    <2> QED BY <1>1, <2>1
  <1>3. IsSeq(SubSeq(s, 1, n))
    BY <1>2, SeqIsSeq
  <1> QED BY <1>1, <1>3

-----------------------------------------------------------------------------
Program  == [nodes |-> nodes, definitions |-> definitions]
Complete == {n \in DOMAIN nodes : nodes[n] # Reserved}

CursorInv ==
  /\ IsInput(tokens) /\ it \in 1..(Len(tokens) + 1)
  /\ outcome \in {"parsing", "accepted", "refused"}
  /\ outcome = "accepted" => work = << >>
  /\ IsSeq(nodes) /\ IsSeq(positions) /\ IsSeq(definitions) /\ IsSeq(work) /\ IsSeq(parsed)
  /\ Len(positions) = Len(nodes) /\ \A n \in DOMAIN nodes : positions[n] \in 1..(it - 1)
  /\ \A k \in DOMAIN definitions :
       definitions[k] \in DOMAIN nodes /\ nodes[definitions[k]].kind \in {"defn", "data"}

(* What PositionsPointAtTheNodes says of a node, with what the parser has. *)
PointsAt(m, n) ==
  LET x == m.nodes[n]
      t == m.tokens[m.positions[n]]
      at(k) == m.positions[k]
  IN  CASE x.kind = "int" -> t = IntToken(x.value)
        [] x.kind = "operator" ->
             t = Token(x.op) /\ at(x.left) < at(n) /\ at(n) < at(x.right)
        [] x.kind = "application" ->
             /\ t.kind \in PrimaryStart
             /\ at(x.function) < at(n) /\ at(n) <= at(x.argument)
        [] x.kind = "branch" -> at(n) = at(x.pattern)
        [] x.kind \in {"case", "defn", "data"} -> t = Token(x.kind)
        [] OTHER -> t = NameToken(t.kind, x.name)

(* What a sort, a shape and a step are about. *)
Memory == [tokens |-> tokens, it |-> it, nodes |-> nodes, positions |-> positions]

NodesInv == \A n \in Complete : IsNode(Program, n) /\ PointsAt(Memory, n)

(* The step consumes a token before anything else is done. *)
Moves(a) == a.do \in {"expect", "expectName", "parse"}

MakesInv ==
  \A k \in DOMAIN work :
    work[k].do = "make" =>
      work[k].at \in 1..it /\ (work[k].at = it => Moves(work[1]))

OperatorsInv ==
  /\ \A k \in DOMAIN work :
       work[k].do = "operator" =>
         work[k].node \in DOMAIN nodes /\ nodes[work[k].node] = Reserved
  /\ \A j, k \in DOMAIN work :
       work[j].do = "operator" /\ work[k].do = "operator" /\ j < k =>
         work[j].node > work[k].node
  /\ \A n \in DOMAIN nodes \ Complete :
       \E k \in DOMAIN work : work[k].do = "operator" /\ work[k].node = n

-----------------------------------------------------------------------------
(***************************************************************************)
(* The sorts of what is parsed.                                            *)
(***************************************************************************)
NameAt(k, p)  == [sort |-> "name", kind |-> k, at |-> p]           \* 0: anywhere
NamesOf(k)    == [sort |-> "names", kind |-> k]
After(b, q)   == [sort |-> "after", node |-> b, position |-> q]    \* expressions
Before(b, q)  == [sort |-> "before", node |-> b, position |-> q]
PatternAt(p)  == [sort |-> "pattern", at |-> p]
One(what)     == [sort |-> "one", what |-> what]
Many(what)    == [sort |-> "many", what |-> what]

NamesIn(k)    == IF k = "upper" THEN UpperNames ELSE LowerNames
TokenOf(k, v) == IF k = "int" THEN IntToken(v) ELSE NameToken(k, v)

IsNodeItem(m, e, K) ==
  e = Item("node", e.value) /\ e.value \in DOMAIN m.nodes /\ m.nodes[e.value].kind \in K

(* The item e is of sort x. *)
Fits(m, e, x) ==
  \/ /\ x.sort = "name"
     /\ e = Item(x.kind, e.value) /\ x.kind \in {"int", "lower", "upper"}
     /\ x.kind # "int" => e.value \in NamesIn(x.kind)
     /\ x.at # 0 => m.tokens[x.at] = TokenOf(x.kind, e.value)
  \/ /\ x.sort = "names"
     /\ e = Item("names", e.value) /\ e.value \in Seq(NamesIn(x.kind))
  \/ /\ x.sort = "after" /\ IsNodeItem(m, e, Expressions)
     /\ e.value > x.node /\ m.positions[e.value] > x.position
  \/ /\ x.sort = "before" /\ IsNodeItem(m, e, Expressions)
     /\ e.value < x.node /\ m.positions[e.value] < x.position
  \/ x.sort = "pattern" /\ IsNodeItem(m, e, Patterns) /\ m.positions[e.value] = x.at
  \/ x.sort = "one" /\ x.what # "reserved" /\ IsNodeItem(m, e, {x.what})
  \/ /\ x.sort = "many" /\ x.what # "reserved"
     /\ e = Item("nodes", e.value) /\ e.value # << >>
     /\ e.value \in Seq({n \in DOMAIN m.nodes : m.nodes[n].kind = x.what})

(* A shape is nothing, or a shape with a sort on top. *)
Nil == << >>

(* t is the shape of the first n of the items s. *)
Shape(m, s, n, t) ==
  \E d : /\ d[0] = Nil /\ d[n] = t
         /\ \A i \in 1..n : \E x : d[i] = <<d[i - 1], x>> /\ Fits(m, s[i], x)

(* t is r with n times x on top. *)
Piled(n, x, r, t) == \E h : h[0] = r /\ h[n] = t /\ \A i \in 1..n : h[i] = <<h[i - 1], x>>

-----------------------------------------------------------------------------
(***************************************************************************)
(* What the pending steps lead to.                                         *)
(***************************************************************************)

(* Expressions that begin at the token p or later. *)
Afters(m, p) == {After(b, q) : b \in 0..Len(m.nodes), q \in 0..(p - 1)}

ParseLeads(m, what, c, t, u) ==
  \/ what = "definition" /\ u = t
  \/ what \in {"constructor", "branch"} /\ u = <<t, One(what)>>
  \/ what = "pattern" /\ c # 0 /\ u = <<t, PatternAt(c)>>
  \/ /\ what \in {"expression", "term", "application", "primary"}
     /\ \E x \in Afters(m, m.it) : u = <<t, x>>

OperatorLeads(m, op, n, t, u) ==
  /\ op \in {"+", "-", "*", "/"}
  /\ n \in DOMAIN m.nodes /\ m.nodes[n] = Reserved /\ m.tokens[m.positions[n]] = Token(op)
  /\ \E r : /\ t = <<<<r, Before(n, m.positions[n])>>, After(n, m.positions[n])>>
            /\ \E b \in 0..(n - 1), q \in 0..(m.positions[n] - 1) : u = <<r, After(b, q)>>

MakeLeads(m, kind, p, t, u) ==
  \E r :
    \/ /\ kind = "int" /\ t = <<r, NameAt("int", p)>>
       /\ \E x \in Afters(m, p) : u = <<r, x>>
    \/ /\ kind = "variable" /\ \E k \in {"lower", "upper"} : t = <<r, NameAt(k, p)>>
       /\ \E x \in Afters(m, p) : u = <<r, x>>
    \/ /\ kind = "application" /\ m.tokens[p].kind \in PrimaryStart
       /\ \E b : t = <<<<r, Before(b, p)>>, After(0, p - 1)>>
       /\ \E x \in Afters(m, p) : u = <<r, x>>
    \/ /\ kind = "case" /\ m.tokens[p] = Token("case")
       /\ t = <<<<r, After(0, 0)>>, Many("branch")>>
       /\ \E x \in Afters(m, p) : u = <<r, x>>
    \/ /\ kind = "branch" /\ t = <<<<r, PatternAt(p)>>, After(0, 0)>>
       /\ u = <<r, One("branch")>>
    \/ /\ kind = "variable_pattern" /\ t = <<r, NameAt("lower", p)>>
       /\ u = <<r, PatternAt(p)>>
    \/ /\ kind = "constructor_pattern" /\ t = <<<<r, NameAt("upper", p)>>, NamesOf("lower")>>
       /\ u = <<r, PatternAt(p)>>
    \/ /\ kind = "constructor" /\ t = <<<<r, NameAt("upper", p)>>, NamesOf("upper")>>
       /\ u = <<r, One("constructor")>>
    \/ /\ kind = "data" /\ m.tokens[p] = Token("data")
       /\ t = <<<<r, NameAt("upper", 0)>>, Many("constructor")>> /\ u = r
    \/ /\ kind = "defn" /\ m.tokens[p] = Token("defn")
       /\ t = <<<<<<r, NameAt("lower", 0)>>, NamesOf("lower")>>, After(0, 0)>> /\ u = r

(* The step a, begun at token c, or later if c is 0, leads from t to u. *)
Step(m, a, c, t, u) ==
  \/ a.do = "expect" /\ u = t
  \/ /\ a.do = "expectName" /\ a.token \in {"int", "lower", "upper"}
     /\ \E p \in {0, c} : u = <<t, NameAt(a.token, p)>>
  \/ /\ a.do = "parseNamesWhile" /\ a.token \in {"lower", "upper"}
     /\ u = <<t, NamesOf(a.token)>>
  \/ a.do = "parse" /\ ParseLeads(m, a.what, c, t, u)
  \/ /\ a.do \in {"operators", "arguments"} /\ u = t
     /\ \E r : \E x \in Afters(m, m.it) : t = <<r, x>>
  \/ /\ a.do = "list" /\ a.what \in {"constructor", "branch"} /\ a.count \in Nat \ {0}
     /\ \E r : Piled(a.count, One(a.what), r, t) /\ u = <<r, Many(a.what)>>
  \/ a.do = "operator" /\ OperatorLeads(m, a.op, a.node, t, u)
  \/ a.do = "make" /\ a.at \in Nat \ {0} /\ MakeLeads(m, a.kind, a.at, t, u)

(* The steps w, the first begun at token c, lead from t to u. *)
LeadTo(m, w, c, t, u) ==
  \E f : /\ f[1] = t /\ f[Len(w) + 1] = u
         /\ \A k \in 1..Len(w) : Step(m, w[k], IF k = 1 THEN c ELSE 0, f[k], f[k + 1])

FlowInv == \E t : Shape(Memory, parsed, Len(parsed), t) /\ LeadTo(Memory, work, it, t, Nil)

-----------------------------------------------------------------------------
(***************************************************************************)
(* Who owns a node: an item that is parsed, another node, the definitions. *)
(***************************************************************************)
Items(s)  == {s[k] : k \in DOMAIN s}
IdsOf(e)  == IF e.kind = "node" THEN {e.value}
             ELSE IF e.kind = "nodes" THEN Items(e.value) ELSE {}

Owns(s, p, h, n) ==
  \/ \E k \in DOMAIN s : h = <<"parsed", k>> /\ n \in IdsOf(s[k])
  \/ \E m \in DOMAIN p.nodes : h = <<"node", m>> /\ n \in Items(Children(p, m))
  \/ h = <<"definitions", 0>> /\ n \in Items(p.definitions)

Distinct(s) == \A j, k \in DOMAIN s : s[j] = s[k] => j = k

OwnersInv ==
  /\ \A h, n : Owns(parsed, Program, h, n) => n \in Complete
  /\ \A n, h, g : Owns(parsed, Program, h, n) /\ Owns(parsed, Program, g, n) => h = g
  /\ \A n \in Complete : \E h : Owns(parsed, Program, h, n)
  /\ \A k \in DOMAIN parsed : parsed[k].kind = "nodes" => Distinct(parsed[k].value)
  /\ \A m \in DOMAIN nodes : Distinct(Children(Program, m))
  /\ Distinct(definitions)

RanksInv ==
  \E r : \A n \in Complete :
    /\ r[n] \in 1..Cardinality(Complete)
    /\ \A m \in Items(Children(Program, n)) : r[m] < r[n]

-----------------------------------------------------------------------------
(***************************************************************************)
(* What stays of a memory that only grows.                                 *)
(***************************************************************************)
IsMemory(m) ==
  /\ m.it \in Nat /\ Len(m.nodes) \in Nat /\ DOMAIN m.nodes = 1..Len(m.nodes)
  /\ \A n \in DOMAIN m.nodes : m.positions[n] \in Nat

GrowsTo(m, o) ==
  /\ IsMemory(m) /\ IsMemory(o)
  /\ o.tokens = m.tokens /\ m.it <= o.it /\ Len(m.nodes) <= Len(o.nodes)
  /\ \A n \in DOMAIN m.nodes :
       o.positions[n] = m.positions[n] /\ (m.nodes[n] # Reserved => o.nodes[n] = m.nodes[n])

LEMMA NodeItemKept ==
  ASSUME NEW m, NEW o, GrowsTo(m, o), NEW K, "reserved" \notin K, NEW e, IsNodeItem(m, e, K)
  PROVE  IsNodeItem(o, e, K) /\ o.positions[e.value] = m.positions[e.value]
  BY DEF GrowsTo, IsMemory, IsNodeItem, Reserved

LEMMA FitsKept ==
  ASSUME NEW m, NEW o, GrowsTo(m, o), NEW e, NEW x, Fits(m, e, x)
  PROVE  Fits(o, e, x)
  <1>1. "reserved" \notin Expressions /\ "reserved" \notin Patterns
    BY DEF Expressions, Patterns
  <1>2. CASE x.sort \in {"name", "names"}
    BY <1>2 DEF Fits, GrowsTo
  <1>3. CASE x.sort \in {"after", "before", "pattern", "one"}
    BY <1>1, <1>3, NodeItemKept DEF Fits
  <1>4. CASE x.sort = "many"
    <2> DEFINE S(i) == {n \in DOMAIN i.nodes : i.nodes[n].kind = x.what}
    <2>1. e = Item("nodes", e.value) /\ e.value # << >> /\ e.value \in Seq(S(m))
          /\ x.what # "reserved"
      BY <1>4 DEF Fits
    <2>2. S(m) \subseteq S(o)
      <3>1. SUFFICES ASSUME NEW n \in DOMAIN m.nodes, m.nodes[n].kind = x.what
                     PROVE  n \in DOMAIN o.nodes /\ o.nodes[n] = m.nodes[n]
        BY Zenon
      <3>2. m.nodes[n] # Reserved
        BY <2>1, <3>1 DEF Reserved
      <3> QED BY <3>2 DEF GrowsTo, IsMemory
    <2>3. e.value \in Seq(S(o))
      <3> HIDE DEF S
      <3> QED BY <2>1, <2>2
    <2> QED BY <1>4, <2>1, <2>3 DEF Fits
  <1> QED BY <1>2, <1>3, <1>4 DEF Fits

LEMMA AftersKept ==
  ASSUME NEW m, NEW o, GrowsTo(m, o), NEW p \in Nat, NEW q \in Nat, p <= q
  PROVE  Afters(m, p) \subseteq Afters(o, q)
  <1>1. 0..Len(m.nodes) \subseteq 0..Len(o.nodes) /\ 0..(p - 1) \subseteq 0..(q - 1)
    BY DEF GrowsTo, IsMemory
  <1> QED BY <1>1 DEF Afters

LEMMA StepKept ==
  ASSUME NEW m, NEW o, GrowsTo(m, o), NEW a, NEW t, NEW u, Step(m, a, 0, t, u),
         a.do = "operator" => o.nodes[a.node] = Reserved, NEW c
  PROVE  Step(o, a, c, t, u)
  <1>1. CASE a.do \in {"expect", "expectName", "parseNamesWhile", "list"}
    BY <1>1 DEF Step
  <1>2. Afters(m, m.it) \subseteq Afters(o, o.it)
    BY AftersKept DEF GrowsTo, IsMemory
  <1>3. CASE a.do = "parse"
    BY <1>2, <1>3 DEF Step, ParseLeads
  <1>4. CASE a.do \in {"operators", "arguments"}
    BY <1>2, <1>4 DEF Step
  <1>5. CASE a.do = "operator"
    <2>1. OperatorLeads(m, a.op, a.node, t, u)
      BY <1>5 DEF Step
    <2>2. a.node \in DOMAIN m.nodes
      BY <2>1 DEF OperatorLeads
    <2>3. a.node \in DOMAIN o.nodes /\ o.positions[a.node] = m.positions[a.node]
          /\ o.tokens = m.tokens
      BY <2>2 DEF GrowsTo, IsMemory
    <2>4. OperatorLeads(o, a.op, a.node, t, u)
      BY <1>5, <2>1, <2>3 DEF OperatorLeads
    <2> QED BY <1>5, <2>4 DEF Step
  <1>6. CASE a.do = "make"
    <2>1. a.at \in Nat \ {0} /\ MakeLeads(m, a.kind, a.at, t, u)
      BY <1>6 DEF Step
    <2>2. Afters(m, a.at) \subseteq Afters(o, a.at) /\ o.tokens = m.tokens
      BY <2>1, AftersKept DEF GrowsTo
    <2>3. MakeLeads(o, a.kind, a.at, t, u)
      BY <2>1, <2>2 DEF MakeLeads
    <2> QED BY <1>6, <2>1, <2>3 DEF Step
  <1> QED BY <1>1, <1>3, <1>4, <1>5, <1>6 DEF Step

-----------------------------------------------------------------------------
(***************************************************************************)
(* Shapes: sorts are pushed and popped.                                    *)
(***************************************************************************)
LEMMA NilShape ==
  ASSUME NEW m, NEW s
  PROVE  Shape(m, s, 0, Nil)
  <1> DEFINE d == [i \in {0} |-> Nil]
  <1>1. d[0] = Nil
    OBVIOUS
  <1>2. \A i \in 1..0 : FALSE
    OBVIOUS
  <1> HIDE DEF d
  <1> QED BY <1>1, <1>2 DEF Shape

LEMMA PairIsNotNil ==
  ASSUME NEW r, NEW x
  PROVE  <<r, x>> # Nil
  BY DEF Nil

LEMMA ShapePush ==
  ASSUME NEW m, NEW s, NEW n \in Nat, NEW t, Shape(m, s, n, t), NEW x, NEW z,
         \A i \in 1..n : z[i] = s[i], Fits(m, z[n + 1], x)
  PROVE  Shape(m, z, n + 1, <<t, x>>)
  <1>1. PICK d : d[0] = Nil /\ d[n] = t
                 /\ \A i \in 1..n : \E y : d[i] = <<d[i - 1], y>> /\ Fits(m, s[i], y)
    BY DEF Shape
  <1> DEFINE g == [i \in 0..(n + 1) |-> IF i = n + 1 THEN <<t, x>> ELSE d[i]]
  <1>2. /\ g[0] = Nil /\ g[n + 1] = <<t, x>> /\ g[n] = t
        /\ \A i \in 1..n : g[i] = d[i] /\ g[i - 1] = d[i - 1]
    BY <1>1
  <1> HIDE DEF g
  <1>3. ASSUME NEW i \in 1..(n + 1)
        PROVE  \E y : g[i] = <<g[i - 1], y>> /\ Fits(m, z[i], y)
    <2>1. CASE i = n + 1
      BY <1>2, <2>1
    <2>2. CASE i \in 1..n
      BY <1>1, <1>2, <2>2
    <2> QED BY <2>1, <2>2
  <1> QED BY <1>2, <1>3 DEF Shape

LEMMA ShapePop ==
  ASSUME NEW m, NEW s, NEW n \in Nat, NEW r, NEW x, Shape(m, s, n, <<r, x>>)
  PROVE  n > 0 /\ Shape(m, s, n - 1, r) /\ Fits(m, s[n], x)
  <1>1. PICK d : d[0] = Nil /\ d[n] = <<r, x>>
                 /\ \A i \in 1..n : \E y : d[i] = <<d[i - 1], y>> /\ Fits(m, s[i], y)
    BY DEF Shape
  <1>2. n > 0
    BY <1>1, PairIsNotNil
  <1>3. PICK y : d[n] = <<d[n - 1], y>> /\ Fits(m, s[n], y)
    BY <1>1, <1>2
  <1>4. d[n - 1] = r /\ y = x
    BY <1>1, <1>3
  <1>5. \A i \in 1..(n - 1) : i \in 1..n
    OBVIOUS
  <1>6. Shape(m, s, n - 1, r)
    BY <1>1, <1>4, <1>5 DEF Shape
  <1> QED BY <1>2, <1>3, <1>4, <1>6

LEMMA ShapeKept ==
  ASSUME NEW m, NEW s, NEW n \in Nat, NEW t, Shape(m, s, n, t), NEW z,
         \A i \in 1..n : z[i] = s[i], NEW o, GrowsTo(m, o)
  PROVE  Shape(o, z, n, t)
  <1>1. PICK d : d[0] = Nil /\ d[n] = t
                 /\ \A i \in 1..n : \E y : d[i] = <<d[i - 1], y>> /\ Fits(m, s[i], y)
    BY DEF Shape
  <1>2. \A i \in 1..n : \E y : d[i] = <<d[i - 1], y>> /\ Fits(o, z[i], y)
    BY <1>1, FitsKept
  <1> QED BY <1>1, <1>2 DEF Shape

LEMMA NilShapeIsEmpty ==
  ASSUME NEW m, NEW s, NEW n \in Nat, Shape(m, s, n, Nil)
  PROVE  n = 0
  <1>1. PICK d : d[n] = Nil /\ \A i \in 1..n : \E y : d[i] = <<d[i - 1], y>>
    BY DEF Shape
  <1>2. n > 0 => \E y : d[n] = <<d[n - 1], y>>
    BY <1>1
  <1> QED BY <1>1, <1>2, PairIsNotNil

(* As many items as a pile has sorts can be taken off. *)
LEMMA ShapeUnpiled ==
  ASSUME NEW m, NEW s, NEW n \in Nat, NEW c \in Nat, NEW x, NEW r, NEW t,
         Shape(m, s, n, t), Piled(c, x, r, t)
  PROVE  c <= n /\ Shape(m, s, n - c, r) /\ \A i \in 1..c : Fits(m, s[n - c + i], x)
  <1>1. PICK h : h[0] = r /\ h[c] = t /\ \A i \in 1..c : h[i] = <<h[i - 1], x>>
    BY DEF Piled
  <1> DEFINE Good(j) == j <= n /\ Shape(m, s, n - j, h[c - j])
                        /\ \A i \in (n - j + 1)..n : Fits(m, s[i], x)
             Bad == {j \in 0..c : ~Good(j)}
  <1>2. Good(0)
    BY <1>1
  <1>3. ASSUME NEW j \in 0..(c - 1), Good(j)
        PROVE  Good(j + 1)
    <2>1. h[c - j] = <<h[c - (j + 1)], x>>
      BY <1>1
    <2>2. n - j > 0 /\ Shape(m, s, n - j - 1, h[c - (j + 1)]) /\ Fits(m, s[n - j], x)
      BY <1>3, <2>1, ShapePop
    <2> QED BY <1>3, <2>2
  <1> HIDE DEF Good
  <1>4. Bad = {}
    <2>1. SUFFICES ASSUME Bad # {} PROVE FALSE
      OBVIOUS
    <2>2. PICK j \in Bad : \A i \in Bad : j <= i
      <3>1. Bad \in SUBSET Nat
        OBVIOUS
      <3> HIDE DEF Bad
      <3> QED BY <2>1, <3>1, LeastElement
    <2>3. j # 0
      BY <1>2, <2>2
    <2>4. j - 1 \in 0..(c - 1) /\ j - 1 \notin Bad
      BY <2>2, <2>3
    <2>5. Good(j - 1 + 1)
      BY <1>3, <2>4
    <2> QED BY <2>2, <2>5
  <1>5. Good(c)
    BY <1>4
  <1> QED BY <1>1, <1>5 DEF Good

LEMMA PiledMore ==
  ASSUME NEW n \in Nat, NEW x, NEW r, NEW t, Piled(n, x, r, t)
  PROVE  Piled(n + 1, x, r, <<t, x>>)
  <1>1. PICK h : h[0] = r /\ h[n] = t /\ \A i \in 1..n : h[i] = <<h[i - 1], x>>
    BY DEF Piled
  <1> DEFINE g == [i \in 0..(n + 1) |-> IF i = n + 1 THEN <<t, x>> ELSE h[i]]
  <1>2. g[0] = r /\ g[n + 1] = <<t, x>> /\ g[n] = t
        /\ \A i \in 1..n : g[i] = h[i] /\ g[i - 1] = h[i - 1]
    BY <1>1
  <1> HIDE DEF g
  <1>3. \A i \in 1..(n + 1) : g[i] = <<g[i - 1], x>>
    BY <1>1, <1>2
  <1> QED BY <1>2, <1>3 DEF Piled

LEMMA PiledOnce ==
  ASSUME NEW x, NEW r
  PROVE  Piled(1, x, r, <<r, x>>)
  <1> DEFINE g == [i \in 0..1 |-> IF i = 1 THEN <<r, x>> ELSE r]
  <1>1. g[0] = r /\ g[1] = <<r, x>>
    OBVIOUS
  <1> HIDE DEF g
  <1>2. \A i \in 1..1 : g[i] = <<g[i - 1], x>>
    BY <1>1
  <1> QED BY <1>1, <1>2 DEF Piled

-----------------------------------------------------------------------------
(***************************************************************************)
(* The pending steps: the first is taken off, others are put before.       *)
(***************************************************************************)
LEMMA LeadToKept ==
  ASSUME NEW m, NEW o, GrowsTo(m, o), NEW w, Len(w) \in Nat, NEW t, NEW u,
         LeadTo(m, w, 0, t, u), NEW c,
         \A k \in 1..Len(w) : w[k].do = "operator" => o.nodes[w[k].node] = Reserved
  PROVE  LeadTo(o, w, c, t, u)
  <1>1. PICK f : /\ f[1] = t /\ f[Len(w) + 1] = u
                 /\ \A k \in 1..Len(w) : Step(m, w[k], 0, f[k], f[k + 1])
    BY DEF LeadTo
  <1>2. \A k \in 1..Len(w) : Step(o, w[k], IF k = 1 THEN c ELSE 0, f[k], f[k + 1])
    BY <1>1, StepKept
  <1> QED BY <1>1, <1>2 DEF LeadTo

LEMMA LeadToTail ==
  ASSUME NEW m, NEW w, IsSeq(w), w # << >>, NEW c, NEW t, NEW u, LeadTo(m, w, c, t, u)
  PROVE  \E r : Step(m, Head(w), c, t, r) /\ LeadTo(m, Tail(w), 0, r, u)
  <1>1. PICK f : /\ f[1] = t /\ f[Len(w) + 1] = u
                 /\ \A k \in 1..Len(w) : Step(m, w[k], IF k = 1 THEN c ELSE 0, f[k], f[k + 1])
    BY DEF LeadTo
  <1> DEFINE n == Len(w) - 1
             g == [k \in 1..(n + 1) |-> f[k + 1]]
  <1>2. /\ n \in Nat /\ Len(w) = n + 1 /\ Len(Tail(w)) = n
        /\ Head(w) = w[1] /\ \A k \in 1..n : Tail(w)[k] = w[k + 1]
    BY TailSeq, SeqOfElements
  <1> HIDE DEF n
  <1>3. g[1] = f[2] /\ g[n + 1] = u /\ \A k \in 1..n : g[k] = f[k + 1] /\ g[k + 1] = f[k + 2]
    BY <1>1, <1>2
  <1> HIDE DEF g
  <1>4. ASSUME NEW k \in 1..n
        PROVE  Step(m, Tail(w)[k], 0, g[k], g[k + 1])
    <2>1. k + 1 \in 1..Len(w) /\ k + 1 # 1 /\ (k + 1) + 1 = k + 2
      BY <1>2
    <2>2. Step(m, w[k + 1], 0, f[k + 1], f[(k + 1) + 1])
      BY <1>1, <2>1
    <2> QED BY <1>2, <1>3, <2>1, <2>2
  <1>5. Step(m, Head(w), c, t, f[2])
    BY <1>1, <1>2
  <1>6. LeadTo(m, Tail(w), 0, f[2], u)
    BY <1>2, <1>3, <1>4 DEF LeadTo
  <1> QED BY <1>5, <1>6

LEMMA LeadToJoin ==
  ASSUME NEW m, NEW v, IsSeq(v), NEW w, IsSeq(w), NEW c, NEW t, NEW s, NEW u,
         LeadTo(m, v, c, t, s), LeadTo(m, w, IF v = << >> THEN c ELSE 0, s, u)
  PROVE  LeadTo(m, v \o w, c, t, u)
  <1> DEFINE l == Len(v)
             n == Len(w)
  <1>1. PICK f : /\ f[1] = t /\ f[l + 1] = s
                 /\ \A k \in 1..l : Step(m, v[k], IF k = 1 THEN c ELSE 0, f[k], f[k + 1])
    BY DEF LeadTo
  <1>2. PICK g : /\ g[1] = s /\ g[n + 1] = u
                 /\ \A k \in 1..n : Step(m, w[k], IF k = 1 /\ l = 0 THEN c ELSE 0, g[k], g[k + 1])
    <2>1. v = << >> <=> l = 0
      BY DEF IsSeq
    <2> QED BY <2>1 DEF LeadTo
  <1>3. /\ l \in Nat /\ n \in Nat /\ Len(v \o w) = l + n
        /\ \A k \in 1..l : (v \o w)[k] = v[k]
        /\ \A k \in 1..n : (v \o w)[l + k] = w[k]
    <2>1. l \in Nat /\ n \in Nat
      BY SeqOfElements
    <2>2. /\ Len(v \o w) = Len(v) + Len(w)
          /\ \A k \in 1..Len(v) : (v \o w)[k] = v[k]
          /\ \A k \in 1..Len(w) : (v \o w)[Len(v) + k] = w[k]
      BY JoinSeq
    <2> QED BY <2>1, <2>2
  <1> HIDE DEF l, n
  <1> DEFINE h == [k \in 1..(l + n + 1) |-> IF k <= l THEN f[k] ELSE g[k - l]]
  <1>4. /\ h[1] = t /\ h[l + n + 1] = u
        /\ \A k \in 1..l : h[k] = f[k] /\ h[k + 1] = f[k + 1]
        /\ \A k \in 1..n : h[l + k] = g[k] /\ h[l + k + 1] = g[k + 1]
    BY <1>1, <1>2, <1>3
  <1> HIDE DEF h
  <1>5. ASSUME NEW k \in 1..(l + n)
        PROVE  Step(m, (v \o w)[k], IF k = 1 THEN c ELSE 0, h[k], h[k + 1])
    <2>1. CASE k <= l
      BY <1>1, <1>3, <1>4, <2>1
    <2>2. CASE k > l
      <3>1. PICK j \in 1..n : k = l + j
        <4>1. k - l \in 1..n /\ k = l + (k - l)
          BY <1>3, <2>2
        <4> QED BY <4>1
      <3>2. k = 1 <=> j = 1 /\ l = 0
        BY <1>3, <3>1
      <3>3. Step(m, w[j], IF k = 1 THEN c ELSE 0, g[j], g[j + 1])
        BY <1>2, <3>2
      <3> QED BY <1>3, <1>4, <3>1, <3>3
    <2> QED BY <1>3, <2>1, <2>2
  <1> QED BY <1>3, <1>4, <1>5 DEF LeadTo

-----------------------------------------------------------------------------
(***************************************************************************)
(* A function that calls others is replaced by its steps.                  *)
(***************************************************************************)

(* The steps begin with a token if the running one does, and what they make begins there. *)
Fresh(steps) ==
  /\ IsSeq(steps) /\ IF steps = << >> THEN ~Moves(Top) ELSE Moves(steps[1])
  /\ \A k \in 1..Len(steps) :
       steps[k].do # "operator" /\ (steps[k].do = "make" => steps[k].at = it)

(* The steps lead to what the running one leads to. *)
Replaces(steps) ==
  \A t, u :
    Shape(Memory, parsed, Len(parsed), t) /\ Step(Memory, Top, it, t, u) =>
      \E s : Shape(Memory, parsed, Len(parsed), s) /\ LeadTo(Memory, steps, it, s, u)

Unfolds == \E steps : Do(steps) /\ Fresh(steps) /\ Replaces(steps)

LEMMA AnyExpression ==
  ASSUME CursorInv
  PROVE  After(0, 0) \in Afters(Memory, it)
  <1>1. Len(nodes) \in Nat /\ it \in Nat \ {0}
    BY SeqOfElements DEF CursorInv, IsInput
  <1>2. 0 \in 0..Len(nodes) /\ 0 \in 0..(it - 1)
    BY <1>1
  <1> QED BY <1>2 DEF Afters, Memory

(* The next token is a symbol. *)
LEMMA SymbolToken ==
  ASSUME CursorInv, NEW k \in Symbols, Check(k)
  PROVE  it \in Nat \ {0} /\ it \in DOMAIN tokens /\ tokens[it] = Token(k)
  <1>1. it \in 1..Len(tokens) /\ DOMAIN tokens = 1..Len(tokens) /\ IsToken(tokens[it])
        /\ tokens[it].kind = k
    BY DEF Check, CheckAny, AtEnd, CursorInv, IsInput
  <1>2. k \notin {"int", "lower", "upper"}
    BY DEF Symbols
  <1> QED BY <1>1, <1>2 DEF IsToken

LEMMA TuplesAreSeqs ==
  /\ IsSeq(<< >>)
  /\ \A a : IsSeq(<<a>>)
  /\ \A a, b : IsSeq(<<a, b>>)
  /\ \A a, b, c : IsSeq(<<a, b, c>>)
  /\ \A a, b, c, d, e, f : IsSeq(<<a, b, c, d, e, f>>)
  /\ \A a, b, c, d, e, f, g, h : IsSeq(<<a, b, c, d, e, f, g, h>>)
  <1>0. << >> \in Seq({}) /\ \A a : <<a>> \in Seq({a})
    OBVIOUS
  <1>1. ASSUME NEW a, NEW b
        PROVE  <<a, b>> \in Seq({a, b})
    OBVIOUS
  <1>2. ASSUME NEW a, NEW b, NEW c
        PROVE  <<a, b, c>> \in Seq({a, b, c})
    OBVIOUS
  <1>3. ASSUME NEW a, NEW b, NEW c, NEW d, NEW e, NEW f
        PROVE  <<a, b, c, d, e, f>> \in Seq({a, b, c, d, e, f})
    OBVIOUS
  <1>4. ASSUME NEW a, NEW b, NEW c, NEW d, NEW e, NEW f, NEW g, NEW h
        PROVE  <<a, b, c, d, e, f, g, h>> \in Seq({a, b, c, d, e, f, g, h})
    OBVIOUS
  <1> QED BY <1>0, <1>1, <1>2, <1>3, <1>4, Zenon DEF IsSeq

(* What the steps of the functions lead to. *)
LEMMA ExpectLeads ==
  ASSUME NEW k, NEW c, NEW t
  PROVE  Step(Memory, Expect(k), c, t, t)
  BY DEF Step, Expect

LEMMA ExpectNameLeads ==
  ASSUME NEW k \in {"int", "lower", "upper"}, NEW c, NEW p \in {0, c}, NEW t
  PROVE  Step(Memory, ExpectName(k), c, t, <<t, NameAt(k, p)>>)
  BY DEF Step, ExpectName

LEMMA NamesWhileLeads ==
  ASSUME NEW k \in {"lower", "upper"}, NEW c, NEW t
  PROVE  Step(Memory, NamesWhile(k), c, t, <<t, NamesOf(k)>>)
  BY DEF Step, NamesWhile

LEMMA ExpressionLeads ==
  ASSUME NEW k \in {"expression", "term", "application", "primary"}, NEW c, NEW t,
         NEW x \in Afters(Memory, it)
  PROVE  Step(Memory, Parse(k), c, t, <<t, x>>)
  BY DEF Step, Parse, ParseLeads, Memory

LEMMA OneLeads ==
  ASSUME NEW k \in {"constructor", "branch"}, NEW c, NEW t
  PROVE  Step(Memory, Parse(k), c, t, <<t, One(k)>>)
  BY DEF Step, Parse, ParseLeads

LEMMA ListLeads ==
  ASSUME NEW k \in {"constructor", "branch"}, NEW n \in Nat \ {0}, NEW c, NEW t, NEW r,
         Piled(n, One(k), r, t)
  PROVE  Step(Memory, List(k, n), c, t, <<r, Many(k)>>)
  BY DEF Step, List

LEMMA MakesLead ==
  ASSUME NEW k, NEW p \in Nat \ {0}, NEW c, NEW t, NEW u, MakeLeads(Memory, k, p, t, u)
  PROVE  Step(Memory, Make(k, p), c, t, u)
  BY DEF Step, Make

(* Fresh steps, from what each of them is. *)
FreshStep(a) == a.do # "operator" /\ (a.do = "make" => a.at = it)

LEMMA FreshSteps ==
  /\ \A k : FreshStep(Expect(k)) /\ Moves(Expect(k))
  /\ \A k : FreshStep(ExpectName(k)) /\ Moves(ExpectName(k))
  /\ \A k : FreshStep(NamesWhile(k))
  /\ \A k : FreshStep(Parse(k)) /\ Moves(Parse(k))
  /\ \A k, n : FreshStep(List(k, n))
  /\ \A k : FreshStep(Make(k, it))
  /\ \A k : FreshStep(OperatorLoop(k))
  /\ FreshStep(ArgumentLoop)
  BY DEF FreshStep, Moves, Expect, ExpectName, NamesWhile, Parse, List, Make, OperatorLoop,
         ArgumentLoop

(* The k-th of the steps w leads from the k-th of the shapes f to the next. *)
Link(w, f, c, k, n) == Step(Memory, w[k], c, f[k], f[n])

LEMMA Chains ==
  ASSUME NEW w, NEW f, NEW c, Link(w, f, c, 1, 2), Link(w, f, 0, 2, 3)
  PROVE  /\ Len(w) = 2 => LeadTo(Memory, w, c, f[1], f[3])
         /\ Len(w) = 3 /\ Link(w, f, 0, 3, 4) => LeadTo(Memory, w, c, f[1], f[4])
         /\ Len(w) = 6 /\ Link(w, f, 0, 3, 4) /\ Link(w, f, 0, 4, 5) /\ Link(w, f, 0, 5, 6)
              /\ Link(w, f, 0, 6, 7) => LeadTo(Memory, w, c, f[1], f[7])
         /\ Len(w) = 8 /\ Link(w, f, 0, 3, 4) /\ Link(w, f, 0, 4, 5) /\ Link(w, f, 0, 5, 6)
              /\ Link(w, f, 0, 6, 7) /\ Link(w, f, 0, 7, 8) /\ Link(w, f, 0, 8, 9)
              => LeadTo(Memory, w, c, f[1], f[9])
  <1>1. ASSUME NEW n \in Nat, Len(w) = n, NEW m, m = n + 1,
               \A k \in 1..n : Link(w, f, IF k = 1 THEN c ELSE 0, k, k + 1)
        PROVE  LeadTo(Memory, w, c, f[1], f[m])
    <2>1. \A k \in 1..Len(w) : Step(Memory, w[k], IF k = 1 THEN c ELSE 0, f[k], f[k + 1])
      BY <1>1 DEF Link
    <2>2. f[Len(w) + 1] = f[m]
      BY <1>1
    <2> QED BY <2>1, <2>2 DEF LeadTo
  <1>2. CASE Len(w) = 2
    <2>1. \A k \in 1..2 : Link(w, f, IF k = 1 THEN c ELSE 0, k, k + 1)
      OBVIOUS
    <2> QED BY <1>1, <1>2, <2>1
  <1>3. CASE Len(w) = 3 /\ Link(w, f, 0, 3, 4)
    <2>1. \A k \in 1..3 : Link(w, f, IF k = 1 THEN c ELSE 0, k, k + 1)
      BY <1>3
    <2> QED BY <1>1, <1>3, <2>1
  <1>4. CASE Len(w) = 6 /\ Link(w, f, 0, 3, 4) /\ Link(w, f, 0, 4, 5) /\ Link(w, f, 0, 5, 6)
               /\ Link(w, f, 0, 6, 7)
    <2>1. \A k \in 1..6 : Link(w, f, IF k = 1 THEN c ELSE 0, k, k + 1)
      BY <1>4
    <2> QED BY <1>1, <1>4, <2>1
  <1>5. CASE Len(w) = 8 /\ Link(w, f, 0, 3, 4) /\ Link(w, f, 0, 4, 5) /\ Link(w, f, 0, 5, 6)
               /\ Link(w, f, 0, 6, 7) /\ Link(w, f, 0, 7, 8) /\ Link(w, f, 0, 8, 9)
    <2>1. \A k \in 1..8 : Link(w, f, IF k = 1 THEN c ELSE 0, k, k + 1)
      BY <1>5
    <2> QED BY <1>1, <1>5, <2>1
  <1> QED BY <1>2, <1>3, <1>4, <1>5

LEMMA FreshChains ==
  ASSUME NEW w, IsSeq(w), Moves(w[1]), FreshStep(w[1]), FreshStep(w[2])
  PROVE  /\ Len(w) = 2 => Fresh(w)
         /\ Len(w) = 3 /\ FreshStep(w[3]) => Fresh(w)
         /\ Len(w) = 6 /\ FreshStep(w[3]) /\ FreshStep(w[4]) /\ FreshStep(w[5])
              /\ FreshStep(w[6]) => Fresh(w)
         /\ Len(w) = 8 /\ FreshStep(w[3]) /\ FreshStep(w[4]) /\ FreshStep(w[5])
              /\ FreshStep(w[6]) /\ FreshStep(w[7]) /\ FreshStep(w[8]) => Fresh(w)
  <1>1. SUFFICES ASSUME \/ Len(w) = 2
                        \/ Len(w) = 3 /\ FreshStep(w[3])
                        \/ Len(w) = 6 /\ FreshStep(w[3]) /\ FreshStep(w[4]) /\ FreshStep(w[5])
                             /\ FreshStep(w[6])
                        \/ Len(w) = 8 /\ FreshStep(w[3]) /\ FreshStep(w[4]) /\ FreshStep(w[5])
                             /\ FreshStep(w[6]) /\ FreshStep(w[7]) /\ FreshStep(w[8])
                 PROVE  w # << >> /\ \A k \in 1..Len(w) : FreshStep(w[k])
    BY DEF Fresh, FreshStep
  <1> QED BY <1>1

LEMMA DefinitionUnfolds ==
  ASSUME CursorInv, ParseDefinition
  PROVE  Throw \/ Unfolds
  <1>1. ASSUME NEW t, NEW u, Step(Memory, Top, it, t, u)
        PROVE  u = t
    BY <1>1 DEF ParseDefinition, Called, Running, Step, ParseLeads
  <1>2. CASE Check("defn")
    <2> DEFINE w == <<Expect("defn"), ExpectName("lower"), NamesWhile("lower"), Expect("="),
                      Expect("{"), Parse("expression"), Expect("}"), Make("defn", it)>>
    <2>1. Len(w) = 8 /\ IsSeq(w)
      BY TuplesAreSeqs
    <2>2. /\ w[1] = Expect("defn") /\ w[2] = ExpectName("lower")
          /\ w[3] = NamesWhile("lower") /\ w[4] = Expect("=") /\ w[5] = Expect("{")
          /\ w[6] = Parse("expression") /\ w[7] = Expect("}") /\ w[8] = Make("defn", it)
      OBVIOUS
    <2>3. Do(w)
      BY <1>2 DEF ParseDefinition, Throw, Do, CheckAny, Check
    <2> HIDE DEF w
    <2>4. Fresh(w)
      BY <2>1, <2>2, FreshSteps, FreshChains
    <2>5. ASSUME NEW t
          PROVE  LeadTo(Memory, w, it, t, t)
      <3> DEFINE t2 == <<t, NameAt("lower", 0)>>
                 t3 == <<t2, NamesOf("lower")>>
                 t4 == <<t3, After(0, 0)>>
                 f  == <<t, t, t2, t3, t3, t3, t4, t4, t>>
      <3>1. MakeLeads(Memory, "defn", it, t4, t) /\ it \in Nat \ {0}
        <4>1. it \in Nat \ {0} /\ tokens[it] = Token("defn")
          BY <1>2, SymbolToken DEF Symbols
        <4> QED BY <4>1 DEF MakeLeads, Memory
      <3> HIDE DEF t2, t3, t4
      <3>2. /\ f[1] = t /\ f[2] = t /\ f[3] = t2 /\ f[4] = t3 /\ f[5] = t3 /\ f[6] = t3
            /\ f[7] = t4 /\ f[8] = t4 /\ f[9] = t
        OBVIOUS
      <3> HIDE DEF f
      <3>3. Link(w, f, it, 1, 2) /\ Link(w, f, 0, 4, 5) /\ Link(w, f, 0, 5, 6)
            /\ Link(w, f, 0, 7, 8)
        BY <2>2, <3>2, ExpectLeads DEF Link
      <3>4. Link(w, f, 0, 2, 3)
        BY <2>2, <3>2, ExpectNameLeads DEF Link, t2
      <3>5. Link(w, f, 0, 3, 4)
        BY <2>2, <3>2, NamesWhileLeads DEF Link, t3
      <3>6. Link(w, f, 0, 6, 7)
        BY <2>2, <3>2, AnyExpression, ExpressionLeads DEF Link, t4
      <3>7. Link(w, f, 0, 8, 9)
        BY <2>2, <3>1, <3>2, MakesLead DEF Link
      <3> QED BY <2>1, <3>2, <3>3, <3>4, <3>5, <3>6, <3>7, Chains
    <2> QED BY <1>1, <2>3, <2>4, <2>5 DEF Unfolds, Replaces
  <1>3. CASE Check("data")
    <2> DEFINE w == <<Expect("data"), ExpectName("upper"), Expect("="), Expect("{"),
                      Parse("constructor"), List("constructor", 1), Expect("}"),
                      Make("data", it)>>
    <2>1. Len(w) = 8 /\ IsSeq(w)
      BY TuplesAreSeqs
    <2>2. /\ w[1] = Expect("data") /\ w[2] = ExpectName("upper") /\ w[3] = Expect("=")
          /\ w[4] = Expect("{") /\ w[5] = Parse("constructor")
          /\ w[6] = List("constructor", 1) /\ w[7] = Expect("}") /\ w[8] = Make("data", it)
      OBVIOUS
    <2>3. Do(w)
      BY <1>3 DEF ParseDefinition, Throw, Do, CheckAny, Check
    <2> HIDE DEF w
    <2>4. Fresh(w)
      BY <2>1, <2>2, FreshSteps, FreshChains
    <2>5. ASSUME NEW t
          PROVE  LeadTo(Memory, w, it, t, t)
      <3> DEFINE t2 == <<t, NameAt("upper", 0)>>
                 t3 == <<t2, One("constructor")>>
                 t4 == <<t2, Many("constructor")>>
                 f  == <<t, t, t2, t2, t2, t3, t4, t4, t>>
      <3>1. MakeLeads(Memory, "data", it, t4, t) /\ it \in Nat \ {0}
        <4>1. it \in Nat \ {0} /\ tokens[it] = Token("data")
          BY <1>3, SymbolToken DEF Symbols
        <4> QED BY <4>1 DEF MakeLeads, Memory
      <3>2. Step(Memory, List("constructor", 1), 0, t3, t4)
        <4> HIDE DEF t2
        <4> QED BY PiledOnce, ListLeads
      <3> HIDE DEF t2, t3, t4
      <3>3. /\ f[1] = t /\ f[2] = t /\ f[3] = t2 /\ f[4] = t2 /\ f[5] = t2 /\ f[6] = t3
            /\ f[7] = t4 /\ f[8] = t4 /\ f[9] = t
        OBVIOUS
      <3> HIDE DEF f
      <3>4. Link(w, f, it, 1, 2) /\ Link(w, f, 0, 3, 4) /\ Link(w, f, 0, 4, 5)
            /\ Link(w, f, 0, 7, 8)
        BY <2>2, <3>3, ExpectLeads DEF Link
      <3>5. Link(w, f, 0, 2, 3)
        BY <2>2, <3>3, ExpectNameLeads DEF Link, t2
      <3>6. Link(w, f, 0, 5, 6)
        BY <2>2, <3>3, OneLeads DEF Link, t3
      <3>7. Link(w, f, 0, 6, 7)
        BY <2>2, <3>2, <3>3 DEF Link
      <3>8. Link(w, f, 0, 8, 9)
        BY <2>2, <3>1, <3>3, MakesLead DEF Link
      <3> QED BY <2>1, <3>3, <3>4, <3>5, <3>6, <3>7, <3>8, Chains
    <2> QED BY <1>1, <2>3, <2>4, <2>5 DEF Unfolds, Replaces
  <1> QED BY <1>2, <1>3 DEF ParseDefinition

LEMMA ConstructorUnfolds ==
  ASSUME CursorInv, ParseConstructor
  PROVE  Unfolds
  <1>1. ASSUME NEW t, NEW u, Step(Memory, Top, it, t, u)
        PROVE  u = <<t, One("constructor")>>
    BY <1>1 DEF ParseConstructor, Called, Running, Step, ParseLeads
  <1> DEFINE w == <<ExpectName("upper"), NamesWhile("upper"), Make("constructor", it)>>
  <1>2. Len(w) = 3 /\ IsSeq(w)
    BY TuplesAreSeqs
  <1>3. w[1] = ExpectName("upper") /\ w[2] = NamesWhile("upper") /\ w[3] = Make("constructor", it)
    OBVIOUS
  <1>4. Do(w)
    BY DEF ParseConstructor
  <1> HIDE DEF w
  <1>5. Fresh(w)
    BY <1>2, <1>3, FreshSteps, FreshChains
  <1>6. ASSUME NEW t
        PROVE  LeadTo(Memory, w, it, t, <<t, One("constructor")>>)
    <2> DEFINE t2 == <<t, NameAt("upper", it)>>
               t3 == <<t2, NamesOf("upper")>>
               t4 == <<t, One("constructor")>>
               f  == <<t, t2, t3, t4>>
    <2>1. MakeLeads(Memory, "constructor", it, t3, t4) /\ it \in Nat \ {0}
      BY DEF MakeLeads, CursorInv
    <2> HIDE DEF t2, t3, t4
    <2>2. f[1] = t /\ f[2] = t2 /\ f[3] = t3 /\ f[4] = t4
      OBVIOUS
    <2> HIDE DEF f
    <2>3. Link(w, f, it, 1, 2)
      BY <1>3, <2>2, ExpectNameLeads DEF Link, t2
    <2>4. Link(w, f, 0, 2, 3)
      BY <1>3, <2>2, NamesWhileLeads DEF Link, t3
    <2>5. Link(w, f, 0, 3, 4)
      BY <1>3, <2>1, <2>2, MakesLead DEF Link
    <2>6. LeadTo(Memory, w, it, t, t4)
      BY <1>2, <2>2, <2>3, <2>4, <2>5, Chains
    <2> QED BY <2>6 DEF t4
  <1> QED BY <1>1, <1>4, <1>5, <1>6 DEF Unfolds, Replaces

(* Another node of a list follows. *)
ListGoesOn ==
  /\ Running("list")
  /\ \/ Top.what = "constructor" /\ Check(",")
     \/ Top.what = "branch" /\ ~Check("}") /\ ~AtEnd

LEMMA ListUnfolds ==
  ASSUME CursorInv, ParseList, ListGoesOn
  PROVE  Unfolds
  <1> DEFINE k == Top.what
             n == Top.count
  <1>1. Top.do = "list"
    BY DEF ListGoesOn, Running
  <1>2. ASSUME NEW t, NEW u, Step(Memory, Top, it, t, u)
        PROVE  /\ k \in {"constructor", "branch"} /\ n \in Nat \ {0}
               /\ \E r : Piled(n, One(k), r, t) /\ u = <<r, Many(k)>>
    BY <1>1, <1>2 DEF Step
  <1>3. ASSUME NEW c, NEW t, NEW u, Step(Memory, Top, it, t, u)
        PROVE  /\ Step(Memory, Parse(k), c, t, <<t, One(k)>>)
               /\ Step(Memory, List(k, n + 1), 0, <<t, One(k)>>, u)
    <2>1. PICK r : Piled(n, One(k), r, t) /\ u = <<r, Many(k)>>
      BY <1>2, <1>3
    <2>2. k \in {"constructor", "branch"} /\ n \in Nat \ {0}
      BY <1>2, <1>3
    <2> HIDE DEF k, n
    <2>3. Piled(n + 1, One(k), r, <<t, One(k)>>) /\ n + 1 \in Nat \ {0}
      BY <2>1, <2>2, PiledMore
    <2>4. Step(Memory, List(k, n + 1), 0, <<t, One(k)>>, u)
      BY <2>1, <2>2, <2>3, ListLeads
    <2> QED BY <2>2, <2>4, OneLeads
  <1>4. CASE k = "constructor" /\ Check(",")
    <2> DEFINE w == <<Expect(",")>> \o <<Parse(k), List(k, n + 1)>>
    <2>2. w = <<Expect(",")>> \o <<Parse(k), List(k, n + 1)>>
      OBVIOUS
    <2>3. Do(w)
      BY <1>4 DEF ParseList
    <2> HIDE DEF w, k, n
    <2>1. /\ Len(w) = 3 /\ IsSeq(w)
          /\ w[1] = Expect(",") /\ w[2] = Parse(k) /\ w[3] = List(k, n + 1)
      <3>1. PICK a, b, c : a = Expect(",") /\ b = Parse(k) /\ c = List(k, n + 1)
        OBVIOUS
      <3>2. w = <<a>> \o <<b, c>>
        BY <2>2, <3>1
      <3>3. w \in Seq({a, b, c})
        BY <3>2
      <3>4. Len(w) = 3 /\ w[1] = a /\ w[2] = b /\ w[3] = c
        BY <3>2
      <3> QED BY <3>1, <3>3, <3>4 DEF IsSeq
    <2>4. Fresh(w)
      BY <2>1, FreshSteps, FreshChains
    <2>5. ASSUME NEW t, NEW u, Step(Memory, Top, it, t, u)
          PROVE  LeadTo(Memory, w, it, t, u)
      <3> DEFINE t2 == <<t, One(k)>>
                 f  == <<t, t, t2, u>>
      <3>1. Step(Memory, Parse(k), 0, t, t2) /\ Step(Memory, List(k, n + 1), 0, t2, u)
        BY <1>3, <2>5
      <3> HIDE DEF t2
      <3>2. f[1] = t /\ f[2] = t /\ f[3] = t2 /\ f[4] = u
        OBVIOUS
      <3> HIDE DEF f
      <3>3. Link(w, f, it, 1, 2) /\ Link(w, f, 0, 2, 3) /\ Link(w, f, 0, 3, 4)
        BY <2>1, <3>1, <3>2, ExpectLeads DEF Link
      <3> QED BY <2>1, <3>2, <3>3, Chains
    <2> QED BY <2>3, <2>4, <2>5 DEF Unfolds, Replaces
  <1>5. CASE k = "branch" /\ ~Check("}") /\ ~AtEnd
    <2> DEFINE w == <<Parse(k), List(k, n + 1)>>
    <2>1. Len(w) = 2 /\ IsSeq(w)
      BY TuplesAreSeqs
    <2>2. w[1] = Parse(k) /\ w[2] = List(k, n + 1)
      OBVIOUS
    <2>3. Do(w)
      BY <1>5 DEF ParseList
    <2> HIDE DEF w, k, n
    <2>4. Fresh(w)
      BY <2>1, <2>2, FreshSteps, FreshChains
    <2>5. ASSUME NEW t, NEW u, Step(Memory, Top, it, t, u)
          PROVE  LeadTo(Memory, w, it, t, u)
      <3> DEFINE t2 == <<t, One(k)>>
                 f  == <<t, t2, u>>
      <3>1. Step(Memory, Parse(k), it, t, t2) /\ Step(Memory, List(k, n + 1), 0, t2, u)
        BY <1>3, <2>5
      <3> HIDE DEF t2
      <3>2. f[1] = t /\ f[2] = t2 /\ f[3] = u
        OBVIOUS
      <3> HIDE DEF f
      <3>3. Link(w, f, it, 1, 2) /\ Link(w, f, 0, 2, 3)
        BY <2>2, <3>1, <3>2 DEF Link
      <3> QED BY <2>1, <3>2, <3>3, Chains
    <2> QED BY <2>3, <2>4, <2>5 DEF Unfolds, Replaces
  <1> QED BY <1>4, <1>5 DEF ListGoesOn

LEMMA BinaryLevelUnfolds ==
  ASSUME CursorInv, ParseBinaryLevel
  PROVE  Unfolds
  <1> DEFINE l == Top.what
             w == <<Parse(Operand(l)), OperatorLoop(l)>>
  <1>1. l \in {"expression", "term"} /\ Top.do = "parse"
    BY DEF ParseBinaryLevel, Called, Running
  <1>2. ASSUME NEW t, NEW u, Step(Memory, Top, it, t, u)
        PROVE  \E x \in Afters(Memory, it) : u = <<t, x>>
    BY <1>1, <1>2 DEF Step, ParseLeads, Memory
  <1>3. Len(w) = 2 /\ IsSeq(w)
    BY TuplesAreSeqs
  <1>4. w[1] = Parse(Operand(l)) /\ w[2] = OperatorLoop(l)
    OBVIOUS
  <1>5. Do(w)
    BY DEF ParseBinaryLevel
  <1> HIDE DEF w, l
  <1>6. Fresh(w)
    BY <1>3, <1>4, FreshSteps, FreshChains
  <1>7. ASSUME NEW t, NEW x \in Afters(Memory, it)
        PROVE  LeadTo(Memory, w, it, t, <<t, x>>)
    <2> DEFINE u == <<t, x>>
               f == <<t, u, u>>
    <2>1. f[1] = t /\ f[2] = u /\ f[3] = u
      OBVIOUS
    <2> HIDE DEF f
    <2>2. Operand(l) \in {"expression", "term", "application", "primary"}
      BY DEF Operand
    <2>3. Link(w, f, it, 1, 2)
      BY <1>4, <2>1, <2>2, ExpressionLeads DEF Link
    <2>4. Step(Memory, OperatorLoop(l), 0, u, u)
      BY DEF Step, OperatorLoop, Memory
    <2>5. Link(w, f, 0, 2, 3)
      BY <1>4, <2>1, <2>4 DEF Link
    <2> QED BY <1>3, <2>1, <2>3, <2>5, Chains
  <1> QED BY <1>2, <1>5, <1>6, <1>7 DEF Unfolds, Replaces

LEMMA ApplicationUnfolds ==
  ASSUME CursorInv, ParseApplication
  PROVE  Unfolds
  <1> DEFINE w == <<Parse("primary"), ArgumentLoop>>
  <1>1. ASSUME NEW t, NEW u, Step(Memory, Top, it, t, u)
        PROVE  \E x \in Afters(Memory, it) : u = <<t, x>>
    BY <1>1 DEF ParseApplication, Called, Running, Step, ParseLeads, Memory
  <1>3. Len(w) = 2 /\ IsSeq(w)
    BY TuplesAreSeqs
  <1>4. w[1] = Parse("primary") /\ w[2] = ArgumentLoop
    OBVIOUS
  <1>5. Do(w)
    BY DEF ParseApplication
  <1> HIDE DEF w
  <1>6. Fresh(w)
    BY <1>3, <1>4, FreshSteps, FreshChains
  <1>7. ASSUME NEW t, NEW x \in Afters(Memory, it)
        PROVE  LeadTo(Memory, w, it, t, <<t, x>>)
    <2> DEFINE u == <<t, x>>
               f == <<t, u, u>>
    <2>1. f[1] = t /\ f[2] = u /\ f[3] = u
      OBVIOUS
    <2> HIDE DEF f
    <2>2. Link(w, f, it, 1, 2)
      BY <1>4, <2>1, ExpressionLeads DEF Link
    <2>3. Step(Memory, ArgumentLoop, 0, u, u)
      BY DEF Step, ArgumentLoop, Memory
    <2>4. Link(w, f, 0, 2, 3)
      BY <1>4, <2>1, <2>3 DEF Link
    <2> QED BY <1>3, <2>1, <2>2, <2>4, Chains
  <1> QED BY <1>1, <1>5, <1>6, <1>7 DEF Unfolds, Replaces

(* The expression on top ends before the next token. *)
LEMMA TopIsBefore ==
  ASSUME CursorInv, NEW r, NEW x \in Afters(Memory, it),
         Shape(Memory, parsed, Len(parsed), <<r, x>>)
  PROVE  Shape(Memory, parsed, Len(parsed), <<r, Before(NextId, it)>>)
  <1> DEFINE n == Len(parsed)
             y == Before(NextId, it)
  <1>1. n \in Nat
    BY SeqOfElements DEF CursorInv
  <1> HIDE DEF n
  <1>2. n > 0 /\ Shape(Memory, parsed, n - 1, r) /\ Fits(Memory, parsed[n], x)
    BY <1>1, ShapePop DEF n
  <1>3. x.sort = "after"
    BY DEF Afters, After
  <1>4. IsNodeItem(Memory, parsed[n], Expressions)
    BY <1>2, <1>3 DEF Fits
  <1>5. parsed[n].value < NextId /\ positions[parsed[n].value] < it
    <2>1. /\ parsed[n].value \in 1..Len(nodes) /\ Len(nodes) \in Nat /\ it \in Nat
          /\ DOMAIN nodes = 1..Len(nodes)
      BY <1>4, SeqOfElements DEF IsNodeItem, Memory, CursorInv
    <2>2. positions[parsed[n].value] \in 1..(it - 1)
      BY <2>1 DEF CursorInv
    <2> QED BY <2>1, <2>2 DEF NextId
  <1>6. Fits(Memory, parsed[n], y)
    BY <1>4, <1>5 DEF Fits, Before, Memory
  <1>7. n - 1 \in Nat /\ n - 1 + 1 = n
    BY <1>1, <1>2
  <1>8. Shape(Memory, parsed, n - 1 + 1, <<r, y>>)
    <2> HIDE DEF y
    <2> QED BY <1>2, <1>6, <1>7, ShapePush
  <1> QED BY <1>7, <1>8 DEF n

LEMMA NothingUnfolds ==
  ASSUME Do(<< >>), ~Moves(Top), \A t, u : Step(Memory, Top, it, t, u) => u = t
  PROVE  Unfolds
  <1>1. Fresh(<< >>)
    BY TuplesAreSeqs DEF Fresh
  <1>2. ASSUME NEW t
        PROVE  LeadTo(Memory, << >>, it, t, t)
    <2> DEFINE f == [k \in {1} |-> t]
    <2>1. f[1] = t /\ Len(<< >>) = 0 /\ 1..0 = {} /\ 0 + 1 = 1
      OBVIOUS
    <2> HIDE DEF f
    <2> QED BY <2>1 DEF LeadTo
  <1> QED BY <1>1, <1>2 DEF Unfolds, Replaces

LEMMA ArgumentUnfolds ==
  ASSUME CursorInv, ParseArgument
  PROVE  Unfolds
  <1>1. ASSUME NEW t, NEW u, Step(Memory, Top, it, t, u)
        PROVE  u = t /\ \E r : \E x \in Afters(Memory, it) : t = <<r, x>>
    BY <1>1 DEF ParseArgument, Running, Step, Memory
  <1>2. CASE ~CheckAny(PrimaryStart)
    <2>1. Do(<< >>)
      BY <1>2 DEF ParseArgument
    <2>2. ~Moves(Top)
      BY DEF ParseArgument, Running, Moves
    <2> QED BY <1>1, <2>1, <2>2, NothingUnfolds
  <1>3. CASE CheckAny(PrimaryStart)
    <2> DEFINE w == <<Parse("primary"), Make("application", it), ArgumentLoop>>
    <2>1. Len(w) = 3 /\ IsSeq(w)
      BY TuplesAreSeqs
    <2>2. w[1] = Parse("primary") /\ w[2] = Make("application", it) /\ w[3] = ArgumentLoop
      OBVIOUS
    <2>3. Do(w)
      BY <1>3 DEF ParseArgument
    <2> HIDE DEF w
    <2>4. Fresh(w)
      BY <2>1, <2>2, FreshSteps, FreshChains
    <2>5. ASSUME NEW r, NEW x \in Afters(Memory, it)
          PROVE  LeadTo(Memory, w, it, <<r, Before(NextId, it)>>, <<r, x>>)
      <3> DEFINE t1 == <<r, Before(NextId, it)>>
                 t2 == <<t1, After(0, it - 1)>>
                 t3 == <<r, x>>
                 f  == <<t1, t2, t3, t3>>
      <3>1. it \in Nat \ {0} /\ tokens[it].kind \in PrimaryStart
        BY <1>3 DEF CheckAny, CursorInv
      <3>2. MakeLeads(Memory, "application", it, t2, t3)
        BY <3>1 DEF MakeLeads, Memory
      <3>3. After(0, it - 1) \in Afters(Memory, it)
        <4>1. Len(nodes) \in Nat
          BY SeqOfElements DEF CursorInv
        <4>2. 0 \in 0..Len(nodes) /\ it - 1 \in 0..(it - 1)
          BY <3>1, <4>1
        <4> QED BY <4>2 DEF Afters, Memory
      <3>4. Step(Memory, ArgumentLoop, 0, t3, t3)
        <4> HIDE DEF t1, t2
        <4> QED BY DEF Step, ArgumentLoop, Memory
      <3> HIDE DEF t1, t2, t3
      <3>5. f[1] = t1 /\ f[2] = t2 /\ f[3] = t3 /\ f[4] = t3
        OBVIOUS
      <3> HIDE DEF f
      <3>6. Link(w, f, it, 1, 2)
        BY <2>2, <3>3, <3>5, ExpressionLeads DEF Link, t2
      <3>7. Link(w, f, 0, 2, 3)
        BY <2>2, <3>1, <3>2, <3>5, MakesLead DEF Link
      <3>8. Link(w, f, 0, 3, 4)
        BY <2>2, <3>4, <3>5 DEF Link
      <3>9. LeadTo(Memory, w, it, t1, t3)
        BY <2>1, <3>5, <3>6, <3>7, <3>8, Chains
      <3> QED BY <3>9 DEF t1, t3
    <2>6. Replaces(w)
      <3>1. SUFFICES ASSUME NEW t, NEW u, Shape(Memory, parsed, Len(parsed), t),
                            Step(Memory, Top, it, t, u)
                     PROVE  \E s : /\ Shape(Memory, parsed, Len(parsed), s)
                                   /\ LeadTo(Memory, w, it, s, u)
        BY DEF Replaces
      <3>2. PICK r, x : x \in Afters(Memory, it) /\ t = <<r, x>> /\ u = t
        BY <1>1, <3>1
      <3>3. Shape(Memory, parsed, Len(parsed), <<r, Before(NextId, it)>>)
        BY <3>1, <3>2, TopIsBefore
      <3> QED BY <2>5, <3>2, <3>3
    <2> QED BY <2>3, <2>4, <2>6 DEF Unfolds
  <1> QED BY <1>2, <1>3

LEMMA PrimaryUnfolds ==
  ASSUME CursorInv, ParsePrimary
  PROVE  Throw \/ Unfolds
  <1>1. ASSUME NEW t, NEW u, Step(Memory, Top, it, t, u)
        PROVE  \E x \in Afters(Memory, it) : u = <<t, x>>
    BY <1>1 DEF ParsePrimary, Called, Running, Step, ParseLeads, Memory
  <1>2. CASE Check("(") /\ Do(<<Expect("("), Parse("expression"), Expect(")")>>)
    <2> DEFINE w == <<Expect("("), Parse("expression"), Expect(")")>>
    <2>1. Len(w) = 3 /\ IsSeq(w)
      BY TuplesAreSeqs
    <2>2. w[1] = Expect("(") /\ w[2] = Parse("expression") /\ w[3] = Expect(")")
      OBVIOUS
    <2>3. Do(w)
      BY <1>2
    <2> HIDE DEF w
    <2>4. Fresh(w)
      BY <2>1, <2>2, FreshSteps, FreshChains
    <2>5. ASSUME NEW t, NEW x \in Afters(Memory, it)
          PROVE  LeadTo(Memory, w, it, t, <<t, x>>)
      <3> DEFINE u == <<t, x>>
                 f == <<t, t, u, u>>
      <3>1. f[1] = t /\ f[2] = t /\ f[3] = u /\ f[4] = u
        OBVIOUS
      <3> HIDE DEF f
      <3>2. Link(w, f, it, 1, 2) /\ Link(w, f, 0, 3, 4)
        <4> HIDE DEF u
        <4> QED BY <2>2, <3>1, ExpectLeads DEF Link
      <3>3. Link(w, f, 0, 2, 3)
        BY <2>2, <3>1, ExpressionLeads DEF Link
      <3> QED BY <2>1, <3>1, <3>2, <3>3, Chains
    <2> QED BY <1>1, <2>3, <2>4, <2>5 DEF Unfolds, Replaces
  <1>3. ASSUME NEW k \in {"int", "lower", "upper"}, NEW m \in {"int", "variable"},
               m = "int" <=> k = "int", Do(<<ExpectName(k), Make(m, it)>>)
        PROVE  Unfolds
    <2> DEFINE w == <<ExpectName(k), Make(m, it)>>
    <2>1. Len(w) = 2 /\ IsSeq(w)
      BY TuplesAreSeqs
    <2>2. w[1] = ExpectName(k) /\ w[2] = Make(m, it)
      OBVIOUS
    <2>3. Do(w)
      BY <1>3
    <2> HIDE DEF w
    <2>4. Fresh(w)
      BY <2>1, <2>2, FreshSteps, FreshChains
    <2>5. ASSUME NEW t, NEW x \in Afters(Memory, it)
          PROVE  LeadTo(Memory, w, it, t, <<t, x>>)
      <3> DEFINE t2 == <<t, NameAt(k, it)>>
                 t3 == <<t, x>>
                 f  == <<t, t2, t3>>
      <3>1. it \in Nat \ {0}
        BY DEF CursorInv
      <3>2. MakeLeads(Memory, m, it, t2, t3)
        BY <1>3 DEF MakeLeads
      <3> HIDE DEF t2, t3
      <3>3. f[1] = t /\ f[2] = t2 /\ f[3] = t3
        OBVIOUS
      <3> HIDE DEF f
      <3>4. Link(w, f, it, 1, 2)
        BY <2>2, <3>3, ExpectNameLeads DEF Link, t2
      <3>5. Link(w, f, 0, 2, 3)
        BY <2>2, <3>1, <3>2, <3>3, MakesLead DEF Link
      <3>6. LeadTo(Memory, w, it, t, t3)
        BY <2>1, <3>3, <3>4, <3>5, Chains
      <3> QED BY <3>6 DEF t3
    <2> QED BY <1>1, <2>3, <2>4, <2>5 DEF Unfolds, Replaces
  <1>4. CASE /\ Check("case")
             /\ Do(<<Expect("case"), Parse("expression"), Expect("of"), Expect("{"),
                     Parse("branch"), List("branch", 1), Expect("}"), Make("case", it)>>)
    <2> DEFINE w == <<Expect("case"), Parse("expression"), Expect("of"), Expect("{"),
                      Parse("branch"), List("branch", 1), Expect("}"), Make("case", it)>>
    <2>1. Len(w) = 8 /\ IsSeq(w)
      BY TuplesAreSeqs
    <2>2. /\ w[1] = Expect("case") /\ w[2] = Parse("expression") /\ w[3] = Expect("of")
          /\ w[4] = Expect("{") /\ w[5] = Parse("branch") /\ w[6] = List("branch", 1)
          /\ w[7] = Expect("}") /\ w[8] = Make("case", it)
      OBVIOUS
    <2>3. Do(w)
      BY <1>4
    <2> HIDE DEF w
    <2>4. Fresh(w)
      BY <2>1, <2>2, FreshSteps, FreshChains
    <2>5. ASSUME NEW t, NEW x \in Afters(Memory, it)
          PROVE  LeadTo(Memory, w, it, t, <<t, x>>)
      <3> DEFINE t2 == <<t, After(0, 0)>>
                 t3 == <<t2, One("branch")>>
                 t4 == <<t2, Many("branch")>>
                 t5 == <<t, x>>
                 f  == <<t, t, t2, t2, t2, t3, t4, t4, t5>>
      <3>1. MakeLeads(Memory, "case", it, t4, t5) /\ it \in Nat \ {0}
        <4>1. it \in Nat \ {0} /\ tokens[it] = Token("case")
          BY <1>4, SymbolToken DEF Symbols
        <4> QED BY <4>1 DEF MakeLeads, Memory
      <3>2. Step(Memory, List("branch", 1), 0, t3, t4)
        <4> HIDE DEF t2
        <4> QED BY PiledOnce, ListLeads
      <3> HIDE DEF t2, t3, t4, t5
      <3>3. /\ f[1] = t /\ f[2] = t /\ f[3] = t2 /\ f[4] = t2 /\ f[5] = t2 /\ f[6] = t3
            /\ f[7] = t4 /\ f[8] = t4 /\ f[9] = t5
        OBVIOUS
      <3> HIDE DEF f
      <3>4. Link(w, f, it, 1, 2) /\ Link(w, f, 0, 3, 4) /\ Link(w, f, 0, 4, 5)
            /\ Link(w, f, 0, 7, 8)
        BY <2>2, <3>3, ExpectLeads DEF Link
      <3>5. Link(w, f, 0, 2, 3)
        BY <2>2, <3>3, AnyExpression, ExpressionLeads DEF Link, t2
      <3>6. Link(w, f, 0, 5, 6)
        BY <2>2, <3>3, OneLeads DEF Link, t3
      <3>7. Link(w, f, 0, 6, 7)
        BY <2>2, <3>2, <3>3 DEF Link
      <3>8. Link(w, f, 0, 8, 9)
        BY <2>2, <3>1, <3>3, MakesLead DEF Link
      <3>9. LeadTo(Memory, w, it, t, t5)
        BY <2>1, <3>3, <3>4, <3>5, <3>6, <3>7, <3>8, Chains
      <3> QED BY <3>9 DEF t5
    <2> QED BY <1>1, <2>3, <2>4, <2>5 DEF Unfolds, Replaces
  <1>5. CASE Check("int") /\ Do(<<ExpectName("int"), Make("int", it)>>)
    BY <1>3, <1>5
  <1>6. CASE /\ CheckAny({"lower", "upper"})
             /\ Do(<<ExpectName(tokens[it].kind), Make("variable", it)>>)
    <2>1. tokens[it].kind \in {"lower", "upper"}
      BY <1>6 DEF CheckAny
    <2> QED BY <1>3, <1>6, <2>1
  <1> QED BY <1>2, <1>4, <1>5, <1>6 DEF ParsePrimary

LEMMA BranchUnfolds ==
  ASSUME CursorInv, ParseBranch
  PROVE  Unfolds
  <1>1. ASSUME NEW t, NEW u, Step(Memory, Top, it, t, u)
        PROVE  u = <<t, One("branch")>>
    BY <1>1 DEF ParseBranch, Called, Running, Step, ParseLeads
  <1> DEFINE w == <<Parse("pattern"), Expect("->"), Expect("{"), Parse("expression"),
                    Expect("}"), Make("branch", it)>>
  <1>2. Len(w) = 6 /\ IsSeq(w)
    BY TuplesAreSeqs
  <1>3. /\ w[1] = Parse("pattern") /\ w[2] = Expect("->") /\ w[3] = Expect("{")
        /\ w[4] = Parse("expression") /\ w[5] = Expect("}") /\ w[6] = Make("branch", it)
    OBVIOUS
  <1>4. Do(w)
    BY DEF ParseBranch
  <1> HIDE DEF w
  <1>5. Fresh(w)
    BY <1>2, <1>3, FreshSteps, FreshChains
  <1>6. ASSUME NEW t
        PROVE  LeadTo(Memory, w, it, t, <<t, One("branch")>>)
    <2> DEFINE t2 == <<t, PatternAt(it)>>
               t3 == <<t2, After(0, 0)>>
               t4 == <<t, One("branch")>>
               f  == <<t, t2, t2, t2, t3, t3, t4>>
    <2>1. MakeLeads(Memory, "branch", it, t3, t4) /\ it \in Nat \ {0}
      BY DEF MakeLeads, CursorInv
    <2>2. Step(Memory, Parse("pattern"), it, t, t2)
      BY <2>1 DEF Step, Parse, ParseLeads
    <2> HIDE DEF t2, t3, t4
    <2>3. /\ f[1] = t /\ f[2] = t2 /\ f[3] = t2 /\ f[4] = t2 /\ f[5] = t3 /\ f[6] = t3
          /\ f[7] = t4
      OBVIOUS
    <2> HIDE DEF f
    <2>4. Link(w, f, it, 1, 2)
      BY <1>3, <2>2, <2>3 DEF Link
    <2>5. Link(w, f, 0, 2, 3) /\ Link(w, f, 0, 3, 4) /\ Link(w, f, 0, 5, 6)
      BY <1>3, <2>3, ExpectLeads DEF Link
    <2>6. Link(w, f, 0, 4, 5)
      BY <1>3, <2>3, AnyExpression, ExpressionLeads DEF Link, t3
    <2>7. Link(w, f, 0, 6, 7)
      BY <1>3, <2>1, <2>3, MakesLead DEF Link
    <2>8. LeadTo(Memory, w, it, t, t4)
      BY <1>2, <2>3, <2>4, <2>5, <2>6, <2>7, Chains
    <2> QED BY <2>8 DEF t4
  <1> QED BY <1>1, <1>4, <1>5, <1>6 DEF Unfolds, Replaces

LEMMA PatternUnfolds ==
  ASSUME CursorInv, ParsePattern
  PROVE  Throw \/ Unfolds
  <1>1. ASSUME NEW t, NEW u, Step(Memory, Top, it, t, u)
        PROVE  u = <<t, PatternAt(it)>>
    BY <1>1 DEF ParsePattern, Called, Running, Step, ParseLeads
  <1>2. it \in Nat \ {0}
    BY DEF CursorInv
  <1>3. CASE Check("lower") /\ Do(<<ExpectName("lower"), Make("variable_pattern", it)>>)
    <2> DEFINE w == <<ExpectName("lower"), Make("variable_pattern", it)>>
    <2>1. Len(w) = 2 /\ IsSeq(w)
      BY TuplesAreSeqs
    <2>2. w[1] = ExpectName("lower") /\ w[2] = Make("variable_pattern", it)
      OBVIOUS
    <2>3. Do(w)
      BY <1>3
    <2> HIDE DEF w
    <2>4. Fresh(w)
      BY <2>1, <2>2, FreshSteps, FreshChains
    <2>5. ASSUME NEW t
          PROVE  LeadTo(Memory, w, it, t, <<t, PatternAt(it)>>)
      <3> DEFINE t2 == <<t, NameAt("lower", it)>>
                 t3 == <<t, PatternAt(it)>>
                 f  == <<t, t2, t3>>
      <3>1. MakeLeads(Memory, "variable_pattern", it, t2, t3)
        BY DEF MakeLeads
      <3> HIDE DEF t2, t3
      <3>2. f[1] = t /\ f[2] = t2 /\ f[3] = t3
        OBVIOUS
      <3> HIDE DEF f
      <3>3. Link(w, f, it, 1, 2)
        BY <2>2, <3>2, ExpectNameLeads DEF Link, t2
      <3>4. Link(w, f, 0, 2, 3)
        BY <1>2, <2>2, <3>1, <3>2, MakesLead DEF Link
      <3>5. LeadTo(Memory, w, it, t, t3)
        BY <2>1, <3>2, <3>3, <3>4, Chains
      <3> QED BY <3>5 DEF t3
    <2> QED BY <1>1, <2>3, <2>4, <2>5 DEF Unfolds, Replaces
  <1>4. CASE /\ Check("upper")
             /\ Do(<<ExpectName("upper"), NamesWhile("lower"),
                     Make("constructor_pattern", it)>>)
    <2> DEFINE w == <<ExpectName("upper"), NamesWhile("lower"),
                      Make("constructor_pattern", it)>>
    <2>1. Len(w) = 3 /\ IsSeq(w)
      BY TuplesAreSeqs
    <2>2. /\ w[1] = ExpectName("upper") /\ w[2] = NamesWhile("lower")
          /\ w[3] = Make("constructor_pattern", it)
      OBVIOUS
    <2>3. Do(w)
      BY <1>4
    <2> HIDE DEF w
    <2>4. Fresh(w)
      BY <2>1, <2>2, FreshSteps, FreshChains
    <2>5. ASSUME NEW t
          PROVE  LeadTo(Memory, w, it, t, <<t, PatternAt(it)>>)
      <3> DEFINE t2 == <<t, NameAt("upper", it)>>
                 t3 == <<t2, NamesOf("lower")>>
                 t4 == <<t, PatternAt(it)>>
                 f  == <<t, t2, t3, t4>>
      <3>1. MakeLeads(Memory, "constructor_pattern", it, t3, t4)
        BY DEF MakeLeads
      <3> HIDE DEF t2, t3, t4
      <3>2. f[1] = t /\ f[2] = t2 /\ f[3] = t3 /\ f[4] = t4
        OBVIOUS
      <3> HIDE DEF f
      <3>3. Link(w, f, it, 1, 2)
        BY <2>2, <3>2, ExpectNameLeads DEF Link, t2
      <3>4. Link(w, f, 0, 2, 3)
        BY <2>2, <3>2, NamesWhileLeads DEF Link, t3
      <3>5. Link(w, f, 0, 3, 4)
        BY <1>2, <2>2, <3>1, <3>2, MakesLead DEF Link
      <3>6. LeadTo(Memory, w, it, t, t4)
        BY <2>1, <3>2, <3>3, <3>4, <3>5, Chains
      <3> QED BY <3>6 DEF t4
    <2> QED BY <1>1, <2>3, <2>4, <2>5 DEF Unfolds, Replaces
  <1> QED BY <1>3, <1>4 DEF ParsePattern

-----------------------------------------------------------------------------
(***************************************************************************)
(* The actions, by what they do to what is parsed and to the nodes.        *)
(***************************************************************************)
Stays ==
  /\ UNCHANGED <<tokens, it, nodes, positions, definitions, work, parsed>>
  /\ outcome' \in {"parsing", "accepted", "refused"}
  /\ outcome' = "accepted" => outcome = "accepted" \/ work = << >>

Starts ==
  /\ outcome = "parsing" /\ work = << >> /\ work' = <<Parse("definition")>>
  /\ UNCHANGED <<tokens, it, nodes, positions, definitions, parsed, outcome>>

Calls == outcome = "parsing" /\ work # << >> /\ Top.do \notin {"make", "operator"} /\ Unfolds

(* What is consumed is kept as nothing, or as an item that owns no node. *)
Keeps(items) ==
  \A t, u :
    Step(Memory, Top, it, t, u) =>
      \/ items = << >> /\ u = t
      \/ \E e, z : /\ items = <<e>> /\ u = <<t, z>> /\ Fits(Memory, e, z)
                   /\ e.kind \notin {"node", "nodes"}

Consumes ==
  /\ outcome = "parsing" /\ work # << >> /\ Top.do \notin {"make", "operator", "list"}
  /\ \E next, items :
       /\ Consume(next, items) /\ Keeps(items) /\ IsSeq(items)
       /\ next \in it..(Len(tokens) + 1) /\ (Moves(Top) => next > it)

EndsList ==
  /\ Running("list") /\ work' = Tail(work)
  /\ parsed' = Append(Without(Top.count),
                      Item("nodes", [k \in 1..Top.count |-> Part(k, Top.count)]))
  /\ UNCHANGED <<tokens, it, nodes, positions, definitions, outcome>>

Reserves ==
  /\ Running("operators") /\ MatchOperator(Top.level)
  /\ AllocateNode(Reserved, it) /\ it' = it + 1
  /\ work' = <<Parse(Operand(Top.level)), Operator(tokens[it].kind, NextId)>> \o work
  /\ UNCHANGED <<tokens, definitions, parsed, outcome>>

LEMMA ExpectTokenConsumes ==
  ASSUME CursorInv, ExpectToken
  PROVE  Throw \/ Consumes
  <1>1. CASE Check(Top.token) /\ Consume(it + 1, << >>)
    <2>1. it + 1 \in it..(Len(tokens) + 1) /\ it + 1 > it
      BY <1>1 DEF CursorInv, IsInput, Check, CheckAny, AtEnd
    <2>2. Keeps(<< >>)
      BY DEF ExpectToken, Running, Keeps, Step
    <2>3. IsSeq(<< >>)
      BY TuplesAreSeqs
    <2>4. outcome = "parsing" /\ work # << >> /\ Top.do \notin {"make", "operator", "list"}
      BY DEF ExpectToken, Running
    <2> QED BY <1>1, <2>1, <2>2, <2>3, <2>4 DEF Consumes
  <1> QED BY <1>1 DEF ExpectToken

LEMMA ExpectTextConsumes ==
  ASSUME CursorInv, ExpectText
  PROVE  Throw \/ Consumes
  <1> DEFINE k == Top.token
             e == Item(k, Text(tokens[it]))
  <1>1. CASE Check(k) /\ Consume(it + 1, <<e>>)
    <2>1. it + 1 \in it..(Len(tokens) + 1) /\ it + 1 > it
      BY <1>1 DEF CursorInv, IsInput, Check, CheckAny, AtEnd
    <2>2. /\ tokens[it].kind = k /\ IsToken(tokens[it])
          /\ k = "lower" => tokens[it].name \in LowerNames
          /\ k = "upper" => tokens[it].name \in UpperNames
      <3>1. it \in DOMAIN tokens /\ tokens[it].kind = k
        BY <1>1 DEF CursorInv, IsInput, Check, CheckAny, AtEnd
      <3> QED BY <3>1 DEF CursorInv, IsInput
    <2>3. Keeps(<<e>>)
      <3>1. SUFFICES ASSUME NEW t, NEW u, Step(Memory, Top, it, t, u)
                     PROVE  \E z : /\ u = <<t, z>> /\ Fits(Memory, e, z)
                                   /\ e.kind \notin {"node", "nodes"}
        BY DEF Keeps
      <3>2. k \in {"int", "lower", "upper"}
        BY <3>1 DEF ExpectText, Running, Step
      <3>3. PICK p \in {0, it} : u = <<t, NameAt(k, p)>>
        BY <3>1 DEF ExpectText, Running, Step
      <3>4. tokens[it] = TokenOf(k, Text(tokens[it]))
        BY <2>2, <3>2 DEF IsToken, TokenOf, Text, Symbols, IntToken, NameToken
      <3>5. k # "int" => Text(tokens[it]) \in NamesIn(k)
        BY <2>2, <3>2 DEF Text, NamesIn
      <3>6. e.kind = k /\ e.value = Text(tokens[it]) /\ e = Item(k, e.value)
        BY DEF Item
      <3> HIDE DEF k, e
      <3>7. Fits(Memory, e, NameAt(k, p))
        BY <3>2, <3>3, <3>4, <3>5, <3>6 DEF Fits, NameAt, Memory
      <3> QED BY <3>2, <3>3, <3>6, <3>7
    <2>4. IsSeq(<<e>>)
      BY TuplesAreSeqs
    <2>5. outcome = "parsing" /\ work # << >> /\ Top.do \notin {"make", "operator", "list"}
      BY DEF ExpectText, Running
    <2> HIDE DEF e, k
    <2> QED BY <1>1, <2>1, <2>3, <2>4, <2>5 DEF Consumes
  <1> QED BY <1>1 DEF ExpectText

LEMMA NamesWhileConsumes ==
  ASSUME CursorInv, ParseNamesWhile
  PROVE  Consumes
  <1> DEFINE k == Top.token
             names(next) == [i \in 1..(next - it) |-> tokens[it + i - 1].name]
  <1>1. PICK next \in it..(Len(tokens) + 1) :
          /\ \A i \in it..(next - 1) : tokens[i].kind = k
          /\ Consume(next, <<Item("names", names(next))>>)
    BY DEF ParseNamesWhile
  <1> DEFINE e == Item("names", names(next))
  <1>2. Keeps(<<e>>)
    <2>1. SUFFICES ASSUME NEW t, NEW u, Step(Memory, Top, it, t, u)
                   PROVE  \E z : u = <<t, z>> /\ Fits(Memory, e, z)
      <3>1. e.kind = "names"
        BY DEF Item
      <3> HIDE DEF e
      <3> QED BY <3>1 DEF Keeps
    <2>2. k \in {"lower", "upper"} /\ u = <<t, NamesOf(k)>>
      BY <2>1 DEF ParseNamesWhile, Running, Step
    <2>3. ASSUME NEW i \in 1..(next - it)
          PROVE  tokens[it + i - 1].name \in NamesIn(k)
      <3>1. it + i - 1 \in it..(next - 1) /\ it + i - 1 \in DOMAIN tokens
        BY DEF CursorInv, IsInput
      <3>2. tokens[it + i - 1].kind = k
        BY <1>1, <3>1
      <3> QED BY <2>2, <3>1, <3>2 DEF CursorInv, IsInput, NamesIn
    <2>4. next - it \in Nat
      BY DEF CursorInv, IsInput
    <2>5. names(next) \in Seq(NamesIn(k))
      BY <2>3, <2>4
    <2>6. Fits(Memory, e, NamesOf(k))
      <3> HIDE DEF names
      <3> QED BY <2>5 DEF Fits, NamesOf, Item
    <2> QED BY <2>2, <2>6
  <1>3. IsSeq(<<e>>)
    BY TuplesAreSeqs
  <1>4. /\ outcome = "parsing" /\ work # << >> /\ Top.do \notin {"make", "operator", "list"}
        /\ ~Moves(Top)
    BY DEF ParseNamesWhile, Running, Moves
  <1> HIDE DEF e
  <1> QED BY <1>1, <1>2, <1>3, <1>4 DEF Consumes, e

LEMMA ActionCases ==
  ASSUME CursorInv, Next
  PROVE  \/ Stays \/ Starts \/ Calls \/ Consumes \/ EndsList \/ Reserves
         \/ MakeBinaryOperator \/ MakeNode
  <1>1. ASSUME Throw, work # << >>
        PROVE  Stays
    BY <1>1 DEF Throw, Stays
  <1>2. CASE ParseProgram
    BY <1>2 DEF ParseProgram, Stays, Starts
  <1>3. CASE ExpectToken
    BY <1>1, <1>3, ExpectTokenConsumes DEF ExpectToken, Running
  <1>4. CASE ExpectText
    BY <1>1, <1>4, ExpectTextConsumes DEF ExpectText, Running
  <1>5. CASE ParseNamesWhile
    BY <1>5, NamesWhileConsumes
  <1>6. CASE ParseDefinition
    BY <1>1, <1>6, DefinitionUnfolds DEF ParseDefinition, Called, Running, Calls
  <1>7. CASE ParseConstructor
    BY <1>7, ConstructorUnfolds DEF ParseConstructor, Called, Running, Calls
  <1>8. CASE ParseList
    <2>1. CASE ListGoesOn
      BY <1>8, <2>1, ListUnfolds DEF ParseList, Running, Calls
    <2>2. CASE ~ListGoesOn
      BY <1>8, <2>2 DEF ParseList, ListGoesOn, EndsList
    <2> QED BY <2>1, <2>2
  <1>9. CASE ParseBinaryLevel
    BY <1>9, BinaryLevelUnfolds DEF ParseBinaryLevel, Called, Running, Calls
  <1>10. CASE ParseOperator
    <2>1. CASE MatchOperator(Top.level)
      BY <1>10, <2>1 DEF ParseOperator, Reserves
    <2>2. CASE ~MatchOperator(Top.level)
      <3>1. Do(<< >>)
        BY <1>10, <2>2 DEF ParseOperator
      <3>2. \A t, u : Step(Memory, Top, it, t, u) => u = t
        BY <1>10 DEF ParseOperator, Running, Step
      <3>3. Unfolds
        <4>1. ~Moves(Top)
          BY <1>10 DEF ParseOperator, Running, Moves
        <4> QED BY <3>1, <3>2, <4>1, NothingUnfolds
      <3> QED BY <1>10, <3>3 DEF ParseOperator, Running, Calls
    <2> QED BY <2>1, <2>2
  <1>11. CASE MakeBinaryOperator
    BY <1>11
  <1>12. CASE ParseApplication
    BY <1>12, ApplicationUnfolds DEF ParseApplication, Called, Running, Calls
  <1>13. CASE ParseArgument
    BY <1>13, ArgumentUnfolds DEF ParseArgument, Running, Calls
  <1>14. CASE ParsePrimary
    BY <1>1, <1>14, PrimaryUnfolds DEF ParsePrimary, Called, Running, Calls
  <1>15. CASE ParseBranch
    BY <1>15, BranchUnfolds DEF ParseBranch, Called, Running, Calls
  <1>16. CASE ParsePattern
    BY <1>1, <1>16, PatternUnfolds DEF ParsePattern, Called, Running, Calls
  <1>17. CASE MakeNode
    BY <1>17
  <1>18. CASE Finished
    BY <1>18 DEF Finished, vars, Stays, CursorInv
  <1> QED BY <1>2, <1>3, <1>4, <1>5, <1>6, <1>7, <1>8, <1>9, <1>10, <1>11, <1>12, <1>13,
             <1>14, <1>15, <1>16, <1>17, <1>18 DEF Next

-----------------------------------------------------------------------------
(***************************************************************************)
(* The sequences stay well formed, and the memory grows.                   *)
(***************************************************************************)
LEMMA MemoryFacts ==
  ASSUME CursorInv
  PROVE  /\ IsMemory(Memory) /\ Len(nodes) \in Nat /\ DOMAIN nodes = 1..Len(nodes)
         /\ Len(parsed) \in Nat /\ DOMAIN parsed = 1..Len(parsed)
         /\ Len(work) \in Nat /\ DOMAIN work = 1..Len(work)
         /\ Len(definitions) \in Nat /\ DOMAIN definitions = 1..Len(definitions)
         /\ it \in Nat /\ Len(tokens) \in Nat
  <1>1. /\ Len(nodes) \in Nat /\ DOMAIN nodes = 1..Len(nodes)
        /\ Len(parsed) \in Nat /\ DOMAIN parsed = 1..Len(parsed)
        /\ Len(work) \in Nat /\ DOMAIN work = 1..Len(work)
        /\ Len(definitions) \in Nat /\ DOMAIN definitions = 1..Len(definitions)
    BY SeqOfElements DEF CursorInv
  <1>2. it \in Nat /\ Len(tokens) \in Nat /\ \A n \in DOMAIN nodes : positions[n] \in 1..(it - 1)
    BY DEF CursorInv, IsInput
  <1> QED BY <1>1, <1>2 DEF IsMemory, Memory

LEMMA CursorKept ==
  ASSUME CursorInv, UNCHANGED <<tokens, nodes, positions, definitions>>,
         outcome' \in {"parsing", "accepted", "refused"}, outcome' = "accepted" => work' = << >>,
         IsSeq(work'), IsSeq(parsed'), it' \in it..(Len(tokens) + 1)
  PROVE  CursorInv' /\ GrowsTo(Memory, Memory')
  <1>1. it' \in 1..(Len(tokens') + 1) /\ it <= it'
    BY DEF CursorInv, IsInput
  <1>2. \A n \in DOMAIN nodes' : positions'[n] \in 1..(it' - 1)
    BY <1>1 DEF CursorInv, IsInput
  <1>3. CursorInv'
    BY <1>1, <1>2 DEF CursorInv
  <1>4. IsMemory(Memory) /\ IsMemory(Memory)' /\ Len(nodes) \in Nat
    BY <1>3, MemoryFacts, PTL
  <1> QED BY <1>1, <1>3, <1>4 DEF GrowsTo, Memory

LEMMA CursorAllocated ==
  ASSUME CursorInv, NEW x, NEW p, AllocateNode(x, p), tokens' = tokens, outcome' = "parsing",
         IsSeq(work'), IsSeq(parsed'), it' \in it..(Len(tokens) + 1), p \in 1..(it' - 1),
         \/ definitions' = definitions
         \/ definitions' = Append(definitions, NextId) /\ x.kind \in {"defn", "data"}
  PROVE  /\ CursorInv' /\ GrowsTo(Memory, Memory')
         /\ Len(nodes') = NextId /\ nodes'[NextId] = x /\ positions'[NextId] = p
         /\ \A n \in 1..Len(nodes) : nodes'[n] = nodes[n] /\ positions'[n] = positions[n]
  <1>1. it' \in 1..(Len(tokens') + 1) /\ it <= it' /\ it' \in Nat /\ it \in Nat
    BY DEF CursorInv, IsInput
  <1>2. Len(nodes) \in Nat /\ DOMAIN nodes = 1..Len(nodes)
        /\ Len(definitions) \in Nat /\ DOMAIN definitions = 1..Len(definitions)
    BY MemoryFacts
  <1>3. /\ IsSeq(nodes') /\ Len(nodes') = Len(nodes) + 1 /\ nodes'[Len(nodes) + 1] = x
        /\ \A n \in 1..Len(nodes) : nodes'[n] = nodes[n]
    BY AppendSeq DEF AllocateNode, CursorInv
  <1>4. /\ IsSeq(positions') /\ Len(positions') = Len(nodes) + 1
        /\ positions'[Len(nodes) + 1] = p
        /\ \A n \in 1..Len(nodes) : positions'[n] = positions[n]
    BY AppendSeq DEF AllocateNode, CursorInv
  <1>5. DOMAIN nodes' = 1..(Len(nodes) + 1)
    BY <1>3, SeqOfElements
  <1>6. \A n \in DOMAIN nodes' : positions'[n] \in 1..(it' - 1)
    <2>1. \A n \in 1..Len(nodes) : positions[n] \in 1..(it - 1)
      BY <1>2 DEF CursorInv
    <2>2. ASSUME NEW n \in 1..(Len(nodes) + 1)
          PROVE  positions'[n] \in 1..(it' - 1)
      <3>1. CASE n = Len(nodes) + 1
        BY <1>4, <3>1
      <3>2. CASE n \in 1..Len(nodes)
        <4>1. positions'[n] \in 1..(it - 1)
          BY <1>4, <2>1, <3>2
        <4> QED BY <1>1, <4>1
      <3> QED BY <1>2, <3>1, <3>2
    <2> QED BY <1>5, <2>2
  <1>7. /\ IsSeq(definitions')
        /\ \A k \in DOMAIN definitions' :
             definitions'[k] \in DOMAIN nodes' /\ nodes'[definitions'[k]].kind \in {"defn", "data"}
    <2>1. \A k \in 1..Len(definitions) :
            /\ definitions[k] \in DOMAIN nodes'
            /\ nodes'[definitions[k]].kind \in {"defn", "data"}
      BY <1>2, <1>3, <1>5 DEF CursorInv
    <2>2. CASE definitions' = definitions
      BY <1>2, <2>1, <2>2 DEF CursorInv
    <2>3. CASE definitions' = Append(definitions, NextId) /\ x.kind \in {"defn", "data"}
      <3>1. /\ IsSeq(definitions') /\ Len(definitions') = Len(definitions) + 1
            /\ definitions'[Len(definitions) + 1] = Len(nodes) + 1
            /\ \A k \in 1..Len(definitions) : definitions'[k] = definitions[k]
        BY <2>3, AppendSeq DEF CursorInv, NextId
      <3>2. DOMAIN definitions' = 1..(Len(definitions) + 1)
        BY <3>1, SeqOfElements
      <3>3. ASSUME NEW k \in 1..(Len(definitions) + 1)
            PROVE  /\ definitions'[k] \in DOMAIN nodes'
                   /\ nodes'[definitions'[k]].kind \in {"defn", "data"}
        <4>1. CASE k = Len(definitions) + 1
          <5>1. Len(nodes) + 1 \in DOMAIN nodes'
            BY <1>2, <1>5
          <5> QED BY <1>3, <2>3, <3>1, <4>1, <5>1
        <4>2. CASE k \in 1..Len(definitions)
          BY <2>1, <3>1, <4>2
        <4> QED BY <1>2, <4>1, <4>2
      <3> QED BY <3>1, <3>2, <3>3
    <2> QED BY <2>2, <2>3
  <1>8. CursorInv'
    BY <1>1, <1>3, <1>4, <1>6, <1>7 DEF CursorInv
  <1>9. IsMemory(Memory) /\ IsMemory(Memory)'
    BY <1>8, MemoryFacts, PTL
  <1>10. GrowsTo(Memory, Memory')
    BY <1>1, <1>2, <1>3, <1>4, <1>9 DEF GrowsTo, Memory
  <1> QED BY <1>3, <1>4, <1>8, <1>10 DEF NextId

LEMMA CursorCompleted ==
  ASSUME CursorInv, NEW x, NEW n \in DOMAIN nodes, nodes[n] = Reserved,
         nodes' = [nodes EXCEPT ![n] = x], UNCHANGED <<tokens, it, positions, definitions, outcome>>,
         outcome = "parsing", IsSeq(work'), IsSeq(parsed')
  PROVE  CursorInv' /\ GrowsTo(Memory, Memory') /\ Len(nodes') = Len(nodes)
  <1>1. IsSeq(nodes') /\ Len(nodes') = Len(nodes) /\ DOMAIN nodes' = DOMAIN nodes
    <2>1. PICK S : nodes \in Seq(S)
      BY DEF CursorInv, IsSeq
    <2>2. nodes \in Seq(S \cup {x})
      BY <2>1
    <2>3. nodes' \in Seq(S \cup {x}) /\ Len(nodes') = Len(nodes) /\ DOMAIN nodes' = DOMAIN nodes
      BY <2>2
    <2> QED BY <2>3 DEF IsSeq
  <1>2. nodes'[n] = x /\ \A m \in DOMAIN nodes : m # n => nodes'[m] = nodes[m]
    OBVIOUS
  <1>3. \A k \in DOMAIN definitions :
          definitions[k] \in DOMAIN nodes' /\ nodes'[definitions[k]].kind \in {"defn", "data"}
    BY <1>1, <1>2 DEF CursorInv, Reserved
  <1>4. CursorInv'
    BY <1>1, <1>3 DEF CursorInv
  <1>5. IsMemory(Memory) /\ IsMemory(Memory)' /\ Len(nodes) \in Nat /\ it \in Nat
    BY <1>4, MemoryFacts, PTL
  <1>6. GrowsTo(Memory, Memory')
    BY <1>1, <1>2, <1>5 DEF GrowsTo, Memory
  <1> QED BY <1>1, <1>4, <1>6

(***************************************************************************)
(* The running step has a shape to begin with, and leads to one.           *)
(***************************************************************************)
LEMMA RunningFlow ==
  ASSUME CursorInv, FlowInv, work # << >>
  PROVE  \E t, u : /\ Shape(Memory, parsed, Len(parsed), t) /\ Step(Memory, Top, it, t, u)
                   /\ LeadTo(Memory, Tail(work), 0, u, Nil)
  <1>1. PICK t : Shape(Memory, parsed, Len(parsed), t) /\ LeadTo(Memory, work, it, t, Nil)
    BY DEF FlowInv
  <1>2. IsSeq(work)
    BY DEF CursorInv
  <1> QED BY <1>1, <1>2, LeadToTail DEF Top

(* The items on top of a shape with one, two or three sorts. *)
LEMMA OnePopped ==
  ASSUME CursorInv, NEW r, NEW x, Shape(Memory, parsed, Len(parsed), <<r, x>>)
  PROVE  /\ 1 <= Len(parsed) /\ Shape(Memory, parsed, Len(parsed) - 1, r)
         /\ Fits(Memory, parsed[Len(parsed)], x)
  <1> DEFINE n == Len(parsed)
  <1>1. n \in Nat
    BY MemoryFacts
  <1> HIDE DEF n
  <1>2. n > 0 /\ Shape(Memory, parsed, n - 1, r) /\ Fits(Memory, parsed[n], x)
    BY <1>1, ShapePop DEF n
  <1>3. 1 <= n
    BY <1>1, <1>2
  <1> QED BY <1>2, <1>3 DEF n

LEMMA TwoPopped ==
  ASSUME CursorInv, NEW r, NEW x, NEW y, Shape(Memory, parsed, Len(parsed), <<<<r, x>>, y>>)
  PROVE  /\ 2 <= Len(parsed) /\ Shape(Memory, parsed, Len(parsed) - 2, r)
         /\ Fits(Memory, parsed[Len(parsed) - 1], x) /\ Fits(Memory, parsed[Len(parsed)], y)
  <1> DEFINE n == Len(parsed)
  <1>1. n \in Nat
    BY MemoryFacts
  <1> HIDE DEF n
  <1>2. 1 <= n /\ Shape(Memory, parsed, n - 1, <<r, x>>) /\ Fits(Memory, parsed[n], y)
    BY OnePopped DEF n
  <1>3. n - 1 \in Nat
    BY <1>1, <1>2
  <1>4. n - 1 > 0 /\ Shape(Memory, parsed, n - 1 - 1, r) /\ Fits(Memory, parsed[n - 1], x)
    BY <1>2, <1>3, ShapePop
  <1>5. 2 <= n /\ n - 1 - 1 = n - 2
    BY <1>1, <1>4
  <1> QED BY <1>2, <1>4, <1>5 DEF n

LEMMA ThreePopped ==
  ASSUME CursorInv, NEW r, NEW x, NEW y, NEW z,
         Shape(Memory, parsed, Len(parsed), <<<<<<r, x>>, y>>, z>>)
  PROVE  /\ 3 <= Len(parsed) /\ Shape(Memory, parsed, Len(parsed) - 3, r)
         /\ Fits(Memory, parsed[Len(parsed) - 2], x)
         /\ Fits(Memory, parsed[Len(parsed) - 1], y) /\ Fits(Memory, parsed[Len(parsed)], z)
  <1> DEFINE n == Len(parsed)
  <1>1. n \in Nat
    BY MemoryFacts
  <1> HIDE DEF n
  <1>2. /\ 2 <= n /\ Shape(Memory, parsed, n - 2, <<r, x>>)
        /\ Fits(Memory, parsed[n - 1], y) /\ Fits(Memory, parsed[n], z)
    BY TwoPopped DEF n
  <1>3. n - 2 \in Nat
    BY <1>1, <1>2
  <1>4. n - 2 > 0 /\ Shape(Memory, parsed, n - 2 - 1, r) /\ Fits(Memory, parsed[n - 2], x)
    BY <1>2, <1>3, ShapePop
  <1>5. 3 <= n /\ n - 2 - 1 = n - 3
    BY <1>1, <1>4
  <1> QED BY <1>2, <1>4, <1>5 DEF n

(* The steps that are put before the others lead on from what is parsed. *)
LEMMA FlowAfter ==
  ASSUME NEW v, IsSeq(v), NEW w, IsSeq(w), work' = v \o w,
         GrowsTo(Memory, Memory'),
         \A k \in 1..Len(w) : w[k].do = "operator" => nodes'[w[k].node] = Reserved,
         NEW u, LeadTo(Memory, w, 0, u, Nil),
         NEW t, Shape(Memory', parsed', Len(parsed'), t), LeadTo(Memory', v, it', t, u)
  PROVE  FlowInv'
  <1>1. Len(w) \in Nat
    BY SeqOfElements
  <1>2. \A k \in 1..Len(w) : w[k].do = "operator" => Memory'.nodes[w[k].node] = Reserved
    BY DEF Memory
  <1>3. LeadTo(Memory', w, IF v = << >> THEN it' ELSE 0, u, Nil)
    BY <1>1, <1>2, LeadToKept
  <1>4. LeadTo(Memory', work', it', t, Nil)
    BY <1>3, LeadToJoin
  <1> QED BY <1>4 DEF FlowInv

LEMMA NothingLeads ==
  ASSUME NEW m, NEW c, NEW t
  PROVE  LeadTo(m, << >>, c, t, t)
  <1> DEFINE f == [k \in {1} |-> t]
  <1>1. f[1] = t /\ Len(<< >>) = 0 /\ 1..0 = {} /\ 0 + 1 = 1
    OBVIOUS
  <1> HIDE DEF f
  <1> QED BY <1>1 DEF LeadTo

LEMMA FlowAfterTail ==
  ASSUME CursorInv, work # << >>, work' = Tail(work), GrowsTo(Memory, Memory'),
         \A k \in 1..Len(Tail(work)) :
           Tail(work)[k].do = "operator" => nodes'[Tail(work)[k].node] = Reserved,
         NEW u, LeadTo(Memory, Tail(work), 0, u, Nil), Shape(Memory', parsed', Len(parsed'), u)
  PROVE  FlowInv'
  <1>1. PICK w : w = Tail(work)
    OBVIOUS
  <1>2. IsSeq(w) /\ IsSeq(<< >>)
    BY <1>1, TailSeq, TuplesAreSeqs DEF CursorInv
  <1>3. << >> \o w = w
    <2>1. PICK S : w \in Seq(S)
      BY <1>2 DEF IsSeq
    <2> QED BY <2>1
  <1>4. LeadTo(Memory', << >>, it', u, u)
    BY NothingLeads
  <1>5. \A k \in 1..Len(w) : w[k].do = "operator" => nodes'[w[k].node] = Reserved
    BY <1>1
  <1>6. LeadTo(Memory, w, 0, u, Nil) /\ work' = << >> \o w
    BY <1>1, <1>3
  <1> QED BY <1>2, <1>4, <1>5, <1>6, FlowAfter

LEMMA PushedShape ==
  ASSUME NEW n \in Nat, NEW r, Shape(Memory, parsed, n, r), GrowsTo(Memory, Memory'),
         Len(parsed') = n + 1, \A i \in 1..n : parsed'[i] = parsed[i],
         NEW x, Fits(Memory', parsed'[n + 1], x)
  PROVE  Shape(Memory', parsed', Len(parsed'), <<r, x>>)
  <1>1. PICK s, m : s = parsed' /\ m = Memory'
    OBVIOUS
  <1>2. Shape(m, s, n, r)
    BY <1>1, ShapeKept
  <1>3. Shape(m, s, n + 1, <<r, x>>)
    BY <1>1, <1>2, ShapePush
  <1> QED BY <1>1, <1>3

LEMMA TailOperators ==
  ASSUME CursorInv, OperatorsInv, work # << >>
  PROVE  \A k \in 1..Len(Tail(work)) :
           Tail(work)[k].do = "operator" =>
             /\ Tail(work)[k].node \in DOMAIN nodes /\ nodes[Tail(work)[k].node] = Reserved
             /\ Top.do = "operator" => Tail(work)[k].node < Top.node
  <1>1. /\ IsSeq(work) /\ Len(work) \in Nat /\ DOMAIN work = 1..Len(work)
    BY MemoryFacts DEF CursorInv
  <1>2. /\ Len(Tail(work)) = Len(work) - 1 /\ Top = work[1]
        /\ \A k \in 1..(Len(work) - 1) : Tail(work)[k] = work[k + 1]
    BY <1>1, TailSeq DEF Top
  <1>3. SUFFICES ASSUME NEW k \in 1..(Len(work) - 1), work[k + 1].do = "operator"
                 PROVE  /\ work[k + 1].node \in DOMAIN nodes
                        /\ nodes[work[k + 1].node] = Reserved
                        /\ work[1].do = "operator" => work[k + 1].node < work[1].node
    BY <1>1, <1>2
  <1>4. 1 \in DOMAIN work /\ k + 1 \in DOMAIN work /\ 1 < k + 1
    BY <1>1
  <1>5. work[1].do = "operator" => work[1].node > work[k + 1].node
    BY <1>3, <1>4 DEF OperatorsInv
  <1>6. work[k + 1].node \in Nat
    BY <1>3, <1>4, MemoryFacts DEF OperatorsInv
  <1>7. work[1].do = "operator" => work[1].node \in Nat
    BY <1>4, MemoryFacts DEF OperatorsInv
  <1> QED BY <1>3, <1>4, <1>5, <1>6, <1>7 DEF OperatorsInv

LEMMA StaysFlow ==
  ASSUME CursorInv, FlowInv, Stays
  PROVE  CursorInv' /\ FlowInv'
  <1>1. outcome' = "accepted" => work' = << >>
    BY DEF Stays, CursorInv
  <1>2. CursorInv'
    BY <1>1 DEF Stays, CursorInv
  <1>3. Memory' = Memory /\ parsed' = parsed /\ work' = work /\ it' = it
    BY DEF Memory, Stays
  <1> QED BY <1>2, <1>3 DEF FlowInv

LEMMA StartsFlow ==
  ASSUME CursorInv, FlowInv, Starts
  PROVE  CursorInv' /\ FlowInv'
  <1> DEFINE w == <<Parse("definition")>>
  <1>1. Len(w) = 1 /\ IsSeq(w) /\ w[1] = Parse("definition") /\ w = work'
    BY TuplesAreSeqs DEF Starts
  <1> HIDE DEF w
  <1>2. CursorInv'
    BY <1>1 DEF Starts, CursorInv
  <1>3. Memory' = Memory /\ parsed' = parsed /\ it' = it
    BY DEF Memory, Starts
  <1>4. PICK t : Shape(Memory, parsed, Len(parsed), t) /\ LeadTo(Memory, work, it, t, Nil)
    BY DEF FlowInv
  <1>5. t = Nil
    <2>1. Len(work) + 1 = 1
      BY DEF Starts
    <2> QED BY <1>4, <2>1 DEF LeadTo
  <1>6. Step(Memory, Parse("definition"), it, Nil, Nil)
    BY DEF Step, Parse, ParseLeads
  <1>7. LeadTo(Memory, w, it, Nil, Nil)
    <2> DEFINE f == [k \in 1..2 |-> Nil]
    <2>1. f[1] = Nil /\ f[2] = Nil
      OBVIOUS
    <2> HIDE DEF f
    <2>2. \A k \in 1..Len(w) : Step(Memory, w[k], IF k = 1 THEN it ELSE 0, f[k], f[k + 1])
      <3>1. \A k \in 1..Len(w) : k = 1 /\ k + 1 = 2
        BY <1>1
      <3> QED BY <1>1, <1>6, <2>1, <3>1
    <2>3. f[Len(w) + 1] = Nil
      BY <1>1, <2>1
    <2> QED BY <2>1, <2>2, <2>3 DEF LeadTo
  <1> QED BY <1>1, <1>2, <1>3, <1>4, <1>5, <1>7 DEF FlowInv

LEMMA CallsFlow ==
  ASSUME CursorInv, FlowInv, OperatorsInv, Calls
  PROVE  CursorInv' /\ FlowInv'
  <1>1. PICK v : Do(v) /\ Fresh(v) /\ Replaces(v)
    BY DEF Calls, Unfolds
  <1>2. PICK t, u : /\ Shape(Memory, parsed, Len(parsed), t) /\ Step(Memory, Top, it, t, u)
                    /\ LeadTo(Memory, Tail(work), 0, u, Nil)
    BY RunningFlow DEF Calls
  <1>3. PICK s : Shape(Memory, parsed, Len(parsed), s) /\ LeadTo(Memory, v, it, s, u)
    BY <1>1, <1>2 DEF Replaces
  <1>4. PICK w : w = Tail(work)
    OBVIOUS
  <1>5. IsSeq(v) /\ IsSeq(w) /\ work # << >> /\ outcome = "parsing"
    BY <1>1, <1>4, TailSeq DEF Fresh, Calls, CursorInv
  <1>6. work' = v \o w /\ UNCHANGED <<tokens, it, nodes, positions, definitions, parsed, outcome>>
    BY <1>1, <1>4 DEF Do
  <1>7. IsSeq(work')
    BY <1>5, <1>6, JoinSeq
  <1>8. Memory' = Memory
    BY <1>6 DEF Memory
  <1>9. it \in it..(Len(tokens) + 1)
    BY MemoryFacts DEF CursorInv
  <1>10. CursorInv' /\ GrowsTo(Memory, Memory')
    BY <1>5, <1>6, <1>7, <1>9, CursorKept DEF CursorInv
  <1>11. \A k \in 1..Len(w) : w[k].do = "operator" => nodes'[w[k].node] = Reserved
    BY <1>4, <1>5, <1>6, TailOperators
  <1>12. Shape(Memory', parsed', Len(parsed'), s) /\ LeadTo(Memory', v, it', s, u)
    BY <1>3, <1>6, <1>8
  <1>13. LeadTo(Memory, w, 0, u, Nil)
    BY <1>2, <1>4
  <1> QED BY <1>5, <1>6, <1>10, <1>11, <1>12, <1>13, FlowAfter

LEMMA ConsumesFlow ==
  ASSUME CursorInv, FlowInv, OperatorsInv, Consumes
  PROVE  CursorInv' /\ FlowInv' /\ GrowsTo(Memory, Memory')
  <1>1. PICK next, items :
          /\ Consume(next, items) /\ Keeps(items) /\ IsSeq(items)
          /\ next \in it..(Len(tokens) + 1)
    BY DEF Consumes
  <1>2. PICK t, u : /\ Shape(Memory, parsed, Len(parsed), t) /\ Step(Memory, Top, it, t, u)
                    /\ LeadTo(Memory, Tail(work), 0, u, Nil)
    BY RunningFlow DEF Consumes
  <1>3. work # << >> /\ work' = Tail(work) /\ parsed' = parsed \o items /\ it' = next
        /\ UNCHANGED <<tokens, nodes, positions, definitions, outcome>> /\ outcome = "parsing"
    BY <1>1 DEF Consume, Consumes
  <1>4. IsSeq(work') /\ IsSeq(parsed')
    BY <1>1, <1>3, TailSeq, JoinSeq DEF CursorInv
  <1>5. CursorInv' /\ GrowsTo(Memory, Memory')
    BY <1>1, <1>3, <1>4, CursorKept
  <1>6. Len(parsed) \in Nat /\ IsSeq(parsed)
    BY MemoryFacts DEF CursorInv
  <1>7. Shape(Memory', parsed', Len(parsed'), u)
    <2>1. Len(parsed') = Len(parsed) + Len(items)
          /\ (\A i \in 1..Len(parsed) : parsed'[i] = parsed[i])
          /\ \A i \in 1..Len(items) : parsed'[Len(parsed) + i] = items[i]
      BY <1>1, <1>3, <1>6, JoinSeq
    <2>2. CASE items = << >> /\ u = t
      <3>1. Len(parsed') = Len(parsed)
        BY <1>6, <2>1, <2>2
      <3>2. PICK s, m : s = parsed' /\ m = Memory'
        OBVIOUS
      <3>3. Shape(m, s, Len(parsed), t)
        BY <1>2, <1>5, <1>6, <2>1, <3>2, ShapeKept
      <3> QED BY <2>2, <3>1, <3>2, <3>3
    <2>3. ASSUME NEW e, NEW z, items = <<e>>, u = <<t, z>>, Fits(Memory, e, z)
          PROVE  Shape(Memory', parsed', Len(parsed'), u)
      <3>1. Len(items) = 1 /\ items[1] = e
        BY <2>3
      <3>2. Len(parsed') = Len(parsed) + 1 /\ parsed'[Len(parsed) + 1] = e
        BY <2>1, <3>1
      <3>3. Fits(Memory', e, z)
        BY <1>5, <2>3, FitsKept
      <3>4. Shape(Memory', parsed', Len(parsed'), <<t, z>>)
        BY <1>2, <1>5, <1>6, <2>1, <3>2, <3>3, PushedShape
      <3> QED BY <2>3, <3>4
    <2> QED BY <1>1, <1>2, <2>2, <2>3 DEF Keeps
  <1>8. \A k \in 1..Len(Tail(work)) :
          Tail(work)[k].do = "operator" => nodes'[Tail(work)[k].node] = Reserved
    BY <1>3, TailOperators
  <1> QED BY <1>2, <1>3, <1>5, <1>7, <1>8, FlowAfterTail

(* The last items are taken off, and one may be put in their place. *)
Stripped(s, n) == IsSeq(s) /\ Len(s) = n /\ \A k \in 1..n : s[k] = parsed[k]

Puts(s, n, e) ==
  /\ IsSeq(s) /\ Len(s) = n + 1 /\ s[n + 1] = e
  /\ \A k \in 1..n : s[k] = parsed[k]

LEMMA Collapsed ==
  ASSUME CursorInv, NEW c \in 0..Len(parsed)
  PROVE  /\ Stripped(Without(c), Len(parsed) - c)
         /\ \A e : Puts(Append(Without(c), e), Len(parsed) - c, e)
  <1>1. Len(parsed) \in Nat
    BY MemoryFacts
  <1>2. PICK n, s : n = Len(parsed) - c /\ s = Without(c)
    OBVIOUS
  <1>3. n \in 0..Len(parsed)
    BY <1>1, <1>2
  <1>4. IsSeq(s) /\ Len(s) = n /\ \A k \in 1..n : s[k] = parsed[k]
    BY <1>2, <1>3, FrontSeq DEF CursorInv, Without
  <1>5. \A e : /\ IsSeq(Append(s, e)) /\ Len(Append(s, e)) = n + 1 /\ Append(s, e)[n + 1] = e
               /\ \A k \in 1..n : Append(s, e)[k] = parsed[k]
    BY <1>4, AppendSeq
  <1> QED BY <1>2, <1>4, <1>5 DEF Stripped, Puts

LEMMA EndsListFlow ==
  ASSUME CursorInv, FlowInv, OperatorsInv, EndsList
  PROVE  /\ CursorInv' /\ FlowInv' /\ GrowsTo(Memory, Memory')
         /\ Top.count \in 1..Len(parsed)
         /\ \A i \in 1..Top.count :
              IsNodeItem(Memory, parsed[Len(parsed) - Top.count + i], {Top.what})
  <1> DEFINE c == Top.count
             n == Len(parsed)
             e == Item("nodes", [k \in 1..c |-> Part(k, c)])
             S == {m \in DOMAIN nodes : nodes[m].kind = Top.what}
  <1>1. /\ outcome = "parsing" /\ work # << >> /\ Top.do = "list" /\ work' = Tail(work)
        /\ parsed' = Append(Without(c), e)
        /\ UNCHANGED <<tokens, it, nodes, positions, definitions, outcome>>
    BY DEF EndsList, Running
  <1>2. PICK t, u : /\ Shape(Memory, parsed, Len(parsed), t) /\ Step(Memory, Top, it, t, u)
                    /\ LeadTo(Memory, Tail(work), 0, u, Nil)
    BY <1>1, RunningFlow
  <1>3. PICK r : /\ Top.what \in {"constructor", "branch"} /\ c \in Nat \ {0}
                 /\ Piled(c, One(Top.what), r, t) /\ u = <<r, Many(Top.what)>>
    BY <1>1, <1>2 DEF Step
  <1>4. n \in Nat
    BY MemoryFacts
  <1>5. /\ c <= n /\ Shape(Memory, parsed, n - c, r)
        /\ \A i \in 1..c : Fits(Memory, parsed[n - c + i], One(Top.what))
    <2>1. PICK j, m : j = n /\ m = c
      OBVIOUS
    <2>2. /\ m <= j /\ Shape(Memory, parsed, j - m, r)
          /\ \A i \in 1..m : Fits(Memory, parsed[j - m + i], One(Top.what))
      BY <1>2, <1>3, <1>4, <2>1, ShapeUnpiled
    <2> QED BY <2>1, <2>2
  <1>6. \A i \in 1..c : IsNodeItem(Memory, parsed[n - c + i], {Top.what})
    BY <1>5 DEF Fits, One
  <1>7. \A i \in 1..c : Part(i, c) \in S
    BY <1>6 DEF Part, IsNodeItem, Memory
  <1>8. e.value \in Seq(S) /\ e.value # << >> /\ e = Item("nodes", e.value)
    <2>1. c \in Nat /\ c > 0
      BY <1>3
    <2> HIDE DEF S
    <2> QED BY <1>7, <2>1 DEF Item
  <1>9. Fits(Memory, e, Many(Top.what))
    <2> HIDE DEF e
    <2> QED BY <1>3, <1>8 DEF Fits, Many, Memory
  <1> HIDE DEF e
  <1>10. c \in 0..Len(parsed) /\ c \in 1..Len(parsed) /\ n - c \in Nat
    BY <1>3, <1>4, <1>5
  <1>11. /\ IsSeq(parsed') /\ Len(parsed') = n - c + 1 /\ parsed'[n - c + 1] = e
         /\ \A k \in 1..(n - c) : parsed'[k] = parsed[k]
    <2>1. Puts(Append(Without(c), e), n - c, e)
      BY <1>10, Collapsed
    <2>2. Puts(parsed', n - c, e)
      BY <1>1, <2>1
    <2> QED BY <2>2 DEF Puts
  <1>12. IsSeq(work')
    BY <1>1, TailSeq DEF CursorInv
  <1>13. CursorInv' /\ GrowsTo(Memory, Memory')
    <2>1. it' \in it..(Len(tokens) + 1)
      BY <1>1 DEF CursorInv, IsInput
    <2> QED BY <1>1, <1>11, <1>12, <2>1, CursorKept DEF CursorInv
  <1>14. Fits(Memory', e, Many(Top.what))
    BY <1>9, <1>13, FitsKept
  <1>15. Shape(Memory', parsed', Len(parsed'), <<r, Many(Top.what)>>)
    <2>1. PICK j, x : j = n - c /\ x = Many(Top.what)
      OBVIOUS
    <2>2. Shape(Memory', parsed', Len(parsed'), <<r, x>>)
      BY <1>5, <1>10, <1>11, <1>13, <1>14, <2>1, PushedShape
    <2> QED BY <2>1, <2>2
  <1>16. \A k \in 1..Len(Tail(work)) :
           Tail(work)[k].do = "operator" => nodes'[Tail(work)[k].node] = Reserved
    BY <1>1, TailOperators
  <1>17. FlowInv'
    BY <1>1, <1>2, <1>3, <1>13, <1>15, <1>16, FlowAfterTail
  <1> QED BY <1>6, <1>10, <1>13, <1>17

LEMMA ReservesFlow ==
  ASSUME CursorInv, FlowInv, OperatorsInv, Reserves
  PROVE  /\ CursorInv' /\ FlowInv' /\ GrowsTo(Memory, Memory')
         /\ Len(nodes') = NextId /\ nodes'[NextId] = Reserved
         /\ \A m \in DOMAIN nodes : nodes'[m] = nodes[m]
  <1> DEFINE n  == NextId
             op == tokens[it].kind
             a  == Parse(Operand(Top.level))
             b  == Operator(op, n)
             v  == <<a, b>>
  <1>1. /\ outcome = "parsing" /\ work # << >> /\ Top.do = "operators"
        /\ AllocateNode(Reserved, it) /\ it' = it + 1 /\ work' = v \o work
        /\ UNCHANGED <<tokens, definitions, parsed, outcome>>
    BY DEF Reserves, Running
  <1>2. /\ it \in 1..Len(tokens) /\ it \in Nat \ {0} /\ op \in {"+", "-", "*", "/"}
        /\ tokens[it] = Token(op)
    <2>1. it \in 1..Len(tokens) /\ it \in Nat \ {0} /\ op \in {"+", "-", "*", "/"} /\ Check(op)
      BY DEF Reserves, MatchOperator, Check, CheckAny, AtEnd, CursorInv, IsInput
    <2>2. op \in Symbols
      BY <2>1 DEF Symbols
    <2> QED BY <2>1, <2>2, SymbolToken
  <1>3. PICK t : Shape(Memory, parsed, Len(parsed), t) /\ LeadTo(Memory, work, it, t, Nil)
    BY DEF FlowInv
  <1>4. IsSeq(work) /\ Len(work) \in Nat /\ DOMAIN work = 1..Len(work) /\ IsSeq(v)
    BY MemoryFacts, TuplesAreSeqs DEF CursorInv
  <1>5. PICK f : /\ f[1] = t /\ f[Len(work) + 1] = Nil
                 /\ \A k \in 1..Len(work) :
                      Step(Memory, work[k], IF k = 1 THEN it ELSE 0, f[k], f[k + 1])
    BY <1>3 DEF LeadTo
  <1>6. Top = work[1] /\ 1 \in 1..Len(work) /\ Step(Memory, Top, it, f[1], f[2])
    <2>1. Top = work[1] /\ Len(work) > 0
      BY <1>1, <1>4, TailSeq DEF Top
    <2>2. 1 \in 1..Len(work) /\ 1 + 1 = 2
      BY <1>4, <2>1
    <2> QED BY <1>5, <2>1, <2>2
  <1>7. PICK r, x : x \in Afters(Memory, it) /\ t = <<r, x>> /\ f[2] = t
    BY <1>1, <1>5, <1>6 DEF Step, Memory
  <1>8. LeadTo(Memory, work, 0, t, Nil)
    <2>1. ASSUME NEW k \in 1..Len(work)
          PROVE  Step(Memory, work[k], IF k = 1 THEN 0 ELSE 0, f[k], f[k + 1])
      <3>1. CASE k = 1
        <4>1. Step(Memory, work[1], 0, f[1], f[2])
          BY <1>1, <1>6 DEF Step
        <4> QED BY <3>1, <4>1
      <3>2. CASE k # 1
        BY <1>5, <3>2
      <3> QED BY <3>1, <3>2
    <2> QED BY <1>5, <2>1 DEF LeadTo
  <1>9. Shape(Memory, parsed, Len(parsed), <<r, Before(n, it)>>)
    BY <1>3, <1>7, TopIsBefore
  <1>10. IsSeq(work') /\ IsSeq(parsed')
    BY <1>1, <1>4, JoinSeq DEF CursorInv
  <1>11. /\ CursorInv' /\ GrowsTo(Memory, Memory') /\ Len(nodes') = n /\ nodes'[n] = Reserved
         /\ positions'[n] = it /\ \A m \in 1..Len(nodes) : nodes'[m] = nodes[m]
    <2>1. it' \in it..(Len(tokens) + 1) /\ it \in 1..(it' - 1)
      BY <1>1, <1>2, MemoryFacts
    <2> QED BY <1>1, <1>10, <2>1, CursorAllocated
  <1>12. /\ Len(nodes) \in Nat /\ n = Len(nodes) + 1 /\ n \in Nat /\ DOMAIN nodes = 1..Len(nodes)
         /\ Len(parsed) \in Nat
    BY MemoryFacts DEF NextId
  <1>13. n \in DOMAIN nodes'
    <2>1. IsSeq(nodes')
      BY <1>11 DEF CursorInv
    <2>2. DOMAIN nodes' = 1..Len(nodes')
      BY <2>1, SeqOfElements
    <2> QED BY <1>11, <1>12, <2>2
  <1> DEFINE s == <<r, Before(n, it)>>
             z == After(n, it)
  <1> HIDE DEF n
  <1>14. Step(Memory', a, it', s, <<s, z>>)
    <2>1. n \in 0..Len(nodes') /\ it \in 0..(it' - 1)
      BY <1>1, <1>2, <1>11, <1>12
    <2>2. z \in Afters(Memory', it')
      BY <2>1 DEF Afters, Memory
    <2>3. a.do = "parse" /\ a.what \in {"term", "application"}
      BY DEF Parse, Operand
    <2>4. Memory'.it = it'
      BY DEF Memory
    <2> HIDE DEF s, z, a
    <2> QED BY <2>2, <2>3, <2>4 DEF Step, ParseLeads
  <1>15. Step(Memory', b, 0, <<s, z>>, t)
    <2>1. x \in {After(c, q) : c \in 0..(n - 1), q \in 0..(it - 1)}
      <3>1. Memory.nodes = nodes /\ n - 1 = Len(nodes)
        BY <1>12 DEF Memory
      <3> QED BY <1>7, <3>1 DEF Afters
    <2>2. /\ Memory'.positions = positions' /\ Memory'.nodes = nodes'
          /\ Memory'.tokens = tokens
      BY <1>1 DEF Memory
    <2>3. OperatorLeads(Memory', op, n, <<s, z>>, t)
      BY <1>2, <1>7, <1>11, <1>13, <2>1, <2>2 DEF OperatorLeads
    <2>4. b.do = "operator" /\ b.op = op /\ b.node = n
      BY DEF Operator
    <2> HIDE DEF s, z, b, op
    <2> QED BY <2>3, <2>4 DEF Step
  <1>16. LeadTo(Memory', v, it', s, t)
    <2>1. Len(v) = 2 /\ v[1] = a /\ v[2] = b
      OBVIOUS
    <2> DEFINE y == <<s, z>>
               g == <<s, y, t>>
    <2> HIDE DEF a, b, v, s, z, y
    <2>2. g[1] = s /\ g[2] = y /\ g[3] = t
      OBVIOUS
    <2> HIDE DEF g
    <2>3. Step(Memory', a, it', s, y) /\ Step(Memory', b, 0, y, t)
      BY <1>14, <1>15 DEF y
    <2>4. PICK m, c : m = Memory' /\ c = it'
      OBVIOUS
    <2>5. ASSUME NEW k \in 1..Len(v)
          PROVE  Step(m, v[k], IF k = 1 THEN c ELSE 0, g[k], g[k + 1])
      <3>1. CASE k = 1
        <4>1. k + 1 = 2
          BY <3>1
        <4> QED BY <2>1, <2>2, <2>3, <2>4, <3>1, <4>1
      <3>2. CASE k = 2
        <4>1. k + 1 = 3
          BY <3>2
        <4> QED BY <2>1, <2>2, <2>3, <2>4, <3>2, <4>1
      <3> QED BY <2>1, <3>1, <3>2
    <2>6. g[Len(v) + 1] = t
      BY <2>1, <2>2
    <2>7. LeadTo(m, v, c, s, t)
      BY <2>2, <2>5, <2>6 DEF LeadTo
    <2> QED BY <2>4, <2>7
  <1>17. Shape(Memory', parsed', Len(parsed'), s)
    <2>1. PICK m, o : m = Memory' /\ o = s
      OBVIOUS
    <2>2. Shape(m, parsed, Len(parsed), o)
      BY <1>9, <1>11, <1>12, <2>1, ShapeKept
    <2> QED BY <1>1, <2>1, <2>2
  <1>18. \A k \in 1..Len(work) : work[k].do = "operator" => nodes'[work[k].node] = Reserved
    BY <1>4, <1>11, <1>12 DEF OperatorsInv
  <1>19. FlowInv'
    <2> HIDE DEF v, s
    <2> QED BY <1>1, <1>4, <1>8, <1>11, <1>16, <1>17, <1>18, FlowAfter
  <1> QED BY <1>11, <1>12, <1>19 DEF n

-----------------------------------------------------------------------------
(***************************************************************************)
(* The node that is made of the last items.                                *)
(***************************************************************************)

(* m belongs to one of the last c items. *)
Drops(c, m) == \E k \in (Len(parsed) - c + 1)..Len(parsed) : m \in IdsOf(parsed[k])

(* The program q and the memory o have the node x at the token p besides the old ones. *)
Extended(q, o, x, p) ==
  /\ q.nodes = o.nodes /\ o.tokens = tokens
  /\ Len(q.nodes) = NextId /\ DOMAIN q.nodes = 1..NextId
  /\ q.nodes[NextId] = x /\ o.positions[NextId] = p
  /\ \A n \in 1..Len(nodes) : q.nodes[n] = nodes[n] /\ o.positions[n] = positions[n]

(* The node n is as the grammar allows, and takes the last c items as its children. *)
Collects(q, o, n, c) ==
  /\ IsNode(q, n) /\ PointsAt(o, n)
  /\ \A m : m \in Items(Children(q, n)) <=> Drops(c, m)
  /\ Distinct(Children(q, n))

LEMMA PartsOfLast ==
  ASSUME CursorInv
  PROVE  /\ Part(1, 1) = parsed[Len(parsed)].value
         /\ Part(1, 2) = parsed[Len(parsed) - 1].value /\ Part(2, 2) = parsed[Len(parsed)].value
         /\ Part(1, 3) = parsed[Len(parsed) - 2].value
         /\ Part(2, 3) = parsed[Len(parsed) - 1].value /\ Part(3, 3) = parsed[Len(parsed)].value
  <1> DEFINE n == Len(parsed)
  <1>1. n \in Nat
    BY MemoryFacts
  <1> HIDE DEF n
  <1>2. /\ n - 1 + 1 = n /\ n - 2 + 1 = n - 1 /\ n - 2 + 2 = n
        /\ n - 3 + 1 = n - 2 /\ n - 3 + 2 = n - 1 /\ n - 3 + 3 = n
    BY <1>1
  <1> QED BY <1>2 DEF Part, n

LEMMA DropsOfLast ==
  ASSUME CursorInv, NEW m
  PROVE  /\ 1 <= Len(parsed) => (Drops(1, m) <=> m \in IdsOf(parsed[Len(parsed)]))
         /\ 2 <= Len(parsed) =>
              (Drops(2, m) <=>
                 m \in IdsOf(parsed[Len(parsed) - 1]) \/ m \in IdsOf(parsed[Len(parsed)]))
         /\ 3 <= Len(parsed) =>
              (Drops(3, m) <=>
                 \/ m \in IdsOf(parsed[Len(parsed) - 2])
                 \/ m \in IdsOf(parsed[Len(parsed) - 1]) \/ m \in IdsOf(parsed[Len(parsed)]))
  <1> DEFINE n == Len(parsed)
  <1>1. n \in Nat
    BY MemoryFacts
  <1> HIDE DEF n
  <1>2. /\ (n - 1 + 1)..n = {n} /\ (n - 2 + 1)..n = {n - 1, n}
        /\ (n - 3 + 1)..n = {n - 2, n - 1, n}
    BY <1>1
  <1> QED BY <1>2 DEF Drops, n

(* Different items have different nodes. *)
LEMMA ItemsApart ==
  ASSUME OwnersInv, NEW j \in DOMAIN parsed, NEW k \in DOMAIN parsed, j # k,
         NEW m, m \in IdsOf(parsed[j])
  PROVE  m \notin IdsOf(parsed[k])
  <1>1. SUFFICES ASSUME m \in IdsOf(parsed[k]) PROVE FALSE
    OBVIOUS
  <1>2. Owns(parsed, Program, <<"parsed", j>>, m) /\ Owns(parsed, Program, <<"parsed", k>>, m)
    BY <1>1 DEF Owns
  <1>3. <<"parsed", j>> = <<"parsed", k>>
    BY <1>2 DEF OwnersInv
  <1> QED BY <1>3

LEMMA NodePart ==
  ASSUME CursorInv, NEW q, NEW o, NEW x, NEW p, Extended(q, o, x, p),
         NEW e, NEW K, IsNodeItem(Memory, e, K)
  PROVE  /\ e.value \in Below(q, NextId, K) /\ IdsOf(e) = {e.value}
         /\ o.positions[e.value] = positions[e.value]
  <1>1. e = Item("node", e.value) /\ e.value \in 1..Len(nodes) /\ nodes[e.value].kind \in K
    BY MemoryFacts DEF IsNodeItem, Memory
  <1>2. Len(nodes) = NextId - 1
    BY MemoryFacts DEF NextId
  <1>3. e.value \in Below(q, NextId, K)
    BY <1>1, <1>2 DEF Below, Extended
  <1>4. IdsOf(e) = {e.value}
    BY <1>1 DEF IdsOf, Item
  <1> QED BY <1>1, <1>3, <1>4 DEF Extended

LEMMA NodesPart ==
  ASSUME CursorInv, NEW q, NEW o, NEW x, NEW p, Extended(q, o, x, p),
         NEW e, NEW k, Fits(Memory, e, Many(k))
  PROVE  /\ e.kind = "nodes" /\ e.value \in Seq(Below(q, NextId, {k})) /\ e.value # << >>
         /\ IdsOf(e) = Items(e.value)
  <1>1. /\ e = Item("nodes", e.value) /\ e.value # << >>
        /\ e.value \in Seq({n \in DOMAIN nodes : nodes[n].kind = k})
    BY DEF Fits, Many, Memory
  <1>2. Len(nodes) = NextId - 1 /\ DOMAIN nodes = 1..Len(nodes)
    BY MemoryFacts DEF NextId
  <1>3. {n \in DOMAIN nodes : nodes[n].kind = k} \subseteq Below(q, NextId, {k})
    BY <1>2 DEF Below, Extended
  <1>4. e.value \in Seq(Below(q, NextId, {k}))
    <2>1. PICK S, T : S = {n \in DOMAIN nodes : nodes[n].kind = k} /\ T = Below(q, NextId, {k})
      OBVIOUS
    <2>2. S \subseteq T /\ e.value \in Seq(S)
      BY <1>1, <1>3, <2>1
    <2>3. e.value \in Seq(T)
      BY <2>2
    <2> QED BY <2>1, <2>3
  <1>5. e.kind = "nodes" /\ IdsOf(e) = Items(e.value)
    BY <1>1 DEF IdsOf, Item
  <1> QED BY <1>1, <1>4, <1>5

LEMMA NamePart ==
  ASSUME NEW e, NEW k, NEW p, Fits(Memory, e, NameAt(k, p))
  PROVE  /\ IdsOf(e) = {} /\ (k # "int" => e.value \in NamesIn(k))
         /\ p # 0 => tokens[p] = TokenOf(k, e.value)
  BY DEF Fits, NameAt, Memory, IdsOf, Item

LEMMA NamesPart ==
  ASSUME NEW e, NEW k, Fits(Memory, e, NamesOf(k))
  PROVE  IdsOf(e) = {} /\ e.value \in Seq(NamesIn(k))
  <1>1. e = Item("names", e.value) /\ e.value \in Seq(NamesIn(k))
    BY DEF Fits, NamesOf
  <1>2. e.kind = "names"
    <2>1. Item("names", e.value).kind = "names"
      BY DEF Item
    <2> QED BY <1>1, <2>1, Zenon
  <1>3. IdsOf(e) = {}
    BY <1>2 DEF IdsOf
  <1> QED BY <1>1, <1>3

LEMMA ChildlessCollects ==
  ASSUME NEW q, NEW o, NEW n, NEW c, IsNode(q, n), PointsAt(o, n), Children(q, n) = << >>,
         \A m : ~Drops(c, m)
  PROVE  Collects(q, o, n, c)
  <1>1. Items(<< >>) = {} /\ Distinct(<< >>)
    BY DEF Items, Distinct
  <1> QED BY <1>1 DEF Collects

LEMMA LeafCollects ==
  ASSUME CursorInv, NEW q, NEW o, NEW p \in Nat \ {0},
         NEW kind, NEW r, NEW k,
         \/ kind = "int" /\ k = "int"
         \/ kind = "variable" /\ k \in {"lower", "upper"}
         \/ kind = "variable_pattern" /\ k = "lower",
         Extended(q, o, Made(kind), p),
         Shape(Memory, parsed, Len(parsed), <<r, NameAt(k, p)>>)
  PROVE  1 <= Len(parsed) /\ Collects(q, o, NextId, 1)
  <1> DEFINE n == NextId
             e == parsed[Len(parsed)]
  <1>1. /\ 1 <= Len(parsed) /\ IdsOf(e) = {} /\ (k # "int" => e.value \in NamesIn(k))
        /\ tokens[p] = TokenOf(k, e.value) /\ Part(1, 1) = e.value
    BY OnePopped, NamePart, PartsOfLast
  <1>2. \A m : ~Drops(1, m)
    BY <1>1, DropsOfLast
  <1> HIDE DEF e, n
  <1>3. q.nodes[n] = Made(kind) /\ o.nodes[n] = Made(kind) /\ o.positions[n] = p
        /\ o.tokens = tokens
    BY DEF Extended, n
  <1>4. Made(kind) = IF kind = "int" THEN IntLiteral(e.value)
                     ELSE IF kind = "variable" THEN Variable(e.value)
                     ELSE VariablePattern(e.value)
    BY <1>1 DEF Made
  <1>5. CASE kind = "int"
    <2>1. q.nodes[n] = IntLiteral(e.value) /\ o.nodes[n] = IntLiteral(e.value)
      BY <1>3, <1>4, <1>5
    <2>2. IsNode(q, n) /\ Children(q, n) = << >>
      BY <2>1 DEF IsNode, Children, IntLiteral
    <2>3. PointsAt(o, n)
      BY <1>1, <1>3, <1>5, <2>1 DEF PointsAt, IntLiteral, TokenOf
    <2> QED BY <1>1, <1>2, <2>2, <2>3, ChildlessCollects DEF n
  <1>6. CASE kind = "variable"
    <2>1. q.nodes[n] = Variable(e.value) /\ o.nodes[n] = Variable(e.value)
      BY <1>3, <1>4, <1>6
    <2>2. e.value \in Names
      BY <1>1, <1>6, NamesAssumption DEF NamesIn, LowerNames
    <2>3. IsNode(q, n) /\ Children(q, n) = << >>
      BY <2>1, <2>2 DEF IsNode, Children, Variable
    <2>4. PointsAt(o, n)
      BY <1>1, <1>3, <1>6, <2>1 DEF PointsAt, Variable, TokenOf, NameToken
    <2> QED BY <1>1, <1>2, <2>3, <2>4, ChildlessCollects DEF n
  <1>7. CASE kind = "variable_pattern"
    <2>1. q.nodes[n] = VariablePattern(e.value) /\ o.nodes[n] = VariablePattern(e.value)
      BY <1>3, <1>4, <1>7
    <2>2. e.value \in LowerNames
      BY <1>1, <1>7 DEF NamesIn
    <2>3. IsNode(q, n) /\ Children(q, n) = << >>
      BY <2>1, <2>2 DEF IsNode, Children, VariablePattern
    <2>4. PointsAt(o, n)
      BY <1>1, <1>3, <1>7, <2>1 DEF PointsAt, VariablePattern, TokenOf, NameToken
    <2> QED BY <1>1, <1>2, <2>3, <2>4, ChildlessCollects DEF n
  <1> QED BY <1>5, <1>6, <1>7

LEMMA ConstructorCollects ==
  ASSUME CursorInv, NEW q, NEW o, NEW p \in Nat \ {0},
         NEW kind, NEW r, NEW k,
         \/ kind = "constructor_pattern" /\ k = "lower"
         \/ kind = "constructor" /\ k = "upper",
         Extended(q, o, Made(kind), p),
         Shape(Memory, parsed, Len(parsed), <<<<r, NameAt("upper", p)>>, NamesOf(k)>>)
  PROVE  2 <= Len(parsed) /\ Collects(q, o, NextId, 2)
  <1> DEFINE n == NextId
             a == parsed[Len(parsed) - 1]
             b == parsed[Len(parsed)]
  <1>1. /\ 2 <= Len(parsed) /\ Fits(Memory, a, NameAt("upper", p))
        /\ Fits(Memory, b, NamesOf(k))
    BY TwoPopped
  <1>2. /\ IdsOf(a) = {} /\ a.value \in UpperNames /\ tokens[p] = NameToken("upper", a.value)
        /\ IdsOf(b) = {} /\ b.value \in Seq(NamesIn(k))
        /\ Part(1, 2) = a.value /\ Part(2, 2) = b.value
    BY <1>1, NamePart, NamesPart, PartsOfLast DEF NamesIn, TokenOf
  <1>3. \A m : ~Drops(2, m)
    BY <1>1, <1>2, DropsOfLast
  <1> HIDE DEF a, b, n
  <1>4. q.nodes[n] = Made(kind) /\ o.nodes[n] = Made(kind) /\ o.positions[n] = p
        /\ o.tokens = tokens
    BY DEF Extended, n
  <1>5. CASE kind = "constructor_pattern"
    <2>1. Made(kind) = ConstructorPattern(a.value, b.value)
      BY <1>2, <1>5 DEF Made
    <2>2. NamesIn(k) = LowerNames
      BY <1>5 DEF NamesIn
    <2>3. IsNode(q, n) /\ Children(q, n) = << >>
      BY <1>2, <1>4, <2>1, <2>2 DEF IsNode, Children, ConstructorPattern
    <2>4. PointsAt(o, n)
      BY <1>2, <1>4, <2>1 DEF PointsAt, ConstructorPattern, NameToken
    <2> QED BY <1>1, <1>3, <2>3, <2>4, ChildlessCollects DEF n
  <1>6. CASE kind = "constructor"
    <2>1. Made(kind) = Constructor(a.value, b.value)
      BY <1>2, <1>6 DEF Made
    <2>2. NamesIn(k) = UpperNames
      BY <1>6 DEF NamesIn
    <2>3. IsNode(q, n) /\ Children(q, n) = << >>
      BY <1>2, <1>4, <2>1, <2>2 DEF IsNode, Children, Constructor
    <2>4. PointsAt(o, n)
      BY <1>2, <1>4, <2>1 DEF PointsAt, Constructor, NameToken
    <2> QED BY <1>1, <1>3, <2>3, <2>4, ChildlessCollects DEF n
  <1> QED BY <1>5, <1>6

(* A node of two children. *)
LEMMA PairCollects ==
  ASSUME NEW q, NEW o, NEW n, NEW a, NEW b, a # b, IsNode(q, n), PointsAt(o, n),
         Children(q, n) = <<a, b>>, NEW c, \A m : Drops(c, m) <=> m \in {a, b}
  PROVE  Collects(q, o, n, c)
  <1>1. Items(<<a, b>>) = {a, b} /\ Distinct(<<a, b>>)
    BY DEF Items, Distinct
  <1> QED BY <1>1 DEF Collects

LEMMA ApplicationCollects ==
  ASSUME CursorInv, NEW q, NEW o, NEW p \in Nat \ {0}, NEW r, NEW b,
         Extended(q, o, Made("application"), p), tokens[p].kind \in PrimaryStart,
         Shape(Memory, parsed, Len(parsed), <<<<r, Before(b, p)>>, After(0, p - 1)>>)
  PROVE  2 <= Len(parsed) /\ Collects(q, o, NextId, 2)
  <1> DEFINE n == NextId
             f == parsed[Len(parsed) - 1]
             a == parsed[Len(parsed)]
  <1>1. /\ 2 <= Len(parsed) /\ Fits(Memory, f, Before(b, p)) /\ Fits(Memory, a, After(0, p - 1))
        /\ Part(1, 2) = f.value /\ Part(2, 2) = a.value
    BY TwoPopped, PartsOfLast
  <1>2. /\ IsNodeItem(Memory, f, Expressions) /\ positions[f.value] < p
        /\ IsNodeItem(Memory, a, Expressions) /\ positions[a.value] > p - 1
    <2> HIDE DEF f, a
    <2> QED BY <1>1 DEF Fits, Before, After, Memory
  <1>3. /\ f.value \in Below(q, n, Expressions) /\ IdsOf(f) = {f.value}
        /\ o.positions[f.value] = positions[f.value]
        /\ a.value \in Below(q, n, Expressions) /\ IdsOf(a) = {a.value}
        /\ o.positions[a.value] = positions[a.value]
    BY <1>2, NodePart
  <1>4. \A m : Drops(2, m) <=> m \in {f.value, a.value}
    BY <1>1, <1>3, DropsOfLast
  <1>5. positions[a.value] \in Nat
    BY <1>2, MemoryFacts DEF IsMemory, IsNodeItem, Memory
  <1> HIDE DEF n, f, a
  <1>6. /\ q.nodes[n] = Application(f.value, a.value) /\ o.nodes[n] = q.nodes[n]
        /\ o.positions[n] = p /\ o.tokens = tokens
    BY <1>1 DEF Extended, n, Made
  <1>7. IsNode(q, n) /\ Children(q, n) = <<f.value, a.value>>
    BY <1>3, <1>6 DEF IsNode, Children, Application
  <1>8. PointsAt(o, n)
    BY <1>2, <1>3, <1>5, <1>6 DEF PointsAt, Application
  <1>9. f.value # a.value
    BY <1>2, <1>5
  <1> QED BY <1>1, <1>4, <1>7, <1>8, <1>9, PairCollects DEF n

LEMMA BranchCollects ==
  ASSUME CursorInv, NEW q, NEW o, NEW p \in Nat \ {0}, NEW r,
         Extended(q, o, Made("branch"), p),
         Shape(Memory, parsed, Len(parsed), <<<<r, PatternAt(p)>>, After(0, 0)>>)
  PROVE  2 <= Len(parsed) /\ Collects(q, o, NextId, 2)
  <1> DEFINE n == NextId
             a == parsed[Len(parsed) - 1]
             b == parsed[Len(parsed)]
  <1>1. /\ 2 <= Len(parsed) /\ Fits(Memory, a, PatternAt(p)) /\ Fits(Memory, b, After(0, 0))
        /\ Part(1, 2) = a.value /\ Part(2, 2) = b.value
    BY TwoPopped, PartsOfLast
  <1>2. /\ IsNodeItem(Memory, a, Patterns) /\ positions[a.value] = p
        /\ IsNodeItem(Memory, b, Expressions)
    <2> HIDE DEF a, b
    <2> QED BY <1>1 DEF Fits, PatternAt, After, Memory
  <1>3. /\ a.value \in Below(q, n, Patterns) /\ IdsOf(a) = {a.value}
        /\ o.positions[a.value] = positions[a.value]
        /\ b.value \in Below(q, n, Expressions) /\ IdsOf(b) = {b.value}
    BY <1>2, NodePart
  <1>4. \A m : Drops(2, m) <=> m \in {a.value, b.value}
    BY <1>1, <1>3, DropsOfLast
  <1>5. a.value # b.value
    BY <1>2 DEF IsNodeItem, Patterns, Expressions
  <1> HIDE DEF n, a, b
  <1>6. /\ q.nodes[n] = Branch(a.value, b.value) /\ o.nodes[n] = q.nodes[n]
        /\ o.positions[n] = p /\ o.tokens = tokens
    BY <1>1 DEF Extended, n, Made
  <1>7. IsNode(q, n) /\ Children(q, n) = <<a.value, b.value>>
    BY <1>3, <1>6 DEF IsNode, Children, Branch
  <1>8. PointsAt(o, n)
    BY <1>2, <1>3, <1>6 DEF PointsAt, Branch
  <1> QED BY <1>1, <1>4, <1>5, <1>7, <1>8, PairCollects DEF n

LEMMA CaseCollects ==
  ASSUME CursorInv, OwnersInv, NEW q, NEW o, NEW p \in Nat \ {0}, NEW r,
         Extended(q, o, Made("case"), p), tokens[p] = Token("case"),
         Shape(Memory, parsed, Len(parsed), <<<<r, After(0, 0)>>, Many("branch")>>)
  PROVE  2 <= Len(parsed) /\ Collects(q, o, NextId, 2)
  <1> DEFINE n == NextId
             a == parsed[Len(parsed) - 1]
             b == parsed[Len(parsed)]
  <1>1. /\ 2 <= Len(parsed) /\ Fits(Memory, a, After(0, 0)) /\ Fits(Memory, b, Many("branch"))
        /\ Part(1, 2) = a.value /\ Part(2, 2) = b.value
    BY TwoPopped, PartsOfLast
  <1>2. IsNodeItem(Memory, a, Expressions)
    <2> HIDE DEF a
    <2> QED BY <1>1 DEF Fits, After, Memory
  <1>3. /\ a.value \in Below(q, n, Expressions) /\ IdsOf(a) = {a.value}
        /\ b.kind = "nodes" /\ b.value \in Seq(Below(q, n, {"branch"})) /\ b.value # << >>
        /\ IdsOf(b) = Items(b.value)
    BY <1>1, <1>2, NodePart, NodesPart
  <1>4. \A m : Drops(2, m) <=> m = a.value \/ m \in Items(b.value)
    BY <1>1, <1>3, DropsOfLast
  <1>5. Distinct(b.value) /\ a.value \notin Items(b.value)
    <2>1. /\ Len(parsed) - 1 \in DOMAIN parsed /\ Len(parsed) \in DOMAIN parsed
          /\ Len(parsed) - 1 # Len(parsed)
      <3>1. PICK l : l = Len(parsed) /\ 2 <= l /\ l \in Nat
        BY <1>1, MemoryFacts
      <3>2. l - 1 \in 1..l /\ l \in 1..l /\ l - 1 # l
        BY <3>1
      <3> QED BY <3>1, <3>2, MemoryFacts
    <2>2. Distinct(b.value)
      BY <1>3, <2>1 DEF OwnersInv
    <2>3. a.value \notin IdsOf(b)
      BY <1>3, <2>1, ItemsApart
    <2> QED BY <1>3, <2>2, <2>3
  <1> HIDE DEF n, a, b
  <1>6. /\ q.nodes[n] = CaseExpression(a.value, b.value) /\ o.nodes[n] = q.nodes[n]
        /\ o.positions[n] = p /\ o.tokens = tokens
    BY <1>1 DEF Extended, n, Made
  <1>7. IsNode(q, n) /\ Children(q, n) = <<a.value>> \o b.value
    BY <1>3, <1>6 DEF IsNode, Children, CaseExpression
  <1>8. PointsAt(o, n)
    BY <1>6 DEF PointsAt, CaseExpression
  <1> DEFINE w == <<a.value>> \o b.value
             l == Len(b.value)
  <1>9. /\ l \in Nat /\ DOMAIN b.value = 1..l /\ DOMAIN w = 1..(l + 1) /\ w[1] = a.value
        /\ \A k \in 1..l : w[k + 1] = b.value[k]
    <2>1. PICK s, x, S : s = b.value /\ x = a.value /\ s \in Seq(S)
      BY <1>3
    <2>2. IsSeq(s) /\ IsSeq(<<x>>) /\ Len(<<x>>) = 1 /\ <<x>>[1] = x
      BY <2>1, TuplesAreSeqs DEF IsSeq
    <2>3. /\ IsSeq(<<x>> \o s) /\ Len(<<x>> \o s) = 1 + Len(s) /\ (<<x>> \o s)[1] = x
          /\ \A k \in 1..Len(s) : (<<x>> \o s)[1 + k] = s[k]
      <3>1. 1 \in 1..1
        OBVIOUS
      <3> QED BY <2>2, <3>1, JoinSeq
    <2>4. Len(s) \in Nat /\ DOMAIN s = 1..Len(s) /\ DOMAIN (<<x>> \o s) = 1..(1 + Len(s))
      BY <2>2, <2>3, SeqOfElements
    <2>5. \A k \in 1..Len(s) : (<<x>> \o s)[k + 1] = s[k]
      <3>1. \A k \in 1..Len(s) : 1 + k = k + 1
        BY <2>4
      <3> QED BY <2>3, <3>1
    <2>6. 1..(1 + Len(s)) = 1..(Len(s) + 1)
      BY <2>4
    <2> QED BY <2>1, <2>3, <2>4, <2>5, <2>6
  <1> HIDE DEF w, l
  <1>10. \A j \in 1..(l + 1) : j = 1 \/ \E k \in 1..l : j = k + 1
    <2>1. \A j \in 1..(l + 1) : j # 1 => j - 1 \in 1..l /\ j = (j - 1) + 1
      BY <1>9
    <2> QED BY <2>1
  <1>11. \A m : m \in Items(w) <=> m = a.value \/ m \in Items(b.value)
    <2>1. \A k \in 1..l : k + 1 \in 1..(l + 1)
      BY <1>9
    <2>2. 1 \in 1..(l + 1)
      BY <1>9
    <2>3. ASSUME NEW m, m \in Items(w) PROVE m = a.value \/ m \in Items(b.value)
      <3>1. PICK j \in 1..(l + 1) : m = w[j]
        BY <1>9, <2>3 DEF Items
      <3>2. CASE j = 1
        BY <1>9, <3>1, <3>2
      <3>3. CASE j # 1
        <4>1. PICK k \in 1..l : j = k + 1
          BY <1>10, <3>3
        <4>2. m = b.value[k]
          BY <1>9, <3>1, <4>1
        <4> QED BY <1>9, <4>2 DEF Items
      <3> QED BY <3>2, <3>3
    <2>4. ASSUME NEW m, m \in Items(b.value) PROVE m \in Items(w)
      <3>1. PICK k \in 1..l : m = b.value[k]
        BY <1>9, <2>4 DEF Items
      <3>2. m = w[k + 1] /\ k + 1 \in DOMAIN w
        BY <1>9, <2>1, <3>1
      <3> QED BY <3>2 DEF Items
    <2>5. a.value \in Items(w)
      BY <1>9, <2>2 DEF Items
    <2> QED BY <2>3, <2>4, <2>5
  <1>12. Distinct(w)
    <2>1. \A k \in 1..l : b.value[k] \in Items(b.value)
      BY <1>9 DEF Items
    <2>2. ASSUME NEW i \in 1..(l + 1), NEW j \in 1..(l + 1), w[i] = w[j]
          PROVE  i = j
      <3>1. CASE i = 1 /\ j = 1
        BY <3>1
      <3>2. CASE i = 1 /\ j # 1
        <4>1. PICK g \in 1..l : j = g + 1
          BY <1>10, <3>2
        <4>2. a.value = b.value[g]
          BY <1>9, <2>2, <3>2, <4>1
        <4> QED BY <1>5, <2>1, <4>2
      <3>3. CASE i # 1 /\ j = 1
        <4>1. PICK f \in 1..l : i = f + 1
          BY <1>10, <3>3
        <4>2. a.value = b.value[f]
          BY <1>9, <2>2, <3>3, <4>1
        <4> QED BY <1>5, <2>1, <4>2
      <3>4. CASE i # 1 /\ j # 1
        <4>1. PICK f \in 1..l, g \in 1..l : i = f + 1 /\ j = g + 1
          BY <1>10, <3>4
        <4>2. b.value[f] = b.value[g]
          BY <1>9, <2>2, <4>1
        <4>3. f = g
          BY <1>5, <1>9, <4>2 DEF Distinct
        <4> QED BY <4>1, <4>3
      <3> QED BY <3>1, <3>2, <3>3, <3>4
    <2> QED BY <1>9, <2>2 DEF Distinct
  <1>13. Collects(q, o, n, 2)
    <2>1. Children(q, n) = w
      BY <1>7 DEF w
    <2> QED BY <1>4, <1>7, <1>8, <1>11, <1>12, <2>1 DEF Collects
  <1> QED BY <1>1, <1>13 DEF n

LEMMA DataCollects ==
  ASSUME CursorInv, OwnersInv, NEW q, NEW o, NEW p \in Nat \ {0}, NEW r,
         Extended(q, o, Made("data"), p), tokens[p] = Token("data"),
         Shape(Memory, parsed, Len(parsed), <<<<r, NameAt("upper", 0)>>, Many("constructor")>>)
  PROVE  2 <= Len(parsed) /\ Collects(q, o, NextId, 2)
  <1> DEFINE n == NextId
             a == parsed[Len(parsed) - 1]
             b == parsed[Len(parsed)]
  <1>1. /\ 2 <= Len(parsed) /\ Fits(Memory, a, NameAt("upper", 0))
        /\ Fits(Memory, b, Many("constructor"))
        /\ Part(1, 2) = a.value /\ Part(2, 2) = b.value
    BY TwoPopped, PartsOfLast
  <1>2. IdsOf(a) = {} /\ a.value \in UpperNames
    BY <1>1, NamePart DEF NamesIn
  <1>3. /\ b.kind = "nodes" /\ b.value \in Seq(Below(q, n, {"constructor"})) /\ b.value # << >>
        /\ IdsOf(b) = Items(b.value)
    BY <1>1, NodesPart
  <1>4. \A m : Drops(2, m) <=> m \in Items(b.value)
    BY <1>1, <1>2, <1>3, DropsOfLast
  <1>5. Distinct(b.value)
    <2>1. Len(parsed) \in DOMAIN parsed
      BY <1>1, MemoryFacts
    <2> QED BY <1>3, <2>1 DEF OwnersInv
  <1> HIDE DEF n, a, b
  <1>6. /\ q.nodes[n] = DataTypeDefinition(a.value, b.value) /\ o.nodes[n] = q.nodes[n]
        /\ o.positions[n] = p /\ o.tokens = tokens
    BY <1>1 DEF Extended, n, Made
  <1>7. IsNode(q, n) /\ Children(q, n) = b.value
    BY <1>2, <1>3, <1>6 DEF IsNode, Children, DataTypeDefinition
  <1>8. PointsAt(o, n)
    BY <1>6 DEF PointsAt, DataTypeDefinition
  <1>9. Collects(q, o, n, 2)
    BY <1>4, <1>5, <1>7, <1>8 DEF Collects
  <1> QED BY <1>1, <1>9 DEF n

LEMMA FunctionCollects ==
  ASSUME CursorInv, NEW q, NEW o, NEW p \in Nat \ {0}, NEW r,
         Extended(q, o, Made("defn"), p), tokens[p] = Token("defn"),
         Shape(Memory, parsed, Len(parsed),
               <<<<<<r, NameAt("lower", 0)>>, NamesOf("lower")>>, After(0, 0)>>)
  PROVE  3 <= Len(parsed) /\ Collects(q, o, NextId, 3)
  <1> DEFINE n == NextId
             a == parsed[Len(parsed) - 2]
             b == parsed[Len(parsed) - 1]
             d == parsed[Len(parsed)]
  <1>1. /\ 3 <= Len(parsed) /\ Fits(Memory, a, NameAt("lower", 0))
        /\ Fits(Memory, b, NamesOf("lower")) /\ Fits(Memory, d, After(0, 0))
        /\ Part(1, 3) = a.value /\ Part(2, 3) = b.value /\ Part(3, 3) = d.value
    BY ThreePopped, PartsOfLast
  <1>2. /\ IdsOf(a) = {} /\ a.value \in LowerNames
        /\ IdsOf(b) = {} /\ b.value \in Seq(LowerNames)
    BY <1>1, NamePart, NamesPart DEF NamesIn
  <1>3. IsNodeItem(Memory, d, Expressions)
    <2> HIDE DEF d
    <2> QED BY <1>1 DEF Fits, After, Memory
  <1>4. d.value \in Below(q, n, Expressions) /\ IdsOf(d) = {d.value}
    BY <1>3, NodePart
  <1>5. \A m : Drops(3, m) <=> m = d.value
    BY <1>1, <1>2, <1>4, DropsOfLast
  <1> HIDE DEF n, a, b, d
  <1>6. /\ q.nodes[n] = FunctionDefinition(a.value, b.value, d.value)
        /\ o.nodes[n] = q.nodes[n] /\ o.positions[n] = p /\ o.tokens = tokens
    BY <1>1 DEF Extended, n, Made
  <1>7. IsNode(q, n) /\ Children(q, n) = <<d.value>>
    BY <1>2, <1>4, <1>6 DEF IsNode, Children, FunctionDefinition
  <1>8. PointsAt(o, n)
    BY <1>6 DEF PointsAt, FunctionDefinition
  <1>9. Items(<<d.value>>) = {d.value} /\ Distinct(<<d.value>>)
    BY DEF Items, Distinct
  <1>10. Collects(q, o, n, 3)
    BY <1>5, <1>7, <1>8, <1>9 DEF Collects
  <1> QED BY <1>1, <1>10 DEF n

(* The item of the new node is of the sort that it was made for. *)
LEMMA NewFits ==
  ASSUME CursorInv, NEW q, NEW o, NEW x, NEW p \in Nat \ {0}, Extended(q, o, x, p)
  PROVE  /\ x.kind \in Expressions =>
              \A z \in Afters(Memory, p) : Fits(o, Item("node", NextId), z)
         /\ x.kind \in Patterns => Fits(o, Item("node", NextId), PatternAt(p))
         /\ x.kind # "reserved" => Fits(o, Item("node", NextId), One(x.kind))
  <1> DEFINE n == NextId
             e == Item("node", n)
  <1>1. Len(nodes) \in Nat /\ n = Len(nodes) + 1 /\ n \in Nat /\ n \in 1..n
    BY MemoryFacts DEF NextId
  <1>2. /\ o.nodes[n] = x /\ o.positions[n] = p /\ n \in DOMAIN o.nodes
        /\ e = Item("node", e.value) /\ e.value = n
    BY <1>1 DEF Extended, Item
  <1>3. \A K : x.kind \in K => IsNodeItem(o, e, K)
    <2> HIDE DEF e, n
    <2> QED BY <1>2 DEF IsNodeItem
  <1> HIDE DEF e, n
  <1>4. ASSUME x.kind \in Expressions, NEW z \in Afters(Memory, p)
        PROVE  Fits(o, e, z)
    <2>1. PICK b \in 0..Len(nodes), c \in 0..(p - 1) : z = After(b, c)
      BY DEF Afters, Memory
    <2>2. n > b /\ p > c
      BY <1>1
    <2>3. z.sort = "after" /\ z.node = b /\ z.position = c
      BY <2>1 DEF After
    <2> QED BY <1>2, <1>3, <1>4, <2>2, <2>3 DEF Fits
  <1>5. ASSUME x.kind \in Patterns
        PROVE  Fits(o, e, PatternAt(p))
    BY <1>2, <1>3, <1>5 DEF Fits, PatternAt
  <1>6. ASSUME x.kind # "reserved"
        PROVE  Fits(o, e, One(x.kind))
    <2>1. IsNodeItem(o, e, {x.kind})
      BY <1>3
    <2> QED BY <1>6, <2>1 DEF Fits, One
  <1> QED BY <1>4, <1>5, <1>6 DEF e, n

(* A definition leaves nothing, another node leaves its item. *)
Leaves(kind, o, r, u) ==
  IF kind \in {"defn", "data"} THEN u = r
  ELSE \E z : u = <<r, z>> /\ Fits(o, Item("node", NextId), z)

LEMMA MadeKind ==
  \A kind \in {"int", "variable", "application", "case", "branch", "variable_pattern",
               "constructor_pattern", "constructor", "data", "defn"} : Made(kind).kind = kind
  BY DEF Made, IntLiteral, Variable, Application, CaseExpression, Branch, VariablePattern,
         ConstructorPattern, Constructor, DataTypeDefinition, FunctionDefinition

LEMMA MakeCases ==
  ASSUME CursorInv, OwnersInv, NEW kind, NEW p \in Nat \ {0}, NEW t, NEW u,
         MakeLeads(Memory, kind, p, t, u), Shape(Memory, parsed, Len(parsed), t),
         NEW q, NEW o, Extended(q, o, Made(kind), p)
  PROVE  /\ Parts(kind) \in 1..3 /\ Parts(kind) <= Len(parsed) /\ Made(kind).kind = kind
         /\ Collects(q, o, NextId, Parts(kind))
         /\ \E r : /\ Shape(Memory, parsed, Len(parsed) - Parts(kind), r)
                   /\ Leaves(kind, o, r, u)
  <1> DEFINE e == Item("node", NextId)
             Goal(c, r) == /\ Parts(kind) = c /\ c \in 1..3 /\ c <= Len(parsed)
                           /\ Made(kind).kind = kind /\ Collects(q, o, NextId, c)
                           /\ Shape(Memory, parsed, Len(parsed) - c, r)
                           /\ Leaves(kind, o, r, u)
  <1>1. /\ Made(kind).kind \in Expressions => \A z \in Afters(Memory, p) : Fits(o, e, z)
        /\ Made(kind).kind \in Patterns => Fits(o, e, PatternAt(p))
        /\ Made(kind).kind # "reserved" => Fits(o, e, One(Made(kind).kind))
    BY NewFits
  <1>2. ASSUME NEW r, NEW k, NEW x,
               \/ kind = "int" /\ k = "int" /\ x \in Afters(Memory, p)
               \/ kind = "variable" /\ k \in {"lower", "upper"} /\ x \in Afters(Memory, p)
               \/ kind = "variable_pattern" /\ k = "lower" /\ x = PatternAt(p),
               t = <<r, NameAt(k, p)>>, u = <<r, x>>
        PROVE  Goal(1, r)
    <2>1. Parts(kind) = 1 /\ Made(kind).kind = kind /\ kind \notin {"defn", "data"}
      BY <1>2, MadeKind DEF Parts
    <2>2. Fits(o, e, x)
      BY <1>1, <1>2, <2>1 DEF Expressions, Patterns
    <2>3. 1 <= Len(parsed) /\ Shape(Memory, parsed, Len(parsed) - 1, r)
      BY <1>2, OnePopped
    <2>4. Collects(q, o, NextId, 1)
      BY <1>2, LeafCollects
    <2>5. Leaves(kind, o, r, u)
      BY <1>2, <2>1, <2>2 DEF Leaves
    <2> QED BY <2>1, <2>3, <2>4, <2>5
  <1>3. ASSUME NEW r, NEW k, NEW x,
               \/ kind = "constructor_pattern" /\ k = "lower" /\ x = PatternAt(p)
               \/ kind = "constructor" /\ k = "upper" /\ x = One("constructor"),
               t = <<<<r, NameAt("upper", p)>>, NamesOf(k)>>, u = <<r, x>>
        PROVE  Goal(2, r)
    <2>1. Parts(kind) = 2 /\ Made(kind).kind = kind /\ kind \notin {"defn", "data"}
      BY <1>3, MadeKind DEF Parts
    <2>2. Fits(o, e, x)
      BY <1>1, <1>3, <2>1 DEF Patterns
    <2>3. 2 <= Len(parsed) /\ Shape(Memory, parsed, Len(parsed) - 2, r)
      BY <1>3, TwoPopped
    <2>4. Collects(q, o, NextId, 2)
      BY <1>3, ConstructorCollects
    <2>5. Leaves(kind, o, r, u)
      BY <1>3, <2>1, <2>2 DEF Leaves
    <2> QED BY <2>1, <2>3, <2>4, <2>5
  <1>4. ASSUME NEW r, NEW b, NEW x \in Afters(Memory, p), kind = "application",
               tokens[p].kind \in PrimaryStart,
               t = <<<<r, Before(b, p)>>, After(0, p - 1)>>, u = <<r, x>>
        PROVE  Goal(2, r)
    <2>1. Parts(kind) = 2 /\ Made(kind).kind = kind /\ kind \notin {"defn", "data"}
      BY <1>4, MadeKind DEF Parts
    <2>2. Fits(o, e, x)
      BY <1>1, <1>4, <2>1 DEF Expressions
    <2>3. 2 <= Len(parsed) /\ Shape(Memory, parsed, Len(parsed) - 2, r)
      BY <1>4, TwoPopped
    <2>4. Collects(q, o, NextId, 2)
      BY <1>4, ApplicationCollects
    <2>5. Leaves(kind, o, r, u)
      BY <1>4, <2>1, <2>2 DEF Leaves
    <2> QED BY <2>1, <2>3, <2>4, <2>5
  <1>5. ASSUME NEW r, NEW x \in Afters(Memory, p), kind = "case", tokens[p] = Token("case"),
               t = <<<<r, After(0, 0)>>, Many("branch")>>, u = <<r, x>>
        PROVE  Goal(2, r)
    <2>1. Parts(kind) = 2 /\ Made(kind).kind = kind /\ kind \notin {"defn", "data"}
      BY <1>5, MadeKind DEF Parts
    <2>2. Fits(o, e, x)
      BY <1>1, <1>5, <2>1 DEF Expressions
    <2>3. 2 <= Len(parsed) /\ Shape(Memory, parsed, Len(parsed) - 2, r)
      BY <1>5, TwoPopped
    <2>4. Collects(q, o, NextId, 2)
      BY <1>5, CaseCollects
    <2>5. Leaves(kind, o, r, u)
      BY <1>5, <2>1, <2>2 DEF Leaves
    <2> QED BY <2>1, <2>3, <2>4, <2>5
  <1>6. ASSUME NEW r, kind = "branch", t = <<<<r, PatternAt(p)>>, After(0, 0)>>,
               u = <<r, One("branch")>>
        PROVE  Goal(2, r)
    <2>1. Parts(kind) = 2 /\ Made(kind).kind = kind /\ kind \notin {"defn", "data"}
      BY <1>6, MadeKind DEF Parts
    <2>2. Fits(o, e, One("branch"))
      BY <1>1, <1>6, <2>1
    <2>3. 2 <= Len(parsed) /\ Shape(Memory, parsed, Len(parsed) - 2, r)
      BY <1>6, TwoPopped
    <2>4. Collects(q, o, NextId, 2)
      BY <1>6, BranchCollects
    <2>5. Leaves(kind, o, r, u)
      BY <1>6, <2>1, <2>2 DEF Leaves
    <2> QED BY <2>1, <2>3, <2>4, <2>5
  <1>7. ASSUME NEW r, kind = "data", tokens[p] = Token("data"),
               t = <<<<r, NameAt("upper", 0)>>, Many("constructor")>>, u = r
        PROVE  Goal(2, r)
    <2>1. Parts(kind) = 2 /\ Made(kind).kind = kind
      BY <1>7, MadeKind DEF Parts
    <2>2. 2 <= Len(parsed) /\ Shape(Memory, parsed, Len(parsed) - 2, r)
      BY <1>7, TwoPopped
    <2>3. Collects(q, o, NextId, 2)
      BY <1>7, DataCollects
    <2>4. Leaves(kind, o, r, u)
      BY <1>7 DEF Leaves
    <2> QED BY <2>1, <2>2, <2>3, <2>4
  <1>8. ASSUME NEW r, kind = "defn", tokens[p] = Token("defn"),
               t = <<<<<<r, NameAt("lower", 0)>>, NamesOf("lower")>>, After(0, 0)>>, u = r
        PROVE  Goal(3, r)
    <2>1. Parts(kind) = 3 /\ Made(kind).kind = kind
      BY <1>8, MadeKind DEF Parts
    <2>2. 3 <= Len(parsed) /\ Shape(Memory, parsed, Len(parsed) - 3, r)
      BY <1>8, ThreePopped
    <2>3. Collects(q, o, NextId, 3)
      BY <1>8, FunctionCollects
    <2>4. Leaves(kind, o, r, u)
      BY <1>8 DEF Leaves
    <2> QED BY <2>1, <2>2, <2>3, <2>4
  <1>9. \E c, r : Goal(c, r)
    <2> HIDE DEF Goal
    <2> QED BY <1>2, <1>3, <1>4, <1>5, <1>6, <1>7, <1>8 DEF MakeLeads, Memory
  <1> QED BY <1>9

-----------------------------------------------------------------------------
(***************************************************************************)
(* A node is finished: the number n stands for it, which was reserved or   *)
(* new, and it takes the place of the last c items.                        *)
(***************************************************************************)
Builds(n, c) ==
  /\ c \in 1..3 /\ c <= Len(parsed) /\ work # << >> /\ work' = Tail(work)
  /\ n \notin Complete /\ DOMAIN nodes' = DOMAIN nodes \cup {n}
  /\ \A m \in DOMAIN nodes : m # n => nodes'[m] = nodes[m]
  /\ nodes'[n] # Reserved /\ Collects(Program', Memory', n, c)
  /\ \/ parsed' = Append(Without(c), Item("node", n)) /\ definitions' = definitions
     \/ parsed' = Without(c) /\ definitions' = Append(definitions, n)

LEMMA NodeIsFinished ==
  ASSUME NEW p, NEW n, IsNode(p, n)
  PROVE  p.nodes[n] # Reserved
  BY DEF IsNode, Reserved

LEMMA BinaryOperatorBuilds ==
  ASSUME CursorInv, FlowInv, OperatorsInv, MakeBinaryOperator
  PROVE  /\ CursorInv' /\ FlowInv' /\ GrowsTo(Memory, Memory') /\ UNCHANGED it
         /\ Builds(Top.node, 2) /\ Top.do = "operator"
         /\ Top.node \in DOMAIN nodes /\ nodes[Top.node] = Reserved
  <1> DEFINE n == Top.node
             l == parsed[Len(parsed) - 1].value
             r == parsed[Len(parsed)].value
             x == BinaryOperator(Top.op, l, r)
             e == Item("node", n)
  <1>1. /\ outcome = "parsing" /\ work # << >> /\ Top.do = "operator" /\ work' = Tail(work)
        /\ nodes' = [nodes EXCEPT ![n] = x] /\ parsed' = Append(Without(2), e)
        /\ UNCHANGED <<tokens, it, positions, definitions, outcome>>
    BY PartsOfLast DEF MakeBinaryOperator, Running
  <1>2. PICK t, u : /\ Shape(Memory, parsed, Len(parsed), t) /\ Step(Memory, Top, it, t, u)
                    /\ LeadTo(Memory, Tail(work), 0, u, Nil)
    BY <1>1, RunningFlow
  <1>3. OperatorLeads(Memory, Top.op, n, t, u)
    BY <1>1, <1>2 DEF Step
  <1>4. /\ Top.op \in {"+", "-", "*", "/"} /\ n \in DOMAIN nodes /\ nodes[n] = Reserved
        /\ tokens[positions[n]] = Token(Top.op)
    BY <1>3 DEF OperatorLeads, Memory
  <1>5. PICK s, b, c : /\ t = <<<<s, Before(n, positions[n])>>, After(n, positions[n])>>
                       /\ b \in 0..(n - 1) /\ c \in 0..(positions[n] - 1)
                       /\ u = <<s, After(b, c)>>
    BY <1>3 DEF OperatorLeads, Memory
  <1>6. /\ 2 <= Len(parsed) /\ Shape(Memory, parsed, Len(parsed) - 2, s)
        /\ Fits(Memory, parsed[Len(parsed) - 1], Before(n, positions[n]))
        /\ Fits(Memory, parsed[Len(parsed)], After(n, positions[n]))
    BY <1>2, <1>5, TwoPopped
  <1>7. /\ IsNodeItem(Memory, parsed[Len(parsed) - 1], Expressions)
        /\ l < n /\ positions[l] < positions[n]
        /\ IsNodeItem(Memory, parsed[Len(parsed)], Expressions)
        /\ r > n /\ positions[r] > positions[n]
    BY <1>6 DEF Fits, Before, After, Memory
  <1>8. /\ l \in DOMAIN nodes /\ nodes[l].kind \in Expressions
        /\ r \in DOMAIN nodes /\ nodes[r].kind \in Expressions
        /\ IdsOf(parsed[Len(parsed) - 1]) = {l} /\ IdsOf(parsed[Len(parsed)]) = {r}
    BY <1>7 DEF IsNodeItem, Memory, IdsOf, Item
  <1>9. Len(nodes) \in Nat /\ DOMAIN nodes = 1..Len(nodes) /\ Len(parsed) \in Nat
        /\ positions[n] \in Nat
    BY <1>4, MemoryFacts DEF IsMemory, Memory
  <1>10. 2 \in 0..Len(parsed) /\ Len(parsed) - 2 \in Nat
    <2>1. PICK k : k = Len(parsed) /\ k \in Nat /\ 2 <= k
      BY <1>6, <1>9
    <2>2. 2 \in 0..k /\ k - 2 \in Nat
      BY <2>1
    <2> QED BY <2>1, <2>2
  <1>11. /\ IsSeq(parsed') /\ Len(parsed') = Len(parsed) - 2 + 1
         /\ parsed'[Len(parsed) - 2 + 1] = e
         /\ \A k \in 1..(Len(parsed) - 2) : parsed'[k] = parsed[k]
    <2>1. Puts(Append(Without(2), e), Len(parsed) - 2, e)
      BY <1>10, Collapsed
    <2>2. Puts(parsed', Len(parsed) - 2, e)
      BY <1>1, <2>1
    <2> QED BY <2>2 DEF Puts
  <1>12. IsSeq(work')
    BY <1>1, TailSeq DEF CursorInv
  <1>13. CursorInv' /\ GrowsTo(Memory, Memory') /\ Len(nodes') = Len(nodes)
    BY <1>1, <1>4, <1>11, <1>12, CursorCompleted
  <1>14. /\ DOMAIN nodes' = DOMAIN nodes /\ nodes'[n] = x
         /\ \A m \in DOMAIN nodes : m # n => nodes'[m] = nodes[m]
    BY <1>1, <1>4
  <1> HIDE DEF l, r, e, n
  <1>15. PICK q, o : q = Program' /\ o = Memory'
    OBVIOUS
  <1>16. /\ q.nodes = nodes' /\ o.nodes = nodes' /\ o.positions = positions /\ o.tokens = tokens
    BY <1>1, <1>15 DEF Program, Memory
  <1>17. /\ q.nodes[n] = x /\ o.nodes[n] = x
         /\ l \in Below(q, n, Expressions) /\ r \in Above(q, n, Expressions)
    <2>1. /\ l \in 1..(n - 1) /\ r \in (n + 1)..Len(q.nodes) /\ l # n /\ r # n
      BY <1>4, <1>7, <1>8, <1>9, <1>13, <1>16
    <2>2. q.nodes[l] = nodes[l] /\ q.nodes[r] = nodes[r]
      BY <1>8, <1>14, <1>16, <2>1
    <2> QED BY <1>8, <1>14, <1>16, <2>1, <2>2 DEF Below, Above
  <1>18. IsNode(q, n) /\ Children(q, n) = <<l, r>>
    BY <1>4, <1>17 DEF IsNode, Children, BinaryOperator
  <1>19. PointsAt(o, n)
    <2>1. o.nodes[n].kind = "operator" /\ o.nodes[n].op = Top.op /\ o.nodes[n].left = l
          /\ o.nodes[n].right = r
      BY <1>17 DEF BinaryOperator
    <2>2. /\ o.positions[l] < o.positions[n] /\ o.positions[n] < o.positions[r]
          /\ o.tokens[o.positions[n]] = Token(Top.op)
      <3>1. positions[r] \in Nat
        BY <1>8, MemoryFacts DEF IsMemory, Memory
      <3> QED BY <1>4, <1>7, <1>9, <1>16, <3>1
    <2> QED BY <2>1, <2>2 DEF PointsAt
  <1>20. Collects(q, o, n, 2)
    <2>1. \A m : Drops(2, m) <=> m \in {l, r}
      BY <1>6, <1>8, DropsOfLast
    <2>2. l # r
      BY <1>4, <1>7, <1>8, <1>9
    <2> QED BY <1>18, <1>19, <2>1, <2>2, PairCollects
  <1>21. nodes'[n] # Reserved
    BY <1>16, <1>18, NodeIsFinished
  <1>22. Builds(n, 2)
    <2>1. n \notin Complete /\ DOMAIN nodes' = DOMAIN nodes \cup {n}
      BY <1>4, <1>14 DEF Complete
    <2> QED BY <1>1, <1>6, <1>14, <1>15, <1>20, <1>21, <2>1 DEF Builds, e
  <1>23. Fits(Memory', e, After(b, c))
    <2>1. n > b /\ positions[n] > c
      BY <1>4, <1>5, <1>9
    <2>2. IsNodeItem(o, e, Expressions)
      <3>1. e = Item("node", e.value) /\ e.value = n /\ n \in DOMAIN o.nodes
        BY <1>4, <1>14, <1>16 DEF Item, e
      <3>2. o.nodes[n].kind \in Expressions
        BY <1>17 DEF BinaryOperator, Expressions
      <3> QED BY <3>1, <3>2 DEF IsNodeItem
    <2>3. e.value = n
      BY DEF e, Item
    <2> QED BY <1>15, <1>16, <2>1, <2>2, <2>3 DEF Fits, After
  <1>24. Shape(Memory', parsed', Len(parsed'), u)
    <2>1. PICK j, y : j = Len(parsed) - 2 /\ y = After(b, c)
      OBVIOUS
    <2>2. Shape(Memory', parsed', Len(parsed'), <<s, y>>)
      BY <1>6, <1>10, <1>11, <1>13, <1>23, <2>1, PushedShape
    <2> QED BY <1>5, <2>1, <2>2
  <1>25. \A k \in 1..Len(Tail(work)) :
           Tail(work)[k].do = "operator" => nodes'[Tail(work)[k].node] = Reserved
    <2>1. ASSUME NEW k \in 1..Len(Tail(work)), Tail(work)[k].do = "operator"
          PROVE  nodes'[Tail(work)[k].node] = Reserved
      <3>1. /\ Tail(work)[k].node \in DOMAIN nodes /\ nodes[Tail(work)[k].node] = Reserved
            /\ Tail(work)[k].node < n
        BY <1>1, <2>1, TailOperators DEF n
      <3>2. Tail(work)[k].node # n
        BY <1>4, <1>9, <3>1
      <3> QED BY <1>14, <3>1, <3>2
    <2> QED BY <2>1
  <1>26. FlowInv'
    BY <1>1, <1>2, <1>13, <1>24, <1>25, FlowAfterTail
  <1> QED BY <1>1, <1>4, <1>13, <1>22, <1>26 DEF n

LEMMA AllocateExtends ==
  ASSUME CursorInv, NEW x, NEW p, AllocateNode(x, p), tokens' = tokens
  PROVE  Extended(Program', Memory', x, p)
  <1>1. /\ IsSeq(nodes') /\ Len(nodes') = Len(nodes) + 1 /\ nodes'[Len(nodes) + 1] = x
        /\ \A n \in 1..Len(nodes) : nodes'[n] = nodes[n]
    BY AppendSeq DEF AllocateNode, CursorInv
  <1>2. /\ positions'[Len(nodes) + 1] = p
        /\ \A n \in 1..Len(nodes) : positions'[n] = positions[n]
    BY AppendSeq DEF AllocateNode, CursorInv
  <1>3. DOMAIN nodes' = 1..(Len(nodes) + 1)
    BY <1>1, SeqOfElements
  <1>4. /\ Program'.nodes = nodes' /\ Memory'.nodes = nodes'
        /\ Memory'.positions = positions' /\ Memory'.tokens = tokens
    BY DEF Program, Memory
  <1> QED BY <1>1, <1>2, <1>3, <1>4 DEF Extended, NextId

LEMMA NodeBuilds ==
  ASSUME CursorInv, FlowInv, OperatorsInv, MakesInv, OwnersInv, MakeNode
  PROVE  /\ CursorInv' /\ FlowInv' /\ GrowsTo(Memory, Memory') /\ UNCHANGED it
         /\ Builds(NextId, Parts(Top.kind)) /\ Top.do = "make"
         /\ NextId \notin DOMAIN nodes /\ Len(nodes') = NextId
  <1> DEFINE n == NextId
             c == Parts(Top.kind)
             k == Top.kind
             p == Top.at
             x == Made(k)
             e == Item("node", n)
  <1>1. /\ outcome = "parsing" /\ work # << >> /\ Top.do = "make" /\ work' = Tail(work)
        /\ AllocateNode(x, p) /\ UNCHANGED <<tokens, it, outcome>>
        /\ IF k \in {"defn", "data"}
           THEN definitions' = Append(definitions, n) /\ parsed' = Without(c)
           ELSE definitions' = definitions /\ parsed' = Append(Without(c), e)
    BY DEF MakeNode, Running
  <1>2. PICK t, u : /\ Shape(Memory, parsed, Len(parsed), t) /\ Step(Memory, Top, it, t, u)
                    /\ LeadTo(Memory, Tail(work), 0, u, Nil)
    BY <1>1, RunningFlow
  <1>3. p \in Nat \ {0} /\ MakeLeads(Memory, k, p, t, u)
    BY <1>1, <1>2 DEF Step
  <1>4. p \in 1..(it - 1)
    <2>1. Top = work[1] /\ 1 \in DOMAIN work
      <3>1. IsSeq(work)
        BY DEF CursorInv
      <3>2. Len(work) \in Nat /\ DOMAIN work = 1..Len(work) /\ Len(work) > 0 /\ Top = work[1]
        BY <1>1, <3>1, TailSeq, SeqOfElements DEF Top
      <3>3. PICK l : l = Len(work)
        OBVIOUS
      <3>4. 1 \in 1..l
        BY <3>2, <3>3
      <3> QED BY <3>2, <3>3, <3>4
    <2>2. p \in 1..it /\ (p = it => Moves(Top))
      BY <1>1, <2>1 DEF MakesInv
    <2>3. ~Moves(Top)
      BY <1>1 DEF Moves
    <2> QED BY <2>2, <2>3, MemoryFacts
  <1> HIDE DEF x
  <1>5. Extended(Program', Memory', x, p)
    BY <1>1, AllocateExtends
  <1>6. PICK q, o : q = Program' /\ o = Memory'
    OBVIOUS
  <1>7. /\ c \in 1..3 /\ c <= Len(parsed) /\ x.kind = k /\ Collects(q, o, n, c)
        /\ \E r : Shape(Memory, parsed, Len(parsed) - c, r) /\ Leaves(k, o, r, u)
    BY <1>2, <1>3, <1>5, <1>6, MakeCases DEF x
  <1>8. PICK r : Shape(Memory, parsed, Len(parsed) - c, r) /\ Leaves(k, o, r, u)
    BY <1>7
  <1>9. c \in 0..Len(parsed) /\ Len(parsed) - c \in Nat
    <2>1. PICK l, d : l = Len(parsed) /\ d = c /\ l \in Nat /\ d \in 1..3 /\ d <= l
      BY <1>7, MemoryFacts
    <2>2. d \in 0..l /\ l - d \in Nat
      BY <2>1
    <2> QED BY <2>1, <2>2
  <1>10. /\ IsSeq(Without(c)) /\ Len(Without(c)) = Len(parsed) - c
         /\ \A i \in 1..(Len(parsed) - c) : Without(c)[i] = parsed[i]
         /\ IsSeq(Append(Without(c), e)) /\ Len(Append(Without(c), e)) = Len(parsed) - c + 1
         /\ Append(Without(c), e)[Len(parsed) - c + 1] = e
         /\ \A i \in 1..(Len(parsed) - c) : Append(Without(c), e)[i] = parsed[i]
    <2>1. /\ Stripped(Without(c), Len(parsed) - c)
          /\ Puts(Append(Without(c), e), Len(parsed) - c, e)
      BY <1>9, Collapsed
    <2> QED BY <2>1 DEF Stripped, Puts
  <1> HIDE DEF e, c
  <1>11. IsSeq(work') /\ IsSeq(parsed')
    BY <1>1, <1>10, TailSeq DEF CursorInv
  <1>12. /\ CursorInv' /\ GrowsTo(Memory, Memory') /\ Len(nodes') = n /\ nodes'[n] = x
         /\ \A m \in 1..Len(nodes) : nodes'[m] = nodes[m]
    <2>1. it' \in it..(Len(tokens) + 1) /\ p \in 1..(it' - 1)
      BY <1>1, <1>4, MemoryFacts DEF CursorInv, IsInput
    <2>2. \/ definitions' = definitions
          \/ definitions' = Append(definitions, NextId) /\ x.kind \in {"defn", "data"}
      BY <1>1, <1>7
    <2> QED BY <1>1, <1>11, <2>1, <2>2, CursorAllocated
  <1>13. /\ Len(nodes) \in Nat /\ DOMAIN nodes = 1..Len(nodes) /\ n = Len(nodes) + 1
    BY MemoryFacts DEF NextId
  <1>14. n \notin DOMAIN nodes /\ DOMAIN nodes' = DOMAIN nodes \cup {n}
    <2>1. DOMAIN nodes' = 1..n
      BY <1>12, SeqOfElements DEF CursorInv
    <2>2. PICK l, m : l = Len(nodes) /\ m = n /\ l \in Nat /\ m = l + 1
      BY <1>13
    <2>3. m \notin 1..l /\ 1..m = 1..l \cup {m}
      BY <2>2
    <2> QED BY <1>13, <2>1, <2>2, <2>3
  <1>15. nodes'[n] # Reserved
    <2>1. IsNode(q, n) /\ q.nodes = nodes'
      BY <1>6, <1>7 DEF Collects, Program
    <2> QED BY <2>1, NodeIsFinished
  <1>16. Builds(n, c)
    <2>1. \A m \in DOMAIN nodes : nodes'[m] = nodes[m]
      BY <1>12, <1>13
    <2>2. n \notin Complete
      BY <1>14 DEF Complete
    <2>3. Collects(Program', Memory', n, c)
      BY <1>6, <1>7
    <2>4. \/ parsed' = Append(Without(c), Item("node", n)) /\ definitions' = definitions
          \/ parsed' = Without(c) /\ definitions' = Append(definitions, n)
      BY <1>1 DEF e, c
    <2> HIDE DEF n
    <2> QED BY <1>1, <1>7, <1>14, <1>15, <2>1, <2>2, <2>3, <2>4 DEF Builds
  <1>17. Shape(Memory', parsed', Len(parsed'), u)
    <2>1. PICK l : l = Len(parsed) - c /\ l \in Nat
      BY <1>9
    <2>2. CASE k \in {"defn", "data"}
      <3>1. u = r /\ parsed' = Without(c)
        BY <1>1, <1>8, <2>2 DEF Leaves, c
      <3>2. PICK s : s = parsed'
        OBVIOUS
      <3>3. Shape(o, s, l, r)
        BY <1>6, <1>8, <1>10, <1>12, <2>1, <3>1, <3>2, ShapeKept
      <3> QED BY <1>6, <1>10, <2>1, <3>1, <3>2, <3>3
    <2>3. CASE k \notin {"defn", "data"}
      <3>1. PICK z : u = <<r, z>> /\ Fits(o, e, z)
        BY <1>8, <2>3 DEF Leaves, e
      <3>2. parsed' = Append(Without(c), e)
        BY <1>1, <2>3 DEF c
      <3>3. Shape(Memory', parsed', Len(parsed'), <<r, z>>)
        BY <1>6, <1>8, <1>10, <1>12, <2>1, <3>1, <3>2, PushedShape
      <3> QED BY <3>1, <3>3
    <2> QED BY <2>2, <2>3
  <1>18. \A i \in 1..Len(Tail(work)) :
           Tail(work)[i].do = "operator" => nodes'[Tail(work)[i].node] = Reserved
    BY <1>1, <1>12, <1>13, TailOperators
  <1>19. FlowInv'
    BY <1>1, <1>2, <1>12, <1>17, <1>18, FlowAfterTail
  <1> QED BY <1>1, <1>12, <1>14, <1>16, <1>19 DEF c

-----------------------------------------------------------------------------
(***************************************************************************)
(* The finished nodes stay what they are.                                  *)
(***************************************************************************)
LEMMA SeqOfMore ==
  ASSUME NEW S, NEW T, S \subseteq T, NEW s \in Seq(S)
  PROVE  s \in Seq(T)
  OBVIOUS

(* What the grammar allows, given the nodes that may be the children. *)
NodeOf(x, expression, above, pattern, branch, constructor) ==
  \/ x.kind = "int" /\ x = IntLiteral(x.value)
  \/ x.kind = "variable" /\ x = Variable(x.name) /\ x.name \in Names
  \/ /\ x.kind = "operator" /\ x = BinaryOperator(x.op, x.left, x.right)
     /\ x.op \in {"+", "-", "*", "/"} /\ x.left \in expression /\ x.right \in above
  \/ /\ x.kind = "application" /\ x = Application(x.function, x.argument)
     /\ {x.function, x.argument} \subseteq expression
  \/ /\ x.kind = "case" /\ x = CaseExpression(x.scrutinee, x.branches)
     /\ x.scrutinee \in expression /\ x.branches \in Seq(branch) /\ x.branches # << >>
  \/ /\ x.kind = "branch" /\ x = Branch(x.pattern, x.body)
     /\ x.pattern \in pattern /\ x.body \in expression
  \/ /\ x.kind = "variable_pattern" /\ x = VariablePattern(x.name) /\ x.name \in LowerNames
  \/ /\ x.kind = "constructor_pattern" /\ x = ConstructorPattern(x.name, x.arguments)
     /\ x.name \in UpperNames /\ x.arguments \in Seq(LowerNames)
  \/ /\ x.kind = "defn" /\ x = FunctionDefinition(x.name, x.parameters, x.body)
     /\ x.name \in LowerNames /\ x.parameters \in Seq(LowerNames) /\ x.body \in expression
  \/ /\ x.kind = "data" /\ x = DataTypeDefinition(x.name, x.constructors)
     /\ x.name \in UpperNames /\ x.constructors \in Seq(constructor)
     /\ x.constructors # << >>
  \/ /\ x.kind = "constructor" /\ x = Constructor(x.name, x.fields)
     /\ x.name \in UpperNames /\ x.fields \in Seq(UpperNames)

LEMMA NodeOfIsNode ==
  ASSUME NEW p, NEW n
  PROVE  IsNode(p, n) <=>
           NodeOf(p.nodes[n], Below(p, n, Expressions), Above(p, n, Expressions),
                  Below(p, n, Patterns), Below(p, n, {"branch"}), Below(p, n, {"constructor"}))
  BY DEF IsNode, NodeOf

LEMMA NodeOfMore ==
  ASSUME NEW x, NEW e, NEW a, NEW l, NEW b, NEW c, NodeOf(x, e, a, l, b, c),
         NEW f, NEW g, NEW m, NEW h, NEW d,
         e \subseteq f, a \subseteq g, l \subseteq m, b \subseteq h, c \subseteq d
  PROVE  NodeOf(x, f, g, m, h, d)
  <1>1. /\ x.branches \in Seq(b) => x.branches \in Seq(h)
        /\ x.constructors \in Seq(c) => x.constructors \in Seq(d)
    BY SeqOfMore
  <1> QED BY <1>1 DEF NodeOf

LEMMA NodeKept ==
  ASSUME NEW p, NEW q, NEW n, Len(p.nodes) \in Nat, Len(q.nodes) \in Nat,
         Len(p.nodes) <= Len(q.nodes), n \in 1..Len(p.nodes),
         \A m \in 1..Len(p.nodes) : p.nodes[m] # Reserved => q.nodes[m] = p.nodes[m],
         IsNode(p, n)
  PROVE  IsNode(q, n) /\ Children(q, n) = Children(p, n) /\ q.nodes[n] = p.nodes[n]
  <1> DEFINE x == p.nodes[n]
  <1>1. q.nodes[n] = x
    BY NodeIsFinished
  <1>2. Children(q, n) = Children(p, n)
    BY <1>1 DEF Children
  <1>3. ASSUME NEW K, "reserved" \notin K
        PROVE  Below(p, n, K) \subseteq Below(q, n, K) /\ Above(p, n, K) \subseteq Above(q, n, K)
    <2>1. ASSUME NEW m \in 1..Len(p.nodes), p.nodes[m].kind \in K
          PROVE  q.nodes[m].kind \in K
      <3>1. p.nodes[m] # Reserved
        BY <1>3, <2>1 DEF Reserved
      <3> QED BY <2>1, <3>1
    <2>2. 1..(n - 1) \subseteq 1..Len(p.nodes) /\ (n + 1)..Len(p.nodes) \subseteq 1..Len(p.nodes)
          /\ (n + 1)..Len(p.nodes) \subseteq (n + 1)..Len(q.nodes)
      OBVIOUS
    <2> QED BY <2>1, <2>2 DEF Below, Above
  <1>4. /\ Below(p, n, Expressions) \subseteq Below(q, n, Expressions)
        /\ Above(p, n, Expressions) \subseteq Above(q, n, Expressions)
        /\ Below(p, n, Patterns) \subseteq Below(q, n, Patterns)
        /\ Below(p, n, {"branch"}) \subseteq Below(q, n, {"branch"})
        /\ Below(p, n, {"constructor"}) \subseteq Below(q, n, {"constructor"})
    BY <1>3 DEF Expressions, Patterns
  <1>5. IsNode(q, n)
    <2>1. NodeOf(x, Below(q, n, Expressions), Above(q, n, Expressions),
                 Below(q, n, Patterns), Below(q, n, {"branch"}), Below(q, n, {"constructor"}))
      <3> HIDE DEF x
      <3>1. NodeOf(x, Below(p, n, Expressions), Above(p, n, Expressions),
                   Below(p, n, Patterns), Below(p, n, {"branch"}), Below(p, n, {"constructor"}))
        BY NodeOfIsNode DEF x
      <3> QED BY <1>4, <3>1, NodeOfMore
    <2> QED BY <1>1, <2>1, NodeOfIsNode
  <1> QED BY <1>1, <1>2, <1>5

LEMMA PointsAtKept ==
  ASSUME NEW p, NEW m, NEW o, p.nodes = m.nodes, GrowsTo(m, o), NEW n \in DOMAIN m.nodes,
         IsNode(p, n), PointsAt(m, n)
  PROVE  PointsAt(o, n)
  <1> DEFINE x == m.nodes[n]
  <1>1. /\ o.nodes[n] = x /\ o.tokens = m.tokens
        /\ \A k \in DOMAIN m.nodes : o.positions[k] = m.positions[k]
    BY NodeIsFinished DEF GrowsTo
  <1>2. Len(m.nodes) \in Nat /\ DOMAIN m.nodes = 1..Len(m.nodes)
    BY DEF GrowsTo, IsMemory
  <1>3. \A K : Below(p, n, K) \subseteq DOMAIN m.nodes /\ Above(p, n, K) \subseteq DOMAIN m.nodes
    BY <1>2 DEF Below, Above
  <1>4. CASE x.kind = "operator"
    <2>1. x.left \in DOMAIN m.nodes /\ x.right \in DOMAIN m.nodes
      BY <1>3, <1>4 DEF IsNode
    <2> QED BY <1>1, <1>4, <2>1 DEF PointsAt
  <1>5. CASE x.kind = "application"
    <2>1. x.function \in DOMAIN m.nodes /\ x.argument \in DOMAIN m.nodes
      BY <1>3, <1>5 DEF IsNode
    <2> QED BY <1>1, <1>5, <2>1 DEF PointsAt
  <1>6. CASE x.kind = "branch"
    <2>1. x.pattern \in DOMAIN m.nodes
      BY <1>3, <1>6 DEF IsNode
    <2> QED BY <1>1, <1>6, <2>1 DEF PointsAt
  <1>7. CASE x.kind \notin {"operator", "application", "branch"}
    BY <1>1, <1>7 DEF PointsAt
  <1> QED BY <1>4, <1>5, <1>6, <1>7

LEMMA FinishedKept ==
  ASSUME CursorInv, NodesInv, GrowsTo(Memory, Memory'), NEW n \in Complete
  PROVE  /\ n \in Complete' /\ nodes'[n] = nodes[n]
         /\ IsNode(Program', n) /\ PointsAt(Memory', n)
         /\ Children(Program', n) = Children(Program, n)
  <1>1. PICK p, q, m, o : p = Program /\ q = Program' /\ m = Memory /\ o = Memory'
    OBVIOUS
  <1>2. /\ p.nodes = nodes /\ m.nodes = nodes /\ q.nodes = nodes' /\ o.nodes = nodes'
    BY <1>1 DEF Program, Memory
  <1>3. /\ Len(nodes) \in Nat /\ Len(nodes') \in Nat /\ Len(nodes) <= Len(nodes')
        /\ DOMAIN nodes = 1..Len(nodes) /\ DOMAIN nodes' = 1..Len(nodes')
        /\ \A k \in DOMAIN nodes : nodes[k] # Reserved => nodes'[k] = nodes[k]
    <2>1. GrowsTo(m, o)
      BY <1>1
    <2>2. /\ Len(m.nodes) \in Nat /\ Len(o.nodes) \in Nat /\ Len(m.nodes) <= Len(o.nodes)
          /\ DOMAIN m.nodes = 1..Len(m.nodes) /\ DOMAIN o.nodes = 1..Len(o.nodes)
          /\ \A k \in DOMAIN m.nodes : m.nodes[k] # Reserved => o.nodes[k] = m.nodes[k]
      BY <2>1 DEF GrowsTo, IsMemory
    <2> QED BY <1>2, <2>2
  <1>4. n \in DOMAIN nodes /\ nodes[n] # Reserved /\ IsNode(p, n) /\ PointsAt(m, n)
    BY <1>1 DEF NodesInv, Complete
  <1>5. IsNode(q, n) /\ Children(q, n) = Children(p, n) /\ q.nodes[n] = p.nodes[n]
    <2>1. n \in 1..Len(nodes)
      BY <1>3, <1>4
    <2> QED BY <1>2, <1>3, <1>4, <2>1, NodeKept
  <1>6. PointsAt(o, n)
    BY <1>1, <1>2, <1>4, PointsAtKept
  <1>7. n \in DOMAIN nodes'
    <2>1. PICK k, l : k = Len(nodes) /\ l = Len(nodes')
      OBVIOUS
    <2> QED BY <1>3, <1>4, <2>1
  <1> QED BY <1>1, <1>2, <1>4, <1>5, <1>6, <1>7 DEF Complete

LEMMA NodesKept ==
  ASSUME CursorInv, NodesInv, GrowsTo(Memory, Memory'), Complete' = Complete
  PROVE  NodesInv'
  BY FinishedKept DEF NodesInv

LEMMA BuildsFinishes ==
  ASSUME CursorInv, NEW n, NEW c, Builds(n, c)
  PROVE  Complete' = Complete \cup {n}
  BY DEF Builds, Complete

LEMMA NodesBuilt ==
  ASSUME CursorInv, NodesInv, GrowsTo(Memory, Memory'), NEW n, NEW c, Builds(n, c)
  PROVE  NodesInv'
  <1>1. IsNode(Program', n) /\ PointsAt(Memory', n)
    BY DEF Builds, Collects
  <1> QED BY <1>1, FinishedKept, BuildsFinishes DEF NodesInv

LEMMA CompleteKept ==
  ASSUME UNCHANGED nodes \/ (Reserves /\ CursorInv /\ Len(nodes') = NextId
                             /\ nodes'[NextId] = Reserved /\ IsSeq(nodes')
                             /\ \A m \in DOMAIN nodes : nodes'[m] = nodes[m])
  PROVE  Complete' = Complete
  <1>1. CASE UNCHANGED nodes
    BY <1>1 DEF Complete
  <1>2. CASE ~ UNCHANGED nodes
    <2>1. PICK l, k : l = Len(nodes) /\ k = NextId /\ k = l + 1 /\ l \in Nat /\ DOMAIN nodes = 1..l
      BY <1>2, MemoryFacts DEF NextId
    <2>2. DOMAIN nodes' = 1..k
      BY <1>2, <2>1, SeqOfElements
    <2>3. 1..k = 1..l \cup {k}
      BY <2>1
    <2> QED BY <1>2, <2>1, <2>2, <2>3 DEF Complete
  <1> QED BY <1>1, <1>2

-----------------------------------------------------------------------------
(***************************************************************************)
(* What is to be made and what is reserved, when the steps v are put       *)
(* before the pending ones.                                                *)
(***************************************************************************)
(* In the steps z the l steps v stand where the first of the steps w was. *)
Replaced(w, v, z, l, D, E) ==
  /\ l \in Nat /\ 1 \in D /\ Head(w) = w[1] /\ D \subseteq Nat /\ E \subseteq Nat
  /\ (v = << >> <=> l = 0) /\ (l # 0 => 1 \in 1..l)
  /\ \A k \in 1..l : z[k] = v[k]
  /\ \A k \in E : k \in 1..l \/ k > l
  /\ \A k \in E : k > l => k - l + 1 \in D /\ k - l + 1 # 1 /\ z[k] = w[k - l + 1]
  /\ \A k \in D : k # 1 => l + k - 1 \in E /\ z[l + k - 1] = w[k]

LEMMA HeadReplaced ==
  ASSUME NEW w, IsSeq(w), w # << >>, NEW v, IsSeq(v), NEW z, z = v \o Tail(w)
  PROVE  Replaced(w, v, z, Len(v), DOMAIN w, DOMAIN z)
  <1>1. PICK r, n, l, D, E : r = Tail(w) /\ n = Len(w) /\ l = Len(v) /\ D = DOMAIN w
                             /\ E = DOMAIN z
    OBVIOUS
  <1>2. /\ IsSeq(r) /\ n \in Nat /\ n > 0 /\ Len(r) = n - 1 /\ D = 1..n
        /\ Head(w) = w[1] /\ \A k \in 1..(n - 1) : r[k] = w[k + 1]
    BY <1>1, TailSeq, SeqOfElements
  <1>3. l \in Nat /\ (v = << >> <=> l = 0)
    <2>1. PICK S : v \in Seq(S)
      BY DEF IsSeq
    <2> QED BY <1>1, <2>1
  <1>4. /\ IsSeq(z) /\ Len(z) = l + (n - 1)
        /\ \A k \in 1..l : z[k] = v[k]
        /\ \A k \in 1..(n - 1) : z[l + k] = r[k]
    <2>1. z = v \o r
      BY <1>1
    <2>2. IsSeq(r)
      BY <1>2
    <2>3. \A s : IsSeq(s) =>
            /\ IsSeq(v \o s) /\ Len(v \o s) = Len(v) + Len(s)
            /\ \A k \in 1..Len(v) : (v \o s)[k] = v[k]
            /\ \A k \in 1..Len(s) : (v \o s)[Len(v) + k] = s[k]
      BY JoinSeq
    <2>4. /\ IsSeq(z) /\ Len(z) = Len(v) + Len(r)
          /\ \A k \in 1..Len(v) : z[k] = v[k]
          /\ \A k \in 1..Len(r) : z[Len(v) + k] = r[k]
      BY <2>1, <2>2, <2>3, Zenon
    <2> QED BY <1>1, <1>2, <2>4
  <1>5. E = 1..(l + (n - 1))
    BY <1>1, <1>4, SeqOfElements
  <1>6. 1 \in D /\ D \subseteq Nat /\ E \subseteq Nat /\ (l # 0 => 1 \in 1..l)
        /\ \A k \in E : k \in 1..l \/ k > l
    BY <1>2, <1>3, <1>5
  <1>7. ASSUME NEW k \in E, k > l
        PROVE  k - l + 1 \in D /\ k - l + 1 # 1 /\ z[k] = w[k - l + 1]
    <2>1. k - l \in 1..(n - 1) /\ l + (k - l) = k /\ k - l + 1 \in 1..n /\ k - l + 1 # 1
      BY <1>2, <1>3, <1>5, <1>7
    <2>2. z[l + (k - l)] = r[k - l] /\ r[k - l] = w[k - l + 1]
      BY <1>2, <1>4, <2>1
    <2> QED BY <1>2, <2>1, <2>2
  <1>8. ASSUME NEW k \in D, k # 1
        PROVE  l + k - 1 \in E /\ z[l + k - 1] = w[k]
    <2>1. /\ k - 1 \in 1..(n - 1) /\ l + (k - 1) = l + k - 1 /\ (k - 1) + 1 = k
          /\ l + k - 1 \in 1..(l + (n - 1))
      BY <1>2, <1>3, <1>8
    <2>2. z[l + (k - 1)] = r[k - 1] /\ r[k - 1] = w[(k - 1) + 1]
      BY <1>2, <1>4, <2>1
    <2> QED BY <1>5, <2>1, <2>2
  <1>9. Replaced(w, v, z, l, D, E)
    BY <1>2, <1>3, <1>4, <1>6, <1>7, <1>8 DEF Replaced
  <1> QED BY <1>1, <1>9

LEMMA MakesAfter ==
  ASSUME CursorInv, MakesInv, work # << >>, NEW v, IsSeq(v), work' = v \o Tail(work),
         it' \in Nat, it <= it', Moves(Top) => it < it' \/ (v # << >> /\ Moves(v[1])),
         \A k \in 1..Len(v) : v[k].do = "make" => v[k].at = it' /\ Moves(v[1])
  PROVE  MakesInv'
  <1>1. it \in Nat \ {0} /\ IsSeq(work)
    BY DEF CursorInv
  <1>2. PICK z, l, D, E : z = work' /\ l = Len(v) /\ D = DOMAIN work /\ E = DOMAIN work'
    OBVIOUS
  <1>3. SUFFICES ASSUME NEW k \in E, z[k].do = "make"
                 PROVE  z[k].at \in 1..it' /\ (z[k].at = it' => Moves(z[1]))
    BY <1>2 DEF MakesInv
  <1>4. /\ l \in Nat /\ Top = work[1] /\ (v # << >> => z[1] = v[1])
        /\ (l # 0 => 1 \in 1..l) /\ (v = << >> <=> l = 0)
        /\ \A j \in 1..l : z[j] = v[j]
        /\ \A j \in E : j \in 1..l \/ j > l
        /\ \A j \in E : j > l => j - l + 1 \in D /\ z[j] = work[j - l + 1]
    <2>1. PICK w : w = work /\ IsSeq(w) /\ w # << >> /\ z = v \o Tail(w) /\ D = DOMAIN w
      BY <1>1, <1>2
    <2>2. /\ l \in Nat /\ Head(w) = w[1] /\ (v = << >> <=> l = 0) /\ (l # 0 => 1 \in 1..l)
          /\ \A j \in 1..l : z[j] = v[j]
          /\ \A j \in E : j \in 1..l \/ j > l
          /\ \A j \in E : j > l => j - l + 1 \in D /\ j - l + 1 # 1 /\ z[j] = w[j - l + 1]
      <3>1. Replaced(w, v, z, Len(v), DOMAIN w, DOMAIN z)
        BY <2>1, HeadReplaced
      <3>2. Replaced(w, v, z, l, D, E)
        BY <1>2, <2>1, <3>1
      <3> QED BY <3>2 DEF Replaced
    <2>3. Top = w[1]
      BY <2>1, <2>2 DEF Top
    <2> QED BY <2>1, <2>2, <2>3
  <1> HIDE DEF Top
  <1>5. CASE k \in 1..l
    <2>1. z[k] = v[k] /\ z[1] = v[1]
      <3>1. l # 0
        BY <1>4, <1>5
      <3> QED BY <1>4, <1>5, <3>1
    <2> QED BY <1>1, <1>2, <1>3, <1>5, <2>1
  <1>6. CASE k > l
    <2>1. PICK j \in D : z[k] = work[j]
      BY <1>4, <1>6
    <2>2. work[j].at \in 1..it /\ (work[j].at = it => Moves(Top))
      BY <1>2, <1>3, <1>4, <2>1 DEF MakesInv
    <2> QED BY <1>1, <1>4, <2>1, <2>2
  <1> QED BY <1>4, <1>5, <1>6

LEMMA OperatorsAfter ==
  ASSUME CursorInv, OperatorsInv, work # << >>, NEW v, IsSeq(v), work' = v \o Tail(work),
         \A k \in 1..Len(v) : v[k].do # "operator",
         \A k \in DOMAIN work : k # 1 /\ work[k].do = "operator" =>
           work[k].node \in DOMAIN nodes' /\ nodes'[work[k].node] = Reserved,
         \A n \in DOMAIN nodes' \ Complete' :
           n \in DOMAIN nodes \ Complete /\ ~(Top.do = "operator" /\ Top.node = n)
  PROVE  OperatorsInv'
  <1>1. PICK z, l, D, E : z = work' /\ l = Len(v) /\ D = DOMAIN work /\ E = DOMAIN work'
    OBVIOUS
  <1>2. /\ l \in Nat /\ Top = work[1] /\ D \subseteq Nat /\ E \subseteq Nat
        /\ \A j \in 1..l : z[j] = v[j]
        /\ \A j \in E : j \in 1..l \/ j > l
        /\ \A j \in E : j > l => j - l + 1 \in D /\ j - l + 1 # 1 /\ z[j] = work[j - l + 1]
        /\ \A j \in D : j # 1 => l + j - 1 \in E /\ z[l + j - 1] = work[j]
    <2>1. PICK w : w = work /\ IsSeq(w) /\ w # << >> /\ z = v \o Tail(w) /\ D = DOMAIN w
      BY <1>1 DEF CursorInv
    <2>2. /\ l \in Nat /\ Head(w) = w[1] /\ D \subseteq Nat /\ E \subseteq Nat
          /\ \A j \in 1..l : z[j] = v[j]
          /\ \A j \in E : j \in 1..l \/ j > l
          /\ \A j \in E : j > l => j - l + 1 \in D /\ j - l + 1 # 1 /\ z[j] = w[j - l + 1]
          /\ \A j \in D : j # 1 => l + j - 1 \in E /\ z[l + j - 1] = w[j]
      <3>1. Replaced(w, v, z, Len(v), DOMAIN w, DOMAIN z)
        BY <2>1, HeadReplaced
      <3>2. Replaced(w, v, z, l, D, E)
        BY <1>1, <2>1, <3>1
      <3> QED BY <3>2 DEF Replaced
    <2>3. Top = w[1]
      BY <2>1, <2>2 DEF Top
    <2> QED BY <2>1, <2>2, <2>3
  <1> HIDE DEF Top
  <1>3. ASSUME NEW k \in E, z[k].do = "operator"
        PROVE  k > l
    BY <1>1, <1>2, <1>3
  <1>4. ASSUME NEW k \in E, z[k].do = "operator"
        PROVE  z[k].node \in DOMAIN nodes' /\ nodes'[z[k].node] = Reserved
    BY <1>1, <1>2, <1>3, <1>4
  <1>5. ASSUME NEW j \in E, NEW k \in E, z[j].do = "operator", z[k].do = "operator", j < k
        PROVE  z[j].node > z[k].node
    <2>1. j > l /\ k > l
      BY <1>3, <1>5
    <2>2. PICK f \in D, g \in D : f = j - l + 1 /\ g = k - l + 1 /\ z[j] = work[f] /\ z[k] = work[g]
      BY <1>2, <2>1
    <2>3. f < g
      BY <1>2, <1>5, <2>2
    <2>4. work[f].node > work[g].node
      BY <1>1, <1>5, <2>2, <2>3 DEF OperatorsInv
    <2> QED BY <2>2, <2>4
  <1>6. ASSUME NEW n \in DOMAIN nodes' \ Complete'
        PROVE  \E k \in E : z[k].do = "operator" /\ z[k].node = n
    <2>1. PICK k \in D : work[k].do = "operator" /\ work[k].node = n
      BY <1>1 DEF OperatorsInv
    <2>2. k # 1
      BY <1>2, <2>1
    <2> QED BY <1>2, <2>1, <2>2
  <1> QED BY <1>1, <1>4, <1>5, <1>6 DEF OperatorsInv

LEMMA PendingAfterTail ==
  ASSUME CursorInv, MakesInv, OperatorsInv, work # << >>, work' = Tail(work),
         it' \in Nat, it <= it', Moves(Top) => it < it',
         \A k \in 1..Len(Tail(work)) : Tail(work)[k].do = "operator" =>
           Tail(work)[k].node \in DOMAIN nodes' /\ nodes'[Tail(work)[k].node] = Reserved,
         \A n \in DOMAIN nodes' \ Complete' :
           n \in DOMAIN nodes \ Complete /\ ~(Top.do = "operator" /\ Top.node = n)
  PROVE  MakesInv' /\ OperatorsInv'
  <1> DEFINE v == << >>
  <1>1. IsSeq(v) /\ Len(v) = 0 /\ 1..0 = {}
    BY TuplesAreSeqs
  <1>2. work' = v \o Tail(work)
    <2>1. IsSeq(Tail(work))
      BY TailSeq DEF CursorInv
    <2>2. PICK S : Tail(work) \in Seq(S)
      BY <2>1 DEF IsSeq
    <2>3. PICK w : w = Tail(work) /\ w \in Seq(S)
      BY <2>2
    <2>4. << >> \o w = w
      BY <2>3
    <2> QED BY <2>3, <2>4
  <1>3. \A k \in 1..Len(v) : FALSE
    BY <1>1
  <1> HIDE DEF v
  <1>4. MakesInv'
    BY <1>1, <1>2, <1>3, MakesAfter
  <1>5. ASSUME NEW k \in DOMAIN work, k # 1, work[k].do = "operator"
        PROVE  work[k].node \in DOMAIN nodes' /\ nodes'[work[k].node] = Reserved
    <2>1. PICK n, w : n = Len(work) /\ w = Tail(work)
      OBVIOUS
    <2>2. /\ n \in Nat /\ k \in 1..n /\ Len(w) = n - 1 /\ \A j \in 1..(n - 1) : w[j] = work[j + 1]
      <3>1. IsSeq(work)
        BY DEF CursorInv
      <3>2. Len(work) \in Nat /\ DOMAIN work = 1..Len(work)
        BY <3>1, SeqOfElements
      <3> QED BY <2>1, <3>1, <3>2, TailSeq
    <2>3. k - 1 \in 1..(n - 1) /\ (k - 1) + 1 = k
      BY <1>5, <2>2
    <2>4. w[k - 1] = work[k] /\ k - 1 \in 1..Len(w)
      BY <2>2, <2>3
    <2> QED BY <1>5, <2>1, <2>4
  <1>6. OperatorsInv'
    BY <1>1, <1>2, <1>3, <1>5, OperatorsAfter
  <1> QED BY <1>4, <1>6

LEMMA StartsPending ==
  ASSUME CursorInv, OperatorsInv, Starts
  PROVE  MakesInv' /\ OperatorsInv'
  <1>1. /\ work = << >> /\ UNCHANGED nodes /\ DOMAIN work' = {1}
        /\ work'[1] = Parse("definition")
    BY DEF Starts
  <1>2. \A k \in DOMAIN work' : work'[k].do = "parse"
    BY <1>1 DEF Parse
  <1>3. Complete' = Complete
    BY <1>1 DEF Complete
  <1>4. DOMAIN work = {}
    BY <1>1
  <1>5. DOMAIN nodes \ Complete = {}
    BY <1>4 DEF OperatorsInv
  <1>6. MakesInv'
    BY <1>2 DEF MakesInv
  <1>7. OperatorsInv'
    BY <1>1, <1>2, <1>3, <1>5 DEF OperatorsInv
  <1> QED BY <1>6, <1>7

LEMMA CallsPending ==
  ASSUME CursorInv, MakesInv, OperatorsInv, Calls
  PROVE  MakesInv' /\ OperatorsInv'
  <1>1. PICK v : Do(v) /\ Fresh(v)
    BY DEF Calls, Unfolds
  <1>2. /\ work # << >> /\ Top.do # "operator" /\ work' = v \o Tail(work)
        /\ it' = it /\ nodes' = nodes /\ IsSeq(v)
    BY <1>1 DEF Calls, Do, Fresh
  <1>3. Complete' = Complete
    BY <1>2 DEF Complete
  <1>4. MakesInv'
    <2>1. it' \in Nat /\ it <= it'
      BY <1>2 DEF CursorInv
    <2>2. Moves(Top) => it < it' \/ (v # << >> /\ Moves(v[1]))
      BY <1>1 DEF Fresh
    <2>3. \A k \in 1..Len(v) : v[k].do = "make" => v[k].at = it' /\ Moves(v[1])
      <3>1. ASSUME NEW k \in 1..Len(v) PROVE v # << >>
        OBVIOUS
      <3> QED BY <1>1, <1>2, <3>1 DEF Fresh
    <2> QED BY <1>2, <2>1, <2>2, <2>3, MakesAfter
  <1>5. OperatorsInv'
    <2>1. \A k \in 1..Len(v) : v[k].do # "operator"
      BY <1>1 DEF Fresh
    <2>2. \A k \in DOMAIN work : k # 1 /\ work[k].do = "operator" =>
            work[k].node \in DOMAIN nodes' /\ nodes'[work[k].node] = Reserved
      BY <1>2 DEF OperatorsInv
    <2>3. \A n \in DOMAIN nodes' \ Complete' :
            n \in DOMAIN nodes \ Complete /\ ~(Top.do = "operator" /\ Top.node = n)
      BY <1>2, <1>3
    <2> QED BY <1>2, <2>1, <2>2, <2>3, OperatorsAfter
  <1> QED BY <1>4, <1>5

(* The running step ends and no node is changed. *)
LEMMA EndsPending ==
  ASSUME CursorInv, MakesInv, OperatorsInv, work # << >>, work' = Tail(work), Top.do # "operator",
         UNCHANGED nodes, it' \in Nat, it <= it', Moves(Top) => it < it'
  PROVE  MakesInv' /\ OperatorsInv'
  <1>1. Complete' = Complete
    BY DEF Complete
  <1>2. \A k \in 1..Len(Tail(work)) : Tail(work)[k].do = "operator" =>
          Tail(work)[k].node \in DOMAIN nodes' /\ nodes'[Tail(work)[k].node] = Reserved
    BY TailOperators
  <1>3. \A n \in DOMAIN nodes' \ Complete' :
          n \in DOMAIN nodes \ Complete /\ ~(Top.do = "operator" /\ Top.node = n)
    BY <1>1
  <1> QED BY <1>2, <1>3, PendingAfterTail

LEMMA BuildsPending ==
  ASSUME CursorInv, MakesInv, OperatorsInv, NEW n, NEW c, Builds(n, c), UNCHANGED it,
         \/ Top.do = "operator" /\ n = Top.node
         \/ Top.do = "make" /\ n \notin DOMAIN nodes
  PROVE  MakesInv' /\ OperatorsInv'
  <1>1. /\ work # << >> /\ work' = Tail(work) /\ DOMAIN nodes' = DOMAIN nodes \cup {n}
        /\ \A m \in DOMAIN nodes : m # n => nodes'[m] = nodes[m]
    BY DEF Builds
  <1>2. Complete' = Complete \cup {n}
    BY BuildsFinishes
  <1>3. it' \in Nat /\ it <= it' /\ ~Moves(Top)
    BY DEF CursorInv, Moves
  <1>4. ASSUME NEW k \in 1..Len(Tail(work)), Tail(work)[k].do = "operator"
        PROVE  Tail(work)[k].node \in DOMAIN nodes' /\ nodes'[Tail(work)[k].node] = Reserved
    <2>1. /\ Tail(work)[k].node \in DOMAIN nodes /\ nodes[Tail(work)[k].node] = Reserved
          /\ Top.do = "operator" => Tail(work)[k].node < Top.node
      BY <1>1, <1>4, TailOperators
    <2>2. Tail(work)[k].node # n
      <3>1. CASE Top.do = "operator" /\ n = Top.node
        <4>1. Tail(work)[k].node \in Nat
          BY <2>1, MemoryFacts
        <4>2. Tail(work)[k].node < n
          BY <2>1, <3>1
        <4> QED BY <4>1, <4>2
      <3>2. CASE Top.do = "make" /\ n \notin DOMAIN nodes
        BY <2>1, <3>2
      <3> QED BY <3>1, <3>2
    <2> QED BY <1>1, <2>1, <2>2
  <1>5. \A m \in DOMAIN nodes' \ Complete' :
          m \in DOMAIN nodes \ Complete /\ ~(Top.do = "operator" /\ Top.node = m)
    BY <1>1, <1>2
  <1> QED BY <1>1, <1>3, <1>4, <1>5, PendingAfterTail

LEMMA ReservesPending ==
  ASSUME CursorInv, MakesInv, OperatorsInv, Reserves, Len(nodes') = NextId,
         nodes'[NextId] = Reserved, IsSeq(nodes'), \A m \in DOMAIN nodes : nodes'[m] = nodes[m]
  PROVE  MakesInv' /\ OperatorsInv'
  <1> DEFINE a == Parse(Operand(Top.level))
             b == Operator(tokens[it].kind, NextId)
             v == <<a, b>>
             n == NextId
  <1>1. work' = v \o work /\ it' = it + 1
    BY DEF Reserves
  <1>2. PICK z, D, E, l : z = work' /\ D = DOMAIN work /\ E = DOMAIN work' /\ l = Len(work)
    OBVIOUS
  <1>3. /\ IsSeq(work) /\ l \in Nat /\ D = 1..l /\ Len(nodes) \in Nat
        /\ DOMAIN nodes = 1..Len(nodes) /\ n = Len(nodes) + 1 /\ it \in Nat \ {0}
    BY <1>2, MemoryFacts DEF CursorInv, NextId
  <1>4. /\ E = 1..(l + 2) /\ z[1] = a /\ z[2] = b /\ \A k \in 1..l : z[k + 2] = work[k]
    <2>1. Len(v) = 2 /\ v[1] = a /\ v[2] = b /\ IsSeq(v)
      BY TuplesAreSeqs
    <2> HIDE DEF v, a, b
    <2>2. /\ IsSeq(v \o work) /\ Len(v \o work) = 2 + l
          /\ (v \o work)[1] = v[1] /\ (v \o work)[2] = v[2]
          /\ \A k \in 1..l : (v \o work)[2 + k] = work[k]
      <3>1. 1 \in 1..2 /\ 2 \in 1..2
        OBVIOUS
      <3>2. PICK w : w = work
        OBVIOUS
      <3>3. /\ IsSeq(v \o w) /\ Len(v \o w) = Len(v) + Len(w)
            /\ \A k \in 1..Len(v) : (v \o w)[k] = v[k]
            /\ \A k \in 1..Len(w) : (v \o w)[Len(v) + k] = w[k]
        <4>1. IsSeq(w)
          BY <1>3, <3>2
        <4>2. \A s : IsSeq(s) =>
                /\ IsSeq(v \o s) /\ Len(v \o s) = Len(v) + Len(s)
                /\ \A k \in 1..Len(v) : (v \o s)[k] = v[k]
                /\ \A k \in 1..Len(s) : (v \o s)[Len(v) + k] = s[k]
          BY <2>1, JoinSeq
        <4> QED BY <4>1, <4>2, Zenon
      <3> QED BY <1>2, <2>1, <3>1, <3>2, <3>3
    <2>3. DOMAIN (v \o work) = 1..(2 + l)
      BY <2>2, SeqOfElements
    <2>4. 1..(2 + l) = 1..(l + 2) /\ \A k \in 1..l : k + 2 = 2 + k
      BY <1>3
    <2> QED BY <1>1, <1>2, <2>1, <2>2, <2>3, <2>4
  <1>5. /\ a.do = "parse" /\ b.do = "operator" /\ b.node = n
    BY DEF Parse, Operator
  <1>6. DOMAIN nodes' = DOMAIN nodes \cup {n} /\ n \notin DOMAIN nodes
    <2>1. DOMAIN nodes' = 1..n
      BY SeqOfElements
    <2>2. PICK h : h = Len(nodes) /\ h \in Nat /\ n = h + 1
      BY <1>3
    <2>3. 1..(h + 1) = 1..h \cup {h + 1} /\ h + 1 \notin 1..h
      BY <2>2
    <2> HIDE DEF n
    <2> QED BY <1>3, <2>1, <2>2, <2>3
  <1> HIDE DEF a, b, v, n
  <1>7. \A k \in E : k = 1 \/ k = 2 \/ \E j \in D : k = j + 2 /\ z[k] = work[j]
    <2>1. ASSUME NEW k \in 1..(l + 2), k # 1, k # 2
          PROVE  \E j \in 1..l : k = j + 2 /\ z[k] = work[j]
      <3>1. k - 2 \in 1..l /\ k = (k - 2) + 2
        BY <1>3, <2>1
      <3> QED BY <1>4, <3>1
    <2> QED BY <1>3, <1>4, <2>1
  <1>8. MakesInv'
    <2>1. SUFFICES ASSUME NEW k \in E, z[k].do = "make"
                   PROVE  z[k].at \in 1..it' /\ z[k].at # it'
      BY <1>2 DEF MakesInv
    <2>2. PICK j \in D : z[k] = work[j]
      BY <1>4, <1>5, <1>7, <2>1
    <2>3. work[j].at \in 1..it
      BY <1>2, <2>1, <2>2 DEF MakesInv
    <2> QED BY <1>1, <1>3, <2>2, <2>3
  <1>9. ASSUME NEW j \in D, work[j].do = "operator"
        PROVE  work[j].node \in DOMAIN nodes /\ nodes[work[j].node] = Reserved
               /\ work[j].node < n /\ work[j].node \in Nat
    <2>1. work[j].node \in DOMAIN nodes /\ nodes[work[j].node] = Reserved
      BY <1>2, <1>9 DEF OperatorsInv
    <2>2. work[j].node \in 1..Len(nodes)
      BY <1>3, <2>1
    <2> QED BY <1>3, <2>1, <2>2
  <1>10. ASSUME NEW k \in E, z[k].do = "operator"
         PROVE  z[k].node \in DOMAIN nodes' /\ nodes'[z[k].node] = Reserved
    <2>1. CASE k = 2
      BY <1>4, <1>5, <1>6, <2>1 DEF n
    <2>2. CASE k # 2
      <3>1. PICK j \in D : z[k] = work[j]
        BY <1>4, <1>5, <1>7, <1>10, <2>2
      <3> QED BY <1>6, <1>9, <1>10, <3>1
    <2> QED BY <2>1, <2>2
  <1>11. ASSUME NEW j \in E, NEW k \in E, z[j].do = "operator", z[k].do = "operator", j < k
         PROVE  z[j].node > z[k].node
    <2>1. j # 1 /\ k # 1
      BY <1>4, <1>5, <1>11
    <2>2. k # 2
      <3>1. j \in 1..(l + 2)
        BY <1>4
      <3> QED BY <1>3, <1>11, <2>1, <3>1
    <2>3. PICK g \in D : k = g + 2 /\ z[k] = work[g]
      BY <1>7, <2>1, <2>2
    <2>4. CASE j = 2
      <3>1. work[g].node < n /\ work[g].node \in Nat /\ n \in Nat
        BY <1>3, <1>9, <1>11, <2>3
      <3> QED BY <1>4, <1>5, <2>3, <2>4, <3>1
    <2>5. CASE j # 2
      <3>1. PICK f \in D : j = f + 2 /\ z[j] = work[f]
        BY <1>7, <2>1, <2>5
      <3>2. f < g
        BY <1>3, <1>11, <2>3, <3>1
      <3> QED BY <1>2, <1>11, <2>3, <3>1, <3>2 DEF OperatorsInv
    <2> QED BY <2>4, <2>5
  <1>12. Complete' = Complete
    BY <1>6 DEF Complete, n
  <1>13. ASSUME NEW m \in DOMAIN nodes' \ Complete'
         PROVE  \E k \in E : z[k].do = "operator" /\ z[k].node = m
    <2>1. CASE m = n
      <3>1. 2 \in E
        BY <1>3, <1>4
      <3> QED BY <1>4, <1>5, <2>1, <3>1
    <2>2. CASE m # n
      <3>1. PICK j \in D : work[j].do = "operator" /\ work[j].node = m
        BY <1>2, <1>6, <1>12, <2>2 DEF OperatorsInv
      <3>2. j + 2 \in E /\ z[j + 2] = work[j]
        BY <1>3, <1>4
      <3> QED BY <3>1, <3>2
    <2> QED BY <2>1, <2>2
  <1>14. OperatorsInv'
    BY <1>2, <1>10, <1>11, <1>13 DEF OperatorsInv
  <1> QED BY <1>8, <1>14

-----------------------------------------------------------------------------
(***************************************************************************)
(* Every finished node stays in one place.                                 *)
(***************************************************************************)
HeldItem(s, h, n)  == \E k \in DOMAIN s : h = <<"parsed", k>> /\ n \in IdsOf(s[k])
HeldChild(p, h, n) == \E m \in DOMAIN p.nodes : h = <<"node", m>> /\ n \in Items(Children(p, m))
HeldRoot(p, h, n)  == h = <<"definitions", 0>> /\ n \in Items(p.definitions)

LEMMA OwnsIsHeld ==
  \A s, p, h, n : Owns(s, p, h, n) <=> HeldItem(s, h, n) \/ HeldChild(p, h, n) \/ HeldRoot(p, h, n)
  BY DEF Owns, HeldItem, HeldChild, HeldRoot

(* The holder h is one of the last c items. *)
Dropped(c, h) == \E k \in (Len(parsed) - c + 1)..Len(parsed) : h = <<"parsed", k>>

LEMMA DropsAreDropped ==
  ASSUME CursorInv, NEW c \in 0..Len(parsed), NEW n
  PROVE  /\ Drops(c, n) => \E h : Owns(parsed, Program, h, n) /\ Dropped(c, h)
         /\ \A h : Owns(parsed, Program, h, n) /\ Dropped(c, h) => Drops(c, n)
  <1>1. Len(parsed) \in Nat /\ DOMAIN parsed = 1..Len(parsed)
    BY MemoryFacts
  <1>2. (Len(parsed) - c + 1)..Len(parsed) \subseteq DOMAIN parsed
    <2>1. PICK l : l = Len(parsed) /\ l \in Nat /\ c \in 0..l
      BY <1>1
    <2>2. (l - c + 1)..l \subseteq 1..l
      BY <2>1
    <2> QED BY <1>1, <2>1, <2>2
  <1>3. ASSUME Drops(c, n)
        PROVE  \E h : Owns(parsed, Program, h, n) /\ Dropped(c, h)
    <2>1. PICK k \in (Len(parsed) - c + 1)..Len(parsed) : n \in IdsOf(parsed[k])
      BY <1>3 DEF Drops
    <2>2. HeldItem(parsed, <<"parsed", k>>, n)
      BY <1>2, <2>1 DEF HeldItem
    <2>3. Dropped(c, <<"parsed", k>>)
      BY <2>1 DEF Dropped
    <2> QED BY <2>2, <2>3, OwnsIsHeld
  <1>4. ASSUME NEW h, Owns(parsed, Program, h, n), Dropped(c, h)
        PROVE  Drops(c, n)
    <2>1. PICK k \in (Len(parsed) - c + 1)..Len(parsed) : h = <<"parsed", k>>
      BY <1>4 DEF Dropped
    <2>2. \A m : <<"parsed", k>> # <<"node", m>> /\ <<"parsed", k>> # <<"definitions", 0>>
      OBVIOUS
    <2>3. HeldItem(parsed, <<"parsed", k>>, n)
      BY <1>4, <2>1, <2>2, OwnsIsHeld DEF HeldChild, HeldRoot
    <2>4. n \in IdsOf(parsed[k])
      BY <2>3 DEF HeldItem
    <2> QED BY <2>1, <2>4 DEF Drops
  <1> QED BY <1>3, <1>4

(* What the last c items own moves to H, and the finished nodes N go to G. *)
MovesOwners(c, N, H, G) ==
  \A h, n : Owns(parsed', Program', h, n) <=>
              \/ Owns(parsed, Program, h, n) /\ ~Dropped(c, h)
              \/ h = H /\ Drops(c, n)
              \/ h = G /\ n \in N

LEMMA OwnersMoved ==
  ASSUME CursorInv, OwnersInv, NEW c \in 0..Len(parsed),
         NEW N, \A n \in N : n \notin Complete, Complete' = Complete \cup N,
         NEW H, NEW G, MovesOwners(c, N, H, G)
  PROVE  /\ \A h, n : Owns(parsed', Program', h, n) => n \in Complete'
         /\ \A n, h, g : Owns(parsed', Program', h, n) /\ Owns(parsed', Program', g, n) => h = g
         /\ \A n \in Complete' : \E h : Owns(parsed', Program', h, n)
  <1> DEFINE O(h, n) == Owns(parsed, Program, h, n)
             P(h, n) == Owns(parsed', Program', h, n)
  <1>1. \A h, n : P(h, n) <=> (O(h, n) /\ ~Dropped(c, h)) \/ (h = H /\ Drops(c, n)) \/ (h = G /\ n \in N)
    BY DEF MovesOwners
  <1>2. /\ \A h, n : O(h, n) => n \in Complete
        /\ \A n, h, g : O(h, n) /\ O(g, n) => h = g
        /\ \A n \in Complete : \E h : O(h, n)
    BY DEF OwnersInv
  <1>3. \A n : /\ Drops(c, n) => \E h : O(h, n) /\ Dropped(c, h)
               /\ \A h : O(h, n) /\ Dropped(c, h) => Drops(c, n)
    BY DropsAreDropped
  <1> HIDE DEF O, P
  <1>4. \A h, n : P(h, n) => n \in Complete'
    BY <1>1, <1>2, <1>3
  <1>5. ASSUME NEW n, NEW h, NEW g, P(h, n), P(g, n)
        PROVE  h = g
    <2>1. CASE n \in N
      <3>1. n \notin Complete
        BY <2>1
      <3>2. \A f : ~O(f, n)
        BY <1>2, <3>1
      <3> QED BY <1>1, <1>3, <1>5, <3>2
    <2>2. CASE n \notin N /\ Drops(c, n)
      <3>1. PICK f : O(f, n) /\ Dropped(c, f)
        BY <1>3, <2>2
      <3>2. \A e : O(e, n) => Dropped(c, e)
        BY <1>2, <3>1
      <3> QED BY <1>1, <1>5, <2>2, <3>2
    <2>3. CASE n \notin N /\ ~Drops(c, n)
      <3>1. O(h, n) /\ O(g, n)
        BY <1>1, <1>5, <2>3
      <3> QED BY <1>2, <3>1
    <2> QED BY <2>1, <2>2, <2>3
  <1>6. ASSUME NEW n \in Complete'
        PROVE  \E h : P(h, n)
    <2>1. CASE n \in N
      BY <1>1, <2>1
    <2>2. CASE n \in Complete
      <3>1. PICK h : O(h, n)
        BY <1>2, <2>2
      <3>2. CASE Dropped(c, h)
        BY <1>1, <1>3, <3>1, <3>2
      <3>3. CASE ~Dropped(c, h)
        BY <1>1, <3>1, <3>3
      <3> QED BY <3>2, <3>3
    <2> QED BY <2>1, <2>2
  <1> QED BY <1>4, <1>5, <1>6 DEF P

LEMMA HeldItemsCollapse ==
  ASSUME CursorInv, NEW c \in 0..Len(parsed)
  PROVE  /\ \A h, n : HeldItem(Without(c), h, n) <=> HeldItem(parsed, h, n) /\ ~Dropped(c, h)
         /\ \A e, h, n : HeldItem(Append(Without(c), e), h, n) <=>
                           \/ HeldItem(parsed, h, n) /\ ~Dropped(c, h)
                           \/ h = <<"parsed", Len(parsed) - c + 1>> /\ n \in IdsOf(e)
  <1>1. Len(parsed) \in Nat /\ DOMAIN parsed = 1..Len(parsed)
    BY MemoryFacts
  <1>2. PICK l, s : l = Len(parsed) - c /\ s = Without(c)
    OBVIOUS
  <1>3. /\ IsSeq(s) /\ Len(s) = l /\ \A k \in 1..l : s[k] = parsed[k]
        /\ \A e : /\ IsSeq(Append(s, e)) /\ Len(Append(s, e)) = l + 1 /\ Append(s, e)[l + 1] = e
                  /\ \A k \in 1..l : Append(s, e)[k] = parsed[k]
    <2>1. Stripped(s, l) /\ \A e : Puts(Append(s, e), l, e)
      BY <1>2, Collapsed
    <2> QED BY <2>1 DEF Stripped, Puts
  <1>4. /\ l \in Nat /\ 1..l \subseteq DOMAIN parsed /\ 1..(l + 1) = 1..l \cup {l + 1}
        /\ \A k \in DOMAIN parsed : k \in 1..l <=> k \notin (l + 1)..Len(parsed)
    <2>1. PICK m : m = Len(parsed) /\ m \in Nat /\ c \in 0..m
      BY <1>1
    <2> QED BY <1>1, <1>2, <2>1
  <1>5. \A h : Dropped(c, h) <=> \E k \in (l + 1)..Len(parsed) : h = <<"parsed", k>>
    BY <1>2 DEF Dropped
  <1>6. \A j, k : <<"parsed", j>> = <<"parsed", k>> => j = k
    OBVIOUS
  <1>7. \A h, n : HeldItem(parsed, h, n) /\ ~Dropped(c, h) <=>
                    \E k \in 1..l : h = <<"parsed", k>> /\ n \in IdsOf(parsed[k])
    BY <1>4, <1>5, <1>6 DEF HeldItem
  <1>8. DOMAIN s = 1..l
    BY <1>3, SeqOfElements
  <1>9. ASSUME NEW e
        PROVE  DOMAIN Append(s, e) = 1..l \cup {l + 1}
    <2>1. PICK z : z = Append(s, e)
      OBVIOUS
    <2>2. DOMAIN z = 1..(l + 1)
      BY <1>3, <2>1, SeqOfElements
    <2> QED BY <1>4, <2>1, <2>2
  <1>10. \A h, n : HeldItem(s, h, n) <=>
                     \E k \in 1..l : h = <<"parsed", k>> /\ n \in IdsOf(parsed[k])
    BY <1>3, <1>8 DEF HeldItem
  <1>11. ASSUME NEW e, NEW h, NEW n
         PROVE  HeldItem(Append(s, e), h, n) <=>
                  \/ \E k \in 1..l : h = <<"parsed", k>> /\ n \in IdsOf(parsed[k])
                  \/ h = <<"parsed", l + 1>> /\ n \in IdsOf(e)
    <2>1. PICK z : z = Append(s, e)
      OBVIOUS
    <2>2. DOMAIN z = 1..l \cup {l + 1} /\ z[l + 1] = e /\ \A k \in 1..l : z[k] = parsed[k]
      BY <1>3, <1>9, <2>1
    <2>3. HeldItem(z, h, n) <=> \E k \in 1..l \cup {l + 1} : h = <<"parsed", k>> /\ n \in IdsOf(z[k])
      BY <2>2 DEF HeldItem
    <2>4. (\E k \in 1..l \cup {l + 1} : h = <<"parsed", k>> /\ n \in IdsOf(z[k])) <=>
            \/ \E k \in 1..l : h = <<"parsed", k>> /\ n \in IdsOf(parsed[k])
            \/ h = <<"parsed", l + 1>> /\ n \in IdsOf(e)
      BY <2>2
    <2> QED BY <2>1, <2>3, <2>4
  <1> QED BY <1>2, <1>7, <1>10, <1>11

(* A reserved node has no children, and a node that stays has the same. *)
LEMMA ChildrenAreTheNodes ==
  /\ \A n : nodes[n] = Reserved => Children(Program, n) = << >> /\ Items(Children(Program, n)) = {}
  /\ \A n : nodes'[n] = Reserved =>
              Children(Program', n) = << >> /\ Items(Children(Program', n)) = {}
  /\ \A n : nodes'[n] = nodes[n] => Children(Program', n) = Children(Program, n)
  <1>1. Program.nodes = nodes /\ Program'.nodes = nodes'
    BY DEF Program
  <1>2. \A p, n : p.nodes[n] = Reserved => Children(p, n) = << >>
    BY DEF Children, Reserved
  <1>3. Items(<< >>) = {}
    BY DEF Items
  <1> QED BY <1>1, <1>2, <1>3 DEF Children

(* The node n takes what the last c items own; the others keep what they own. *)
LEMMA HeldChildrenBuilt ==
  ASSUME CursorInv, NEW c \in 0..Len(parsed), NEW n, n \notin Complete,
         DOMAIN nodes' = DOMAIN nodes \cup {n}, \A m \in DOMAIN nodes : m # n => nodes'[m] = nodes[m],
         \A m : m \in Items(Children(Program', n)) <=> Drops(c, m)
  PROVE  \A h, m : HeldChild(Program', h, m) <=>
                     HeldChild(Program, h, m) \/ (h = <<"node", n>> /\ Drops(c, m))
  <1>1. PICK p, q : p = Program /\ q = Program'
    OBVIOUS
  <1>2. p.nodes = nodes /\ q.nodes = nodes'
    BY <1>1 DEF Program
  <1>3. \A m \in DOMAIN nodes : m # n => Children(q, m) = Children(p, m)
    BY <1>1, ChildrenAreTheNodes
  <1>4. n \in DOMAIN nodes => Items(Children(p, n)) = {}
    BY <1>1, ChildrenAreTheNodes DEF Complete
  <1>5. \A m : m \in Items(Children(q, n)) <=> Drops(c, m)
    BY <1>1
  <1>6. \A h, m : HeldChild(q, h, m) <=> HeldChild(p, h, m) \/ (h = <<"node", n>> /\ Drops(c, m))
    BY <1>2, <1>3, <1>4, <1>5 DEF HeldChild
  <1> QED BY <1>1, <1>6

LEMMA HeldRootsAppended ==
  ASSUME CursorInv, NEW n, definitions' = Append(definitions, n)
  PROVE  /\ \A h, m : HeldRoot(Program', h, m) <=>
                        HeldRoot(Program, h, m) \/ (h = <<"definitions", 0>> /\ m = n)
         /\ n \notin Items(definitions) /\ Distinct(definitions) => Distinct(definitions')
  <1>1. PICK d, e, l : d = definitions /\ e = definitions' /\ l = Len(d)
    OBVIOUS
  <1>2. /\ l \in Nat /\ DOMAIN d = 1..l /\ IsSeq(e) /\ Len(e) = l + 1 /\ e[l + 1] = n
        /\ \A k \in 1..l : e[k] = d[k]
    BY <1>1, AppendSeq, MemoryFacts DEF CursorInv
  <1>3. DOMAIN e = 1..l \cup {l + 1}
    <2>1. DOMAIN e = 1..(l + 1)
      BY <1>2, SeqOfElements
    <2> QED BY <1>2, <2>1
  <1>4. Items(e) = Items(d) \cup {n}
    BY <1>2, <1>3 DEF Items
  <1>5. Program.definitions = d /\ Program'.definitions = e
    BY <1>1 DEF Program
  <1>6. n \notin Items(d) /\ Distinct(d) => Distinct(e)
    BY <1>2, <1>3 DEF Items, Distinct
  <1>7. \A h, m : HeldRoot(Program', h, m) <=>
                    HeldRoot(Program, h, m) \/ (h = <<"definitions", 0>> /\ m = n)
    BY <1>4, <1>5 DEF HeldRoot
  <1> QED BY <1>1, <1>6, <1>7

LEMMA DroppedIsParsed ==
  ASSUME NEW c, NEW h, Dropped(c, h)
  PROVE  \A p, n : ~HeldChild(p, h, n) /\ ~HeldRoot(p, h, n)
  <1>1. PICK k : h = <<"parsed", k>>
    BY DEF Dropped
  <1>2. \A m : <<"parsed", k>> # <<"node", m>> /\ <<"parsed", k>> # <<"definitions", 0>>
    OBVIOUS
  <1> QED BY <1>1, <1>2 DEF HeldChild, HeldRoot

(* The lists of nodes among the items have no node twice. *)
LEMMA ListsCollapse ==
  ASSUME CursorInv, OwnersInv, NEW c \in 0..Len(parsed),
         \/ parsed' = Without(c)
         \/ \E e : parsed' = Append(Without(c), e) /\ (e.kind = "nodes" => Distinct(e.value))
  PROVE  \A k \in DOMAIN parsed' : parsed'[k].kind = "nodes" => Distinct(parsed'[k].value)
  <1>1. Len(parsed) \in Nat /\ DOMAIN parsed = 1..Len(parsed)
    BY MemoryFacts
  <1>2. PICK l, z : l = Len(parsed) - c /\ z = parsed'
    OBVIOUS
  <1>3. l \in Nat /\ 1..l \subseteq DOMAIN parsed /\ 1..(l + 1) = 1..l \cup {l + 1}
    <2>1. PICK m : m = Len(parsed) /\ m \in Nat /\ c \in 0..m
      BY <1>1
    <2> QED BY <1>1, <1>2, <2>1
  <1>4. CASE z = Without(c)
    <2>1. DOMAIN z = 1..l /\ \A k \in 1..l : z[k] = parsed[k]
      <3>1. Stripped(z, l)
        BY <1>2, <1>4, Collapsed
      <3> QED BY <3>1, SeqOfElements DEF Stripped
    <2> QED BY <1>2, <1>3, <2>1 DEF OwnersInv
  <1>5. ASSUME NEW e, z = Append(Without(c), e), e.kind = "nodes" => Distinct(e.value)
        PROVE  \A k \in DOMAIN z : z[k].kind = "nodes" => Distinct(z[k].value)
    <2>1. IsSeq(z) /\ Len(z) = l + 1 /\ z[l + 1] = e /\ \A k \in 1..l : z[k] = parsed[k]
      <3>1. Puts(z, l, e)
        BY <1>2, <1>5, Collapsed
      <3> QED BY <3>1 DEF Puts
    <2>2. DOMAIN z = 1..l \cup {l + 1}
      BY <1>3, <2>1, SeqOfElements
    <2> QED BY <1>3, <1>5, <2>1, <2>2 DEF OwnersInv
  <1> QED BY <1>2, <1>4, <1>5

LEMMA OwnersBuilt ==
  ASSUME CursorInv, OwnersInv, NEW n, NEW c, Builds(n, c)
  PROVE  OwnersInv'
  <1> DEFINE l == Len(parsed) - c + 1
             H == <<"node", n>>
             O(h, m) == Owns(parsed, Program, h, m)
             P(h, m) == Owns(parsed', Program', h, m)
  <1>1. /\ n \notin Complete /\ DOMAIN nodes' = DOMAIN nodes \cup {n}
        /\ \A m \in DOMAIN nodes : m # n => nodes'[m] = nodes[m]
        /\ \A m : m \in Items(Children(Program', n)) <=> Drops(c, m)
        /\ Distinct(Children(Program', n))
    BY DEF Builds, Collects
  <1>2. c \in 0..Len(parsed)
    BY MemoryFacts DEF Builds
  <1>3. Complete' = Complete \cup {n}
    BY BuildsFinishes
  <1>4. \A h, m : HeldChild(Program', h, m) <=> HeldChild(Program, h, m) \/ (h = H /\ Drops(c, m))
    BY <1>1, <1>2, HeldChildrenBuilt
  <1>5. \A h, m : HeldItem(Without(c), h, m) <=> HeldItem(parsed, h, m) /\ ~Dropped(c, h)
    BY <1>2, HeldItemsCollapse
  <1>6. \A h, m : HeldItem(Append(Without(c), Item("node", n)), h, m) <=>
                    (HeldItem(parsed, h, m) /\ ~Dropped(c, h)) \/ (h = <<"parsed", l>> /\ m = n)
    <2>1. IdsOf(Item("node", n)) = {n}
      BY DEF IdsOf, Item
    <2> QED BY <1>2, <2>1, HeldItemsCollapse
  <1>7. \A h, m : O(h, m) <=> HeldItem(parsed, h, m) \/ HeldChild(Program, h, m) \/ HeldRoot(Program, h, m)
    BY OwnsIsHeld
  <1>8. \A h, m : P(h, m) <=> HeldItem(parsed', h, m) \/ HeldChild(Program', h, m) \/ HeldRoot(Program', h, m)
    BY OwnsIsHeld
  <1>9. \A h : Dropped(c, h) => \A m : ~HeldChild(Program, h, m) /\ ~HeldRoot(Program, h, m)
    BY DroppedIsParsed
  <1>10. n \notin Items(definitions)
    <2>1. SUFFICES ASSUME n \in Items(definitions) PROVE FALSE
      OBVIOUS
    <2>2. HeldRoot(Program, <<"definitions", 0>>, n)
      BY <2>1 DEF HeldRoot, Program
    <2>3. O(<<"definitions", 0>>, n)
      BY <1>7, <2>2
    <2> QED BY <1>1, <2>3 DEF OwnersInv
  <1>11. \E G : MovesOwners(c, {n}, H, G)
    <2> HIDE DEF H, l
    <2>1. CASE parsed' = Append(Without(c), Item("node", n)) /\ definitions' = definitions
      <3>1. \A h, m : HeldRoot(Program', h, m) <=> HeldRoot(Program, h, m)
        BY <2>1 DEF HeldRoot, Program
      <3>2. \A h, m : HeldItem(parsed', h, m) <=>
                        (HeldItem(parsed, h, m) /\ ~Dropped(c, h)) \/ (h = <<"parsed", l>> /\ m = n)
        BY <1>6, <2>1
      <3>3. PICK G : G = <<"parsed", l>>
        OBVIOUS
      <3>4. ASSUME NEW h, NEW m
            PROVE  P(h, m) <=> \/ O(h, m) /\ ~Dropped(c, h)
                               \/ h = H /\ Drops(c, m)
                               \/ h = G /\ m \in {n}
        <4> HIDE DEF O, P
        <4>1. m = n <=> m \in {n}
          OBVIOUS
        <4> QED BY <1>4, <1>7, <1>8, <1>9, <3>1, <3>2, <3>3, <4>1
      <3> QED BY <3>4 DEF MovesOwners
    <2>2. CASE parsed' = Without(c) /\ definitions' = Append(definitions, n)
      <3>1. \A h, m : HeldRoot(Program', h, m) <=>
                        HeldRoot(Program, h, m) \/ (h = <<"definitions", 0>> /\ m = n)
        BY <2>2, HeldRootsAppended
      <3>2. \A h, m : HeldItem(parsed', h, m) <=> HeldItem(parsed, h, m) /\ ~Dropped(c, h)
        BY <1>5, <2>2
      <3>3. PICK G : G = <<"definitions", 0>>
        OBVIOUS
      <3>4. ASSUME NEW h, NEW m
            PROVE  P(h, m) <=> \/ O(h, m) /\ ~Dropped(c, h)
                               \/ h = H /\ Drops(c, m)
                               \/ h = G /\ m \in {n}
        <4> HIDE DEF O, P
        <4>1. m = n <=> m \in {n}
          OBVIOUS
        <4> QED BY <1>4, <1>7, <1>8, <1>9, <3>1, <3>2, <3>3, <4>1
      <3> QED BY <3>4 DEF MovesOwners
    <2> QED BY <2>1, <2>2 DEF Builds
  <1>12. PICK G : MovesOwners(c, {n}, H, G)
    BY <1>11
  <1>13. /\ \A h, m : P(h, m) => m \in Complete'
         /\ \A m, h, g : P(h, m) /\ P(g, m) => h = g
         /\ \A m \in Complete' : \E h : P(h, m)
    <2>1. PICK N, K : N = {n} /\ K = H /\ MovesOwners(c, N, K, G)
      BY <1>12
    <2>2. (\A m \in N : m \notin Complete) /\ Complete' = Complete \cup N
      BY <1>1, <1>3, <2>1
    <2> QED BY <1>2, <2>1, <2>2, OwnersMoved
  <1>14. \A k \in DOMAIN parsed' : parsed'[k].kind = "nodes" => Distinct(parsed'[k].value)
    <2>1. Item("node", n).kind # "nodes"
      BY DEF Item
    <2>2. \/ parsed' = Without(c)
          \/ \E e : parsed' = Append(Without(c), e) /\ (e.kind = "nodes" => Distinct(e.value))
      BY <2>1 DEF Builds
    <2> QED BY <1>2, <2>2, ListsCollapse
  <1>15. \A m \in DOMAIN nodes' : Distinct(Children(Program', m))
    <2>1. \A m \in DOMAIN nodes : m # n => Children(Program', m) = Children(Program, m)
      BY <1>1, ChildrenAreTheNodes
    <2> QED BY <1>1, <2>1 DEF OwnersInv
  <1>16. Distinct(definitions')
    <2>1. CASE definitions' = definitions
      BY <2>1 DEF OwnersInv
    <2>2. CASE definitions' = Append(definitions, n)
      BY <1>10, <2>2, HeldRootsAppended DEF OwnersInv
    <2> QED BY <2>1, <2>2 DEF Builds
  <1> QED BY <1>13, <1>14, <1>15, <1>16 DEF OwnersInv

(* A list takes the place of the nodes that it lists. *)
LEMMA OwnersListed ==
  ASSUME CursorInv, OwnersInv, EndsList, Top.count \in 1..Len(parsed),
         \A i \in 1..Top.count :
           IsNodeItem(Memory, parsed[Len(parsed) - Top.count + i], {Top.what})
  PROVE  OwnersInv'
  <1> DEFINE v == [k \in 1..Top.count |-> Part(k, Top.count)]
  <1>1. PICK c, l, e : c = Top.count /\ l = Len(parsed) /\ e = Item("nodes", v)
    OBVIOUS
  <1>2. /\ parsed' = Append(Without(c), e)
        /\ UNCHANGED <<tokens, it, nodes, positions, definitions, outcome>>
    BY <1>1 DEF EndsList
  <1>3. /\ l \in Nat /\ DOMAIN parsed = 1..l /\ c \in 1..l /\ c \in 0..l
        /\ \A i \in 1..c : l - c + i \in (l - c + 1)..l /\ l - c + i \in 1..l
        /\ \A k \in (l - c + 1)..l : k - (l - c) \in 1..c /\ k = l - c + (k - (l - c))
    <2>1. l \in Nat /\ DOMAIN parsed = 1..l /\ c \in 1..l
      BY <1>1, MemoryFacts
    <2> QED BY <2>1
  <1>4. \A i \in 1..c : IdsOf(parsed[l - c + i]) = {parsed[l - c + i].value}
    <2>1. \A i \in 1..c : IsNodeItem(Memory, parsed[l - c + i], {Top.what})
      BY <1>1
    <2>2. \A x : IsNodeItem(Memory, x, {Top.what}) => IdsOf(x) = {x.value}
      BY DEF IsNodeItem, IdsOf, Item
    <2> QED BY <2>1, <2>2
  <1>5. /\ e.kind = "nodes" /\ e.value = v /\ IdsOf(e) = Items(v)
        /\ DOMAIN v = 1..c /\ \A i \in 1..c : v[i] = parsed[l - c + i].value
    BY <1>1 DEF Item, IdsOf, Part
  <1> HIDE DEF v
  <1>6. \A m : m \in IdsOf(e) <=> Drops(c, m)
    <2>1. \A m : m \in Items(v) <=> \E i \in 1..c : m = parsed[l - c + i].value
      <3>1. \A m : m \in Items(v) <=> \E i \in 1..c : m = v[i]
        BY <1>5 DEF Items
      <3> QED BY <1>5, <3>1
    <2>2. \A m : Drops(c, m) <=> \E k \in (l - c + 1)..l : m \in IdsOf(parsed[k])
      BY <1>1 DEF Drops
    <2>3. ASSUME NEW m, NEW k \in (l - c + 1)..l, m \in IdsOf(parsed[k])
          PROVE  \E i \in 1..c : m = parsed[l - c + i].value
      <3>1. PICK i : i = k - (l - c) /\ i \in 1..c /\ k = l - c + i
        BY <1>3
      <3> QED BY <1>4, <2>3, <3>1
    <2>4. ASSUME NEW m, NEW i \in 1..c, m = parsed[l - c + i].value
          PROVE  \E k \in (l - c + 1)..l : m \in IdsOf(parsed[k])
      <3>1. PICK k : k = l - c + i /\ k \in (l - c + 1)..l
        BY <1>3
      <3> QED BY <1>4, <2>4, <3>1
    <2> QED BY <1>5, <2>1, <2>2, <2>3, <2>4
  <1>7. Distinct(v)
    <2>1. SUFFICES ASSUME NEW i \in 1..c, NEW j \in 1..c, v[i] = v[j] PROVE i = j
      BY <1>5 DEF Distinct
    <2>2. PICK a, b : a = l - c + i /\ b = l - c + j /\ a \in DOMAIN parsed /\ b \in DOMAIN parsed
      BY <1>3
    <2>3. parsed[a].value \in IdsOf(parsed[a]) /\ parsed[a].value \in IdsOf(parsed[b])
      BY <1>4, <1>5, <2>1, <2>2
    <2>4. a = b
      BY <2>2, <2>3, ItemsApart
    <2> QED BY <1>3, <2>2, <2>4
  <1>8. Complete' = Complete /\ Program' = Program
    BY <1>2 DEF Complete, Program
  <1>9. PICK H : H = <<"parsed", l - c + 1>>
    OBVIOUS
  <1>10. MovesOwners(c, {}, H, H)
    <2>1. \A h, m : HeldItem(parsed', h, m) <=>
                      (HeldItem(parsed, h, m) /\ ~Dropped(c, h)) \/ (h = H /\ Drops(c, m))
      BY <1>1, <1>2, <1>3, <1>6, <1>9, HeldItemsCollapse
    <2>2. \A h : Dropped(c, h) => \A m : ~HeldChild(Program, h, m) /\ ~HeldRoot(Program, h, m)
      BY DroppedIsParsed
    <2>3. ASSUME NEW h, NEW m
          PROVE  Owns(parsed', Program', h, m) <=>
                   \/ Owns(parsed, Program, h, m) /\ ~Dropped(c, h)
                   \/ h = H /\ Drops(c, m)
                   \/ h = H /\ m \in {}
      <3>1. Owns(parsed', Program', h, m) <=>
              HeldItem(parsed', h, m) \/ HeldChild(Program, h, m) \/ HeldRoot(Program, h, m)
        BY <1>8, OwnsIsHeld
      <3>2. Owns(parsed, Program, h, m) <=>
              HeldItem(parsed, h, m) \/ HeldChild(Program, h, m) \/ HeldRoot(Program, h, m)
        BY OwnsIsHeld
      <3> QED BY <2>1, <2>2, <3>1, <3>2
    <2> QED BY <2>3 DEF MovesOwners
  <1>11. /\ \A h, m : Owns(parsed', Program', h, m) => m \in Complete'
         /\ \A m, h, g : Owns(parsed', Program', h, m) /\ Owns(parsed', Program', g, m) => h = g
         /\ \A m \in Complete' : \E h : Owns(parsed', Program', h, m)
    <2>1. PICK N : N = {} /\ MovesOwners(c, N, H, H)
      BY <1>10
    <2>2. (\A m \in N : m \notin Complete) /\ Complete' = Complete \cup N
      BY <1>8, <2>1
    <2> QED BY <1>1, <1>3, <2>1, <2>2, OwnersMoved
  <1>12. \A k \in DOMAIN parsed' : parsed'[k].kind = "nodes" => Distinct(parsed'[k].value)
    <2>1. \E x : parsed' = Append(Without(c), x) /\ (x.kind = "nodes" => Distinct(x.value))
      BY <1>2, <1>5, <1>7
    <2>2. c \in 0..Len(parsed)
      BY <1>1, <1>3
    <2> QED BY <2>1, <2>2, ListsCollapse
  <1> QED BY <1>2, <1>8, <1>11, <1>12 DEF OwnersInv

(* Nothing is owned by what is consumed. *)
LEMMA OwnersConsumed ==
  ASSUME CursorInv, OwnersInv, FlowInv, Consumes
  PROVE  OwnersInv'
  <1>1. PICK next, items : Consume(next, items) /\ Keeps(items)
    BY DEF Consumes
  <1>2. PICK t, u : Step(Memory, Top, it, t, u)
    BY RunningFlow DEF Consumes
  <1>3. parsed' = parsed \o items /\ UNCHANGED <<nodes, definitions>>
    BY <1>1 DEF Consume
  <1>4. Complete' = Complete /\ Program' = Program
    BY <1>3 DEF Complete, Program
  <1>5. /\ DOMAIN parsed \subseteq DOMAIN parsed' /\ \A k \in DOMAIN parsed : parsed'[k] = parsed[k]
        /\ \A k \in DOMAIN parsed' : k \notin DOMAIN parsed => parsed'[k].kind \notin {"node", "nodes"}
    <2>1. \/ items = << >>
          \/ \E e : items = <<e>> /\ e.kind \notin {"node", "nodes"}
      BY <1>1, <1>2 DEF Keeps
    <2>2. PICK s, z, l : s = parsed /\ z = parsed' /\ l = Len(s)
      OBVIOUS
    <2>3. IsSeq(s) /\ l \in Nat /\ DOMAIN s = 1..l
      BY <2>2, MemoryFacts DEF CursorInv
    <2>4. CASE items = << >>
      <3>1. PICK S : s \in Seq(S)
        BY <2>3 DEF IsSeq
      <3>2. s \o << >> = s
        BY <3>1
      <3>3. z = s
        BY <1>3, <2>2, <2>4, <3>2
      <3> QED BY <2>2, <3>3
    <2>5. ASSUME NEW e, items = <<e>>, e.kind \notin {"node", "nodes"}
          PROVE  /\ DOMAIN s \subseteq DOMAIN z /\ \A k \in DOMAIN s : z[k] = s[k]
                 /\ \A k \in DOMAIN z : k \notin DOMAIN s => z[k].kind \notin {"node", "nodes"}
      <3>1. z = Append(s, e)
        <4>1. PICK S : s \in Seq(S)
          BY <2>3 DEF IsSeq
        <4>2. PICK T : s \in Seq(T) /\ e \in T
          <5>1. s \in Seq(S \cup {e}) /\ e \in S \cup {e}
            BY <4>1
          <5> QED BY <5>1
        <4>3. s \o <<e>> = Append(s, e)
          BY <4>2
        <4> QED BY <1>3, <2>2, <2>5, <4>3
      <3>2. IsSeq(z) /\ Len(z) = l + 1 /\ z[l + 1] = e /\ \A k \in 1..l : z[k] = s[k]
        BY <2>2, <2>3, <3>1, AppendSeq
      <3>3. DOMAIN z = 1..l \cup {l + 1}
        <4>1. DOMAIN z = 1..(l + 1)
          BY <3>2, SeqOfElements
        <4> QED BY <2>3, <4>1
      <3> QED BY <2>3, <2>5, <3>2, <3>3
    <2> QED BY <2>1, <2>2, <2>4, <2>5
  <1>6. \A h, n : HeldItem(parsed', h, n) <=> HeldItem(parsed, h, n)
    <2>1. \A k \in DOMAIN parsed' : k \notin DOMAIN parsed => IdsOf(parsed'[k]) = {}
      BY <1>5 DEF IdsOf
    <2> QED BY <1>5, <2>1 DEF HeldItem
  <1>7. \A h, n : Owns(parsed', Program', h, n) <=> Owns(parsed, Program, h, n)
    BY <1>4, <1>6, OwnsIsHeld
  <1>8. \A k \in DOMAIN parsed' : parsed'[k].kind = "nodes" => Distinct(parsed'[k].value)
    BY <1>5 DEF OwnersInv
  <1> QED BY <1>3, <1>4, <1>7, <1>8 DEF OwnersInv

(* Nothing is owned by a node that is reserved. *)
LEMMA OwnersReserved ==
  ASSUME CursorInv, OwnersInv, Reserves, Len(nodes') = NextId,
         nodes'[NextId] = Reserved, IsSeq(nodes'), \A m \in DOMAIN nodes : nodes'[m] = nodes[m]
  PROVE  OwnersInv'
  <1>1. Complete' = Complete
    BY CompleteKept
  <1>2. parsed' = parsed /\ definitions' = definitions
    BY DEF Reserves
  <1>3. PICK n : n = NextId /\ DOMAIN nodes' = DOMAIN nodes \cup {n} /\ nodes'[n] = Reserved
    <2>1. PICK l, k : l = Len(nodes) /\ k = NextId /\ k = l + 1 /\ l \in Nat /\ DOMAIN nodes = 1..l
      BY MemoryFacts DEF NextId
    <2>2. DOMAIN nodes' = 1..k /\ 1..k = 1..l \cup {k}
      BY <2>1, SeqOfElements
    <2> QED BY <2>1, <2>2
  <1>4. /\ Children(Program', n) = << >> /\ Items(Children(Program', n)) = {}
        /\ \A m \in DOMAIN nodes : Children(Program', m) = Children(Program, m)
    BY <1>3, ChildrenAreTheNodes
  <1>5. \A h, m : HeldChild(Program', h, m) <=> HeldChild(Program, h, m)
    <2>1. PICK p, q : p = Program /\ q = Program'
      OBVIOUS
    <2>2. p.nodes = nodes /\ q.nodes = nodes'
      BY <2>1 DEF Program
    <2>3. \A h, m : HeldChild(q, h, m) <=> HeldChild(p, h, m)
      BY <1>3, <1>4, <2>1, <2>2 DEF HeldChild
    <2> QED BY <2>1, <2>3
  <1>6. \A h, m : HeldRoot(Program', h, m) <=> HeldRoot(Program, h, m)
    BY <1>2 DEF HeldRoot, Program
  <1>7. \A h, m : Owns(parsed', Program', h, m) <=> Owns(parsed, Program, h, m)
    BY <1>2, <1>5, <1>6, OwnsIsHeld
  <1>8. \A m \in DOMAIN nodes' : Distinct(Children(Program', m))
    <2>1. Distinct(<< >>)
      BY DEF Distinct
    <2> QED BY <1>3, <1>4, <2>1 DEF OwnersInv
  <1> QED BY <1>1, <1>2, <1>7, <1>8 DEF OwnersInv

LEMMA OwnersSame ==
  ASSUME OwnersInv, UNCHANGED <<nodes, definitions, parsed>>
  PROVE  OwnersInv'
  <1>1. Complete' = Complete /\ Program' = Program
    BY DEF Complete, Program
  <1> QED BY <1>1 DEF OwnersInv

(***************************************************************************)
(* A node's rank is the number of nodes that are finished when it is.      *)
(***************************************************************************)
LEMMA ChildrenAreFinished ==
  ASSUME OwnersInv, NEW n \in DOMAIN nodes, NEW m \in Items(Children(Program, n))
  PROVE  m \in Complete
  <1>1. HeldChild(Program, <<"node", n>>, m)
    BY DEF HeldChild, Program
  <1> QED BY <1>1, OwnsIsHeld DEF OwnersInv

LEMMA RanksKept ==
  ASSUME CursorInv, NodesInv, RanksInv, GrowsTo(Memory, Memory'), Complete' = Complete
  PROVE  RanksInv'
  <1>1. \A n \in Complete : Children(Program', n) = Children(Program, n)
    BY FinishedKept
  <1>2. PICK r : \A n \in Complete : /\ r[n] \in 1..Cardinality(Complete)
                                     /\ \A m \in Items(Children(Program, n)) : r[m] < r[n]
    BY DEF RanksInv
  <1>3. \A n \in Complete' : /\ r[n] \in 1..Cardinality(Complete')
                             /\ \A m \in Items(Children(Program', n)) : r[m] < r[n]
    BY <1>1, <1>2
  <1> QED BY <1>3 DEF RanksInv

LEMMA RanksBuilt ==
  ASSUME CursorInv, NodesInv, OwnersInv, RanksInv, GrowsTo(Memory, Memory'),
         NEW n, NEW c, Builds(n, c)
  PROVE  RanksInv'
  <1>1. Complete' = Complete \cup {n} /\ n \notin Complete
    BY BuildsFinishes DEF Builds
  <1>2. Cardinality(Complete) \in Nat /\ Cardinality(Complete') = Cardinality(Complete) + 1
    <2>1. IsFiniteSet(Complete)
      <3>1. Complete \subseteq 1..Len(nodes) /\ Len(nodes) \in Nat
        BY MemoryFacts DEF Complete
      <3>2. IsFiniteSet(1..Len(nodes))
        BY <3>1, FS_Interval
      <3> QED BY <3>1, <3>2, FS_Subset
    <2>2. \A S, x : IsFiniteSet(S) => /\ Cardinality(S) \in Nat
                                      /\ x \notin S => Cardinality(S \cup {x}) = Cardinality(S) + 1
      BY FS_CardinalityType, FS_AddElement
    <2> QED BY <1>1, <2>1, <2>2
  <1>3. PICK r : \A m \in Complete : /\ r[m] \in 1..Cardinality(Complete)
                                     /\ \A k \in Items(Children(Program, m)) : r[k] < r[m]
    BY DEF RanksInv
  <1>4. PICK N : N = Cardinality(Complete) /\ N \in Nat /\ Cardinality(Complete') = N + 1
    BY <1>2
  <1> DEFINE s == [m \in Complete \cup {n} |-> IF m = n THEN N + 1 ELSE r[m]]
  <1>5. s[n] = N + 1 /\ \A m \in Complete : s[m] = r[m]
    BY <1>1
  <1> HIDE DEF s
  <1>6. \A k \in Items(Children(Program', n)) : k \in Complete
    <2>1. c \in 0..Len(parsed) /\ \A k : k \in Items(Children(Program', n)) => Drops(c, k)
      BY MemoryFacts DEF Builds, Collects
    <2> QED BY <2>1, DropsAreDropped DEF OwnersInv
  <1>7. ASSUME NEW m \in Complete'
        PROVE  s[m] \in 1..(N + 1) /\ \A k \in Items(Children(Program', m)) : s[k] < s[m]
    <2>1. CASE m = n
      <3>1. \A k \in Complete : s[k] \in 1..N
        BY <1>3, <1>4, <1>5
      <3>2. \A k \in Items(Children(Program', m)) : s[k] \in 1..N
        BY <1>6, <2>1, <3>1
      <3> QED BY <1>4, <1>5, <2>1, <3>2
    <2>2. CASE m \in Complete
      <3>1. Children(Program', m) = Children(Program, m)
        BY <2>2, FinishedKept
      <3>2. \A k \in Items(Children(Program, m)) : k \in Complete
        BY <2>2, ChildrenAreFinished DEF Complete
      <3>3. s[m] = r[m] /\ \A k \in Items(Children(Program, m)) : s[k] = r[k] /\ r[k] < r[m]
        BY <1>3, <1>5, <2>2, <3>2
      <3>4. r[m] \in 1..N
        BY <1>3, <1>4, <2>2
      <3> QED BY <1>4, <3>1, <3>3, <3>4
    <2> QED BY <1>1, <2>1, <2>2
  <1>8. \A m \in Complete' : /\ s[m] \in 1..Cardinality(Complete')
                             /\ \A k \in Items(Children(Program', m)) : s[k] < s[m]
    BY <1>4, <1>7
  <1> QED BY <1>8 DEF RanksInv

-----------------------------------------------------------------------------
(***************************************************************************)
(* The inductive invariant.                                                *)
(***************************************************************************)
IInv ==
  /\ CursorInv /\ NodesInv /\ MakesInv /\ OperatorsInv
  /\ FlowInv /\ OwnersInv /\ RanksInv

LEMMA NilLeadsToNil ==
  ASSUME NEW m, NEW c
  PROVE  LeadTo(m, << >>, c, Nil, Nil)
  <1> DEFINE f == [k \in {1} |-> Nil]
  <1>1. f[1] = Nil /\ Len(<< >>) + 1 = 1 /\ 1..Len(<< >>) = {}
    OBVIOUS
  <1> HIDE DEF f
  <1> QED BY <1>1 DEF LeadTo

LEMMA InitIInv ==
  ASSUME Init
  PROVE  IInv
  <1>1. /\ tokens \in Inputs /\ it = 1 /\ nodes = << >> /\ positions = << >>
        /\ definitions = << >> /\ work = << >> /\ parsed = << >> /\ outcome = "parsing"
    BY DEF Init
  <1>2. IsInput(tokens)
    BY <1>1, InputsAssumption
  <1>3. IsSeq(<< >>) /\ Len(<< >>) = 0 /\ DOMAIN << >> = {}
    BY DEF IsSeq
  <1>4. it \in 1..(Len(tokens) + 1)
    BY <1>1, <1>2 DEF IsInput
  <1>5. CursorInv
    BY <1>1, <1>2, <1>3, <1>4 DEF CursorInv
  <1>6. Complete = {}
    BY <1>1, <1>3 DEF Complete
  <1>7. NodesInv /\ MakesInv /\ OperatorsInv
    BY <1>1, <1>3, <1>6 DEF NodesInv, MakesInv, OperatorsInv
  <1>8. FlowInv
    BY <1>1, <1>3, NilShape, NilLeadsToNil DEF FlowInv
  <1>9. OwnersInv
    <2>1. \A h, n : ~Owns(parsed, Program, h, n)
      BY <1>1, <1>3 DEF Owns, Program, Items
    <2> QED BY <1>1, <1>3, <1>6, <2>1 DEF OwnersInv, Distinct
  <1>10. RanksInv
    BY <1>6 DEF RanksInv
  <1> QED BY <1>5, <1>7, <1>8, <1>9, <1>10 DEF IInv

LEMMA SameProgram ==
  ASSUME NodesInv, OwnersInv, RanksInv,
         UNCHANGED <<tokens, it, nodes, positions, definitions, parsed>>
  PROVE  NodesInv' /\ OwnersInv' /\ RanksInv'
  <1>1. Complete' = Complete /\ Program' = Program /\ Memory' = Memory
    BY DEF Complete, Program, Memory
  <1>2. OwnersInv'
    BY OwnersSame
  <1> QED BY <1>1, <1>2 DEF NodesInv, RanksInv

LEMMA NextIInv ==
  ASSUME IInv, Next
  PROVE  IInv'
  <1> USE DEF IInv
  <1>1. CASE Stays
    <2>1. CursorInv' /\ FlowInv'
      BY <1>1, StaysFlow
    <2>2. MakesInv' /\ OperatorsInv'
      <3>1. Complete' = Complete
        BY <1>1 DEF Complete, Stays
      <3> QED BY <1>1, <3>1 DEF MakesInv, OperatorsInv, Stays
    <2>3. NodesInv' /\ OwnersInv' /\ RanksInv'
      BY <1>1, SameProgram DEF Stays
    <2> QED BY <2>1, <2>2, <2>3
  <1>2. CASE Starts
    <2>1. CursorInv' /\ FlowInv'
      BY <1>2, StartsFlow
    <2>2. MakesInv' /\ OperatorsInv'
      BY <1>2, StartsPending
    <2>3. NodesInv' /\ OwnersInv' /\ RanksInv'
      BY <1>2, SameProgram DEF Starts
    <2> QED BY <2>1, <2>2, <2>3
  <1>3. CASE Calls
    <2>1. CursorInv' /\ FlowInv'
      BY <1>3, CallsFlow
    <2>2. MakesInv' /\ OperatorsInv'
      BY <1>3, CallsPending
    <2>3. NodesInv' /\ OwnersInv' /\ RanksInv'
      BY <1>3, SameProgram DEF Calls, Unfolds, Do
    <2> QED BY <2>1, <2>2, <2>3
  <1>4. CASE Consumes
    <2>1. CursorInv' /\ FlowInv' /\ GrowsTo(Memory, Memory')
      BY <1>4, ConsumesFlow
    <2>2. /\ work # << >> /\ work' = Tail(work) /\ Top.do # "operator" /\ UNCHANGED nodes
          /\ it' \in Nat /\ it <= it' /\ (Moves(Top) => it < it')
      BY <1>4, MemoryFacts DEF Consumes, Consume
    <2>3. MakesInv' /\ OperatorsInv'
      BY <2>2, EndsPending
    <2>4. Complete' = Complete
      BY <2>2 DEF Complete
    <2>5. NodesInv' /\ RanksInv'
      BY <2>1, <2>4, NodesKept, RanksKept
    <2>6. OwnersInv'
      BY <1>4, OwnersConsumed
    <2> QED BY <2>1, <2>3, <2>5, <2>6
  <1>5. CASE EndsList
    <2>1. /\ CursorInv' /\ FlowInv' /\ GrowsTo(Memory, Memory') /\ Top.count \in 1..Len(parsed)
          /\ \A i \in 1..Top.count :
               IsNodeItem(Memory, parsed[Len(parsed) - Top.count + i], {Top.what})
      BY <1>5, EndsListFlow
    <2>2. /\ work # << >> /\ work' = Tail(work) /\ Top.do # "operator" /\ UNCHANGED nodes
          /\ it' \in Nat /\ it <= it' /\ ~Moves(Top)
      BY <1>5, MemoryFacts DEF EndsList, Running, Moves
    <2>3. MakesInv' /\ OperatorsInv'
      BY <2>2, EndsPending
    <2>4. Complete' = Complete
      BY <2>2 DEF Complete
    <2>5. NodesInv' /\ RanksInv'
      BY <2>1, <2>4, NodesKept, RanksKept
    <2>6. OwnersInv'
      BY <1>5, <2>1, OwnersListed
    <2> QED BY <2>1, <2>3, <2>5, <2>6
  <1>6. CASE Reserves
    <2>1. /\ CursorInv' /\ FlowInv' /\ GrowsTo(Memory, Memory') /\ Len(nodes') = NextId
          /\ nodes'[NextId] = Reserved /\ \A m \in DOMAIN nodes : nodes'[m] = nodes[m]
      BY <1>6, ReservesFlow
    <2>2. IsSeq(nodes')
      BY <2>1 DEF CursorInv
    <2>3. MakesInv' /\ OperatorsInv'
      BY <1>6, <2>1, <2>2, ReservesPending
    <2>4. Complete' = Complete
      BY <1>6, <2>1, <2>2, CompleteKept
    <2>5. NodesInv' /\ RanksInv'
      BY <2>1, <2>4, NodesKept, RanksKept
    <2>6. OwnersInv'
      BY <1>6, <2>1, <2>2, OwnersReserved
    <2> QED BY <2>1, <2>3, <2>5, <2>6
  <1>7. ASSUME NEW n, NEW c, CursorInv', FlowInv', GrowsTo(Memory, Memory'), UNCHANGED it,
               Builds(n, c), \/ Top.do = "operator" /\ n = Top.node
                             \/ Top.do = "make" /\ n \notin DOMAIN nodes
        PROVE  IInv'
    <2>1. MakesInv' /\ OperatorsInv'
      BY <1>7, BuildsPending
    <2>2. NodesInv'
      BY <1>7, NodesBuilt
    <2>3. OwnersInv'
      BY <1>7, OwnersBuilt
    <2>4. RanksInv'
      BY <1>7, RanksBuilt
    <2> QED BY <1>7, <2>1, <2>2, <2>3, <2>4
  <1>8. CASE MakeBinaryOperator
    BY <1>7, <1>8, BinaryOperatorBuilds
  <1>9. CASE MakeNode
    BY <1>7, <1>9, NodeBuilds
  <1> QED BY <1>1, <1>2, <1>3, <1>4, <1>5, <1>6, <1>8, <1>9, ActionCases

LEMMA StutterIInv ==
  ASSUME IInv, UNCHANGED vars
  PROVE  IInv'
  <1>1. Complete' = Complete /\ Program' = Program /\ Memory' = Memory
    BY DEF vars, Complete, Program, Memory
  <1>2. CursorInv' /\ NodesInv' /\ MakesInv' /\ OperatorsInv'
    BY <1>1 DEF vars, IInv, CursorInv, NodesInv, MakesInv, OperatorsInv
  <1>3. FlowInv'
    BY <1>1 DEF vars, IInv, FlowInv
  <1>4. OwnersInv' /\ RanksInv'
    BY <1>1 DEF vars, IInv, OwnersInv, RanksInv
  <1> QED BY <1>2, <1>3, <1>4 DEF IInv

(***************************************************************************)
(* Every state of the parser has the inductive invariant: whatever the     *)
(* tokens, the calls that are pending in parse.cpp lead from what is       *)
(* parsed so far to a list of whole definitions, or to a refusal.          *)
(***************************************************************************)
THEOREM ParserInvariant == Spec => []IInv
  <1>1. Init => IInv
    BY InitIInv
  <1>2. IInv /\ [Next]_vars => IInv'
    BY NextIInv, StutterIInv
  <1> QED BY <1>1, <1>2, PTL DEF Spec

-----------------------------------------------------------------------------
(***************************************************************************)
(* What is accepted is a program.                                          *)
(***************************************************************************)
LEMMA SeqOfItems ==
  ASSUME NEW s, IsSeq(s), NEW S, \A k \in DOMAIN s : s[k] \in S
  PROVE  s \in Seq(S)
  <1>1. Len(s) \in Nat /\ DOMAIN s = 1..Len(s) /\ s = [k \in 1..Len(s) |-> s[k]]
    BY SeqOfElements
  <1>2. PICK n : n = Len(s) /\ n \in Nat
    BY <1>1
  <1>3. [k \in 1..n |-> s[k]] \in Seq(S)
    BY <1>1, <1>2
  <1> QED BY <1>1, <1>2, <1>3

LEMMA AcceptedIsFinished ==
  ASSUME IInv, outcome = "accepted"
  PROVE  /\ parsed = << >> /\ Complete = DOMAIN nodes
         /\ \A n \in DOMAIN nodes : IsNode(Program, n) /\ PointsAt(Memory, n)
  <1>1. work = << >> /\ DOMAIN work = {}
    BY DEF IInv, CursorInv
  <1>2. Complete = DOMAIN nodes
    BY <1>1 DEF IInv, OperatorsInv, Complete
  <1>3. parsed = << >>
    <2>1. PICK t : Shape(Memory, parsed, Len(parsed), t) /\ LeadTo(Memory, work, it, t, Nil)
      BY DEF IInv, FlowInv
    <2>2. t = Nil
      <3>1. Len(work) + 1 = 1
        BY <1>1
      <3> QED BY <2>1, <3>1 DEF LeadTo
    <2>3. Len(parsed) \in Nat
      BY MemoryFacts DEF IInv
    <2>4. Len(parsed) = 0
      BY <2>1, <2>2, <2>3, NilShapeIsEmpty
    <2>5. PICK S : parsed \in Seq(S)
      BY DEF IInv, CursorInv, IsSeq
    <2> QED BY <2>4, <2>5
  <1> QED BY <1>2, <1>3 DEF IInv, NodesInv

(* Every node is a definition, or the child of one node. *)
LEMMA AcceptedHolders ==
  ASSUME IInv, outcome = "accepted"
  PROVE  /\ \A n \in DOMAIN nodes :
              \/ n \in Items(definitions)
              \/ \E m \in DOMAIN nodes : n \in Items(Children(Program, m))
         /\ Items(definitions) \subseteq DOMAIN nodes
         /\ \A m \in DOMAIN nodes :
              /\ Items(Children(Program, m)) \subseteq DOMAIN nodes
              /\ Items(Children(Program, m)) \cap Items(definitions) = {}
         /\ \A m, o \in DOMAIN nodes :
              Items(Children(Program, m)) \cap Items(Children(Program, o)) # {} => m = o
  <1> DEFINE O(h, n) == Owns(parsed, Program, h, n)
  <1>1. parsed = << >> /\ Complete = DOMAIN nodes
    BY AcceptedIsFinished
  <1>2. PICK p : p = Program /\ p.nodes = nodes /\ p.definitions = definitions
    <2>1. Program.nodes = nodes /\ Program.definitions = definitions
      BY DEF Program
    <2> QED BY <2>1
  <1>3. \A h, n : O(h, n) <=> HeldChild(p, h, n) \/ HeldRoot(p, h, n)
    <2>1. \A h, n : ~HeldItem(parsed, h, n)
      BY <1>1 DEF HeldItem
    <2> QED BY <1>2, <2>1, OwnsIsHeld
  <1>4. /\ \A h, n : O(h, n) => n \in DOMAIN nodes
        /\ \A n, h, g : O(h, n) /\ O(g, n) => h = g
        /\ \A n \in DOMAIN nodes : \E h : O(h, n)
    BY <1>1 DEF IInv, OwnersInv
  <1> HIDE DEF O
  <1>5. \A m \in DOMAIN nodes : \A n \in Items(Children(p, m)) : O(<<"node", m>>, n)
    BY <1>2, <1>3 DEF HeldChild
  <1>6. \A n \in Items(definitions) : O(<<"definitions", 0>>, n)
    BY <1>2, <1>3 DEF HeldRoot
  <1>7. \A m : <<"node", m>> # <<"definitions", 0>>
    OBVIOUS
  <1>8. \A m, o : <<"node", m>> = <<"node", o>> => m = o
    OBVIOUS
  <1>9. \A n \in DOMAIN nodes :
          n \in Items(definitions) \/ \E m \in DOMAIN nodes : n \in Items(Children(p, m))
    BY <1>2, <1>3, <1>4 DEF HeldChild, HeldRoot
  <1>10. Items(definitions) \subseteq DOMAIN nodes
         /\ \A m \in DOMAIN nodes : Items(Children(p, m)) \subseteq DOMAIN nodes
    BY <1>4, <1>5, <1>6
  <1>11. \A m \in DOMAIN nodes : Items(Children(p, m)) \cap Items(definitions) = {}
    BY <1>4, <1>5, <1>6, <1>7
  <1>12. \A m, o \in DOMAIN nodes : Items(Children(p, m)) \cap Items(Children(p, o)) # {} => m = o
    <2>1. ASSUME NEW m \in DOMAIN nodes, NEW o \in DOMAIN nodes,
                 NEW n \in Items(Children(p, m)), n \in Items(Children(p, o))
          PROVE  m = o
      <3>1. <<"node", m>> = <<"node", o>>
        BY <1>4, <1>5, <2>1
      <3> QED BY <1>8, <3>1
    <2> QED BY <2>1
  <1> QED BY <1>2, <1>9, <1>10, <1>11, <1>12

(***************************************************************************)
(* Every node is reached from the definitions: going from a node to the    *)
(* one above it, the rank grows.                                           *)
(***************************************************************************)

(* f is reach, of the definition of Reached, up to depth N. *)
IsReach(p, f, N) ==
  f = [d \in 0..N |->
         IF d = 0 THEN Definitions(p)
         ELSE LET above == f[d - 1]
              IN  above \cup UNION {{Children(p, m)[k] : k \in DOMAIN Children(p, m)} :
                                       m \in above}]

(* There is such a function, built up depth by depth. *)
LEMMA ReachExists ==
  ASSUME NEW p, NEW N \in Nat
  PROVE  \E f : IsReach(p, f, N)
  <1> DEFINE Missing == {n \in 0..N : ~\E f : IsReach(p, f, n)}
  <1>1. SUFFICES ASSUME Missing # {} PROVE FALSE
    OBVIOUS
  <1>2. PICK n \in Missing : \A m \in Missing : n <= m
    <2>1. Missing \in SUBSET Nat
      OBVIOUS
    <2> HIDE DEF Missing
    <2> QED BY <1>1, <2>1, LeastElement
  <1>3. CASE n = 0
    <2>1. IsReach(p, [d \in 0..0 |-> Definitions(p)], 0)
      BY DEF IsReach
    <2> QED BY <1>2, <1>3, <2>1
  <1>4. CASE n > 0
    <2>1. n - 1 \in 0..N /\ n - 1 \notin Missing
      <3>1. n - 1 \in 0..N /\ ~(n <= n - 1)
        BY <1>4
      <3> HIDE DEF Missing
      <3> QED BY <1>2, <3>1
    <2>2. PICK f : IsReach(p, f, n - 1)
      BY <2>1
    <2> DEFINE Deeper(S) == S \cup UNION {{Children(p, m)[k] : k \in DOMAIN Children(p, m)} :
                                             m \in S}
               h == [d \in 0..n |-> IF d = 0 THEN Definitions(p) ELSE Deeper(f[d - 1])]
    <2>3. \A d \in 0..(n - 1) : f[d] = IF d = 0 THEN Definitions(p) ELSE Deeper(f[d - 1])
      BY <2>2, Zenon DEF IsReach
    <2>4. \A d \in 0..(n - 1) : h[d] = f[d]
      <3> HIDE DEF Deeper
      <3> QED BY <1>4, <2>3
    <2>5. \A d \in 0..n : h[d] = IF d = 0 THEN Definitions(p) ELSE Deeper(h[d - 1])
      <3>1. \A d \in 0..n : d # 0 => d - 1 \in 0..(n - 1)
        BY <1>4
      <3> HIDE DEF Deeper
      <3> QED BY <2>4, <3>1
    <2>6. h = [d \in 0..n |-> IF d = 0 THEN Definitions(p) ELSE Deeper(h[d - 1])]
      <3> HIDE DEF Deeper
      <3> QED BY <2>5, Zenon
    <2>7. IsReach(p, h, n)
      BY <2>6, Zenon DEF IsReach
    <2> QED BY <1>2, <2>7
  <1> QED BY <1>3, <1>4
LEMMA ReachSteps ==
  ASSUME NEW p, NEW N \in Nat, NEW f, IsReach(p, f, N)
  PROVE  /\ f[0] = Definitions(p)
         /\ \A d \in 1..N : \A x :
              x \in f[d] <=> x \in f[d - 1] \/ \E m \in f[d - 1] : x \in Items(Children(p, m))
  <1> DEFINE Deeper(S) == S \cup UNION {{Children(p, m)[k] : k \in DOMAIN Children(p, m)} :
                                           m \in S}
  <1>1. \A d \in 0..N : f[d] = IF d = 0 THEN Definitions(p) ELSE Deeper(f[d - 1])
    BY Zenon DEF IsReach
  <1>2. \A S, x : x \in Deeper(S) <=> x \in S \/ \E m \in S : x \in Items(Children(p, m))
    BY Zenon DEF Items
  <1> HIDE DEF Deeper
  <1>3. \A d \in 1..N : d \in 0..N /\ d # 0
    OBVIOUS
  <1> QED BY <1>1, <1>2, <1>3

LEMMA AllReached ==
  ASSUME NEW p, NEW N \in Nat, Len(p.nodes) = N, NEW C, NEW D \in SUBSET C, D = Definitions(p),
         NEW r, \A n \in C : r[n] \in 1..N,
         \A n \in C : n \in D \/ \E m \in C : n \in Items(Children(p, m)) /\ r[n] < r[m],
         \A m \in C : Items(Children(p, m)) \subseteq C
  PROVE  Reached(p) = C
  <1>1. PICK reach : IsReach(p, reach, N) /\ Reached(p) = reach[N]
    <2>1. \E f : IsReach(p, f, N)
      BY ReachExists
    <2>2. \E f : IsReach(p, f, N) /\ Reached(p) = f[N]
      <3>1. IsReach(p, CHOOSE f : f = [d \in 0..N |->
                                         IF d = 0 THEN Definitions(p)
                                         ELSE LET above == f[d - 1]
                                              IN  above \cup
                                                  UNION {{Children(p, m)[k] :
                                                            k \in DOMAIN Children(p, m)} :
                                                           m \in above}], N)
        BY <2>1, Zenon DEF IsReach
      <3> QED BY <3>1, Zenon DEF IsReach, Reached
    <2> QED BY <2>2
  <1>2. /\ reach[0] = D
        /\ \A d \in 1..N : \A x :
             x \in reach[d] <=> x \in reach[d - 1] \/ \E m \in reach[d - 1] : x \in Items(Children(p, m))
    BY <1>1, ReachSteps
  <1> DEFINE Good(d) == /\ reach[d] \subseteq C /\ D \subseteq reach[d]
                        /\ \A n \in C : r[n] >= N - d => n \in reach[d]
             Bad == {d \in 0..N : ~Good(d)}
  <1>3. Good(0)
    <2>1. reach[0] = D
      BY <1>2
    <2>2. ASSUME NEW n \in C, r[n] >= N - 0
          PROVE  n \in D
      <3>1. r[n] = N
        BY <2>2
      <3>2. \A m \in C : ~(r[n] < r[m])
        BY <3>1
      <3> QED BY <3>2
    <2> QED BY <2>1, <2>2
  <1>4. ASSUME NEW d \in 1..N, Good(d - 1)
        PROVE  Good(d)
    <2>1. PICK S : S = reach[d - 1] /\ S \subseteq C /\ D \subseteq S
                   /\ \A n \in C : r[n] >= N - (d - 1) => n \in S
      BY <1>4
    <2>2. \A x : x \in reach[d] <=> x \in S \/ \E m \in S : x \in Items(Children(p, m))
      BY <1>2, <2>1
    <2>3. ASSUME NEW n \in C, r[n] >= N - d
          PROVE  n \in reach[d]
      <3>1. CASE n \in D
        BY <2>1, <2>2, <3>1
      <3>2. CASE n \notin D
        <4>1. PICK m \in C : n \in Items(Children(p, m)) /\ r[n] < r[m]
          BY <3>2
        <4>2. r[m] >= N - (d - 1)
          <5>1. r[m] \in Nat /\ r[n] \in Nat
            OBVIOUS
          <5> QED BY <2>3, <4>1, <5>1
        <4> QED BY <2>1, <2>2, <4>1, <4>2
      <3> QED BY <3>1, <3>2
    <2> QED BY <2>1, <2>2, <2>3
  <1>5. Bad = {}
    <2>1. SUFFICES ASSUME Bad # {} PROVE FALSE
      OBVIOUS
    <2>2. PICK d \in Bad : \A e \in Bad : d <= e
      <3>1. Bad \in SUBSET Nat
        OBVIOUS
      <3> HIDE DEF Bad
      <3> QED BY <2>1, <3>1, LeastElement
    <2> HIDE DEF Good
    <2>3. d \in 0..N /\ ~Good(d) /\ d # 0
      BY <1>3, <2>2
    <2>4. d - 1 \in 0..N /\ d \in 1..N /\ ~(d <= d - 1)
      BY <2>3
    <2>5. Good(d - 1)
      BY <2>2, <2>4
    <2> QED BY <1>4, <2>3, <2>4, <2>5
  <1>6. Good(N)
    <2> HIDE DEF Good
    <2> QED BY <1>5
  <1>7. \A n \in C : r[n] >= N - N
    OBVIOUS
  <1> QED BY <1>1, <1>6, <1>7

LEMMA AcceptedIsForest ==
  ASSUME IInv, outcome = "accepted"
  PROVE  IsForest(Program)
  <1> DEFINE C == DOMAIN nodes
  <1>1. PICK p : p = Program /\ p.nodes = nodes /\ p.definitions = definitions
    <2>1. Program.nodes = nodes /\ Program.definitions = definitions
      BY DEF Program
    <2> QED BY <2>1
  <1>2. /\ \A n \in C : \/ n \in Items(definitions)
                        \/ \E m \in C : n \in Items(Children(p, m))
        /\ Items(definitions) \subseteq C
        /\ \A m \in C : /\ Items(Children(p, m)) \subseteq C
                        /\ Items(Children(p, m)) \cap Items(definitions) = {}
        /\ \A m, o \in C :
             Items(Children(p, m)) \cap Items(Children(p, o)) # {} => m = o
    BY <1>1, AcceptedHolders
  <1>3. Items(definitions) = Definitions(p) /\ NodeIds(p) = C
    BY <1>1 DEF Items, Definitions, NodeIds
  <1>4. PICK N : N = Len(nodes) /\ N \in Nat /\ C = 1..N
    BY MemoryFacts DEF IInv
  <1>5. Complete = C /\ Cardinality(C) = N
    <2>1. Cardinality(1..N) = N
      <3>1. \A b \in Int : Cardinality(1..b) = IF 1 > b THEN 0 ELSE b - 1 + 1
        BY FS_Interval
      <3> QED BY <1>4, <3>1
    <2>2. Complete = C
      BY AcceptedIsFinished
    <2> QED BY <1>4, <2>1, <2>2
  <1>6. Reached(p) = C
    <2>1. PICK r : \A n \in C : /\ r[n] \in 1..N
                                /\ \A m \in Items(Children(p, n)) : r[m] < r[n]
      <3>1. PICK r : \A n \in Complete : /\ r[n] \in 1..Cardinality(Complete)
                                          /\ \A m \in Items(Children(Program, n)) : r[m] < r[n]
        BY DEF IInv, RanksInv
      <3>2. \A n \in C : /\ r[n] \in 1..N
                         /\ \A m \in Items(Children(p, n)) : r[m] < r[n]
        BY <1>1, <1>5, <3>1
      <3> QED BY <3>2
    <2>2. \A n \in C : n \in Items(definitions)
                       \/ \E m \in C : n \in Items(Children(p, m)) /\ r[n] < r[m]
      BY <1>2, <2>1
    <2>3. PICK D, E : D = Definitions(p) /\ E = C
      OBVIOUS
    <2>4. /\ D \in SUBSET E /\ Len(p.nodes) = N /\ \A n \in E : r[n] \in 1..N
          /\ \A n \in E : n \in D \/ \E m \in E : n \in Items(Children(p, m)) /\ r[n] < r[m]
          /\ \A m \in E : Items(Children(p, m)) \subseteq E
      BY <1>1, <1>2, <1>3, <1>4, <2>1, <2>2, <2>3
    <2>5. Reached(p) = E
      BY <1>4, <2>3, <2>4, AllReached
    <2> QED BY <2>3, <2>5
  <1>7. \A n \in C : n \in Definitions(p) <=>
                       \A m \in C : \A k \in DOMAIN Children(p, m) : Children(p, m)[k] # n
    BY <1>2, <1>3 DEF Items
  <1>8. ASSUME NEW m1 \in C, NEW m2 \in C, NEW j \in DOMAIN Children(p, m1),
               NEW k \in DOMAIN Children(p, m2), Children(p, m1)[j] = Children(p, m2)[k]
        PROVE  m1 = m2 /\ j = k
    <2>1. m1 = m2
      BY <1>2, <1>8 DEF Items
    <2>2. Distinct(Children(p, m1))
      BY <1>1 DEF IInv, OwnersInv
    <2> QED BY <1>8, <2>1, <2>2 DEF Distinct
  <1>9. \A j, k \in DOMAIN p.definitions : p.definitions[j] = p.definitions[k] => j = k
    BY <1>1 DEF IInv, OwnersInv, Distinct
  <1>10. IsForest(p)
    BY <1>3, <1>6, <1>7, <1>8, <1>9 DEF IsForest
  <1> QED BY <1>1, <1>10

LEMMA AcceptedIsProgram ==
  ASSUME IInv, outcome = "accepted"
  PROVE  parsed = << >> /\ IsProgram(Program)
  <1>1. /\ parsed = << >> /\ Complete = DOMAIN nodes
        /\ \A n \in DOMAIN nodes : IsNode(Program, n)
    BY AcceptedIsFinished
  <1>2. IsForest(Program)
    BY AcceptedIsForest
  <1>3. Program.nodes = nodes /\ Program.definitions = definitions
    BY DEF Program
  <1>4. Program = [nodes |-> Program.nodes, definitions |-> Program.definitions]
    BY DEF Program
  <1>5. Len(nodes) \in Nat /\ DOMAIN nodes = 1..Len(nodes)
    BY MemoryFacts DEF IInv
  <1>6. definitions \in Seq(OfKind(Program, {"defn", "data"}))
    <2>1. \A k \in DOMAIN definitions : definitions[k] \in OfKind(Program, {"defn", "data"})
      BY <1>3 DEF IInv, CursorInv, OfKind, NodeIds
    <2> QED BY <2>1, SeqOfItems DEF IInv, CursorInv
  <1> QED BY <1>1, <1>2, <1>3, <1>4, <1>5, <1>6 DEF IsProgram, NodeIds

-----------------------------------------------------------------------------
(***************************************************************************)
(* TypeOK, for every input: the cursor of parse.cpp stays within it, every *)
(* node has the position of a token there is, and the number that an       *)
(* operator takes before its operands is still reserved when it is made.   *)
(***************************************************************************)
THEOREM ParserTypeOK == Spec => []TypeOK
  <1>1. ASSUME IInv
        PROVE  TypeOK
    <2>1. /\ it \in 1..(Len(tokens) + 1) /\ Len(tokens) \in Nat
          /\ DOMAIN tokens = 1..Len(tokens) /\ \A k \in DOMAIN tokens : IsToken(tokens[k])
          /\ outcome \in {"parsing", "accepted", "refused"}
          /\ IsSeq(positions) /\ IsSeq(nodes) /\ IsSeq(definitions)
          /\ Len(positions) = Len(nodes) /\ \A n \in DOMAIN nodes : positions[n] \in 1..(it - 1)
          /\ \A k \in DOMAIN definitions : definitions[k] \in DOMAIN nodes
      BY <1>1 DEF IInv, CursorInv, IsInput
    <2>2. DOMAIN positions = DOMAIN nodes
      BY <2>1, SeqOfElements
    <2>3. positions \in Seq(DOMAIN tokens)
      <3>1. 1..(it - 1) \subseteq DOMAIN tokens
        BY <2>1
      <3>2. \A n \in DOMAIN positions : positions[n] \in DOMAIN tokens
        BY <2>1, <2>2, <3>1
      <3> QED BY <2>1, <3>2, SeqOfItems
    <2>4. definitions \in Seq(DOMAIN nodes)
      BY <2>1, SeqOfItems
    <2>5. \A k \in DOMAIN work : work[k].do = "operator" => nodes[work[k].node] = Reserved
      BY <1>1 DEF IInv, OperatorsInv
    <2> QED BY <2>1, <2>2, <2>3, <2>4, <2>5 DEF TypeOK
  <1> QED BY <1>1, ParserInvariant, PTL

(***************************************************************************)
(* YieldsAProgram, for every input: what parse returns is a program as all *)
(* later phases take it, ProgramsAssumption of their models, and nothing   *)
(* that was parsed is left out of it.                                      *)
(***************************************************************************)
THEOREM ParserYieldsAProgram == Spec => []YieldsAProgram
  <1>1. IInv => YieldsAProgram
    BY AcceptedIsProgram DEF YieldsAProgram, Program
  <1> QED BY <1>1, ParserInvariant, PTL

(***************************************************************************)
(* PositionsPointAtTheNodes, for every input: what allocateNode records is *)
(* where the node is, also for the operators and the applications, which   *)
(* are made after what stands behind them was parsed.                      *)
(***************************************************************************)
THEOREM ParserPositions == Spec => []PositionsPointAtTheNodes
  <1>1. ASSUME IInv, outcome = "accepted", NEW n \in DOMAIN nodes
        PROVE  PointsAt(Memory, n)
    BY <1>1, AcceptedIsFinished
  <1>2. /\ Memory.nodes = nodes /\ Memory.tokens = tokens
        /\ Memory.positions = positions
    BY DEF Memory
  <1>3. IInv => PositionsPointAtTheNodes
    BY <1>1, <1>2 DEF PositionsPointAtTheNodes, PointsAt
  <1> QED BY <1>3, ParserInvariant, PTL

=============================================================================
