--------------------------- MODULE LexicalScoping ---------------------------
(***************************************************************************)
(* What names mean in an MF program, stated on the tree alone: the         *)
(* reference that the analyzer of symbol_table.cpp is compared with.       *)
(***************************************************************************)
EXTENDS Syntax

None == [kind |-> "none", declaration |-> NoNode]

Parent(p, n) ==
  LET above == {m \in NodeIds(p) : \E k \in DOMAIN Children(p, m) :
                                      Children(p, m)[k] = n}
  IN  IF above = {} THEN NoNode ELSE CHOOSE m \in above : TRUE

(***************************************************************************)
(* Globals.  The k-th definition declares its own name at <<k, 0>> and its *)
(* j-th constructor at <<k, j>>; the earliest declaration of a name is the *)
(* one that counts.                                                        *)
(***************************************************************************)
ConstructorsOf(p, d) ==
  IF p.nodes[d].kind = "data" THEN p.nodes[d].constructors ELSE << >>

GlobalPlaces(p) ==
  UNION {{<<k, j>> : j \in 0..Len(ConstructorsOf(p, p.definitions[k]))} :
           k \in DOMAIN p.definitions}

DeclaredAt(p, place) ==
  IF place[2] = 0 THEN p.definitions[place[1]]
  ELSE ConstructorsOf(p, p.definitions[place[1]])[place[2]]

Before(a, b) == a[1] < b[1] \/ (a[1] = b[1] /\ a[2] < b[2])

Global(p, name) ==
  LET places == {w \in GlobalPlaces(p) : p.nodes[DeclaredAt(p, w)].name = name}
      first  == CHOOSE w \in places : \A v \in places : v = w \/ Before(w, v)
      node   == DeclaredAt(p, first)
      kind   == p.nodes[node].kind
  IN  IF name = "Int" THEN [kind |-> "builtin", declaration |-> NoNode]
      ELSE IF places = {} THEN None
      ELSE [kind |-> IF kind = "defn" THEN "function" ELSE kind,
            declaration |-> node]

(* The names a node declares for the expressions below it. *)
PatternNames(p, n) ==
  LET x == p.nodes[n]
  IN  IF x.kind = "variable_pattern" THEN <<x.name>> ELSE x.arguments

LocalNames(p, n) ==
  CASE p.nodes[n].kind = "defn"   -> p.nodes[n].parameters
    [] p.nodes[n].kind = "branch" -> PatternNames(p, p.nodes[n].pattern)
    [] OTHER                      -> << >>

Local(p, n) ==
  IF p.nodes[n].kind = "defn" THEN [kind |-> "parameter", declaration |-> n]
  ELSE [kind |-> "pattern_variable", declaration |-> p.nodes[n].pattern]

(* The innermost declaration of name around node n. *)
Meaning(p, n, name) ==
  LET find[m \in NoNode..Len(p.nodes)] ==
        IF m = NoNode THEN Global(p, name)
        ELSE IF \E k \in DOMAIN LocalNames(p, m) : LocalNames(p, m)[k] = name
        THEN Local(p, m)
        ELSE find[Parent(p, m)]
  IN  find[n]

(* What the names of all variables and constructor patterns mean. *)
Resolution(p) ==
  [n \in OfKind(p, {"variable", "constructor_pattern"}) |->
     IF p.nodes[n].kind = "variable" THEN Meaning(p, n, p.nodes[n].name)
     ELSE Global(p, p.nodes[n].name)]

(* An upper-case name must be a constructor, a lower-case one a value. *)
Usable(name, meaning) ==
  meaning.kind \in (IF name \in UpperNames THEN {"constructor"}
                    ELSE {"function", "parameter", "pattern_variable"})

(* The node whose scope n belongs to; NoNode is the global scope. *)
Encloser(p, n) ==
  LET find[m \in NoNode..Len(p.nodes)] ==
        IF m = NoNode \/ p.nodes[m].kind \in {"defn", "branch"} THEN m
        ELSE find[Parent(p, m)]
  IN  find[n]

NoRepeats(seq) == \A j, k \in DOMAIN seq : seq[j] = seq[k] => j = k

WellScoped(p) ==
  /\ \A w \in GlobalPlaces(p) :
       LET n == DeclaredAt(p, w) IN Global(p, p.nodes[n].name).declaration = n
  /\ \A n \in NodeIds(p) : NoRepeats(LocalNames(p, n))
  /\ \A n \in OfKind(p, {"variable"}) :
       Usable(p.nodes[n].name, Meaning(p, n, p.nodes[n].name))
  /\ \A n \in OfKind(p, {"constructor_pattern"}) :
       Global(p, p.nodes[n].name).kind = "constructor"
=============================================================================
