------------------------------ MODULE Readings ------------------------------
(***************************************************************************)
(* What a sequence of tokens means by the grammar (docs/grammar.md),       *)
(* stated from the outside and without a cursor: an expression is split at *)
(* the last of its loosest operators that stands outside brackets, for     *)
(* operators associate to the left.  A reading is made of the nodes of     *)
(* Syntax, with readings in the place of their children.                   *)
(***************************************************************************)
EXTENDS Syntax, Tokens, SequencesExt

NoReading == [kind |-> "none"]
Starts    == {"int", "lower", "upper", "(", "case"}   \* of a primary

(* The nesting of each token; "case" and "of" enclose as brackets do, and  *)
(* the two ends of a bracket have the nesting of what is around it.        *)
Depths(s) ==
  LET opens(k)  == s[k].kind \in {"(", "{", "case"}
      closes(k) == s[k].kind \in {")", "}", "of"}
      after[k \in 0..Len(s)] ==
        IF k = 0 THEN 0
        ELSE after[k - 1] + (IF opens(k) THEN 1 ELSE IF closes(k) THEN -1 ELSE 0)
  IN  [k \in 1..Len(s) |-> IF opens(k) THEN after[k] - 1 ELSE after[k]]

Reading(s) ==
  LET depth == Depths(s)
      is(k, kind)      == k \in DOMAIN s /\ s[k].kind = kind
      level(i, j, K)   == {k \in i..j : s[k].kind \in K /\ depth[k] = depth[i]}
      first(S)         == CHOOSE k \in S : \A l \in S : k <= l
      last(S)          == CHOOSE k \in S : \A l \in S : k >= l
      all(i, j, kind)  == \A k \in i..j : s[k].kind = kind
      names(i, j)      == [k \in 1..(j - i + 1) |-> s[i + k - 1].name]
      whole(parts, x)  == IF NoReading \in ToSet(parts) THEN NoReading ELSE x

      (* i..j cut after each of the places; what is left over is no reading *)
      pieces(i, j, cuts, Read(_, _)) ==
        LET ends == SetToSortSeq(cuts, LAMBDA a, b : a < b)
        IN  IF cuts = {} \/ last(cuts) # j THEN <<NoReading>>
            ELSE [n \in DOMAIN ends |->
                    Read(IF n = 1 THEN i ELSE ends[n - 1] + 1, ends[n])]

      pattern(i, j) ==
        IF i = j /\ is(i, "lower") THEN VariablePattern(s[i].name)
        ELSE IF is(i, "upper") /\ all(i + 1, j, "lower")
        THEN ConstructorPattern(s[i].name, names(i + 1, j))
        ELSE NoReading

      constructor(i, j) ==       \* j is the comma or the brace after it
        IF i < j /\ all(i, j - 1, "upper")
        THEN Constructor(s[i].name, names(i + 1, j - 1)) ELSE NoReading

      RECURSIVE expression(_, _), branch(_, _), case(_, _)
      branch(i, j) ==
        LET arrow == level(i, j, {"->"})
            a     == first(arrow)
            parts == <<pattern(i, a - 1), expression(a + 2, j - 1)>>
        IN  IF arrow # {} /\ is(a + 1, "{") /\ i < a
            THEN whole(parts, Branch(parts[1], parts[2])) ELSE NoReading

      case(i, j) ==
        LET ofs   == level(i, j, {"of"})
            of    == first(ofs)
            inner == IF of + 2 > j - 1 THEN {} ELSE level(of + 2, j - 1, {"}"})
            parts == <<expression(i + 1, of - 1)>> \o pieces(of + 2, j - 1, inner, branch)
        IN  IF ofs # {} /\ is(of + 1, "{") /\ is(j, "}") /\ level(i, j, {"}"}) = {j}
            THEN whole(parts, CaseExpression(parts[1], Tail(parts))) ELSE NoReading

      expression(i, j) ==
        LET sums     == level(i, j, {"+", "-"})
            products == level(i, j, {"*", "/"})
            starts   == level(i, j, Starts) \ {i}
            at       == last(IF sums # {} THEN sums ELSE IF products # {} THEN products
                             ELSE starts)
            two(k, l, x(_, _)) ==
              LET parts == <<expression(i, k), expression(l, j)>>
              IN  whole(parts, x(parts[1], parts[2]))
        IN  IF sums \cup products # {}
            THEN two(at - 1, at + 1, LAMBDA l, r : BinaryOperator(s[at].kind, l, r))
            ELSE IF starts # {} THEN two(at - 1, at, Application)
            ELSE IF i = j /\ is(i, "int") THEN IntLiteral(s[i].value)
            ELSE IF i = j /\ (is(i, "lower") \/ is(i, "upper")) THEN Variable(s[i].name)
            ELSE IF i < j /\ is(i, "(") /\ is(j, ")") /\ depth[i] = depth[j]
            THEN expression(i + 1, j - 1)
            ELSE IF i < j /\ is(i, "case") THEN case(i, j) ELSE NoReading

      definition(i, j) ==
        LET named(kind) == is(i + 1, kind) /\ i + 1 < j
            equals == {k \in i..j : is(k, "=")}
            e      == first(equals)
            body   == expression(e + 2, j - 1)
            parts  == pieces(e + 2, j, level(e + 2, j - 1, {","}) \cup {j}, constructor)
        IN  IF equals = {} \/ ~is(e + 1, "{") \/ e + 2 >= j THEN NoReading
            ELSE IF is(i, "defn") /\ named("lower") /\ all(i + 2, e - 1, "lower")
            THEN whole(<<body>>, FunctionDefinition(s[i + 1].name, names(i + 2, e - 1), body))
            ELSE IF is(i, "data") /\ named("upper") /\ e = i + 2
            THEN whole(parts, DataTypeDefinition(s[i + 1].name, parts))
            ELSE NoReading

      program == IF s = << >> THEN << >>
                 ELSE pieces(1, Len(s), level(1, Len(s), {"}"}), definition)
  IN  whole(program, [kind |-> "program", definitions |-> program])

-----------------------------------------------------------------------------
(* The program that a reading is, with its nodes numbered. *)
Numbered(reading) ==
  LET RECURSIVE number(_, _), all(_, _)
      number(x, ns) ==             \* x numbered after ns: all nodes, and its own number
        LET made(s, y) == [nodes |-> Append(s.nodes, y), id |-> Len(s.nodes) + 1]
            one(y) == number(y, ns)
            two(y, z, Node(_, _)) ==
              LET fst == number(y, ns)  snd == number(z, fst.nodes)
              IN  made(snd, Node(fst.id, snd.id))
        IN  CASE x.kind = "operator" ->
                   LET l == one(x.left)
                       n == Len(l.nodes) + 1
                       r == number(x.right, Append(l.nodes, x))
                   IN  [nodes |-> [r.nodes EXCEPT ![n] = BinaryOperator(x.op, l.id, r.id)],
                        id |-> n]
              [] x.kind = "application" -> two(x.function, x.argument, Application)
              [] x.kind = "branch" -> two(x.pattern, x.body, Branch)
              [] x.kind = "case" ->
                   LET s == one(x.scrutinee)  bs == all(x.branches, s.nodes)
                   IN  made(bs, CaseExpression(s.id, bs.ids))
              [] x.kind = "defn" ->
                   LET b == one(x.body)
                   IN  made(b, FunctionDefinition(x.name, x.parameters, b.id))
              [] x.kind = "data" ->
                   LET cs == all(x.constructors, ns)
                   IN  made(cs, DataTypeDefinition(x.name, cs.ids))
              [] OTHER -> made([nodes |-> ns], x)
      all(xs, ns) ==
        IF xs = << >> THEN [nodes |-> ns, ids |-> << >>]
        ELSE LET x == number(Head(xs), ns)  rest == all(Tail(xs), x.nodes)
             IN  [nodes |-> rest.nodes, ids |-> <<x.id>> \o rest.ids]
      whole == all(reading.definitions, << >>)
  IN  [nodes |-> whole.nodes, definitions |-> whole.ids]

(* Texts for the model checker are written with a string for each token. *)
Words(text) ==
  [k \in DOMAIN text |->
     LET w == text[k]
     IN  IF w \in Symbols THEN Token(w)
         ELSE IF \E d \in 0..9 : w = ToString(d)
         THEN IntToken(CHOOSE d \in 0..9 : w = ToString(d))
         ELSE NameToken(IF w \in UpperNames THEN "upper" ELSE "lower", w)]

ProgramOf(text) == Numbered(Reading(Words(text)))
=============================================================================
