---------------------------- MODULE Interpreter -----------------------------
(***************************************************************************)
(* The interpreter (visitors/interpreter.cpp): a recursive evaluation that *)
(* copies the environment for each branch and knows no functions.  It is   *)
(* run on programs that both analyses accept; results are those of         *)
(* Evaluation, with PartialConstructor as Partial, and its exceptions are  *)
(* failures.  It computes in int, whose overflow is undefined behaviour:   *)
(* the failure "overflow" stands for anything that may happen then.        *)
(***************************************************************************)
EXTENDS Evaluation

CONSTANT MaxInt   \* the largest int

(* Faulty: rounds down. *)
Floored(op, l, r) ==
  IF op = "/" THEN (IF r = 0 THEN Failure("division") ELSE IntValue(l \div r))
  ELSE IntValue(Exactly(op, l, r))

ApplyBinaryOp(op, l, r) ==
  IF op = "/" /\ r = 0 THEN Failure("division")
  ELSE IF Exactly(op, l, r) \in (-MaxInt - 1)..MaxInt THEN IntValue(Exactly(op, l, r))
  ELSE Failure("overflow")

AsValue(r) == IF r.kind = "partial" THEN Failure("partial") ELSE r

(* matchPattern: whether the value fits, and then the bindings it adds to env. *)
MatchPattern(p, n, v) ==
  LET x == p.nodes[n]
  IN  \/ x.kind = "variable_pattern"
      \/ /\ x.kind = "constructor_pattern" /\ v.kind = "data"
         /\ p.nodes[v.constructor].name = x.name
         /\ Len(v.fields) = Len(x.arguments)

RECURSIVE Interpreted(_, _, _)

Interpreted(p, n, env) ==
  LET x == p.nodes[n]
      value(m) == AsValue(Interpreted(p, m, env))
  IN
  CASE x.kind = "int" -> IntValue(x.value)
    [] x.kind = "variable" ->
         LET m == Meaning(p, n, x.name)
             s == <<m.declaration, x.name>>
         IN  IF m.kind = "constructor"
             THEN IF Fields(p, m.declaration) = << >> THEN DataValue(m.declaration, << >>)
                  ELSE Partial(m, << >>)
             ELSE IF s \in DOMAIN env THEN env[s] ELSE Failure("unbound")
    [] x.kind = "operator" ->
         LET l == value(x.left)
             r == value(x.right)
         IN  IF Failed(l) THEN l ELSE IF l.kind # "int" THEN Failure("integer")
             ELSE IF Failed(r) THEN r ELSE IF r.kind # "int" THEN Failure("integer")
             ELSE ApplyBinaryOp(x.op, l.value, r.value)
    [] x.kind = "application" ->
         LET f == Interpreted(p, x.function, env)
             a == value(x.argument)
             applied == Append(f.given, a)
         IN  IF Failed(f) THEN f ELSE IF Failed(a) THEN a
             ELSE IF f.kind # "partial" THEN Failure("application")
             ELSE IF Len(applied) = Len(Fields(p, f.of.declaration))
             THEN DataValue(f.of.declaration, applied)
             ELSE Partial(f.of, applied)
    [] x.kind = "case" ->
         LET s == value(x.scrutinee)
             branch(k) == p.nodes[x.branches[k]]
             fit == {k \in DOMAIN x.branches : MatchPattern(p, branch(k).pattern, s)}
             k == CHOOSE k \in fit : \A j \in fit : k <= j
         IN  IF Failed(s) THEN s ELSE IF fit = {} THEN Failure("no_branch")
             ELSE Interpreted(p, branch(k).body, Merge(env, Bound(p, branch(k).pattern, s)))

Interpret(p) ==
  IF MainOf(p) = {} THEN Failure("no_main")
  ELSE AsValue(Interpreted(p, p.nodes[CHOOSE d \in MainOf(p) : TRUE].body, << >>))
=============================================================================
