----------------------------- MODULE Evaluation -----------------------------
(***************************************************************************)
(* What an MF program means: evaluation from the left, arguments before    *)
(* the call, the first branch that matches.  The reference that the        *)
(* generated code is compared with.  Functions and constructors take one   *)
(* argument after the other.  Int is a machine word of WordBits bits; a    *)
(* call may nest MaxDepth deep in others.                                  *)
(***************************************************************************)
EXTENDS Typing, LlvmIr

CONSTANTS WordBits, MaxDepth

Wrapped(x) == LET size == 2^WordBits IN ((x + size \div 2) % size) - (size \div 2)

IntValue(i)       == [kind |-> "int", value |-> i]
DataValue(c, fs)  == [kind |-> "data", constructor |-> c, fields |-> fs]
Partial(m, given) == [kind |-> "partial", of |-> m, given |-> given]
Failure(why)      == [kind |-> "failure", why |-> why]
Failed(r)         == r.kind = "failure"

(* l op r with the digits that an integer has; both kinds of evaluation share it. *)
Exactly(op, l, r) ==
  CASE op = "+" -> l + r [] op = "-" -> l - r [] op = "*" -> l * r
    [] op = "/" -> Quotient(l, r)

Computed(op, l, r) ==
  IF op = "/" /\ (r = 0 \/ Wrapped(Quotient(l, r)) # Quotient(l, r))
  THEN Failure("division") ELSE IntValue(Wrapped(Exactly(op, l, r)))

(* The arguments that m takes. *)
Takes(p, m) ==
  IF m.kind = "function" THEN Len(p.nodes[m.declaration].parameters)
  ELSE Len(Fields(p, m.declaration))

Matches(p, n, v) ==
  p.nodes[n].kind = "variable_pattern"
    \/ v.constructor = Global(p, p.nodes[n].name).declaration

Bound(p, n, v) ==
  LET x == p.nodes[n]
  IN  IF x.kind = "variable_pattern" THEN [s \in {<<n, x.name>>} |-> v]
      ELSE [s \in {<<n, x.arguments[k]>> : k \in DOMAIN x.arguments} |->
              v.fields[IndexOf(x.arguments, s[2])]]

Merge(env, more) ==
  [s \in DOMAIN env \cup DOMAIN more |-> IF s \in DOMAIN more THEN more[s] ELSE env[s]]

RECURSIVE Evaluate(_, _, _, _)

(* m with the arguments it has been given, called as soon as it has all. *)
Applied(p, m, given, depth) ==
  LET d == m.declaration
      ps == p.nodes[d].parameters
  IN  IF Len(given) < Takes(p, m) THEN Partial(m, given)
      ELSE IF m.kind = "constructor" THEN DataValue(d, given)
      ELSE IF depth = MaxDepth THEN Failure("depth")
      ELSE Evaluate(p, p.nodes[d].body,
                    [s \in {<<d, ps[k]>> : k \in DOMAIN ps} |-> given[IndexOf(ps, s[2])]],
                    depth + 1)

Evaluate(p, n, env, depth) ==
  LET x == p.nodes[n]
      value(m) == Evaluate(p, m, env, depth)
      both(a, b, Use(_, _)) ==
        LET l == value(a)
            r == value(b)
        IN  IF Failed(l) THEN l ELSE IF Failed(r) THEN r ELSE Use(l, r)
  IN
  CASE x.kind = "int" -> IntValue(x.value)
    [] x.kind = "variable" ->
         LET m == Meaning(p, n, x.name)
         IN  IF m.kind \in {"function", "constructor"} THEN Applied(p, m, << >>, depth)
             ELSE env[<<m.declaration, x.name>>]
    [] x.kind = "operator" ->
         both(x.left, x.right, LAMBDA l, r : Computed(x.op, l.value, r.value))
    [] x.kind = "application" ->
         both(x.function, x.argument,
              LAMBDA f, a : Applied(p, f.of, Append(f.given, a), depth))
    [] x.kind = "case" ->
         LET s == value(x.scrutinee)
             branch(k) == p.nodes[x.branches[k]]
             fit == {k \in DOMAIN x.branches : Matches(p, branch(k).pattern, s)}
             k == CHOOSE k \in fit : \A j \in fit : k <= j
         IN  IF Failed(s) THEN s ELSE IF fit = {} THEN Failure("no_branch")
             ELSE Evaluate(p, branch(k).body,
                           Merge(env, Bound(p, branch(k).pattern, s)), depth)

MainOf(p) == {d \in OfKind(p, {"defn"}) : p.nodes[d].name = "main"}

(* What main evaluates to. *)
Evaluated(p) == Evaluate(p, p.nodes[CHOOSE d \in MainOf(p) : TRUE].body, << >>, 0)
=============================================================================
