----------------------------- MODULE Unification -----------------------------
(***************************************************************************)
(* Unification of monomorphic types in TypeAnalyzer                        *)
(* (semantics/type_table.cpp): unify(actual, expected) walks the two types *)
(* with tryUnify, binding variables as it goes, and reports a mismatch;    *)
(* materialize asks for the concrete type of a TypeId.                     *)
(*                                                                         *)
(* The recursion of tryUnify is the stack todo, one step per call: the     *)
(* pair of parameters is on top of the pair of results, and a call that    *)
(* returns false drops everything below it, as && does.                    *)
(***************************************************************************)
EXTENDS TypeGraph

VARIABLES
  todo,       \* the pending calls of tryUnify, innermost first
  status,     \* "running", or what the call of unify that just ended returned
  diagnosed,  \* a diagnostic has been reported: ~result_.ok()
  request,    \* the arguments of that call of unify
  before      \* history: types when it was called

unification == <<types, todo, status, diagnosed, request, before>>

-----------------------------------------------------------------------------
(* resolve: every bound variable on the chain from i ends at the root. *)

Chain(g) ==
  LET chain[i \in Ids(g)] ==
        IF Bound(g, i) THEN {i} \cup chain[g[i].binding] ELSE {}
  IN  chain

(* The table after resolve has been called on each member of W. *)
Resolve(g, W) ==
  [i \in Ids(g) |-> IF Bound(g, i) /\ (\E w \in W : i \in Chain(g)[w])
                    THEN VarEntry(Root(g)[i]) ELSE g[i]]

(***************************************************************************)
(* occurs(v, t): the walk stops at the first place it meets v, so a result *)
(* is visited only if v was not found in the parameter.                    *)
(***************************************************************************)
OccursAtTop(g, v, t) == v = Root(g)[t]  \* faulty: does not look inside functions

Occurs(g, v, t) == v \in Reps(g)[t]

OccursVisits(g, v) ==
  LET visits[i \in Ids(g)] ==
        LET r == Root(g)[i] IN
        {i} \cup (IF r = v \/ ~IsFunction(g, r) THEN {}
                  ELSE visits[g[r].parameter]
                         \cup (IF Occurs(g, v, g[r].parameter) THEN {}
                               ELSE visits[g[r].result]))
  IN  visits

-----------------------------------------------------------------------------
UnificationInit ==
  /\ GraphInit
  /\ todo = << >> /\ status = "idle" /\ diagnosed = FALSE
  /\ request = << >> /\ before = << >>

(* The caller takes a step of its own: no call of unify is running. *)
Proceed ==
  /\ status # "running"
  /\ status' = "idle" /\ request' = << >> /\ before' = << >>
  /\ UNCHANGED todo

(* The caller calls unify, which calls tryUnify. *)
CallUnify(actual, expected) ==
  /\ status # "running"
  /\ status' = "running"
  /\ todo' = <<<<actual, expected>>>>
  /\ request' = <<actual, expected>>
  /\ before' = types'
  /\ UNCHANGED diagnosed

(* A call of tryUnify returns true; the last one to do so ends unify. *)
ReturnTrue ==
  /\ todo' = Tail(todo)
  /\ status' = IF Len(todo) = 1 THEN "unified" ELSE "running"
  /\ UNCHANGED <<diagnosed, request, before>>

(* Faulty: goes on with the pending calls after a failure. *)
ReturnFalseGoesOn ==
  /\ todo' = Tail(todo)
  /\ status' = "mismatch"
  /\ diagnosed' = TRUE
  /\ UNCHANGED <<request, before>>

(* It returns false: no pending call runs, and unify adds an error. *)
ReturnFalse ==
  /\ todo' = << >>
  /\ status' = "mismatch"
  /\ diagnosed' = TRUE
  /\ UNCHANGED <<request, before>>

(* Faulty: undoes the whole call when the occurs check fails. *)
BindVariableUndoes(p, v, t) ==
  LET g == Resolve(types, {p[1], p[2]} \cup OccursVisits(types, v)[t])
  IN  IF Occurs(types, v, t)
      THEN types' = before /\ ReturnFalse
      ELSE types' = [g EXCEPT ![v] = VarEntry(t)] /\ ReturnTrue

(***************************************************************************)
(* bindVariable(v, t), within the call of tryUnify on the pair p: both of  *)
(* p are resolved already.                                                 *)
(***************************************************************************)
BindVariable(p, v, t) ==
  LET g == Resolve(types, {p[1], p[2]} \cup OccursVisits(types, v)[t])
  IN  IF Occurs(types, v, t)
      THEN types' = g /\ ReturnFalse
      ELSE types' = [g EXCEPT ![v] = VarEntry(t)] /\ ReturnTrue

(* Faulty: two entries for Int do not match. *)
SameData(g, a, e) == g[a].kind = "data" /\ g[a] = g[e]

(* Entries that are equal without a recursive call. *)
SameLeaf(g, a, e) == /\ g[a].kind \in {"int", "data"}
                     /\ g[a] = g[e]

(* Faulty: the results are not compared; the call is made again. *)
ParametersOnly(a, e) == << <<types[a].parameter, types[e].parameter>> >>
SamePairAgain(a, e)  == << <<a, e>> >>

(* The calls that two function types lead to. *)
Components(a, e) == << <<types[a].parameter, types[e].parameter>>,
                       <<types[a].result, types[e].result>> >>

(* Faulty: the table is read without resolve. *)
Unresolved(g, i) == i

Resolved(g, i) == Root(g)[i]

TryUnify ==
  /\ status = "running"
  /\ LET p == Head(todo)
         a == Resolved(types, p[1])
         e == Resolved(types, p[2])
     IN  IF a # e /\ IsVar(types, a) THEN BindVariable(p, a, e)
         ELSE IF a # e /\ IsVar(types, e) THEN BindVariable(p, e, a)
         ELSE /\ types' = Resolve(types, {p[1], p[2]})
              /\ IF a = e \/ SameLeaf(types, a, e) THEN ReturnTrue
                 ELSE IF IsFunction(types, a) /\ IsFunction(types, e)
                 THEN /\ todo' = Components(a, e) \o Tail(todo)
                      /\ UNCHANGED <<status, diagnosed, request, before>>
                 ELSE ReturnFalse

(* materialize resolves every type it visits; it does not stop early. *)
MaterializeVisits(g) ==
  LET visits[i \in Ids(g)] ==
        LET r == Root(g)[i] IN
        {i} \cup (IF IsFunction(g, r)
                  THEN visits[g[r].parameter] \cup visits[g[r].result]
                  ELSE {})
  IN  visits

-----------------------------------------------------------------------------
(* The value materialize returns: a Type, or NoConcreteType for nullopt. *)

NoConcreteType == << >>

Materialized(g) ==
  LET type[i \in Ids(g)] ==
        CASE Bound(g, i)         -> type[g[i].binding]
          [] g[i].kind = "int"   -> <<"int">>
          [] g[i].kind = "data"  -> <<"data", g[i].symbol>>
          [] IsFunction(g, i)    ->
               IF NoConcreteType \in {type[g[i].parameter], type[g[i].result]}
               THEN NoConcreteType
               ELSE <<"function", type[g[i].parameter], type[g[i].result]>>
          [] OTHER               -> NoConcreteType
  IN  type

-----------------------------------------------------------------------------
(* What the entries denote, the reference the algorithm is compared with. *)

Unbound(g) == {i \in Ids(g) : IsVar(g, i) /\ ~Bound(g, i)}

(* The type that i denotes when each unbound variable v is instance[v]. *)
Denotes(g, instance) ==
  LET term[i \in Ids(g)] ==
        CASE Bound(g, i)         -> term[g[i].binding]
          [] i \in Unbound(g)    -> instance[i]
          [] g[i].kind = "int"   -> <<"int">>
          [] g[i].kind = "data"  -> <<"data", g[i].symbol>>
          [] IsFunction(g, i)    ->
               <<"function", term[g[i].parameter], term[g[i].result]>>
  IN  term

-----------------------------------------------------------------------------
(* The pending calls, of types that are there. *)
CallsOK ==
  /\ todo \in Seq(Ids(types) \X Ids(types))
  /\ status \in {"idle", "running", "unified", "mismatch"}
  /\ (status = "running") <=> (todo # << >>)
  /\ diagnosed \in BOOLEAN

(***************************************************************************)
(* When tryUnify returns true the two types are equal, whatever the        *)
(* variables left in them become later.                                    *)
(***************************************************************************)
Sound ==
  status = "unified" =>
    LET term == Denotes(types, [v \in Unbound(types) |-> <<"var", v>>])
    IN  term[request[1]] = term[request[2]]

(***************************************************************************)
(* Once materialize can answer with a concrete type for an id, no later    *)
(* step changes the answer: a signature read early is the one read at the  *)
(* end of the analysis.                                                    *)
(***************************************************************************)
ConcreteTypesAreFinal ==
  [][LET type == Materialized(types)
         next == Materialized(types')
     IN  \A i \in Ids(types) : type[i] # NoConcreteType => next[i] = type[i]]_types

(* Every call of unify returns. *)
UnifyReturns == status = "running" ~> status # "running"
==============================================================================
