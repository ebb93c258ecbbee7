-------------------------- MODULE UnificationCalls --------------------------
(***************************************************************************)
(* The type table under a caller that is left open: it makes types         *)
(* (makeInt, makeVariable, makeData, makeFunction), unifies any two of     *)
(* them and materializes any, in any order, and goes on after a mismatch.  *)
(***************************************************************************)
EXTENDS Unification

CONSTANTS
  DataSymbols,  \* SymbolIds of data types
  MaxTypes,     \* bound on types_.size()
  GroundTypes,  \* the types that variables are instantiated with in Complete
  TypeSize      \* how large each of them is

ASSUME CallsAssumption == DataSymbols \subseteq Nat /\ MaxTypes \in Nat

Leaves == {<<"int">>} \cup {<<"data", s>> : s \in DataSymbols}

(***************************************************************************)
(* The instances are finite types without variables, of any shape: a type  *)
(* with an arrow is larger than its two sides, which are there too.  The   *)
(* set of all finite types is one such set.                                *)
(***************************************************************************)
ASSUME GroundTypesAssumption ==
  /\ TypeSize \in [GroundTypes -> Nat]
  /\ \A t \in GroundTypes :
       \/ t \in Leaves
       \/ \E p, r \in GroundTypes : /\ t = <<"function", p, r>>
                                  /\ TypeSize[p] < TypeSize[t]
                                  /\ TypeSize[r] < TypeSize[t]

-----------------------------------------------------------------------------
(* makeType: the new id is the old size. *)
MakeType(e) ==
  /\ Proceed
  /\ Len(types) < MaxTypes
  /\ types' = Append(types, e)
  /\ UNCHANGED diagnosed

MakeInt      == MakeType(IntEntry)
MakeVariable == MakeType(VarEntry(NoType))
MakeData     == \E s \in DataSymbols : MakeType(DataEntry(s))
MakeFunction == \E p, r \in Ids(types) : MakeType(FunctionEntry(p, r))

Unify(actual, expected) == UNCHANGED types /\ CallUnify(actual, expected)

(* Faulty: a variable that is still free becomes Int. *)
MaterializeDefaultsToInt(i) ==
  /\ Proceed /\ UNCHANGED diagnosed
  /\ types' = [Resolve(types, MaterializeVisits(types)[i])
                EXCEPT ![Root(types)[i]] = IF IsVar(types, Root(types)[i])
                                           THEN IntEntry ELSE @]

Materialize(i) ==
  /\ Proceed /\ UNCHANGED diagnosed
  /\ types' = Resolve(types, MaterializeVisits(types)[i])

Next ==
  \/ MakeInt \/ MakeVariable \/ MakeData \/ MakeFunction
  \/ \E a, e \in Ids(types) : Unify(a, e)
  \/ TryUnify
  \/ \E i \in Ids(types) : Materialize(i)

(* The analyzer is sequential code: a call in progress keeps running. *)
Spec == UnificationInit /\ [][Next]_unification /\ WF_unification(TryUnify)

-----------------------------------------------------------------------------
(* The type invariant. *)
TypeOK == TypesOK /\ CallsOK

(***************************************************************************)
(* tryUnify loses no solution.  Any instance of the variables that makes   *)
(* the two types of the call equal respects the bindings made so far and   *)
(* solves the calls still pending; so a mismatch is reported only when     *)
(* there is none, and a success has bound no variable more than it had to. *)
(***************************************************************************)
Complete ==
  status # "idle" =>
    \A instance \in [Unbound(before) -> GroundTypes] :
      LET term == Denotes(before, instance) IN
      term[request[1]] = term[request[2]] =>
        /\ status # "mismatch"
        /\ \A p \in {todo[k] : k \in DOMAIN todo} : term[p[1]] = term[p[2]]
        /\ Denotes(types, instance) = term
==============================================================================
