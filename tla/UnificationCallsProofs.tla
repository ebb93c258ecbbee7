------------------------ MODULE UnificationCallsProofs ------------------------
(***************************************************************************)
(* Unification under any caller implements TypeGraph: each action extends  *)
(* the table, only compresses paths, or binds a variable to a type it does *)
(* not occur in.  What UnificationProofs shows of the abstract table then  *)
(* holds of types_, for any number of types and of data symbols, and so    *)
(* does what it shows of single steps: soundness and completeness.         *)
(***************************************************************************)
EXTENDS UnificationCalls, UnificationProofs

(* makeType extends the table, whichever entry it adds. *)
LEMMA MakeTypeExtends ==
  ASSUME UnificationInv, NEW e \in Entry, MakeType(e),
         e.kind = "var" => e.binding = NoType,
         e.kind = "function" => {e.parameter, e.result} \subseteq Ids(types)
  PROVE  Grow
  <1>1. types \in Seq(Entry) /\ types' = Append(types, e)
    BY DEF UnificationInv, WellFormed, MakeType
  <1>2. /\ types' \in Seq(Entry) /\ Len(types') = Len(types) + 1
        /\ types'[Len(types) + 1] = e /\ \A i \in Ids(types) : types'[i] = types[i]
    BY <1>1 DEF Ids
  <1>3. \A i \in Ids(types') \ Ids(types) : i = Len(types) + 1
    BY <1>1, <1>2 DEF Ids
  <1>4. FreshEntry(types', Len(types) + 1)
    BY <1>1, <1>2 DEF FreshEntry, Bound, IsVar, IsFunction, Ids
  <1>5. Len(types) < Len(types')
    BY <1>1, <1>2
  <1> QED BY <1>2, <1>3, <1>4, <1>5 DEF Grow, Extends

(* Every step of Next is a step of the abstract table or a stutter. *)
LEMMA StepIsGraphStep ==
  ASSUME UnificationInv, [Next]_unification
  PROVE  [GraphNext]_types
  <1>1. CASE MakeInt \/ MakeVariable
    <2>1. IntEntry \in Entry /\ VarEntry(NoType) \in Entry
      BY DEF IntEntry, VarEntry, NoType, Entry
    <2>2. IntEntry.kind = "int" /\ VarEntry(NoType) = [kind |-> "var", binding |-> NoType]
      BY DEF IntEntry, VarEntry
    <2> QED BY <1>1, <2>1, <2>2, MakeTypeExtends DEF MakeInt, MakeVariable, GraphNext
  <1>2. ASSUME NEW s \in DataSymbols, MakeType(DataEntry(s))
        PROVE  GraphNext
    <2>1. DataEntry(s) \in Entry /\ DataEntry(s).kind = "data"
      BY CallsAssumption DEF DataEntry, Entry
    <2> QED BY <1>2, <2>1, MakeTypeExtends DEF GraphNext
  <1>3. ASSUME NEW p \in Ids(types), NEW r \in Ids(types), MakeType(FunctionEntry(p, r))
        PROVE  GraphNext
    <2>1. /\ FunctionEntry(p, r) \in Entry
          /\ FunctionEntry(p, r) = [kind |-> "function", parameter |-> p, result |-> r]
      BY DEF FunctionEntry, Entry, Ids, UnificationInv, WellFormed
    <2> QED BY <1>3, <2>1, MakeTypeExtends DEF GraphNext
  <1>4. ASSUME NEW a \in Ids(types), NEW e \in Ids(types), Unify(a, e)
        PROVE  UNCHANGED types
    BY <1>4 DEF Unify
  <1>5. CASE TryUnify
    BY <1>5, TryUnifyIsGraphStep
  <1>6. ASSUME NEW i \in Ids(types), Materialize(i)
        PROVE  GraphNext
    BY <1>6, ResolveRedirects DEF Materialize, UnificationInv, Compress, GraphNext
  <1>7. CASE UNCHANGED unification
    BY <1>7 DEF unification
  <1> QED BY <1>1, <1>2, <1>3, <1>4, <1>5, <1>6, <1>7
          DEF Next, MakeData, MakeFunction

(* The invariant is inductive. *)
LEMMA UnificationInvariant == Spec => []UnificationInv
  <1>1. UnificationInit => UnificationInv
    <2> SUFFICES ASSUME UnificationInit PROVE UnificationInv
      OBVIOUS
    <2>1. WellFormed(types)
      BY EmptyWellFormed DEF UnificationInit, GraphInit
    <2>2. diagnosed \in BOOLEAN
      BY Zenon DEF UnificationInit
    <2> QED BY <2>1, <2>2 DEF UnificationInit, UnificationInv, CallsOK
  <1>2. UnificationInv /\ [Next]_unification => UnificationInv'
    <2> SUFFICES ASSUME UnificationInv, [Next]_unification PROVE UnificationInv'
      OBVIOUS
    <2>1. WellFormed(types') /\ Ids(types) \subseteq Ids(types')
      BY StepIsGraphStep, GraphStep DEF UnificationInv
    <2>2. CASE MakeInt \/ MakeVariable \/ MakeData \/ MakeFunction
      <3>1. Proceed /\ diagnosed' = diagnosed
        BY <2>2 DEF MakeInt, MakeVariable, MakeData, MakeFunction, MakeType
      <3> QED BY <2>1, <3>1, ProceedKeepsCalls DEF UnificationInv, CallsOK
    <2>3. ASSUME NEW a \in Ids(types), NEW e \in Ids(types), Unify(a, e)
          PROVE  UnificationInv'
      BY <2>1, <2>3, CallUnifyKeepsCalls DEF Unify, UnificationInv
    <2>4. CASE TryUnify
      BY <2>4, TryUnifyKeepsCalls
    <2>5. ASSUME NEW i \in Ids(types), Materialize(i)
          PROVE  UnificationInv'
      BY <2>1, <2>5, ProceedKeepsCalls DEF Materialize, UnificationInv, CallsOK
    <2>6. CASE UNCHANGED unification
      BY <2>1, <2>6 DEF unification, UnificationInv, CallsOK
    <2> QED BY <2>2, <2>3, <2>4, <2>5, <2>6 DEF Next
  <1> QED BY <1>1, <1>2, PTL DEF Spec

-----------------------------------------------------------------------------
(***************************************************************************)
(* The type invariant: every id in an entry or a pending call is in range, *)
(* and tryUnify is running exactly when calls of it are pending.           *)
(***************************************************************************)
THEOREM UnificationTypeOK == Spec => []TypeOK
  <1>1. UnificationInv => TypeOK
    BY DEF UnificationInv, TypeOK, TypesOK, WellFormed, InRange
  <1> QED BY <1>1, UnificationInvariant, PTL

(***************************************************************************)
(* Whatever is made, unified and materialized, in whatever order, types_   *)
(* changes only as the abstract table may.                                 *)
(***************************************************************************)
THEOREM UnificationRefinesGraph == Spec => GraphSpec
  <1>1. UnificationInit => GraphInit
    BY DEF UnificationInit
  <1>2. UnificationInv /\ [Next]_unification => [GraphNext]_types
    BY StepIsGraphStep
  <1> QED BY <1>1, <1>2, UnificationInvariant, PTL DEF Spec, GraphSpec

(* No sequence of calls, failed ones included, makes a cyclic type. *)
THEOREM UnificationAcyclic == Spec => []Acyclic
  BY UnificationRefinesGraph, GraphSafety, PTL

(* No step separates two types that an earlier call has merged. *)
THEOREM UnificationMerging == Spec => MergedStayMerged
  BY UnificationRefinesGraph, GraphMerging, PTL

(***************************************************************************)
(* No later call changes a type that materialize can answer with, for any  *)
(* number of types: a signature may be read as soon as it is concrete.     *)
(***************************************************************************)
THEOREM UnificationKeepsConcreteTypes == Spec => ConcreteTypesAreFinal
  BY UnificationRefinesGraph, GraphKeepsConcreteTypes, PTL

-----------------------------------------------------------------------------
(* A step of the caller ends the call of unify that it was told about. *)
LEMMA ProceedForgets ==
  ASSUME NEW T, Proceed
  PROVE  SoundInv' /\ CompleteInv(T)'
  BY DEF Proceed, SoundInv, CompleteInv

LEMMA SoundInvariant == Spec => []SoundInv
  <1>1. UnificationInit => SoundInv
    BY DEF UnificationInit, SoundInv
  <1>2. UnificationInv /\ UnificationInv' /\ SoundInv /\ [Next]_unification => SoundInv'
    <2> SUFFICES ASSUME UnificationInv, UnificationInv', SoundInv, [Next]_unification
                 PROVE  SoundInv'
      OBVIOUS
    <2>1. CASE Proceed
      BY <2>1, ProceedForgets
    <2>2. ASSUME NEW a \in Ids(types), NEW e \in Ids(types), Unify(a, e)
          PROVE  SoundInv'
      BY <2>2, CallUnifyKeepsSoundInv DEF Unify
    <2>3. CASE TryUnify
      BY <2>3, TryUnifyKeepsSoundInv
    <2>4. CASE UNCHANGED unification
      BY <2>4 DEF unification, SoundInv
    <2> QED BY <2>1, <2>2, <2>3, <2>4
            DEF Next, MakeInt, MakeVariable, MakeData, MakeFunction, MakeType, Materialize
  <1> QED BY <1>1, <1>2, UnificationInvariant, PTL DEF Spec

(***************************************************************************)
(* Unification is correct, for any table and any two types: when tryUnify  *)
(* returns true the types are equal under every instance of the variables  *)
(* left, and so under the one that leaves each variable as it is.          *)
(***************************************************************************)
THEOREM UnificationSound == Spec => []Sound
  <1>1. UnificationInv /\ SoundInv => Sound
    BY SoundAtTheEnd
  <1> QED BY <1>1, UnificationInvariant, SoundInvariant, PTL

(* The instances of Complete are finite types, as UnificationProofs has them. *)
LEMMA GroundTypesAreFinite == FiniteTypes(GroundTypes, TypeSize)
  <1> SUFFICES ASSUME NEW x, NEW y, <<"function", x, y>> \in GroundTypes
               PROVE  /\ x \in GroundTypes /\ TypeSize[x] < TypeSize[<<"function", x, y>>]
                      /\ y \in GroundTypes /\ TypeSize[y] < TypeSize[<<"function", x, y>>]
    BY GroundTypesAssumption DEF FiniteTypes
  <1>1. <<"function", x, y>> \notin Leaves
    BY DEF Leaves
  <1>2. PICK p \in GroundTypes, r \in GroundTypes :
          /\ <<"function", x, y>> = <<"function", p, r>>
          /\ TypeSize[p] < TypeSize[<<"function", x, y>>]
          /\ TypeSize[r] < TypeSize[<<"function", x, y>>]
    BY <1>1, GroundTypesAssumption
  <1>3. x = p /\ y = r
    BY <1>2
  <1> QED BY <1>2, <1>3

LEMMA CompleteInvariant == Spec => []CompleteInv(GroundTypes)
  <1>1. UnificationInit => CompleteInv(GroundTypes)
    BY DEF UnificationInit, CompleteInv
  <1>2. UnificationInv /\ UnificationInv' /\ CompleteInv(GroundTypes)
          /\ [Next]_unification => CompleteInv(GroundTypes)'
    <2> SUFFICES ASSUME UnificationInv, UnificationInv', CompleteInv(GroundTypes),
                        [Next]_unification
                 PROVE  CompleteInv(GroundTypes)'
      OBVIOUS
    <2>1. CASE Proceed
      BY <2>1, ProceedForgets
    <2>2. ASSUME NEW a \in Ids(types), NEW e \in Ids(types), Unify(a, e)
          PROVE  CompleteInv(GroundTypes)'
      BY <2>2, CallUnifyKeepsCompleteInv DEF Unify, UnificationInv
    <2>3. CASE TryUnify
      BY <2>3, GroundTypesAreFinite, TryUnifyKeepsCompleteInv
    <2>4. CASE UNCHANGED unification
      BY <2>4 DEF unification, CompleteInv
    <2> QED BY <2>1, <2>2, <2>3, <2>4
            DEF Next, MakeInt, MakeVariable, MakeData, MakeFunction, MakeType, Materialize
  <1> QED BY <1>1, <1>2, UnificationInvariant, PTL DEF Spec

(***************************************************************************)
(* Unification loses no solution, for any table and any two types: what    *)
(* makes the two types equal respects every binding made and solves every  *)
(* call pending, so a mismatch is reported only when nothing does.  The    *)
(* instances may be the set of all finite types, curried and of any order, *)
(* because all that is assumed of them is that none contains itself.       *)
(***************************************************************************)
THEOREM UnificationComplete == Spec => []Complete
  <1>1. UnificationInv /\ CompleteInv(GroundTypes) => Complete
    BY CompleteAtAnyTime DEF Complete
  <1> QED BY <1>1, UnificationInvariant, CompleteInvariant, PTL
==============================================================================
