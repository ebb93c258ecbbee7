-------------------------- MODULE UnificationProofs --------------------------
(***************************************************************************)
(* The table of types, and unification on it, whoever calls it.            *)
(*                                                                         *)
(* First the abstract table of TypeGraph: it is always well formed, has no *)
(* cycles and never separates merged types.  The recursive functions Root  *)
(* and Reps are defined only on acyclic tables, so the invariant carries   *)
(* their existence along: each kind of step is shown to keep the table     *)
(* acyclic and to have a Root and a Reps, which are the old ones or are    *)
(* read off them.                                                          *)
(*                                                                         *)
(* Then unification: its steps are steps of that table, and keep the       *)
(* pending calls well formed.  They keep the solutions of the pending      *)
(* calls, unless they fail, and then there are none; so a call of unify is *)
(* sound and complete.  And they leave concrete types as they are.         *)
(***************************************************************************)
EXTENDS Unification, TLAPS, WellFoundedInduction, SequenceTheorems

(* A nonempty set of natural numbers has a least one. *)
LEMMA LeastElement ==
  ASSUME NEW S \in SUBSET Nat, S # {}
  PROVE  \E i \in S : \A j \in S : i <= j
  <1>1. PICK i \in S : \A j \in S : ~(<<j, i>> \in OpToRel(<, Nat))
    BY NatLessThanWellFounded, WFMin
  <1>2. \A j \in S : ~(j < i)
    BY <1>1 DEF OpToRel
  <1> QED BY <1>2

-----------------------------------------------------------------------------
(* r satisfies the recursive definition of Root, of Reps. *)
IsRootOf(g, r) ==
  r = [i \in Ids(g) |-> IF Bound(g, i) THEN r[g[i].binding] ELSE i]

IsRepsOf(g, r) ==
  r = [i \in Ids(g) |->
         IF Bound(g, i) THEN r[g[i].binding]
         ELSE IF IsFunction(g, i)
              THEN {i} \cup r[g[i].parameter] \cup r[g[i].result]
              ELSE {i}]

(* The three cases of that definition. *)
UnfoldsReps(g, r) ==
  \A i \in Ids(g) :
    /\ Bound(g, i) => r[i] = r[g[i].binding]
    /\ ~Bound(g, i) /\ IsFunction(g, i) =>
         r[i] = {i} \cup r[g[i].parameter] \cup r[g[i].result]
    /\ ~Bound(g, i) /\ ~IsFunction(g, i) => r[i] = {i}

(* Entries refer to entries of the table. *)
InRange(g) == \A i \in Ids(g) : Succ(g, i) \subseteq Ids(g)

(* The invariant. *)
WellFormed(g) ==
  /\ g \in Seq(Entry)
  /\ InRange(g)
  /\ AcyclicGraph(g)
  /\ \E r : IsRootOf(g, r)
  /\ \E r : IsRepsOf(g, r)

-----------------------------------------------------------------------------
(***************************************************************************)
(* Induction over an acyclic table: a set that has an entry as soon as it  *)
(* has what the entry refers to has every entry.                           *)
(***************************************************************************)
LEMMA GraphInduction ==
  ASSUME NEW g, InRange(g), AcyclicGraph(g), NEW S,
         \A i \in Ids(g) : Succ(g, i) \subseteq S => i \in S
  PROVE  Ids(g) \subseteq S
  <1> DEFINE T == Ids(g) \ S
  <1>1. SUFFICES ASSUME T # {} PROVE FALSE
    OBVIOUS
  <1>2. PICK i \in T : Succ(g, i) \cap T = {}
    BY <1>1 DEF AcyclicGraph
  <1> QED BY <1>2 DEF InRange

(***************************************************************************)
(* Root is a function that satisfies its recursive definition, if there is *)
(* one.                                                                    *)
(***************************************************************************)
LEMMA RootDef ==
  ASSUME NEW g, NEW r, IsRootOf(g, r)
  PROVE  IsRootOf(g, Root(g))
  <1>1. \E q : q = [i \in Ids(g) |-> IF Bound(g, i) THEN q[g[i].binding] ELSE i]
    BY DEF IsRootOf
  <1> QED BY <1>1, Zenon DEF IsRootOf, Root

(* The same for Reps. *)
LEMMA RepsDef ==
  ASSUME NEW g, NEW r, IsRepsOf(g, r)
  PROVE  IsRepsOf(g, Reps(g))
  <1>1. \E q : q = [i \in Ids(g) |->
         IF Bound(g, i) THEN q[g[i].binding]
         ELSE IF IsFunction(g, i)
              THEN {i} \cup q[g[i].parameter] \cup q[g[i].result]
              ELSE {i}]
    BY SMTT(30), Zenon DEF IsRepsOf
  <1> QED BY <1>1, Zenon DEF IsRepsOf, Reps

(* The recursive definition of Reps, one case at a time. *)
LEMMA RepsUnfold ==
  ASSUME NEW g, NEW r, IsRepsOf(g, r)
  PROVE  UnfoldsReps(g, r)
  BY DEF IsRepsOf, UnfoldsReps

(***************************************************************************)
(* A chain of bound variables ends, at an entry that is not bound, and     *)
(* every entry of the chain ends there.                                    *)
(***************************************************************************)
LEMMA RootFacts ==
  ASSUME NEW g, WellFormed(g)
  PROVE  /\ Root(g) \in [Ids(g) -> Ids(g)]
         /\ \A i \in Ids(g) :
              /\ ~Bound(g, Root(g)[i])
              /\ Root(g)[i] = IF Bound(g, i) THEN Root(g)[g[i].binding] ELSE i
              /\ Root(g)[Root(g)[i]] = Root(g)[i]
  <1>1. IsRootOf(g, Root(g))
    BY RootDef DEF WellFormed
  <1>2. \A i \in Ids(g) :
          Root(g)[i] = IF Bound(g, i) THEN Root(g)[g[i].binding] ELSE i
    BY <1>1 DEF IsRootOf
  <1> DEFINE S == {i \in Ids(g) : Root(g)[i] \in Ids(g) /\ ~Bound(g, Root(g)[i])}
  <1>3. Ids(g) \subseteq S
    <2>1. ASSUME NEW i \in Ids(g), Succ(g, i) \subseteq S PROVE i \in S
      BY <1>2, <2>1 DEF Succ
    <2> HIDE DEF S
    <2> QED BY <2>1, GraphInduction DEF WellFormed
  <1>4. DOMAIN Root(g) = Ids(g) /\ Root(g) = [i \in Ids(g) |-> Root(g)[i]]
    BY <1>1 DEF IsRootOf
  <1> QED BY <1>2, <1>3, <1>4

(* Reps of a bound variable is Reps of its root. *)
LEMMA RepsFacts ==
  ASSUME NEW g, WellFormed(g)
  PROVE  /\ Reps(g) \in [Ids(g) -> SUBSET Ids(g)]
         /\ UnfoldsReps(g, Reps(g))
         /\ \A i \in Ids(g) : Reps(g)[Root(g)[i]] = Reps(g)[i]
  <1>1. IsRepsOf(g, Reps(g))
    BY RepsDef DEF WellFormed
  <1>2. UnfoldsReps(g, Reps(g))
    BY <1>1, RepsUnfold
  <1> DEFINE S == {i \in Ids(g) : /\ Reps(g)[i] \in SUBSET Ids(g)
                                  /\ Reps(g)[Root(g)[i]] = Reps(g)[i]}
  <1>3. Ids(g) \subseteq S
    <2>1. ASSUME NEW i \in Ids(g), Succ(g, i) \subseteq S PROVE i \in S
      <3>1. CASE Bound(g, i)
        BY <1>2, <2>1, <3>1, RootFacts DEF Succ, UnfoldsReps
      <3>2. CASE ~Bound(g, i) /\ IsFunction(g, i)
        BY <1>2, <2>1, <3>2, RootFacts DEF Succ, UnfoldsReps
      <3>3. CASE ~Bound(g, i) /\ ~IsFunction(g, i)
        BY <1>2, <2>1, <3>3, RootFacts DEF Succ, UnfoldsReps
      <3> QED BY <3>1, <3>2, <3>3
    <2> HIDE DEF S
    <2> QED BY <2>1, GraphInduction DEF WellFormed
  <1>4. Reps(g) = [i \in Ids(g) |-> Reps(g)[i]]
    BY <1>1 DEF IsRepsOf
  <1> QED BY <1>2, <1>3, <1>4

(* Only one function satisfies the recursive definition of Root. *)
LEMMA RootUnique ==
  ASSUME NEW g, WellFormed(g), NEW r, IsRootOf(g, r)
  PROVE  Root(g) = r
  <1>1. \A i \in Ids(g) : r[i] = IF Bound(g, i) THEN r[g[i].binding] ELSE i
    BY DEF IsRootOf
  <1> DEFINE S == {i \in Ids(g) : Root(g)[i] = r[i]}
  <1>2. Ids(g) \subseteq S
    <2>1. ASSUME NEW i \in Ids(g), Succ(g, i) \subseteq S PROVE i \in S
      BY <1>1, <2>1, RootFacts DEF Succ
    <2> HIDE DEF S
    <2> QED BY <2>1, GraphInduction DEF WellFormed
  <1>3. r = [i \in Ids(g) |-> r[i]]
    BY DEF IsRootOf
  <1>4. Root(g) = [i \in Ids(g) |-> Root(g)[i]]
    BY RootFacts
  <1> QED BY <1>2, <1>3, <1>4

(* The same for Reps. *)
LEMMA RepsUnique ==
  ASSUME NEW g, WellFormed(g), NEW r, IsRepsOf(g, r)
  PROVE  Reps(g) = r
  <1>1. UnfoldsReps(g, r)
    BY RepsUnfold
  <1> DEFINE S == {i \in Ids(g) : Reps(g)[i] = r[i]}
  <1>2. Ids(g) \subseteq S
    <2>0. UnfoldsReps(g, Reps(g))
      BY RepsFacts
    <2>1. ASSUME NEW i \in Ids(g), Succ(g, i) \subseteq S PROVE i \in S
      <3>1. CASE Bound(g, i)
        BY <1>1, <2>0, <2>1, <3>1 DEF Succ, UnfoldsReps
      <3>2. CASE ~Bound(g, i) /\ IsFunction(g, i)
        <4>1. /\ g[i].parameter \in S /\ g[i].result \in S
              /\ Reps(g)[i] = {i} \cup Reps(g)[g[i].parameter] \cup Reps(g)[g[i].result]
              /\ r[i] = {i} \cup r[g[i].parameter] \cup r[g[i].result]
          BY <1>1, <2>0, <2>1, <3>2 DEF Succ, UnfoldsReps
        <4> QED BY <4>1
      <3>3. CASE ~Bound(g, i) /\ ~IsFunction(g, i)
        BY <1>1, <2>0, <3>3 DEF UnfoldsReps
      <3> QED BY <3>1, <3>2, <3>3
    <2> HIDE DEF S
    <2> QED BY <2>1, GraphInduction DEF WellFormed
  <1>3. r = [i \in Ids(g) |-> r[i]]
    BY DEF IsRepsOf
  <1>4. Reps(g) = [i \in Ids(g) |-> Reps(g)[i]]
    BY RepsFacts
  <1> QED BY <1>2, <1>3, <1>4

-----------------------------------------------------------------------------
(* A table updated in place keeps its ids. *)
LEMMA Lengths ==
  ASSUME NEW g \in Seq(Entry), NEW h \in [Ids(g) -> Entry]
  PROVE  h \in Seq(Entry) /\ Len(h) = Len(g) /\ Ids(h) = Ids(g)
  BY DEF Ids

(* An entry that is a bound variable. *)
LEMMA VarEntryFacts ==
  ASSUME NEW h, NEW i, NEW t \in Nat \ {0}, h[i] = VarEntry(t)
  PROVE  /\ Bound(h, i) /\ ~IsFunction(h, i)
         /\ Succ(h, i) = {t} /\ h[i].binding = t
  BY DEF VarEntry, Bound, IsVar, IsFunction, Succ, NoType

(* What is the same of two equal entries. *)
LEMMA SameEntryFacts ==
  ASSUME NEW g, NEW h, NEW i, h[i] = g[i]
  PROVE  /\ Bound(h, i) <=> Bound(g, i)
         /\ IsFunction(h, i) <=> IsFunction(g, i)
         /\ IsVar(h, i) <=> IsVar(g, i)
         /\ Succ(h, i) = Succ(g, i)
  BY DEF Bound, IsVar, IsFunction, Succ

(***************************************************************************)
(* Path compression, of any variables, changes neither where chains end    *)
(* nor what occurs in what.                                                *)
(***************************************************************************)
LEMMA CompressWellFormed ==
  ASSUME NEW g, WellFormed(g), NEW h, RedirectedExcept(g, h, {})
  PROVE  /\ WellFormed(h) /\ Ids(h) = Ids(g)
         /\ \A i \in Ids(g) : Bound(h, i) <=> Bound(g, i)
         /\ Root(h) = Root(g)
         /\ Reps(h) = Reps(g)
  <1>1. h \in Seq(Entry) /\ Ids(h) = Ids(g)
    BY Lengths DEF RedirectedExcept, WellFormed
  <1> DEFINE R == Root(g)
  <1>r. R \in [Ids(g) -> Ids(g)] /\ \A i \in Ids(g) : R[i] \in Nat \ {0}
    BY RootFacts DEF Ids
  <1>2. \A i \in Ids(g) :
          \/ h[i] = g[i]
          \/ Bound(g, i) /\ h[i] = VarEntry(R[i])
    BY DEF RedirectedExcept
  <1>3. \A i \in Ids(g) :
          /\ Bound(h, i) <=> Bound(g, i)
          /\ IsFunction(h, i) <=> IsFunction(g, i)
          /\ \/ Succ(h, i) = Succ(g, i)
             \/ Bound(g, i) /\ Succ(h, i) = {R[i]}
          /\ ~Bound(g, i) => h[i] = g[i]
          /\ Bound(g, i) => h[i].binding \in {g[i].binding, R[i]}
    <2> TAKE i \in Ids(g)
    <2>1. CASE h[i] = g[i]
      BY <2>1, SameEntryFacts
    <2>2. CASE Bound(g, i) /\ h[i] = VarEntry(R[i])
      <3>1. ~IsFunction(g, i)
        BY <2>2 DEF Bound, IsVar, IsFunction
      <3> QED BY <2>2, <3>1, <1>r, VarEntryFacts
    <2> QED BY <1>2, <2>1, <2>2
  <1>4. InRange(h)
    BY <1>1, <1>3, <1>r DEF InRange, WellFormed
  <1>5. AcyclicGraph(h)
    <2> SUFFICES ASSUME NEW S \in SUBSET Ids(g), S # {}
                 PROVE  \E i \in S : Succ(h, i) \cap S = {}
      BY <1>1 DEF AcyclicGraph
    <2> DEFINE T == S \cup {y \in Ids(g) : Bound(g, y) /\ R[y] \in S}
    <2>1. PICK i \in T : Succ(g, i) \cap T = {}
      BY DEF AcyclicGraph, WellFormed
    <2>2. i \in Ids(g) /\ Succ(g, i) \subseteq Ids(g)
      BY DEF WellFormed, InRange
    <2>3. ~(Bound(g, i) /\ R[i] \in S)
      <3> SUFFICES ASSUME Bound(g, i), R[i] \in S PROVE FALSE
        OBVIOUS
      <3> DEFINE b == g[i].binding
      <3>1. b \in Ids(g) /\ b \notin T /\ R[b] = R[i]
        BY <2>1, <2>2, RootFacts DEF Succ
      <3>2. CASE Bound(g, b)
        BY <3>1, <3>2
      <3>3. CASE ~Bound(g, b)
        BY <3>1, <3>3, RootFacts
      <3> QED BY <3>2, <3>3
    <2> QED BY <1>3, <2>1, <2>2, <2>3
  <1>6. IsRootOf(h, R)
    <2>1. \A i \in Ids(g) : R[i] = IF Bound(h, i) THEN R[h[i].binding] ELSE i
      BY <1>3, RootFacts
    <2> QED BY <1>1, <1>r, <2>1 DEF IsRootOf
  <1>7. IsRepsOf(h, Reps(g))
    <2>1. ASSUME NEW i \in Ids(g)
          PROVE  Reps(g)[i] = IF Bound(h, i) THEN Reps(g)[h[i].binding]
                   ELSE IF IsFunction(h, i)
                   THEN {i} \cup Reps(g)[h[i].parameter] \cup Reps(g)[h[i].result]
                   ELSE {i}
      <3>1. CASE Bound(g, i)
        BY <1>3, <3>1, RepsFacts DEF UnfoldsReps
      <3>2. CASE ~Bound(g, i)
        <4>1. /\ ~Bound(h, i) /\ h[i] = g[i]
              /\ IsFunction(h, i) <=> IsFunction(g, i)
          BY <1>3, <3>2
        <4>2. CASE IsFunction(g, i)
          <5>1. Reps(g)[i] = {i} \cup Reps(g)[g[i].parameter] \cup Reps(g)[g[i].result]
            BY <3>2, <4>2, RepsFacts DEF UnfoldsReps
          <5> QED BY <4>1, <4>2, <5>1
        <4>3. CASE ~IsFunction(g, i)
          <5>1. Reps(g)[i] = {i}
            BY <3>2, <4>3, RepsFacts DEF UnfoldsReps
          <5> QED BY <4>1, <4>3, <5>1
        <4> QED BY <4>2, <4>3
      <3> QED BY <3>1, <3>2
    <2> QED BY <1>1, <2>1, RepsFacts DEF IsRepsOf
  <1>8. WellFormed(h)
    BY <1>1, <1>4, <1>5, <1>6, <1>7 DEF WellFormed
  <1> QED BY <1>1, <1>3, <1>6, <1>7, <1>8, RootUnique, RepsUnique

(***************************************************************************)
(* A table in range has a function Reps, cyclic or not: what can be        *)
(* reached from an entry is the least closed set that contains it.         *)
(***************************************************************************)
LEMMA RepsExists ==
  ASSUME NEW g, InRange(g)
  PROVE  \E r : IsRepsOf(g, r)
  <1> DEFINE Closed == {C \in SUBSET Ids(g) : \A i \in C : Succ(g, i) \subseteq C}
             Reach(i) == {j \in Ids(g) : \A C \in Closed : i \in C => j \in C}
             P == [i \in Ids(g) |-> {j \in Reach(i) : ~Bound(g, j)}]
  <1>1. \A i \in Ids(g) : Reach(i) \in Closed /\ i \in Reach(i)
    BY DEF InRange
  <1>2. ASSUME NEW i \in Ids(g)
        PROVE  Reach(i) = {i} \cup UNION {Reach(s) : s \in Succ(g, i)}
    <2> DEFINE C == {i} \cup UNION {Reach(s) : s \in Succ(g, i)}
    <2>1. Succ(g, i) \subseteq Ids(g)
      BY DEF InRange
    <2>2. C \subseteq Reach(i)
      BY <1>1, <2>1
    <2>3. C \in Closed
      <3>1. C \in SUBSET Ids(g)
        OBVIOUS
      <3>2. ASSUME NEW j \in C PROVE Succ(g, j) \subseteq C
        <4>1. CASE j = i
          BY <1>1, <2>1, <4>1
        <4>2. ASSUME NEW s \in Succ(g, i), j \in Reach(s) PROVE Succ(g, j) \subseteq C
          BY <1>1, <2>1, <4>2
        <4> QED BY <4>1, <4>2
      <3> QED BY <3>1, <3>2
    <2>4. Reach(i) \subseteq C
      <3> HIDE DEF C, Closed
      <3>1. i \in C
        BY DEF C
      <3> QED BY <2>3, <3>1
    <2> QED BY <2>2, <2>4
  <1> HIDE DEF Reach
  <1>3. ASSUME NEW i \in Ids(g)
        PROVE  P[i] = IF Bound(g, i) THEN P[g[i].binding]
                      ELSE IF IsFunction(g, i)
                      THEN {i} \cup P[g[i].parameter] \cup P[g[i].result]
                      ELSE {i}
    <2>1. Succ(g, i) \subseteq Ids(g)
      BY DEF InRange
    <2>2. CASE Bound(g, i)
      <3>1. Succ(g, i) = {g[i].binding} /\ Reach(i) = {i} \cup Reach(g[i].binding)
        BY <1>2, <2>2 DEF Succ
      <3> QED BY <2>1, <2>2, <3>1
    <2>3. CASE ~Bound(g, i) /\ IsFunction(g, i)
      <3>1. /\ Succ(g, i) = {g[i].parameter, g[i].result}
            /\ Reach(i) = {i} \cup Reach(g[i].parameter) \cup Reach(g[i].result)
        BY <1>2, <2>3 DEF Succ
      <3> QED BY <2>1, <2>3, <3>1
    <2>4. CASE ~Bound(g, i) /\ ~IsFunction(g, i)
      <3>1. Succ(g, i) = {} /\ Reach(i) = {i}
        BY <1>2, <2>4 DEF Succ
      <3> QED BY <2>4, <3>1
    <2> QED BY <2>2, <2>3, <2>4
  <1> HIDE DEF P
  <1>4. IsRepsOf(g, P)
    BY <1>3 DEF IsRepsOf, P
  <1> QED BY <1>4

(***************************************************************************)
(* makeType, called any number of times: the new entries refer to older    *)
(* ones, so the least entry of a set of new ones refers to none of the     *)
(* set.                                                                    *)
(***************************************************************************)
LEMMA ExtendsWellFormed ==
  ASSUME NEW g, WellFormed(g), NEW h, Extends(g, h)
  PROVE  /\ WellFormed(h)
         /\ Ids(g) \subseteq Ids(h)
         /\ \A i \in Ids(g) : Root(h)[i] = Root(g)[i]
  <1> DEFINE R == [i \in Ids(h) |-> IF i \in Ids(g) THEN Root(g)[i] ELSE i]
  <1>1. /\ h \in Seq(Entry) /\ Ids(g) \subseteq Ids(h) /\ Ids(h) \subseteq Nat
        /\ \A i \in Ids(g) : h[i] = g[i]
    BY DEF Extends, Ids, WellFormed
  <1>2. \A i \in Ids(h) \ Ids(g) : ~Bound(h, i) /\ Succ(h, i) \subseteq 1..(i - 1)
    BY DEF Extends, FreshEntry, Succ
  <1>3. \A i \in Ids(g) :
          /\ Bound(h, i) <=> Bound(g, i)
          /\ Succ(h, i) = Succ(g, i)
          /\ Succ(g, i) \subseteq Ids(g)
    BY <1>1, SameEntryFacts DEF WellFormed, InRange
  <1>4. InRange(h)
    <2>1. \A i \in Ids(h) : 1..(i - 1) \subseteq Ids(h)
      BY <1>1 DEF Ids
    <2> QED BY <1>1, <1>2, <1>3, <2>1 DEF InRange
  <1>5. AcyclicGraph(h)
    <2> SUFFICES ASSUME NEW S \in SUBSET Ids(h), S # {}
                 PROVE  \E i \in S : Succ(h, i) \cap S = {}
      BY DEF AcyclicGraph
    <2>1. CASE S \cap Ids(g) # {}
      <3>1. PICK i \in S \cap Ids(g) : Succ(g, i) \cap (S \cap Ids(g)) = {}
        BY <2>1 DEF WellFormed, AcyclicGraph
      <3> QED BY <1>3, <3>1
    <2>2. CASE S \cap Ids(g) = {}
      <3>1. PICK i \in S : \A j \in S : i <= j
        BY <1>1, LeastElement
      <3>2. Succ(h, i) \subseteq 1..(i - 1)
        BY <1>2, <2>2
      <3>3. \A j \in 1..(i - 1) : j \notin S
        BY <1>1, <3>1
      <3> QED BY <3>2, <3>3
    <2> QED BY <2>1, <2>2
  <1>6. IsRootOf(h, R)
    <2>1. ASSUME NEW i \in Ids(h)
          PROVE  R[i] = IF Bound(h, i) THEN R[h[i].binding] ELSE i
      <3>1. CASE i \notin Ids(g)
        BY <1>2, <3>1
      <3>2. CASE i \in Ids(g) /\ Bound(g, i)
        <4>1. h[i] = g[i] /\ g[i].binding \in Ids(g)
          BY <1>1, <1>3, <3>2 DEF Succ
        <4> QED BY <1>1, <1>3, <3>2, <4>1, RootFacts
      <3>3. CASE i \in Ids(g) /\ ~Bound(g, i)
        BY <1>1, <1>3, <3>3, RootFacts
      <3> QED BY <3>1, <3>2, <3>3
    <2> QED BY <2>1 DEF IsRootOf
  <1>7. WellFormed(h)
    BY <1>1, <1>4, <1>5, <1>6, RepsExists DEF WellFormed
  <1> QED BY <1>1, <1>6, <1>7, RootUnique

(***************************************************************************)
(* Binding a variable v to a type t that v does not occur in: entries that *)
(* v does not occur in are closed under reference and contain t, so a      *)
(* cycle would have to stay among the others, where v now refers to        *)
(* nothing.                                                                *)
(***************************************************************************)
LEMMA BindWellFormed ==
  ASSUME NEW g, WellFormed(g), NEW v \in Ids(g), NEW t \in Ids(g),
         IsVar(g, v), ~Bound(g, v), ~Bound(g, t), v \notin Reps(g)[t],
         NEW h \in [Ids(g) -> Entry], h[v] = VarEntry(t),
         \A i \in Ids(g) \ {v} : h[i] = g[i]
  PROVE  /\ WellFormed(h)
         /\ Ids(h) = Ids(g)
         /\ \A i \in Ids(g) :
              Root(h)[i] = IF Root(g)[i] = v THEN t ELSE Root(g)[i]
  <1> DEFINE Q == Reps(g)
             R == [i \in Ids(g) |-> IF Root(g)[i] = v THEN t ELSE Root(g)[i]]
             P == [i \in Ids(g) |-> IF v \in Q[i] THEN (Q[i] \ {v}) \cup Q[t]
                                   ELSE Q[i]]
  <1>0. /\ UnfoldsReps(g, Q) /\ Q \in [Ids(g) -> SUBSET Ids(g)]
        /\ Q[v] = {v}
    <2>1. UnfoldsReps(g, Q) /\ Q \in [Ids(g) -> SUBSET Ids(g)]
      BY RepsFacts
    <2>2. ~IsFunction(g, v)
      BY DEF IsVar, IsFunction
    <2> QED BY <2>1, <2>2 DEF UnfoldsReps
  <1>1. t # v
    BY <1>0
  <1>2. h \in Seq(Entry) /\ Ids(h) = Ids(g)
    BY Lengths DEF WellFormed
  <1>3. /\ Bound(h, v) /\ ~IsFunction(h, v)
        /\ Succ(h, v) = {t} /\ h[v].binding = t
    <2>1. t \in Nat \ {0}
      BY DEF Ids, WellFormed
    <2> QED BY <2>1, VarEntryFacts
  <1>4. \A i \in Ids(g) \ {v} :
          /\ Bound(h, i) <=> Bound(g, i)
          /\ IsFunction(h, i) <=> IsFunction(g, i)
          /\ Succ(h, i) = Succ(g, i)
    BY SameEntryFacts
  <1>5. \A i \in Ids(g) : Succ(g, i) \subseteq Ids(g)
    BY DEF WellFormed, InRange
  <1>6. InRange(h)
    BY <1>2, <1>3, <1>4, <1>5 DEF InRange
  <1>7. AcyclicGraph(h)
    <2> SUFFICES ASSUME NEW S \in SUBSET Ids(g), S # {}
                 PROVE  \E i \in S : Succ(h, i) \cap S = {}
      BY <1>2 DEF AcyclicGraph
    <2> DEFINE C == {i \in Ids(g) : v \notin Q[i]}
    <2>1. v \notin C /\ t \in C
      BY <1>0
    <2>2. ASSUME NEW i \in C PROVE Succ(g, i) \subseteq C
      <3>1. CASE Bound(g, i)
        BY <1>0, <1>5, <3>1 DEF UnfoldsReps, Succ
      <3>2. CASE ~Bound(g, i) /\ IsFunction(g, i)
        <4>1. Q[i] = {i} \cup Q[g[i].parameter] \cup Q[g[i].result]
          BY <1>0, <3>2 DEF UnfoldsReps
        <4> QED BY <1>5, <3>2, <4>1 DEF Succ
      <3>3. CASE ~Bound(g, i) /\ ~IsFunction(g, i)
        BY <3>3 DEF Succ
      <3> QED BY <3>1, <3>2, <3>3
    <2>3. C \subseteq Ids(g)
      OBVIOUS
    <2> HIDE DEF C
    <2>4. CASE S \cap C # {}
      <3>1. S \cap C \in SUBSET Ids(g)
        OBVIOUS
      <3>2. PICK i \in S \cap C : Succ(g, i) \cap (S \cap C) = {}
        BY <2>4, <3>1 DEF WellFormed, AcyclicGraph
      <3> QED BY <1>4, <2>1, <2>2, <2>3, <3>2
    <2>5. CASE S \cap C = {}
      <3>1. PICK i \in S : Succ(g, i) \cap S = {}
        BY DEF WellFormed, AcyclicGraph
      <3> QED BY <1>3, <1>4, <2>1, <2>5, <3>1
    <2> QED BY <2>4, <2>5
  <1>8. IsRootOf(h, R)
    <2>1. ASSUME NEW i \in Ids(g)
          PROVE  R[i] = IF Bound(h, i) THEN R[h[i].binding] ELSE i
      <3>1. CASE i = v
        BY <1>1, <1>3, <3>1, RootFacts
      <3>2. CASE i # v /\ Bound(g, i)
        <4>1. h[i] = g[i] /\ Bound(h, i) /\ g[i].binding \in Ids(g)
          BY <1>2, <1>4, <1>5, <3>2 DEF Succ
        <4> QED BY <3>2, <4>1, RootFacts
      <3>3. CASE i # v /\ ~Bound(g, i)
        BY <1>4, <3>3, RootFacts
      <3> QED BY <3>1, <3>2, <3>3
    <2> QED BY <1>2, <2>1 DEF IsRootOf
  <1>9. IsRepsOf(h, P)
    <2>1. ASSUME NEW i \in Ids(g)
          PROVE  P[i] = IF Bound(h, i) THEN P[h[i].binding]
                        ELSE IF IsFunction(h, i)
                        THEN {i} \cup P[h[i].parameter] \cup P[h[i].result]
                        ELSE {i}
      <3>1. CASE i = v
        BY <1>0, <1>3, <3>1
      <3>2. CASE i # v /\ Bound(g, i)
        <4>1. h[i] = g[i] /\ Bound(h, i) /\ g[i].binding \in Ids(g)
          BY <1>2, <1>4, <1>5, <3>2 DEF Succ
        <4> QED BY <1>0, <3>2, <4>1 DEF UnfoldsReps
      <3>3. CASE i # v /\ ~Bound(g, i) /\ IsFunction(g, i)
        <4>1. /\ h[i] = g[i] /\ ~Bound(h, i) /\ IsFunction(h, i)
              /\ g[i].parameter \in Ids(g) /\ g[i].result \in Ids(g)
          BY <1>2, <1>4, <1>5, <3>3 DEF Succ
        <4>2. Q[i] = {i} \cup Q[g[i].parameter] \cup Q[g[i].result]
          BY <1>0, <3>3 DEF UnfoldsReps
        <4>3. P[i] = {i} \cup P[g[i].parameter] \cup P[g[i].result]
          BY <3>3, <4>1, <4>2
        <4> QED BY <4>1, <4>3
      <3>4. CASE i # v /\ ~Bound(g, i) /\ ~IsFunction(g, i)
        <4>1. Q[i] = {i} /\ v \notin Q[i] /\ ~Bound(h, i) /\ ~IsFunction(h, i)
          BY <1>0, <1>4, <3>4 DEF UnfoldsReps
        <4> QED BY <4>1
      <3> QED BY <3>1, <3>2, <3>3, <3>4
    <2> QED BY <1>2, <2>1 DEF IsRepsOf
  <1>10. WellFormed(h)
    BY <1>2, <1>6, <1>7, <1>8, <1>9 DEF WellFormed
  <1> QED BY <1>2, <1>8, <1>10, RootUnique

-----------------------------------------------------------------------------
(***************************************************************************)
(* A binding that also compresses paths is a compression and then a plain  *)
(* binding.                                                                *)
(***************************************************************************)
LEMMA BindStep ==
  ASSUME WellFormed(types), NEW v \in Ids(types), NEW t \in Ids(types), Bind(v, t)
  PROVE  /\ WellFormed(types')
         /\ Ids(types') = Ids(types)
         /\ \A i \in Ids(types) :
              Root(types')[i] = IF Root(types)[i] = v THEN t ELSE Root(types)[i]
  <1> DEFINE h == [types' EXCEPT ![v] = types[v]]
  <1>1. types' \in [Ids(types) -> Entry] /\ types[v] \in Entry
    BY DEF Bind, RedirectedExcept, WellFormed, Ids
  <1>2. /\ h \in [Ids(types) -> Entry]
        /\ h[v] = types[v] /\ \A i \in Ids(types) \ {v} : h[i] = types'[i]
    BY <1>1
  <1>3. types'[v] = VarEntry(t)
    BY DEF Bind
  <1> HIDE DEF h
  <1>4. RedirectedExcept(types, h, {})
    BY <1>2 DEF Bind, RedirectedExcept
  <1>5. /\ WellFormed(h) /\ Ids(h) = Ids(types)
        /\ \A i \in Ids(types) : Bound(h, i) <=> Bound(types, i)
        /\ Root(h) = Root(types) /\ Reps(h) = Reps(types)
    BY <1>4, CompressWellFormed
  <1>6. IsVar(h, v)
    BY <1>2 DEF Bind, IsVar
  <1>7. ~Bound(h, v) /\ ~Bound(h, t) /\ v \notin Reps(h)[t]
    BY <1>5 DEF Bind
  <1> QED BY <1>1, <1>2, <1>3, <1>5, <1>6, <1>7, BindWellFormed

(***************************************************************************)
(* Every step of the abstract table keeps it well formed and keeps merged  *)
(* types merged.                                                           *)
(***************************************************************************)
LEMMA GraphStep ==
  ASSUME WellFormed(types), [GraphNext]_types
  PROVE  /\ WellFormed(types')
         /\ Ids(types) \subseteq Ids(types')
         /\ \A i, j \in Ids(types) : Root(types)[i] = Root(types)[j]
                                     => Root(types')[i] = Root(types')[j]
  <1>1. CASE Grow
    BY <1>1, ExtendsWellFormed DEF Grow
  <1>2. CASE Compress
    BY <1>2, CompressWellFormed DEF Compress
  <1>3. ASSUME NEW v \in Ids(types), NEW t \in Ids(types), Bind(v, t)
        PROVE  /\ WellFormed(types')
               /\ Ids(types) \subseteq Ids(types')
               /\ \A i, j \in Ids(types) : Root(types)[i] = Root(types)[j]
                                     => Root(types')[i] = Root(types')[j]
    BY <1>3, BindStep
  <1>4. CASE UNCHANGED types
    BY <1>4
  <1> QED BY <1>1, <1>2, <1>3, <1>4 DEF GraphNext

(* The empty table is well formed. *)
LEMMA EmptyWellFormed == WellFormed(<< >>)
  <1>1. << >> \in Seq(Entry) /\ Ids(<< >>) = {}
    BY DEF Ids
  <1>2. IsRootOf(<< >>, [i \in {} |-> i]) /\ IsRepsOf(<< >>, [i \in {} |-> i])
    BY <1>1 DEF IsRootOf, IsRepsOf
  <1> QED BY <1>1, <1>2 DEF WellFormed, InRange, AcyclicGraph

(* So the table is always well formed. *)
LEMMA GraphInvariant == GraphSpec => []WellFormed(types)
  <1>1. GraphInit => WellFormed(types)
    BY EmptyWellFormed DEF GraphInit
  <1>2. WellFormed(types) /\ [GraphNext]_types => WellFormed(types)'
    BY GraphStep
  <1> QED BY <1>1, <1>2, PTL DEF GraphSpec

(***************************************************************************)
(* In every reachable table ids are in range and no type contains itself,  *)
(* however many types there are: resolve, occurs, describe and materialize *)
(* return.                                                                 *)
(***************************************************************************)
THEOREM GraphSafety == GraphSpec => [](TypesOK /\ Acyclic)
  <1>1. WellFormed(types) => TypesOK /\ Acyclic
    BY DEF WellFormed, TypesOK, Acyclic, InRange
  <1> QED BY <1>1, GraphInvariant, PTL

(***************************************************************************)
(* No step separates two types that were merged: not a failed unification, *)
(* and not path compression.                                               *)
(***************************************************************************)
THEOREM GraphMerging == GraphSpec => MergedStayMerged
  <1> DEFINE Kept == LET root == Root(types)
                         next == Root(types')
                     IN  \A i, j \in Ids(types) : root[i] = root[j] => next[i] = next[j]
  <1>1. WellFormed(types) /\ [GraphNext]_types => [Kept]_types
    BY GraphStep
  <1> HIDE DEF Kept
  <1>2. GraphSpec => [][Kept]_types
    BY <1>1, GraphInvariant, PTL DEF GraphSpec
  <1> QED BY <1>2 DEF MergedStayMerged, Kept

-----------------------------------------------------------------------------
(***************************************************************************)
(* Unification.                                                            *)
(***************************************************************************)

(* The part of an inductive invariant that unification needs and keeps. *)
UnificationInv == WellFormed(types) /\ CallsOK

-----------------------------------------------------------------------------
(* resolve, whatever it is called on, only compresses paths. *)
LEMMA ResolveRedirects ==
  ASSUME NEW g, WellFormed(g), NEW W
  PROVE  /\ RedirectedExcept(g, Resolve(g, W), {})
         /\ \A i \in Ids(g) : ~Bound(g, i) => Resolve(g, W)[i] = g[i]
  <1>1. g \in [Ids(g) -> Entry]
    BY DEF WellFormed, Ids
  <1>2. \A i \in Ids(g) : VarEntry(Root(g)[i]) \in Entry
    <2> TAKE i \in Ids(g)
    <2>1. Root(g)[i] \in Nat
      BY RootFacts, SMTT(30), Zenon DEF Ids
    <2> QED BY <2>1 DEF VarEntry, Entry
  <1> QED BY <1>1, <1>2 DEF Resolve, RedirectedExcept

(* The ways a call of tryUnify goes on, a and e being its two resolved types. *)
Binds(v, t)  == v # t /\ Bind(v, t) /\ ReturnTrue
Contains(v, t) == /\ v # t /\ v \in Unbound(types) /\ Occurs(types, v, t)
                  /\ Compress /\ ReturnFalse
Equal(a, e)  == (a = e \/ SameLeaf(types, a, e)) /\ Compress /\ ReturnTrue
Splits(a, e) == /\ IsFunction(types, a) /\ IsFunction(types, e)
                /\ Compress /\ status' = status
                /\ todo' = Components(a, e) \o Tail(todo)
Clashes(a, e) == /\ a # e /\ ~IsVar(types, a) /\ ~IsVar(types, e)
                 /\ ~SameLeaf(types, a, e)
                 /\ ~(IsFunction(types, a) /\ IsFunction(types, e))
                 /\ Compress /\ ReturnFalse

LEMMA TryUnifyCases ==
  ASSUME UnificationInv, TryUnify,
         NEW p, p = Head(todo), NEW a, a = Root(types)[p[1]],
         NEW e, e = Root(types)[p[2]]
  PROVE  /\ todo # << >> /\ p \in Ids(types) \X Ids(types)
         /\ a \in Ids(types) /\ e \in Ids(types)
         /\ ~Bound(types, a) /\ ~Bound(types, e)
         /\ \/ Binds(a, e) \/ Binds(e, a)
            \/ Contains(a, e) \/ Contains(e, a)
            \/ Equal(a, e) \/ Splits(a, e) \/ Clashes(a, e)
  <1>1. todo # << >> /\ p \in Ids(types) \X Ids(types)
    BY DEF UnificationInv, CallsOK, TryUnify
  <1>2. /\ a \in Ids(types) /\ e \in Ids(types)
        /\ ~Bound(types, a) /\ ~Bound(types, e)
    BY <1>1, RootFacts DEF UnificationInv
  <1>3. ASSUME NEW v \in {a, e}, NEW t \in {a, e}, v # t, IsVar(types, v),
               BindVariable(p, v, t)
        PROVE  Binds(v, t) \/ Contains(v, t)
    <2> DEFINE g == Resolve(types, {p[1], p[2]} \cup OccursVisits(types, v)[t])
    <2>1. CASE Occurs(types, v, t)
      <3>1. types' = g /\ ReturnFalse
        BY <1>3, <2>1 DEF BindVariable
      <3>2. Compress
        BY <3>1, ResolveRedirects DEF Compress, UnificationInv
      <3>3. v \in Unbound(types)
        BY <1>2, <1>3 DEF Unbound
      <3> QED BY <1>3, <2>1, <3>1, <3>2, <3>3 DEF Contains
    <2>2. CASE ~Occurs(types, v, t)
      <3>1. types' = [g EXCEPT ![v] = VarEntry(t)] /\ ReturnTrue
        BY <1>3, <2>2 DEF BindVariable
      <3>2. RedirectedExcept(types, g, {})
        BY ResolveRedirects DEF UnificationInv
      <3>3. g \in [Ids(types) -> Entry]
        BY <3>2 DEF RedirectedExcept
      <3>4. VarEntry(t) \in Entry
        BY <1>2 DEF VarEntry, Entry, Ids, UnificationInv, WellFormed
      <3> HIDE DEF g
      <3>5. /\ types' \in [Ids(types) -> Entry] /\ types'[v] = VarEntry(t)
            /\ \A i \in Ids(types) \ {v} : types'[i] = g[i]
        BY <1>2, <3>1, <3>3, <3>4
      <3>6. RedirectedExcept(types, types', {v})
        BY <3>2, <3>5 DEF RedirectedExcept
      <3> QED BY <1>2, <1>3, <2>2, <3>1, <3>5, <3>6 DEF Binds, Bind, Occurs
    <2> QED BY <2>1, <2>2
  <1>4. \/ a # e /\ IsVar(types, a) /\ BindVariable(p, a, e)
        \/ a # e /\ IsVar(types, e) /\ BindVariable(p, e, a)
        \/ /\ ~(a # e /\ IsVar(types, a)) /\ ~(a # e /\ IsVar(types, e))
           /\ types' = Resolve(types, {p[1], p[2]})
           /\ \/ (a = e \/ SameLeaf(types, a, e)) /\ ReturnTrue
              \/ /\ IsFunction(types, a) /\ IsFunction(types, e)
                 /\ todo' = Components(a, e) \o Tail(todo)
                 /\ status' = status
              \/ /\ ~(a = e \/ SameLeaf(types, a, e))
                 /\ ~(IsFunction(types, a) /\ IsFunction(types, e))
                 /\ ReturnFalse
    BY DEF TryUnify, Resolved
  <1>5. ASSUME types' = Resolve(types, {p[1], p[2]}) PROVE Compress
    BY <1>5, ResolveRedirects DEF Compress, UnificationInv
  <1> QED BY <1>1, <1>2, <1>3, <1>4, <1>5 DEF Equal, Splits, Clashes

(* A step of tryUnify is a step of the abstract table. *)
LEMMA TryUnifyIsGraphStep ==
  ASSUME UnificationInv, TryUnify
  PROVE  GraphNext
  <1> DEFINE p == Head(todo)
             a == Root(types)[p[1]]
             e == Root(types)[p[2]]
  <1>1. /\ a \in Ids(types) /\ e \in Ids(types)
        /\ \/ Binds(a, e) \/ Binds(e, a)
           \/ Contains(a, e) \/ Contains(e, a)
           \/ Equal(a, e) \/ Splits(a, e) \/ Clashes(a, e)
    BY TryUnifyCases
  <1> HIDE DEF p, a, e
  <1> QED BY <1>1 DEF Binds, Contains, Equal, Splits, Clashes, GraphNext

(***************************************************************************)
(* A step of tryUnify leaves calls on types that are there, and a call is  *)
(* running as long as some are pending.                                    *)
(***************************************************************************)
LEMMA TryUnifyKeepsCalls ==
  ASSUME UnificationInv, TryUnify
  PROVE  UnificationInv'
  <1> DEFINE Pairs == Ids(types) \X Ids(types)
             Goal == /\ todo' \in Seq(Pairs)
                     /\ status' \in {"idle", "running", "unified", "mismatch"}
                     /\ (status' = "running") <=> (todo' # << >>)
                     /\ diagnosed' \in BOOLEAN
  <1>s. SUFFICES Goal
    <2>1. WellFormed(types') /\ Ids(types) \subseteq Ids(types')
      BY TryUnifyIsGraphStep, GraphStep DEF UnificationInv
    <2>2. Pairs \subseteq Ids(types') \X Ids(types')
      BY <2>1
    <2> HIDE DEF Pairs
    <2>3. Seq(Pairs) \subseteq Seq(Ids(types') \X Ids(types'))
      BY <2>2
    <2> QED BY <2>1, <2>3 DEF UnificationInv, CallsOK
  <1>0. /\ todo \in Seq(Pairs) /\ diagnosed \in BOOLEAN
        /\ (status = "running") <=> (todo # << >>)
    BY DEF UnificationInv, CallsOK
  <1>1. CASE ReturnTrue /\ todo # << >>
    <2>1. /\ todo' \in Seq(Pairs) /\ Len(todo) \in Nat \ {0}
          /\ Len(todo') = Len(todo) - 1
          /\ status' = IF Len(todo) = 1 THEN "unified" ELSE "running"
          /\ diagnosed' = diagnosed
      BY <1>0, <1>1 DEF ReturnTrue
    <2>2. todo' # << >> <=> Len(todo') # 0
      <3> HIDE DEF Pairs
      <3> QED BY <2>1, EmptySeq
    <2> QED BY <1>0, <2>1, <2>2
  <1>2. CASE ReturnFalse
    BY <1>2 DEF ReturnFalse
  <1> QED
    <2> DEFINE p == Head(todo)
               a == Root(types)[p[1]]
               e == Root(types)[p[2]]
    <2>1. /\ todo # << >> /\ status = "running" /\ p \in Pairs
      BY <1>0 DEF TryUnify
    <2>2. /\ a \in Ids(types) /\ e \in Ids(types)
          /\ ~Bound(types, a) /\ ~Bound(types, e)
      BY <2>1, RootFacts, SMTT(30), Zenon DEF UnificationInv
    <2>3. \/ ReturnTrue
          \/ ReturnFalse
          \/ /\ IsFunction(types, a) /\ IsFunction(types, e)
             /\ todo' = << <<types[a].parameter, types[e].parameter>>,
                           <<types[a].result, types[e].result>> >> \o Tail(todo)
             /\ UNCHANGED <<status, diagnosed>>
      BY DEF TryUnify, BindVariable, Components, Resolved
    <2> HIDE DEF p, a, e, Goal
    <2>4. CASE /\ IsFunction(types, a) /\ IsFunction(types, e)
               /\ todo' = << <<types[a].parameter, types[e].parameter>>,
                             <<types[a].result, types[e].result>> >> \o Tail(todo)
               /\ UNCHANGED <<status, diagnosed>>
      <3> DEFINE new == << <<types[a].parameter, types[e].parameter>>,
                           <<types[a].result, types[e].result>> >>
      <3>1. /\ types[a].parameter \in Ids(types) /\ types[a].result \in Ids(types)
            /\ types[e].parameter \in Ids(types) /\ types[e].result \in Ids(types)
        BY <2>2, <2>4 DEF UnificationInv, WellFormed, InRange, Succ
      <3>2. new \in Seq(Pairs) /\ Len(new) = 2 /\ Tail(todo) \in Seq(Pairs)
        BY <1>0, <2>1, <3>1
      <3> HIDE DEF new, Pairs
      <3>3. todo' \in Seq(Pairs) /\ todo' # << >>
        BY <2>4, <3>2 DEF new
      <3> QED BY <1>0, <2>1, <2>4, <3>3 DEF Goal
    <2> QED BY <1>1, <1>2, <2>1, <2>3, <2>4 DEF Goal

(* A call of unify on types that are there. *)
LEMMA CallUnifyKeepsCalls ==
  ASSUME UnificationInv, NEW a \in Ids(types'), NEW e \in Ids(types'),
         CallUnify(a, e)
  PROVE  CallsOK'
  <1>1. todo' = << <<a, e>> >> /\ status' = "running" /\ diagnosed' = diagnosed
    BY DEF CallUnify
  <1> QED BY <1>1 DEF UnificationInv, CallsOK

(* A step of the caller that leaves no call running. *)
LEMMA ProceedKeepsCalls ==
  ASSUME UnificationInv, Proceed, diagnosed' \in BOOLEAN
  PROVE  CallsOK'
  <1>1. todo = << >>
    BY DEF UnificationInv, CallsOK, Proceed
  <1> QED BY <1>1 DEF CallsOK, Proceed

-----------------------------------------------------------------------------
(***************************************************************************)
(* Values of types.  Denotes and Materialized go down the table in the     *)
(* same way; a value is given to each type that refers to no other, and    *)
(* strict says that a function has none unless its two types have.         *)
(***************************************************************************)
Combined(strict, x, y) ==
  IF strict /\ NoConcreteType \in {x, y} THEN NoConcreteType ELSE <<"function", x, y>>

ValueAt(g, strict, leaf, d, i) ==
  IF Bound(g, i) THEN d[g[i].binding]
  ELSE IF IsFunction(g, i) THEN Combined(strict, d[g[i].parameter], d[g[i].result])
  ELSE leaf[i]

Evaluates(g, strict, leaf, C, d) == \A i \in C : d[i] = ValueAt(g, strict, leaf, d, i)

Closed(g, C) == C \subseteq Ids(g) /\ \A i \in C : Succ(g, i) \subseteq C

IsEvaluation(g, strict, leaf, v) ==
  v = [i \in Ids(g) |-> ValueAt(g, strict, leaf, v, i)]

(* The value depends on the types at the successors only. *)
LEMMA ValueAtSame ==
  ASSUME NEW g, NEW strict, NEW leaf, NEW d, NEW e, NEW i,
         \A j \in Succ(g, i) : d[j] = e[j]
  PROVE  ValueAt(g, strict, leaf, d, i) = ValueAt(g, strict, leaf, e, i)
  BY DEF ValueAt, Succ

(* Two evaluations agree where both are defined. *)
LEMMA ValuesUnique ==
  ASSUME NEW g, InRange(g), AcyclicGraph(g), NEW strict, NEW leaf,
         NEW C, Closed(g, C), NEW d, Evaluates(g, strict, leaf, C, d),
         NEW D, Closed(g, D), NEW e, Evaluates(g, strict, leaf, D, e)
  PROVE  \A i \in C \cap D : d[i] = e[i]
  <1> DEFINE S == {i \in Ids(g) : i \in C \cap D => d[i] = e[i]}
  <1>1. ASSUME NEW i \in Ids(g), Succ(g, i) \subseteq S PROVE i \in S
    <2> SUFFICES ASSUME i \in C \cap D PROVE d[i] = e[i]
      OBVIOUS
    <2>1. \A j \in Succ(g, i) : d[j] = e[j]
      BY <1>1 DEF Closed
    <2> QED BY <2>1, ValueAtSame DEF Evaluates
  <1>2. Ids(g) \subseteq S
    <2> HIDE DEF S
    <2> QED BY <1>1, GraphInduction
  <1> QED BY <1>2 DEF Closed

(***************************************************************************)
(* There is a value for every type of a table without cycles: the types    *)
(* with an evaluation of their successors have one themselves.             *)
(***************************************************************************)
LEMMA ValuesExist ==
  ASSUME NEW g, InRange(g), AcyclicGraph(g), NEW strict, NEW leaf
  PROVE  \E d : d = [i \in Ids(g) |-> ValueAt(g, strict, leaf, d, i)]
  <1> DEFINE Partly(i, C, d) == i \in C /\ Closed(g, C) /\ Evaluates(g, strict, leaf, C, d)
             S == {i \in Ids(g) : \E C, d : Partly(i, C, d)}
  <1>1. ASSUME NEW i \in Ids(g), Succ(g, i) \subseteq S PROVE i \in S
    <2>1. \E a, b \in Ids(g) \cup {NoType} :
            /\ Succ(g, i) = {a, b} \ {NoType} /\ NoType \notin Ids(g)
      <3>1. NoType \notin Ids(g) /\ Succ(g, i) \subseteq Ids(g)
        BY DEF Ids, NoType, InRange
      <3> QED BY <3>1 DEF Succ
    <2>2. PICK a \in Ids(g) \cup {NoType}, b \in Ids(g) \cup {NoType} :
            Succ(g, i) = {a, b} \ {NoType} /\ NoType \notin Ids(g)
      BY <2>1
    <2>3. ASSUME NEW j \in {a, b}
          PROVE  \E C, d : /\ Closed(g, C) /\ Evaluates(g, strict, leaf, C, d)
                           /\ j # NoType => j \in C
      <3>1. CASE j = NoType
        <4>1. Closed(g, {}) /\ Evaluates(g, strict, leaf, {}, << >>)
          BY DEF Closed, Evaluates
        <4> QED BY <3>1, <4>1
      <3>2. CASE j # NoType
        BY <1>1, <2>2, <3>2
      <3> QED BY <3>1, <3>2
    <2>4. PICK A, d : /\ Closed(g, A) /\ Evaluates(g, strict, leaf, A, d)
                      /\ a # NoType => a \in A
      BY <2>3
    <2>5. PICK B, e : /\ Closed(g, B) /\ Evaluates(g, strict, leaf, B, e)
                      /\ b # NoType => b \in B
      BY <2>3
    <2>6. \A j \in A \cap B : d[j] = e[j]
      BY <2>4, <2>5, ValuesUnique
    <2> DEFINE u == [j \in A \cup B |-> IF j \in A THEN d[j] ELSE e[j]]
               C == A \cup B \cup {i}
               f == [j \in C |-> IF j \in A \cup B THEN u[j]
                                 ELSE ValueAt(g, strict, leaf, u, i)]
    <2>7. /\ A \subseteq C /\ \A j \in A : f[j] = d[j]
          /\ B \subseteq C /\ \A j \in B : f[j] = e[j]
          /\ \A j \in A \cup B : f[j] = u[j]
          /\ i \in C /\ \A j \in C : j \notin A \cup B =>
                           j = i /\ f[j] = ValueAt(g, strict, leaf, u, i)
      BY <2>6
    <2>8. Closed(g, C)
      BY <2>2, <2>4, <2>5 DEF Closed
    <2> HIDE DEF f, u, C
    <2>9. ASSUME NEW j \in C PROVE f[j] = ValueAt(g, strict, leaf, f, j)
      <3>1. CASE j \in A
        <4>1. \A k \in Succ(g, j) : d[k] = f[k]
          BY <2>4, <2>7, <3>1 DEF Closed
        <4>2. ValueAt(g, strict, leaf, d, j) = ValueAt(g, strict, leaf, f, j)
          BY <4>1, ValueAtSame
        <4> QED BY <2>4, <2>7, <3>1, <4>2 DEF Evaluates
      <3>2. CASE j \in B
        <4>1. \A k \in Succ(g, j) : e[k] = f[k]
          BY <2>5, <2>7, <3>2 DEF Closed
        <4>2. ValueAt(g, strict, leaf, e, j) = ValueAt(g, strict, leaf, f, j)
          BY <4>1, ValueAtSame
        <4> QED BY <2>5, <2>7, <3>2, <4>2 DEF Evaluates
      <3>3. CASE j \notin A \cup B
        <4>1. j = i /\ f[j] = ValueAt(g, strict, leaf, u, i)
          BY <2>7, <3>3
        <4>2. Succ(g, i) \subseteq A \cup B
          BY <2>2, <2>4, <2>5
        <4>3. \A k \in Succ(g, i) : u[k] = f[k]
          BY <2>7, <4>2
        <4>4. ValueAt(g, strict, leaf, u, i) = ValueAt(g, strict, leaf, f, i)
          BY <4>3, ValueAtSame
        <4> QED BY <4>1, <4>4
      <3> QED BY <3>1, <3>2, <3>3
    <2>10. Evaluates(g, strict, leaf, C, f)
      BY <2>9 DEF Evaluates
    <2> QED BY <2>7, <2>8, <2>10
  <1>2. Ids(g) \subseteq S
    <2> HIDE DEF S
    <2> QED BY <1>1, GraphInduction
  <1> DEFINE dom(i) == CHOOSE C : \E d : Partly(i, C, d)
             val(i) == CHOOSE d : Partly(i, dom(i), d)
             v == [i \in Ids(g) |-> val(i)[i]]
  <1>3. \A i \in Ids(g) : Partly(i, dom(i), val(i))
    BY <1>2
  <1> HIDE DEF dom, val
  <1>4. ASSUME NEW i \in Ids(g) PROVE v[i] = ValueAt(g, strict, leaf, v, i)
    <2>1. Partly(i, dom(i), val(i))
      BY <1>3
    <2>2. ASSUME NEW j \in Succ(g, i) PROVE val(i)[j] = v[j]
      <3>1. j \in Ids(g) /\ j \in dom(i)
        BY <2>1 DEF Closed
      <3>2. Partly(j, dom(j), val(j))
        BY <1>3, <3>1
      <3>3. val(i)[j] = val(j)[j]
        BY <2>1, <3>1, <3>2, ValuesUnique
      <3> QED BY <3>1, <3>3
    <2>3. val(i)[i] = ValueAt(g, strict, leaf, val(i), i)
      BY <2>1 DEF Evaluates
    <2> QED BY <2>2, <2>3, ValueAtSame
  <1> HIDE DEF v
  <1>5. v = [i \in Ids(g) |-> ValueAt(g, strict, leaf, v, i)]
    <2>1. v = [i \in Ids(g) |-> v[i]]
      BY DEF v
    <2> QED BY <1>4, <2>1
  <1> QED BY <1>5
-----------------------------------------------------------------------------
(* What Int and the data types denote. *)
ConcreteLeaf(e) == IF e.kind = "int" THEN <<"int">> ELSE <<"data", e.symbol>>

(* The values that Denotes and Materialized start from. *)
TermLeaf(g, instance) ==
  [i \in Ids(g) |-> IF IsVar(g, i) THEN instance[i] ELSE ConcreteLeaf(g[i])]

TypeLeaf(g) ==
  [i \in Ids(g) |-> IF IsVar(g, i) THEN NoConcreteType ELSE ConcreteLeaf(g[i])]

(* An entry is one of the four alternatives. *)
LEMMA EntryKinds ==
  ASSUME NEW g, WellFormed(g), NEW i \in Ids(g)
  PROVE  /\ g[i] \in Entry /\ g[i].kind \in {"int", "data", "function", "var"}
         /\ IsFunction(g, i) => ~IsVar(g, i) /\ ~Bound(g, i)
         /\ Bound(g, i) => IsVar(g, i)
         /\ i \in Unbound(g) <=> IsVar(g, i) /\ ~Bound(g, i)
  <1>1. g[i] \in Entry
    BY DEF WellFormed, Ids
  <1> QED BY <1>1 DEF Entry, IsFunction, IsVar, Bound, Unbound

(* Denotes is the evaluation whose leaves are the instance's. *)
LEMMA DenotesEvaluates ==
  ASSUME NEW g, WellFormed(g), NEW instance
  PROVE  IsEvaluation(g, FALSE, TermLeaf(g, instance), Denotes(g, instance))
  <1> DEFINE leaf == TermLeaf(g, instance)
             Body(term, i) ==
               CASE Bound(g, i)         -> term[g[i].binding]
                 [] i \in Unbound(g)    -> instance[i]
                 [] g[i].kind = "int"   -> <<"int">>
                 [] g[i].kind = "data"  -> <<"data", g[i].symbol>>
                 [] IsFunction(g, i)    ->
                      <<"function", term[g[i].parameter], term[g[i].result]>>
  <1>1. ASSUME NEW d, NEW i \in Ids(g)
        PROVE  Body(d, i) = ValueAt(g, FALSE, leaf, d, i)
    <2>1. g[i].kind \in {"int", "data", "function", "var"}
      BY EntryKinds
    <2>2. leaf[i] = IF IsVar(g, i) THEN instance[i] ELSE ConcreteLeaf(g[i])
      BY DEF TermLeaf
    <2> HIDE DEF leaf
    <2> QED BY <2>1, <2>2, EntryKinds
            DEF ValueAt, Combined, ConcreteLeaf, IsVar, IsFunction, Bound
  <1>2. PICK q : q = [i \in Ids(g) |-> ValueAt(g, FALSE, leaf, q, i)]
    <2> HIDE DEF leaf
    <2> QED BY ValuesExist DEF WellFormed
  <1> HIDE DEF leaf
  <1>3. q = [i \in Ids(g) |-> Body(q, i)]
    <2> HIDE DEF Body
    <2> QED BY <1>1, <1>2
  <1>4. Denotes(g, instance) = [i \in Ids(g) |-> Body(Denotes(g, instance), i)]
    BY <1>3, Zenon DEF Denotes
  <1> HIDE DEF Body
  <1>5. Denotes(g, instance)
          = [i \in Ids(g) |-> ValueAt(g, FALSE, leaf, Denotes(g, instance), i)]
    BY <1>1, <1>4
  <1> QED BY <1>5 DEF leaf, IsEvaluation

(* Materialized is the strict evaluation, in which a free variable has no value. *)
LEMMA MaterializedEvaluates ==
  ASSUME NEW g, WellFormed(g)
  PROVE  IsEvaluation(g, TRUE, TypeLeaf(g), Materialized(g))
  <1> DEFINE leaf == TypeLeaf(g)
             Body(type, i) ==
               CASE Bound(g, i)         -> type[g[i].binding]
                 [] g[i].kind = "int"   -> <<"int">>
                 [] g[i].kind = "data"  -> <<"data", g[i].symbol>>
                 [] IsFunction(g, i)    ->
                      IF NoConcreteType \in {type[g[i].parameter], type[g[i].result]}
                      THEN NoConcreteType
                      ELSE <<"function", type[g[i].parameter], type[g[i].result]>>
                 [] OTHER               -> NoConcreteType
  <1>1. ASSUME NEW d, NEW i \in Ids(g)
        PROVE  Body(d, i) = ValueAt(g, TRUE, leaf, d, i)
    <2>1. g[i].kind \in {"int", "data", "function", "var"}
      BY EntryKinds
    <2>2. leaf[i] = IF IsVar(g, i) THEN NoConcreteType ELSE ConcreteLeaf(g[i])
      BY DEF TypeLeaf
    <2> HIDE DEF leaf
    <2> QED BY <2>1, <2>2, EntryKinds
            DEF ValueAt, Combined, ConcreteLeaf, IsVar, IsFunction, Bound
  <1>2. PICK q : q = [i \in Ids(g) |-> ValueAt(g, TRUE, leaf, q, i)]
    <2> HIDE DEF leaf
    <2> QED BY ValuesExist DEF WellFormed
  <1> HIDE DEF leaf
  <1>3. q = [i \in Ids(g) |-> Body(q, i)]
    <2> HIDE DEF Body
    <2> QED BY <1>1, <1>2
  <1>4. Materialized(g) = [i \in Ids(g) |-> Body(Materialized(g), i)]
    BY <1>3, Zenon DEF Materialized
  <1> HIDE DEF Body
  <1>5. Materialized(g)
          = [i \in Ids(g) |-> ValueAt(g, TRUE, leaf, Materialized(g), i)]
    BY <1>1, <1>4
  <1> QED BY <1>5 DEF leaf, IsEvaluation
-----------------------------------------------------------------------------
(***************************************************************************)
(* d gives every entry but the free variables the value its entry says: d  *)
(* is the table read with some instance of the free variables.             *)
(***************************************************************************)
Model(g, d) ==
  \A i \in Ids(g) \ Unbound(g) :
    d[i] = IF Bound(g, i) THEN d[g[i].binding]
           ELSE IF IsFunction(g, i)
           THEN <<"function", d[g[i].parameter], d[g[i].result]>>
           ELSE ConcreteLeaf(g[i])

(* Denotes is a model, and the only one with its instance. *)
LEMMA DenotesIsModel ==
  ASSUME NEW g, WellFormed(g), NEW instance
  PROVE  /\ Denotes(g, instance) = [i \in Ids(g) |-> Denotes(g, instance)[i]]
         /\ Model(g, Denotes(g, instance))
         /\ \A v \in Unbound(g) : Denotes(g, instance)[v] = instance[v]
  <1> DEFINE d == Denotes(g, instance)
             leaf == TermLeaf(g, instance)
  <1>1. d = [i \in Ids(g) |-> ValueAt(g, FALSE, leaf, d, i)]
    BY DenotesEvaluates DEF IsEvaluation
  <1>2. \A i \in Ids(g) :
          leaf[i] = IF IsVar(g, i) THEN instance[i] ELSE ConcreteLeaf(g[i])
    BY DEF TermLeaf
  <1> HIDE DEF d, leaf
  <1>3. \A i \in Ids(g) : d[i] = ValueAt(g, FALSE, leaf, d, i)
    BY <1>1
  <1>4. ASSUME NEW i \in Ids(g) \ Unbound(g)
        PROVE  d[i] = IF Bound(g, i) THEN d[g[i].binding]
                      ELSE IF IsFunction(g, i)
                      THEN <<"function", d[g[i].parameter], d[g[i].result]>>
                      ELSE ConcreteLeaf(g[i])
    BY <1>2, <1>3, EntryKinds DEF ValueAt, Combined
  <1>5. ASSUME NEW v \in Unbound(g) PROVE d[v] = instance[v]
    <2>1. v \in Ids(g)
      BY DEF Unbound
    <2> QED BY <1>2, <1>3, <2>1, EntryKinds DEF ValueAt
  <1>6. d = [i \in Ids(g) |-> d[i]]
    BY <1>1
  <1>7. Model(g, d)
    BY <1>4 DEF Model
  <1> QED BY <1>5, <1>6, <1>7 DEF d

LEMMA ModelIsDenotes ==
  ASSUME NEW g, WellFormed(g), NEW instance, NEW d, Model(g, d),
         \A v \in Unbound(g) : d[v] = instance[v]
  PROVE  \A i \in Ids(g) : d[i] = Denotes(g, instance)[i]
  <1> DEFINE leaf == TermLeaf(g, instance)
             e == Denotes(g, instance)
  <1>1. IsEvaluation(g, FALSE, leaf, e)
    BY DenotesEvaluates
  <1>2. \A i \in Ids(g) :
          leaf[i] = IF IsVar(g, i) THEN instance[i] ELSE ConcreteLeaf(g[i])
    BY DEF TermLeaf
  <1> HIDE DEF e, leaf
  <1>3. Evaluates(g, FALSE, leaf, Ids(g), e)
    BY <1>1 DEF Evaluates, IsEvaluation
  <1>4. Evaluates(g, FALSE, leaf, Ids(g), d)
    <2> SUFFICES ASSUME NEW i \in Ids(g) PROVE d[i] = ValueAt(g, FALSE, leaf, d, i)
      BY DEF Evaluates
    <2>1. CASE i \in Unbound(g)
      BY <1>2, <2>1, EntryKinds DEF ValueAt
    <2>2. CASE i \notin Unbound(g)
      <3>1. d[i] = IF Bound(g, i) THEN d[g[i].binding]
                   ELSE IF IsFunction(g, i)
                   THEN <<"function", d[g[i].parameter], d[g[i].result]>>
                   ELSE ConcreteLeaf(g[i])
        BY <2>2 DEF Model
      <3>2. Bound(g, i) \/ ~IsVar(g, i)
        BY <2>2, EntryKinds
      <3> QED BY <1>2, <3>1, <3>2 DEF ValueAt, Combined
    <2> QED BY <2>1, <2>2
  <1>5. Closed(g, Ids(g))
    BY DEF Closed, WellFormed, InRange
  <1>6. \A i \in Ids(g) \cap Ids(g) : d[i] = e[i]
    <2>1. InRange(g) /\ AcyclicGraph(g)
      BY DEF WellFormed
    <2> DEFINE C == Ids(g)
               strict == FALSE
    <2>2. Evaluates(g, strict, leaf, C, e) /\ Evaluates(g, strict, leaf, C, d)
      BY <1>3, <1>4
    <2>3. Closed(g, C)
      BY <1>5
    <2>4. \A i \in C \cap C : d[i] = e[i]
      <3> HIDE DEF C, strict
      <3> QED BY <2>1, <2>2, <2>3, ValuesUnique
    <2> QED BY <2>4
  <1> QED BY <1>6 DEF e

(* What a model says of an entry, one kind at a time. *)
LEMMA ModelFacts ==
  ASSUME NEW g, WellFormed(g), NEW d, Model(g, d), NEW i \in Ids(g)
  PROVE  /\ Bound(g, i) => d[i] = d[g[i].binding]
         /\ IsFunction(g, i) => d[i] = <<"function", d[g[i].parameter], d[g[i].result]>>
         /\ g[i].kind = "int" => d[i] = <<"int">>
         /\ g[i].kind = "data" => d[i] = <<"data", g[i].symbol>>
  <1>1. i \in Unbound(g) => g[i].kind = "var" /\ ~Bound(g, i)
    BY DEF Unbound, IsVar
  <1>2. CASE i \in Unbound(g)
    BY <1>1, <1>2 DEF IsFunction
  <1>3. CASE i \notin Unbound(g)
    <2>1. d[i] = IF Bound(g, i) THEN d[g[i].binding]
                 ELSE IF IsFunction(g, i)
                 THEN <<"function", d[g[i].parameter], d[g[i].result]>>
                 ELSE ConcreteLeaf(g[i])
      BY <1>3 DEF Model
    <2> QED BY <2>1, EntryKinds DEF Bound, IsVar, IsFunction, ConcreteLeaf
  <1> QED BY <1>2, <1>3

(* In a model a type has the value of the end of its chain. *)
LEMMA ModelRoot ==
  ASSUME NEW g, WellFormed(g), NEW d, Model(g, d)
  PROVE  \A i \in Ids(g) : d[i] = d[Root(g)[i]]
  <1> DEFINE S == {i \in Ids(g) : d[i] = d[Root(g)[i]]}
  <1>1. ASSUME NEW i \in Ids(g), Succ(g, i) \subseteq S PROVE i \in S
    <2>1. Root(g)[i] = IF Bound(g, i) THEN Root(g)[g[i].binding] ELSE i
      BY RootFacts
    <2>2. Bound(g, i) => g[i].binding \in S
      BY <1>1 DEF Succ
    <2> QED BY <2>1, <2>2, ModelFacts
  <1>2. InRange(g) /\ AcyclicGraph(g)
    BY DEF WellFormed
  <1>3. Ids(g) \subseteq S
    <2> HIDE DEF S
    <2> QED BY <1>1, <1>2, GraphInduction
  <1> QED BY <1>3

(* Path compression changes no value of a type. *)
LEMMA CompressKeepsModels ==
  ASSUME NEW g, WellFormed(g), NEW h, RedirectedExcept(g, h, {}), NEW d
  PROVE  Model(g, d) <=> Model(h, d)
  <1>1. /\ WellFormed(h) /\ Ids(h) = Ids(g) /\ Root(h) = Root(g)
        /\ \A i \in Ids(g) : Bound(h, i) <=> Bound(g, i)
    BY CompressWellFormed
  <1>2. ASSUME NEW i \in Ids(g)
        PROVE  h[i] = g[i] \/ (Bound(g, i) /\ h[i].binding = Root(g)[i])
    <2>1. h[i] = g[i] \/ (Bound(g, i) /\ h[i] = VarEntry(Root(g)[i]))
      BY DEF RedirectedExcept
    <2> QED BY <2>1 DEF VarEntry
  <1>3. ASSUME NEW i \in Ids(g)
        PROVE  (IsVar(h, i) <=> IsVar(g, i)) /\ (IsFunction(h, i) <=> IsFunction(g, i))
    <2>1. h[i] = g[i] \/ (Bound(g, i) /\ h[i] = VarEntry(Root(g)[i]))
      BY DEF RedirectedExcept
    <2> QED BY <2>1 DEF VarEntry, Bound, IsVar, IsFunction
  <1>4. Unbound(h) = Unbound(g)
    BY <1>1, <1>3 DEF Unbound
  <1>5. ASSUME Model(g, d), NEW i \in Ids(h) \ Unbound(h)
        PROVE  d[i] = IF Bound(h, i) THEN d[h[i].binding]
                      ELSE IF IsFunction(h, i)
                      THEN <<"function", d[h[i].parameter], d[h[i].result]>>
                      ELSE ConcreteLeaf(h[i])
    <2>1. d[i] = d[Root(g)[i]]
      BY <1>1, <1>5, ModelRoot
    <2>2. d[i] = IF Bound(g, i) THEN d[g[i].binding]
                 ELSE IF IsFunction(g, i)
                 THEN <<"function", d[g[i].parameter], d[g[i].result]>>
                 ELSE ConcreteLeaf(g[i])
      BY <1>1, <1>4, <1>5 DEF Model
    <2> QED BY <1>1, <1>2, <1>3, <1>5, <2>1, <2>2
  <1>6. ASSUME Model(h, d), NEW i \in Ids(g) \ Unbound(g)
        PROVE  d[i] = IF Bound(g, i) THEN d[g[i].binding]
                      ELSE IF IsFunction(g, i)
                      THEN <<"function", d[g[i].parameter], d[g[i].result]>>
                      ELSE ConcreteLeaf(g[i])
    <2>1. d[i] = IF Bound(h, i) THEN d[h[i].binding]
                 ELSE IF IsFunction(h, i)
                 THEN <<"function", d[h[i].parameter], d[h[i].result]>>
                 ELSE ConcreteLeaf(h[i])
      BY <1>1, <1>4, <1>6 DEF Model
    <2>2. CASE Bound(g, i)
      <3>1. g[i].binding \in Ids(g)
        BY <2>2 DEF WellFormed, InRange, Succ
      <3>2. Root(g)[i] = Root(g)[g[i].binding]
        BY <2>2, RootFacts
      <3>3. d[i] = d[Root(g)[i]] /\ d[g[i].binding] = d[Root(g)[g[i].binding]]
        BY <1>1, <1>6, <3>1, ModelRoot
      <3> QED BY <2>2, <3>2, <3>3
    <2>3. CASE ~Bound(g, i)
      BY <1>1, <1>2, <1>3, <2>1, <2>3
    <2> QED BY <2>2, <2>3
  <1> QED BY <1>5, <1>6 DEF Model

(* Binding v to t leaves the models in which the two are equal. *)
LEMMA BindKeepsModels ==
  ASSUME WellFormed(types), NEW v \in Ids(types), NEW t \in Ids(types),
         Bind(v, t), NEW d
  PROVE  Model(types', d) <=> Model(types, d) /\ d[v] = d[t]
  <1> DEFINE g == types
             h == types'
  <1>1. /\ WellFormed(h) /\ Ids(h) = Ids(g)
        /\ \A i \in Ids(g) :
             Root(h)[i] = IF Root(g)[i] = v THEN t ELSE Root(g)[i]
    BY BindStep
  <1>2. /\ IsVar(g, v) /\ ~Bound(g, v) /\ h[v] = VarEntry(t)
        /\ RedirectedExcept(g, h, {v})
    BY DEF Bind
  <1>3. /\ Bound(h, v) /\ h[v].binding = t /\ ~IsFunction(h, v)
    <2>1. t \in Nat \ {0}
      BY DEF Ids, WellFormed
    <2> HIDE DEF h
    <2> QED BY <1>2, <2>1, VarEntryFacts
  <1>4. ASSUME NEW i \in Ids(g) \ {v}
        PROVE  \/ h[i] = g[i]
               \/ Bound(g, i) /\ Bound(h, i) /\ h[i].binding = Root(g)[i]
    <2>1. h[i] = g[i] \/ (Bound(g, i) /\ h[i] = VarEntry(Root(g)[i]))
      BY <1>2 DEF RedirectedExcept
    <2>2. Root(g)[i] \in Nat \ {0}
      BY RootFacts DEF Ids
    <2> QED BY <2>1, <2>2, VarEntryFacts
  <1>5. ASSUME NEW i \in Ids(g) \ {v}
        PROVE  /\ Bound(h, i) <=> Bound(g, i)
               /\ ~Bound(g, i) => h[i] = g[i]
               /\ i \in Unbound(h) <=> i \in Unbound(g)
    BY <1>1, <1>4 DEF Bound, IsVar, Unbound
  <1>6. v \in Unbound(g) /\ v \notin Unbound(h)
    BY <1>2, <1>3 DEF Unbound
  <1> HIDE DEF g, h
  <1>7. ASSUME Model(g, d), d[v] = d[t], NEW i \in Ids(h) \ Unbound(h)
        PROVE  d[i] = IF Bound(h, i) THEN d[h[i].binding]
                      ELSE IF IsFunction(h, i)
                      THEN <<"function", d[h[i].parameter], d[h[i].result]>>
                      ELSE ConcreteLeaf(h[i])
    <2>1. CASE i = v
      BY <1>3, <1>7, <2>1
    <2>2. CASE i # v
      <3>1. WellFormed(g) /\ i \in Ids(g) \ {v}
        BY <1>1, <2>2 DEF g
      <3>2. d[i] = d[Root(g)[i]]
        BY <1>7, <3>1, ModelRoot
      <3>3. d[i] = IF Bound(g, i) THEN d[g[i].binding]
                   ELSE IF IsFunction(g, i)
                   THEN <<"function", d[g[i].parameter], d[g[i].result]>>
                   ELSE ConcreteLeaf(g[i])
        BY <1>5, <1>7, <3>1 DEF Model
      <3>4. CASE Bound(g, i)
        BY <1>4, <1>5, <3>1, <3>2, <3>3, <3>4
      <3>5. CASE ~Bound(g, i)
        <4>1. h[i] = g[i] /\ ~Bound(h, i)
          BY <1>5, <3>1, <3>5
        <4> QED BY <3>3, <3>5, <4>1 DEF IsFunction
      <3> QED BY <3>4, <3>5
    <2> QED BY <2>1, <2>2
  <1>8. ASSUME Model(h, d), NEW i \in Ids(g) \ Unbound(g)
        PROVE  d[i] = IF Bound(g, i) THEN d[g[i].binding]
                      ELSE IF IsFunction(g, i)
                      THEN <<"function", d[g[i].parameter], d[g[i].result]>>
                      ELSE ConcreteLeaf(g[i])
    <2>1. WellFormed(g) /\ i \in Ids(g) \ {v}
      BY <1>6 DEF g
    <2>2. d[i] = IF Bound(h, i) THEN d[h[i].binding]
                 ELSE IF IsFunction(h, i)
                 THEN <<"function", d[h[i].parameter], d[h[i].result]>>
                 ELSE ConcreteLeaf(h[i])
      BY <1>1, <1>5, <1>8, <2>1 DEF Model
    <2>3. CASE Bound(g, i)
      <3>1. g[i].binding \in Ids(g)
        BY <2>1, <2>3 DEF WellFormed, InRange, Succ
      <3>2. Root(g)[i] = Root(g)[g[i].binding]
        BY <2>1, <2>3, RootFacts
      <3>3. Root(h)[i] = Root(h)[g[i].binding]
        BY <1>1, <3>1, <3>2
      <3>4. d[i] = d[Root(h)[i]] /\ d[g[i].binding] = d[Root(h)[g[i].binding]]
        BY <1>1, <1>8, <3>1, ModelRoot
      <3> QED BY <2>3, <3>3, <3>4
    <2>4. CASE ~Bound(g, i)
      <3>1. h[i] = g[i] /\ ~Bound(h, i)
        BY <1>5, <2>1, <2>4
      <3> QED BY <2>2, <2>4, <3>1 DEF IsFunction
    <2> QED BY <2>3, <2>4
  <1>9. Model(h, d) => d[v] = d[t]
    <2>1. v \in Ids(h)
      BY <1>1 DEF g
    <2> QED BY <1>1, <1>3, <2>1, ModelFacts
  <1>10. Model(h, d) <=> Model(g, d) /\ d[v] = d[t]
    BY <1>7, <1>8, <1>9 DEF Model
  <1> QED BY <1>10 DEF g, h
-----------------------------------------------------------------------------
(* d solves the pending calls: it makes the two types of each equal. *)
Solves(calls, d) == \A k \in 1..Len(calls) : d[calls[k][1]] = d[calls[k][2]]

(* The first call and the others. *)
LEMMA SolvesFirst ==
  ASSUME NEW P, NEW calls \in Seq(P), calls # << >>, NEW d
  PROVE  Solves(calls, d) <=> /\ d[Head(calls)[1]] = d[Head(calls)[2]]
                              /\ Solves(Tail(calls), d)
  <1>1. /\ Len(calls) \in Nat \ {0} /\ Len(Tail(calls)) = Len(calls) - 1
        /\ Head(calls) = calls[1]
        /\ \A k \in 1..Len(Tail(calls)) : Tail(calls)[k] = calls[k + 1]
    OBVIOUS
  <1>2. ASSUME Solves(calls, d)
        PROVE  d[Head(calls)[1]] = d[Head(calls)[2]] /\ Solves(Tail(calls), d)
    <2>1. \A k \in 1..Len(Tail(calls)) : k + 1 \in 1..Len(calls)
      BY <1>1
    <2> QED BY <1>1, <1>2, <2>1 DEF Solves
  <1>3. ASSUME d[Head(calls)[1]] = d[Head(calls)[2]], Solves(Tail(calls), d),
               NEW k \in 1..Len(calls)
        PROVE  d[calls[k][1]] = d[calls[k][2]]
    <2>1. CASE k = 1
      BY <1>1, <1>3, <2>1
    <2>2. CASE k # 1
      <3>1. k - 1 \in 1..Len(Tail(calls)) /\ (k - 1) + 1 = k
        BY <1>1, <2>2
      <3>2. Tail(calls)[k - 1] = calls[k]
        BY <1>1, <3>1
      <3> QED BY <1>3, <3>1, <3>2 DEF Solves
    <2> QED BY <2>1, <2>2
  <1> QED BY <1>2, <1>3 DEF Solves

(* Two calls that go before the others. *)
LEMMA SolvesTwo ==
  ASSUME NEW P, NEW rest \in Seq(P), NEW x \in P, NEW y \in P, NEW d
  PROVE  Solves(<<x, y>> \o rest, d) <=> /\ d[x[1]] = d[x[2]] /\ d[y[1]] = d[y[2]]
                                         /\ Solves(rest, d)
  <1> DEFINE all == <<x, y>> \o rest
  <1>1. all \in Seq(P) /\ all # << >> /\ Head(all) = x
    OBVIOUS
  <1>2. Tail(all) \in Seq(P) /\ Tail(all) # << >> /\ Head(Tail(all)) = y
    OBVIOUS
  <1>3. Tail(Tail(all)) = rest
    OBVIOUS
  <1> HIDE DEF all
  <1>4. Solves(all, d) <=> d[x[1]] = d[x[2]] /\ Solves(Tail(all), d)
    BY <1>1, SolvesFirst
  <1>5. Solves(Tail(all), d) <=> d[y[1]] = d[y[2]] /\ Solves(rest, d)
    BY <1>2, <1>3, SolvesFirst
  <1> QED BY <1>4, <1>5 DEF all

(***************************************************************************)
(* A step of tryUnify that does not fail changes the table and the pending *)
(* calls and keeps their solutions: what solves them after the step solves *)
(* them before it, and the other way round.                                *)
(***************************************************************************)
LEMMA StepKeepsSolutions ==
  ASSUME UnificationInv, TryUnify, status' # "mismatch", NEW d
  PROVE  Model(types', d) /\ Solves(todo', d) <=> Model(types, d) /\ Solves(todo, d)
  <1> DEFINE P == Ids(types) \X Ids(types)
             p == Head(todo)
             a == Root(types)[p[1]]
             e == Root(types)[p[2]]
  <1>1. /\ todo # << >> /\ p \in P
        /\ a \in Ids(types) /\ e \in Ids(types)
        /\ \/ Binds(a, e) \/ Binds(e, a)
           \/ Contains(a, e) \/ Contains(e, a)
           \/ Equal(a, e) \/ Splits(a, e) \/ Clashes(a, e)
    BY TryUnifyCases
  <1>2. WellFormed(types) /\ todo \in Seq(P) /\ Tail(todo) \in Seq(P)
    <2> HIDE DEF P
    <2>1. todo \in Seq(P)
      BY DEF UnificationInv, CallsOK, P
    <2> QED BY <1>1, <2>1 DEF UnificationInv
  <1>3. Solves(todo, d) <=> d[p[1]] = d[p[2]] /\ Solves(Tail(todo), d)
    BY <1>1, <1>2, SolvesFirst
  <1>4. p[1] \in Ids(types) /\ p[2] \in Ids(types)
    BY <1>1
  <1>5. Model(types, d) => d[p[1]] = d[a] /\ d[p[2]] = d[e]
    BY <1>2, <1>4, ModelRoot
  <1> HIDE DEF P, p, a, e
  <1>6. Compress => (Model(types', d) <=> Model(types, d))
    BY <1>2, CompressKeepsModels DEF Compress
  <1>7. CASE Binds(a, e) \/ Binds(e, a)
    <2>1. todo' = Tail(todo)
      BY <1>7 DEF Binds, ReturnTrue
    <2>2. Model(types', d) <=> Model(types, d) /\ d[a] = d[e]
      BY <1>1, <1>2, <1>7, BindKeepsModels DEF Binds
    <2> QED BY <1>3, <1>5, <2>1, <2>2
  <1>8. CASE Equal(a, e)
    <2>1. todo' = Tail(todo)
      BY <1>8 DEF Equal, ReturnTrue
    <2>2. Model(types, d) => d[a] = d[e]
      BY <1>1, <1>2, <1>8, ModelFacts DEF Equal, SameLeaf
    <2> QED BY <1>3, <1>5, <1>6, <1>8, <2>1, <2>2 DEF Equal
  <1>9. CASE Splits(a, e)
    <2> DEFINE x == <<types[a].parameter, types[e].parameter>>
               y == <<types[a].result, types[e].result>>
    <2>1. /\ types[a].parameter \in Ids(types) /\ types[a].result \in Ids(types)
          /\ types[e].parameter \in Ids(types) /\ types[e].result \in Ids(types)
      BY <1>1, <1>2, <1>9, EntryKinds DEF Splits, WellFormed, InRange, Succ
    <2>2. x \in P /\ y \in P
      BY <2>1 DEF P
    <2>3. todo' = <<x, y>> \o Tail(todo)
      BY <1>9 DEF Splits, Components
    <2>4. /\ x[1] = types[a].parameter /\ x[2] = types[e].parameter
          /\ y[1] = types[a].result /\ y[2] = types[e].result
      OBVIOUS
    <2> HIDE DEF x, y
    <2>5. Solves(todo', d) <=> d[x[1]] = d[x[2]] /\ d[y[1]] = d[y[2]] /\ Solves(Tail(todo), d)
      BY <1>2, <2>2, <2>3, SolvesTwo
    <2>6. ASSUME Model(types, d)
          PROVE  /\ d[a] = <<"function", d[x[1]], d[y[1]]>>
                 /\ d[e] = <<"function", d[x[2]], d[y[2]]>>
      BY <1>1, <1>2, <1>9, <2>4, <2>6, ModelFacts DEF Splits
    <2>7. Model(types, d) => (d[a] = d[e] <=> d[x[1]] = d[x[2]] /\ d[y[1]] = d[y[2]])
      BY <2>6
    <2> QED BY <1>3, <1>5, <1>6, <1>9, <2>5, <2>7 DEF Splits
  <1>10. ~Contains(a, e) /\ ~Contains(e, a) /\ ~Clashes(a, e)
    BY DEF Contains, Clashes, ReturnFalse
  <1> QED BY <1>1, <1>7, <1>8, <1>9, <1>10
-----------------------------------------------------------------------------
(***************************************************************************)
(* A set of types of finite size, the only ones that instances are made    *)
(* of: the components of a function type are in the set and smaller.       *)
(***************************************************************************)
FiniteTypes(T, size) ==
  /\ size \in [T -> Nat]
  /\ \A x, y : <<"function", x, y>> \in T =>
       /\ x \in T /\ size[x] < size[<<"function", x, y>>]
       /\ y \in T /\ size[y] < size[<<"function", x, y>>]

(* A type in which a variable occurs is larger than the variable's value. *)
LEMMA OccursIsSmaller ==
  ASSUME NEW g, WellFormed(g), NEW d, Model(g, d), NEW T, NEW size, FiniteTypes(T, size),
         NEW v \in Unbound(g)
  PROVE  \A i \in Ids(g) :
           d[i] \in T /\ v \in Reps(g)[i] =>
             /\ d[v] \in T /\ size[d[v]] <= size[d[i]]
             /\ Root(g)[i] # v => size[d[v]] < size[d[i]]
  <1> DEFINE Below(i) == /\ d[v] \in T /\ size[d[v]] <= size[d[i]]
                         /\ Root(g)[i] # v => size[d[v]] < size[d[i]]
             S == {i \in Ids(g) : d[i] \in T /\ v \in Reps(g)[i] => Below(i)}
  <1>1. ASSUME NEW i \in Ids(g), Succ(g, i) \subseteq S PROVE i \in S
    <2> SUFFICES ASSUME d[i] \in T, v \in Reps(g)[i] PROVE Below(i)
      OBVIOUS
    <2>1. /\ Root(g)[i] = IF Bound(g, i) THEN Root(g)[g[i].binding] ELSE i
          /\ Bound(g, i) => Reps(g)[i] = Reps(g)[g[i].binding]
          /\ ~Bound(g, i) /\ IsFunction(g, i) =>
               Reps(g)[i] = {i} \cup Reps(g)[g[i].parameter] \cup Reps(g)[g[i].result]
          /\ ~Bound(g, i) /\ ~IsFunction(g, i) => Reps(g)[i] = {i}
      BY RootFacts, RepsFacts DEF UnfoldsReps
    <2>2. CASE Bound(g, i)
      <3>1. g[i].binding \in S
        BY <1>1, <2>2 DEF Succ
      <3>2. d[i] = d[g[i].binding]
        BY <2>2, ModelFacts
      <3> QED BY <2>1, <2>2, <3>1, <3>2
    <2>3. CASE ~Bound(g, i) /\ IsFunction(g, i)
      <3> DEFINE p == g[i].parameter
                 r == g[i].result
      <3>1. p \in S /\ r \in S
        BY <1>1, <2>3 DEF Succ
      <3>2. d[i] = <<"function", d[p], d[r]>>
        BY <2>3, ModelFacts
      <3>3. v # i
        BY <2>3 DEF Unbound, IsVar, IsFunction
      <3>4. v \in Reps(g)[p] \/ v \in Reps(g)[r]
        BY <2>1, <2>3, <3>3
      <3>5. /\ d[p] \in T /\ size[d[p]] < size[d[i]]
            /\ d[r] \in T /\ size[d[r]] < size[d[i]]
        BY <3>2 DEF FiniteTypes
      <3> HIDE DEF p, r
      <3>6. d[v] \in T /\ (size[d[v]] <= size[d[p]] \/ size[d[v]] <= size[d[r]])
        BY <3>1, <3>4, <3>5
      <3>7. {size[d[v]], size[d[p]], size[d[r]], size[d[i]]} \subseteq Nat
        BY <3>5, <3>6 DEF FiniteTypes
      <3>8. size[d[v]] < size[d[i]]
        BY <3>5, <3>6, <3>7
      <3> QED BY <3>6, <3>7, <3>8
    <2>4. CASE ~Bound(g, i) /\ ~IsFunction(g, i)
      <3>1. v = i /\ Root(g)[i] = v
        BY <2>1, <2>4
      <3>2. size[d[v]] \in Nat
        BY <3>1 DEF FiniteTypes
      <3> QED BY <3>1, <3>2
    <2> QED BY <2>2, <2>3, <2>4
  <1>2. InRange(g) /\ AcyclicGraph(g)
    BY DEF WellFormed
  <1>3. Ids(g) \subseteq S
    <2> HIDE DEF S
    <2> QED BY <1>1, <1>2, GraphInduction
  <1> QED BY <1>3

(***************************************************************************)
(* tryUnify returns false only when no instance solves the pending calls:  *)
(* a variable is not equal to a type that it occurs in, and Int, the data  *)
(* types and the function types are not equal to one another.              *)
(***************************************************************************)
LEMMA FailureHasNoSolution ==
  ASSUME UnificationInv, TryUnify, status' = "mismatch", NEW d,
         Model(types, d), Solves(todo, d), NEW T, NEW size, FiniteTypes(T, size),
         \A v \in Unbound(types) : d[v] \in T
  PROVE  FALSE
  <1> DEFINE P == Ids(types) \X Ids(types)
             p == Head(todo)
             a == Root(types)[p[1]]
             e == Root(types)[p[2]]
  <1>1. /\ todo # << >> /\ p \in P
        /\ a \in Ids(types) /\ e \in Ids(types)
        /\ ~Bound(types, a) /\ ~Bound(types, e)
        /\ \/ Binds(a, e) \/ Binds(e, a)
           \/ Contains(a, e) \/ Contains(e, a)
           \/ Equal(a, e) \/ Splits(a, e) \/ Clashes(a, e)
    BY TryUnifyCases
  <1>2. WellFormed(types)
    BY DEF UnificationInv
  <1>3. d[a] = d[e]
    <2>1. todo \in Seq(P)
      BY DEF UnificationInv, CallsOK
    <2>2. p[1] \in Ids(types) /\ p[2] \in Ids(types)
      BY <1>1
    <2>3. d[p[1]] = d[p[2]]
      <3> HIDE DEF P, a, e
      <3> QED BY <1>1, <2>1, SolvesFirst
    <2> QED BY <1>2, <2>2, <2>3, ModelRoot
  <1>4. status = "running"
    BY DEF TryUnify
  <1>r. \A i \in {a, e} : Root(types)[i] = i
    BY <1>1, <1>2, RootFacts
  <1> HIDE DEF P, p, a, e
  <1>5. ~Binds(a, e) /\ ~Binds(e, a) /\ ~Equal(a, e) /\ ~Splits(a, e)
    BY <1>4 DEF Binds, Equal, Splits, ReturnTrue
  <1>6. ASSUME NEW v \in {a, e}, NEW t \in {a, e}, Contains(v, t) PROVE FALSE
    <2>1. v # t /\ v \in Unbound(types) /\ v \in Reps(types)[t]
      BY <1>6 DEF Contains, Occurs
    <2>2. t \in Ids(types) /\ Root(types)[t] # v
      BY <1>1, <1>r, <2>1
    <2>3. d[v] = d[t]
      BY <1>3
    <2>4. d[v] \in T
      BY <2>1
    <2>5. size[d[v]] < size[d[t]] /\ size[d[v]] \in Nat
      BY <1>2, <2>1, <2>2, <2>3, <2>4, OccursIsSmaller DEF FiniteTypes
    <2> QED BY <2>3, <2>5
  <1>7. ASSUME Clashes(a, e) PROVE FALSE
    <2>1. /\ ~IsVar(types, a) /\ ~IsVar(types, e) /\ ~SameLeaf(types, a, e)
          /\ ~(IsFunction(types, a) /\ IsFunction(types, e))
      BY <1>7 DEF Clashes
    <2>2. types[a] \in Entry /\ types[e] \in Entry
      BY <1>1, <1>2, EntryKinds
    <2>3. /\ types[a].kind \in {"int", "data", "function"}
          /\ types[e].kind \in {"int", "data", "function"}
      BY <1>1, <1>2, <2>1, EntryKinds DEF IsVar
    <2>4. ~(types[a].kind = "function" /\ types[e].kind = "function")
      BY <2>1 DEF IsFunction
    <2>5. ~(types[a].kind = "int" /\ types[e].kind = "int")
      BY <2>1, <2>2 DEF SameLeaf, Entry
    <2>6. types[a].kind = "data" /\ types[e].kind = "data" =>
            types[a].symbol # types[e].symbol
      BY <2>1, <2>2 DEF SameLeaf, Entry
    <2>7. ASSUME NEW i \in {a, e}
          PROVE  /\ IsFunction(types, i) =>
                      d[i] = <<"function", d[types[i].parameter], d[types[i].result]>>
                 /\ types[i].kind = "int" => d[i] = <<"int">>
                 /\ types[i].kind = "data" => d[i] = <<"data", types[i].symbol>>
      BY <1>1, <1>2, <2>7, ModelFacts
    <2>8. \A x, y, z : /\ <<"int">> # <<"data", z>>
                       /\ <<"int">> # <<"function", x, y>>
                       /\ <<"data", z>> # <<"function", x, y>>
      OBVIOUS
    <2> QED BY <1>3, <2>3, <2>4, <2>5, <2>6, <2>7, <2>8 DEF IsFunction
  <1> QED BY <1>1, <1>5, <1>6, <1>7

-----------------------------------------------------------------------------
(***************************************************************************)
(* While unify runs, and when it has returned true, every solution of the  *)
(* calls still pending makes the two types of its call equal.              *)
(***************************************************************************)
SoundInv ==
  status \in {"running", "unified"} =>
    /\ request \in Ids(types) \X Ids(types)
    /\ \A d : Model(types, d) /\ Solves(todo, d) => d[request[1]] = d[request[2]]

LEMMA TryUnifyKeepsSoundInv ==
  ASSUME UnificationInv, SoundInv, TryUnify
  PROVE  SoundInv'
  <1> SUFFICES ASSUME status' \in {"running", "unified"}
               PROVE  /\ request' \in Ids(types') \X Ids(types')
                      /\ \A d : Model(types', d) /\ Solves(todo', d)
                                => d[request'[1]] = d[request'[2]]
    BY DEF SoundInv
  <1>1. status = "running" /\ request' = request
    BY DEF TryUnify, BindVariable, ReturnTrue, ReturnFalse
  <1>2. Ids(types) \subseteq Ids(types')
    BY TryUnifyIsGraphStep, GraphStep DEF UnificationInv
  <1>3. ASSUME NEW d, Model(types', d), Solves(todo', d)
        PROVE  d[request[1]] = d[request[2]]
    <2>1. Model(types, d) /\ Solves(todo, d)
      BY <1>3, StepKeepsSolutions
    <2> QED BY <1>1, <2>1 DEF SoundInv
  <1> QED BY <1>1, <1>2, <1>3 DEF SoundInv

LEMMA CallUnifyKeepsSoundInv ==
  ASSUME NEW a \in Ids(types'), NEW e \in Ids(types'), CallUnify(a, e)
  PROVE  SoundInv'
  <1>1. todo' = << <<a, e>> >> /\ request' = <<a, e>>
    BY DEF CallUnify
  <1>2. ASSUME NEW d, Solves(todo', d) PROVE d[a] = d[e]
    <2>1. 1 \in 1..Len(todo') /\ todo'[1] = <<a, e>>
      BY <1>1
    <2> QED BY <1>2, <2>1 DEF Solves
  <1> QED BY <1>1, <1>2 DEF SoundInv

(* At the end the table is read with its variables as they are. *)
LEMMA SoundAtTheEnd ==
  ASSUME UnificationInv, SoundInv
  PROVE  Sound
  <1> SUFFICES ASSUME status = "unified"
               PROVE  LET term == Denotes(types, [v \in Unbound(types) |-> <<"var", v>>])
                      IN  term[request[1]] = term[request[2]]
    BY DEF Sound
  <1>1. Len(todo) = 0
    BY DEF UnificationInv, CallsOK
  <1> DEFINE term == Denotes(types, [v \in Unbound(types) |-> <<"var", v>>])
  <1>2. Model(types, term)
    BY DenotesIsModel DEF UnificationInv
  <1> HIDE DEF term
  <1>3. Solves(todo, term)
    BY <1>1 DEF Solves
  <1>4. term[request[1]] = term[request[2]]
    BY <1>2, <1>3 DEF SoundInv
  <1> QED BY <1>4 DEF term
-----------------------------------------------------------------------------
(* A step of tryUnify makes no types and sets no variable free. *)
LEMMA TryUnifyKeepsIds ==
  ASSUME UnificationInv, TryUnify
  PROVE  Ids(types') = Ids(types) /\ Unbound(types') \subseteq Unbound(types)
  <1>1. \E V : /\ RedirectedExcept(types, types', V)
               /\ \A v \in V : v \in Ids(types) => Bound(types', v)
    <2> DEFINE p == Head(todo)
               a == Root(types)[p[1]]
               e == Root(types)[p[2]]
    <2>1. /\ a \in Ids(types) /\ e \in Ids(types)
          /\ \/ Binds(a, e) \/ Binds(e, a)
             \/ Contains(a, e) \/ Contains(e, a)
             \/ Equal(a, e) \/ Splits(a, e) \/ Clashes(a, e)
      BY TryUnifyCases
    <2> HIDE DEF p, a, e
    <2>2. ASSUME NEW v \in {a, e}, NEW t \in {a, e}, Binds(v, t)
          PROVE  RedirectedExcept(types, types', {v}) /\ Bound(types', v)
      <3>1. t \in Nat \ {0}
        BY <2>1 DEF Ids, UnificationInv, WellFormed
      <3>2. RedirectedExcept(types, types', {v}) /\ types'[v] = VarEntry(t)
        BY <2>2 DEF Binds, Bind
      <3> QED BY <3>1, <3>2, VarEntryFacts
    <2>3. CASE Compress
      BY <2>3 DEF Compress
    <2> QED BY <2>1, <2>2, <2>3 DEF Contains, Equal, Splits, Clashes
  <1>2. PICK V : /\ RedirectedExcept(types, types', V)
                 /\ \A v \in V : v \in Ids(types) => Bound(types', v)
    BY <1>1
  <1>3. WellFormed(types) /\ types' \in [Ids(types) -> Entry]
    BY <1>2 DEF UnificationInv, RedirectedExcept
  <1>4. Ids(types') = Ids(types)
    BY <1>3, Lengths DEF WellFormed
  <1>5. ASSUME NEW i \in Unbound(types') PROVE i \in Unbound(types)
    <2>1. i \in Ids(types) /\ IsVar(types', i) /\ ~Bound(types', i)
      BY <1>4 DEF Unbound
    <2>2. \/ types'[i] = types[i]
          \/ types'[i] = VarEntry(Root(types)[i])
      BY <1>2, <2>1 DEF RedirectedExcept
    <2>3. Root(types)[i] \in Nat \ {0}
      BY <1>3, <2>1, RootFacts DEF Ids
    <2>4. types'[i] = types[i]
      BY <2>1, <2>2, <2>3, VarEntryFacts
    <2> QED BY <2>1, <2>4 DEF Unbound, Bound, IsVar
  <1> QED BY <1>4, <1>5

(***************************************************************************)
(* Every solution of the call of unify, in types of T, is still one of the *)
(* table with its bindings and of the calls pending.                       *)
(***************************************************************************)
CompleteInv(T) ==
  status # "idle" =>
    /\ WellFormed(before) /\ Ids(before) = Ids(types)
    /\ request \in Ids(types) \X Ids(types)
    /\ Unbound(types) \subseteq Unbound(before)
    /\ \A d : /\ Model(before, d)
              /\ \A v \in Unbound(before) : d[v] \in T
              /\ d[request[1]] = d[request[2]]
              => status # "mismatch" /\ Model(types, d) /\ Solves(todo, d)

LEMMA TryUnifyKeepsCompleteInv ==
  ASSUME NEW T, NEW size, FiniteTypes(T, size), UnificationInv, CompleteInv(T), TryUnify
  PROVE  CompleteInv(T)'
  <1>1. status = "running" /\ request' = request /\ before' = before
    BY DEF TryUnify, BindVariable, ReturnTrue, ReturnFalse
  <1>2. Ids(types') = Ids(types) /\ Unbound(types') \subseteq Unbound(types)
    BY TryUnifyKeepsIds
  <1>3. ASSUME NEW d, Model(before, d), \A v \in Unbound(before) : d[v] \in T,
               d[request[1]] = d[request[2]]
        PROVE  status' # "mismatch" /\ Model(types', d) /\ Solves(todo', d)
    <2>1. Model(types, d) /\ Solves(todo, d)
      BY <1>1, <1>3 DEF CompleteInv
    <2>2. \A v \in Unbound(types) : d[v] \in T
      BY <1>1, <1>3 DEF CompleteInv
    <2>3. status' # "mismatch"
      BY <2>1, <2>2, FailureHasNoSolution
    <2> QED BY <2>1, <2>3, StepKeepsSolutions
  <1> QED BY <1>1, <1>2, <1>3 DEF CompleteInv

LEMMA CallUnifyKeepsCompleteInv ==
  ASSUME NEW T, WellFormed(types'), NEW a \in Ids(types'), NEW e \in Ids(types'),
         CallUnify(a, e)
  PROVE  CompleteInv(T)'
  <1>1. /\ todo' = << <<a, e>> >> /\ request' = <<a, e>> /\ before' = types'
        /\ status' = "running"
    BY DEF CallUnify
  <1>2. ASSUME NEW d, d[request'[1]] = d[request'[2]] PROVE Solves(todo', d)
    <2>1. Len(todo') = 1 /\ todo'[1] = request'
      BY <1>1
    <2> QED BY <1>2, <2>1 DEF Solves
  <1> QED BY <1>1, <1>2 DEF CompleteInv

(* An instance of the call's variables, in the table and in the calls pending. *)
LEMMA CompleteAtAnyTime ==
  ASSUME NEW T, UnificationInv, CompleteInv(T), status # "idle",
         NEW instance \in [Unbound(before) -> T], NEW term,
         term = Denotes(before, instance), term[request[1]] = term[request[2]]
  PROVE  /\ status # "mismatch"
         /\ \A p \in {todo[k] : k \in DOMAIN todo} : term[p[1]] = term[p[2]]
         /\ Denotes(types, instance) = term
  <1>1. WellFormed(before) /\ WellFormed(types)
    BY DEF CompleteInv, UnificationInv
  <1>2. /\ Model(before, term) /\ \A v \in Unbound(before) : term[v] = instance[v]
        /\ term = [i \in Ids(before) |-> term[i]]
    BY <1>1, DenotesIsModel
  <1>3. \A v \in Unbound(before) : term[v] \in T
    BY <1>2
  <1>4. status # "mismatch" /\ Model(types, term) /\ Solves(todo, term)
    BY <1>2, <1>3 DEF CompleteInv
  <1>5. \A p \in {todo[k] : k \in DOMAIN todo} : term[p[1]] = term[p[2]]
    <2>1. DOMAIN todo = 1..Len(todo)
      BY DEF UnificationInv, CallsOK
    <2> QED BY <1>4, <2>1 DEF Solves
  <1>6. \A v \in Unbound(types) : term[v] = instance[v]
    BY <1>2 DEF CompleteInv
  <1>7. \A i \in Ids(types) : term[i] = Denotes(types, instance)[i]
    BY <1>1, <1>4, <1>6, ModelIsDenotes
  <1>8. Denotes(types, instance) = [i \in Ids(types) |-> Denotes(types, instance)[i]]
    BY <1>1, DenotesIsModel
  <1>9. Ids(before) = Ids(types)
    BY DEF CompleteInv
  <1>10. Denotes(types, instance) = term
    BY <1>2, <1>7, <1>8, <1>9
  <1> QED BY <1>4, <1>5, <1>10

-----------------------------------------------------------------------------
(* The type materialize finds, one kind of entry at a time. *)
LEMMA MaterializedFacts ==
  ASSUME NEW g, WellFormed(g), NEW i \in Ids(g)
  PROVE  LET M == Materialized(g) IN
         /\ Bound(g, i) => M[i] = M[g[i].binding]
         /\ IsFunction(g, i) => M[i] = Combined(TRUE, M[g[i].parameter], M[g[i].result])
         /\ ~Bound(g, i) /\ ~IsFunction(g, i) =>
              M[i] = IF IsVar(g, i) THEN NoConcreteType ELSE ConcreteLeaf(g[i])
  <1> DEFINE M == Materialized(g)
  <1>1. M[i] = ValueAt(g, TRUE, TypeLeaf(g), M, i)
    BY MaterializedEvaluates DEF IsEvaluation
  <1>2. TypeLeaf(g)[i] = IF IsVar(g, i) THEN NoConcreteType ELSE ConcreteLeaf(g[i])
    BY DEF TypeLeaf
  <1> HIDE DEF M
  <1>3. /\ Bound(g, i) => M[i] = M[g[i].binding]
        /\ IsFunction(g, i) => M[i] = Combined(TRUE, M[g[i].parameter], M[g[i].result])
        /\ ~Bound(g, i) /\ ~IsFunction(g, i) =>
             M[i] = IF IsVar(g, i) THEN NoConcreteType ELSE ConcreteLeaf(g[i])
    BY <1>1, <1>2, EntryKinds DEF ValueAt
  <1> QED BY <1>3 DEF M

(* It is the type at the end of the chain. *)
LEMMA MaterializedRoot ==
  ASSUME NEW g, WellFormed(g)
  PROVE  \A i \in Ids(g) : Materialized(g)[i] = Materialized(g)[Root(g)[i]]
  <1> DEFINE M == Materialized(g)
             S == {i \in Ids(g) : M[i] = M[Root(g)[i]]}
  <1>1. ASSUME NEW i \in Ids(g), Succ(g, i) \subseteq S PROVE i \in S
    <2>1. Root(g)[i] = IF Bound(g, i) THEN Root(g)[g[i].binding] ELSE i
      BY RootFacts
    <2>2. Bound(g, i) => g[i].binding \in S
      BY <1>1 DEF Succ
    <2>3. Bound(g, i) => M[i] = M[g[i].binding]
      BY MaterializedFacts
    <2> HIDE DEF M
    <2> QED BY <2>1, <2>2, <2>3
  <1>2. InRange(g) /\ AcyclicGraph(g)
    BY DEF WellFormed
  <1>3. Ids(g) \subseteq S
    <2> HIDE DEF S
    <2> QED BY <1>1, <1>2, GraphInduction
  <1> QED BY <1>3

(* A step of the table changes no entry but variables. *)
LEMMA StepKeepsEntries ==
  ASSUME WellFormed(types), [GraphNext]_types, NEW i \in Ids(types), ~IsVar(types, i)
  PROVE  types'[i] = types[i]
  <1>1. ~Bound(types, i)
    BY DEF Bound
  <1>2. CASE Grow
    BY <1>2 DEF Grow, Extends
  <1>3. CASE Compress
    BY <1>1, <1>3 DEF Compress, RedirectedExcept
  <1>4. ASSUME NEW v \in Ids(types), NEW t \in Ids(types), Bind(v, t)
        PROVE  types'[i] = types[i]
    <2>1. i # v
      BY <1>4 DEF Bind
    <2> QED BY <1>1, <1>4, <2>1 DEF Bind, RedirectedExcept
  <1> QED BY <1>2, <1>3, <1>4 DEF GraphNext

(***************************************************************************)
(* A step of the table leaves every concrete type as it is: by induction   *)
(* over the table before the step, in which a type that has a concrete one *)
(* refers only to types that have.                                         *)
(***************************************************************************)
LEMMA StepKeepsConcreteTypes ==
  ASSUME WellFormed(types), [GraphNext]_types
  PROVE  \A i \in Ids(types) :
           Materialized(types)[i] # NoConcreteType =>
             Materialized(types')[i] = Materialized(types)[i]
  <1> DEFINE g == types
             h == types'
             M == Materialized(g)
             N == Materialized(h)
             S == {i \in Ids(g) : M[i] # NoConcreteType => N[i] = M[i]}
  <1>1. /\ WellFormed(h) /\ Ids(g) \subseteq Ids(h)
        /\ \A i, j \in Ids(g) : Root(g)[i] = Root(g)[j] => Root(h)[i] = Root(h)[j]
    BY GraphStep
  <1>2. \A i \in Ids(g) : ~IsVar(g, i) => h[i] = g[i]
    BY StepKeepsEntries
  <1>3. WellFormed(g)
    OBVIOUS
  <1> HIDE DEF g, h
  <1>4. ASSUME NEW i \in Ids(g), Succ(g, i) \subseteq S PROVE i \in S
    <2> SUFFICES ASSUME M[i] # NoConcreteType PROVE N[i] = M[i]
      OBVIOUS
    <2>1. i \in Ids(h)
      BY <1>1
    <2>2. /\ Bound(g, i) => M[i] = M[g[i].binding]
          /\ IsFunction(g, i) => M[i] = Combined(TRUE, M[g[i].parameter], M[g[i].result])
          /\ ~Bound(g, i) /\ ~IsFunction(g, i) =>
               M[i] = IF IsVar(g, i) THEN NoConcreteType ELSE ConcreteLeaf(g[i])
      BY <1>3, MaterializedFacts
    <2>3. /\ IsFunction(h, i) => N[i] = Combined(TRUE, N[h[i].parameter], N[h[i].result])
          /\ ~Bound(h, i) /\ ~IsFunction(h, i) =>
               N[i] = IF IsVar(h, i) THEN NoConcreteType ELSE ConcreteLeaf(h[i])
      BY <1>1, <2>1, MaterializedFacts
    <2>4. CASE Bound(g, i)
      <3> DEFINE b == g[i].binding
      <3>1. b \in S /\ b \in Ids(g)
        BY <1>4, <2>4 DEF Succ
      <3>2. Root(h)[i] = Root(h)[b]
        BY <1>1, <1>3, <2>4, <3>1, RootFacts
      <3>3. N[i] = N[Root(h)[i]] /\ N[b] = N[Root(h)[b]]
        BY <1>1, <2>1, <3>1, MaterializedRoot
      <3> HIDE DEF M, N
      <3> QED BY <2>2, <2>4, <3>1, <3>2, <3>3
    <2>5. CASE IsFunction(g, i)
      <3> DEFINE p == g[i].parameter
                 r == g[i].result
      <3>1. p \in S /\ r \in S
        BY <1>3, <1>4, <2>5, EntryKinds DEF Succ
      <3>2. h[i] = g[i]
        BY <1>2, <1>3, <2>5, EntryKinds
      <3>3. IsFunction(h, i)
        BY <2>5, <3>2 DEF IsFunction
      <3> HIDE DEF M, N
      <3>4. /\ M[i] = Combined(TRUE, M[p], M[r])
            /\ N[i] = Combined(TRUE, N[p], N[r])
        BY <2>2, <2>3, <2>5, <3>2, <3>3
      <3>5. M[p] # NoConcreteType /\ M[r] # NoConcreteType
        BY <3>4 DEF Combined
      <3>6. N[p] = M[p] /\ N[r] = M[r]
        BY <3>1, <3>5
      <3> QED BY <3>4, <3>6
    <2>6. CASE ~Bound(g, i) /\ ~IsFunction(g, i)
      <3> HIDE DEF M, N
      <3>1. ~IsVar(g, i)
        BY <2>2, <2>6
      <3>2. h[i] = g[i]
        BY <1>2, <3>1
      <3>3. ~IsVar(h, i) /\ ~Bound(h, i) /\ ~IsFunction(h, i)
        BY <2>6, <3>1, <3>2 DEF IsVar, Bound, IsFunction
      <3> QED BY <2>2, <2>3, <2>6, <3>1, <3>2, <3>3
    <2> QED BY <2>4, <2>5, <2>6
  <1>5. InRange(g) /\ AcyclicGraph(g)
    BY <1>3 DEF WellFormed
  <1>6. Ids(g) \subseteq S
    <2> HIDE DEF S
    <2> QED BY <1>4, <1>5, GraphInduction
  <1> QED BY <1>6 DEF g, h

(***************************************************************************)
(* Whatever uses the table, a type that materialize can answer with is     *)
(* never answered otherwise afterwards: what keeps to GraphSpec keeps      *)
(* every concrete type.                                                    *)
(***************************************************************************)
THEOREM GraphKeepsConcreteTypes == GraphSpec => ConcreteTypesAreFinal
  <1>1. WellFormed(types) /\ [GraphNext]_types =>
          [LET type == Materialized(types)
               next == Materialized(types')
           IN  \A i \in Ids(types) : type[i] # NoConcreteType => next[i] = type[i]]_types
    BY StepKeepsConcreteTypes
  <1> QED BY <1>1, GraphInvariant, PTL DEF GraphSpec, ConcreteTypesAreFinal
==============================================================================
