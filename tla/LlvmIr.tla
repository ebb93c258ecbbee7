------------------------------- MODULE LlvmIr -------------------------------
(***************************************************************************)
(* LLVM as far as the generator uses it: values, instructions, and what    *)
(* the verifier (llvm::verifyModule) demands of a module.  LLVM is not     *)
(* part of the repository; this follows its language reference.            *)
(*                                                                         *)
(* A module is the sequence of its basic blocks, each with the function    *)
(* that it belongs to; the first block of a function is its entry.  A      *)
(* register is named by the place of its instruction.  The address that a  *)
(* load or a store computes from a pointer is part of it: index counts     *)
(* words of eight bytes.                                                   *)
(***************************************************************************)
EXTENDS Integers, Sequences, FiniteSets

Constant(i)    == [kind |-> "constant", value |-> i]
Argument(f, k) == [kind |-> "argument", function |-> f, index |-> k]
Register(b, i) == [kind |-> "register", block |-> b, index |-> i]
Null           == [kind |-> "null"]

Malloc(bytes)        == [op |-> "malloc", bytes |-> bytes]
Store(t, v, p, k)    ==
  [op |-> "store", type |-> t, value |-> v, pointer |-> p, index |-> k]
Load(t, p, k)        == [op |-> "load", type |-> t, pointer |-> p, index |-> k]
PtrToInt(v)          == [op |-> "ptrtoint", value |-> v]
IntToPtr(v)          == [op |-> "inttoptr", value |-> v]
Arithmetic(o, l, r)  == [op |-> "arithmetic", operator |-> o, left |-> l, right |-> r]
ICmpEQ(l, r)         == [op |-> "icmp", left |-> l, right |-> r]
Call(f, as)          == [op |-> "call", function |-> f, arguments |-> as]
Phi(t, in)           == [op |-> "phi", type |-> t, incoming |-> in]
Printf(v)            == [op |-> "printf", value |-> v]
Trap                 == [op |-> "trap"]
Br(b)                == [op |-> "br", block |-> b]
CondBr(v, b1, b2)    == [op |-> "condbr", value |-> v, yes |-> b1, no |-> b2]
Switch(v, d, cs)     == [op |-> "switch", value |-> v, default |-> d, cases |-> cs]
Ret(v)               == [op |-> "ret", value |-> v]
Unreachable          == [op |-> "unreachable"]

(* What / gives on machine integers: it rounds towards zero. *)
Quotient(a, b) ==
  LET size(x) == IF x < 0 THEN -x ELSE x
      q       == size(a) \div size(b)
  IN  IF (a < 0) = (b < 0) THEN q ELSE -q

Terminators == {"br", "condbr", "switch", "ret", "unreachable"}

-----------------------------------------------------------------------------
(* Control flow. *)

Successors(block) ==
  LET last == block.code[Len(block.code)]
  IN  IF block.code = << >> THEN {}
      ELSE CASE last.op = "br"     -> {last.block}
             [] last.op = "condbr" -> {last.yes, last.no}
             [] last.op = "switch" -> {last.default}
                                        \cup {last.cases[k].block : k \in DOMAIN last.cases}
             [] OTHER              -> {}

IsEntry(bs, b) == \A c \in 1..(b - 1) : bs[c].function # bs[b].function

(* The blocks on the ways from the entry of b's function, without a block. *)
ReachedWithout(bs, b, without) ==
  LET entry == {e \in DOMAIN bs : bs[e].function = bs[b].function /\ IsEntry(bs, e)}
      reach[n \in 0..Len(bs)] ==
        IF n = 0 THEN entry \ {without}
        ELSE LET before == reach[n - 1]
             IN  before \cup (UNION {Successors(bs[c]) : c \in before} \ {without})
  IN  reach[Len(bs)]

Dominates(bs, d, b) ==
  bs[d].function = bs[b].function /\ (d = b \/ b \notin ReachedWithout(bs, b, d))

(* Whether value v has been computed whenever place i of block b is reached. *)
Available(bs, v, b, i) ==
  CASE v.kind = "register" ->
         /\ v.block \in DOMAIN bs /\ v.index \in DOMAIN bs[v.block].code
         /\ Dominates(bs, v.block, b) /\ (v.block = b => v.index < i)
    [] v.kind = "argument" -> v.function = bs[b].function
    [] OTHER               -> TRUE

-----------------------------------------------------------------------------
(* Types. *)

TypeOf(bs, fs, v) ==
  CASE v.kind = "constant" -> "i64"
    [] v.kind = "null"     -> "ptr"
    [] v.kind = "argument" -> fs[v.function].parameters[v.index]
    [] v.kind = "register" ->
         LET x == bs[v.block].code[v.index]
         IN  CASE x.op \in {"malloc", "inttoptr"}     -> "ptr"
               [] x.op \in {"ptrtoint", "arithmetic"} -> "i64"
               [] x.op \in {"load", "phi"}            -> x.type
               [] x.op = "icmp"                       -> "i1"
               [] x.op = "call"                       -> fs[x.function].result
               [] OTHER                               -> "void"

(* The values an instruction uses, each with the type that it must have. *)
Uses(fs, f, x) ==
  CASE x.op = "store"      -> {<<x.value, x.type>>, <<x.pointer, "ptr">>}
    [] x.op = "load"       -> {<<x.pointer, "ptr">>}
    [] x.op = "ptrtoint"   -> {<<x.value, "ptr">>}
    [] x.op = "inttoptr"   -> {<<x.value, "i64">>}
    [] x.op \in {"arithmetic", "icmp"} -> {<<x.left, "i64">>, <<x.right, "i64">>}
    [] x.op = "call"       ->
         {<<x.arguments[k], fs[x.function].parameters[k]>> : k \in DOMAIN x.arguments}
    [] x.op \in {"printf", "switch"} -> {<<x.value, "i64">>}
    [] x.op = "condbr"     -> {<<x.value, "i1">>}
    [] x.op = "ret"        -> {<<x.value, fs[f].result>>}
    [] OTHER               -> {}

WellFormedPhi(bs, fs, b, x) ==
  LET from == [k \in DOMAIN x.incoming |-> x.incoming[k].block]
  IN  /\ {from[k] : k \in DOMAIN from} = {c \in DOMAIN bs : b \in Successors(bs[c])}
      /\ \A j, k \in DOMAIN from : from[j] = from[k] => j = k
      /\ \A k \in DOMAIN from :
           /\ Available(bs, x.incoming[k].value, from[k], Len(bs[from[k]].code))
           /\ TypeOf(bs, fs, x.incoming[k].value) = x.type

WellFormed(bs, fs) ==
  \A b \in DOMAIN bs :
    /\ bs[b].code # << >>
    /\ \A i \in DOMAIN bs[b].code :
         LET x == bs[b].code[i]
         IN  /\ x.op \in Terminators <=> i = Len(bs[b].code)
             /\ \A u \in Uses(fs, bs[b].function, x) :
                  Available(bs, u[1], b, i) /\ TypeOf(bs, fs, u[1]) = u[2]
             /\ x.op = "phi" =>
                  /\ \A j \in 1..i : bs[b].code[j].op = "phi"
                  /\ WellFormedPhi(bs, fs, b, x)
             /\ x.op = "switch" =>
                  \A j, k \in DOMAIN x.cases : x.cases[j].tag = x.cases[k].tag => j = k
             /\ x.op = "call" => Len(x.arguments) = Len(fs[x.function].parameters)
=============================================================================
