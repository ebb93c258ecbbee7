------------------------------ MODULE CodeGen -------------------------------
(***************************************************************************)
(* The LLVM IR generator (class LlvmIrGenerator of visitors/llvm_ir.cpp).  *)
(*                                                                         *)
(* It runs on programs that both analyses accept, and on their results.    *)
(* These are taken from LexicalScoping and Typing, which Scopes and        *)
(* TypeAnalysis are shown to agree with; a symbol is the node that         *)
(* declares it and its name.                                               *)
(*                                                                         *)
(* As in Parser, `work` is what the pending calls have left to do, and     *)
(* `values` holds what they have returned.  IR is a sequence of basic      *)
(* blocks; a register is named by the place of its instruction, and the    *)
(* address computations are part of the loads and stores that use them.    *)
(* IRBuilder's folding of constants and the names of blocks and registers  *)
(* are left out.                                                           *)
(***************************************************************************)
EXTENDS Typing, LlvmIr

VARIABLES
  program,       \* parsed_
  resolved,      \* the symbols that analysis_ gives to uses
  typing,        \* the types that type_analysis_ gives to functions
  constructors,  \* constructors_: the tag of each constructor
  functions,     \* functions_: the declared functions, with their LLVM types
  locals,        \* locals_: the values of symbols, with their types
  blocks,        \* the basic blocks of the module, in order of creation
  insert,        \* the block that builder_ appends to
  work,          \* what the pending calls have left to do
  values,        \* what they have returned
  outcome        \* "generating", "generated", or "refused" by an exception

vars == <<program, resolved, typing, constructors, functions, locals, blocks,
          insert, work, values, outcome>>

-----------------------------------------------------------------------------
MainFunction   == NoNode      \* the C main; other functions are their nodes
NodeBytes      == 24          \* kNodeBytes: tag, number of fields, fields
FieldBytes     == 8           \* kPackedFieldBytes

Typed(v, t)  == [value |-> v, type |-> t]        \* TypedValue
llvmType(t)  == IF t = IntType THEN "i64" ELSE "ptr"

(* The steps that the functions consist of. *)
DefineFunction(d)      == [do |-> "defineFunction", node |-> d]
Emit(n)                == [do |-> "emitExpression", node |-> n]
Step(what)             == [do |-> what]
Operator(op)           == [do |-> "operator", op |-> op]
FunctionCall(d)        == [do |-> "call", function |-> d]
Construct(c)           == [do |-> "construct", constructor |-> c]
StoreField(c, k, p)    == [do |-> "storeField", constructor |-> c, index |-> k, fields |-> p]
Constructed(c, n, p)   == [do |-> "constructed", constructor |-> c, node |-> n, fields |-> p]
Case(n)                == [do |-> "case", node |-> n]
SwitchBranch(b, s, at, m) ==
  [do |-> "switchBranch", branch |-> b, scrutinee |-> s, at |-> at, merge |-> m]
SequentialBranch(b, s, m) ==
  [do |-> "sequentialBranch", branch |-> b, scrutinee |-> s, merge |-> m]
BindField(n, k, s)     == [do |-> "bindField", pattern |-> n, index |-> k, scrutinee |-> s]
EndBranch(m)           == [do |-> "endBranch", merge |-> m]
RestoreLocals(saved)   == [do |-> "restoreLocals", saved |-> saved]
MoveTo(b)              == [do |-> "moveTo", block |-> b]
FinishCase(m, n)       == [do |-> "finishCase", merge |-> m, count |-> n]

Node(n)      == program.nodes[n]
Top          == Head(work)
Running(s)   == outcome = "generating" /\ work # << >> /\ Top.do = s
Emitting(k)  == Running("emitExpression") /\ Node(Top.node).kind = k
Results(n)   == SubSeq(values, Len(values) - n + 1, Len(values))
Without(n)   == SubSeq(values, 1, Len(values) - n)

(* The k-th instruction that is appended next. *)
NextRegister(k) == Register(insert, Len(blocks[insert].code) + k)

Appended(code) == [blocks EXCEPT ![insert].code = @ \o code]
NewBlocks(bs, n) ==
  bs \o [k \in 1..n |-> [function |-> blocks[insert].function, code |-> << >>]]

Analysis == <<program, resolved, typing>>
Layout   == <<constructors, functions>>

Throw == outcome' = "refused"
         /\ UNCHANGED <<Analysis, Layout, locals, blocks, insert, work, values>>

Do(steps) ==
  /\ work' = steps \o Tail(work)
  /\ UNCHANGED <<Analysis, Layout, locals, blocks, insert, values, outcome>>

-----------------------------------------------------------------------------
(* What the analyses say. *)

Symbol(n)     == <<resolved[n].declaration, Node(n).name>>
Arity(d)      == Len(Node(d).parameters)
FieldTypes(c) == Fields(program, c)

Init ==
  /\ \E p \in Programs : \E t \in FirstOrderTypings(p) :
       program = p /\ resolved = Resolution(p) /\ typing = t
  /\ constructors = << >> /\ functions = << >> /\ locals = << >> /\ blocks = << >>
  /\ insert = 0 /\ values = << >> /\ outcome = "generating"
  /\ work = <<Step("registerConstructors"), Step("declareFunctions")>>

(* The tags count up through all types. *)
Tag(place) ==
  Cardinality({w \in GlobalPlaces(program) : w[2] > 0 /\ Before(w, place)})

RegisterConstructors ==
  /\ Running("registerConstructors")
  /\ constructors' =
       [c \in OfKind(program, {"constructor"}) |->
          Tag(CHOOSE w \in GlobalPlaces(program) : DeclaredAt(program, w) = c)]
  /\ work' = Tail(work)
  /\ UNCHANGED <<Analysis, functions, locals, blocks, insert, values, outcome>>

DeclareFunctions ==
  /\ Running("declareFunctions")
  /\ functions' =
       [d \in OfKind(program, {"defn"}) \cup {MainFunction} |->
          IF d = MainFunction THEN [parameters |-> << >>, result |-> "i64"]
          ELSE [parameters |-> [k \in 1..Arity(d) |-> llvmType(typing[<<d, k>>])],
                result |-> llvmType(typing[<<d, 0>>])]]
  /\ work' = [k \in DOMAIN program.definitions |-> DefineFunction(program.definitions[k])]
               \o <<Step("defineMain"), Step("verify")>>
  /\ UNCHANGED <<Analysis, constructors, locals, blocks, insert, values, outcome>>

Define ==
  /\ Running("defineFunction")
  /\ LET d == Top.node
         parameter(k) == <<d, Node(d).parameters[k]>>
     IN  IF Node(d).kind # "defn" THEN Do(<< >>)
         ELSE /\ locals' = [s \in {parameter(k) : k \in 1..Arity(d)} |->
                              LET k == CHOOSE k \in 1..Arity(d) : parameter(k) = s
                              IN  Typed(Argument(d, k), typing[<<d, k>>])]
              /\ blocks' = Append(blocks, [function |-> d, code |-> << >>])
              /\ insert' = Len(blocks) + 1
              /\ work' = <<Emit(Node(d).body), Step("return")>> \o Tail(work)
              /\ UNCHANGED <<Analysis, Layout, values, outcome>>

Return ==
  /\ Running("return")
  /\ blocks' = Appended(<<Ret(Results(1)[1].value)>>)
  /\ values' = Without(1) /\ work' = Tail(work)
  /\ UNCHANGED <<Analysis, Layout, locals, insert, outcome>>

(* What emitPrint appends to an entry block after the call of main. *)
PrintCode(b, type) ==
  IF type = IntType THEN <<Printf(Register(b, 1))>>
  ELSE <<Load("i64", Register(b, 1), 0), Printf(Register(b, 2))>>

DefineMain ==
  /\ Running("defineMain")
  /\ LET main == {d \in DOMAIN functions \ {MainFunction} : Node(d).name = "main"}
         d    == CHOOSE d \in main : TRUE
         b    == Len(blocks) + 1
     IN  IF main = {} THEN Throw
         ELSE /\ blocks' = Append(blocks,
                   [function |-> MainFunction,
                    code |-> <<Call(d, << >>)>> \o PrintCode(b, typing[<<d, 0>>])
                               \o <<Ret(Constant(0))>>])
              /\ insert' = b /\ work' = Tail(work)
              /\ UNCHANGED <<Analysis, Layout, locals, values, outcome>>

-----------------------------------------------------------------------------
(* Expressions. *)

Push(v, steps) ==
  /\ values' = Append(values, v)
  /\ work' = steps \o Tail(work)
  /\ UNCHANGED <<Analysis, Layout, locals, insert, outcome>>

EmitInt ==
  /\ Emitting("int")
  /\ Push(Typed(Constant(Node(Top.node).value), IntType), << >>)
  /\ UNCHANGED blocks

EmitVariable ==
  LET n == Top.node
      s == resolved[n]
  IN  /\ Emitting("variable")
      /\ \/ /\ s.kind = "constructor" /\ FieldTypes(s.declaration) = << >>
            /\ Do(<<Construct(s.declaration)>>)
         \/ /\ Symbol(n) \in DOMAIN locals
            /\ Push(locals[Symbol(n)], << >>)
            /\ UNCHANGED blocks
         \/ /\ s.kind = "constructor" => FieldTypes(s.declaration) # << >>
            /\ Symbol(n) \notin DOMAIN locals
            /\ Throw

EmitBinaryOperator ==
  /\ Emitting("operator")
  /\ LET x == Node(Top.node) IN Do(<<Emit(x.left), Emit(x.right), Operator(x.op)>>)

CreateOperator ==
  /\ Running("operator")
  /\ blocks' = Appended(<<Arithmetic(Top.op, Results(2)[1].value, Results(2)[2].value)>>)
  /\ values' = Append(Without(2), Typed(NextRegister(1), IntType))
  /\ work' = Tail(work)
  /\ UNCHANGED <<Analysis, Layout, locals, insert, outcome>>

(* The applications that n is the outermost of, from the inside. *)
Spine(n) ==
  LET spine[m \in NodeIds(program)] ==
        IF Node(m).kind = "application"
        THEN Append(spine[Node(m).function], m) ELSE << >>
  IN  spine[n]

Callee(n) == Node(Spine(n)[1]).function

Arguments(n) == [k \in DOMAIN Spine(n) |-> Node(Spine(n)[k]).argument]

EmitApplication ==
  LET n     == Top.node
      named == Node(Callee(n)).kind = "variable"
      s     == resolved[Callee(n)]
      given == Len(Arguments(n))
      function    == named /\ s.kind = "function" /\ given = Arity(s.declaration)
      constructor == named /\ s.kind = "constructor" /\ given = Len(FieldTypes(s.declaration))
      arguments   == [k \in 1..given |-> Emit(Arguments(n)[k])]
  IN  /\ Emitting("application")
      /\ \/ function /\ Do(Append(arguments, FunctionCall(s.declaration)))
         \/ constructor /\ Do(Append(arguments, Construct(s.declaration)))
         \/ ~function /\ ~constructor /\ Throw

CreateCall ==
  LET d == Top.function
      given == Results(Arity(d))
  IN  /\ Running("call")
      /\ blocks' = Appended(<<Call(d, [k \in DOMAIN given |-> given[k].value])>>)
      /\ values' = Append(Without(Arity(d)), Typed(NextRegister(1), typing[<<d, 0>>]))
      /\ work' = Tail(work)
      /\ UNCHANGED <<Analysis, Layout, locals, insert, outcome>>

EmitConstructedValue ==
  LET c    == Top.constructor
      n    == Len(FieldTypes(c))
      node == NextRegister(1)
      fields == IF n = 0 THEN Null ELSE NextRegister(4)
      head == <<Malloc(NodeBytes), Store("i64", Constant(constructors[c]), node, 0),
                Store("i64", Constant(n), node, 1)>>
  IN  /\ Running("construct")
      /\ blocks' = Appended(IF n = 0 THEN head ELSE Append(head, Malloc(n * FieldBytes)))
      /\ work' = [k \in 1..n |-> StoreField(c, k, fields)]
                   \o <<Constructed(c, node, fields)>> \o Tail(work)
      /\ UNCHANGED <<Analysis, Layout, locals, insert, values, outcome>>

(* packValue of the k-th of the last n values, and its store. *)
EmitStoreField ==
  LET n == Len(FieldTypes(Top.constructor))
      v == Results(n)[Top.index].value
      t == FieldTypes(Top.constructor)[Top.index]
      store(w) == Store("i64", w, Top.fields, Top.index - 1)
  IN  /\ Running("storeField")
      /\ blocks' = Appended(IF t = IntType THEN <<store(v)>>
                            ELSE <<PtrToInt(v), store(NextRegister(1))>>)
      /\ work' = Tail(work)
      /\ UNCHANGED <<Analysis, Layout, locals, insert, values, outcome>>

FinishConstructedValue ==
  LET c == Top.constructor
  IN  /\ Running("constructed")
      /\ blocks' = Appended(<<Store("ptr", Top.fields, Top.node, 2)>>)
      /\ values' = Append(Without(Len(FieldTypes(c))), Typed(Top.node, DataOf(program, c)))
      /\ work' = Tail(work)
      /\ UNCHANGED <<Analysis, Layout, locals, insert, outcome>>

-----------------------------------------------------------------------------
(* Case expressions. *)

EmitCase ==
  /\ Emitting("case")
  /\ Do(<<Emit(Node(Top.node).scrutinee), Case(Top.node)>>)

Pattern(b) == Node(Node(b).pattern)
ConstructorOf(b) == resolved[Node(b).pattern].declaration
FallsThrough(b)  == Pattern(b).kind = "constructor_pattern"

(* Faulty: a constructor that comes twice is not noticed. *)
CanUseSwitchTwice(bs) == \A k \in DOMAIN bs : FallsThrough(bs[k])

CanUseSwitchCase(bs) ==
  /\ \A k \in DOMAIN bs : FallsThrough(bs[k])
  /\ \A j, k \in DOMAIN bs : ConstructorOf(bs[j]) = ConstructorOf(bs[k]) => j = k

EmitSwitchCase ==
  /\ Running("case") /\ CanUseSwitchCase(Node(Top.node).branches)
  /\ LET bs      == Node(Top.node).branches
         v       == Results(1)[1].value
         default == Len(blocks) + 1
         merge   == Len(blocks) + 2
     IN  /\ blocks' = NewBlocks(Appended(<<Load("i64", v, 0),
                                           Switch(NextRegister(1), default, << >>)>>), 2)
         /\ work' = [k \in DOMAIN bs |-> SwitchBranch(bs[k], v, NextRegister(2), merge)]
                      \o <<MoveTo(default), Step("trap"), FinishCase(merge, Len(bs))>>
                      \o Tail(work)
         /\ values' = Without(1)
         /\ UNCHANGED <<Analysis, Layout, locals, insert, outcome>>

(* The pattern's bindings, its body, and back to the locals of now. *)
BranchSteps(b, s, merge) ==
  [k \in DOMAIN Pattern(b).arguments |-> BindField(Node(b).pattern, k, s)]
    \o <<Emit(Node(b).body), EndBranch(merge), RestoreLocals(locals)>>

EmitSwitchBranch ==
  LET b   == Top.branch
      new == Len(blocks) + 1
      arm == [tag |-> constructors[ConstructorOf(b)], block |-> new]
  IN  /\ Running("switchBranch")
      /\ blocks' = [NewBlocks(blocks, 1) EXCEPT
                      ![Top.at.block].code[Top.at.index].cases = Append(@, arm)]
      /\ insert' = new
      /\ work' = BranchSteps(b, Top.scrutinee, Top.merge) \o Tail(work)
      /\ UNCHANGED <<Analysis, Layout, locals, values, outcome>>

(* The branches that are emitted: none after a pattern that matches all. *)
SequentialBranches(bs) ==
  {k \in DOMAIN bs : \A j \in 1..(k - 1) : FallsThrough(bs[j])}

EmitSequentialCase ==
  /\ Running("case") /\ ~CanUseSwitchCase(Node(Top.node).branches)
  /\ LET bs    == Node(Top.node).branches
         count == Cardinality(SequentialBranches(bs))
         merge == Len(blocks) + 1
     IN  /\ blocks' = NewBlocks(blocks, 1)
         /\ work' = [k \in 1..count |-> SequentialBranch(bs[k], Results(1)[1], merge)]
                      \o (IF FallsThrough(bs[count]) THEN <<Step("trap")>> ELSE << >>)
                      \o <<FinishCase(merge, count)>> \o Tail(work)
         /\ values' = Without(1)
         /\ UNCHANGED <<Analysis, Layout, locals, insert, outcome>>

EmitConstructorCaseBranch ==
  LET b       == Top.branch
      v       == Top.scrutinee.value
      matched == Len(blocks) + 1
      next    == Len(blocks) + 2
  IN  /\ Running("sequentialBranch") /\ FallsThrough(b)
      /\ blocks' = NewBlocks(Appended(
             <<Load("i64", v, 0),
               ICmpEQ(NextRegister(1), Constant(constructors[ConstructorOf(b)])),
               CondBr(NextRegister(2), matched, next)>>), 2)
      /\ insert' = matched
      /\ work' = BranchSteps(b, v, Top.merge) \o <<MoveTo(next)>> \o Tail(work)
      /\ UNCHANGED <<Analysis, Layout, locals, values, outcome>>

Binding(s, v) ==
  [t \in DOMAIN locals \cup {s} |-> IF t = s THEN v ELSE locals[t]]

EmitVariableBranch ==
  LET b == Top.branch
  IN  /\ Running("sequentialBranch") /\ ~FallsThrough(b)
      /\ locals' = Binding(<<Node(b).pattern, Pattern(b).name>>, Top.scrutinee)
      /\ work' = <<Emit(Node(b).body), EndBranch(Top.merge)>> \o Tail(work)
      /\ UNCHANGED <<Analysis, Layout, blocks, insert, values, outcome>>

(* Faulty: fields are numbered as arguments are, from 1. *)
FieldOffByOne(k) == k

FieldIndex(k) == k - 1

Unpacked(t) == IF t = IntType THEN << >> ELSE <<IntToPtr(NextRegister(2))>>

EmitBindField ==
  LET n == Top.pattern
      t == FieldTypes(resolved[n].declaration)[Top.index]
      code == <<Load("ptr", Top.scrutinee, 2),
                Load("i64", NextRegister(1), FieldIndex(Top.index))>> \o Unpacked(t)
  IN  /\ Running("bindField")
      /\ blocks' = Appended(code)
      /\ locals' = Binding(<<n, Node(n).arguments[Top.index]>>,
                           Typed(NextRegister(Len(code)), t))
      /\ work' = Tail(work)
      /\ UNCHANGED <<Analysis, Layout, insert, values, outcome>>

(* getTerminator() *)
Terminated(b) ==
  LET code == blocks[b].code
  IN  code # << >> /\ code[Len(code)].op \in Terminators

(* What a branch adds to incoming: the block that its body has ended in. *)
EmitEndBranch ==
  LET v == Results(1)[1]
  IN  /\ Running("endBranch")
      /\ blocks' = IF Terminated(insert) THEN blocks ELSE Appended(<<Br(Top.merge)>>)
      /\ values' = Append(Without(1), [value |-> v.value, type |-> v.type, block |-> insert])
      /\ work' = Tail(work)
      /\ UNCHANGED <<Analysis, Layout, locals, insert, outcome>>

(* Faulty: the locals of the branch stay. *)
Kept(saved) == locals

Restored(saved) == saved

EmitRestoreLocals ==
  /\ Running("restoreLocals")
  /\ locals' = Restored(Top.saved) /\ work' = Tail(work)
  /\ UNCHANGED <<Analysis, Layout, blocks, insert, values, outcome>>

SetInsertPoint ==
  /\ Running("moveTo")
  /\ insert' = Top.block /\ work' = Tail(work)
  /\ UNCHANGED <<Analysis, Layout, locals, blocks, values, outcome>>

EmitTrap ==
  /\ Running("trap")
  /\ blocks' = Appended(<<Trap, Unreachable>>) /\ work' = Tail(work)
  /\ UNCHANGED <<Analysis, Layout, locals, insert, values, outcome>>

FinishCaseExpression ==
  LET in  == Results(Top.count)
      t   == in[1].type
      phi == Phi(llvmType(t), [k \in DOMAIN in |-> [value |-> in[k].value, block |-> in[k].block]])
  IN  /\ Running("finishCase")
      /\ insert' = Top.merge
      /\ blocks' = [blocks EXCEPT ![Top.merge].code = Append(@, phi)]
      /\ values' = Append(Without(Top.count),
                     Typed(Register(Top.merge, Len(blocks[Top.merge].code) + 1), t))
      /\ work' = Tail(work)
      /\ UNCHANGED <<Analysis, Layout, locals, outcome>>

-----------------------------------------------------------------------------
Verify ==
  /\ Running("verify")
  /\ outcome' = IF WellFormed(blocks, functions) THEN "generated" ELSE "invalid"
  /\ work' = Tail(work)
  /\ UNCHANGED <<Analysis, Layout, locals, blocks, insert, values>>

GeneratorStep ==
  \/ RegisterConstructors \/ DeclareFunctions \/ Define \/ Return \/ DefineMain \/ Verify
  \/ EmitInt \/ EmitVariable \/ EmitBinaryOperator \/ CreateOperator
  \/ EmitApplication \/ CreateCall
  \/ EmitConstructedValue \/ EmitStoreField \/ FinishConstructedValue
  \/ EmitCase \/ EmitSwitchCase \/ EmitSwitchBranch
  \/ EmitSequentialCase \/ EmitConstructorCaseBranch \/ EmitVariableBranch
  \/ EmitBindField \/ EmitEndBranch \/ EmitRestoreLocals
  \/ SetInsertPoint \/ EmitTrap \/ FinishCaseExpression
=============================================================================
