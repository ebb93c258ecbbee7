------------------------------ MODULE Compiled ------------------------------
(***************************************************************************)
(* The generator followed by its program: a machine that executes the      *)
(* generated module one instruction at a time (the machine is external:    *)
(* LLVM and the C library), and what the two together promise.             *)
(*                                                                         *)
(* Memory is a sequence of words.  malloc gives an object that nothing has *)
(* been written to and leaves a word unused behind it; a load or a store   *)
(* that misses every object, and a load of what was never written, are     *)
(* undefined.  malloc never fails here.                                    *)
(***************************************************************************)
EXTENDS CodeGen, Interpreter

VARIABLES
  status,    \* "idle", "running", or how the program has ended
  frames,    \* the calls, the running one's last
  memory,
  printed    \* what the program has printed

machine == <<status, frames, memory, printed>>

Unused  == [state |-> "unused"]
Raw     == [state |-> "raw"]
Word(w) == [state |-> "word", word |-> w]

(* A call of f: where it is, the block it came from, and its values. *)
Frame(f, as) ==
  [block |-> CHOOSE b \in DOMAIN blocks : blocks[b].function = f /\ IsEntry(blocks, b),
   at |-> 1, from |-> 0, arguments |-> as, registers |-> << >>]

Current  == frames[Len(frames)]
Instruction == blocks[Current.block].code[Current.at]
Executing(op) == status = "running" /\ Instruction.op = op

(* What a value is in the running call. *)
Held(v) ==
  CASE v.kind = "constant" -> Wrapped(v.value)
    [] v.kind = "null"     -> 0
    [] v.kind = "argument" -> Current.arguments[v.index]
    [] v.kind = "register" -> Current.registers[v]

HeldIn(frame, w) ==
  LET r == Register(frame.block, frame.at)
  IN  [frame EXCEPT !.at = @ + 1,
        !.registers = [q \in DOMAIN @ \cup {r} |-> IF q = r THEN w ELSE @[q]]]

ReplaceTop(frame) == [frames EXCEPT ![Len(frames)] = frame]
Gives(w)  == frames' = ReplaceTop(HeldIn(Current, w)) /\ UNCHANGED status
GoesOn    == frames' = ReplaceTop([Current EXCEPT !.at = @ + 1]) /\ UNCHANGED status
Ends(how) == status' = how /\ UNCHANGED frames
Jump(b)   ==
  /\ frames' = ReplaceTop([Current EXCEPT !.block = b, !.at = 1, !.from = Current.block])
  /\ UNCHANGED status

Start ==
  /\ outcome = "generated" /\ status = "idle"
  /\ status' = "running" /\ frames' = <<Frame(MainFunction, << >>)>>
  /\ UNCHANGED <<vars, memory, printed>>

ExecuteMemory ==
  /\ \/ /\ Executing("malloc")
        /\ memory' = memory \o [k \in 1..(Instruction.bytes \div 8) |-> Raw] \o <<Unused>>
        /\ Gives(Len(memory) + 1)
     \/ /\ Executing("store")
        /\ LET to == Held(Instruction.pointer) + Instruction.index
           IN  IF to \in DOMAIN memory /\ memory[to] # Unused
               THEN memory' = [memory EXCEPT ![to] = Word(Held(Instruction.value))] /\ GoesOn
               ELSE Ends("undefined") /\ UNCHANGED memory
     \/ /\ Executing("load")
        /\ LET from == Held(Instruction.pointer) + Instruction.index
           IN  IF from \in DOMAIN memory /\ memory[from].state = "word"
               THEN Gives(memory[from].word) ELSE Ends("undefined")
        /\ UNCHANGED memory
  /\ UNCHANGED <<vars, printed>>

ExecuteValue ==
  /\ \/ Executing("ptrtoint") /\ Gives(Held(Instruction.value))   \* the bits stay
     \/ Executing("inttoptr") /\ Gives(Held(Instruction.value))
     \/ /\ Executing("arithmetic")
        /\ LET x == Computed(Instruction.operator, Held(Instruction.left), Held(Instruction.right))
           IN  IF Failed(x) THEN Ends("undefined") ELSE Gives(x.value)
     \/ /\ Executing("icmp")
        /\ Gives(IF Held(Instruction.left) = Held(Instruction.right) THEN 1 ELSE 0)
     \/ /\ Executing("phi")
        /\ LET k == CHOOSE k \in DOMAIN Instruction.incoming :
                      Instruction.incoming[k].block = Current.from
           IN  Gives(Held(Instruction.incoming[k].value))
  /\ UNCHANGED <<vars, memory, printed>>

ExecuteJump ==
  /\ \/ Executing("br") /\ Jump(Instruction.block)
     \/ /\ Executing("condbr")
        /\ Jump(IF Held(Instruction.value) = 1 THEN Instruction.yes ELSE Instruction.no)
     \/ /\ Executing("switch")
        /\ LET cs  == Instruction.cases
               fit == {k \in DOMAIN cs : cs[k].tag = Held(Instruction.value)}
           IN  Jump(IF fit = {} THEN Instruction.default ELSE cs[CHOOSE k \in fit : TRUE].block)
     \/ Executing("trap") /\ Ends("trapped")
  /\ UNCHANGED <<vars, memory, printed>>

ExecuteCall ==
  /\ \/ /\ Executing("call")
        /\ IF Len(frames) = MaxDepth + 2 THEN Ends("exhausted")
           ELSE /\ frames' = Append(frames, Frame(Instruction.function,
                     [k \in DOMAIN Instruction.arguments |-> Held(Instruction.arguments[k])]))
                /\ UNCHANGED status
        /\ UNCHANGED printed
     \/ /\ Executing("printf")
        /\ printed' = Append(printed, Held(Instruction.value)) /\ GoesOn
     \/ /\ Executing("ret")
        /\ IF Len(frames) = 1 THEN Ends("exited")
           ELSE LET caller == frames[Len(frames) - 1]
                IN  /\ frames' = Append(SubSeq(frames, 1, Len(frames) - 2),
                                        HeldIn(caller, Held(Instruction.value)))
                    /\ UNCHANGED status
        /\ UNCHANGED printed
  /\ UNCHANGED <<vars, memory>>

CompiledInit ==
  Init /\ status = "idle" /\ frames = << >> /\ memory = << >> /\ printed = << >>

Finished ==
  /\ outcome \in {"refused", "invalid"} \/ status \notin {"idle", "running"}
  /\ UNCHANGED <<vars, machine>>

Generate == GeneratorStep /\ UNCHANGED machine

CompiledNext ==
  \/ Generate
  \/ Start \/ ExecuteMemory \/ ExecuteValue \/ ExecuteJump \/ ExecuteCall
  \/ Finished

Spec == CompiledInit /\ [][CompiledNext]_<<vars, machine>>

-----------------------------------------------------------------------------
(* v may be used where the generator stands. *)
Sound(v) ==
  /\ Available(blocks, v.value, insert, Len(blocks[insert].code) + 1)
  /\ TypeOf(blocks, functions, v.value) = llvmType(v.type)

(***************************************************************************)
(* ValuesAreUsable: wherever an expression is emitted, each local, and     *)
(* each operand and argument that waits for its fellows, may be used: it   *)
(* belongs to the function, it has the LLVM type that its MF type says,    *)
(* and it is computed on every way to the place, never only in some other  *)
(* branch.  (What a finished branch gave waits for the phi, with its       *)
(* block.)                                                                 *)
(***************************************************************************)
ValuesAreUsable ==
  Running("emitExpression") =>
    /\ \A s \in DOMAIN locals : Sound(locals[s])
    /\ \A k \in DOMAIN values : "block" \in DOMAIN values[k] \/ Sound(values[k])

IsCallee(p, n) ==
  \E m \in OfKind(p, {"application"}) : p.nodes[m].function = n

GivenTo(p, n) ==
  LET given[m \in NoNode..Len(p.nodes)] ==
        IF IsCallee(p, m) THEN 1 + given[Parent(p, m)] ELSE 0
  IN  given[n]

(***************************************************************************)
(* The uses of names that generation supports.  A function is called with  *)
(* all of its arguments, and so never if it has none: the call is made by  *)
(* an application, and a name alone is a function used as a value, which   *)
(* emitVariable refuses.  The analyses accept such a name, with the type   *)
(* of the body, and Evaluation gives it the value of the body.  A          *)
(* constructor without fields needs no application.                        *)
(***************************************************************************)
IsSupported(p, n) ==
  LET x == p.nodes[n]
      m == Meaning(p, n, x.name)
  IN  x.kind = "variable" =>
        CASE m.kind = "function"    -> Takes(p, m) # 0 /\ GivenTo(p, n) = Takes(p, m)
          [] m.kind = "constructor" -> GivenTo(p, n) = Takes(p, m)
          [] OTHER                  -> ~IsCallee(p, n)

(* Below a branch that comes after one that matches everything. *)
NeverReached(p, n) ==
  \E c \in OfKind(p, {"case"}) :
    LET bs == p.nodes[c].branches
    IN  \E j, k \in DOMAIN bs :
          LET below[m \in NoNode..Len(p.nodes)] ==
                m # NoNode /\ (m = bs[k] \/ below[Parent(p, m)])
          IN  /\ j < k /\ p.nodes[p.nodes[bs[j]].pattern].kind = "variable_pattern"
              /\ below[n]

IsCompilable(p) ==
  /\ MainOf(p) # {}
  /\ \A n \in OfKind(p, Expressions) :
       \/ NeverReached(p, n)
       \/ IsSupported(p, n) /\ (IsCallee(p, n) => p.nodes[n].kind \in {"variable", "application"})

(***************************************************************************)
(* GeneratesWhatItCan: a program is compiled unless it has no main or, in  *)
(* an expression that can be reached, uses a function or constructor       *)
(* without all of its arguments, uses a function that has no parameters    *)
(* (main can run but not be called), or applies what is neither.  These    *)
(* are the only refusals: no lookup of a symbol, a layout or a local fails *)
(* on the way.  What a program is compiled to is valid: one value for      *)
(* every block that a phi can be reached from, no tag twice in a switch,   *)
(* one terminator per block, types that fit.                               *)
(***************************************************************************)
GeneratesWhatItCan ==
  /\ outcome = "generated" => IsCompilable(program)
  /\ outcome = "refused" => ~IsCompilable(program)
  /\ outcome # "invalid"

(* What printf shows of a value, and how the program of a result ends. *)
Shown(v) == IF v.kind = "int" THEN v.value ELSE constructors[v.constructor]

EndOf(r) ==
  IF ~Failed(r) THEN "exited"
  ELSE CASE r.why = "no_branch" -> "trapped"
         [] r.why = "division"  -> "undefined"
         [] r.why = "depth"     -> "exhausted"

(***************************************************************************)
(* PrintsTheMeaning: the compiled program prints what main evaluates to,   *)
(* the number of its constructor if that is a data value; it traps only    *)
(* where no branch fits, and nothing else than a division that has no      *)
(* result is undefined behaviour.                                          *)
(***************************************************************************)
PrintsTheMeaning ==
  status \notin {"idle", "running"} =>
    LET r == Evaluated(program)
    IN  status = EndOf(r) /\ printed = IF Failed(r) THEN << >> ELSE <<Shown(r)>>

(***************************************************************************)
(* InterpreterAgrees: the interpreter gives what the compiled program      *)
(* prints, or fails where that fails; unless it meets a function, or a     *)
(* number that no int can hold.                                            *)
(***************************************************************************)
InterpreterAgrees ==
  status \notin {"idle", "running"} =>
    LET r == Interpret(program)
    IN  \/ Failed(r) /\ r.why \in {"unbound", "overflow"}
        \/ Failed(r) /\ status = EndOf(r)
        \/ ~Failed(r) /\ printed = <<Shown(r)>>
=============================================================================
