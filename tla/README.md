# Verification of the MF compiler

TLA+ models of the compiler for MF, a small functional language (`mfcc`), with
the TLC configurations that check them and proofs for TLAPS. Everything is
translated from the C++ under `src/` and `include/`.

## The system

The compiler is one sequential program. Its phases run one after another, each
on the complete result of the one before:

    tokenize -> parse -> semantics::analyze -> semantics::analyzeTypes
             -> interpreter
             -> LLVM IR generator -> object file -> linker      (mfcc, main.cpp)

| component | source | state | operations | what makes it correct |
| - | - | - | - | - |
| Tokenizer | `src/tokenization/tokenize.cpp` | input, position, tokens | scan, scanToken, scanWord, scanNumber, scanArrow | longest match, positions, every input accepted or rejected as the token table says |
| Parser | `src/parsing/parse.cpp` | token cursor, next node id, positions | one function per production of `docs/grammar.md` | accepts the grammar; numbers every node once, an operator between its operands and every other node after its children; precedence and associativity; an error blames no token that is fine |
| Syntax tree | `include/parsing/ast.hpp` | the tree and node numbers | none | a forest with the definitions as roots |
| Name resolution | `src/semantics/symbol_table.cpp` | `ScopeTree` (scopes, symbols, node to scope, node to symbol), diagnostics | `createScope`, `addLocalSymbol`, lookups, the walk of `Analyzer` | lexical scoping; every error found; every lookup of the later phases succeeds |
| Type table and unification | `src/semantics/type_table.cpp` | `types_`, diagnostics | `makeType`, `resolve`, `occurs`, `bindVariable`, `tryUnify`, `unify`, `materialize` | no cyclic type; sound, complete and terminating unification; nothing merged is separated |
| Type inference | `src/semantics/type_table.cpp` | symbol types, signatures of constructors and functions | register constructors, prepare signatures, infer bodies, finalize, check restrictions | accepts exactly the programs with one first-order typing, and reports that typing |
| Interpreter | `src/visitors/interpreter.cpp` | environments, copied for each branch | evaluation of `main` without functions | agrees with the generated code |
| Code generation | `src/visitors/llvm_ir.cpp` | module, functions, layouts, locals | declarations, definitions, expressions, case | valid IR for every program that the analyses accept and that has a `main`, unless code that can be reached uses a function or constructor without all of its arguments, uses a function that has no parameters, or applies what is neither; locals usable wherever they are in scope; the executable prints what the program means |
| Driver | `src/main.cpp`, output functions of `llvm_ir.cpp` | the file system | options, parse, write IR, write object, link, remove | what is on disk after success and failure |
| Print visitor | `src/visitors/print_visitor.cpp` | none | `print` | what it prints reads as the same program |
| Utilities | `src/util` | none | text of positions | - |

The parts interact by calls and by the data they hand on: the tree with its node
numbers, `AnalysisResult` (scopes, symbols and the two maps from nodes), and
`TypeAnalysisResult` (signatures). The type analyzer and the generator look
names up again in the scopes, and return early, or throw, when a lookup fails. Separate runs of `mfcc` share the file
system, and by default the same output paths.

What is hard here is not concurrency inside the program, there is none, but long
sequences of small steps over shared, aliased state (the type table, under path
compression and failed unifications), walks that rely on the order of earlier
walks (name resolution, then signatures, then bodies), agreement of two phases on
what has been set up (node numbers, scopes, the layout of data), a generator that
moves its insertion point and its map of locals under the values it still holds, the
edges of two kinds of integers, and what several processes and failures leave on disk.

## Modules and code

Ids count from 1 in the models and from 0 in the code, so that 0 can stand for an
empty optional or `kInvalid...`. A recursive walk of the code is a stack of
pending calls in its model, one step per call, in the order of the code; what a
loop does in one turn is one step.

| module | models | state and actions |
| - | - | - |
| `TypeGraph` | the abstract type table: what `types_` promises to everything that uses it | `types`; `Grow` (`makeType`, any number of times), `Compress` (`resolve`), `Bind` (`bindVariable`) |
| `Unification` | `resolve`, `peek`, `occurs`, `bindVariable`, `tryUnify`, `unify`, `materialize` | `types`, and `todo`, the recursion of `tryUnify`; `request` and `before` are history. `TryUnify` is one call of `tryUnify`, path compression by every `resolve` it makes included. The caller is another module: it uses `Proceed` for a step of its own and `CallUnify` to call |
| `UnificationCalls` | the caller left open: any `makeX`, `unify` and `materialize` on types there are | the variables of `Unification`; one action per operation |
| `Syntax` | `ast.hpp`: nodes, their numbers, what the grammar allows | constants only; `IsProgram` is assumed of every program given |
| `LexicalScoping`, `Typing` | nothing of the code: what names mean and what it is for a program to have a type, stated on the tree | the references that the next two are compared with |
| `Scopes` | `ScopeTree` and `Analyzer` (`symbol_table.cpp`) | the four maps of `ScopeTree` and the diagnostics; one action per handler of the walk |
| `TypeAnalysis` | all of `TypeAnalyzer::analyze`, on the result of name resolution | composes `Scopes` (as `S`), `Unification` (extended) and the walk: `symbolTypes`, the signatures by id, and `table`, the result. `typeOf` holds what `inferExpression` has returned to the pending calls |
| `Tokens` | `token.hpp` | constants only |
| `Tokenizer` | `Scanner` (`tokenize.cpp`), on a text of characters | `it`, `pos`, `tokens`; one step per turn of the loops of `scan`, `scanWord` and `scanNumber`. `value` is the literal being read, in an int that overflows above `MaxInt` |
| `Parser` | `Parser` (`parse.cpp`) | `it`, `nodes` (the tree, with the number of a node as its place), `positions`; `parsed` is what the pending calls have returned. A function that only calls others is a list of steps |
| `Readings` | nothing of the code: what `docs/grammar.md` derives from a sequence of tokens, without a cursor. It also writes the programs of `MCCompiled` | the reference of the parser |
| `Printer` | `print_visitor.cpp`, as the tokens it writes | operators only |
| `Grammar` | - | composes `Parser`, `Readings` and `Printer`; the properties that relate them |
| `LlvmIr` | external: the values, instructions and blocks that are used of LLVM IR, and what `verifyModule` demands (dominance, types, phi nodes) | constants only |
| `CodeGen` | `LlvmIrGenerator` (`llvm_ir.cpp`) | `constructors`, `functions`, `locals`, `blocks`, `insert` (the insertion point); one action per `emit...` function or part of it between two calls |
| `Evaluation` | nothing of the code: what a program means | the reference of the next two |
| `Interpreter` | `interpreter.cpp` | operators only: the interpreter keeps no state |
| `Compiled` | external: the executable, one instruction at a time | composes `CodeGen` with `frames`, `memory` and `printed`, and compares with `Interpreter` and `Evaluation` |
| `Driver` | `main.cpp` and the functions of `llvm_ir.cpp` that write files | the file system and, for each process, its phase and options |
| `MC...` | instances for TLC | the programs, processes and bounds |
| `...Proofs` | theorems | - |

Abstractions: diagnostics keep their node and kind (name resolution) or only that
there is one (type inference), not their text; source positions are in the tokenizer and the
parser (there a position is the place of its token) and left out after them; the
iteration order of the hash maps in `finalizeTypes` is not fixed because nothing
but the order of the diagnostics depends on it, and `materialize`'s path
compression commutes. `describe`, which `unify` calls for the text of an error,
only reads the table through `peek`.

`CodeGen` takes the results of the analyses from `LexicalScoping` and `Typing`, which
`Scopes` and `TypeAnalysis` are shown to agree with; address computations are part
of the loads and stores that use them, and `IRBuilder`'s folding of constants is left
out. The heap of `Compiled` leaves an unused word between objects, so that a load or
store past the end of an object is seen.

## What is checked

| run | question | bounds |
| - | - | - |
| `unification` | Is the algorithm of `unify` correct on every table? `Acyclic` (no type contains itself, so the recursions end), `Sound` (a success makes the two types equal under every instance of the variables left), `Complete` (what makes the two types equal respects every binding made, and a failure is reported only if no ground instance of what was there does), `GraphSpec` (it implements `TypeGraph`), `MergedStayMerged`, `ConcreteTypesAreFinal` (a concrete type, once there, never changes, so a signature read early is the one read at the end) | `MaxTypes` = 4 entries, one data type. Four entries hold a function of a function, two variables chained to a third, and the cycles through a function that the occurs check must prevent; all sequences of calls on them are explored. `Complete` instantiates variables with five types (`MCGroundTypes`), a curried and a higher-order one among them; the theorem allows all finite types |
| `unification_liveness` | `UnifyReturns`: does every call return? | `MaxTypes` = 3, because TLC's liveness check keeps the graph |
| `scopes` | Does the analyzer implement lexical scoping? `ResolvesLexically`, `AcceptsTheWellScoped`, `ScopesFollowTheTree`; is the tree of scopes sound, `ScopesFormTree`, `OneScopePerSymbol`; is every node bound once, `NodesAreBoundOnce`, so that `DeclarationsAreFinal`; `LaterLookupsSucceed` (every lookup that type inference and code generation make in an accepted program succeeds) | 1873 programs of three shapes whose names vary: sibling and nested branches, two functions, two data types; every name is shadowed, repeated, used out of scope and used as the wrong sort in some program |
| `type_analysis` | Does inference, with name resolution before it and unification below it, accept exactly the programs that have one typing, a first-order one (`AcceptsTheTypable`), and report it (`SignaturesAreTheTyping`)? Does it keep to the table's contract (`GraphSpec`), read only what it has computed (`TypeOK`), and end, name resolution included (`AnalysisEnds`)? | 1032 programs of two shapes (`MCTypeAnalysis`): calls, recursion, definitions in both orders, partial and excess application, self-application, patterns of the wrong type or arity, unknown field types. About one in ten is accepted; most others are refused for one reason only |
| `driver` | What do two compilations with paths of their own leave on disk, whatever fails? `ExecutableIsOwn`, `ObjectAfterSuccess`, `RefusedInputChangesNothing` (no step of a compilation that is refused for its input or its optimization level creates, truncates, writes or removes a file, those of earlier runs included) | two processes, every kind of input, earlier outputs there or not, every failure but those that `main` ignores |
| `driver_shared` | What if both leave `--object-output` at its default? They may link each other's object, but never an old one: `NeverLinksStale` | two processes, one object path, every failure |
| `tokenizer` | Are the tokens the longest lexemes of the text, with the values, lines and columns that they have there, and is a text refused at its first foreign character and only there (`TokensAreTheLexemes`, `TypeOK`)? | every text of up to four characters over one character of each class, and pairs of keywords joined by nothing, a line break, a letter, a digit, a symbol, a vertical tab or a foreign character; `MaxInt` = 21, so that two digits can overflow |
| `parser` | Does the parser accept exactly the grammar, with its precedence and associativity (`ReadsTheGrammar`)? Is what it returns a program as the later phases assume it (`YieldsAProgram`), with positions that point at the nodes (`PositionsPointAtTheNodes`, `TypeOK`)? Does an error blame a token that could be there (`BlamesNoGoodToken`)? Does `print` keep the program (`PrintingKeepsTheProgram`)? Does it end (`ParsingEnds`)? | every body of up to five tokens over a name, a literal, one operator of each level and parentheses; programs that use every production, with every token removed, replaced by every other kind or preceded by it, and cut off at every token |
| `compiled` | Is valid IR generated for exactly the programs that the generator supports (`GeneratesWhatItCan`)? Can what it holds be used where it stands (`ValuesAreUsable`)? Does the executable print what the program means, trap only where no branch matches, and divide only what has a quotient (`PrintsTheMeaning`)? Does the interpreter agree (`InterpreterAgrees`)? | about a hundred accepted programs: every kind of case expression (switch, sequence of tests, repeated constructors, unreachable branches) as body, operand, scrutinee, callee and body of a branch, on lists of different lengths; numbers of every kind of division, the least one by -1 included; all ways to leave arguments out. Words of 8 bits and a `MaxInt` of 9, so that both overflow; calls 6 deep (`MaxDepth`), more than the lists are long. 76 programs exit, 12 exhaust the stack, 3 trap, 5 divide without a quotient, 5 are refused |
| `driver_leftover`, `driver_unchecked_write`, `tokenizer_overflow` | the findings below, as violations | one process; as `tokenizer` |

The models of all phases are sequential, so a program fixes its behaviour; the
choice is in the programs. `Typing` searches for typings among types with at most
one arrow. That is enough: a program has exactly one typing and that one is
first-order if and only if this is so among these types, because whatever is left
open can be both `Int` and `Int -> Int`.

Fairness is weak fairness of the whole next-state relation for the parser and the
analyses, and of `TryUnify` under the open caller: the code does nothing but run, and
its loops have no other way to wait. The driver, the scanner and the generator state no
liveness and so no fairness; a compilation of `Driver` may stop after any step.

## Findings

- `driver_leftover`: `--emit-obj` is documented as what keeps the object file, but
  when the linker is missing or fails, the exception skips the removal and the file
  stays.
- `driver_unchecked_write`: `writeLlvmIr` does not test the stream after writing; a
  failed write leaves a partial file, reported as written, with exit code 0.
- `tokenizer_overflow`: the grammar allows any number of digits, and `scanNumber`
  adds them up in an int without a check. A literal that no int can hold overflows
  (undefined behaviour), and the program is compiled with whatever number is left.

Three things that are not findings, because nothing in the repository says otherwise:

- a function without parameters, other than `main`, passes the analyses but cannot be
  used: its name alone is a function used as a value to the generator (`emitVariable`),
  so `GeneratesWhatItCan` lists it with what is refused;
- the interpreter knows constructors but no functions, so it fails on most programs that
  compile;
- the interpreter computes with 32 bits where the executable has 64.

`InterpreterAgrees` leaves out the programs where one of the last two is so, and only
those.

## What is proved

The theorems hold for every value of the constants: tables of every size with any data
types, every program that the grammar allows (`ProgramsAssumption`), any number of
compilations (`DriverAssumption`, which also keeps the name of earlier files apart from
those of compilations), texts of every length (`TokenizerAssumption`), and sequences of
tokens of every length, each name in the case of its kind (`InputsAssumption`). Two theorems
of the driver have hypotheses that run `driver` meets: paths of their own
(`SeparateCommandLines`), and for the object file removals that do not fail.

- `UnificationProofs`, on the abstract table: acyclicity is not inductive as it stands:
  whether `Bind` keeps it depends on `Reps`, and `Reps` and `Root` are recursive
  functions, of which nothing can be said until it is shown that functions with
  those definitions exist. So the invariant `WellFormed` carries their existence
  along with the types and acyclicity, and each kind of step gives the new `Root`
  in terms of the old one. `GraphInduction` is the induction that acyclicity
  allows; `RepsExists` takes the entries reachable from one as the least closed
  set. `Bind` is the heart (`BindWellFormed`): the entries that the variable does
  not occur in are closed under reference and contain its new binding, so a cycle
  would have to lie among the others, where the variable now refers to nothing.
  From there, `GraphSafety` (types and acyclicity) and `GraphMerging` (an action
  property).
- `UnificationProofs`, on the algorithm, for any caller. One step of `tryUnify` is a step of
  the abstract table (`TryUnifyIsGraphStep`), by cases on what it does with the two
  resolved types, and it keeps the pending calls in range. Soundness and completeness
  come from one notion, a `Model` of the table: a value for every entry that respects
  its bindings and function types. Path compression has the same models
  (`CompressKeepsModels`), binding a variable keeps those that give both sides one
  value (`BindKeepsModels`), and a step of `tryUnify` that does not fail keeps the
  models that solve all pending calls (`StepKeepsSolutions`). A step that fails has no
  such model (`FailureHasNoSolution`): two constructors differ, or the occurs check
  found the variable inside the type, whose value would then be smaller than itself,
  and types have a finite size. `SoundInv` (every model that solves what is pending
  solves the request) and `CompleteInv` (a solution of the request, on the table as it
  was when `unify` was called, is a model still, and solves what is pending) are the two
  invariants. That `Denotes` and `Materialized` are the values they are defined to be
  rests on acyclicity (`ValuesExist`, `ValuesUnique`). `GraphKeepsConcreteTypes`
  shows the action property of the abstract table.
- `UnificationCallsProofs`: the theorems of the detailed specification:
  `UnificationTypeOK`, `UnificationRefinesGraph` (each step maps to a step of
  `TypeGraph` or a stutter), and acyclicity, merging and `ConcreteTypesAreFinal`,
  inherited through the refinement; then `UnificationSound` and `UnificationComplete`.
  The instances of the latter are any set of types in which a function type is larger
  than its two sides and these are in the set (`GroundTypesAssumption`), so the set of
  all finite types, curried and higher-order ones, is one.
- `TypeAnalysisProofs`: type inference, for every program, ill-typed ones included. The
  invariant `Inv` has the scopes (what inference looks up in them is a number), the
  table and the calls of unify (`UnificationInv`), the ids kept in `symbolTypes`, the
  signatures and `typeOf` (`KnowledgeInv`: all are in the table), and the pending calls
  (`WorkInv`). The last is what the types of the code do not say: `Ordered`, that each
  node whose type a pending call reads has been given one or will be by a call before
  it. One lemma per action shows that it keeps `Inv`, that it is a step of the table,
  and that it uses unification only by `Proceed` and `CallUnify` (`Keeps`). From this:
  `AnalysisTypeOK`, `AnalysisRefinesGraph`, and with it `AnalysisAcyclic` and
  `AnalysisKeepsConcreteTypes`; and `AnalysisSound` from the lemmas on unification.
- `ScopesProofs`: name resolution. The invariant `Inv` adds to the types that
  children are in range, and keeps the tree and the symbols together, because the
  search through the parents is a recursive function that only the tree gives a
  meaning to (`SearchExists`, `SearchFinds`): that a resolved id is in range
  (`ScopesTypeOK`) rests on `ScopesAreATree`. `SymbolsHaveOneScope` is a part of
  it. `WalkBindsOnce` is a second induction: a call for a node is made when the
  node above it is bound, the grammar gives each node one place (`OnePlace`), so
  nothing below a node that is about to be bound has been met
  (`NothingBelowIsMet`). That is what `MeaningsAreFinal` needs for the map of
  resolved uses, which the code overwrites without looking.
- `LexicalProofs`: name resolution follows the tree, for every program, those with errors
  included: `ScopesFollow`, `LexicalResolution`, `AcceptsExactly` and `LookupsSucceed`.
  The reference `LexicalScoping` is defined on the finished tree, while the analyzer
  looks names up in scopes that are still being filled. So the invariant `NamesInv`
  relates the pending calls to the tree, in layers that each rest on those before:
  globals are registered before any body is bound (`OrderInv`); each node is bound or
  some pending call leads to it (`CoverInv`); scopes, calls and bound nodes have the
  owners that the tree gives them (`OwnersInv`); a scope holds the first names of its
  owner, and the next calls declare the others, before anything is looked up there
  (`LocalsInv`, and `GlobalsInv` for the root scope, whose order is that of two loops);
  what is bound is resolved to what it means (`UsesInv`), and there is an error exactly
  where the program is not well scoped. The lemma in the middle is `Lookup`: once the
  scopes above are complete, the search through the parents of a scope and the walk up
  the tree end at the same declaration. `Parent`, `Encloser` and `Meaning` are recursive
  functions on the tree, which are shown to exist from the depth of a node
  (`WalkExists`, `EncloserOf`, `MeaningOf`).
- `TokenizerProofs`: `TokenizerTypeOK`, that the line and the column counted along with
  the cursor are those of the cursor (`ScanTypes`), and `TokensOfEveryText`. Its
  invariant `LexInv` describes the scan in the middle of a token: the tokens so far are
  the lexemes of the text before it, one after another with blanks between them, and
  what has been read of the current one is a word, or a number with the value its
  digits have, as long as an int can hold it.
- `ParserProofs`: what the parser yields, for every sequence of tokens. The pending calls
  of the recursive descent are typed like the instructions of a stack machine: a sort
  says what is known of one item of `parsed` (a name and the token it came from, a node
  of some kinds that begins at some token, a list, an operand with the operators
  waiting to its left), a shape is a stack of sorts, and a step leads from one shape to another.
  `FlowInv`, the center, says that what is parsed has a shape from which the pending calls lead, one
  after another, to nothing; each way a call can go on (a loop of the code taken or
  left, an alternative chosen by the next token) is a lemma that splices other steps into
  that chain. The other parts are what it needs to be inductive. `CursorInv` has the types.
  `NodesInv` says that each finished node is as the grammar allows and its
  position points at it. `MakesInv`: a node is made after a token was consumed for it,
  so that it has a position. `OperatorsInv`: the numbers without a node are those that pending
  operators hold, the inner ones greater, so that none is left over in an
  accepted tree. `OwnersInv`: every finished node is in one place,
  an item of `parsed`, a parent or the definitions, so nothing is lost or shared.
  `RanksInv`: the children of a node have smaller ranks, because an operator has a
  smaller number than its right operand and the numbers themselves do not order the tree. From `IInv`
  (`ParserInvariant`), `ParserTypeOK`, `ParserPositions`, and `ParserYieldsAProgram`: what
  parse returns is what the proofs about the later phases assume of programs
  (`ProgramsAssumption`).
- `DriverProofs`: `RefusalsChangeNothing`, an action property (`RefusedInv`: a compilation
  that is refused has failed, or is before the step that refuses it, and none of the
  steps up to there touches a file), and
  `NoStaleExecutable` (`StaleInv`: old bytes are in old files only, and the path of an
  object that has been opened no longer names one) hold whatever the compilations share;
  `ExecutablesAreOwn` and `ObjectsAfterSuccess` rest on `OwnInv`, which says for each
  phase what is at each path of a compilation, and that no other compilation uses them.

The recursive functions of these parts are reasoned about by a least counterexample
(lemma `LeastElement`), which the proof modules that need it state for themselves.

Only model-checked:

- liveness (`UnifyReturns`, `AnalysisEnds`, `ParsingEnds`), which is out of TLAPS's reach;
- that inference accepts what `Typing` does (`AcceptsTheTypable`,
  `SignaturesAreTheTyping`): soundness and completeness of each unification are proved,
  but that the constraints of a program are those of its typings is a statement about all
  of its walk;
- that the parser reads the grammar, blames no good token, and reads back what
  `print` writes (`ReadsTheGrammar`, `BlamesNoGoodToken`, `PrintingKeepsTheProgram`), whose
  references `Readings` and `Printer` are RECURSIVE operators;
- what the executable and the interpreter do (`PrintsTheMeaning`, `InterpreterAgrees`),
  whose references `Evaluation` and `Interpreter` are RECURSIVE operators;
- the generator (`ValuesAreUsable`, `GeneratesWhatItCan`): both rest on dominance in a
  graph of blocks that is still being built and on the types that inference reports, and
  stand in the module that composes it with those references.

## What is not modelled

LLVM's folding, optimisation passes, choice of a target and emission of object code,
the linker and the C library are external; the files they leave are in `Driver`, and
memory never runs out in `Compiled` (the generated code does not test what `malloc`
returns). The text of diagnostics and of positions (`src/util`) is layout.

## Plan

1. Unification and its abstract table, with proofs (done).
2. Name resolution against lexical scoping, with proofs; the driver (done).
3. Type inference composed of both (done).
4. The tokenizer, the parser and the printer; code generation, the executable and the
   interpreter (done).
5. Proofs that every step of `TypeAnalysis` is a step of `TypeGraph`, from the ids that
   name resolution hands on; soundness and completeness of unification; the tokenizer
   and the driver (done).
6. Proofs that name resolution follows the tree (done).
7. Proofs that the parser yields programs, with their positions (done).
8. Proof that inference is sound for `Typing`: the typing that it reports for an
   accepted program is one.
