---------------------------- MODULE DriverProofs ----------------------------
(***************************************************************************)
(* What compilations leave on disk, proved for any number of them, any     *)
(* command lines and any failures of the environment.                      *)
(***************************************************************************)
EXTENDS Driver, TLAPS

Phases == {"parse", "options", "llvm", "write_llvm", "object", "emit", "link",
           "remove", "succeeded", "failed", "aborted"}

Content == {Stale} \cup {Bytes(p) : p \in Compilations}
                   \cup {Partial(p) : p \in Compilations}

(* The types of the variables; what a compilation writes to is a file. *)
TypesOK ==
  /\ pc \in [Compilations -> Phases]
  /\ options \in [Compilations -> Options]
  /\ source \in [Compilations -> Sources]
  /\ directory \in [Paths -> Files \cup {NoFile}]
  /\ data \in [Files -> SUBSET Content]
  /\ handle \in [Compilations -> Files \cup {NoFile}]
  /\ \A p \in Compilations : At(p, "write_llvm") \/ At(p, "emit") => handle[p] \in Files
  /\ executable \in [Paths -> SUBSET Content]

-----------------------------------------------------------------------------
LEMMA NoFileIsNone == NoFile \notin Files
  BY DEF NoFile, Files, OldFile, Kinds

(* What a compilation opens is a file, its own or the one at the path. *)
LEMMA OpenedFile ==
  ASSUME TypesOK, NEW p \in Compilations, NEW kind \in Kinds, NEW path \in Paths
  PROVE  /\ Opened(p, kind, path) \in Files
         /\ Opened(p, kind, path) = <<p, kind>> \/ Opened(p, kind, path) = directory[path]
  BY DEF TypesOK, Opened, Files

LEMMA OptionsTypes ==
  ASSUME TypesOK, NEW p \in Compilations
  PROVE  /\ options[p].llvm_output_path \in Paths
         /\ options[p].object_output_path \in Paths
         /\ options[p].executable_output_path \in Paths
  BY DEF TypesOK, Options

LEMMA InitTypes == Init => TypesOK
  <1> SUFFICES ASSUME Init PROVE TypesOK
    OBVIOUS
  <1>1. options \in [Compilations -> Options]
    BY DriverAssumption DEF Init
  <1>2. \A path \in Paths : <<OldFile, path>> \in Files
    BY DEF Files
  <1>3. directory \in [Paths -> Files \cup {NoFile}]
    BY <1>2 DEF Init
  <1> QED
    BY <1>1, <1>3 DEF Init, TypesOK, Phases, Content, At

LEMMA StepTypes ==
  ASSUME TypesOK, [Next]_vars
  PROVE  TypesOK'
  <1>1. CASE UNCHANGED vars
    BY <1>1 DEF TypesOK, vars, At
  <1>2. ASSUME NEW p \in Compilations, Step(p) PROVE TypesOK'
    <2> USE DEF Phases, At, Goto, Fixed
    <2>0. UNCHANGED <<options, source>>
      BY <1>2 DEF Step, ParseFile, ParseOptimizationLevel, OpenLlvmFile, WriteLlvmIr,
         OpenObjectFile, EmitObjectFile, LinkExecutable, RemoveObjectFile
    <2>1. ASSUME Fail(p) PROVE TypesOK'
      BY <2>0, <2>1 DEF Fail, TypesOK
    <2>2. CASE ParseFile(p)
      BY <2>0, <2>1, <2>2 DEF ParseFile, TypesOK
    <2>3. CASE ParseOptimizationLevel(p)
      BY <2>0, <2>1, <2>3 DEF ParseOptimizationLevel, TypesOK
    <2>4. CASE OpenLlvmFile(p)
      <3> DEFINE path == options[p].llvm_output_path
                 f == Opened(p, "llvm", path)
      <3>1. f \in Files /\ path \in Paths
        BY OpenedFile, OptionsTypes DEF Kinds
      <3>2. \/ Fail(p)
            \/ /\ directory' = [directory EXCEPT ![path] = f]
               /\ data' = [data EXCEPT ![f] = {}]
               /\ handle' = [handle EXCEPT ![p] = f]
               /\ Goto(p, "write_llvm") /\ UNCHANGED executable
        BY <2>4 DEF OpenLlvmFile, Truncated
      <3> HIDE DEF path, f
      <3> QED BY <2>0, <2>1, <3>1, <3>2 DEF TypesOK
    <2>9. CASE WriteLlvmIr(p)
      <3>1. handle[p] \in Files /\ data[handle[p]] \subseteq Content
              /\ Bytes(p) \in Content /\ Partial(p) \in Content
        BY <2>9 DEF WriteLlvmIr, TypesOK, Content
      <3>2. PICK bytes \in SUBSET Content : data' = [data EXCEPT ![handle[p]] = bytes]
        BY <2>9, <3>1 DEF WriteLlvmIr, Written
      <3> QED BY <2>0, <2>9, <3>1, <3>2 DEF WriteLlvmIr, Close, TypesOK
    <2>5. CASE OpenObjectFile(p)
      <3> DEFINE path == options[p].object_output_path
                 f == Opened(p, "object", path)
      <3>1. f \in Files /\ path \in Paths
        BY OpenedFile, OptionsTypes DEF Kinds
      <3>2. \/ Fail(p)
            \/ /\ directory' = [directory EXCEPT ![path] = f]
               /\ data' = [data EXCEPT ![f] = {}]
               /\ handle' = [handle EXCEPT ![p] = f]
               /\ Goto(p, "emit") /\ UNCHANGED executable
        BY <2>5 DEF OpenObjectFile, Truncated
      <3> HIDE DEF path, f
      <3> QED BY <2>0, <2>1, <3>1, <3>2 DEF TypesOK
    <2>6. CASE EmitObjectFile(p)
      <3>1. handle[p] \in Files /\ data[handle[p]] \subseteq Content
              /\ Bytes(p) \in Content /\ Partial(p) \in Content
        BY <2>6 DEF EmitObjectFile, TypesOK, Content
      <3>2. PICK bytes \in SUBSET Content :
              data' = data \/ data' = [data EXCEPT ![handle[p]] = bytes]
        BY <2>6, <3>1 DEF EmitObjectFile, Written
      <3> QED BY <2>0, <2>6, <3>1, <3>2 DEF EmitObjectFile, Close, TypesOK
    <2>7. CASE LinkExecutable(p)
      <3> DEFINE f == directory[options[p].object_output_path]
                 output == options[p].executable_output_path
      <3>1. output \in Paths /\ f \in Files \cup {NoFile}
        BY OptionsTypes DEF TypesOK
      <3>2. \/ Fail(p)
            \/ /\ f # NoFile
               /\ executable' = [executable EXCEPT ![output] = data[f]]
               /\ Goto(p, IF options[p].emit_object THEN "succeeded" ELSE "remove")
               /\ UNCHANGED <<directory, data, handle>>
        BY <2>7 DEF LinkExecutable, Linkable
      <3> HIDE DEF f, output
      <3> QED BY <2>0, <2>1, <3>1, <3>2 DEF TypesOK
    <2>8. CASE RemoveObjectFile(p)
      BY <2>0, <2>8, OptionsTypes DEF RemoveObjectFile, WithoutObject, TypesOK
    <2> QED BY <1>2, <2>2, <2>3, <2>4, <2>5, <2>6, <2>7, <2>8, <2>9 DEF Step
  <1> QED
    BY <1>1, <1>2 DEF Next, AllEnded

LEMMA DriverTypes == Spec => []TypesOK
  BY InitTypes, StepTypes, PTL DEF Spec

-----------------------------------------------------------------------------
(***************************************************************************)
(* A compilation that is refused ends before it opens a file: it gets as   *)
(* far as the first output, and is refused there if not before.            *)
(***************************************************************************)
Parsed(p) == source[p] \notin {"unreadable", "unparsable"}

NotYetOpen(p) ==
  \/ pc[p] \in {"parse", "failed"}
  \/ pc[p] = "options" /\ Parsed(p)
  \/ pc[p] \in {"llvm", "object"} /\ Refused(p)

RefusedInv == \A p \in Compilations : Refusable(p) => NotYetOpen(p)

LEMMA InitRefused == Init => RefusedInv
  BY DEF Init, RefusedInv, NotYetOpen

(* What a step of q does if q is refused, and if it is not. *)
LEMMA RefusedStep ==
  ASSUME TypesOK, RefusedInv, NEW q \in Compilations, Step(q)
  PROVE  /\ options' = options /\ source' = source
         /\ \A p \in Compilations : p # q => pc'[p] = pc[p]
         /\ Refusable(q) =>
              /\ UNCHANGED <<directory, data, executable>>
              /\ NotYetOpen(q)'
  <1>1. options' = options /\ source' = source
    BY DEF Step, ParseFile, ParseOptimizationLevel, OpenLlvmFile, WriteLlvmIr,
           OpenObjectFile, EmitObjectFile, LinkExecutable, RemoveObjectFile, Fixed
  <1>2. \A p \in Compilations : p # q => pc'[p] = pc[p]
    BY DEF Step, ParseFile, ParseOptimizationLevel, OpenLlvmFile, WriteLlvmIr,
           OpenObjectFile, EmitObjectFile, LinkExecutable, RemoveObjectFile, Fail,
           Goto, TypesOK
  <1>3. ASSUME Refusable(q)
        PROVE  UNCHANGED <<directory, data, executable>> /\ NotYetOpen(q)'
    <2>1. source[q] \in {"valid", "unreadable", "unparsable", "ill_typed", "unsupported"}
      BY DriverAssumption DEF TypesOK, SourceKinds
    <2>2. \/ ParseFile(q) \/ ParseOptimizationLevel(q)
          \/ Refused(q) /\ (OpenLlvmFile(q) \/ OpenObjectFile(q))
      BY <1>3 DEF RefusedInv, NotYetOpen, Step, OpenLlvmFile, WriteLlvmIr,
         OpenObjectFile, EmitObjectFile, LinkExecutable, RemoveObjectFile, At
    <2>3. ASSUME Fail(q)
          PROVE  UNCHANGED <<directory, data, executable>> /\ NotYetOpen(q)'
      BY <2>3 DEF Fail, Goto, NotYetOpen, TypesOK
    <2>4. CASE ParseFile(q)
      BY <1>1, <2>3, <2>4 DEF ParseFile, Goto, NotYetOpen, Parsed, TypesOK
    <2>5. CASE ParseOptimizationLevel(q)
      BY <1>1, <1>3, <2>1, <2>3, <2>5
      DEF ParseOptimizationLevel, RefusedInv, Refusable, NotYetOpen, Parsed, Refused,
          Goto, At, TypesOK
    <2>6. CASE Refused(q) /\ (OpenLlvmFile(q) \/ OpenObjectFile(q))
      BY <2>3, <2>6 DEF OpenLlvmFile, OpenObjectFile
    <2> QED BY <2>2, <2>4, <2>5, <2>6
  <1> QED BY <1>1, <1>2, <1>3

(***************************************************************************)
(* RefusedInputChangesNothing: for every compilation that is refused,      *)
(* whatever the others do and whatever paths it shares with them.          *)
(***************************************************************************)
THEOREM RefusalsChangeNothing == Spec => RefusedInputChangesNothing
  <1> DEFINE Unchanged ==
        \A p \in Compilations :
          Refusable(p) /\ pc'[p] # pc[p] => UNCHANGED <<directory, data, executable>>
  <1>1. TypesOK /\ RefusedInv /\ [Next]_vars => RefusedInv'
    <2> SUFFICES ASSUME TypesOK, RefusedInv, [Next]_vars PROVE RefusedInv'
      OBVIOUS
    <2>1. CASE UNCHANGED vars
      BY <2>1 DEF RefusedInv, Refusable, NotYetOpen, Parsed, Refused, vars
    <2>2. ASSUME NEW q \in Compilations, Step(q) PROVE RefusedInv'
      BY <2>2, RefusedStep DEF RefusedInv, Refusable, NotYetOpen, Parsed, Refused
    <2> QED BY <2>1, <2>2 DEF Next, AllEnded
  <1>2. TypesOK /\ RefusedInv /\ [Next]_vars => [Unchanged]_vars
    <2> SUFFICES ASSUME TypesOK, RefusedInv, [Next]_vars,
                        NEW p \in Compilations, Refusable(p), pc'[p] # pc[p]
                 PROVE  UNCHANGED <<directory, data, executable>>
      OBVIOUS
    <2>1. PICK q \in Compilations : Step(q)
      BY DEF Next, AllEnded, vars
    <2> QED BY <2>1, RefusedStep
  <1> QED
    BY InitRefused, DriverTypes, <1>1, <1>2, PTL DEF Spec, RefusedInputChangesNothing

-----------------------------------------------------------------------------
(***************************************************************************)
(* What an earlier run has left.  Its bytes are only in its own files, and *)
(* these are at their own paths or at none; once a compilation has opened  *)
(* the path of its object file, no file that this path names holds any.    *)
(***************************************************************************)
Clean(p) ==
  At(p, "emit") \/ At(p, "link") =>
    LET f == ObjectAt(p) IN f # NoFile => Stale \notin data[f]

StaleInv ==
  /\ \A path \in Paths :
       directory[path] \in {NoFile, <<OldFile, path>>} \cup Compilations \X Kinds
  /\ \A f \in Compilations \X Kinds : Stale \notin data[f]
  /\ \A p \in Compilations : Clean(p)
  /\ \A path \in Paths : Stale \notin executable[path]

LEMMA InitStale == Init => StaleInv
  BY DriverAssumption DEF Init, StaleInv, Clean, At, OldFile, Files

LEMMA OwnBytes ==
  ASSUME NEW p \in Compilations
  PROVE  Stale # Bytes(p) /\ Stale # Partial(p)
  BY DEF Stale, Bytes, Partial

(***************************************************************************)
(* What a step does to the files, as far as stale bytes are concerned: it  *)
(* writes none, and a path that is opened names a file there was or a new  *)
(* one.                                                                    *)
(***************************************************************************)
KeepsClean(q) ==
  /\ \A f \in Files : Stale \in data'[f] => Stale \in data[f]
  /\ \A path \in Paths : directory'[path] \in {directory[path], NoFile} \cup {<<q, k>> : k \in Kinds}
  /\ \A p \in Compilations : p # q => pc'[p] = pc[p]
  /\ options' = options

LEMMA StepKeepsClean ==
  ASSUME TypesOK, NEW q \in Compilations, Step(q)
  PROVE  KeepsClean(q)
  <1> USE OwnBytes DEF KeepsClean, Goto, Fixed
  <1>1. ASSUME Fail(q), options' = options PROVE KeepsClean(q)
    BY <1>1 DEF Fail, TypesOK
  <1>2. CASE ParseFile(q)
    BY <1>1, <1>2 DEF ParseFile, TypesOK
  <1>3. CASE ParseOptimizationLevel(q)
    BY <1>1, <1>3 DEF ParseOptimizationLevel, TypesOK
  <1>4. CASE OpenLlvmFile(q)
    <2> DEFINE path == options[q].llvm_output_path
               f == Opened(q, "llvm", path)
    <2>1. /\ f \in Files /\ path \in Paths
          /\ f \in {directory[path]} \cup {<<q, k>> : k \in Kinds}
      BY OpenedFile, OptionsTypes DEF Kinds
    <2>2. \/ Fail(q)
          \/ /\ directory' = [directory EXCEPT ![path] = f]
             /\ data' = [data EXCEPT ![f] = {}]
             /\ Goto(q, "write_llvm")
      BY <1>4 DEF OpenLlvmFile, Truncated
    <2>3. options' = options
      BY <1>4 DEF OpenLlvmFile
    <2> HIDE DEF path, f
    <2> QED BY <1>1, <2>1, <2>2, <2>3 DEF TypesOK
  <1>9. CASE WriteLlvmIr(q)
    BY <1>9 DEF WriteLlvmIr, Written, TypesOK
  <1>5. CASE OpenObjectFile(q)
    <2> DEFINE path == options[q].object_output_path
               f == Opened(q, "object", path)
    <2>1. /\ f \in Files /\ path \in Paths
          /\ f \in {directory[path]} \cup {<<q, k>> : k \in Kinds}
      BY OpenedFile, OptionsTypes DEF Kinds
    <2>2. \/ Fail(q)
          \/ /\ directory' = [directory EXCEPT ![path] = f]
             /\ data' = [data EXCEPT ![f] = {}]
             /\ Goto(q, "emit")
      BY <1>5 DEF OpenObjectFile, Truncated
    <2>3. options' = options
      BY <1>5 DEF OpenObjectFile
    <2> HIDE DEF path, f
    <2> QED BY <1>1, <2>1, <2>2, <2>3 DEF TypesOK
  <1>6. CASE EmitObjectFile(q)
    BY <1>6 DEF EmitObjectFile, Written, TypesOK
  <1>7. CASE LinkExecutable(q)
    BY <1>1, <1>7 DEF LinkExecutable, TypesOK
  <1>8. CASE RemoveObjectFile(q)
    BY <1>8, OptionsTypes DEF RemoveObjectFile, WithoutObject, TypesOK
  <1> QED BY <1>2, <1>3, <1>4, <1>5, <1>6, <1>7, <1>8, <1>9 DEF Step

(* The step of q that opens its object file empties what the path names. *)
LEMMA StepCleansOwn ==
  ASSUME TypesOK, NEW q \in Compilations, Step(q), Clean(q)
  PROVE  At(q, "object") /\ At(q, "emit")' =>
           ObjectAt(q)' \in Files /\ data'[ObjectAt(q)'] = {}
  <1> SUFFICES ASSUME At(q, "object"), At(q, "emit")'
               PROVE  ObjectAt(q)' \in Files /\ data'[ObjectAt(q)'] = {}
    OBVIOUS
  <1> DEFINE path == options[q].object_output_path
             f == Opened(q, "object", path)
  <1>1. OpenObjectFile(q)
    BY DEF Step, ParseFile, ParseOptimizationLevel, OpenLlvmFile, WriteLlvmIr,
           EmitObjectFile, LinkExecutable, RemoveObjectFile, At
  <1>2. /\ f \in Files /\ path \in Paths
        /\ directory' = [directory EXCEPT ![path] = f]
        /\ data' = [data EXCEPT ![f] = {}] /\ options' = options
    BY <1>1, OpenedFile, OptionsTypes DEF OpenObjectFile, Truncated, Fail, Goto, At, Kinds,
       TypesOK, Fixed
  <1> HIDE DEF f
  <1> QED BY <1>2 DEF ObjectAt, TypesOK

LEMMA StepStale ==
  ASSUME TypesOK, TypesOK', StaleInv, NEW q \in Compilations, Step(q)
  PROVE  StaleInv'
  <1>1. KeepsClean(q)
    BY StepKeepsClean
  <1>2. \A path \in Paths :
          directory'[path] \in {NoFile, <<OldFile, path>>} \cup Compilations \X Kinds
    BY <1>1 DEF KeepsClean, StaleInv
  <1>3. \A f \in Compilations \X Kinds : Stale \notin data'[f]
    BY <1>1 DEF KeepsClean, StaleInv, Files
  <1>4. ASSUME NEW p \in Compilations, At(p, "emit")' \/ At(p, "link")',
               ObjectAt(p)' # NoFile
        PROVE  Stale \notin data'[ObjectAt(p)']
    <2>1. options[p].object_output_path \in Paths /\ ObjectAt(p)' \in Files
      BY <1>1, <1>4, OptionsTypes DEF ObjectAt, KeepsClean, TypesOK
    <2>2. CASE At(p, "emit") \/ At(p, "link")
      <3>1. Clean(p)
        BY DEF StaleInv
      <3> QED BY <1>1, <1>3, <1>4, <2>1, <2>2, <3>1 DEF Clean, ObjectAt, KeepsClean
    <2>3. CASE ~(At(p, "emit") \/ At(p, "link"))
      <3>1. p = q /\ At(q, "object") /\ At(q, "emit")'
        BY <1>1, <1>4, <2>3 DEF KeepsClean, At, Step, ParseFile,
           ParseOptimizationLevel, OpenLlvmFile, WriteLlvmIr, OpenObjectFile,
           EmitObjectFile, LinkExecutable, RemoveObjectFile, Fail, Goto, TypesOK
      <3> QED BY <3>1, StepCleansOwn DEF StaleInv
    <2> QED BY <2>2, <2>3
  <1>5. \A path \in Paths : Stale \notin executable'[path]
    <2>1. CASE executable' = executable
      BY <2>1 DEF StaleInv
    <2>2. CASE executable' # executable
      <3>1. /\ At(q, "link") /\ ObjectAt(q) # NoFile
            /\ executable' = [executable EXCEPT
                                ![options[q].executable_output_path] = data[ObjectAt(q)]]
        BY <2>2 DEF Step, ParseFile, ParseOptimizationLevel, OpenLlvmFile,
           WriteLlvmIr, OpenObjectFile, EmitObjectFile, LinkExecutable,
           RemoveObjectFile, Fail, Linkable, ObjectAt, At
      <3>2. Stale \notin data[ObjectAt(q)]
        BY <3>1 DEF StaleInv, Clean
      <3> QED BY <3>1, <3>2 DEF StaleInv, TypesOK
    <2> QED BY <2>1, <2>2
  <1> QED BY <1>2, <1>3, <1>4, <1>5 DEF StaleInv, Clean

(***************************************************************************)
(* NeverLinksStale: for any number of compilations, whatever paths they    *)
(* share and whatever fails.                                               *)
(***************************************************************************)
THEOREM NoStaleExecutable == Spec => []NeverLinksStale
  <1>1. TypesOK /\ TypesOK' /\ StaleInv /\ [Next]_vars => StaleInv'
    <2>1. ASSUME UNCHANGED vars, StaleInv PROVE StaleInv'
      BY <2>1 DEF StaleInv, Clean, ObjectAt, At, vars
    <2> QED BY <2>1, StepStale DEF Next, AllEnded
  <1>2. TypesOK /\ StaleInv => NeverLinksStale
    BY OptionsTypes DEF StaleInv, NeverLinksStale
  <1> QED BY InitStale, DriverTypes, <1>1, <1>2, PTL DEF Spec

-----------------------------------------------------------------------------
(***************************************************************************)
(* When each compilation names object and executable paths of its own.     *)
(* Its IR may go to the path of its object file, which is opened later;    *)
(* that executables are no one's input is Driver's assumption.             *)
(***************************************************************************)
SeparateCommandLines ==
  \A c \in CommandLines : \A p, q \in Compilations :
    p # q => /\ c[p].object_output_path # c[q].object_output_path
             /\ c[p].object_output_path # c[q].llvm_output_path
             /\ c[p].executable_output_path # c[q].executable_output_path

SeparateOptions == options \in CommandLines

(* The path a file was created at: a path names no other file. *)
PathOf(f) ==
  IF f[1] = OldFile THEN f[2]
  ELSE IF f[2] = "llvm" THEN options[f[1]].llvm_output_path
  ELSE options[f[1]].object_output_path

Placed ==
  \A path \in Paths : directory[path] # NoFile => PathOf(directory[path]) = path

(* The files of p: what it writes to, and its object file until it has ended. *)
Whole(p) == ObjectAt(p) # NoFile /\ data[ObjectAt(p)] = {Bytes(p)}

Linked(p) == executable[options[p].executable_output_path] = {Bytes(p)}

OwnFiles(p) ==
  /\ At(p, "write_llvm") => PathOf(handle[p]) = options[p].llvm_output_path
  /\ At(p, "emit") => /\ ObjectAt(p) # NoFile /\ data[ObjectAt(p)] = {}
                      /\ handle[p] = ObjectAt(p)
  /\ At(p, "link") => Whole(p)
  /\ At(p, "remove") => Linked(p) /\ ~options[p].emit_object
  /\ At(p, "succeeded") => /\ Linked(p)
                           /\ options[p].emit_object => Whole(p)
                           /\ ~options[p].emit_object /\ "remove" \notin Faults
                                => ObjectAt(p) = NoFile

OwnInv == SeparateOptions /\ Placed /\ \A p \in Compilations : OwnFiles(p)

LEMMA InitOwn == Init => OwnInv
  BY DriverAssumption DEF Init, OwnInv, SeparateOptions, Placed, PathOf, OwnFiles, At

LEMMA Distinct ==
  ASSUME SeparateCommandLines, SeparateOptions,
         NEW p \in Compilations, NEW q \in Compilations, p # q
  PROVE  /\ options[p].object_output_path # options[q].object_output_path
         /\ options[p].object_output_path # options[q].llvm_output_path
         /\ options[p].executable_output_path # options[q].executable_output_path
  BY DEF SeparateCommandLines, SeparateOptions

(* Opening a path keeps every file at the path it was created at. *)
LEMMA OpenedPath ==
  ASSUME TypesOK, Placed, NEW q \in Compilations, NEW kind \in Kinds,
         NEW path \in Paths, PathOf(<<q, kind>>) = path
  PROVE  PathOf(Opened(q, kind, path)) = path
  BY DEF Opened, Placed

LEMMA OpenedPlaced ==
  ASSUME TypesOK, Placed, NEW q \in Compilations, NEW kind \in Kinds,
         NEW path \in Paths, PathOf(<<q, kind>>) = path,
         directory' = [directory EXCEPT ![path] = Opened(q, kind, path)],
         options' = options
  PROVE  Placed'
  <1>1. ASSUME NEW x \in Paths, directory'[x] # NoFile
        PROVE  PathOf(directory'[x]) = x
    <2>1. directory'[x] = IF x = path THEN Opened(q, kind, path) ELSE directory[x]
      BY DEF TypesOK
    <2> QED BY <1>1, <2>1, OpenedPath DEF Placed
  <1> QED BY <1>1 DEF Placed, PathOf

LEMMA OwnPaths ==
  ASSUME NEW q \in Compilations
  PROVE  /\ PathOf(<<q, "llvm">>) = options[q].llvm_output_path
         /\ PathOf(<<q, "object">>) = options[q].object_output_path
  BY DriverAssumption DEF PathOf, OldFile

LEMMA StepPlaced ==
  ASSUME TypesOK, SeparateOptions, Placed, NEW q \in Compilations, Step(q)
  PROVE  options' = options /\ Placed'
  <1>1. options' = options
    BY DEF Step, ParseFile, ParseOptimizationLevel, OpenLlvmFile, WriteLlvmIr,
           OpenObjectFile, EmitObjectFile, LinkExecutable, RemoveObjectFile, Fixed
  <1>2. ASSUME \A path \in Paths : directory'[path] \in {directory[path], NoFile}
        PROVE  Placed'
    BY <1>1, <1>2 DEF Placed, PathOf
  <1>3. CASE OpenLlvmFile(q)
    BY <1>1, <1>2, <1>3, OpenedPlaced, OwnPaths, OptionsTypes
      DEF OpenLlvmFile, Fail, Kinds
  <1>4. CASE OpenObjectFile(q)
    BY <1>1, <1>2, <1>4, OpenedPlaced, OwnPaths, OptionsTypes
      DEF OpenObjectFile, Fail, Kinds
  <1>5. CASE RemoveObjectFile(q)
    <2>1. \A path \in Paths : directory'[path] \in {directory[path], NoFile}
      BY <1>5, OptionsTypes DEF RemoveObjectFile, WithoutObject, TypesOK
    <2> QED BY <1>1, <1>2, <2>1
  <1>6. CASE \/ ParseFile(q) \/ ParseOptimizationLevel(q) \/ WriteLlvmIr(q)
             \/ EmitObjectFile(q) \/ LinkExecutable(q)
    <2>1. directory' = directory
      BY <1>6 DEF ParseFile, ParseOptimizationLevel, WriteLlvmIr, EmitObjectFile,
                  LinkExecutable, Fail
    <2> QED BY <1>1, <1>2, <2>1
  <1> QED BY <1>1, <1>3, <1>4, <1>5, <1>6 DEF Step

(* A step of q leaves the files of p as they are. *)
KeepsFiles(p) ==
  /\ pc'[p] = pc[p] /\ handle'[p] = handle[p]
  /\ ObjectAt(p)' = ObjectAt(p)
  /\ ObjectAt(p) # NoFile => data'[ObjectAt(p)] = data[ObjectAt(p)]
  /\ executable'[options[p].executable_output_path]
       = executable[options[p].executable_output_path]

LEMMA OthersKeepFiles ==
  ASSUME TypesOK, SeparateCommandLines, OwnInv,
         NEW p \in Compilations, NEW q \in Compilations, p # q, Step(q)
  PROVE  KeepsFiles(p)
  <1>1. options' = options
    BY StepPlaced DEF OwnInv
  <1>2. /\ options[p].object_output_path \in Paths
        /\ ObjectAt(p)' = directory'[options[p].object_output_path]
        /\ ObjectAt(p) # NoFile => /\ ObjectAt(p) \in Files
                                   /\ PathOf(ObjectAt(p)) = options[p].object_output_path
    BY <1>1, OptionsTypes DEF ObjectAt, OwnInv, Placed, TypesOK
  <1>3. pc'[p] = pc[p] /\ handle'[p] = handle[p]
    BY DEF Step, ParseFile, ParseOptimizationLevel, OpenLlvmFile, WriteLlvmIr,
           OpenObjectFile, EmitObjectFile, LinkExecutable, RemoveObjectFile, Fail,
           Goto, Close, TypesOK
  <1>4. CASE ParseFile(q) \/ ParseOptimizationLevel(q)
    BY <1>1, <1>2, <1>3, <1>4
    DEF ParseFile, ParseOptimizationLevel, Fail, KeepsFiles, ObjectAt
  <1>5. ASSUME Fail(q) PROVE KeepsFiles(p)
    BY <1>1, <1>2, <1>3, <1>5 DEF Fail, KeepsFiles, ObjectAt
  <1>6. ASSUME NEW kind \in Kinds, NEW path \in Paths, PathOf(<<q, kind>>) = path,
               path # options[p].object_output_path,
               directory' = [directory EXCEPT ![path] = Opened(q, kind, path)],
               NEW c, data' = [data EXCEPT ![Opened(q, kind, path)] = c],
               executable' = executable
        PROVE  KeepsFiles(p)
    <2>1. PathOf(Opened(q, kind, path)) = path
      BY <1>6, OpenedPath DEF OwnInv
    <2>2. ObjectAt(p)' = ObjectAt(p)
      BY <1>2, <1>6 DEF ObjectAt, TypesOK
    <2>3. ObjectAt(p) # NoFile => data'[ObjectAt(p)] = data[ObjectAt(p)]
      <3>1. ObjectAt(p) # NoFile => ObjectAt(p) # Opened(q, kind, path)
        BY <1>2, <1>6, <2>1
      <3> QED BY <1>2, <1>6, <3>1 DEF TypesOK
    <2> QED BY <1>3, <1>6, <2>2, <2>3 DEF KeepsFiles
  <1>7. CASE OpenLlvmFile(q)
    <2> DEFINE path == options[q].llvm_output_path
    <2>1. path # options[p].object_output_path
      BY Distinct DEF OwnInv
    <2>2. \/ Fail(q)
          \/ /\ directory' = [directory EXCEPT ![path] = Opened(q, "llvm", path)]
             /\ data' = [data EXCEPT ![Opened(q, "llvm", path)] = {}]
             /\ executable' = executable
      BY <1>7 DEF OpenLlvmFile, Truncated
    <2> QED BY <1>5, <1>6, <2>1, <2>2, OwnPaths, OptionsTypes DEF Kinds
  <1>12. CASE WriteLlvmIr(q)
    <2>1. PathOf(handle[q]) = options[q].llvm_output_path
      BY <1>12 DEF WriteLlvmIr, OwnInv, OwnFiles
    <2>2. ObjectAt(p) # NoFile => ObjectAt(p) # handle[q]
      BY <1>2, <2>1, Distinct DEF OwnInv
    <2>3. /\ \E c : data' = [data EXCEPT ![handle[q]] = c]
          /\ UNCHANGED <<directory, executable>>
      BY <1>12 DEF WriteLlvmIr
    <2>4. ObjectAt(p) # NoFile => data'[ObjectAt(p)] = data[ObjectAt(p)]
      BY <1>2, <2>2, <2>3 DEF TypesOK
    <2> QED BY <1>1, <1>2, <1>3, <2>3, <2>4 DEF KeepsFiles, ObjectAt
  <1>8. CASE OpenObjectFile(q)
    <2> DEFINE path == options[q].object_output_path
    <2>1. path # options[p].object_output_path
      BY Distinct DEF OwnInv
    <2>2. \/ Fail(q)
          \/ /\ directory' = [directory EXCEPT ![path] = Opened(q, "object", path)]
             /\ data' = [data EXCEPT ![Opened(q, "object", path)] = {}]
             /\ executable' = executable
      BY <1>8 DEF OpenObjectFile, Truncated
    <2> QED BY <1>5, <1>6, <2>1, <2>2, OwnPaths, OptionsTypes DEF Kinds
  <1>9. CASE EmitObjectFile(q)
    <2>1. handle[q] = ObjectAt(q) /\ ObjectAt(q) # NoFile
      BY <1>9 DEF EmitObjectFile, OwnInv, OwnFiles
    <2>2. PathOf(handle[q]) = options[q].object_output_path
      BY <2>1, OptionsTypes DEF OwnInv, Placed, ObjectAt
    <2>3. ObjectAt(p) # NoFile => ObjectAt(p) # handle[q]
      BY <1>2, <2>2, Distinct DEF OwnInv
    <2>4. /\ data' = data \/ \E c : data' = [data EXCEPT ![handle[q]] = c]
          /\ UNCHANGED <<directory, executable>>
      BY <1>9 DEF EmitObjectFile
    <2>5. ObjectAt(p) # NoFile => data'[ObjectAt(p)] = data[ObjectAt(p)]
      BY <1>2, <2>3, <2>4 DEF TypesOK
    <2> QED BY <1>2, <1>3, <2>4, <2>5 DEF KeepsFiles, ObjectAt
  <1>10. CASE LinkExecutable(q)
    <2>1. \/ Fail(q)
          \/ /\ \E c : executable' = [executable EXCEPT ![options[q].executable_output_path] = c]
             /\ UNCHANGED <<directory, data>>
      BY <1>10 DEF LinkExecutable
    <2>2. options[p].executable_output_path # options[q].executable_output_path
      BY Distinct DEF OwnInv
    <2> QED BY <1>1, <1>2, <1>3, <1>5, <2>1, <2>2, OptionsTypes
        DEF KeepsFiles, ObjectAt, TypesOK
  <1>11. CASE RemoveObjectFile(q)
    <2>1. options[p].object_output_path # options[q].object_output_path
      BY Distinct DEF OwnInv
    <2>2. directory'[options[p].object_output_path] = directory[options[p].object_output_path]
      BY <1>2, <1>11, <2>1 DEF RemoveObjectFile, WithoutObject, TypesOK
    <2> QED BY <1>2, <1>3, <1>11, <2>2 DEF RemoveObjectFile, KeepsFiles, ObjectAt
  <1> QED BY <1>4, <1>7, <1>8, <1>9, <1>10, <1>11, <1>12 DEF Step

-----------------------------------------------------------------------------
(* The steps of p itself. *)
LEMMA OwnSteps ==
  ASSUME TypesOK, TypesOK', SeparateCommandLines, OwnInv, NEW p \in Compilations, Step(p)
  PROVE  OwnFiles(p)'
  <1>1. /\ options' = options
        /\ options[p].object_output_path \in Paths
        /\ options[p].executable_output_path \in Paths
        /\ ObjectAt(p)' = directory'[options[p].object_output_path]
    BY StepPlaced, OptionsTypes DEF OwnInv, ObjectAt
  <1>2. OwnFiles(p)
    BY DEF OwnInv
  <1>3. CASE pc'[p] \in {"parse", "options", "llvm", "object", "failed", "aborted"}
    BY <1>3 DEF OwnFiles, At
  <1>9. CASE pc'[p] = "write_llvm"
    <2> DEFINE f == Opened(p, "llvm", options[p].llvm_output_path)
    <2>1. OpenLlvmFile(p)
      BY <1>9 DEF Step, ParseFile, ParseOptimizationLevel, WriteLlvmIr,
         OpenObjectFile, EmitObjectFile, LinkExecutable, RemoveObjectFile, Fail, Goto,
         At, TypesOK
    <2>2. handle'[p] = f
      BY <1>9, <2>1 DEF OpenLlvmFile, Fail, Goto, At, TypesOK
    <2>3. PathOf(f) = options[p].llvm_output_path
      BY OpenedPath, OwnPaths, OptionsTypes DEF OwnInv, Kinds
    <2> HIDE DEF f
    <2> QED BY <1>1, <1>9, <2>2, <2>3 DEF OwnFiles, PathOf, At
  <1>4. CASE pc'[p] = "emit"
    <2> DEFINE f == Opened(p, "object", options[p].object_output_path)
    <2>1. OpenObjectFile(p)
      BY <1>4 DEF Step, ParseFile, ParseOptimizationLevel, OpenLlvmFile, WriteLlvmIr,
         EmitObjectFile, LinkExecutable, RemoveObjectFile, Fail, Goto, At, TypesOK
    <2>2. /\ f \in Files
          /\ directory' = [directory EXCEPT ![options[p].object_output_path] = f]
          /\ data' = [data EXCEPT ![f] = {}]
          /\ handle' = [handle EXCEPT ![p] = f]
      BY <1>1, <1>4, <2>1, OpenedFile
      DEF OpenObjectFile, Truncated, Fail, Goto, At, Kinds, TypesOK
    <2> HIDE DEF f
    <2>3. ObjectAt(p)' = f /\ handle'[p] = f /\ data'[f] = {} /\ f # NoFile
      BY <1>1, <2>2, NoFileIsNone DEF TypesOK
    <2> QED BY <1>4, <2>3 DEF OwnFiles, At
  <1>5. CASE pc'[p] = "link"
    <2>1. EmitObjectFile(p)
      BY <1>5 DEF Step, ParseFile, ParseOptimizationLevel, OpenLlvmFile, WriteLlvmIr,
         OpenObjectFile, LinkExecutable, RemoveObjectFile, Fail, Goto, At, TypesOK
    <2>2. /\ ObjectAt(p) # NoFile /\ ObjectAt(p) \in Files
          /\ handle[p] = ObjectAt(p) /\ data[ObjectAt(p)] = {}
      BY <1>1, <1>2, <2>1 DEF OwnFiles, EmitObjectFile, ObjectAt, TypesOK
    <2>3. /\ directory' = directory
          /\ data' = [data EXCEPT ![ObjectAt(p)] = {Bytes(p)}]
      BY <1>5, <2>1, <2>2 DEF EmitObjectFile, Written, Goto, At, TypesOK
    <2>4. Whole(p)'
      BY <1>1, <2>2, <2>3 DEF Whole, ObjectAt, TypesOK
    <2> QED BY <1>5, <2>4 DEF OwnFiles, At
  <1>6. ASSUME LinkExecutable(p), pc'[p] # "failed"
        PROVE  /\ UNCHANGED <<directory, data>>
               /\ Linked(p)' /\ Whole(p)'
               /\ pc'[p] = IF options[p].emit_object THEN "succeeded" ELSE "remove"
    <2>1. Whole(p)
      BY <1>2, <1>6 DEF OwnFiles, LinkExecutable
    <2>2. /\ executable' = [executable EXCEPT ![options[p].executable_output_path] = {Bytes(p)}]
          /\ UNCHANGED <<directory, data>>
          /\ pc'[p] = IF options[p].emit_object THEN "succeeded" ELSE "remove"
      BY <1>6, <2>1 DEF LinkExecutable, Whole, ObjectAt, Fail, Goto, At, TypesOK
    <2> QED BY <1>1, <2>1, <2>2 DEF Linked, Whole, ObjectAt, TypesOK
  <1>7. CASE pc'[p] = "remove"
    <2>1. LinkExecutable(p)
      BY <1>7 DEF Step, ParseFile, ParseOptimizationLevel, OpenLlvmFile, WriteLlvmIr,
         OpenObjectFile, EmitObjectFile, RemoveObjectFile, Fail, Goto, At, TypesOK
    <2> QED BY <1>1, <1>6, <1>7, <2>1 DEF OwnFiles, At
  <1>8. CASE pc'[p] = "succeeded"
    <2>1. LinkExecutable(p) \/ RemoveObjectFile(p)
      BY <1>8 DEF Step, ParseFile, ParseOptimizationLevel, OpenLlvmFile, WriteLlvmIr,
         OpenObjectFile, EmitObjectFile, Fail, Goto, At, TypesOK
    <2>2. CASE LinkExecutable(p)
      BY <1>1, <1>6, <1>8, <2>2 DEF OwnFiles, At
    <2>3. CASE RemoveObjectFile(p)
      <3>1. Linked(p)' /\ ~options'[p].emit_object
        BY <1>1, <1>2, <2>3 DEF RemoveObjectFile, OwnFiles, Linked
      <3>2. "remove" \notin Faults => ObjectAt(p)' = NoFile
        BY <1>1, <2>3 DEF RemoveObjectFile, WithoutObject, Fault, TypesOK
      <3> QED BY <1>8, <3>1, <3>2 DEF OwnFiles, At
    <2> QED BY <2>1, <2>2, <2>3
  <1> QED BY <1>3, <1>4, <1>5, <1>7, <1>8, <1>9 DEF TypesOK, Phases

LEMMA StepOwn ==
  ASSUME TypesOK, TypesOK', SeparateCommandLines, OwnInv, [Next]_vars
  PROVE  OwnInv'
  <1>1. CASE UNCHANGED vars
    BY <1>1 DEF OwnInv, SeparateOptions, Placed, PathOf, OwnFiles, Whole, Linked,
                ObjectAt, At, vars
  <1>2. ASSUME NEW q \in Compilations, Step(q) PROVE OwnInv'
    <2>1. options' = options /\ Placed'
      BY <1>2, StepPlaced DEF OwnInv
    <2>2. ASSUME NEW p \in Compilations, p # q PROVE OwnFiles(p)'
      <3>1. KeepsFiles(p) /\ OwnFiles(p)
        BY <1>2, <2>2, OthersKeepFiles DEF OwnInv
      <3> QED BY <2>1, <3>1 DEF KeepsFiles, OwnFiles, Whole, Linked, PathOf, At
    <2>3. OwnFiles(q)'
      BY <1>2, OwnSteps
    <2> QED BY <2>1, <2>2, <2>3 DEF OwnInv, SeparateOptions
  <1> QED BY <1>1, <1>2 DEF Next, AllEnded

LEMMA FilesAreOwn ==
  ASSUME SeparateCommandLines
  PROVE  Spec => []OwnInv
  <1>1. TypesOK /\ TypesOK' /\ OwnInv /\ [Next]_vars => OwnInv'
    BY StepOwn
  <1> QED BY InitOwn, DriverTypes, <1>1, PTL DEF Spec

(***************************************************************************)
(* ExecutableIsOwn: with paths of their own, any number of compilations    *)
(* can run at once, whatever fails in each.                                *)
(***************************************************************************)
THEOREM ExecutablesAreOwn ==
  ASSUME SeparateCommandLines
  PROVE  Spec => []ExecutableIsOwn
  <1>1. OwnInv => ExecutableIsOwn
    BY DEF OwnInv, OwnFiles, Linked, ExecutableIsOwn
  <1> QED BY FilesAreOwn, <1>1, PTL

(***************************************************************************)
(* ObjectAfterSuccess: so is the object file, kept whole on request; it is *)
(* removed otherwise unless the removal, whose result is ignored, fails.   *)
(***************************************************************************)
THEOREM ObjectsAfterSuccess ==
  ASSUME SeparateCommandLines, "remove" \notin Faults
  PROVE  Spec => []ObjectAfterSuccess
  <1>1. OwnInv => ObjectAfterSuccess
    BY DEF OwnInv, OwnFiles, Whole, ObjectAfterSuccess
  <1> QED BY FilesAreOwn, <1>1, PTL
=============================================================================
