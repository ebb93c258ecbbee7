------------------------------- MODULE Driver -------------------------------
(***************************************************************************)
(* mfcc, the compiler driver (main.cpp), and the files it goes through.    *)
(* Several compilations may run at once on one file system; each is one    *)
(* sequential process that writes an object file, hands its path to the    *)
(* linker, and removes it.  Source text and machine code are abstract:     *)
(* what matters of a file is whose bytes it holds.                         *)
(***************************************************************************)
EXTENDS Integers, FiniteSets

CONSTANTS
  Compilations,   \* the running mfcc processes
  Paths,          \* file names
  CommandLines,   \* the assignments of options to compilations under study
  Sources,        \* what the input may be, a subset of SourceKinds
  Faults          \* the failures of the environment that may happen

(* An input is compiled, or refused by the phase named. *)
SourceKinds == {"valid", "unreadable", "unparsable", "ill_typed", "unsupported"}

FaultKinds == {"llvm_open", "llvm_write", "target", "open", "emit", "write",
               "no_linker", "link", "remove"}

Options == [emit_llvm : BOOLEAN, emit_object : BOOLEAN, optimization_level : Nat,
            llvm_output_path : Paths, object_output_path : Paths,
            executable_output_path : Paths]

ASSUME DriverAssumption ==
  /\ CommandLines \subseteq [Compilations -> Options]
  /\ Sources \subseteq SourceKinds
  /\ Faults \subseteq FaultKinds
  /\ "old" \notin Compilations       \* it names the files of earlier runs

VARIABLES
  pc,          \* the step each compilation is at, or how it ended
  options,     \* its command line
  source,      \* its input
  directory,   \* the file each path names
  data,        \* whose bytes a file holds; {} is an empty file
  handle,      \* the output file a compilation has open
  executable   \* whose object code the executable at a path was linked from

vars == <<pc, options, source, directory, data, handle, executable>>

-----------------------------------------------------------------------------
(***************************************************************************)
(* Files.  A file keeps its identity when its path is removed or is taken  *)
(* over, so it is named after the compilation that created it.             *)
(***************************************************************************)
NoFile     == <<"none", "none">>
OldFile    == "old"         \* the one there may be at a path to begin with
Stale      == <<"stale", "stale">>       \* bytes of an earlier run
Bytes(p)   == <<"whole", p>>
Partial(p) == <<"partial", p>>

Kinds   == {"llvm", "object"}
Files   == {OldFile} \X Paths \cup Compilations \X Kinds

(* Opening a path for writing truncates the file there, or creates one. *)
Opened(p, kind, path) ==
  IF directory[path] = NoFile THEN <<p, kind>> ELSE directory[path]

(***************************************************************************)
(* Bytes written from the start of a file replace what another process has *)
(* written there meanwhile, all of it or the first part.                   *)
(***************************************************************************)
Written(f, bytes) == {{bytes}, data[f] \cup {bytes}}

-----------------------------------------------------------------------------
Init ==
  /\ pc = [p \in Compilations |-> "parse"]
  /\ options \in CommandLines
  /\ source \in [Compilations -> Sources]
  /\ directory \in {[path \in Paths |->
                       IF path \in old THEN <<OldFile, path>> ELSE NoFile] :
                      old \in {{}, Paths}}
  /\ data = [f \in Files |-> IF f[1] = OldFile THEN {Stale} ELSE {}]
  /\ handle = [p \in Compilations |-> NoFile]
  /\ executable = [path \in Paths |-> {}]

At(p, step)  == pc[p] = step
Goto(p, step) == pc' = [pc EXCEPT ![p] = step]

(* Faulty: removes the executable. *)
WithoutOutput(p) == [directory EXCEPT ![options[p].executable_output_path] = NoFile]

WithoutObject(p) == [directory EXCEPT ![options[p].object_output_path] = NoFile]

(* Faulty: removes the object file on the way out, whoever has written it. *)
FailAndRemove(p) ==
  /\ Goto(p, "failed")
  /\ directory' = WithoutObject(p)
  /\ UNCHANGED <<data, handle, executable>>

(* An exception reaches main, which prints it and returns 1. *)
Fail(p) == Goto(p, "failed") /\ UNCHANGED <<directory, data, handle, executable>>

Fault(kind) == kind \in Faults

Fixed == UNCHANGED <<options, source>>

(* parseFile *)
ParseFile(p) ==
  /\ At(p, "parse")
  /\ IF source[p] \in {"unreadable", "unparsable"} THEN Fail(p)
     ELSE Goto(p, "options") /\ UNCHANGED <<directory, data, handle, executable>>
  /\ Fixed

(* parseOptimizationLevel *)
ParseOptimizationLevel(p) ==
  /\ At(p, "options")
  /\ IF options[p].optimization_level \notin 0..3 THEN Fail(p)
     ELSE /\ Goto(p, IF options[p].emit_llvm THEN "llvm" ELSE "object")
          /\ UNCHANGED <<directory, data, handle, executable>>
  /\ Fixed

(***************************************************************************)
(* analyzeOrThrow and generateModule run to the end before any output file *)
(* is opened.                                                              *)
(***************************************************************************)
Refused(p) == source[p] \in {"ill_typed", "unsupported"}

(* Faulty: the file is opened as it is. *)
NotTruncated(f) == data

Truncated(f) == [data EXCEPT ![f] = {}]

(* writeLlvmIr, as far as its ofstream. *)
OpenLlvmFile(p) ==
  LET path == options[p].llvm_output_path
      f == Opened(p, "llvm", path)
  IN  /\ At(p, "llvm")
      /\ \/ (Refused(p) \/ Fault("llvm_open")) /\ Fail(p)
         \/ /\ ~Refused(p)
            /\ directory' = [directory EXCEPT ![path] = f]
            /\ data' = Truncated(f)
            /\ handle' = [handle EXCEPT ![p] = f]
            /\ Goto(p, "write_llvm")
            /\ UNCHANGED executable
      /\ Fixed

Close(p) == handle' = [handle EXCEPT ![p] = NoFile]

(* The rest of it: whether the stream takes all of the text is not checked. *)
WriteLlvmIr(p) ==
  /\ At(p, "write_llvm")
  /\ \E bytes \in Written(handle[p], Bytes(p)) \cup
                  (IF Fault("llvm_write") THEN Written(handle[p], Partial(p)) ELSE {}) :
       data' = [data EXCEPT ![handle[p]] = bytes]
  /\ Close(p)
  /\ Goto(p, "object")
  /\ UNCHANGED <<directory, executable>>
  /\ Fixed

(* writeObjectFile, as far as the raw_fd_ostream of emitObjectFile. *)
OpenObjectFile(p) ==
  LET path == options[p].object_output_path
      f == Opened(p, "object", path)
  IN  /\ At(p, "object")
      /\ \/ (Refused(p) \/ Fault("target") \/ Fault("open")) /\ Fail(p)
         \/ /\ ~Refused(p)
            /\ directory' = [directory EXCEPT ![path] = f]
            /\ data' = Truncated(f)
            /\ handle' = [handle EXCEPT ![p] = f]
            /\ Goto(p, "emit")
            /\ UNCHANGED executable
      /\ Fixed

(***************************************************************************)
(* The rest of emitObjectFile.  The stream is closed on every way out; an  *)
(* unreported write error makes its destructor end the process.            *)
(***************************************************************************)
EmitObjectFile(p) ==
  /\ At(p, "emit")
  /\ \/ Fault("emit") /\ Goto(p, "failed") /\ UNCHANGED data
     \/ /\ \E bytes \in Written(handle[p], Bytes(p)) :
             data' = [data EXCEPT ![handle[p]] = bytes]
        /\ Goto(p, "link")
     \/ /\ Fault("write")
        /\ \E bytes \in Written(handle[p], Partial(p)) :
             data' = [data EXCEPT ![handle[p]] = bytes]
        /\ Goto(p, "aborted")
  /\ Close(p)
  /\ UNCHANGED <<directory, executable>>
  /\ Fixed

(* The linker needs an object file that starts as one and is complete. *)
Linkable(f) ==
  f # NoFile /\ data[f] # {} /\ \A p \in Compilations : Partial(p) \notin data[f]

(* linkExecutable: the linker finds the object file by its path. *)
LinkExecutable(p) ==
  LET f == directory[options[p].object_output_path]
      output == options[p].executable_output_path
  IN  /\ At(p, "link")
      /\ \/ (Fault("no_linker") \/ Fault("link") \/ ~Linkable(f)) /\ Fail(p)
         \/ f # NoFile /\ Cardinality(data[f]) > 1 /\ Fail(p)
         \/ /\ Linkable(f)
            /\ executable' = [executable EXCEPT ![output] = data[f]]
            /\ Goto(p, IF options[p].emit_object THEN "succeeded" ELSE "remove")
            /\ UNCHANGED <<directory, data, handle>>
      /\ Fixed

(* The result of std::filesystem::remove is ignored. *)
RemoveObjectFile(p) ==
  /\ At(p, "remove")
  /\ \/ directory' = WithoutObject(p)
     \/ Fault("remove") /\ UNCHANGED directory
  /\ Goto(p, "succeeded")
  /\ UNCHANGED <<data, handle, executable>>
  /\ Fixed

Step(p) == \/ ParseFile(p) \/ ParseOptimizationLevel(p)
           \/ OpenLlvmFile(p) \/ WriteLlvmIr(p)
           \/ OpenObjectFile(p) \/ EmitObjectFile(p)
           \/ LinkExecutable(p) \/ RemoveObjectFile(p)

Ended(p) == pc[p] \in {"succeeded", "failed", "aborted"}

AllEnded == (\A p \in Compilations : Ended(p)) /\ UNCHANGED vars

Next == (\E p \in Compilations : Step(p)) \/ AllEnded

Spec == Init /\ [][Next]_vars

-----------------------------------------------------------------------------
ObjectAt(p) == directory[options[p].object_output_path]

(***************************************************************************)
(* A compilation that exits with 0 leaves an executable linked from its    *)
(* own object code alone.  Holds when no two compilations name one path.   *)
(***************************************************************************)
ExecutableIsOwn ==
  \A p \in Compilations :
    At(p, "succeeded") =>
      executable[options[p].executable_output_path] = {Bytes(p)}

(***************************************************************************)
(* No executable is linked from what an earlier run left at the path of    *)
(* the object file, even when compilations share that path.                *)
(***************************************************************************)
NeverLinksStale ==
  \A p \in Compilations :
    At(p, "succeeded") => Stale \notin executable[options[p].executable_output_path]

(***************************************************************************)
(* After success the object file is there, whole, with --emit-obj, and is  *)
(* gone without it.                                                        *)
(***************************************************************************)
ObjectAfterSuccess ==
  \A p \in Compilations :
    At(p, "succeeded") =>
      IF options[p].emit_object
      THEN ObjectAt(p) # NoFile /\ data[ObjectAt(p)] = {Bytes(p)}
      ELSE ObjectAt(p) = NoFile

(***************************************************************************)
(* What is refused for itself, and not by a failure of the environment:    *)
(* the input, or the optimization level.                                   *)
(***************************************************************************)
Refusable(p) == source[p] # "valid" \/ options[p].optimization_level \notin 0..3

(***************************************************************************)
(* No step of such a compilation changes a file: it neither creates one    *)
(* nor touches what is at the paths of its outputs, where an earlier run   *)
(* may have left a program that works.  Diagnostics come before any output *)
(* is opened, the IR output included, and nothing is cleaned up.           *)
(***************************************************************************)
RefusedInputChangesNothing ==
  [][\A p \in Compilations :
       Refusable(p) /\ pc'[p] # pc[p] =>
         UNCHANGED <<directory, data, executable>>]_vars

(***************************************************************************)
(* "Keep generated object file" is what --emit-obj is for: without it a    *)
(* compilation that has ended leaves no object file of its own.            *)
(***************************************************************************)
ObjectKeptOnlyOnRequest ==
  \A p \in Compilations :
    Ended(p) /\ ~options[p].emit_object =>
      ObjectAt(p) = NoFile \/ Bytes(p) \notin data[ObjectAt(p)]

(***************************************************************************)
(* "Write LLVM IR alongside the executable": with --emit-llvm a success    *)
(* means that the IR has been written.                                     *)
(***************************************************************************)
IrWrittenOnSuccess ==
  \A p \in Compilations :
    At(p, "succeeded") /\ options[p].emit_llvm =>
      LET f == directory[options[p].llvm_output_path]
      IN  f # NoFile /\ data[f] = {Bytes(p)}
=============================================================================
