------------------------------ MODULE MCDriver ------------------------------
(* Two compilations with paths of their own, or one path for the object.   *)
EXTENDS Driver

CONSTANTS a, b

CommandLine(llvm, keep, level, ll, obj, exe) ==
  [emit_llvm |-> llvm, emit_object |-> keep, optimization_level |-> level,
   llvm_output_path |-> ll, object_output_path |-> obj,
   executable_output_path |-> exe]

MCPaths == {"a.ll", "b.ll", "a.o", "b.o", "a.out", "b.out", "bin/mf.o"}

(* Every path distinct; a takes the options in every combination. *)
SeparatePaths ==
  {[p \in {a, b} |->
      IF p = a THEN CommandLine(llvm, keep, level, "a.ll", "a.o", "a.out")
      ELSE CommandLine(FALSE, FALSE, 0, "b.ll", "b.o", "b.out")] :
     llvm \in BOOLEAN, keep \in BOOLEAN, level \in {3, 4}}

(* Both leave --object-output at its default. *)
SharedObjectPath ==
  {[p \in {a, b} |->
      IF p = a THEN CommandLine(FALSE, keep, 0, "a.ll", "bin/mf.o", "a.out")
      ELSE CommandLine(FALSE, FALSE, 0, "b.ll", "bin/mf.o", "b.out")] :
     keep \in BOOLEAN}

(* One compilation alone. *)
OneCompilation ==
  {[p \in {a} |-> CommandLine(TRUE, FALSE, 0, "a.ll", "a.o", "a.out")]}
=============================================================================
