CONSTANTS
  a = a
  b = b
  Compilations = {a}
  Paths <- MCPaths
  CommandLines <- OneCompilation
  Sources = {"valid"}
  Faults = {"llvm_write"}
SPECIFICATION Spec
INVARIANT IrWrittenOnSuccess
