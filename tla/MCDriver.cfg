CONSTANTS
  a = a
  b = b
  Compilations = {a, b}
  Paths <- MCPaths
  CommandLines <- SeparatePaths
  Sources = {"valid", "unreadable", "unparsable", "ill_typed", "unsupported"}
  Faults = {"llvm_open", "llvm_write", "open", "emit", "write", "link"}
SPECIFICATION Spec
INVARIANTS
  ExecutableIsOwn
  ObjectAfterSuccess
PROPERTY RefusedInputChangesNothing
