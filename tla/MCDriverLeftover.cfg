CONSTANTS
  a = a
  b = b
  Compilations = {a}
  Paths <- MCPaths
  CommandLines <- OneCompilation
  Sources = {"valid"}
  Faults = {"link"}
SPECIFICATION Spec
INVARIANT ObjectKeptOnlyOnRequest
