CONSTANTS
  a = a
  b = b
  Compilations = {a, b}
  Paths <- MCPaths
  CommandLines <- SharedObjectPath
  Sources = {"valid"}
  Faults = {"open", "emit", "write", "link", "remove"}
SPECIFICATION Spec
INVARIANT NeverLinksStale
