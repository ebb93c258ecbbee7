CONSTANTS
  Programs <- MCPrograms
  Names <- MCNames
  UpperNames <- MCUpperNames
SPECIFICATION Spec
INVARIANTS
  TypeOK
  ScopesFormTree
  OneScopePerSymbol
  NodesAreBoundOnce
  ResolvesLexically
  AcceptsTheWellScoped
  ScopesFollowTheTree
  LaterLookupsSucceed
PROPERTIES
  DeclarationsAreFinal
