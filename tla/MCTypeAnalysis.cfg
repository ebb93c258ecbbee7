CONSTANTS
  Programs <- MCPrograms
  Names <- MCNames
  UpperNames <- MCUpperNames
SPECIFICATION Spec
INVARIANTS
  TypeOK
  AcceptsTheTypable
  SignaturesAreTheTyping
PROPERTIES
  GraphSpec
  AnalysisEnds
