CONSTANTS
  Programs = {}
  Names <- MCNames
  UpperNames <- MCUpperNames
  Inputs <- MCInputs
SPECIFICATION Spec
INVARIANTS
  TypeOK
  ReadsTheGrammar
  YieldsAProgram
  PositionsPointAtTheNodes
  BlamesNoGoodToken
  PrintingKeepsTheProgram
PROPERTIES
  ParsingEnds
