CONSTANTS
  DataSymbols = {7}
  MaxTypes = 4
  GroundTypes <- MCGroundTypes
  TypeSize <- MCTypeSize
SPECIFICATION Spec
INVARIANTS
  TypeOK
  Acyclic
  Sound
  Complete
PROPERTIES
  GraphSpec
  MergedStayMerged
  ConcreteTypesAreFinal
