CONSTANTS
  DataSymbols = {7}
  MaxTypes = 3
  GroundTypes <- MCGroundTypes
  TypeSize <- MCTypeSize
SPECIFICATION Spec
PROPERTY UnifyReturns
