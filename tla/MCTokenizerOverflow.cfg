CONSTANTS
  Texts <- MCTexts
  MaxInt = 21
SPECIFICATION Spec
INVARIANTS
  EveryLiteralHasItsValue
