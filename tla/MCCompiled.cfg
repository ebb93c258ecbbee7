CONSTANTS
  Programs <- MCPrograms
  Names <- MCNames
  UpperNames <- MCUpperNames
  WordBits = 8
  MaxInt = 9
  MaxDepth = 6
SPECIFICATION Spec
INVARIANTS
  ValuesAreUsable
  GeneratesWhatItCan
  PrintsTheMeaning
  InterpreterAgrees
