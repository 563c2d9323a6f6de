SPECIFICATION Spec
CONSTANTS
  Size = 6
  Char <- MCChar
  WordBits = 4
INVARIANTS
  WordsRight
PROPERTIES
  CopiesExactly
  SlotHoldsPrefix
  CopiesString
  TellsPrefix
  StaysInString
CHECK_DEADLOCK FALSE
