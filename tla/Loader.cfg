SPECIFICATION Spec
CONSTANTS
  n1 = n1
  n2 = n2
  Size = 40
  Char <- MCChar
  WordBits = 8
  PageSize = 8
  Letter = {n1, n2}
  Loads <- MCLoads
INVARIANTS
  TypeOK
  FindsFirst
  ModuleRequested
  LoadsImage
PROPERTIES
  GetsNearer
  LoadingEnds
CHECK_DEADLOCK FALSE
