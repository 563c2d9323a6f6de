SPECIFICATION Spec
CONSTANTS
  Thread = {t1, t2}
  NilThread = NilThread
  NameServerId = NameServerId
  Char = {Slash, a, b}
  Slash = Slash
  NullString = NullString
  a = a
  b = b
  Path <- MCPath
  Query <- MCQuery
  MaxEntries = 3
  MaxEntryLen = 3
INVARIANT
  RegisteredNameResolves
