SPECIFICATION Spec
CONSTANTS
  th1 = th1
  th2 = th2
  th3 = th3
  th4 = th4
  ca = ca
  cb = cb
  cd = cd
  Thread = {th1, th2, th3, th4}
  NilThread = NilThread
  NameServerId = NameServerId
  Slash = Slash
  Char = {ca, cb, cd, Slash}
  NullString = NullString
  MaxEntries = 3
  MaxEntryLen = 5
  DriverPath <- MCDriverPath
  DriverServer = th1
  Server = {th1, th2, th3}
  StackTail <- MCStackTail
  Programs <- MCPrograms
INVARIANTS
  TypeOK
  NobodyInVain
PROPERTIES
  LookupSound
  FindsRegistered
  ImplementsNameService
  AllReturn
CHECK_DEADLOCK FALSE
