SPECIFICATION Spec
CONSTANTS
  c1 = c1
  c2 = c2
  Client = {c1, c2}
  TaskServer = TaskServer
  MemoryServer = MemoryServer
  FileServer = FileServer
  Nobody = Nobody
  BufferSize = 8
  VtableSize <- MCVtableSize
  Undefined = {0, 12}
  Requests <- MCRequests
INVARIANTS
  TypeOK
  CallersKept
PROPERTY
  ImplementsRemoteCalls
CHECK_DEADLOCK FALSE
