SPECIFICATION Spec
CONSTANTS
  MemoryServer = MemoryServer
  FileServer = FileServer
  SimpleThread1 = SimpleThread1
  Root = Root
  Free = Free
  LastPage = 31
  SuperOf <- MCSuperOf
  RootPages <- MCRootPages
  BootinfoPage = 1
  Layout <- MCLayout
  Boots <- FailingBoots
INVARIANTS
  TypeOK
  TextIntact
  BssIntact
  Isolation
  NeverDenied
  CalleeExists
  NobodyStalls
PROPERTIES
  OnlyForward
  BootCompletes
  StartedServes
CHECK_DEADLOCK FALSE
