SPECIFICATION Spec
CONSTANTS
  MemoryServer = MemoryServer
  FileServer = FileServer
  SimpleThread1 = SimpleThread1
  Root = Root
  Free = Free
  LastPage = 31
  SuperOf <- MCSuperOf
  RootPages <- MCRootPages
  BootinfoPage = 1
  Layout <- LinkedLayout
  Boots <- GoodBoots
INVARIANT
  TextIntact
CHECK_DEADLOCK FALSE
