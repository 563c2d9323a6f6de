SPECIFICATION Spec
CONSTANTS
  MemoryServer = MemoryServer
  FileServer = FileServer
  SimpleThread1 = SimpleThread1
  Root = Root
  Free = Free
  LastPage = 31
  SuperOf <- MCSuperOf
  RootPages <- MCRootPages
  BootinfoPage = 1
  Layout <- MCLayout
  Boots <- BadElfBoots
INVARIANT
  TouchBringsPage
CHECK_DEADLOCK FALSE
