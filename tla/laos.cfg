CONSTANTS
  BYTE = 8
  KPAGES = 2
SPECIFICATION FairSpec
INVARIANTS TypeOK WritablePagesAreFresh StackIsMapped ExecutablePages
PROPERTIES ImplementsAllocator BootReachesUser
