SPECIFICATION Spec
CONSTANTS
  BLOCK_SIZE = 4
  WordBits = 2
  AddrSpace = 40
  BootInfos <- MCBoards
  KernelImage <- MCKernelImage
  FreeArgs <- MCFreeArgs
INVARIANTS
  TypeOK
  ExclusiveOwnership
  NullNeverReturned
  UsedNeverUnderstated
  UsedExact
  OnlyAvailableHandedOut
PROPERTY PoolSpec
