SPECIFICATION Spec
CONSTANTS
  BLOCK_SIZE = 4
  WordBits = 3
  AddrSpace = 108
  BootInfos <- MCBoards
  KernelImage <- MCKernelImage
  Slots = 3
  Entries = 9
  HeapPage = 18
  Leftovers <- MCLeftovers
  Requests <- MCProgram
  Touched <- MCTouched
INVARIANT BootKeepsKernel
PROPERTIES
  PagingSpec
  ComesUp
CHECK_DEADLOCK FALSE
