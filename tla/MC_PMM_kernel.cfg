SPECIFICATION Spec
CONSTANTS
  BLOCK_SIZE = 4
  WordBits = 2
  AddrSpace = 40
  BootInfos <- MCUsual
  KernelImage <- MCKernelImage
  FreeArgs <- MCFreeArgs
INVARIANT KernelNeverHandedOut
