SPECIFICATION Spec
CONSTANTS
  Slots = 4
  Entries = 6
  Frames = 19
  HeapPage = 18
  FreeFrames <- MCFreeFrames
  Leftovers <- MCLeftovers
  Requests <- MCPrograms
  Touched <- MCTouched
INVARIANTS
  TypeOK
  WindowIsIdentity
  TablesOwned
  HeapStays
PROPERTY AddressSpaceSpec
CHECK_DEADLOCK FALSE
