\* Calls in any order, reads of at least a sector as the C library makes them.
SPECIFICATION Spec
CHECK_DEADLOCK FALSE
CONSTANTS
  Units = 11
  ChunkUnits = 2
  SectorSize = 4
  End = 1
  MAX_FILES = 3
  RAFileBytes = 32
  Programs <- CarefulPrograms
  MaxPtr = 12
  MaxBlocks = 3
  MaxFaults = 1
INVARIANTS HeapSound OneOwner ReadsExact
PROPERTY ImplementsAllocator
