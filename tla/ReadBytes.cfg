\* Reads of less than a sector.
SPECIFICATION Spec
CHECK_DEADLOCK FALSE
CONSTANTS
  Units = 11
  ChunkUnits = 2
  SectorSize = 4
  End = 1
  MAX_FILES = 3
  RAFileBytes = 32
  Programs <- BytewisePrograms
  MaxPtr = 12
  MaxBlocks = 3
  MaxFaults = 0
INVARIANT ReadsExact
