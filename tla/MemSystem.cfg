\* Words in two banks beside the VGA client, or halfwords and bytes on the second row.
SPECIFICATION MCSpec
CONSTANTS
  Row = {0, 1}
  Col = {0}
  Byte <- MCBytes
  Float = 0
  PowerUp <- MCPowerUp
  RowCycle = 15
  RefreshCycle = 15
  CpuOps = {"read", "write", "writeh", "writeb"}
  CpuAddrs <- BothAddrs
  CpuWords <- MCWords
  VgaLines <- MCVgaLines
  VgaPhases = {1}
  RefreshPhases = {1, 14}
INVARIANTS
  TypeOK
  SlotsDisjoint
  PostedWriteKept
  DeviceTiming
  VgaLineIntact
PROPERTY
  ImplementsMemory
