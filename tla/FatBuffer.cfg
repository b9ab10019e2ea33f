\* A FAT32 root directory of two clusters.
SPECIFICATION Spec
CHECK_DEADLOCK FALSE
CONSTANTS
  Kinds = {"SDHC"}
  SectorBytes = 512
  ByteAddresses = 4160
  CardSectors = 4160
  WarmUp = {0, 1}
  InitLoop = 5
  TypeLoop = 4
  MaxFaults = 0
  Volumes <- GrownOnly
  LinksPerSector <- Links2Or4
  SwapRange = 4096
  JunkLinks <- Junk
  Geometries <- PowerUp
  Roms = {"SD"}
  Programs <- Sent
  AddressRange = 16777216
  Damage <- Damages
INVARIANT FatBufferCurrent
