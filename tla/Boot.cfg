\* Both boot programs, with losses on the card and on the line.
SPECIFICATION FairSpec
CHECK_DEADLOCK FALSE
CONSTANTS
  Kinds = {"none", "V1", "V2", "SDHC"}
  SectorBytes = 512
  ByteAddresses = 4160
  CardSectors = 4160
  WarmUp = {0, 1}
  InitLoop = 5
  TypeLoop = 4
  MaxFaults = 2
  Volumes <- WellKept
  LinksPerSector <- Links2Or4
  SwapRange = 4096
  JunkLinks <- Junk
  Geometries <- PowerUp
  Roms = {"SD", "RS232"}
  Programs <- Sent
  AddressRange = 16777216
  Damage <- Damages
INVARIANTS CardKnown LoadedExactly LoadsWhatIsThere StartsLoaded RecordsLoaded
PROPERTY Ends
