SPECIFICATION FairSpec
CONSTANTS
  Programs <- SendAndDraw
  Characters <- Outgoing
  SpiBytes <- Nothing
  Selections <- SelectPanel
  Divisors = {15}
  Widths = {16}
  FastTick = 1
  SlowTick = 1
  LcdWord <- LcdWords
  Stream <- CardStream
  AccessTime = 10
  HoldTimes = {1, 14}
INVARIANTS
  NothingDropped
  Transmission
  LcdAccess
PROPERTIES
  Served
