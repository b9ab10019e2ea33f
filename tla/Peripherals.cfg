SPECIFICATION Spec
CONSTANTS
  Programs <- ReceiveAndExchange
  Characters <- Nothing
  SpiBytes <- Exchanged
  Selections <- SelectCard
  Divisors = {3, 31}
  Widths = {31, 33}
  FastTick = 1
  SlowTick = 2
  LcdWord <- OneWord
  Stream <- CardStream
  AccessTime = 8
  HoldTimes = {1}
INVARIANTS
  NothingLostOrReadTwice
  SpiExchange
PROPERTY
  ReceivedOnce
