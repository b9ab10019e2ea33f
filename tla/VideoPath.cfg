SPECIFICATION Spec
CONSTANTS
  Row = {0}
  Col = {0, 1, 2, 3, 4, 5, 6, 7}
  Byte = {0}
  Float = 0
  CpuOps = {"read", "write"}
  CpuAddrs <- MCAddrs
  CpuWords <- MCWords
  Lines <- Line
  Following <- NextLine
  Bursts = 4
  MaxLength = 24
  NoWord <- None
  ClkDiv = 4
  HSize = 24
  HTotal = 64
  VSize = 2
  VTotal = 3
  SpriteSize = 8
  SpriteX = 5
  SpriteY = 0
  SpriteLine <- MCSprite
  FrameBuffers <- TwoBuffers
  ReleasePixels = {0}
  Systems <- Built
INVARIANTS
  PixelStream
  NoUnderrun
  RefreshKept
