SPECIFICATION FairSpec
CONSTANTS
  Row = {0}
  Col = {0, 1, 2, 3, 4, 5, 6, 7}
  Byte = {0}
  Float = 0
  CpuOps = {"read"}
  CpuAddrs <- MCAddrs
  CpuWords <- MCWords
  Lines <- Line
  Following <- NextLine
  Bursts = 4
  MaxLength = 12
  NoWord <- None
  ClkDiv = 4
  HSize = 12
  HTotal = 32
  VSize = 1
  VTotal = 2
  SpriteSize = 4
  SpriteX = 0
  SpriteY = 0
  SpriteLine <- MCSprite
  FrameBuffers <- MCBuffers
  ReleasePixels = {0}
  Systems <- Working
PROPERTIES
  AllServed
