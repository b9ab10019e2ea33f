SPECIFICATION Spec
CONSTANTS
  NumSymbols = 12
  MaxCodeLength = 4
  HUFF_LOOKAHEAD = 3
  ByteBits = 4
  DCTSIZE2 = 6
  RunMax = 2
  SizeRange = 4
  MAX_COEF_BITS = 2
  MAX_CORR_BITS = 8
  RST0 = 4
  SOF0 = 3
  BIT_BUF_SIZE = 12
  EndMarker = 12
  Rooms <- MCRooms
  Arrivals <- MCArrivals
  MaxFaults = 1
  dc_tbl_no <- OneTable
  ac_tbl_no <- TwoTables
  ScanJobs <- MCScanJobs
  SampleJobs <- MCSampleJobs
  QuantJobs <- MCQuantJobs
  DitherModes <- MCDither
  ExternalMaps <- MCExternalMaps
  HistMax = 2
  MemoryJobs <- MCMemoryJobs
  ALIGN = 2
  SmallHdr = 2
  LargeHdr = 2
  ManagerSize = 5
  ControlSize = 3
  SIZEOF_JBLOCK = 2
  MAX_ALLOC_CHUNK = 20
  MIN_SLOP = 2
  FirstSlop <- MCFirstSlop
  ExtraSlop <- MCExtraSlop
  RowValues = {0, 1}
  Unset = 7
  TransformJobs <- MCTransformJobs
  BlockValues <- MCBlockValues
  PassJobs <- MCPassJobs
  CoefValues <- MCCoefValues
  QuantTables <- MCQuantTables
  MAX_COMPONENTS = 4
  MAX_COMPS_IN_SCAN = 3
  MAX_SAMP_FACTOR = 3
  C_MAX_BLOCKS_IN_MCU = 6
  MAX_AH_AL = 3
  FileJobs <- MCFileJobs
  QuantLen = 2
  CodeLengths = 2
  Received <- MCReceived
  LineJobs <- MCLineJobs
  LineCounts = {1, 3}
INVARIANTS CoefficientsReturn SamplesReturn ColorsNearest RowsKept MemorySound PictureTurned ScansWritten PictureShown MarkersKept LinesRight
