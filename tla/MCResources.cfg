SPECIFICATION MCSpec
CONSTANTS
  Sectors = {s1, s2}
  Blocks = {b1}
  BlkWindow = 2
  BlkSize = 4
  BlkCfgs <- MCBlkCfgs
  NetSize = 2
  MaxPackets = 4
  NetCfgs <- MCNetCfgs
  EvSize = 3
  MaxEvents = 5
  EvSizes = {0, 8, 20, 128, 129}
  FirstUser = 32
  LastUser = 47
  Procs = {p1, p2}
  NFrames = 31
  Fan = 2
  Depth = 4
  PageCells = 2
  KStackPages = 2
  Segments <- MCSegments
  HeapPages = 2
  MaxThreads = 2
  MaxFaults = 1
  MaxLoads = 2
  t1 = t1
  t2 = t2
  NmThreads = {t1, t2}
  MaxObjs = 3
  MaxPos = 3
  Texts <- MCTexts
  BufLens = {2}
  Maps <- ApartMaps
  AllocSizes = {1, 2, 3}
  FreeSizes = {1, 2, 3}
  NmCfgs <- MCNmCfgs
  RingLen = 32
  HeaderLen = 4
  PacketLens = {3, 8}
  RecvBuffers = {1, 2}
  TxDescs = 2
  TxMod = 4
  TxFrames = {11, 12, 13}
  RtlCfgs <- MCRtlCfgs
  TermCols = 4
  TermRows = 3
  TabSpaces = 2
  w1 = w1
  w2 = w2
  Writers = {w1, w2}
  TermCfgs <- MCTermCfgs
  Components = {"blk", "net", "input", "frames", "space", "naming", "rtl8139", "terminal"}
INVARIANTS
  ReadsAreReal
  FlushPersists
  BuffersOwned
  PacketsInOrder
  EventsKept
  FreeListExact
  
  
  NamesExact
  ReadsWritten
  RingsInStep
  
CHECK_DEADLOCK FALSE
