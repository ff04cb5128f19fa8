CONSTANTS
  Kernel = {boot}
  User = {u, v}
  Boot = boot
  Pages = {p1, p2}
  Frames = {f1}
  NULL = NULL
  MaxPc = 1
  MaxMaps = 2
  QLEN = 3
  PipeSize = 4
  PIPE_BUF = 2
  StreamLen = 2
  Buffers <- MCBuffers
  Ncpu = 3
  MaxKeys = 5
  MaxBytes = 5
  Values <- MCWords
  SectorWords = 2
  NrSectors = 3
  ext_csd <- MCExtCsd
  Requests <- MCRequests
SPECIFICATION Spec
INVARIANTS ContextsKept SeesOwnPages NativeKeys AudioExact StartsOnce SdIsADisk
CHECK_DEADLOCK FALSE
