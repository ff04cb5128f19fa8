CONSTANTS
  ByteSize = 2
  NReg = 3
  ResetPC = 0
  CounterSize = 1
  MVENDORID = 9
  MARCHID = 6
  ProgramLength = 3
  BitOr <- MCOr
  Programs <- MinirvPrograms
  InitialRegs <- MCRegs
  InitialMem <- MCMem
SPECIFICATION FairSpec
PROPERTIES RefinesMinirv RetiresForever
