CONSTANTS
  ByteSize = 2
  NReg = 3
  ResetPC = 0
  CounterSize = 4
  MVENDORID = 9
  MARCHID = 6
  ProgramLength = 2
  BitOr <- MCOr
  Programs <- AllPrograms
  InitialRegs <- MCRegs
  InitialMem <- MCMem
SPECIFICATION Spec
INVARIANTS BusExclusive RequestsAreOfPc WritebackCurrent
