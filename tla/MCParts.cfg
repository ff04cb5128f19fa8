CONSTANTS
  Codes <- MCCodes
  keymap <- MCKeymap
  KEY_QUEUE_LEN = 3
  KEYDOWN_MASK = 2
  WordSize = 3
  NrPixels = 2
  Guests = {"typist", "clock", "painter"}
  MaxTime = 7
  MaxEvents = 4
  MaxFrames = 3
  Contents <- MCContents
  MemSize = 5
  MTU = 2
  Calls <- MCCalls
  MaxDamage = 3
  MaxCalls = 3
  NR_WP = 4
  Exprs <- MCExprs
  Values <- MCContents
  AddrSize = 32
  SRAM_BASE = 4
  SRAM_SIZE = 2
  FLASH_BASE = 8
  FLASH_SIZE = 12
  MBASE = 8
  MSIZE = 2
  NR_MAP = 2
  PAGE_SIZE = 2
  IO_SPACE_MAX = 8
  PORT_IO_SPACE_MAX = 7
  WordBytes = 2
  Lens = {1, 2}
  Machines <- MCMachines
  MaxAccesses = 2
SPECIFICATION Spec
INVARIANTS CallsTakeEffectOnce PoolPartition RegionsAreApart
PROPERTIES RefinesFifo GuestIsServed CallsReturn
CHECK_DEADLOCK FALSE
