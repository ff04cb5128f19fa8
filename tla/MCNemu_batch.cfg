CONSTANTS
  NR_WP = 1
  Exprs <- MCWatched
  Values <- MCBits
  Programs <- MCPrograms
  Steps <- MCSteps
  is_batch_mode = TRUE
  DIFFTEST = TRUE
  WATCHPOINT = TRUE
  DEVICE = TRUE
SPECIFICATION MonFairSpec
PROPERTIES BatchExits
