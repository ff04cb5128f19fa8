CONSTANTS
  NR_WP = 1
  Exprs <- MCWatched
  Values <- MCValues
  Programs <- MCPrograms
  Steps <- MCSteps
  is_batch_mode = TRUE
  DIFFTEST = TRUE
  WATCHPOINT = TRUE
  DEVICE = TRUE
SPECIFICATION MonSpec
INVARIANTS GoodTrapExitsGood
