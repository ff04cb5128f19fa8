CONSTANTS
  NR_WP = 2
  Exprs <- MCWatched
  Values <- MCBits
  Programs <- MCDebugged
  Steps <- MCSteps
  is_batch_mode = FALSE
  DIFFTEST = TRUE
  WATCHPOINT = TRUE
  DEVICE = TRUE
SPECIFICATION MonFairSpec
INVARIANTS RunsInAgreement WatchpointsCurrent
PROPERTIES StepReturns
