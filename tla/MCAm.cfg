CONSTANTS
  Thread = {boot, t1, t2}
  Boot = boot
  t1 = t1
  t2 = t2
  GprSeq <- MCGprs
  CallerSaved <- MCCallerSaved
  Value <- MCValues
  CodeLen = 1
  StackStart <- MCStacks
  StackWords <- MCSizes
  HandlerWords = 1
  Junk = 9
SPECIFICATION Spec
INVARIANTS
  ContextInOwnStack
PROPERTY RefinesThreads
