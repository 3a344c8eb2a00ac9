\* The shutdown of main against a healthy worker.
CONSTANTS
  c1 = c1
  Cards = {c1}
  TransferCount = 1
  MaxPushes = 1
  WaitMayFail = FALSE
  MayStop = TRUE
SPECIFICATION Spec
INVARIANTS
  PoolFreedOnce
\* the program ends after the shutdown
CHECK_DEADLOCK FALSE
