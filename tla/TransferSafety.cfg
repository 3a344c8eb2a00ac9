\* Two transfers, so that the load-balancing loop has a round: pushes against
\* the workers, failed waits and the shutdown of main, in every order.
CONSTANTS
  c1 = c1
  c2 = c2
  Cards = {c1, c2}
  TransferCount = 2
  MaxPushes = 3
  WaitMayFail = TRUE
  MayStop = TRUE
SPECIFICATION Spec
SYMMETRY CardSymmetry
INVARIANTS
  TypeOK
  NoJobLostOrReordered
  MovedJobsAreFinished
  NoLostWakeup
  MutexHeldOnlyToMove
  MutualExclusion
  TransferInv
PROPERTIES
  ServiceSpec
\* the program ends after the shutdown, or in undefined behaviour
CHECK_DEADLOCK FALSE
