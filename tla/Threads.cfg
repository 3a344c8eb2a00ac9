\* One worker and one card; every path of the tables and some others; a server
\* goes down twice in all; files that lack up to two keys or have no string there.
CONSTANTS
  c1 = c1
  Cards = {c1}
  TransferCount = 1
  MaxPushes = 3
  WaitMayFail = FALSE
  MayStop = TRUE
  StrayPaths = {"/score", "/user", "/card/add"}
  Period = 3
  MaxOutages = 2
  Broken = 2
SPECIFICATION ThreadsSpec
INVARIANTS
  RequestServedOnce
  StartsAndEndsInOrder
PROPERTIES
  JobsAreDone
  StopReturns
  PushReturns
  ConnectionsKept
\* the program ends after the shutdown, and when the server cannot be started
CHECK_DEADLOCK FALSE
