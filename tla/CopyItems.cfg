\* Trees of three levels, each of whose nodes may be the one without memory.
CONSTANTS
  QData = {"x", "y"}
  Priorities = {0, 1}
  MaxQueued = 3
  Items = {item1, item2}
  MaxListNodes = 3
  Keys = {"a", "b", "c"}
  Vals = {"v", NULL}
  NULL = NULL
  prime = 2
  _xhasher <- MCHash
  MaxNodes = 4
  AvlKeys = {1, 2, 3, 4, 5, 6}
  Traversers = {"t"}
  MaxGeneration = 1
  MaxHeight = 3
  HeapSizes = {16, 20}
  Sizes = {3, 5, 8, 12}
  MaxTrackers = 4
  Threads = {"s", "t"}
  Asked = {3, 5, 9}
  align = 4
  _MEMPOOL_NFREELISTS = 2
  MaxBlocks = 3
  Ticks = 6
  MaxNow = 9
  timeouts = 1
  total = 3
  waitmsecs = 2
  Adds = {1, 2}
  MaxCount = 5
  Dates <- MCDates
  Clock <- MCClock
  Sections <- MCSections
  MaxBlanks = 2
SPECIFICATION CopiesAlone
INVARIANT OnlyItemsAreDestroyed
\* the copy is destroyed once
CHECK_DEADLOCK FALSE
