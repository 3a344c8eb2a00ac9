\* One list of scores that is longer than the sort keeps together.
CONSTANTS
  TotalScenes = 3
  Points = {40, 95}
  ScoreRows <- MCScoreRows
  SceneTables <- MCSceneTables
  Stack <- MCStack
  MaxScoreRows = 3
  _maxscore_num = 4
  SelectionSort = 2
  CreditTenths = 2
  GradeTenths = 8
  Digits = {"1", "2"}
  Words = {"w"}
  Objects <- MCObjects
  Rows <- MCRows
  MaxRequests = 2
  MaxElements = 2
  Ids = {"1", "2"}
  Sns = {"7", "x"}
  Numerals = {"1", "2", "7"}
  CardRows <- MCCardRows
  MaxCards = 3
  Big = 6
  Capacities = {1, 3}
  Texts <- MCTexts
  MaxItems = 2
  _init_capacity = 2
  MaxListRows = 5
  JsonTexts <- MCJsonTexts
  MaxBudget = 9
  TokenLength <- MCTokenLength
  CStrings <- MCCStrings
  Escapes <- MCEscapes
  Behind <- MCBehind
  MaxNodes_ = 4
  Plains <- MCPlains
  Coded <- MCCoded
  Numbers <- MCNumbers
  RangeScenes = {1, 2}
  RangeMarks = {40, 60}
  MaxRangeRows = 2
  MaxRanges = 2
  _maxscore_scs_num = 3
  TextLengths = {0, 3, 4, 5}
  BufferSize = 5
  StatementRoom = 4
  MaxTexts = 2
  MessageLengths = {0, 3, 4, 8, 9}
  MAX_LOG_LINE = 8
  HeaderLength = 4
  MaxRecords = 2
SPECIFICATION ScoresAlone
INVARIANTS
  OneOfEachScene
\* a request ends
CHECK_DEADLOCK FALSE
