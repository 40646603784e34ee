SPECIFICATION Spec
CONSTANTS
  Capacity = 3
  Data = {d1, d2}
  Time = {1, 2}
  NULL = NULL

  Sections = {"web", "plugins"}
  Keys = {"port"}
  Values = {0, 1}
  MaxLines = 3
  MaxArgs = 2

  JsonSize = 14
  JsonMaxDepth = 3
  JsonMaxCalls = 7

  FdPids = {1, 2, 3}
  Counts = {1, 2}
  MaxProcs = 2
  FdPoolSize = 2
  TopCount = 1

  HeapPids = {p1, p2, p3}
  Heaps = {1}
  Totals = {0, 2}
  MaxTargets = 4
  HeapPoolSize = 2

  Ifaces = {1, 2, 3}
  MaxIfaces = 2
  Bytes = {0, 1}
  Times = {1, 3}

  Caches = {1, 2, 3}
  Sizes = {0, 1, 3}
  MaxSlabs = 2
  MinDelta = 2
  TopN = 1

  CpuPids = {1, 2, 3}
  TickRange = 2
  CpuMaxProcs = 2
  CpuTopN = 1
  CpuFloor = 0
  MaxUnread = 1

  MemFields = {"MemTotal", "MemAvailable"}
  Kilobytes = {1, 2}

  Inodes = {1, 2, 3}
  SockPids = {1, 2}
  MaxSockets = 2
  LineCounts = {1}

  StatPids = {1, 2, 3}
  Tids = {8, 9}
  States = {"D", "t", "I"}
  MaxBlocked = 3

  EvPids = {1, 2, 3, 4}
  EvBuckets = 2
  EvPoolSize = 3
  MaxEvents = 3
  NoEvent = NoEvent
  MaxCollections = 3

  LeakPids = {1, 2}
  LeakSizes = {1, 2}
  LeakHeaps = {1}
  LeakTargets = 2
  LeakBaselines = 2
  LeakMaxProcs = 1
  LeakTopN = 1
  Shown = 1

  CmdServices = {"sockstat", "procstat", "fdmon"}
  MaxPublished = 2
  MaxRows = 2
INVARIANTS
  TypeOK
  Layout
  OnlyOldestLost
  RecentMirrorsGet
  LeakersTruthful
  RankedByGain
  RateSpansReadings
  ListsSpanReadings
  Precedence
  WellFormed
  CutNotGarbled
  DeltasAddUp
  OwnersOfThisScan
  BlockedAgreesWithSummary
  ExitsTruthful
  RingHoldsLatest
  LeaksOfThisCollection
  RowsAreOwn
  FiguresAreOwn
PROPERTIES
  Refinement
  CpuShareSpansReadings
