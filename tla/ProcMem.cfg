SPECIFICATION Spec
CONSTANTS
  Pids = {1, 2, 3, 4, 5}
  Values = {1, 2}
  Buckets = 2
  PoolSize = 4
  MaxProcs = 2
  TopN = 2
INVARIANTS
  TypeOK
  ChainsDescend
  CurrentFaithful
  DeltaNeverInvented
