SPECIFICATION Spec
CONSTANTS
  Pids = {1, 2, 3}
  Values = {1, 2}
  Buckets = 2
  PoolSize = 6
  MaxProcs = 3
  TopN = 2
INVARIANT GrowersListed
