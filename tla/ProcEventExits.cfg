SPECIFICATION EvSpec
CONSTANTS
  EvPids = {1, 2, 3, 4}
  EvBuckets = 2
  EvPoolSize = 4
  MaxEvents = 3
  NoEvent = NoEvent
  MaxCollections = 3
INVARIANT ExitsReported
