SPECIFICATION Spec
CONSTANTS
  Size = 5
  MaxParts = 3
  Readers = {"ipc"}
  Room = 5
  Kinds = {"snapshot"}
  Asks = {}
  Capacity = 1
  MaxSnapshots = 2
  MaxRequests = 1
INVARIANTS
  FullSnapshot
