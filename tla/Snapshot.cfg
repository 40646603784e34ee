SPECIFICATION Spec
CONSTANTS
  Size = 3
  MaxParts = 3
  Readers = {"ipc", "http"}
  Room = 2
  Kinds = {"snapshot", "history"}
  Asks = {1, 3}
  Capacity = 2
  MaxSnapshots = 4
  MaxRequests = 1
INVARIANTS
  StrlenStops
  QuietReplyExact
  HistoryNotOlder
