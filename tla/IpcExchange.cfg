SPECIFICATION Spec
CONSTANTS
  Types = {"status", "snapshot", "history", "services", "config"}
  MsgMax = 5
  TextSizes = {0, 1, 2, 3, 4, 5, 6}
  MayCut = TRUE
INVARIANTS
  NothingClipped
PROPERTIES
  ExchangeEnds
