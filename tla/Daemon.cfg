SPECIFICATION CooperativeSpec
CONSTANTS
  Interval = 2
  MaxClients = 2
  MaxSignals = 2
INVARIANTS
  TypeOK
  HistoryAlive
  CleanExit
PROPERTIES
  ShutdownCompletes
  KeepsCollecting
  ClientsAccepted
