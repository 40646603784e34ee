SPECIFICATION Spec
CONSTANTS
  A = A
  B = B
  C = C
  x1 = x1
  x2 = x2
  y1 = y1
  bad = bad
  Paths = {A, B}
  Images = {x1, x2}
  Services = {x1, x2}
  NameOf <- MCNameOf
  Broken = Broken
  Candidates <- SameName
  NoFile = NoFile
  MaxPlugins = 3
  MaxServices = 3
  BatchSize = 2
  FileOps = {"write", "delete"}
  EarlyChanges = FALSE
  InitMayFail = FALSE
  MaxChanges = 4
INVARIANT ShutdownUnloadsAll
