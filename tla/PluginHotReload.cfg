SPECIFICATION FairSpec
CONSTANTS
  A = A
  B = B
  C = C
  x1 = x1
  x2 = x2
  y1 = y1
  bad = bad
  Paths = {A, B}
  Images = {x1, x2, y1, bad}
  Services = {x1, x2, y1, bad}
  NameOf <- MCNameOf
  Broken = Broken
  Candidates <- OwnPath
  NoFile = NoFile
  MaxPlugins = 3
  MaxServices = 3
  BatchSize = 2
  FileOps = {"write", "delete"}
  EarlyChanges = FALSE
  InitMayFail = FALSE
  MaxChanges = 4
INVARIANT HotReloadInSync
PROPERTY HotReloadConverges
