SPECIFICATION Spec
CONSTANTS
  A = A
  B = B
  C = C
  x1 = x1
  x2 = x2
  y1 = y1
  bad = bad
  Paths = {A, B, C}
  Images = {x1, y1, bad}
  Services = {x1, y1, bad}
  NameOf <- MCNameOf
  Broken = Broken
  Candidates <- Anywhere
  NoFile = NoFile
  MaxPlugins = 3
  MaxServices = 2
  BatchSize = 2
  FileOps = {"write", "delete", "rename", "moveout"}
  EarlyChanges = TRUE
  InitMayFail = TRUE
  MaxChanges = 4
INVARIANTS
  OwnershipBalanced
  EveryInitDestroyed
SYMMETRY PathSymmetry
