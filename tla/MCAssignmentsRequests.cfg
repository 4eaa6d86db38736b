CONSTANTS
  ribbon = ribbon
  w1 = w1
  a1 = a1
  a2 = a2
  r1 = r1
  r2 = r2
  Material = {ribbon}
  Recipe <- MCRecipe
  Opening <- MCOpening
  Worker = {w1}
  Asg = {a1, a2}
  NoAsg = NoAsg
  AssignedTo <- MCAssignedTo
  Request = {r1, r2}
  NoRequest = NoRequest
  Asker <- MCAsker
  Managed = {w1}
  KitCounts = {2}
  KitCm = 900
  Lengths = {}
  ReportId = {}
  Rate = {30000}
  Amount = {3}
  BonusKey = {jan}
  BonusSum = 1
  MaxManual = 1
  MaxRows = 2
  MaxChanges = 0
  MaxHandoffs = 0
  MaxPickups = 0
  Client = {c1, c2}
SYMMETRY ClientSymmetry
CHECK_DEADLOCK FALSE
SPECIFICATION AssignmentSpec
INVARIANTS
  LedgerChain
  RequestPreparedOnce
