CONSTANTS
  ribbon = ribbon
  w1 = w1
  a1 = a1
  a2 = a2
  r1 = r1
  r2 = r2
  Material = {ribbon}
  Recipe <- MCRecipe
  Opening <- MCOpening
  Worker = {w1}
  Asg = {a1}
  NoAsg = NoAsg
  AssignedTo <- MCAssignedTo
  Request = {}
  NoRequest = NoRequest
  Asker <- MCAsker
  Managed = {}
  KitCounts = {1}
  KitCm = 900
  Lengths = {0, 900}
  ReportId = {}
  Rate = {30000}
  Amount = {}
  BonusKey = {}
  BonusSum = 1
  MaxManual = 0
  MaxRows = 2
  MaxChanges = 0
  MaxHandoffs = 2
  MaxPickups = 1
  Client = {c1, c2}
SYMMETRY ClientSymmetry
CHECK_DEADLOCK FALSE
SPECIFICATION AssignmentSpec
INVARIANTS
  PaidOnce
