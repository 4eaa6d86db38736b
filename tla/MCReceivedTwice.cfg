CONSTANTS
  ribbon = ribbon
  tape = tape
  Material <- MCMaterial
  Recipe <- MCRecipe
  Opening <- MCOpening
  Worker = {w1}
  Asg = {}
  NoAsg = NoAsg
  MaxManual = 2
  Purchase = {p1}
  Kit = {k1}
  Supplier = {s1, s2}
  Chat = {t1}
  NoChat = NoChat
  s1 = s1
  s2 = s2
  t1 = t1
  Linked <- MCLinked
  MaxLines = 2
  MaxQuantity = 1
  MaxRequests = 4
  Client = {c1, c2}
SYMMETRY Symmetric
CHECK_DEADLOCK FALSE
SPECIFICATION WarehouseSpec
INVARIANTS
  ReceivedOnce
