CONSTANTS
  Act = {1, 2, 3}
  Kind <- MCKind
  Slot = {s1, s2}
  NoSlot = NoSlot
  MaxFaults = 2
CHECK_DEADLOCK FALSE
SPECIFICATION FairSyncSpec
INVARIANTS
  KeyCountsOnce
  DoneIsTrue
  QueueKeepsOrder
PROPERTIES
  QueueDrains
