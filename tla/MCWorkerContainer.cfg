SPECIFICATION ContainerSpec
CONSTANTS
  Note = {code, info}
  Sensitive = {code}
  Tick = {t1, t2}
  Batch = 2
  MaxAttempts = 2
  MaxFaults = 1
  MaxOverruns = 1
  Client = {c1, c2}
  Worker = {w1}
  Manager = {m1, m2}
  Boss = {}
  Reminder = {r1}
  LastDay = 1
  MaxMoves = 1
  MaxMishaps = 1
  None = None
INVARIANTS DeliveriesAreCounted CodesAreWiped CoverHasHoliday
PROPERTIES EveryMessageEnds CoverEnds OverdueIsTold ReminderRings
CHECK_DEADLOCK FALSE
