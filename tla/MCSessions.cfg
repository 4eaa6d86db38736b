SPECIFICATION SessionsSpec
CONSTANTS
  Client = {c1, c2}
  Account = {u1}
  Install = {i1}
  Session = {s1, s2}
  Token = {t1, t2, t3}
  Pass = {p1}
  MaxPassword = 2
  CacheTicks = 1
  MayCrash = TRUE
  NoSession = NoSession
  NoToken = NoToken
SYMMETRY AnySlot
INVARIANTS LostAnswerIsForgiven OneHeir TrustEndsInTime
PROPERTY RevokedIsFinal
CHECK_DEADLOCK FALSE
