SPECIFICATION RegistrationSpec
CONSTANTS
  Client = {c1}
  Worker = {w1}
  Asg = {}
  Telegram = {t1, t2}
  Bot = {t1}
  Phone = {p1, p2}
  Invite = {i1}
  Nobody = Nobody
  NoLogin = NoLogin
  NoRow = NoRow
  MaxPhotos = 1
SYMMETRY Renaming
INVARIANTS SummaryIsComplete WorkersAreNotAsked
CHECK_DEADLOCK FALSE
