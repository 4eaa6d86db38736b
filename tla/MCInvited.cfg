SPECIFICATION RegistrationSpec
CONSTANTS
  Client = {c1}
  Worker = {w1}
  Asg = {}
  Telegram = {t1}
  Bot = {}
  Phone = {p1, p2}
  Invite = {i1}
  Nobody = Nobody
  NoLogin = NoLogin
  NoRow = NoRow
  MaxPhotos = 1
INVARIANT WaitingCanBeApproved
CHECK_DEADLOCK FALSE
