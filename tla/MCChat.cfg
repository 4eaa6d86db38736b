SPECIFICATION ChatSpec
CONSTANTS
  Client = {c1, c2}
  ann = ann
  bob = bob
  eve = eve
  text = text
  file = file
  timed = timed
  Person = {ann, bob, eve}
  Administrator = {ann, eve}
  SuperAdministrator = {eve}
  Send = {text, file, timed}
  Part = {p1, p2}
  MaxMessages = 3
  MayDie = TRUE
  Sender <- SenderOf
  Way <- WayOf
  Offered <- OfferedIn
SYMMETRY AnySlot
INVARIANTS PostedOnce SentIsPosted WithdrawnIsNeverSent OneOwner
CHECK_DEADLOCK FALSE
