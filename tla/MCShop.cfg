CONSTANTS
  ribbon = ribbon
  lace = lace
  red = red
  blue = blue
  Chat = {customer}
  Product <- MCProduct
  Colour = {red, blue}
  Colours <- MCColours
  Order = {o1, o2}
  Status = {"NEW", "CONFIRMED", "CANCELLED"}
  Unchosen = Unchosen
  MaxDrafts = 2
  Client = {h1}
SYMMETRY OrderSymmetry
CHECK_DEADLOCK FALSE
SPECIFICATION ShopSpec
INVARIANTS OrderIsWhole OrderedOnce
