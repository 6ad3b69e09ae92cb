CONSTANTS
  b1 = b1
  b2 = b2
  b3 = b3
  b4 = b4
  p1 = p1
  p2 = p2
  p3 = p3
  t1 = t1
  t2 = t2
  NoRow = NoRow
  NoRequest = NoRequest
  Parties = {p1, p2, p3}
  Requests = {t1, t2}
  Rows = {b1, b2, b3, b4}
  PartyOf <- FourRows
  Capacities = {1, 2}
  Moves = {"paid", "returned"}
  Handled = {b2}
  MayChange = {p2}
SPECIFICATION Spec
INVARIANTS
  TypeOK
  NeverOverbooked
PROPERTIES
  PromotedInOrder
  ImplementsSlotLedger
  CancelVoids
SYMMETRY Alike
CHECK_DEADLOCK FALSE
