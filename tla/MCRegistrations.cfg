CONSTANTS
  p1 = p1
  p2 = p2
  p3 = p3
  morning = morning
  b1 = b1
  b2 = b2
  b3 = b3
  s1 = s1
  s2 = s2
  NoModality = NoModality
  NoBill = NoBill
  NoRow = NoRow
  NoParty = NoParty
  Idle = Idle
  Parties = {p1, p2, p3}
  Rows <- ThreeRows
  Modalities = {morning}
  Bills = {b1, b2}
  Sessions = {s1, s2}
  Offers <- SeatsOnOffer
  Caps = {1, 2}
  ModalityCap <- OneSeat
  Hows = {"cancel", "admin"}
  MaxUses = 1
  MaxChanges = 2
SYMMETRY Interchangeable
SPECIFICATION Spec
INVARIANTS
  TypeOK
  CountersAreTheRows
  BilledOnce
PROPERTY OnlyForced
CHECK_DEADLOCK FALSE
