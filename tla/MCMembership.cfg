CONSTANTS
  m1 = m1
  m2 = m2
  r1 = r1
  r2 = r2
  r3 = r3
  gold = gold
  silver = silver
  free = free
  basic = basic
  NoPlan = NoPlan
  NoMember = NoMember
  Members = {m1}
  Receipts = {r1, r2}
  Plans = {gold, silver, free, basic}
  Priced = {gold, silver}
  FirstDefault = free
  Defaults = {free, basic}
  Assigns = {gold, free}
  Retires = {free}
SPECIFICATION Spec
INVARIANTS
  TypeOK
  HoldsGiven
PROPERTIES
  NeverChased
  PurchaseEnds
CHECK_DEADLOCK FALSE
