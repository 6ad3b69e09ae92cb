CONSTANTS
  t1 = t1
  t2 = t2
  t3 = t3
  NoTxn = NoTxn
  Txns = {t1, t2, t3}
  MayHoldOrg = {t1}
  Years = {2025, 2026}
  AnnualModes = {TRUE, FALSE}
  MaxReceipts = 2
SPECIFICATION FairSpec
INVARIANTS
  TypeOK
  Unbroken
  NoFalseCollision
PROPERTIES
  EveryRequestEnds
CHECK_DEADLOCK FALSE
