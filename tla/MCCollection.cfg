CONSTANTS
  r1 = r1
  r2 = r2
  b1 = b1
  b2 = b2
  ana = ana
  NoBatch = NoBatch
  Receipts = {r1, r2}
  Remittances = {b1, b2}
  Parties = {ana}
  Amounts = {0, 1}
  PartyOf <- OnePayer
  FromRegistration = {r1, r2}
SPECIFICATION Spec
SYMMETRY Symmetry
INVARIANTS
  TypeOK
  OpenCountersAgree
  HistoryMatchesLinks
  HeldAmountsStand
  NoStrandedDebt
  HeldIsInFile
PROPERTIES
  SentRecordFrozen
  OnlyReturnsLeaveSentBatch
  ImplementsLedger
CHECK_DEADLOCK FALSE
