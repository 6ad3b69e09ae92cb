CONSTANTS
  p1 = p1
  p2 = p2
  d1 = d1
  rcpt = rcpt
  stripe = stripe
  redsys = redsys
  session = session
  Nobody = Nobody
  Processes = {p1, p2}
  Desks = {d1}
  Events = {stripe, session}
  Receipts = {rcpt}
  LoopOf <- InWorker
  KindOf <- Kinds
  ReceiptOf <- ForOneReceipt
  MaxFaults = 1
SPECIFICATION FairSpec
INVARIANTS
  TypeOK
  AppliedAsRecorded
  AcknowledgedIsSettled
  ConfirmedOnce
  PaidIsAccounted
PROPERTIES
  ImplementsEventLedger
  EveryEventSettles
CHECK_DEADLOCK FALSE
