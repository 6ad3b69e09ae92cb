CONSTANTS
  p1 = p1
  p2 = p2
  d1 = d1
  rcpt = rcpt
  stripe = stripe
  redsys = redsys
  session = session
  Nobody = Nobody
  Processes = {p1}
  Desks = {}
  Events = {stripe, redsys, session}
  Receipts = {rcpt}
  LoopOf <- InWorker
  KindOf <- Kinds
  ReceiptOf <- ForOneReceipt
  MaxFaults = 0
SPECIFICATION Spec
INVARIANT NoAuthorisationDropped
CHECK_DEADLOCK FALSE
