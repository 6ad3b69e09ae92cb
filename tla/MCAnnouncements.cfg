CONSTANTS
  m1 = m1
  m2 = m2
  NoMember = NoMember
  NoSet = NoSet
  Members = {m1, m2}
  Requests = {1, 2}
  Tasks = {1, 2}
  MaxRetries = 1
  MaxLost = 1
  MaxTurns = 1
SPECIFICATION Spec
INVARIANTS
  TypeOK
  SentWasMailed
  MailedOnce
PROPERTIES
  FanOutEnds
CHECK_DEADLOCK FALSE
