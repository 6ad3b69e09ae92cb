CONSTANTS
  m1 = m1
  m2 = m2
  monthly = monthly
  annual = annual
  s1 = s1
  s2 = s2
  NoMember = NoMember
  NoFrequency = NoFrequency
  Idle = Idle
  Free = Free
  Members = {m1, m2}
  Frequencies = {monthly, annual}
  Sessions = {s1, s2}
  MaxRuns = 3
  MaxChanges = 1
SYMMETRY Interchangeable
SPECIFICATION Spec
INVARIANTS
  TypeOK
  BilledOnce
PROPERTIES
  ImplementsPeriodLedger
CHECK_DEADLOCK FALSE
