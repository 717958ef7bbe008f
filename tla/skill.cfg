SPECIFICATION MCSpec
CHECK_DEADLOCK FALSE
CONSTANTS
  m1 = m1
  m2 = m2
  m3 = m3
  m4 = m4
  e1 = e1
  own1 = own1
  None = None
  Idle = Idle
  Merchants = {m1, m2, m3, m4}
  Records <- AllRecords
  MaxTime = 3
  MaxQuotes = 4
  Packets = {1, 2}
  Importers = {i1, i2}
INVARIANTS
  PaidAsApproved
  PaidWasVerified
  PaidOnce
  SearchesAreFair
  ImportedIsLogged
