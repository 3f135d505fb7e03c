\* Two scopes, four sessions, one amount.
CONSTANTS
  equities = equities
  pool1 = pool1
  consumer = consumer
  jobs = jobs
  a1 = a1
  a2 = a2
  nobody = nobody
  Equities = equities
  Scopes = {equities, pool1}
  Consumer = consumer
  DailyJobs = jobs
  Admins = {a1, a2}
  Nobody = nobody
  Amounts = {1}
  Opening = 0
  MaxBalance = 1
SYMMETRY AdminSymmetry
SPECIFICATION Spec
PROPERTIES
  CommitBooksItsMovements
