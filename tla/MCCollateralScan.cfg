CONSTANTS
  k1 = k1
  k2 = k2
  a1 = a1
  NoOne = NoOne
  MayRefuse = {}
  Keys = {k1, k2}
  Accounts = {a1}
  Amounts = {1}
  Timeouts = {1}
  MaxTime = 4
  MaxReclaims = 1
  MaxBalance = 2
  MaxBlocksPerScan = 1
  MaxEvents = 3
  MaxFailures = 2
SPECIFICATION SystemSpec
INVARIANTS TableIsExact
PROPERTIES BlocksAreScanned
\* the bounded number of blocks runs out
CHECK_DEADLOCK FALSE
