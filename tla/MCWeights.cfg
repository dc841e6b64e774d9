CONSTANTS
  m1 = m1
  m2 = m2
  m3 = m3
  A = A
  B = B
  Miners = {m1, m2}
  BurnUid = m3
  Categories = {A, B}
  Full = 10000
  Tolerance = 1
  Burns <- SomeBurns
  Shares <- SomeShares
  MaxScore = 2
  MaxMinMiners = 2
  Interval = 2
  MaxAttempts = 2
  MaxTries = 2
  MaxNow = 4
  MaxFaults = 2
SPECIFICATION FairSpec
INVARIANTS PaidOnce AllocationExact FairUpToRounding
PROPERTIES VersionsGrow RoundsSpaced DueRoundsHappen
