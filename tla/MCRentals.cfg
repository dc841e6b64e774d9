CONSTANTS
  w1 = w1
  w2 = w2
  Workers = {w1, w2}
  MaxRentals = 2
  MaxFaults = 2
SPECIFICATION FairSpec
INVARIANTS TypeOK StopIsEffective
PROPERTIES EndedForGood DeadRentalsEnd
