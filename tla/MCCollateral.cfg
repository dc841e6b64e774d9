\* Two executors, two accounts, two reclaims; no symmetry, for the liveness property.
SPECIFICATION FairSpec
CONSTANTS
  k1 = k1
  k2 = k2
  a1 = a1
  a2 = a2
  NoOne = NoOne
  MayRefuse = {a2}
  Keys = {k1, k2}
  Accounts = {a1, a2}
  Amounts = {1, 2}
  Timeouts = {1, 2}
  MaxTime = 3
  MaxReclaims = 2
  MaxBalance = 2
INVARIANTS TypeOK PendingMatchesReclaims Solvent UnslashedIsCovered
PROPERTIES EndsByItsDeadline ReclaimsEnd
