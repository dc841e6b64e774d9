CONSTANTS
  u1 = u1
  u2 = u2
  h1 = h1
  h2 = h2
  d1 = d1
  d2 = d2
  m1 = m1
  m2 = m2
  NoAccount = NoAccount
  NoBlock = NoBlock
  NoRow = NoRow
  NoUser = NoUser
  Users = {u1, u2}
  Handlers = {h1, h2}
  Monitors = {m1, m2}
  Dispatchers = {d1, d2}
  RefreshEvery = 2
  BatchSize = 2
  MaxAccounts = 2
  MaxBlocks = 2
  MaxFailures = 1
SPECIFICATION FairSpec
INVARIANTS AddressStable QueuedWithObserved DispatchedWasApplied OneCreditPerLease
PROPERTIES AllDispatched
\* every block is finalized and every deposit dispatched: nothing is left to do
CHECK_DEADLOCK FALSE
