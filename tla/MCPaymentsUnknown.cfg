CONSTANTS
  u1 = u1
  u2 = u2
  h1 = h1
  h2 = h2
  d1 = d1
  d2 = d2
  m1 = m1
  m2 = m2
  NoAccount = NoAccount
  NoBlock = NoBlock
  NoRow = NoRow
  NoUser = NoUser
  Users = {u1}
  Handlers = {h1}
  Monitors = {m1}
  Dispatchers = {d1}
  RefreshEvery = 2
  BatchSize = 1
  MaxAccounts = 1
  MaxBlocks = 1
  MaxFailures = 0
SPECIFICATION Spec
SYMMETRY Symmetry
INVARIANTS DepositsObserved
\* every block is finalized and every deposit dispatched: nothing is left to do
CHECK_DEADLOCK FALSE
