CONSTANTS
  w1 = w1
  w2 = w2
  u1 = u1
  u2 = u2
  NoAccount = NoAccount
  NoId = NoId
  Workers = {w1, w2}
  Users = {u1, u2}
  ApplyAmounts <- DepositAndDebit
  Costs <- CostsOfEitherSign
  HasDuration = {TRUE}
  Serialise = TRUE
  AllowFailures = TRUE
  MaxRequests = 4
  MaxReservations = 2
  MaxRentals = 1
SPECIFICATION Spec
SYMMETRY Symmetry
INVARIANT Conserved
PROPERTIES TerminalIsFinal ImplementsLedger
\* the bounded number of requests runs out
CHECK_DEADLOCK FALSE
