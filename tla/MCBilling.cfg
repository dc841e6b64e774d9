CONSTANTS
  w1 = w1
  w2 = w2
  u1 = u1
  u2 = u2
  NoAccount = NoAccount
  NoId = NoId
  Workers = {w1, w2}
  Users = {u1}
  ApplyAmounts = {2}
  Costs <- SignedCosts
  HasDuration = {TRUE, FALSE}
  Serialise = FALSE
  AllowFailures = TRUE
  MaxRequests = 5
  MaxReservations = 2
  MaxRentals = 1
SPECIFICATION Spec
SYMMETRY Symmetry
INVARIANTS TypeOK NoCreditFromNothing
PROPERTIES NeverPendingAgain
\* the bounded number of requests runs out
CHECK_DEADLOCK FALSE
