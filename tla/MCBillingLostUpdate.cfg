CONSTANTS
  w1 = w1
  w2 = w2
  u1 = u1
  u2 = u2
  NoAccount = NoAccount
  NoId = NoId
  Workers = {w1, w2}
  Users = {u1}
  ApplyAmounts = {2}
  Costs = {1}
  HasDuration = {TRUE, FALSE}
  Serialise = FALSE
  AllowFailures = FALSE
  MaxRequests = 2
  MaxReservations = 1
  MaxRentals = 1
SPECIFICATION Spec
SYMMETRY Symmetry
INVARIANTS Conserved
\* the bounded number of requests runs out
CHECK_DEADLOCK FALSE
