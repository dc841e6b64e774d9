CONSTANTS
  t1 = t1
  t2 = t2
  m1 = m1
  m2 = m2
  e1 = e1
  a1 = a1
  g1 = g1
  Tasks = {t1, t2}
  Claims <- MCClaims
  Gpus = {g1}
  MaxResults = 2
SPECIFICATION FairSpec
INVARIANTS TypeOK AssignmentIsVouched
PROPERTIES RowsSettle
