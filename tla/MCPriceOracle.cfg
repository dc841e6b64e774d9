CONSTANTS
  c1 = c1
  Callers = {c1}
  Refresher = Refresher
SPECIFICATION FairSpec
PROPERTIES FetchingCallsReturn
\* a call that fetches stops its process: the tasks wait for one another
CHECK_DEADLOCK FALSE
