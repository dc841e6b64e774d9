CONSTANTS
  h1 = h1
  h2 = h2
  v1 = v1
  v2 = v2
  e1 = e1
  k1 = k1
  Handlers = {h1, h2}
  Validators = {v1}
  OtherHotkeys = {v2}
  Executors = {e1}
  Keys = {k1}
  MaxSessions = 1
  RateLimit = 2
  Window = 1
  MaxDuration = 1
  MaxIds = 2
  MaxRestarts = 2
SPECIFICATION FairSpec
INVARIANTS OvershootBounded RateBounded
PROPERTIES EndedByItsHotkeyOrTime SessionsEnd
