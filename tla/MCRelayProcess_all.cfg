SPECIFICATION FairSpec
CONSTANTS
  None = None
  Torn = Torn
  HistoryLen = 2
  MaxMishaps = 2
  MaxPending = 2
  MaxConns = 2
  MaxMessages = 3
  MaxSamples = 4
INVARIANTS IdentityKept StatsTrue
PROPERTIES ComesBack
CHECK_DEADLOCK FALSE
