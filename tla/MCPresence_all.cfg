SPECIFICATION FairSpec
CONSTANTS
  Players = {p, q}
  Self = Self
  Spots = {here, there}
  Entities = {e1, e2, e3}
  Garbage = Garbage
  None = None
  Timeout = 1
  MaxAir = 1
  MaxWaiting = 2
INVARIANT WorldShowsRemotes
PROPERTIES OnlyTheSilentVanish DepartedVanish
CHECK_DEADLOCK FALSE
