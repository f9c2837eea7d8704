SPECIFICATION FairSpec
CONSTANTS
  Instances = {A, B}
  Accounts = {x, y}
  None = None
  MaxOpens = 2
  MaxClients = 2
  MaxGrants = 2
  MaxPast = 4
INVARIANTS TypeOK CodeAtHome
PROPERTIES UnsignedOnlyAfterEnd ApprovedIsBound
CHECK_DEADLOCK FALSE
