SPECIFICATION FairSpec
CONSTANTS
  alice = alice
  bob = bob
  None = None
  Accounts = {alice, bob}
  FlowTtl = 2
  Rounds = 1
  MaxLogins = 1
  MaxFlows = 2
  MaxTries = 2
  MaxRestarts = 1
INVARIANTS   NeverRefused
PROPERTY LoginSurvivesCoop
CHECK_DEADLOCK FALSE
