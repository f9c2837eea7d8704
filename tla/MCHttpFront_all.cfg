SPECIFICATION FairSpec
CONSTANTS
  PeekSize = 4
  ReadSize = 2
  Limit = 6
  Blank = 1
  Requests <- MCRequests
INVARIANTS TypeOK UpgradeHandedOver RoutedWhole
PROPERTY ArrivedIsAnswered
CHECK_DEADLOCK FALSE
