SPECIFICATION Spec
CONSTANTS
  game = game
  p = p
  q = q
  HostTopics = {game}
  ConfigTopics = {game}
  Chat = Chat
  Identity = Identity
  Peers = {p}
  Remotes = {r}
  Self = Self
  None = None
  Poll = Poll
  Cap = 1
  HistoryCap = 1
  MaxSent <- MCSentOut
  MaxArrived <- MCNone
  MaxChanges <- MCChangesOut
PROPERTIES QueuedUntilMeshed
CHECK_DEADLOCK FALSE
