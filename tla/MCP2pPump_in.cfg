SPECIFICATION Spec
CONSTANTS
  game = game
  p = p
  q = q
  HostTopics = {game, lobby}
  ConfigTopics = {}
  Chat = Chat
  Identity = Identity
  Peers = {p}
  Remotes = {r}
  Self = Self
  None = None
  Poll = Poll
  Cap = 2
  HistoryCap = 1
  MaxSent <- MCSentIn
  MaxArrived <- MCArrivedIn
  MaxChanges <- MCNone
INVARIANT TypeOK
PROPERTY ImplementsChannel
CHECK_DEADLOCK FALSE
