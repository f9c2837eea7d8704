SPECIFICATION FairSpec
CONSTANTS
  game = game
  p = p
  q = q
  HostTopics = {game}
  ConfigTopics = {game}
  Chat = Chat
  Identity = Identity
  Peers = {p, q}
  Remotes = {r}
  Self = Self
  None = None
  Poll = Poll
  Cap = 2
  HistoryCap = 1
  MaxSent <- MCSentOut
  MaxArrived <- MCNone
  MaxChanges <- MCChangesOut
INVARIANTS OutboxSound SentOrderKept LostOnlyByOverflow ViewCatchesUp
PROPERTY OutboxFlushed
CHECK_DEADLOCK FALSE
