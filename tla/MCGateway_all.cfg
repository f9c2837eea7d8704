SPECIFICATION FairSpec
CONSTANTS
  a = a
  b = b
  pos = pos
  chat = chat
  Swarm = Swarm
  None = None
  Conns = {a, b}
  Topics = {pos, chat}
  TopicOf <- MCTopicOf
  Cap = 2
  Budget <- MCBudget
INVARIANTS TypeOK NoLostWakeup ClientOrderKept QueueIsNewest LiveRegisteredOnce
PROPERTIES ImplementsFeed QueueServed OfferedToMesh
CHECK_DEADLOCK FALSE
