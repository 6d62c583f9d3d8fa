CONSTANTS
  web = web
  worker = worker
  c1 = c1
  c2 = c2
  Tags <- MCTags
  Hash <- MCHash
  Tag <- MCTag
  MaxPackets = 4
  BufferSize = 2
  QueueSize = 1
  MaxConnections = 2
  Connectors = {c1, c2}
SPECIFICATION FairSpec
CHECK_DEADLOCK FALSE
INVARIANTS
  EachPacketOnce
  SamePoolInOrder
PROPERTIES
  SentIsDelivered
  CloseReturns
