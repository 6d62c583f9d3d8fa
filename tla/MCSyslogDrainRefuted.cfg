CONSTANTS
  web = web
  worker = worker
  c1 = c1
  c2 = c2
  Tags <- MCTags
  Hash <- MCHash
  Tag <- MCTag
  MaxPackets = 4
  BufferSize = 2
  QueueSize = 1
  MaxConnections = 2
  Connectors = {c1, c2}
SPECIFICATION Spec
CHECK_DEADLOCK FALSE
\* Each of the following is violated: make one of them active at a time.
INVARIANT ClosedMeansNoConnection
\* INVARIANT ConnectionsBounded
\* INVARIANT SameTagInOrder
