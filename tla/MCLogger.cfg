CONSTANTS
  MaxPackets = 3
  QueueSize = 2
  MaxFailing = 2
SPECIFICATION FairSpec
CHECK_DEADLOCK FALSE
INVARIANTS
  OldConnectionsEnd
PROPERTIES
  QueuedIsWritten
  CloseStopsWriter
  ImplementsOrderedLine
