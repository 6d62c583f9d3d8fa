CONSTANTS
  MaxPackets = 3
  QueueSize = 2
  MaxFailing = 2
SPECIFICATION Spec
CHECK_DEADLOCK FALSE
INVARIANTS
  CloseKeepsProcess
