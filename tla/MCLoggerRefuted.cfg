CONSTANTS
  MaxPackets = 3
  QueueSize = 2
  MaxFailing = 2
SPECIFICATION FairSpec
CHECK_DEADLOCK FALSE
\* Each of the following is violated: make one of them active at a time.
INVARIANT ClosedLeavesNoConnection
\* PROPERTY DetectedErrorIsSent
