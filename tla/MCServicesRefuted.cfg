CONSTANTS
  a = a
  b = b
  s = s
  d = d
  k1 = k1
  i1 = i1
  i2 = i2
  Dash = Dash
  Default <- NameDefault
  Requests = {1, 2, 3}
  Calls <- MCCalls
  Ids = {i1, i2}
  SessionIds = {k1}
  MaxFaults = 1
  Lines <- MCLines
  MaxLoops = 1
  MaxHeard = 1
  MaxExits = 1
SPECIFICATION FairSpec
CHECK_DEADLOCK FALSE
\* Each of the following is violated: make one of them active at a time.
INVARIANT DeletionMeansGone
\* INVARIANT DeletesOfItsKey
\* INVARIANT FailedLeavesNothing
\* PROPERTY IdleSessionEnds
\* PROPERTY ProducerUsedOpen
