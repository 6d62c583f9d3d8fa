CONSTANTS
  s1 = s1
  h1 = h1
  f1 = f1
  f2 = f2
  Pools = {s1, h1}
  Syslog = {s1}
  Healthy = {h1}
  Scenes <- QuietScenes
  Forwarders = {f1}
  BufferSize = 1
  QueueSize = 1
SPECIFICATION FairSpec
CHECK_DEADLOCK FALSE
\* Each of the following is violated: make one of them active at a time.
PROPERTY MessagesMove
\* PROPERTY MainReturns
