CONSTANTS
  s1 = s1
  h1 = h1
  f1 = f1
  f2 = f2
  Pools = {s1, h1}
  Syslog = {s1}
  Healthy = {s1, h1}
  Scenes <- SignalScenes
  Forwarders = {f1}
  BufferSize = 1
  QueueSize = 1
SPECIFICATION FairSpec
INVARIANT ExitsFlushed
CHECK_DEADLOCK FALSE
