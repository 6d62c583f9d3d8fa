CONSTANTS
  t = t
  g1 = g1
  g2 = g2
  g3 = g3
  Threshold = 1
  Ticker = t
  Spawned <- MCSpawned
  MaxPackets = 4
SPECIFICATION FairSpec
PROPERTIES
  ClosedIsFlushed
