CONSTANTS
  a = a
  b = b
  s = s
  d = d
  k1 = k1
  i1 = i1
  i2 = i2
  Dash = Dash
  Default <- NameDefault
  Requests = {1, 2, 3}
  Calls <- DashedCalls
  Ids = {i1, i2}
  SessionIds = {k1}
  MaxFaults = 1
  Lines <- DashedLines
  MaxLoops = 1
  MaxHeard = 1
  MaxExits = 1
SPECIFICATION FairSpec
CHECK_DEADLOCK FALSE
\* Violated with these calls and lines, and with JoinedCalls and JoinedLines.
INVARIANT ShownAsDrained
