CONSTANTS
  r1 = r1
  r2 = r2
  r3 = r3
  r4 = r4
  app = app
  site = site
  syslog = syslog
  http = http
  f1 = f1
  f2 = f2
  Routes <- MCRoutes
  Urls <- MCUrls
  Url <- MCUrl
  Supported <- MCUrls
  Flaky = {syslog}
  MaxPools = 6
  Keys <- MCKeys
  Key <- MCKey
  Disallowed = {}
  Forwarders = {f1}
  Slots <- MCSlots
  MaxStale = 1
  MaxRestarts = 0
SPECIFICATION Spec
INVARIANTS
  SentOnceDespiteRemoval
