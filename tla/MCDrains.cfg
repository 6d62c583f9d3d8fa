CONSTANTS
  r1 = r1
  r2 = r2
  r3 = r3
  r4 = r4
  r5 = r5
  syslog = syslog
  http = http
  ftp = ftp
  Routes <- MCRoutes
  Urls <- MCUrls
  Url <- MCUrl
  Supported <- MCSupported
  Flaky <- MCFlaky
  MaxPools = 2
SPECIFICATION FairSpec
INVARIANTS
  CountIsHolders
  NoUseAfterClose
  PoolsAccounted
  KeysMatchDrains
PROPERTIES
  DialReturns
  ImplementsSharedPools
