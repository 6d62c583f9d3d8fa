CONSTANTS
  space = space
  offsets = offsets
  AppLogs = AppLogs
  Topics <- MCTopics
  Internal = {offsets}
  Channels <- MCChannels
  Channel <- MCChannel
  MaxDrained = 1
  MaxMessages <- MCMessages
  MaxFaults <- MCFaults
SPECIFICATION Spec
\* Each of the following is violated: make one of them active at a time.
INVARIANT SafelyClosed
\* INVARIANT RefreshUsesClient
\* INVARIANT CloseIsFinal
