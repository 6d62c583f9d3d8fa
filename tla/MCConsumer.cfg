CONSTANTS
  space = space
  offsets = offsets
  AppLogs = AppLogs
  Topics <- MCTopics
  Internal = {offsets}
  Channels <- MCChannels
  Channel <- MCChannel
  MaxDrained = 1
  MaxMessages <- MCMessages
  MaxFaults <- MCFaults
SPECIFICATION FairSpec
INVARIANTS
  TakenOnceInOrder
  NothingSkipped
  OpenMeansAlive
PROPERTIES
  RecoveryEnds
  EachMessageTaken
