SPECIFICATION MediaSpec
CONSTANTS
  totalParts = 3
  maxConcurrentUploads = 2
  partRetryLimit = 2
  MaxStarts = 2
  Patient = TRUE
  MaxDrops = 1
  h1 = h1
  h2 = h2
  ch = ch
  None = None
  Watchers = {h1, h2}
  Channels = {ch}
  ChannelOf <- OneChannel
  MaxPolls = 2
  MaxEchoes = 2
INVARIANTS
  MediaTypeOK
  CompleteIsWhole
  EachPartOnce
  CallsBackOnce
PROPERTIES
  StartSettles
  WatchSettles
CHECK_DEADLOCK FALSE
