CONSTANTS
  NumRequests = 3
  Concurrency = 2
  MaxChunks = 2
  MaxLatency = 2
SPECIFICATION FairSpec
INVARIANTS TypeOK OnlyEndedStreamsCount OnlyUncaughtErrorsCostTheReport PercentilesAreRanks
PROPERTIES RunEnds
CHECK_DEADLOCK FALSE
