CONSTANTS
  w1 = w1
  w2 = w2
  c1 = c1
  c2 = c2
  c3 = c3
  c4 = c4
  c5 = c5
  c6 = c6
  NoWorker = NoWorker
  NoChunk = NoChunk
  Workers = {w1, w2}
  Chunks = {c1, c2, c3, c4, c5, c6}
  Plan <- DisjointPlans
  LockPattern <- PrefixPattern
  WarmCaches <- ColdCache
  MaxPreDownload = 2
  MaxCacheSize = 4
  NumNodes = 1
  SlowDownloads = FALSE
  WaitsExpire = FALSE
  MayAbandon = FALSE
SPECIFICATION FairSpec
INVARIANT CountExact
INVARIANT PrefetchedStays
INVARIANT NobodyFails
INVARIANT CacheWithinLimit
PROPERTY EpochEnds
PROPERTY ImplementsBuffer
