CONSTANTS
  w1 = w1
  w2 = w2
  c1 = c1
  c2 = c2
  c3 = c3
  c4 = c4
  c5 = c5
  c6 = c6
  NoWorker = NoWorker
  NoChunk = NoChunk
  Workers = {w1}
  Chunks = {c1, c2, c3, c4, c5, c6}
  Plan <- OnePlan6
  LockPattern <- PrefixPattern
  WarmCaches <- ColdCache
  MaxPreDownload = 4
  MaxCacheSize = 4
  NumNodes = 1
  SlowDownloads = FALSE
  WaitsExpire = FALSE
  MayAbandon = FALSE
SPECIFICATION Spec
INVARIANT CacheWithinLimit
