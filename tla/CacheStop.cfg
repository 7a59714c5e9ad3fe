CONSTANTS
  w1 = w1
  w2 = w2
  c1 = c1
  c2 = c2
  c3 = c3
  c4 = c4
  c5 = c5
  c6 = c6
  NoWorker = NoWorker
  NoChunk = NoChunk
  Workers = {w1}
  Chunks = {c1, c2, c3}
  Plan <- OnePlan3
  LockPattern <- PrefixPattern
  WarmCaches <- ColdCache
  MaxPreDownload = 2
  MaxCacheSize = 2
  NumNodes = 1
  SlowDownloads = TRUE
  WaitsExpire = FALSE
  MayAbandon = FALSE
SPECIFICATION FairSpec
PROPERTY StopEndsThread
