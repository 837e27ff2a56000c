SPECIFICATION FairSpec
CONSTANTS
  NumZones = 2
  MaxZoneChunks = 1
  Threads = {w1, w2, e}
  Workers = {w1, w2}
  MaxNrActiveZones = 2
  Backend = "ZNS"
  Faults = {}
  MaxInvalid = 8
  Ids = {d0, d1, d2}
  NULL = NULL
  ZeroId = d0
  Blank = Blank
  Torn = Torn
  WorkloadMax = 3
  EVICT_HIGH_THRESH_ZONES = 0
  EVICT_LOW_THRESH_ZONES = 1
  EVICT_HIGH_THRESH_CHUNKS = 1
  EVICT_LOW_THRESH_CHUNKS = 1
  UintMod = 64
INVARIANTS
  FullZonesQueued
  EvictBudgetFits
PROPERTIES
  ChunkCallsRespectZsm
  WorkloadCompletesUnlessMoved
CHECK_DEADLOCK FALSE
